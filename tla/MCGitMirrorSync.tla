-------------------------- MODULE MCGitMirrorSync --------------------------
(* Small instances of GitMirrorSync for TLC; the constants are in the .cfg  *)
(* files.                                                                  *)
EXTENDS GitMirrorSync

=============================================================================
