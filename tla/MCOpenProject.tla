--------------------------- MODULE MCOpenProject ---------------------------
(* Small instances of OpenProject for TLC; the constants are in the .cfg   *)
(* file.                                                                   *)
EXTENDS OpenProject

Items == {41, 42}

=============================================================================
