------------------------------ MODULE Mirrors ------------------------------
(***************************************************************************)
(* What the mirrors are to GitHub, for whoever reads them: main of each    *)
(* goes forward along GitHub's main and nowhere else, whoever pushes; one  *)
(* that got a commit of its own stays as it is.  GitMirrorSync is shown to *)
(* implement this.                                                         *)
(***************************************************************************)
EXTENDS Naturals

CONSTANTS
    Repo,      \* the repositories
    Remote     \* where each has a mirror

VARIABLES
    github,    \* github[r]: the newest commit of main, 0 when it is not there
    has,       \* has[p]: the newest of GitHub's commits that mirror p has
    stray      \* the mirrors with a commit of their own on top

vars == <<github, has, stray>>

Mirror == Repo \X Remote

Init ==
    /\ github \in [Repo -> Nat] /\ has \in [Mirror -> Nat]
    /\ stray = {}

\* GitHub's main gets another commit.
Merge(r) ==
    /\ github[r] # 0
    /\ github' = [github EXCEPT ![r] = @ + 1]
    /\ UNCHANGED <<has, stray>>

\* A mirror gets what GitHub has by now, or has had.
Follow(p) ==
    /\ p \notin stray
    /\ \E c \in (has[p] + 1)..github[p[1]] : has' = [has EXCEPT ![p] = c]
    /\ UNCHANGED <<github, stray>>

\* A commit made on a mirror.
Part(p) ==
    /\ p \notin stray
    /\ stray' = stray \cup {p}
    /\ UNCHANGED <<github, has>>

Next ==
    \/ \E r \in Repo : Merge(r)
    \/ \E p \in Mirror : Follow(p) \/ Part(p)

Spec == Init /\ [][Next]_vars

=============================================================================
