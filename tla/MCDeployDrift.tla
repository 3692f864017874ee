--------------------------- MODULE MCDeployDrift ---------------------------
(* Small instances of DeployDrift for TLC.                                 *)
EXTENDS DeployDrift

CONSTANTS h1, h2, r1, r2

Everywhere == [h \in Host |-> Role]
\* One role each.
Apart == [h \in Host |-> IF h = h1 THEN {r1} ELSE {r2}]

=============================================================================
