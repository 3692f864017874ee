------------------------- MODULE MCErpnextUpgrade -------------------------
(* Small instances of ErpnextUpgrade for TLC.                              *)
EXTENDS ErpnextUpgrade

Releases == 1..3
Oldest == 1
Ledger == 1..2

=============================================================================
