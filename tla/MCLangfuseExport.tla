-------------------------- MODULE MCLangfuseExport --------------------------
(* Small instances of LangfuseExport for TLC.                              *)
EXTENDS LangfuseExport

CONSTANTS c, a, known, other

\* Two counters, of which token-usage.py does not look at the second.
Counts(out, thinking) == [k \in Counter |-> IF k = "output" THEN out ELSE thinking]
Amounts == {Counts(0, 0), Counts(1, 0), Counts(1, 1)}
Uses == ({known} \X Amounts) \cup {<<other, Counts(1, 0)>>}
Lines == [f \in File |-> IF f = c THEN 2 ELSE 1]

=============================================================================
