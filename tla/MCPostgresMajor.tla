-------------------------- MODULE MCPostgresMajor --------------------------
(* Small instances of PostgresMajor for TLC.                               *)
EXTENDS PostgresMajor

CONSTANTS s1, s2, old, new, anon, schema

Entry(m, l) == [major |-> m, loc |-> l]
Before == [s \in Service |-> Entry(15, old)]       \* every service on 15
After  == [s \in Service |-> Entry(18, new)]       \* the change done as asked
Bump   == [s \in Service |-> Entry(17, old)]       \* the image bump alone
Astray == [s \in Service |-> Entry(18, anon)]      \* the same, from 18 on

Newest == 18
Majors == {15, 18}
NewestBump == 17
BumpMajors == {15, 17}
OneCheckout == {Before}
TwoCheckouts == {Before, After}
BumpCheckouts == {Before, Bump}
AstrayCheckouts == {Before, Astray}

=============================================================================
