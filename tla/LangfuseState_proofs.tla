------------------------ MODULE LangfuseState_proofs ------------------------
(***************************************************************************)
(* What the state file says of LangFuse: type correctness, and the safety  *)
(* properties of the exporter that relate the two.                         *)
(***************************************************************************)
EXTENDS LangfuseExport_proofs, FiniteSetTheorems

-----------------------------------------------------------------------------
(* The invariant.                                                           *)

\* What TypeOK leaves open.
Tables == UNION {[D -> Nat] : D \in SUBSET Nat}
Item == [mark : Marks, left : SUBSET Nat, spans : Tables]

Typed ==
    /\ TypeOK /\ LogKnown
    /\ \A f \in File : Len(log[f]) <= MaxLines[f]
    /\ Known \subseteq priced
    /\ held = [f \in File |-> held[f]]
    /\ pending \in [File -> Item]
    /\ \A f \in File : \A n \in DOMAIN pending[f].spans :
         n \in Position(f) /\ pending[f].spans[n] \in 1..MaxLines[f]

\* A mark m that was taken before the file had mark M.
Upto(m, M) == m[1] < M[1] \/ (m[1] = M[1] /\ (m[2] => M[2]))

\* LangFuse holds the calls under their own ids, and no session ends later than
\* the last of its calls.
HeldTrue(P, spans, h) ==
    /\ \A n \in P \ {Root} : h[n] # 0 => n \in DOMAIN spans /\ h[n] = spans[n]
    /\ h[Root] # 0 => Root \in DOMAIN spans /\ h[Root] <= spans[Root]
HeldKnown == \A f \in File : Steady(f) => HeldTrue(Position(f), Spans(f), held[f])

\* An entry of the state, in the file or in memory: what it is, what it says is
\* held, and what it says of a file that has not changed.
EntryShape(e, M, P) ==
    /\ e.kind # "none" => Upto(e.mark, M)
    /\ e.kind # "entry" => e.sent = {}
    /\ e.sent # {} => Root \in e.sent
    /\ e.sent \subseteq P
EntryHeld(e, h) == \A n \in e.sent : h[n] # 0
EntryTrue(e, M, spans, h) ==
    /\ \A n \in e.sent : h[n] <= h[Root]
    /\ e.kind # "none" /\ e.mark = M =>
         \A n \in DOMAIN spans : h[n] # 0 /\ (e.kind = "legacy" => h[n] <= h[Root])
EntryOk(e, f) ==
    /\ EntryShape(e, Mark(f), Position(f))
    /\ f \notin raced => EntryHeld(e, held[f])
    /\ f \notin raced /\ Steady(f) => EntryTrue(e, Mark(f), Spans(f), held[f])
StateKnown == \A f \in File : EntryOk(disk[f], f) /\ EntryOk(mem[f], f)

\* A file that is being sent, or waits for it.
ItemShape(p, M) ==
    /\ Upto(p.mark, M)
    /\ Root \in DOMAIN p.spans
    /\ \A n \in DOMAIN p.spans : p.spans[n] <= p.spans[Root]
ItemHeld(p, h) == \A n \in DOMAIN p.spans \ p.left : h[n] # 0
ItemTrue(p, M, spans, h) ==
    /\ \A n \in DOMAIN p.spans \ {Root} : n \in DOMAIN spans /\ p.spans[n] = spans[n]
    /\ Root \in DOMAIN spans /\ p.spans[Root] <= spans[Root]
    /\ h[Root] <= p.spans[Root]
    /\ Root \notin p.left => h[Root] = p.spans[Root]
    /\ p.mark = M => p.spans = spans
ItemOk(p, f) ==
    /\ ItemShape(p, Mark(f))
    /\ f \notin raced => ItemHeld(p, held[f])
    /\ Steady(f) => ItemTrue(p, Mark(f), Spans(f), held[f])
SendingKnown == \A f \in File : pending[f].left # {} => ItemOk(pending[f], f)

\* Which files a run has not come to yet.
RunKnown ==
    /\ pc = "read" => Upto(mark, Mark(now)) /\ now \notin todo /\ pending[now].left = {}
    /\ \A f \in todo : pending[f].left = {}
    /\ pc \in {"idle", "write"} => \A f \in File : pending[f].left = {}

\* What the state, the run and LangFuse say of each other.
Related == Typed /\ HeldKnown /\ StateKnown /\ SendingKnown /\ RunKnown

\* Only a file that is being sent, or has been, is touched.
TouchedKnown ==
    /\ pc = "idle" => Touched = {}
    /\ Touched \cap todo = {}
    /\ pc = "read" => now \notin Touched
    /\ pc = "write" => torn

\* A call of a file that is not excused is named by the state, in the file and in
\* memory, or has been sent by this run.
Names(e, n) == e.kind = "legacy" \/ n \in e.sent
Accounted(f, n) ==
    /\ pc # "write" /\ f \notin Touched => Names(disk[f], n)
    /\ pc # "idle" /\ pending[f].left = {} => Names(mem[f], n)
    /\ pending[f].left # {} => n \in DOMAIN pending[f].spans \ pending[f].left
HeldAccounted(f, n) ==
    /\ pending[f].left # {} => n \in DOMAIN pending[f].spans
    /\ f \notin excused => Accounted(f, n)
Accounts ==
    \A f \in File : Steady(f) =>
        \A n \in Position(f) \ {Root} : held[f][n] # 0 => HeldAccounted(f, n)

CauseKnown == TouchedKnown /\ Accounts

ExportInv == Related /\ CauseKnown

-----------------------------------------------------------------------------
(* Numbering a set of lines.                                                *)

HIDE ExportTyped DEF File, Zero

Num(S, i) == Cardinality({j \in S : j <= i})
SpansOf(S) ==
    [n \in IF S = {} THEN {} ELSE {Root} \cup {Num(S, i) : i \in S} |->
        IF n = Root THEN Last(S) ELSE CHOOSE i \in S : Num(S, i) = n]

LEMMA SpansAreOf == ASSUME NEW f PROVE Spans(f) = SpansOf(Calls(f))
BY DEF Spans, SpansOf, Id, Num

\* Numbers go up with the lines.
LEMMA NumFacts ==
  ASSUME NEW N \in Nat, NEW S \in SUBSET (1..N)
  PROVE  /\ \A i \in S : Num(S, i) \in 1..N
         /\ \A i, j \in S : i < j => Num(S, i) < Num(S, j)
<1>0. \A i \in S : i \in Nat /\ i \in 1..N
  OBVIOUS
<1>1. IsFiniteSet(1..N) /\ Cardinality(1..N) = N
  BY FS_Interval
<1>2. ASSUME NEW T, T \subseteq 1..N
      PROVE  IsFiniteSet(T) /\ Cardinality(T) \in Nat /\ Cardinality(T) <= N
  BY <1>1, <1>2, FS_Subset, FS_CardinalityType
<1>3. ASSUME NEW i \in S PROVE Num(S, i) \in 1..N
  <2>1. {j \in S : j <= i} \subseteq 1..N
    OBVIOUS
  <2>0. i \in {j \in S : j <= i}
    BY <1>0
  <2>2. Cardinality({j \in S : j <= i}) # 0
    BY <1>2, <2>0, <2>1, FS_EmptySet
  <2> QED BY <1>2, <2>1, <2>2 DEF Num
<1>4. ASSUME NEW i \in S, NEW j \in S, i < j PROVE Num(S, i) < Num(S, j)
  <2> DEFINE A == {k \in S : k <= i}
             B == {k \in S : k <= j}
  <2>1. A \subseteq B /\ j \in B /\ j \notin A /\ A \subseteq 1..N /\ B \subseteq 1..N
    <3>1. \A k \in S : k <= i => k <= j
      BY <1>0, <1>4
    <3>2. j \in B /\ j \notin A
      BY <1>0, <1>4
    <3>3. A \subseteq B
      BY <3>1
    <3>4. A \subseteq 1..N
      OBVIOUS
    <3>5. B \subseteq 1..N
      OBVIOUS
    <3> HIDE DEF A, B
    <3> QED BY <3>2, <3>3, <3>4, <3>5
  <2>2. Cardinality(A) \in Nat /\ Cardinality(B) \in Nat /\ IsFiniteSet(B)
    BY <1>2, <2>1
  <2>3. Cardinality(A) <= Cardinality(B) /\ Cardinality(A) # Cardinality(B)
    BY <2>1, <2>2, FS_Subset
  <2>4. Cardinality(A) < Cardinality(B)
    BY <2>2, <2>3
  <2> QED BY <2>4 DEF Num
<1> QED BY <1>3, <1>4

\* A set of numbers that has any has a last one.
LEMMA LastFacts ==
  ASSUME NEW N \in Nat, NEW S \in SUBSET (1..N), S # {}
  PROVE  Last(S) \in S /\ \A i \in S : i <= Last(S)
<1> DEFINE f == [i \in S |-> Num(S, i)]
           c == Cardinality(S)
<1>1. IsFiniteSet(1..N)
  BY FS_Interval
<1>2. IsFiniteSet(S) /\ c \in Nat /\ c # 0
  BY <1>1, FS_Subset, FS_CardinalityType, FS_EmptySet
<1>3. ASSUME NEW i \in S PROVE Num(S, i) \in 1..c
  <2>1. {j \in S : j <= i} \subseteq S
    OBVIOUS
  <2>2. Num(S, i) \in 1..N
    BY NumFacts
  <2> QED BY <1>2, <2>1, <2>2, FS_Subset DEF Num
<1>4. \E i \in S : Num(S, i) = c
  <2> SUFFICES ASSUME \A i \in S : Num(S, i) # c PROVE FALSE
    OBVIOUS
  <2>1. \A k \in Nat : k # 0 => IsFiniteSet(1..(k - 1)) /\ Cardinality(1..(k - 1)) < k
    <3> TAKE k \in Nat
    <3>1. k - 1 \in Int /\ 1 \in Int
      OBVIOUS
    <3>2. IsFiniteSet(1..(k - 1)) /\ Cardinality(1..(k - 1)) = IF 1 > k - 1 THEN 0 ELSE k - 1 - 1 + 1
      BY <3>1, FS_Interval
    <3> QED BY <3>2
  <2>2. f \in [S -> 1..(c - 1)]
    BY <1>2, <1>3
  <2>3. \A i, j \in S : f[i] = f[j] => i = j
    BY NumFacts
  <2> HIDE DEF f, c
  <2>4. IsFiniteSet(1..(c - 1)) /\ Cardinality(1..(c - 1)) < Cardinality(S)
    BY <1>2, <2>1 DEF c
  <2> DEFINE T == 1..(c - 1)
  <2>5. IsFiniteSet(T) /\ Cardinality(T) < Cardinality(S) /\ f \in [S -> T]
    BY <2>2, <2>4
  <2> HIDE DEF T
  <2>6. \E x, y \in S : x # y /\ f[x] = f[y]
    BY <1>2, <2>5, FS_PigeonHole
  <2> QED BY <2>3, <2>6
<1>5. PICK l \in S : Num(S, l) = c
  BY <1>4
<1>6. {j \in S : j <= l} = S
  BY <1>2, <1>5, FS_Subset DEF Num
<1>7. \A i \in S : i <= l
  BY <1>6
<1> QED BY <1>5, <1>7 DEF Last

\* What the spans of a set of lines are.
LEMMA SpansFacts ==
  ASSUME NEW N \in Nat, NEW S \in SUBSET (1..N)
  PROVE  /\ SpansOf(S) \in Tables
         /\ DOMAIN SpansOf(S) \subseteq 0..N
         /\ Root \in DOMAIN SpansOf(S) <=> S # {}
         /\ DOMAIN SpansOf(S) # {} => S # {}
         /\ \A n \in DOMAIN SpansOf(S) :
              /\ SpansOf(S)[n] \in S /\ SpansOf(S)[n] <= SpansOf(S)[Root]
              /\ n # Root => Num(S, SpansOf(S)[n]) = n
         /\ \A i \in S : Num(S, i) \in DOMAIN SpansOf(S) \ {Root} /\ SpansOf(S)[Num(S, i)] = i
<1> DEFINE D == IF S = {} THEN {} ELSE {Root} \cup {Num(S, i) : i \in S}
           sp == SpansOf(S)
<1>1. /\ DOMAIN sp = D
      /\ \A n \in D : sp[n] = IF n = Root THEN Last(S) ELSE CHOOSE i \in S : Num(S, i) = n
  BY DEF SpansOf
<1>2. /\ \A i \in S : Num(S, i) \in 1..N /\ Num(S, i) # Root
      /\ \A i, j \in S : i < j => Num(S, i) < Num(S, j)
  BY NumFacts DEF Root
<1>3. \A i, j \in S : Num(S, i) = Num(S, j) => i = j
  BY <1>2
<1>4. D \subseteq 0..N /\ (Root \in D <=> S # {}) /\ (D # {} => S # {})
  <2>1. CASE S = {}
    BY <2>1
  <2>2. CASE S # {}
    <3>1. D = {Root} \cup {Num(S, i) : i \in S}
      BY <2>2
    <3>2. Root \in 0..N /\ \A i \in S : Num(S, i) \in 0..N
      BY <1>2 DEF Root
    <3> QED BY <2>2, <3>1, <3>2
  <2> QED BY <2>1, <2>2
<1> HIDE DEF sp
<1>5. ASSUME NEW i \in S PROVE Num(S, i) \in D \ {Root} /\ sp[Num(S, i)] = i
  <2>1. Num(S, i) \in D \ {Root}
    BY <1>2
  <2>2. sp[Num(S, i)] = CHOOSE j \in S : Num(S, j) = Num(S, i)
    BY <1>1, <2>1
  <2> QED BY <1>3, <2>1, <2>2
<1>6. ASSUME NEW n \in D
      PROVE  sp[n] \in S /\ sp[n] <= sp[Root] /\ (n # Root => Num(S, sp[n]) = n)
  <2>1. S # {} /\ Root \in D
    BY <1>4
  <2>2. sp[Root] \in S /\ \A i \in S : i <= sp[Root]
    <3>1. sp[Root] = Last(S)
      BY <1>1, <2>1
    <3> QED BY <2>1, <3>1, LastFacts
  <2>3. CASE n = Root
    BY <2>2, <2>3
  <2>4. CASE n # Root
    <3>1. PICK i \in S : n = Num(S, i)
      BY <2>1, <2>4
    <3> HIDE DEF D
    <3> QED BY <1>5, <2>2, <3>1
  <2> QED BY <2>3, <2>4
<1> HIDE DEF D
<1>7. sp \in Tables
  <2>1. sp = [n \in D |-> sp[n]] /\ D \subseteq Nat
    BY <1>1, <1>4 DEF sp, SpansOf, D
  <2>2. \A n \in D : sp[n] \in Nat
    <3>1. \A i \in S : i \in Nat
      OBVIOUS
    <3> QED BY <1>6, <3>1
  <2>3. sp \in [D -> Nat]
    BY <2>1, <2>2
  <2> QED BY <2>1, <2>3 DEF Tables
<1> QED BY <1>1, <1>4, <1>5, <1>6, <1>7 DEF sp

\* Lines added at the end leave the others their numbers.
LEMMA GrowFacts ==
  ASSUME NEW M \in Nat, NEW N \in Nat, NEW T \in SUBSET (1..N), M <= N,
         NEW S \in SUBSET T, \A i \in T : i \in S <=> i <= M
  PROVE  /\ \A n \in DOMAIN SpansOf(S) : n \in DOMAIN SpansOf(T)
         /\ \A n \in DOMAIN SpansOf(S) \ {Root} : SpansOf(S)[n] = SpansOf(T)[n]
         /\ Root \in DOMAIN SpansOf(S) => SpansOf(S)[Root] <= SpansOf(T)[Root]
<1>1. S \in SUBSET (1..N) /\ S \subseteq T
  OBVIOUS
<1>2. ASSUME NEW i \in S PROVE Num(S, i) = Num(T, i)
  <2>1. \A j \in T : j <= i => j <= M
    <3>1. i \in T /\ i <= M /\ \A j \in T : j \in Nat
      OBVIOUS
    <3> QED BY <3>1
  <2>2. {j \in S : j <= i} = {j \in T : j <= i}
    BY <2>1
  <2> QED BY <2>2 DEF Num
<1>3. ASSUME NEW n \in DOMAIN SpansOf(S), n # Root
      PROVE  n \in DOMAIN SpansOf(T) /\ SpansOf(S)[n] = SpansOf(T)[n]
  <2>1. SpansOf(S)[n] \in S /\ Num(S, SpansOf(S)[n]) = n
    BY <1>1, <1>3, SpansFacts
  <2>2. PICK i \in S : i = SpansOf(S)[n] /\ Num(S, i) = n
    BY <2>1
  <2>3. Num(T, i) = n /\ i \in T
    BY <1>1, <1>2, <2>2
  <2>4. n \in DOMAIN SpansOf(T) /\ SpansOf(T)[n] = i
    BY <2>3, SpansFacts
  <2> QED BY <2>2, <2>4
<1>4. ASSUME Root \in DOMAIN SpansOf(S)
      PROVE  Root \in DOMAIN SpansOf(T) /\ SpansOf(S)[Root] <= SpansOf(T)[Root]
  <2>1. S # {} /\ SpansOf(S)[Root] \in T
    BY <1>1, <1>4, SpansFacts
  <2>2. PICK i \in T : i = SpansOf(S)[Root]
    BY <2>1
  <2>3. Num(T, i) \in DOMAIN SpansOf(T) /\ SpansOf(T)[Num(T, i)] = i
    BY SpansFacts
  <2>4. SpansOf(T)[Num(T, i)] <= SpansOf(T)[Root]
    BY <2>3, SpansFacts
  <2> QED BY <2>1, <2>2, <2>3, <2>4, SpansFacts
<1> QED BY <1>3, <1>4

-----------------------------------------------------------------------------
(* Sessions grow.                                                           *)

USE ExportTyped DEF File, Zero

LEMMA LogIn ==
  ASSUME LogKnown, NEW f \in File
  PROVE  /\ log[f] \in Seq(Line) /\ Len(log[f]) \in Nat /\ DOMAIN log[f] = 1..Len(log[f])
         /\ Calls(f) \in SUBSET (1..Len(log[f]))
<1>1. log[f] \in Seq(Line)
  BY DEF LogKnown
<1>2. Len(log[f]) \in Nat /\ DOMAIN log[f] = 1..Len(log[f])
  BY <1>1
<1>3. Calls(f) \subseteq DOMAIN log[f]
  BY DEF Calls, CodexCalls, AntigravityCalls
<1> QED BY <1>1, <1>2, <1>3

\* The spans of a file as it is.
LEMMA SpansNow ==
  ASSUME LogKnown, NEW f \in File, Len(log[f]) <= MaxLines[f]
  PROVE  /\ Spans(f) \in Tables
         /\ Root \in DOMAIN Spans(f) <=> DOMAIN Spans(f) # {}
         /\ \A n \in DOMAIN Spans(f) :
              n \in Position(f) /\ Spans(f)[n] \in 1..MaxLines[f] /\ Spans(f)[n] <= Spans(f)[Root]
<1>1. Len(log[f]) \in Nat /\ Calls(f) \in SUBSET (1..Len(log[f])) /\ MaxLines[f] \in Nat
  BY LogIn
<1>2. Spans(f) = SpansOf(Calls(f))
  BY SpansAreOf
<1>3. 0..Len(log[f]) \subseteq 0..MaxLines[f] /\ 1..Len(log[f]) \subseteq 1..MaxLines[f]
  BY <1>1
<1>4. /\ Spans(f) \in Tables
      /\ DOMAIN Spans(f) \subseteq 0..Len(log[f])
      /\ Root \in DOMAIN Spans(f) <=> DOMAIN Spans(f) # {}
  BY <1>1, <1>2, SpansFacts
<1>5. \A n \in DOMAIN Spans(f) : Spans(f)[n] \in Calls(f) /\ Spans(f)[n] <= Spans(f)[Root]
  BY <1>1, <1>2, SpansFacts
<1> QED BY <1>1, <1>3, <1>4, <1>5 DEF Position

\* What may happen to a file in a step.
Grows(f) ==
    /\ priced \subseteq priced'
    /\ \/ log'[f] = log[f] /\ half'[f] = half[f]
       \/ log'[f] = log[f] /\ half[f] = FALSE /\ half'[f] = TRUE
       \/ /\ Len(log'[f]) = Len(log[f]) + 1 /\ half'[f] = FALSE
          /\ \A i \in 1..Len(log[f]) : log'[f][i] = log[f][i]

LEMMA LogGrows ==
  ASSUME LogKnown, TypeOK, NEW g \in File, NEW m, NEW t, NEW u, Log(g, m, t, u), NEW f \in File
  PROVE  Grows(f) /\ (Len(log[f]) <= MaxLines[f] => Len(log'[f]) <= MaxLines[f])
<1> DEFINE line == [model |-> m, total |-> t, used |-> u]
<1>1. /\ log' = [log EXCEPT ![g] = Append(log[g], line)] /\ half' = [half EXCEPT ![g] = FALSE]
      /\ Len(log[g]) < MaxLines[g] /\ priced' = priced
  BY DEF Log
<1> HIDE DEF line
<1>2. log \in [File -> Seq(Line)] /\ half \in [File -> BOOLEAN]
  BY DEF LogKnown, TypeOK
<1>3. CASE f # g
  <2>1. log'[f] = log[f] /\ half'[f] = half[f]
    BY <1>1, <1>2, <1>3
  <2> QED BY <1>1, <2>1 DEF Grows
<1>4. CASE f = g
  <2>1. log'[f] = Append(log[f], line) /\ half'[f] = FALSE
    BY <1>1, <1>2, <1>4
  <2>2. /\ Len(Append(log[f], line)) = Len(log[f]) + 1
        /\ \A i \in 1..Len(log[f]) : Append(log[f], line)[i] = log[f][i]
    BY <1>2
  <2>3. Len(log[f]) \in Nat /\ MaxLines[f] \in Nat
    BY <1>2
  <2>4. Len(log'[f]) = Len(log[f]) + 1 /\ \A i \in 1..Len(log[f]) : log'[f][i] = log[f][i]
    BY <2>1, <2>2
  <2>5. Grows(f)
    BY <1>1, <2>1, <2>4 DEF Grows
  <2> QED BY <1>1, <1>4, <2>3, <2>4, <2>5
<1> QED BY <1>3, <1>4

LEMMA FilesGrow ==
  ASSUME Typed, [Next]_vars, NEW f \in File
  PROVE  Grows(f) /\ Len(log'[f]) <= MaxLines[f] /\ Known \subseteq priced'
<1>0. TypeOK /\ LogKnown /\ Len(log[f]) <= MaxLines[f] /\ Known \subseteq priced
  BY DEF Typed
<1>1. ASSUME NEW g \in Codex, CodexLogs(g) PROVE \E m, t, u : Log(g, m, t, u)
  BY <1>1 DEF CodexLogs
<1>2. ASSUME NEW g \in Antigravity, AntigravityLogs(g) PROVE \E m, t, u : Log(g, m, t, u)
  BY <1>2 DEF AntigravityLogs
<1>3. ASSUME NEW g \in File, NEW m, NEW t, NEW u, Log(g, m, t, u)
      PROVE  Grows(f) /\ Len(log'[f]) <= MaxLines[f] /\ Known \subseteq priced'
  <2>1. priced' = priced
    BY <1>3 DEF Log
  <2> QED BY <1>0, <1>3, <2>1, LogGrows
<1>4. ASSUME NEW g \in Codex, CodexWrites(g) PROVE Grows(f) /\ UNCHANGED <<log, priced>>
  <2>1. ~half[g] /\ half' = [half EXCEPT ![g] = TRUE] /\ log' = log /\ priced' = priced
    BY <1>4 DEF CodexWrites
  <2>2. half \in [File -> BOOLEAN]
    BY <1>0 DEF TypeOK
  <2> QED BY <2>1, <2>2 DEF Grows
<1>5. CASE AddPrice
  BY <1>0, <1>5 DEF AddPrice, Grows
<1>6. CASE UNCHANGED files
  BY <1>0, <1>6 DEF files, Grows
<1>7. \/ UNCHANGED files \/ AddPrice \/ (\E g \in Codex : CodexLogs(g) \/ CodexWrites(g))
      \/ (\E g \in Antigravity : AntigravityLogs(g))
  BY DEF Next, Script, Fails, Agents, vars, Look, Read, Settled, Truncate, Write, Send,
     Start, Kill, SendRefused, SendUnanswered, Collapse
<1> QED BY <1>0, <1>1, <1>2, <1>3, <1>4, <1>5, <1>6, <1>7

\* What a file that grows does to its mark and its spans.
Wider(M, spans, M2, spans2) ==
    /\ Upto(M, M2)
    /\ \A n \in DOMAIN spans : n \in DOMAIN spans2 /\ (n # Root => spans2[n] = spans[n])
    /\ Root \in DOMAIN spans => spans2[Root] \in Nat /\ spans[Root] <= spans2[Root]
    /\ M = M2 => spans2 = spans

LEMMA MarksGrow ==
  ASSUME Typed, NEW f \in File, Grows(f)
  PROVE  /\ Upto(Mark(f), Mark(f)')
         /\ Mark(f) = Mark(f)' => log'[f] = log[f]
         /\ Mark(f) \in Marks /\ Mark(f)' \in Marks
<1>1. Len(log[f]) \in Nat /\ half[f] \in BOOLEAN
  BY LogIn DEF Typed, TypeOK
<1>2. CASE log'[f] = log[f] /\ half'[f] = half[f]
  BY <1>1, <1>2 DEF Mark, Marks, Upto
<1>3. CASE log'[f] = log[f] /\ half[f] = FALSE /\ half'[f] = TRUE
  BY <1>1, <1>3 DEF Mark, Marks, Upto
<1>4. CASE Len(log'[f]) = Len(log[f]) + 1 /\ half'[f] = FALSE
  <2> DEFINE k == Len(log[f])
  <2>1. Mark(f) = <<k, half[f]>> /\ Mark(f)' = <<k + 1, FALSE>>
    BY <1>4 DEF Mark
  <2>2. k \in Nat
    BY <1>1
  <2> HIDE DEF k
  <2>3. k < k + 1 /\ k + 1 \in Nat /\ k # k + 1
    BY <2>2
  <2>4. <<k, half[f]>>[1] = k /\ <<k + 1, FALSE>>[1] = k + 1
    OBVIOUS
  <2>5. Upto(<<k, half[f]>>, <<k + 1, FALSE>>)
    BY <2>3, <2>4 DEF Upto
  <2>6. <<k, half[f]>> \in Marks
    BY <1>1, <2>2 DEF Marks
  <2>7. <<k + 1, FALSE>> \in Marks
    BY <2>3 DEF Marks
  <2>8. <<k, half[f]>> # <<k + 1, FALSE>>
    BY <2>3, <2>4
  <2> QED BY <2>1, <2>5, <2>6, <2>7, <2>8
<1> QED BY <1>2, <1>3, <1>4 DEF Grows

LEMMA SpansGrow ==
  ASSUME Typed, LogKnown', NEW f \in File, Grows(f), Steady(f)'
  PROVE  Steady(f) /\ Wider(Mark(f), Spans(f), Mark(f)', Spans(f)')
<1> DEFINE M == Len(log[f])
           N == Len(log'[f])
<1>1. /\ M \in Nat /\ DOMAIN log[f] = 1..M
      /\ Calls(f) \subseteq 1..M
  BY LogIn DEF Typed
<1>2. N \in Nat /\ DOMAIN log'[f] = 1..N /\ Calls(f)' \subseteq 1..N
  <2>1. log'[f] \in Seq(Line)
    BY DEF LogKnown
  <2>2. Calls(f)' \subseteq DOMAIN log'[f]
    BY DEF Calls, CodexCalls, AntigravityCalls
  <2> QED BY <2>1, <2>2
<1>3. M <= N /\ \A i \in 1..M : log'[f][i] = log[f][i]
  BY <1>1 DEF Grows
<1> HIDE DEF M, N
<1>4. ASSUME NEW i \in 1..M
      PROVE  /\ log[f][i].model \notin priced \ Known
             /\ log'[f][i].model \in priced' <=> log[f][i].model \in priced
  <2>1. i \in 1..N
    BY <1>1, <1>2, <1>3
  <2>2. log'[f][i].model \notin priced' \ Known
    BY <1>2, <2>1 DEF Steady
  <2>3. priced \subseteq priced' /\ Known \subseteq priced /\ log'[f][i].model = log[f][i].model
    BY <1>3 DEF Grows, Typed
  <2> QED BY <1>3, <2>2, <2>3
<1>5. Steady(f)
  BY <1>1, <1>4 DEF Steady
<1>6. ASSUME NEW i \in 1..M PROVE i \in Calls(f)' <=> i \in Calls(f)
  <2>1. i \in 1..N /\ log'[f][i] = log[f][i] /\ (i # 1 => log'[f][i - 1] = log[f][i - 1])
    BY <1>1, <1>2, <1>3
  <2>2. Delta(f, i, Counter)' = Delta(f, i, Counter)
    BY <2>1 DEF Delta, Previous, Total
  <2>3. i \in DOMAIN log[f] /\ i \in DOMAIN log'[f]
    BY <1>1, <1>2, <2>1
  <2>4. i \in CodexCalls(f)' <=> i \in CodexCalls(f)
    BY <1>4, <2>2, <2>3 DEF CodexCalls, HasPrice
  <2>5. i \in AntigravityCalls(f)' <=> i \in AntigravityCalls(f)
    BY <1>4, <2>3 DEF AntigravityCalls, HasPrice
  <2> QED BY <2>4, <2>5 DEF Calls
<1> DEFINE S == Calls(f)
           T == Calls(f)'
<1>7. S \in SUBSET T /\ \A i \in T : i \in S <=> i <= M
  <2>1. \A i \in 1..N : i <= M => i \in 1..M
    BY <1>1, <1>2
  <2>2. \A i \in 1..M : i <= M
    BY <1>1
  <2> QED BY <1>1, <1>2, <1>6, <2>1, <2>2
<1>8. Spans(f) = SpansOf(S) /\ Spans(f)' = SpansOf(T)
  BY DEF Spans, SpansOf, Id, Num
<1>9. T \in SUBSET (1..N)
  BY <1>2
<1> HIDE DEF S, T
<1>13. M <= N
  BY <1>3
<1>10. /\ \A n \in DOMAIN SpansOf(S) : n \in DOMAIN SpansOf(T)
       /\ \A n \in DOMAIN SpansOf(S) \ {Root} : SpansOf(S)[n] = SpansOf(T)[n]
       /\ Root \in DOMAIN SpansOf(S) => SpansOf(S)[Root] <= SpansOf(T)[Root]
  BY <1>1, <1>2, <1>7, <1>9, <1>13, GrowFacts
<1>11. Mark(f) = Mark(f)' => Spans(f)' = Spans(f)
  <2>1. SUFFICES ASSUME Mark(f) = Mark(f)' PROVE S = T
    BY <1>8
  <2>2. M = N
    BY <2>1, MarksGrow DEF M, N
  <2>3. \A i \in T : i <= M
    BY <1>1, <1>9, <2>2
  <2> QED BY <1>7, <2>3
<1>14. Root \in DOMAIN SpansOf(S) => SpansOf(T)[Root] \in Nat
  <2>1. \A n \in DOMAIN SpansOf(T) : SpansOf(T)[n] \in T
    BY <1>2, <1>9, SpansFacts
  <2>2. \A i \in T : i \in Nat
    BY <1>9
  <2> QED BY <1>10, <2>1, <2>2
<1>12. Wider(Mark(f), Spans(f), Mark(f)', Spans(f)')
  BY <1>8, <1>10, <1>11, <1>14, MarksGrow DEF Wider
<1> QED BY <1>5, <1>12

-----------------------------------------------------------------------------
(* What is said of a file stays so when the file grows, and when LangFuse      *)
(* takes more of it.                                                        *)

LEMMA UptoFacts ==
  ASSUME NEW m \in Marks, NEW M \in Marks, NEW M2 \in Marks, Upto(m, M), Upto(M, M2)
  PROVE  Upto(m, M2) /\ (m = M2 => M = M2)
<1>1. PICK k \in Nat, b \in BOOLEAN : m = <<k, b>>
  BY DEF Marks
<1>2. PICK k1 \in Nat, b1 \in BOOLEAN : M = <<k1, b1>>
  BY DEF Marks
<1>3. PICK k2 \in Nat, b2 \in BOOLEAN : M2 = <<k2, b2>>
  BY DEF Marks
<1>4. /\ k < k1 \/ (k = k1 /\ (b => b1))
      /\ k1 < k2 \/ (k1 = k2 /\ (b1 => b2))
  BY <1>1, <1>2, <1>3 DEF Upto
<1>5. k < k2 \/ (k = k2 /\ (b => b2))
  BY <1>4
<1>6. Upto(m, M2)
  BY <1>1, <1>3, <1>5 DEF Upto
<1>7. ASSUME m = M2 PROVE M = M2
  <2>1. k = k2 /\ b = b2
    BY <1>1, <1>3, <1>7
  <2>2. k1 = k2
    BY <1>4, <2>1
  <2>3. b1 = b2
    BY <1>4, <2>1, <2>2
  <2> QED BY <1>2, <1>3, <2>2, <2>3
<1> QED BY <1>6, <1>7

LEMMA EntryGrows ==
  ASSUME NEW e, NEW M \in Marks, NEW M2 \in Marks, NEW spans, NEW spans2, NEW h,
         e.kind # "none" => e.mark \in Marks /\ Upto(e.mark, M),
         Wider(M, spans, M2, spans2), EntryTrue(e, M, spans, h)
  PROVE  EntryTrue(e, M2, spans2, h)
<1>1. ASSUME e.kind # "none", e.mark = M2 PROVE e.mark = M /\ spans2 = spans
  <2>1. M = M2
    BY <1>1, UptoFacts DEF Wider
  <2> QED BY <1>1, <2>1 DEF Wider
<1> QED BY <1>1 DEF EntryTrue

LEMMA ItemGrows ==
  ASSUME NEW p, NEW M \in Marks, NEW M2 \in Marks, NEW spans, NEW spans2, NEW h,
         p.mark \in Marks, Upto(p.mark, M), p.spans[Root] \in Nat, spans[Root] \in Nat,
         Wider(M, spans, M2, spans2), ItemTrue(p, M, spans, h)
  PROVE  ItemTrue(p, M2, spans2, h)
<1>1. ASSUME p.mark = M2 PROVE p.mark = M /\ spans2 = spans
  <2>1. M = M2
    BY <1>1, UptoFacts DEF Wider
  <2> QED BY <1>1, <2>1 DEF Wider
<1>2. Root \in DOMAIN spans2 /\ p.spans[Root] <= spans2[Root]
  BY DEF Wider, ItemTrue
<1>3. \A n \in DOMAIN p.spans \ {Root} : n \in DOMAIN spans2 /\ p.spans[n] = spans2[n]
  BY DEF Wider, ItemTrue
<1> QED BY <1>1, <1>2, <1>3 DEF ItemTrue

LEMMA HeldGrows ==
  ASSUME NEW P, NEW M, NEW M2, NEW spans, NEW spans2, NEW h,
         h[Root] \in Nat, Root \in DOMAIN spans => spans[Root] \in Nat,
         Wider(M, spans, M2, spans2), HeldTrue(P, spans, h)
  PROVE  HeldTrue(P, spans2, h)
BY DEF Wider, HeldTrue

\* LangFuse has what it had.
Keeps(P, h, h2) == \A n \in P : h[n] # 0 => h2[n] # 0
Agrees(P, h, h2) ==
    /\ \A n \in P \ {Root} : h[n] # 0 => h2[n] = h[n]
    /\ h[Root] <= h2[Root]

LEMMA EntryTaken ==
  ASSUME NEW N \in Nat, NEW e, NEW M, NEW spans, NEW h \in [0..N -> 0..N], NEW h2 \in [0..N -> 0..N],
         e.sent \subseteq 0..N, DOMAIN spans \subseteq 0..N,
         EntryHeld(e, h), Keeps(0..N, h, h2), Agrees(0..N, h, h2),
         EntryTrue(e, M, spans, h)
  PROVE  EntryTrue(e, M, spans, h2)
<1>1. \A n \in 0..N : h[n] \in Nat /\ h2[n] \in Nat
  OBVIOUS
<1>2. Root \in 0..N
  BY DEF Root
<1>3. ASSUME NEW n \in 0..N, h[n] # 0, h[n] <= h[Root] PROVE h2[n] <= h2[Root]
  <2>1. h[Root] <= h2[Root] /\ (n # Root => h2[n] = h[n])
    BY <1>3 DEF Agrees
  <2>2. h[n] \in Nat /\ h[Root] \in Nat /\ h2[Root] \in Nat
    BY <1>1, <1>2
  <2> QED BY <1>3, <2>1, <2>2
<1>4. \A n \in e.sent : h2[n] <= h2[Root]
  BY <1>3 DEF EntryHeld, EntryTrue
<1>5. ASSUME e.kind # "none" /\ e.mark = M, NEW n \in DOMAIN spans
      PROVE  h2[n] # 0 /\ (e.kind = "legacy" => h2[n] <= h2[Root])
  BY <1>3, <1>5 DEF EntryTrue, Keeps
<1> QED BY <1>4, <1>5 DEF EntryTrue

-----------------------------------------------------------------------------
(* Type correctness.                                                        *)

LEMMA Nothing ==
  /\ NothingSent \in Table /\ NothingToSend \in [File -> Item] /\ NoItem \in Item
  /\ \A f \in File : NothingToSend[f] = NoItem
  /\ NoItem.left = {} /\ DOMAIN NoItem.spans = {}
  /\ <<0, FALSE>> \in Marks
<1>1. <<0, FALSE>> \in Marks
  BY DEF Marks
<1>2. << >> \in Tables /\ DOMAIN << >> = {}
  <2>1. << >> \in [{} -> Nat]
    OBVIOUS
  <2>2. {} \in SUBSET Nat
    OBVIOUS
  <2> QED BY <2>1, <2>2 DEF Tables
<1>3. NoItem \in Item
  BY <1>1, <1>2 DEF NoItem, Item
<1>4. NoEntry \in [kind : {"none", "legacy", "entry"}, mark : Marks, sent : SUBSET Nat]
  BY <1>1 DEF NoEntry
<1>5. NothingSent \in Table
  BY <1>4 DEF NothingSent, Table
<1> QED BY <1>1, <1>2, <1>3, <1>5 DEF NothingToSend, NoItem

LEMMA MarkTyped ==
  ASSUME Typed, NEW f \in File
  PROVE  Mark(f) \in Marks
<1>1. Len(log[f]) \in Nat /\ half[f] \in BOOLEAN
  BY LogIn DEF Typed, TypeOK
<1> QED BY <1>1 DEF Mark, Marks

LEMMA ExcusedTyped ==
  ASSUME Typed, [Next]_vars
  PROVE  excused' \subseteq File
<1>1. excused \subseteq File /\ Lost \subseteq File
  BY DEF Typed, TypeOK, Lost, Touched
<1>2. CASE Read
  <2>1. now \in File
    BY <1>2 DEF Read, Typed, TypeOK
  <2> QED BY <1>1, <1>2, <2>1 DEF Read, Settled
<1>3. CASE \E f \in File : Send(f) \/ SendRefused(f) \/ SendUnanswered(f)
  BY <1>1, <1>3 DEF Send, SendRefused, SendUnanswered
<1>4. CASE Kill \/ Start(TRUE) \/ Start(FALSE)
  BY <1>1, <1>4 DEF Kill, Start
<1>5. CASE UNCHANGED vars \/ Look \/ Truncate \/ Write \/ Agents \/ Collapse \/ AddPrice
  BY <1>1, <1>5 DEF vars, history, Look, Truncate, Write, Agents, CodexLogs, CodexWrites,
     AntigravityLogs, Log, Collapse, AddPrice
<1> QED BY <1>2, <1>3, <1>4, <1>5 DEF Next, Script, Fails

\* What is left to see of a step.
LEMMA TypedBut ==
  ASSUME Typed, LogKnown', [Next]_vars,
         half' \in [File -> BOOLEAN], priced' \subseteq Model,
         disk' \in Table, mem' \in Table, torn' \in BOOLEAN,
         held' = [f \in File |-> held'[f]],
         \A f \in File : held'[f] \in [Position(f) -> Position(f)], twice' \subseteq File \X Nat,
         pc' \in {"idle", "look", "read", "write"}, todo' \subseteq File,
         now' \in (IF pc' = "read" THEN File ELSE {Nowhere}), mark' \in Marks,
         bad' \in 0..MaxBad, again' \in 0..MaxAll, raced' \subseteq File,
         pending' \in [File -> Item],
         \A f \in File : /\ pending'[f].left \subseteq DOMAIN pending'[f].spans
                         /\ \A n \in DOMAIN pending'[f].spans :
                              n \in Position(f) /\ pending'[f].spans[n] \in 1..MaxLines[f]
  PROVE  Typed'
<1>1. \A f \in File : Len(log'[f]) <= MaxLines[f]
  BY FilesGrow
<1>2. Known \subseteq priced'
  <2>1. Known \subseteq priced /\ (priced' = priced \/ AddPrice)
    BY DEF Typed, Next, Script, Fails, Agents, vars, files, Look, Read, Settled, Truncate, Write,
       Send, Start, Kill, SendRefused, SendUnanswered, Collapse, CodexLogs, CodexWrites,
       AntigravityLogs, Log
  <2> QED BY <2>1 DEF AddPrice
<1>3. \A f \in File : log'[f] \in Seq([model : Model, total : [Counter -> Nat], used : Amount])
  BY DEF LogKnown, Line
<1>5. \A f \in File : pending'[f].mark \in Marks
  BY DEF Item
<1>6. TypeOK'
  BY <1>3, <1>5, ExcusedTyped DEF TypeOK, Position, Table, Marks
<1> QED BY <1>1, <1>2, <1>6 DEF Typed, Position

\* What a typed state is, part by part.
LEMMA TypedParts ==
  ASSUME Typed
  PROVE  /\ LogKnown /\ half \in [File -> BOOLEAN] /\ priced \subseteq Model
         /\ disk \in Table /\ mem \in Table /\ torn \in BOOLEAN
         /\ held = [f \in File |-> held[f]]
         /\ \A f \in File : held[f] \in [Position(f) -> Position(f)]
         /\ twice \subseteq File \X Nat
         /\ pc \in {"idle", "look", "read", "write"} /\ todo \subseteq File
         /\ now \in (IF pc = "read" THEN File ELSE {Nowhere}) /\ mark \in Marks
         /\ bad \in 0..MaxBad /\ again \in 0..MaxAll /\ raced \subseteq File
         /\ pending \in [File -> Item]
         /\ \A f \in File : /\ pending[f].left \subseteq DOMAIN pending[f].spans
                            /\ \A n \in DOMAIN pending[f].spans :
                                 n \in Position(f) /\ pending[f].spans[n] \in 1..MaxLines[f]
BY DEF Typed, TypeOK

LEMMA BadTyped == Typed /\ Bad => bad' \in 0..MaxBad /\ bad' > 0
<1> SUFFICES ASSUME Typed, Bad PROVE bad' \in 0..MaxBad /\ bad' > 0
  OBVIOUS
<1>1. bad \in Nat /\ MaxBad \in Nat /\ bad < MaxBad /\ bad' = bad + 1
  BY TypedParts DEF Bad
<1> QED BY <1>1

\* Agents, new prices, and the table engine do not touch the run.
LEMMA OutsideTyped ==
  ASSUME Typed, LogKnown', Agents \/ AddPrice \/ Collapse
  PROVE  Typed'
<1>1. [Next]_vars
  BY DEF Next
<1>2. UNCHANGED <<saved, held, run, again, raced>>
  BY DEF Agents, CodexLogs, CodexWrites, AntigravityLogs, Log, AddPrice, Collapse, history
<1>3. half' \in [File -> BOOLEAN]
  BY TypedParts DEF Agents, CodexLogs, CodexWrites, AntigravityLogs, Log, AddPrice, Collapse, files
<1>4. priced' \subseteq Model /\ twice' \subseteq File \X Nat /\ bad' \in 0..MaxBad
  <2>1. CASE Agents
    <3>1. UNCHANGED <<priced, twice, bad>>
      BY <2>1 DEF Agents, CodexLogs, CodexWrites, AntigravityLogs, Log
    <3> QED BY <3>1, TypedParts
  <2>2. CASE AddPrice
    <3>1. twice' = twice /\ bad' \in 0..MaxBad
      BY <2>2, BadTyped DEF AddPrice
    <3>2. priced' \subseteq Model
      BY <2>2, TypedParts DEF AddPrice
    <3> QED BY <3>1, <3>2, TypedParts
  <2>3. CASE Collapse
    BY <2>3, TypedParts DEF Collapse, files
  <2> QED BY <2>1, <2>2, <2>3
<1> QED BY <1>1, <1>2, <1>3, <1>4, TypedBut, TypedParts DEF saved, run

LEMMA StepTyped ==
  ASSUME Typed, LogKnown', Look \/ Truncate \/ Write \/ Kill \/ (\E all \in BOOLEAN : Start(all))
  PROVE  Typed'
<1>1. [Next]_vars
  BY DEF Next, Script, Fails
<1>2. UNCHANGED <<files, held, twice, raced>>
  BY DEF Look, Truncate, Write, Kill, Start, history
<1>3. CASE Look
  <2>1. UNCHANGED <<saved, mem, pending, bad, again>> /\ todo' \subseteq todo
    BY <1>3 DEF Look
  <2>2. \/ UNCHANGED <<pc, now, mark>>
        \/ pc' = "read" /\ now' \in File /\ mark' \in Marks
    BY <1>3, MarkTyped, TypedParts DEF Look
  <2>3. /\ now' \in (IF pc' = "read" THEN File ELSE {Nowhere}) /\ mark' \in Marks
        /\ pc' \in {"idle", "look", "read", "write"}
    BY <2>2, TypedParts
  <2> QED BY <1>1, <1>2, <2>1, <2>3, TypedBut, TypedParts DEF saved, files
<1>4. CASE Truncate
  BY <1>1, <1>2, <1>4, TypedBut, TypedParts, Nothing DEF Truncate, files
<1>5. CASE Write \/ Kill
  <2>1. /\ disk' \in Table /\ torn' \in BOOLEAN /\ bad' \in 0..MaxBad /\ again' = again /\ Ends
    <3>1. CASE Write
      BY <1>5, <3>1, TypedParts DEF Write
    <3>2. CASE Kill
      BY <1>5, <3>2, TypedParts, BadTyped DEF Kill, saved
    <3> QED BY <1>5, <3>1, <3>2
  <2> QED BY <1>1, <1>2, <2>1, TypedBut, TypedParts, Nothing DEF Ends, files
<1>6. CASE \E all \in BOOLEAN : Start(all)
  <2>1. /\ mem' \in Table /\ pc' = "look" /\ todo' = File /\ pending' = NothingToSend
        /\ again' \in 0..MaxAll /\ pc = "idle"
        /\ UNCHANGED <<saved, now, mark, bad>>
    BY <1>6, TypedParts, Nothing DEF Start
  <2> QED BY <1>1, <1>2, <2>1, TypedBut, TypedParts, Nothing DEF saved, files
<1> QED BY <1>3, <1>4, <1>5, <1>6

\* What Read does, in both of its cases.
LEMMA ReadEffect ==
  ASSUME Typed, Read
  PROVE  /\ pc = "read" /\ now \in File
         /\ UNCHANGED <<files, saved, held, twice, todo, bad, again>>
         /\ pc' = "look" /\ now' = Nowhere /\ mark' = <<0, FALSE>>
         /\ LET ids == DOMAIN Spans(now)
                fresh == ids \ ({Root} \cup mem[now].sent)
                whole == mem[now].kind = "legacy" /\ mem[now].mark = mark
            IN  /\ raced \subseteq raced' /\ raced' \subseteq raced \cup {now}
                /\ whole /\ (Mark(now) # mark \/ ~Steady(now)) => now \in raced'
                /\ \/ /\ fresh = {} \/ whole
                      /\ mem' = [mem EXCEPT ![now] = Entry(mark, ids)]
                      /\ pending' = pending
                   \/ /\ fresh # {} /\ ~whole
                      /\ mem' = mem
                      /\ pending' = [pending EXCEPT ![now] =
                             [mark |-> mark, left |-> {Root} \cup fresh, spans |-> Spans(now)]]
BY TypedParts DEF Read, Settled

LEMMA ReadTyped ==
  ASSUME Typed, LogKnown', Read
  PROVE  Typed'
<1> DEFINE ids == DOMAIN Spans(now)
           fresh == ids \ ({Root} \cup mem[now].sent)
           item == [mark |-> mark, left |-> {Root} \cup fresh, spans |-> Spans(now)]
<1>1. [Next]_vars
  BY DEF Next, Script
<1>2. now \in File /\ Len(log[now]) <= MaxLines[now] /\ LogKnown
  BY ReadEffect DEF Typed
<1>3. /\ Spans(now) \in Tables
      /\ Root \in ids <=> ids # {}
      /\ \A n \in ids : n \in Position(now) /\ Spans(now)[n] \in 1..MaxLines[now]
  BY <1>2, SpansNow
<1>4. ids \subseteq Nat /\ (fresh # {} => {Root} \cup fresh \subseteq ids)
  BY <1>3 DEF Position
<1>5. Entry(mark, ids) \in [kind : {"none", "legacy", "entry"}, mark : Marks, sent : SUBSET Nat]
  BY <1>4, TypedParts DEF Entry
<1>6. mem' \in Table
  BY <1>2, <1>5, ReadEffect, TypedParts DEF Table
<1>7. /\ pending' \in [File -> Item]
      /\ \A f \in File : /\ pending'[f].left \subseteq DOMAIN pending'[f].spans
                         /\ \A n \in DOMAIN pending'[f].spans :
                              n \in Position(f) /\ pending'[f].spans[n] \in 1..MaxLines[f]
  <2>1. CASE pending' = pending
    BY <2>1, TypedParts
  <2>2. CASE fresh # {} /\ pending' = [pending EXCEPT ![now] = item]
    <3>1. item \in Item
      BY <1>3, <1>4, <2>2, TypedParts DEF Item
    <3>2. item.left \subseteq DOMAIN item.spans /\ item.spans = Spans(now)
      BY <1>4, <2>2
    <3> HIDE DEF item
    <3>3. pending' \in [File -> Item] /\ pending'[now] = item
      BY <1>2, <2>2, <3>1, TypedParts
    <3>4. \A f \in File : f # now => pending'[f] = pending[f]
      BY <1>2, <2>2, TypedParts
    <3> QED BY <1>3, <3>2, <3>3, <3>4, TypedParts
  <2> QED BY <2>1, <2>2, ReadEffect
<1>8. /\ UNCHANGED <<half, priced, disk, torn, held, twice, todo, bad, again>>
      /\ pc' = "look" /\ now' = Nowhere /\ mark' \in Marks /\ raced' \subseteq File
  BY <1>2, ReadEffect, TypedParts, Nothing DEF files, saved
<1> HIDE DEF ids, fresh, item
<1> QED BY <1>1, <1>6, <1>7, <1>8, TypedBut, TypedParts

\* Taking spans of one file.
LEMMA TakenEffect ==
  ASSUME Typed, NEW f \in File, NEW T, T \subseteq pending[f].left, Taken(f, T)
  PROVE  /\ held' = [g \in File |-> held'[g]]
         /\ \A g \in File : held'[g] \in [Position(g) -> Position(g)] /\ (g # f => held'[g] = held[g])
         /\ \A n \in Position(f) : held'[f][n] = IF n \in T THEN pending[f].spans[n] ELSE held[f][n]
         /\ twice' \subseteq File \X Nat
<1> DEFINE new == [n \in Position(f) |-> IF n \in T THEN pending[f].spans[n] ELSE held[f][n]]
<1>1. held' = [held EXCEPT ![f] = new]
  BY DEF Taken
<1>2. \A n \in T : n \in Position(f) /\ pending[f].spans[n] \in 1..MaxLines[f] /\ n \in Nat
  BY TypedParts DEF Position
<1>3. new \in [Position(f) -> Position(f)]
  BY <1>2, TypedParts DEF Position
<1>4. \A n \in Position(f) : new[n] = IF n \in T THEN pending[f].spans[n] ELSE held[f][n]
  OBVIOUS
<1> HIDE DEF new
<1>5. held = [g \in File |-> held[g]]
  BY TypedParts
<1>6. held' = [g \in File |-> IF g = f THEN new ELSE held[g]]
  BY <1>1, <1>5
<1>7. held'[f] = new /\ \A g \in File : g # f => held'[g] = held[g]
  BY <1>6
<1>8. held' = [g \in File |-> held'[g]]
  BY <1>6
<1>9. twice' \subseteq File \X Nat
  <2>1. twice' = twice \cup {<<f, n>> : n \in {n \in T \ {Root} : held[f][n] # 0}}
    BY DEF Taken
  <2> QED BY <1>2, <2>1, TypedParts
<1> QED BY <1>3, <1>4, <1>7, <1>8, <1>9, TypedParts

\* What a request that succeeds leaves of the file it is of.
LEMMA SendEffect ==
  ASSUME Typed, NEW f \in File, Send(f)
  PROVE  LET T == First(pending[f].left) IN
         /\ T \subseteq pending[f].left /\ pending[f].left # {} /\ Taken(f, T)
         /\ pc = "look" /\ todo = {}
         /\ UNCHANGED <<files, saved, pc, todo, now, mark, bad, again, raced>>
         /\ pending' \in [File -> Item]
         /\ \A g \in File : g # f => pending'[g] = pending[g]
         /\ pending'[f].mark = pending[f].mark /\ pending'[f].spans = pending[f].spans
         /\ pending'[f].left = pending[f].left \ T
         /\ IF pending[f].left \ T # {} THEN mem' = mem
            ELSE mem' = [mem EXCEPT ![f] = Entry(pending[f].mark, DOMAIN pending[f].spans)]
<1> DEFINE T == First(pending[f].left)
           left == pending[f].left \ T
<1>1. /\ Sending(f) /\ Taken(f, T)
      /\ pending' = [pending EXCEPT ![f].left = left]
      /\ mem' = IF left # {} THEN mem
                ELSE [mem EXCEPT ![f] = Entry(pending[f].mark, DOMAIN pending[f].spans)]
      /\ UNCHANGED <<files, saved, pc, todo, now, mark, bad, again, raced>>
  BY DEF Send
<1>2. T \subseteq pending[f].left /\ pending[f].left # {} /\ pc = "look" /\ todo = {}
  BY <1>1 DEF Sending, First
<1>3. pending \in [File -> Item] /\ pending[f].left \subseteq Nat
  BY TypedParts DEF Item
<1> HIDE DEF T
<1> DEFINE item == [pending[f] EXCEPT !.left = left]
<1>4. item \in Item /\ item.mark = pending[f].mark /\ item.spans = pending[f].spans /\ item.left = left
  BY <1>3 DEF Item
<1>5. pending' = [pending EXCEPT ![f] = item]
  BY <1>1
<1> HIDE DEF item
<1>6. /\ pending' \in [File -> Item] /\ pending'[f] = item
      /\ \A g \in File : g # f => pending'[g] = pending[g]
  BY <1>3, <1>4, <1>5
<1> QED BY <1>1, <1>2, <1>4, <1>6 DEF T

LEMMA FailEffect ==
  ASSUME Typed, NEW f \in File, SendRefused(f) \/ SendUnanswered(f)
  PROVE  /\ \E T \in SUBSET pending[f].left : Taken(f, T)
         /\ pending[f].left # {} /\ pc = "look" /\ todo = {}
         /\ bad' \in 0..MaxBad /\ bad' > 0
         /\ UNCHANGED <<files, saved, again, raced>>
         /\ \/ /\ pending' = [pending EXCEPT ![f] = NoItem]
               /\ UNCHANGED <<pc, todo, now, mark, mem>>
            \/ Ends
<1>1. \A S : First(S) \subseteq S
  BY DEF First
<1>2. Bad /\ pending[f].left # {} /\ pc = "look" /\ todo = {}
  BY DEF SendRefused, SendUnanswered, Sending
<1>3. bad' \in 0..MaxBad /\ bad' > 0
  BY <1>2, BadTyped
<1> QED BY <1>1, <1>2, <1>3 DEF SendRefused, SendUnanswered

LEMMA SendTyped ==
  ASSUME Typed, LogKnown', NEW f \in File, Send(f)
  PROVE  Typed'
<1> DEFINE T == First(pending[f].left)
           done == Entry(pending[f].mark, DOMAIN pending[f].spans)
<1>1. [Next]_vars
  BY DEF Next, Script
<1>2. /\ held' = [g \in File |-> held'[g]] /\ twice' \subseteq File \X Nat
      /\ \A g \in File : held'[g] \in [Position(g) -> Position(g)]
  BY SendEffect, TakenEffect
<1>3. mem' \in Table
  <2>1. pending[f].mark \in Marks /\ DOMAIN pending[f].spans \subseteq Nat
    BY TypedParts DEF Item, Position
  <2>2. done \in [kind : {"none", "legacy", "entry"}, mark : Marks, sent : SUBSET Nat]
    BY <2>1 DEF Entry
  <2> HIDE DEF done
  <2>3. mem' = mem \/ mem' = [mem EXCEPT ![f] = done]
    BY SendEffect DEF done
  <2>4. mem \in Table
    BY TypedParts
  <2> QED BY <2>2, <2>3, <2>4 DEF Table
<1>4. /\ pending' \in [File -> Item]
      /\ \A g \in File : /\ pending'[g].left \subseteq DOMAIN pending'[g].spans
                         /\ \A n \in DOMAIN pending'[g].spans :
                              n \in Position(g) /\ pending'[g].spans[n] \in 1..MaxLines[g]
  <2>1. /\ pending'[f].left \subseteq DOMAIN pending'[f].spans
        /\ \A n \in DOMAIN pending'[f].spans :
             n \in Position(f) /\ pending'[f].spans[n] \in 1..MaxLines[f]
    BY SendEffect, TypedParts
  <2> QED BY <2>1, SendEffect, TypedParts
<1>5. UNCHANGED <<half, priced, disk, torn, pc, todo, now, mark, bad, again, raced>>
  BY SendEffect DEF files, saved
<1> QED BY <1>1, <1>2, <1>3, <1>4, <1>5, TypedBut, TypedParts

LEMMA FailTyped ==
  ASSUME Typed, LogKnown', NEW f \in File, SendRefused(f) \/ SendUnanswered(f)
  PROVE  Typed'
<1>1. [Next]_vars
  BY DEF Next, Fails
<1>2. /\ held' = [g \in File |-> held'[g]] /\ twice' \subseteq File \X Nat
      /\ \A g \in File : held'[g] \in [Position(g) -> Position(g)]
  BY FailEffect, TakenEffect
<1>3. UNCHANGED <<half, priced, disk, torn, again, raced>> /\ bad' \in 0..MaxBad
  BY FailEffect DEF files, saved
<1>4. CASE Ends
  BY <1>1, <1>2, <1>3, <1>4, TypedBut, TypedParts, Nothing DEF Ends
<1>5. CASE pending' = [pending EXCEPT ![f] = NoItem] /\ UNCHANGED <<pc, todo, now, mark, mem>>
  <2>1. /\ pending' \in [File -> Item] /\ pending'[f] = NoItem
        /\ \A g \in File : g # f => pending'[g] = pending[g]
    BY <1>5, TypedParts, Nothing
  <2>2. \A g \in File : /\ pending'[g].left \subseteq DOMAIN pending'[g].spans
                        /\ \A n \in DOMAIN pending'[g].spans :
                             n \in Position(g) /\ pending'[g].spans[n] \in 1..MaxLines[g]
    BY <2>1, TypedParts, Nothing
  <2> QED BY <1>1, <1>2, <1>3, <1>5, <2>1, <2>2, TypedBut, TypedParts
<1> QED BY <1>4, <1>5, FailEffect

LEMMA TypedKept == Typed /\ [Next]_vars => Typed'
<1> SUFFICES ASSUME Typed, [Next]_vars PROVE Typed'
  OBVIOUS
<1>1. LogKnown'
  BY LogKnownKept DEF Typed
<1>2. CASE UNCHANGED vars
  <2>1. UNCHANGED <<log, half, priced, disk, torn, held, twice, pc, todo, now, mark, mem, pending,
                    bad, again, raced>>
    BY <1>2 DEF vars, files, saved, run, history
  <2> QED BY <1>1, <2>1, TypedBut, TypedParts
<1> QED BY <1>1, <1>2, OutsideTyped, StepTyped, ReadTyped, SendTyped, FailTyped DEF Next, Script, Fails

LEMMA InitSpans ==
  ASSUME Init, NEW f \in File
  PROVE  /\ LogKnown /\ Len(log[f]) <= MaxLines[f]
         /\ Len(log[f]) \in {0, 1} /\ half[f] = FALSE
<1>1. LogKnown
  BY InitKnown
<1>2. MaxLines[f] \in Nat /\ MaxLines[f] >= 1
  OBVIOUS
<1>3. Len(log[f]) \in {0, 1}
  <2>1. CASE log = [g \in File |-> <<>>]
    BY <2>1
  <2>2. CASE \E m \in [File -> Model], u \in [File -> Amount] :
               /\ \A g \in File : <<m[g], u[g]>> \in Use /\ (g \in Antigravity => u[g] = Zero)
               /\ log = [g \in File |-> <<[model |-> m[g], total |-> u[g], used |-> u[g]]>>]
    BY <2>2
  <2> QED BY <2>1, <2>2 DEF Init
<1>4. half[f] = FALSE
  BY DEF Init
<1>5. Len(log[f]) <= MaxLines[f]
  <2> DEFINE k == Len(log[f])
  <2>1. k = 0 \/ k = 1
    BY <1>3
  <2> HIDE DEF k
  <2>2. k <= MaxLines[f]
    BY <1>2, <2>1
  <2> QED BY <2>2 DEF k
<1> QED BY <1>1, <1>3, <1>4, <1>5

LEMMA LegacyEntry ==
  ASSUME NEW M \in Marks
  PROVE  LET e == [NoEntry EXCEPT !.kind = "legacy", !.mark = M]
         IN  /\ e \in [kind : {"none", "legacy", "entry"}, mark : Marks, sent : SUBSET Nat]
             /\ e.kind = "legacy" /\ e.mark = M /\ e.sent = {}
<1> DEFINE old == [NoEntry EXCEPT !.kind = "legacy"]
           Entries == [kind : {"none", "legacy", "entry"}, mark : Marks, sent : SUBSET Nat]
<1>1. NoEntry = [kind |-> "none", mark |-> <<0, FALSE>>, sent |-> {}] /\ NoEntry \in Entries
  BY Nothing DEF NoEntry
<1>2. old \in Entries /\ old.kind = "legacy" /\ old.sent = {}
  BY <1>1
<1>3. [NoEntry EXCEPT !.kind = "legacy", !.mark = M] = [old EXCEPT !.mark = M]
  OBVIOUS
<1> HIDE DEF old
<1>4. /\ [old EXCEPT !.mark = M] \in Entries /\ [old EXCEPT !.mark = M].mark = M
      /\ [old EXCEPT !.mark = M].kind = "legacy" /\ [old EXCEPT !.mark = M].sent = {}
  BY <1>2
<1> QED BY <1>3, <1>4

LEMMA InitTyped == Init => Typed
<1> SUFFICES ASSUME Init PROVE Typed
  OBVIOUS
<1>1. LogKnown
  BY InitKnown
<1>2. \A f \in File : Len(log[f]) <= MaxLines[f] /\ Len(log[f]) \in {0, 1} /\ half[f] = FALSE
  BY InitSpans
<1>3. \A f \in File : \A n \in DOMAIN Spans(f) : Spans(f)[n] \in 1..MaxLines[f]
  BY <1>1, <1>2, SpansNow
<1>4. held = [f \in File |-> held[f]] /\ \A f \in File : held[f] \in [Position(f) -> Position(f)]
  <2>1. held = [f \in File |-> [n \in Position(f) |-> IF n \in DOMAIN Spans(f) THEN Spans(f)[n] ELSE 0]]
    BY DEF Init
  <2>2. ASSUME NEW f \in File PROVE held[f] \in [Position(f) -> Position(f)]
    <3>1. \A n \in DOMAIN Spans(f) : Spans(f)[n] \in Position(f)
      BY <1>3 DEF Position
    <3>2. 0 \in Position(f)
      BY DEF Position
    <3> QED BY <2>1, <3>1, <3>2
  <2> QED BY <2>1, <2>2
<1>5. disk \in Table
  <2> DEFINE legacy == [f \in File |-> [NoEntry EXCEPT !.kind = "legacy", !.mark = Mark(f)]]
  <2>1. CASE disk = NothingSent
    BY <2>1, Nothing
  <2>2. CASE disk = legacy
    <3>1. ASSUME NEW f \in File PROVE Mark(f) \in Marks
      <4>1. Len(log[f]) \in Nat
        BY <1>1, LogIn
      <4>2. half[f] \in BOOLEAN
        BY <1>2
      <4> QED BY <4>1, <4>2 DEF Mark, Marks
    <3>2. \A f \in File : [NoEntry EXCEPT !.kind = "legacy", !.mark = Mark(f)]
             \in [kind : {"none", "legacy", "entry"}, mark : Marks, sent : SUBSET Nat]
      BY <3>1, LegacyEntry
    <3>3. legacy \in Table
      BY <3>2 DEF Table
    <3> HIDE DEF legacy
    <3> QED BY <2>2, <3>3
  <2> QED BY <2>1, <2>2 DEF Init
<1>6. /\ half \in [File -> BOOLEAN] /\ priced = Known /\ twice = {} /\ torn = FALSE /\ pc = "idle"
      /\ todo = {} /\ now = Nowhere /\ mark = <<0, FALSE>> /\ mem = NothingSent
      /\ pending = NothingToSend /\ bad = 0 /\ again = 0 /\ raced = {} /\ excused = {}
  BY DEF Init
<1>7. \A f \in File : log[f] \in Seq([model : Model, total : [Counter -> Nat], used : Amount])
  BY <1>1 DEF LogKnown, Line
<1>8. \A f \in File : pending[f].mark \in Marks /\ pending[f].left \subseteq DOMAIN pending[f].spans
  BY <1>6, Nothing DEF Item
<1>9. TypeOK
  <2>1. mem \in Table /\ torn \in BOOLEAN /\ priced \subseteq Model /\ twice \subseteq File \X Nat
    BY <1>6, Nothing
  <2>2. pc \in {"idle", "look", "read", "write"} /\ todo \subseteq File /\ mark \in Marks
    BY <1>6, Nothing
  <2>3. now \in (IF pc = "read" THEN File ELSE {Nowhere})
    BY <1>6
  <2>4. bad \in 0..MaxBad /\ again \in 0..MaxAll /\ raced \subseteq File /\ excused \subseteq File
    BY <1>6
  <2> QED BY <1>4, <1>5, <1>6, <1>7, <1>8, <2>1, <2>2, <2>3, <2>4 DEF TypeOK
<1> QED BY <1>1, <1>2, <1>4, <1>6, <1>9, Nothing DEF Typed

\* Type correctness, for any sessions, prices, batches, failures and kills: no id and
\* no line is ever out of its file.
THEOREM TypeCorrect == Spec => []TypeOK
<1>1. Typed => TypeOK
  BY DEF Typed
<1> QED BY <1>1, InitTyped, TypedKept, PTL DEF Spec

-----------------------------------------------------------------------------
(* What the state, the run and LangFuse say of each other.                   *)

EntryType == [kind : {"none", "legacy", "entry"}, mark : Marks, sent : SUBSET Nat]

\* A step that leaves what LangFuse holds of f leaves what is known of f.
LEMMA HeldStays ==
  ASSUME Typed, LogKnown', [Next]_vars, NEW f \in File, held'[f] = held[f],
         HeldKnown, Steady(f)'
  PROVE  HeldTrue(Position(f), Spans(f)', held'[f])
<1>1. Steady(f) /\ Wider(Mark(f), Spans(f), Mark(f)', Spans(f)')
  BY FilesGrow, SpansGrow
<1>2. HeldTrue(Position(f), Spans(f), held[f])
  BY <1>1 DEF HeldKnown
<1>3. held[f][Root] \in Nat
  <2>1. held[f] \in [Position(f) -> Position(f)] /\ MaxLines[f] \in Nat
    BY TypedParts, ExportTyped
  <2>2. Root \in Position(f) /\ Position(f) \subseteq Nat
    BY <2>1 DEF Position, Root
  <2> QED BY <2>1, <2>2
<1>4. Root \in DOMAIN Spans(f) => Spans(f)[Root] \in Nat
  BY SpansNow DEF Typed
<1> QED BY <1>1, <1>2, <1>3, <1>4, HeldGrows

LEMMA EntryStays ==
  ASSUME Typed, LogKnown', [Next]_vars, NEW f \in File, held'[f] = held[f],
         f \in raced => f \in raced', NEW e \in EntryType, EntryOk(e, f)
  PROVE  /\ EntryShape(e, Mark(f)', Position(f))
         /\ f \notin raced' => EntryHeld(e, held'[f])
         /\ f \notin raced' /\ Steady(f)' => EntryTrue(e, Mark(f)', Spans(f)', held'[f])
<1>1. Grows(f) /\ Upto(Mark(f), Mark(f)') /\ Mark(f) \in Marks /\ Mark(f)' \in Marks
  BY FilesGrow, MarksGrow
<1>2. e.mark \in Marks /\ (e.kind # "none" => Upto(e.mark, Mark(f)))
  BY DEF EntryType, EntryOk, EntryShape
<1>3. EntryShape(e, Mark(f)', Position(f))
  BY <1>1, <1>2, UptoFacts DEF EntryOk, EntryShape
<1>4. f \notin raced' => EntryHeld(e, held'[f])
  BY DEF EntryOk
<1>5. ASSUME f \notin raced', Steady(f)'
      PROVE  EntryTrue(e, Mark(f)', Spans(f)', held'[f])
  <2>1. Steady(f) /\ Wider(Mark(f), Spans(f), Mark(f)', Spans(f)')
    BY <1>1, <1>5, SpansGrow
  <2>2. EntryTrue(e, Mark(f), Spans(f), held[f])
    BY <1>5, <2>1 DEF EntryOk
  <2>3. EntryTrue(e, Mark(f)', Spans(f)', held[f])
    BY <1>1, <1>2, <2>1, <2>2, EntryGrows
  <2> QED BY <2>3
<1> QED BY <1>3, <1>4, <1>5

LEMMA ItemStays ==
  ASSUME Typed, LogKnown', [Next]_vars, NEW f \in File, held'[f] = held[f],
         f \in raced => f \in raced', pending[f].left # {}, ItemOk(pending[f], f),
         pending'[f] = pending[f]
  PROVE  ItemOk(pending[f], f)'
<1>1. Grows(f) /\ Upto(Mark(f), Mark(f)') /\ Mark(f) \in Marks /\ Mark(f)' \in Marks
  BY FilesGrow, MarksGrow
<1>2. pending[f].mark \in Marks /\ Upto(pending[f].mark, Mark(f)) /\ Root \in DOMAIN pending[f].spans
  BY TypedParts DEF Item, ItemOk, ItemShape
<1>3. pending[f].spans[Root] \in Nat
  BY <1>2, TypedParts
<1>4. ItemShape(pending[f], Mark(f)')
  BY <1>1, <1>2, UptoFacts DEF ItemOk, ItemShape
<1>5. f \notin raced' => ItemHeld(pending[f], held'[f])
  BY DEF ItemOk
<1>6. ASSUME Steady(f)' PROVE ItemTrue(pending[f], Mark(f)', Spans(f)', held'[f])
  <2>1. Steady(f) /\ Wider(Mark(f), Spans(f), Mark(f)', Spans(f)')
    BY <1>1, <1>6, SpansGrow
  <2>2. ItemTrue(pending[f], Mark(f), Spans(f), held[f])
    BY <2>1 DEF ItemOk
  <2>3. Spans(f)[Root] \in Nat
    <3>1. Root \in DOMAIN Spans(f)
      BY <2>2 DEF ItemTrue
    <3> QED BY <3>1, SpansNow DEF Typed
  <2>4. ItemTrue(pending[f], Mark(f)', Spans(f)', held[f])
    BY <1>1, <1>2, <1>3, <2>1, <2>2, <2>3, ItemGrows
  <2> QED BY <2>4
<1> QED BY <1>4, <1>5, <1>6 DEF ItemOk

LEMMA NoEntryOk ==
  ASSUME NEW M, NEW P, NEW spans, NEW h
  PROVE  /\ NoEntry \in EntryType /\ EntryShape(NoEntry, M, P)
         /\ EntryHeld(NoEntry, h) /\ EntryTrue(NoEntry, M, spans, h)
BY Nothing DEF NoEntry, EntryType, EntryShape, EntryHeld, EntryTrue

\* Steps that leave LangFuse, and make no new entry and no new item.
LEMMA KnownStays ==
  ASSUME Related, [Next]_vars, held' = held, raced' = raced,
         \A f \in File : disk'[f] \in {disk[f], mem[f], NoEntry} /\ mem'[f] \in {disk[f], mem[f], NoEntry},
         pending' = pending \/ pending' = NothingToSend
  PROVE  HeldKnown' /\ StateKnown' /\ SendingKnown'
<1>1. Typed /\ LogKnown'
  BY LogKnownKept DEF Related, Typed
<1>2. HeldKnown'
  BY <1>1, HeldStays DEF HeldKnown, Related, Position
<1>3. ASSUME NEW f \in File, NEW e \in {disk[f], mem[f], NoEntry}
      PROVE  /\ EntryShape(e, Mark(f)', Position(f))
             /\ f \notin raced' => EntryHeld(e, held'[f])
             /\ f \notin raced' /\ Steady(f)' => EntryTrue(e, Mark(f)', Spans(f)', held'[f])
  <2>1. disk[f] \in EntryType /\ mem[f] \in EntryType
    BY <1>1, TypedParts DEF Table, EntryType
  <2>2. EntryOk(disk[f], f) /\ EntryOk(mem[f], f)
    BY DEF Related, StateKnown
  <2>3. CASE e = NoEntry
    BY <2>3, NoEntryOk
  <2>4. CASE e \in EntryType /\ EntryOk(e, f)
    BY <1>1, <2>4, EntryStays
  <2> QED BY <2>1, <2>2, <2>3, <2>4
<1>4. StateKnown'
  <2>1. \A f \in File : EntryOk(disk[f], f)'
    BY <1>3 DEF EntryOk, Position
  <2>2. \A f \in File : EntryOk(mem[f], f)'
    BY <1>3 DEF EntryOk, Position
  <2> QED BY <2>1, <2>2 DEF StateKnown
<1>5. SendingKnown'
  <2> SUFFICES ASSUME NEW f \in File, pending'[f].left # {} PROVE ItemOk(pending[f], f)'
    BY DEF SendingKnown
  <2>1. pending' = pending /\ pending[f].left # {}
    BY Nothing
  <2> QED BY <1>1, <2>1, ItemStays DEF Related, SendingKnown
<1> QED BY <1>2, <1>4, <1>5

\* Nothing that the run keeps of the files it still has to do.
LEMMA RunStays ==
  ASSUME Related, [Next]_vars, UNCHANGED run
  PROVE  RunKnown'
<1>1. UNCHANGED <<pc, todo, now, mark, pending>> /\ Typed /\ RunKnown
  BY DEF run, Related
<1>2. ASSUME pc = "read" PROVE Upto(mark, Mark(now)')
  <2>1. now \in File /\ mark \in Marks /\ Upto(mark, Mark(now))
    BY <1>1, <1>2, TypedParts DEF RunKnown
  <2>2. Upto(Mark(now), Mark(now)') /\ Mark(now) \in Marks /\ Mark(now)' \in Marks
    BY <1>1, <2>1, FilesGrow, MarksGrow
  <2> QED BY <2>1, <2>2, UptoFacts
<1>3. pc' = "read" => Upto(mark', Mark(now)') /\ now' \notin todo' /\ pending'[now'].left = {}
  BY <1>1, <1>2 DEF RunKnown
<1>4. /\ \A f \in todo' : pending'[f].left = {}
      /\ pc' \in {"idle", "write"} => \A f \in File : pending'[f].left = {}
  BY <1>1 DEF RunKnown
<1> QED BY <1>3, <1>4 DEF RunKnown

LEMMA OutsideKept ==
  ASSUME Related, Agents \/ AddPrice \/ Collapse
  PROVE  Related'
<1>1. [Next]_vars
  BY DEF Next
<1>2. UNCHANGED <<saved, held, run, raced>>
  BY DEF Agents, CodexLogs, CodexWrites, AntigravityLogs, Log, AddPrice, Collapse, history
<1>3. disk' = disk /\ mem' = mem /\ pending' = pending /\ held' = held /\ raced' = raced
  BY <1>2 DEF saved, run
<1>4. HeldKnown' /\ StateKnown' /\ SendingKnown'
  BY <1>1, <1>3, KnownStays
<1> QED BY <1>1, <1>2, <1>4, RunStays, TypedKept DEF Related

LEMMA StepKept ==
  ASSUME Related, Look \/ Truncate \/ Write \/ Kill \/ (\E all \in BOOLEAN : Start(all))
  PROVE  Related'
<1>1. [Next]_vars
  BY DEF Next, Script, Fails
<1>2. Typed /\ RunKnown
  BY DEF Related
<1>3. held' = held /\ raced' = raced
  BY DEF Look, Truncate, Write, Kill, Start, history
<1>4. /\ \A f \in File : disk'[f] \in {disk[f], mem[f], NoEntry} /\ mem'[f] \in {disk[f], mem[f], NoEntry}
      /\ pending' = pending \/ pending' = NothingToSend
  BY DEF Look, Truncate, Write, Kill, Start, Ends, NothingSent, saved
<1>5. HeldKnown' /\ StateKnown' /\ SendingKnown'
  BY <1>1, <1>3, <1>4, KnownStays
<1>6. RunKnown'
  <2>1. CASE Look
    <3>1. PICK f \in todo : /\ todo' = todo \ {f}
                            /\ \/ UNCHANGED <<pc, now, mark>>
                               \/ pc' = "read" /\ now' = f /\ mark' = Mark(f)
      BY <2>1 DEF Look
    <3>2. pc = "look" /\ pending' = pending /\ UNCHANGED files
      BY <2>1 DEF Look
    <3>3. f \in File /\ Upto(Mark(f), Mark(f)) /\ Mark(f)' = Mark(f)
      BY <1>2, <3>2, TypedParts DEF Upto, files, Mark
    <3>4. pc' = "read" => now' = f /\ mark' = Mark(f)
      BY <3>1, <3>2
    <3>5. pc' = "read" => Upto(mark', Mark(now)')
      BY <3>2, <3>3, <3>4 DEF Mark, files
    <3>6. pc' \notin {"idle", "write"}
      BY <3>1, <3>2
    <3> QED BY <1>2, <3>1, <3>2, <3>4, <3>5, <3>6 DEF RunKnown
  <2>2. CASE Truncate
    <3>1. pc' = "write" /\ todo' = {} /\ pending' = pending /\ \A f \in File : pending[f].left = {}
      BY <2>2 DEF Truncate
    <3> QED BY <3>1 DEF RunKnown
  <2>3. CASE Write \/ Kill \/ (\E all \in BOOLEAN : Start(all))
    <3>1. pending' = NothingToSend /\ pc' \in {"idle", "look"} /\ todo' \subseteq File
      BY <2>3, <1>2, TypedParts DEF Write, Kill, Ends, Start
    <3> QED BY <3>1, Nothing DEF RunKnown
  <2> QED BY <2>1, <2>2, <2>3
<1> QED BY <1>1, <1>2, <1>5, <1>6, TypedKept DEF Related

\* The entry, or the item, that Read makes of a file.
LEMMA NewEntry ==
  ASSUME Related, Read, now \notin raced',
         LET whole == mem[now].kind = "legacy" /\ mem[now].mark = mark
         IN  DOMAIN Spans(now) \ ({Root} \cup mem[now].sent) = {} \/ whole
  PROVE  /\ EntryHeld(Entry(mark, DOMAIN Spans(now)), held[now])
         /\ Steady(now) => EntryTrue(Entry(mark, DOMAIN Spans(now)), Mark(now), Spans(now), held[now])
<1> DEFINE ids == DOMAIN Spans(now)
           whole == mem[now].kind = "legacy" /\ mem[now].mark = mark
           e == Entry(mark, ids)
<1>1. Typed /\ now \in File /\ now \notin raced
  BY ReadEffect DEF Related
<1>2. EntryShape(mem[now], Mark(now), Position(now)) /\ EntryHeld(mem[now], held[now])
  BY <1>1 DEF Related, StateKnown, EntryOk
<1>3. Steady(now) => EntryTrue(mem[now], Mark(now), Spans(now), held[now])
  BY <1>1 DEF Related, StateKnown, EntryOk
<1>4. e.kind = "entry" /\ e.mark = mark /\ e.sent = ids
  BY DEF Entry
<1>5. CASE whole
  <2>1. Mark(now) = mark /\ Steady(now)
    BY <1>1, <1>5, ReadEffect
  <2>2. \A n \in ids : held[now][n] # 0 /\ held[now][n] <= held[now][Root]
    BY <1>3, <1>5, <2>1 DEF EntryTrue
  <2> HIDE DEF ids, e
  <2> QED BY <1>4, <2>2 DEF EntryHeld, EntryTrue, ids, e
<1>6. CASE ids \ ({Root} \cup mem[now].sent) = {}
  <2>1. ids \subseteq mem[now].sent
    <3>1. ids # {} => \E n \in ids : n # Root
      <4>1. /\ Len(log[now]) \in Nat /\ Calls(now) \in SUBSET (1..Len(log[now]))
            /\ Spans(now) = SpansOf(Calls(now))
        BY <1>1, LogIn, SpansAreOf DEF Typed
      <4>2. ids # {} => Calls(now) # {}
        BY <4>1, SpansFacts
      <4>3. \A i \in Calls(now) : Num(Calls(now), i) \in ids \ {Root}
        BY <4>1, SpansFacts
      <4> HIDE DEF ids
      <4> QED BY <4>2, <4>3
    <3>2. mem[now].sent # {} => Root \in mem[now].sent
      BY <1>2 DEF EntryShape
    <3> HIDE DEF ids
    <3> QED BY <1>6, <3>1, <3>2
  <2>2. \A n \in ids : held[now][n] # 0
    BY <1>2, <2>1 DEF EntryHeld
  <2>3. Steady(now) => \A n \in ids : held[now][n] <= held[now][Root]
    BY <1>3, <2>1 DEF EntryTrue
  <2> HIDE DEF ids, e
  <2> QED BY <1>4, <2>2, <2>3 DEF EntryHeld, EntryTrue, ids, e
<1> QED BY <1>5, <1>6

LEMMA NewItem ==
  ASSUME Related, Read, NEW p,
         p.mark = mark, p.spans = Spans(now),
         p.left = {Root} \cup (DOMAIN Spans(now) \ ({Root} \cup mem[now].sent)),
         DOMAIN Spans(now) # {}
  PROVE  /\ ItemShape(p, Mark(now))
         /\ now \notin raced => ItemHeld(p, held[now])
         /\ Steady(now) => ItemTrue(p, Mark(now), Spans(now), held[now])
<1>1. Typed /\ now \in File /\ pc = "read"
  BY ReadEffect DEF Related
<1>2. /\ Root \in DOMAIN Spans(now)
      /\ \A n \in DOMAIN Spans(now) : Spans(now)[n] <= Spans(now)[Root]
      /\ Spans(now)[Root] \in 1..MaxLines[now] /\ MaxLines[now] \in Nat
  BY <1>1, SpansNow DEF Typed
<1>3. Upto(mark, Mark(now))
  BY <1>1 DEF Related, RunKnown
<1>4. ASSUME now \notin raced PROVE ItemHeld(p, held[now])
  <2>1. DOMAIN p.spans \ p.left \subseteq mem[now].sent
    OBVIOUS
  <2>2. EntryHeld(mem[now], held[now])
    BY <1>1, <1>4 DEF Related, StateKnown, EntryOk
  <2> QED BY <2>1, <2>2 DEF EntryHeld, ItemHeld
<1>5. ASSUME Steady(now) PROVE ItemTrue(p, Mark(now), Spans(now), held[now])
  <2>1. HeldTrue(Position(now), Spans(now), held[now])
    BY <1>1, <1>5 DEF Related, HeldKnown
  <2>2. held[now][Root] <= Spans(now)[Root]
    BY <1>2, <2>1 DEF HeldTrue
  <2>3. Spans(now)[Root] <= Spans(now)[Root]
    BY <1>2
  <2> QED BY <1>2, <2>2, <2>3 DEF ItemTrue
<1> QED BY <1>2, <1>3, <1>4, <1>5 DEF ItemShape

LEMMA ReadKept ==
  ASSUME Related, Read
  PROVE  Related'
<1> DEFINE ids == DOMAIN Spans(now)
           fresh == ids \ ({Root} \cup mem[now].sent)
           whole == mem[now].kind = "legacy" /\ mem[now].mark = mark
           entry == Entry(mark, ids)
           item == [mark |-> mark, left |-> {Root} \cup fresh, spans |-> Spans(now)]
<1>1. Typed /\ [Next]_vars /\ Typed' /\ LogKnown' /\ now \in File
  BY ReadEffect, TypedKept, LogKnownKept DEF Next, Script, Related, Typed
<1>2. /\ pc = "read" /\ pc' = "look" /\ todo' = todo /\ held' = held /\ disk' = disk
      /\ raced \subseteq raced' /\ UNCHANGED files
  BY <1>1, ReadEffect DEF saved
<1>3. \A f \in File : Mark(f)' = Mark(f) /\ Spans(f)' = Spans(f) /\ (Steady(f)' <=> Steady(f))
  BY <1>2 DEF files, Mark, Spans, Steady, Id, Calls, CodexCalls, AntigravityCalls, Delta, Total,
              Previous, HasPrice
<1>4. \A f \in File : f # now => mem'[f] = mem[f] /\ pending'[f] = pending[f]
  BY <1>1, ReadEffect, TypedParts DEF Table
<1>5. \/ /\ fresh = {} \/ whole
         /\ mem'[now] = entry /\ pending' = pending
      \/ /\ fresh # {} /\ mem' = mem /\ pending'[now] = item
  BY <1>1, ReadEffect, TypedParts DEF Table
<1>6. /\ Upto(mark, Mark(now)) /\ now \notin todo /\ pending[now].left = {}
      /\ \A f \in todo : pending[f].left = {}
  BY <1>2 DEF Related, RunKnown
<1>7. HeldKnown'
  BY <1>2, <1>3 DEF Related, HeldKnown, Position
<1>8. \A f \in File : EntryOk(disk[f], f)'
  BY <1>2, <1>3 DEF Related, StateKnown, EntryOk, Position
<1>9. /\ entry.kind = "entry" /\ entry.mark = mark /\ entry.sent = ids
      /\ item.mark = mark /\ item.left = {Root} \cup fresh /\ item.spans = Spans(now)
      /\ fresh # {} => ids # {}
  BY DEF Entry
<1>10. (fresh = {} \/ whole) /\ now \notin raced' =>
          /\ EntryHeld(entry, held[now])
          /\ Steady(now) => EntryTrue(entry, Mark(now), Spans(now), held[now])
  BY NewEntry
<1>11. fresh # {} =>
          /\ ItemShape(item, Mark(now))
          /\ now \notin raced => ItemHeld(item, held[now])
          /\ Steady(now) => ItemTrue(item, Mark(now), Spans(now), held[now])
  BY <1>9, NewItem
<1>12. ids \subseteq Position(now) /\ (ids # {} => Root \in ids)
  BY <1>1, SpansNow DEF Typed
<1> HIDE DEF ids, fresh, whole, entry, item
<1>13. EntryShape(entry, Mark(now), Position(now))
  BY <1>6, <1>9, <1>12 DEF EntryShape
<1>14. ASSUME NEW f \in File PROVE EntryOk(mem[f], f)'
  <2>1. CASE mem'[f] = mem[f]
    BY <1>2, <1>3, <2>1 DEF Related, StateKnown, EntryOk, Position
  <2>2. CASE f = now /\ (fresh = {} \/ whole) /\ mem'[now] = entry
    BY <1>2, <1>3, <1>10, <1>13, <2>2 DEF EntryOk, Position
  <2> QED BY <1>4, <1>5, <2>1, <2>2
<1>15. ASSUME NEW f \in File, pending'[f].left # {} PROVE ItemOk(pending[f], f)'
  <2>1. CASE pending'[f] = pending[f]
    BY <1>2, <1>3, <1>15, <2>1 DEF Related, SendingKnown, ItemOk
  <2>2. CASE f = now /\ fresh # {} /\ pending'[now] = item
    BY <1>2, <1>3, <1>11, <2>2 DEF ItemOk
  <2> QED BY <1>4, <1>5, <2>1, <2>2
<1>16. RunKnown'
  <2>1. todo \subseteq File /\ \A f \in todo : f # now
    BY <1>1, <1>6, TypedParts
  <2> QED BY <1>2, <1>4, <1>6, <2>1 DEF RunKnown
<1> QED BY <1>1, <1>7, <1>8, <1>14, <1>15, <1>16 DEF Related, StateKnown, SendingKnown

\* What LangFuse holds of a file when it took some of its spans.
LEMMA TakenHeld ==
  ASSUME Related, NEW f \in File, NEW T, T \subseteq pending[f].left, pending[f].left # {},
         Taken(f, T)
  PROVE  /\ Keeps(Position(f), held[f], held'[f])
         /\ Steady(f) => /\ Agrees(Position(f), held[f], held'[f])
                         /\ HeldTrue(Position(f), Spans(f), held'[f])
<1> DEFINE p == pending[f]
           h == held[f]
           h2 == held'[f]
<1>1. Typed /\ ItemOk(p, f)
  BY DEF Related, SendingKnown
<1>2. \A n \in Position(f) : h2[n] = IF n \in T THEN p.spans[n] ELSE h[n]
  BY <1>1, TakenEffect
<1>3. /\ MaxLines[f] \in Nat /\ Root \in Position(f) /\ Position(f) \subseteq Nat
      /\ h \in [Position(f) -> Position(f)]
  BY <1>1, TypedParts DEF Position, Root
<1>4. \A n \in T : n \in DOMAIN p.spans /\ p.spans[n] \in Nat /\ p.spans[n] # 0
  BY <1>1, <1>3, TypedParts
<1> HIDE DEF p, h, h2
<1>5. Keeps(Position(f), h, h2)
  BY <1>2, <1>4 DEF Keeps
<1>6. ASSUME Steady(f) PROVE Agrees(Position(f), h, h2) /\ HeldTrue(Position(f), Spans(f), h2)
  <2>1. HeldTrue(Position(f), Spans(f), h)
    BY <1>6 DEF Related, HeldKnown, h
  <2>2. ItemTrue(p, Mark(f), Spans(f), h)
    BY <1>1, <1>6 DEF ItemOk, h
  <2>3. \A n \in Position(f) \ {Root} : h[n] # 0 => h2[n] = h[n]
    BY <1>2, <1>4, <2>1, <2>2 DEF HeldTrue, ItemTrue
  <2>4. h[Root] <= h2[Root]
    BY <1>2, <1>3, <2>2 DEF ItemTrue
  <2>5. \A n \in Position(f) \ {Root} : h2[n] # 0 => n \in DOMAIN Spans(f) /\ h2[n] = Spans(f)[n]
    BY <1>2, <1>4, <2>1, <2>2 DEF HeldTrue, ItemTrue
  <2>6. h2[Root] # 0 => Root \in DOMAIN Spans(f) /\ h2[Root] <= Spans(f)[Root]
    BY <1>2, <1>3, <2>1, <2>2 DEF HeldTrue, ItemTrue
  <2> QED BY <2>3, <2>4, <2>5, <2>6 DEF Agrees, HeldTrue
<1> QED BY <1>5, <1>6 DEF h, h2

LEMMA TakenStays ==
  ASSUME Related, UNCHANGED files, raced' = raced,
         NEW f \in File, NEW T, T \subseteq pending[f].left, pending[f].left # {}, Taken(f, T)
  PROVE  /\ HeldKnown'
         /\ \A g \in File : \A e \in {disk[g], mem[g]} :
              /\ EntryShape(e, Mark(g)', Position(g))
              /\ g \notin raced' => EntryHeld(e, held'[g])
              /\ g \notin raced' /\ Steady(g)' => EntryTrue(e, Mark(g)', Spans(g)', held'[g])
         /\ \A g \in File \ {f} : held'[g] = held[g]
         /\ \A g \in File : /\ Mark(g)' = Mark(g) /\ Spans(g)' = Spans(g)
                            /\ Steady(g)' <=> Steady(g)
<1>1. Typed
  BY DEF Related
<1>2. \A g \in File \ {f} : held'[g] = held[g]
  BY <1>1, TakenEffect
<1>3. \A g \in File : /\ Mark(g)' = Mark(g) /\ Spans(g)' = Spans(g)
                      /\ Steady(g)' <=> Steady(g)
  BY DEF files, Mark, Spans, Steady, Id, Calls, CodexCalls, AntigravityCalls, Delta, Total,
         Previous, HasPrice
<1>4. /\ Keeps(Position(f), held[f], held'[f])
      /\ Steady(f) => /\ Agrees(Position(f), held[f], held'[f])
                      /\ HeldTrue(Position(f), Spans(f), held'[f])
  BY TakenHeld
<1>5. HeldKnown'
  <2>1. ASSUME NEW g \in File, Steady(g) PROVE HeldTrue(Position(g), Spans(g), held'[g])
    <3>1. CASE g = f
      BY <1>4, <2>1, <3>1
    <3>2. CASE g # f
      BY <1>2, <2>1, <3>2 DEF Related, HeldKnown
    <3> QED BY <3>1, <3>2
  <2> QED BY <1>3, <2>1 DEF HeldKnown, Position
<1>6. ASSUME NEW g \in File, NEW e \in {disk[g], mem[g]}
      PROVE  /\ EntryShape(e, Mark(g), Position(g))
             /\ g \notin raced => EntryHeld(e, held'[g])
             /\ g \notin raced /\ Steady(g) => EntryTrue(e, Mark(g), Spans(g), held'[g])
  <2>1. EntryOk(e, g)
    BY <1>6 DEF Related, StateKnown
  <2>2. CASE g # f
    BY <1>2, <2>1, <2>2 DEF EntryOk
  <2>3. CASE g = f
    <3>1. e.sent \subseteq Position(f)
      BY <2>1, <2>3 DEF EntryOk, EntryShape
    <3>2. f \notin raced => EntryHeld(e, held'[f])
      BY <1>4, <2>1, <2>3, <3>1 DEF EntryOk, EntryHeld, Keeps
    <3>3. ASSUME f \notin raced, Steady(f) PROVE EntryTrue(e, Mark(f), Spans(f), held'[f])
      <4>1. EntryHeld(e, held[f]) /\ EntryTrue(e, Mark(f), Spans(f), held[f])
        BY <2>1, <2>3, <3>3 DEF EntryOk
      <4>2. DOMAIN Spans(f) \subseteq Position(f)
        BY <1>1, SpansNow DEF Typed
      <4>3. /\ MaxLines[f] \in Nat /\ held[f] \in [0..MaxLines[f] -> 0..MaxLines[f]]
            /\ held'[f] \in [0..MaxLines[f] -> 0..MaxLines[f]]
        BY <1>1, TakenEffect, TypedParts DEF Position
      <4>4. Keeps(Position(f), held[f], held'[f]) /\ Agrees(Position(f), held[f], held'[f])
        BY <1>4, <3>3
      <4> QED BY <3>1, <4>1, <4>2, <4>3, <4>4, EntryTaken DEF Position
    <3> QED BY <2>1, <2>3, <3>2, <3>3 DEF EntryOk
  <2> QED BY <2>2, <2>3
<1> QED BY <1>2, <1>3, <1>5, <1>6

LEMMA FailKept ==
  ASSUME Related, NEW f \in File, SendRefused(f) \/ SendUnanswered(f)
  PROVE  Related'
<1>1. Typed /\ Typed' /\ [Next]_vars
  BY TypedKept DEF Next, Fails, Related
<1>2. PICK T : T \subseteq pending[f].left /\ Taken(f, T)
  BY <1>1, FailEffect
<1>3. /\ pending[f].left # {} /\ UNCHANGED files /\ raced' = raced /\ disk' = disk
      /\ pc = "look" /\ todo = {}
  BY <1>1, FailEffect DEF saved
<1>4. /\ HeldKnown'
      /\ \A g \in File : \A e \in {disk[g], mem[g]} :
           /\ EntryShape(e, Mark(g)', Position(g))
           /\ g \notin raced' => EntryHeld(e, held'[g])
           /\ g \notin raced' /\ Steady(g)' => EntryTrue(e, Mark(g)', Spans(g)', held'[g])
      /\ \A g \in File \ {f} : held'[g] = held[g]
      /\ \A g \in File : /\ Mark(g)' = Mark(g) /\ Spans(g)' = Spans(g)
                         /\ Steady(g)' <=> Steady(g)
  BY <1>2, <1>3, TakenStays
<1>5. \A g \in File : EntryOk(disk[g], g)'
  BY <1>3, <1>4 DEF EntryOk, Position
<1>6. CASE Ends
  <2>1. \A g \in File : mem'[g] = NoEntry /\ pending'[g].left = {}
    BY <1>6, Nothing DEF Ends, NothingSent
  <2>2. \A g \in File : EntryOk(mem[g], g)'
    BY <2>1, NoEntryOk DEF EntryOk, Position
  <2>3. RunKnown' /\ SendingKnown'
    BY <1>6, <2>1 DEF Ends, RunKnown, SendingKnown
  <2> QED BY <1>1, <1>4, <1>5, <2>2, <2>3 DEF Related, StateKnown
<1>7. CASE pending' = [pending EXCEPT ![f] = NoItem] /\ UNCHANGED <<pc, todo, now, mark, mem>>
  <2>1. \A g \in File : EntryOk(mem[g], g)'
    BY <1>4, <1>7 DEF EntryOk, Position
  <2>2. pending'[f].left = {} /\ \A g \in File \ {f} : pending'[g] = pending[g]
    BY <1>1, <1>7, Nothing, TypedParts
  <2>3. SendingKnown'
    BY <1>3, <1>4, <2>2 DEF Related, SendingKnown, ItemOk
  <2>4. RunKnown'
    BY <1>3, <1>7 DEF RunKnown
  <2> QED BY <1>1, <1>4, <1>5, <2>1, <2>3, <2>4 DEF Related, StateKnown
<1> QED BY <1>1, <1>6, <1>7, FailEffect

LEMMA SendKept ==
  ASSUME Related, NEW f \in File, Send(f)
  PROVE  Related'
<1> DEFINE T == First(pending[f].left)
           p == pending[f]
           P == Position(f)
           h == held[f]
           h2 == held'[f]
           spans == Spans(f)
           done == Entry(p.mark, DOMAIN p.spans)
<1>1. Typed /\ Typed' /\ [Next]_vars
  BY TypedKept DEF Next, Script, Related
<1>2. /\ T \subseteq p.left /\ p.left # {} /\ Taken(f, T) /\ pc = "look" /\ todo = {}
      /\ UNCHANGED files /\ raced' = raced /\ disk' = disk /\ pc' = pc /\ todo' = todo
      /\ \A g \in File \ {f} : pending'[g] = pending[g]
      /\ pending'[f].mark = p.mark /\ pending'[f].spans = p.spans /\ pending'[f].left = p.left \ T
  BY <1>1, SendEffect DEF saved
<1>3. IF p.left \ T # {} THEN mem' = mem
      ELSE mem'[f] = done /\ \A g \in File \ {f} : mem'[g] = mem[g]
  BY <1>1, SendEffect, TypedParts DEF Table
<1>4. /\ HeldKnown'
      /\ \A g \in File : \A e \in {disk[g], mem[g]} :
           /\ EntryShape(e, Mark(g)', Position(g))
           /\ g \notin raced' => EntryHeld(e, held'[g])
           /\ g \notin raced' /\ Steady(g)' => EntryTrue(e, Mark(g)', Spans(g)', held'[g])
      /\ \A g \in File \ {f} : held'[g] = held[g]
      /\ \A g \in File : /\ Mark(g)' = Mark(g) /\ Spans(g)' = Spans(g)
                         /\ Steady(g)' <=> Steady(g)
  BY <1>2, TakenStays
<1>5. Keeps(P, h, h2) /\ ItemOk(p, f)
  BY <1>2, TakenHeld DEF Related, SendingKnown
<1>6. \A n \in P : h2[n] = IF n \in T THEN p.spans[n] ELSE h[n]
  BY <1>1, <1>2, TakenEffect
<1>7. /\ DOMAIN p.spans \subseteq P /\ P \subseteq Nat /\ h \in [P -> P]
      /\ \A n \in DOMAIN p.spans : p.spans[n] \in Nat /\ p.spans[n] # 0
      /\ p.left \subseteq DOMAIN p.spans
  BY <1>1, TypedParts DEF Position
<1>8. done.kind = "entry" /\ done.mark = p.mark /\ done.sent = DOMAIN p.spans
  BY DEF Entry
<1>9. Upto(p.mark, Mark(f)) /\ Root \in DOMAIN p.spans /\ \A n \in DOMAIN p.spans : p.spans[n] <= p.spans[Root]
  BY <1>5 DEF ItemOk, ItemShape
<1> HIDE DEF T, p, P, h, h2, spans, done
\* What is held of the item after it.
<1>10. ASSUME f \notin raced, NEW n \in DOMAIN p.spans \ (p.left \ T) PROVE h2[n] # 0
  <2>1. CASE n \in T
    BY <1>2, <1>6, <1>7, <1>10, <2>1
  <2>2. CASE n \notin T
    <3>1. h[n] # 0
      BY <1>5, <1>10, <2>2 DEF ItemOk, ItemHeld, h
    <3> QED BY <1>5, <1>7, <3>1 DEF Keeps
  <2> QED BY <2>1, <2>2
<1>11. ASSUME Steady(f)
       PROVE  /\ \A n \in DOMAIN p.spans \ {Root} : n \in DOMAIN spans /\ p.spans[n] = spans[n]
              /\ Root \in DOMAIN spans /\ p.spans[Root] <= spans[Root]
              /\ h2[Root] <= p.spans[Root]
              /\ Root \notin p.left \ T => h2[Root] = p.spans[Root]
              /\ p.mark = Mark(f) => p.spans = spans
  <2>1. ItemTrue(p, Mark(f), spans, h)
    BY <1>5, <1>11 DEF ItemOk, h, spans
  <2>2. p.spans[Root] <= p.spans[Root] /\ h2[Root] = IF Root \in T THEN p.spans[Root] ELSE h[Root]
    BY <1>6, <1>7, <1>9
  <2> QED BY <2>1, <2>2 DEF ItemTrue
<1>12. ASSUME p.left \ T = {}, NEW e, e = done
       PROVE  /\ EntryShape(e, Mark(f), P)
              /\ f \notin raced => EntryHeld(e, h2)
              /\ f \notin raced /\ Steady(f) => EntryTrue(e, Mark(f), spans, h2)
  <2>1. EntryShape(e, Mark(f), P)
    BY <1>7, <1>8, <1>9, <1>12 DEF EntryShape
  <2>2. f \notin raced => EntryHeld(e, h2)
    BY <1>8, <1>10, <1>12 DEF EntryHeld
  <2>3. ASSUME f \notin raced, Steady(f) PROVE EntryTrue(e, Mark(f), spans, h2)
    <3>1. h2[Root] = p.spans[Root]
      BY <1>11, <1>12, <2>3
    <3>2. ASSUME NEW n \in DOMAIN p.spans PROVE h2[n] <= h2[Root]
      <4>1. CASE n \in T
        BY <1>6, <1>7, <1>9, <3>1, <4>1
      <4>2. CASE n \notin T /\ n # Root
        <5>1. h2[n] = h[n] /\ h[n] # 0
          BY <1>6, <1>7, <1>10, <1>12, <2>3, <4>2
        <5>2. h[n] = spans[n]
          BY <1>7, <2>3, <4>2, <5>1 DEF Related, HeldKnown, HeldTrue, h, spans, P
        <5>3. p.spans[n] = spans[n]
          BY <1>11, <2>3, <4>2
        <5> QED BY <1>9, <3>1, <5>1, <5>2, <5>3
      <4>3. CASE n = Root
        BY <1>9, <3>1, <4>3
      <4> QED BY <4>1, <4>2, <4>3
    <3>3. e.mark = Mark(f) => \A n \in DOMAIN spans : h2[n] # 0
      BY <1>8, <1>10, <1>11, <1>12, <2>3
    <3> QED BY <1>8, <1>12, <3>2, <3>3 DEF EntryTrue
  <2> QED BY <2>1, <2>2, <2>3
<1>13. ASSUME NEW g \in File PROVE EntryOk(disk[g], g)' /\ EntryOk(mem[g], g)'
  <2>1. EntryOk(disk[g], g)' /\ (mem'[g] = mem[g] => EntryOk(mem[g], g)')
    BY <1>2, <1>4 DEF EntryOk, Position
  <2>2. CASE g = f /\ mem'[f] = done /\ p.left \ T = {}
    <3>1. EntryOk(mem[f], f)'
      BY <1>2, <1>4, <1>12, <2>2 DEF EntryOk, Position, P, h2, spans
    <3> QED BY <2>1, <2>2, <3>1
  <2> QED BY <1>3, <2>1, <2>2
<1>14. ItemOk(pending[f], f)'
  <2>1. ItemShape(pending'[f], Mark(f))
    BY <1>2, <1>9 DEF ItemShape
  <2>2. f \notin raced => ItemHeld(pending'[f], h2)
    BY <1>2, <1>10 DEF ItemHeld
  <2>3. Steady(f) => ItemTrue(pending'[f], Mark(f), spans, h2)
    BY <1>2, <1>11 DEF ItemTrue
  <2> QED BY <1>2, <1>4, <2>1, <2>2, <2>3 DEF ItemOk, h2, spans
<1>15. SendingKnown'
  <2>1. \A g \in File \ {f} : pending'[g].left # {} => ItemOk(pending[g], g)'
    BY <1>2, <1>4 DEF Related, SendingKnown, ItemOk
  <2> QED BY <1>14, <2>1 DEF SendingKnown
<1>16. RunKnown'
  BY <1>2 DEF RunKnown
<1> QED BY <1>1, <1>4, <1>13, <1>15, <1>16 DEF Related, StateKnown

LEMMA RelatedKept == Related /\ [Next]_vars => Related'
<1> SUFFICES ASSUME Related, [Next]_vars PROVE Related'
  OBVIOUS
<1>1. CASE UNCHANGED vars
  <2>1. /\ UNCHANGED <<files, saved, held, run, raced>>
        /\ disk' = disk /\ mem' = mem /\ pending' = pending
    BY <1>1 DEF vars, saved, run, history
  <2>2. HeldKnown' /\ StateKnown' /\ SendingKnown'
    BY <2>1, KnownStays
  <2> QED BY <2>1, <2>2, RunStays, TypedKept DEF Related
<1> QED BY <1>1, OutsideKept, StepKept, ReadKept, SendKept, FailKept DEF Next, Script, Fails

\* The first state: nothing anywhere, or what a run of the release before left.
LEMMA InitHeld ==
  ASSUME Init
  PROVE  /\ Typed /\ \A f \in File : \A n \in Position(f) :
              held[f][n] = IF n \in DOMAIN Spans(f) THEN Spans(f)[n] ELSE 0
         /\ \A f \in File : (disk[f] = NoEntry /\ DOMAIN Spans(f) = {}) \/
              /\ disk[f] \in EntryType
              /\ disk[f].kind = "legacy" /\ disk[f].mark = Mark(f) /\ disk[f].sent = {}
         /\ pc = "idle" /\ todo = {} /\ mem = NothingSent /\ pending = NothingToSend
         /\ priced = Known /\ twice = {} /\ torn = FALSE
<1>1. Typed
  BY InitTyped
<1>2. held = [f \in File |-> [n \in Position(f) |-> IF n \in DOMAIN Spans(f) THEN Spans(f)[n] ELSE 0]]
  BY DEF Init
<1> DEFINE rest == /\ pc = "idle" /\ todo = {} /\ mem = NothingSent /\ pending = NothingToSend
                   /\ priced = Known /\ twice = {} /\ torn = FALSE
<1>3. rest
  BY DEF Init
<1>4. \A f \in File : \A n \in Position(f) :
         held[f][n] = IF n \in DOMAIN Spans(f) THEN Spans(f)[n] ELSE 0
  BY <1>2
<1> HIDE DEF rest
<1>5. CASE log = [f \in File |-> <<>>] /\ disk = NothingSent
  <2>1. \A f \in File : disk[f] = NoEntry
    BY <1>5 DEF NothingSent
  <2>2. ASSUME NEW f \in File PROVE DOMAIN Spans(f) = {}
    <3>1. log[f] = <<>> /\ DOMAIN log[f] = {}
      BY <1>5
    <3>2. Calls(f) = {}
      BY <3>1 DEF Calls, CodexCalls, AntigravityCalls
    <3> QED BY <3>2 DEF Spans
  <2> QED BY <1>1, <1>3, <1>4, <2>1, <2>2 DEF rest
<1>6. CASE disk = [f \in File |-> [NoEntry EXCEPT !.kind = "legacy", !.mark = Mark(f)]]
  <2>1. ASSUME NEW f \in File
        PROVE  /\ disk[f] \in EntryType
               /\ disk[f].kind = "legacy" /\ disk[f].mark = Mark(f) /\ disk[f].sent = {}
    <3>1. Mark(f) \in Marks /\ disk[f] = [NoEntry EXCEPT !.kind = "legacy", !.mark = Mark(f)]
      BY <1>1, <1>6, MarkTyped
    <3> QED BY <3>1, LegacyEntry DEF EntryType
  <2> QED BY <1>1, <1>3, <1>4, <2>1 DEF rest
<1> QED BY <1>5, <1>6 DEF Init

LEMMA InitRelated == Init => Related
<1> SUFFICES ASSUME Init PROVE Related
  OBVIOUS
<1>1. \A f \in File : /\ Mark(f) \in Marks /\ Root \in Position(f) /\ DOMAIN Spans(f) \subseteq Position(f)
                      /\ \A n \in DOMAIN Spans(f) : Spans(f)[n] \in Nat /\ Spans(f)[n] # 0
                      /\ \A n \in DOMAIN Spans(f) : Spans(f)[n] <= Spans(f)[Root] /\ Root \in DOMAIN Spans(f)
  <2> SUFFICES ASSUME NEW f \in File
               PROVE  /\ Mark(f) \in Marks /\ Root \in Position(f) /\ DOMAIN Spans(f) \subseteq Position(f)
                      /\ \A n \in DOMAIN Spans(f) : Spans(f)[n] \in Nat /\ Spans(f)[n] # 0
                      /\ \A n \in DOMAIN Spans(f) : Spans(f)[n] <= Spans(f)[Root] /\ Root \in DOMAIN Spans(f)
    OBVIOUS
  <2>1. MaxLines[f] \in Nat /\ Mark(f) \in Marks /\ LogKnown /\ Len(log[f]) <= MaxLines[f]
    BY InitHeld, MarkTyped DEF Typed
  <2>2. Root \in Position(f)
    BY <2>1 DEF Position, Root
  <2> QED BY <2>1, <2>2, SpansNow
<1>2. \A f \in File : \A n \in Position(f) :
         held[f][n] = IF n \in DOMAIN Spans(f) THEN Spans(f)[n] ELSE 0
  BY InitHeld
<1>3. HeldKnown
  <2> SUFFICES ASSUME NEW f \in File PROVE HeldTrue(Position(f), Spans(f), held[f])
    BY DEF HeldKnown
  <2>1. \A n \in Position(f) \ {Root} : held[f][n] # 0 => n \in DOMAIN Spans(f) /\ held[f][n] = Spans(f)[n]
    BY <1>2
  <2>2. held[f][Root] # 0 => Root \in DOMAIN Spans(f) /\ held[f][Root] <= Spans(f)[Root]
    BY <1>1, <1>2
  <2> QED BY <2>1, <2>2 DEF HeldTrue
<1>4. StateKnown
  <2>1. ASSUME NEW f \in File, disk[f] # NoEntry PROVE EntryOk(disk[f], f)
    <3>1. disk[f].kind = "legacy" /\ disk[f].mark = Mark(f) /\ disk[f].sent = {}
      BY <2>1, InitHeld
    <3>2. EntryShape(disk[f], Mark(f), Position(f)) /\ EntryHeld(disk[f], held[f])
      BY <1>1, <3>1 DEF EntryShape, EntryHeld, Upto
    <3>3. \A n \in DOMAIN Spans(f) : held[f][n] # 0 /\ held[f][n] <= held[f][Root]
      BY <1>1, <1>2
    <3> QED BY <3>1, <3>2, <3>3 DEF EntryOk, EntryTrue
  <2>2. \A f \in File : mem[f] = NoEntry
    BY InitHeld DEF NothingSent
  <2> QED BY <2>1, <2>2, NoEntryOk DEF StateKnown, EntryOk
<1>5. SendingKnown /\ RunKnown
  BY InitHeld, Nothing DEF SendingKnown, RunKnown
<1> QED BY <1>3, <1>4, <1>5, InitHeld DEF Related

-----------------------------------------------------------------------------
(* Copies.                                                                  *)

LEMMA InitCause == Init => CauseKnown
<1> SUFFICES ASSUME Init PROVE CauseKnown
  OBVIOUS
<1>1. Touched = {}
  BY InitHeld, Nothing DEF Touched
<1>2. TouchedKnown
  BY <1>1, InitHeld DEF TouchedKnown
<1>3. ASSUME NEW f \in File, NEW n \in Position(f) \ {Root}, held[f][n] # 0
      PROVE  HeldAccounted(f, n)
  <2>1. n \in DOMAIN Spans(f)
    BY <1>3, InitHeld
  <2>2. Names(disk[f], n)
    BY <2>1, InitHeld DEF Names
  <2> QED BY <2>2, InitHeld, Nothing DEF HeldAccounted, Accounted
<1> QED BY <1>2, <1>3 DEF CauseKnown, Accounts

\* Which files a run has begun to send.
LEMMA TouchedKept == Related /\ TouchedKnown /\ [Next]_vars => TouchedKnown'
<1> SUFFICES ASSUME Related, TouchedKnown, [Next]_vars PROVE TouchedKnown'
  OBVIOUS
<1>1. Typed /\ RunKnown
  BY DEF Related
<1>2. CASE UNCHANGED vars \/ Agents \/ Collapse \/ AddPrice
  <2>1. UNCHANGED <<torn, pc, todo, now, pending>>
    BY <1>2 DEF vars, saved, run, Agents, CodexLogs, CodexWrites, AntigravityLogs, Log, Collapse, AddPrice
  <2> QED BY <2>1 DEF TouchedKnown, Touched
<1>3. CASE Start(TRUE) \/ Start(FALSE) \/ Write \/ Kill
  <2>1. pending' = NothingToSend /\ pc' \in {"idle", "look"}
    BY <1>3 DEF Start, Write, Kill, Ends
  <2>2. Touched' = {}
    BY <2>1, Nothing DEF Touched
  <2> QED BY <2>1, <2>2 DEF TouchedKnown
<1>4. CASE Look
  <2>1. PICK f \in todo : todo' = todo \ {f} /\ (pc' = "look" \/ (pc' = "read" /\ now' = f))
    BY <1>4 DEF Look
  <2>2. Touched' = Touched
    BY <1>4 DEF Look, Touched
  <2> QED BY <2>1, <2>2 DEF TouchedKnown
<1>5. CASE Read
  <2>1. pc' = "look" /\ todo' = todo /\ now \notin todo /\ now \in File
    BY <1>1, <1>5, ReadEffect DEF RunKnown
  <2>2. \A g \in File : g # now => pending'[g] = pending[g]
    BY <1>1, <1>5, ReadEffect, TypedParts
  <2>3. Touched' \subseteq Touched \cup {now}
    BY <2>2 DEF Touched
  <2> QED BY <2>1, <2>3 DEF TouchedKnown
<1>6. CASE Truncate
  <2>1. pc' = "write" /\ todo' = {} /\ torn'
    BY <1>6 DEF Truncate
  <2> QED BY <2>1 DEF TouchedKnown
<1>7. CASE \E f \in File : Send(f)
  <2>1. pc' = "look" /\ todo' = {}
    BY <1>1, <1>7, SendEffect
  <2> QED BY <2>1 DEF TouchedKnown
<1>8. CASE \E f \in File : SendRefused(f) \/ SendUnanswered(f)
  <2>1. PICK f \in File : SendRefused(f) \/ SendUnanswered(f)
    BY <1>8
  <2>2. CASE Ends
    <3>1. pc' = "idle" /\ todo' = {} /\ pending' = NothingToSend
      BY <2>2 DEF Ends
    <3>2. Touched' = {}
      BY <3>1, Nothing DEF Touched
    <3> QED BY <3>1, <3>2 DEF TouchedKnown
  <2>3. CASE pc' = pc /\ todo' = todo
    <3>1. pc' = "look" /\ todo' = {}
      BY <1>1, <2>1, <2>3, FailEffect
    <3> QED BY <3>1 DEF TouchedKnown
  <2> QED BY <1>1, <2>1, <2>2, <2>3, FailEffect
<1> QED BY <1>2, <1>3, <1>4, <1>5, <1>6, <1>7, <1>8 DEF Next, Script, Fails

\* Read accounts for what LangFuse holds, and so does a request that succeeds.
LEMMA CauseRead ==
  ASSUME Related, CauseKnown, Read, NEW f \in File, Steady(f),
         NEW n \in Position(f) \ {Root}, held[f][n] # 0
  PROVE  HeldAccounted(f, n)'
<1> DEFINE ids == DOMAIN Spans(now)
           fresh == ids \ ({Root} \cup mem[now].sent)
           whole == mem[now].kind = "legacy" /\ mem[now].mark = mark
           item == [mark |-> mark, left |-> {Root} \cup fresh, spans |-> Spans(now)]
<1>1. Typed /\ RunKnown /\ now \in File /\ pc = "read" /\ pc' = "look" /\ disk' = disk
  BY ReadEffect DEF Related, saved
<1>2. HeldAccounted(f, n) /\ now \notin Touched
  BY <1>1 DEF CauseKnown, Accounts, TouchedKnown
<1>3. excused' = IF mem[now].kind = "legacy" /\ ~whole THEN excused \cup {now} ELSE excused
  BY DEF Read, Settled
<1>4. CASE f # now
  <2>1. mem'[f] = mem[f] /\ pending'[f] = pending[f]
    BY <1>1, <1>4, ReadEffect, TypedParts DEF Table
  <2>2. (f \in Touched') = (f \in Touched) /\ (f \notin excused' => f \notin excused)
    BY <1>3, <2>1 DEF Touched
  <2> QED BY <1>1, <1>2, <2>1, <2>2 DEF HeldAccounted, Accounted
<1>5. CASE f = now
  <2>1. n \in ids /\ pending[f].left = {}
    BY <1>1, <1>5 DEF Related, HeldKnown, HeldTrue, RunKnown
  <2>2. f \notin excused => Names(disk[f], n) /\ Names(mem[f], n)
    BY <1>1, <1>2, <1>5, <2>1 DEF HeldAccounted, Accounted
  <2>3. f \notin excused' => f \notin excused /\ (mem[now].kind = "legacy" => whole)
    BY <1>3, <1>5
  <2>4. CASE mem' = [mem EXCEPT ![now] = Entry(mark, ids)] /\ pending' = pending
    <3>1. mem'[f].sent = ids /\ Names(mem'[f], n)
      BY <1>1, <1>5, <2>1, <2>4, TypedParts DEF Table, Entry, Names
    <3> QED BY <1>1, <2>1, <2>2, <2>3, <2>4, <3>1 DEF HeldAccounted, Accounted
  <2>5. CASE fresh # {} /\ ~whole /\ mem' = mem /\ pending' = [pending EXCEPT ![now] = item]
    <3>1. pending'[f] = item
      BY <1>1, <1>5, <2>5, TypedParts
    <3>2. pending'[f].left = {Root} \cup fresh /\ DOMAIN pending'[f].spans = ids
      BY <3>1
    <3>3. f \notin excused' => n \in mem[now].sent
      BY <1>5, <2>2, <2>3, <2>5 DEF Names
    <3>4. f \notin excused' => n \notin {Root} \cup fresh
      BY <3>3
    <3>5. f \notin Touched' => f \notin Touched
      BY <1>2, <1>5
    <3> HIDE DEF ids, fresh, whole
    <3>6. f \notin excused' => Accounted(f, n)'
      <4> SUFFICES ASSUME f \notin excused' PROVE Accounted(f, n)'
        OBVIOUS
      <4>1. n \in DOMAIN pending'[f].spans \ pending'[f].left /\ pending'[f].left # {}
        BY <2>1, <3>2, <3>4
      <4>2. Names(disk'[f], n)
        BY <1>1, <2>2, <2>3
      <4> QED BY <4>1, <4>2 DEF Accounted
    <3> QED BY <2>1, <3>2, <3>6 DEF HeldAccounted
  <2> HIDE DEF ids, fresh, whole, item
  <2>6. \/ mem' = [mem EXCEPT ![now] = Entry(mark, ids)] /\ pending' = pending
        \/ fresh # {} /\ ~whole /\ mem' = mem /\ pending' = [pending EXCEPT ![now] = item]
    BY <1>1, ReadEffect DEF ids, fresh, whole, item
  <2> QED BY <2>4, <2>5, <2>6
<1> QED BY <1>4, <1>5

\* The first spans of a file are sent first.
LEMMA RootGoesFirst ==
  ASSUME NEW S \in SUBSET Nat, Root \in S
  PROVE  Root \in First(S)
<1>1. \A m \in S : m \in Nat /\ ~(m < 0)
  OBVIOUS
<1>2. {m \in S : m < Root} = {}
  BY <1>1 DEF Root
<1>3. Cardinality({m \in S : m < Root}) = 0 /\ Batch \in Nat \ {0}
  BY <1>2, FS_EmptySet, ExportTyped
<1> QED BY <1>3 DEF First

LEMMA CauseSend ==
  ASSUME Related, CauseKnown, NEW f \in File, Send(f), NEW g \in File, Steady(g),
         NEW n \in Position(g) \ {Root}, held'[g][n] # 0
  PROVE  HeldAccounted(g, n)'
<1> DEFINE T == First(pending[f].left)
           p == pending[f]
<1>1. Typed
  BY DEF Related
<1>2. /\ T \subseteq p.left /\ p.left # {} /\ Taken(f, T) /\ pc' = pc /\ pc = "look" /\ disk' = disk
      /\ \A h \in File \ {f} : pending'[h] = pending[h]
      /\ pending'[f].spans = p.spans /\ pending'[f].left = p.left \ T
  BY <1>1, SendEffect DEF saved
<1>3. excused' = IF p.left \ T = {} THEN excused \ {f} ELSE excused
  BY DEF Send
<1>4. CASE g # f
  <2>1. mem'[g] = mem[g]
    BY <1>1, <1>4, SendEffect, TypedParts DEF Table
  <2>2. held'[g] = held[g]
    BY <1>1, <1>2, <1>4, TakenEffect
  <2>3. HeldAccounted(g, n)
    BY <2>2 DEF CauseKnown, Accounts
  <2>4. (g \in Touched') = (g \in Touched)
    BY <1>2, <1>4 DEF Touched
  <2>5. g \notin excused' => g \notin excused
    BY <1>3, <1>4
  <2> QED BY <1>2, <1>4, <2>1, <2>3, <2>4, <2>5 DEF HeldAccounted, Accounted
<1>5. CASE g = f
  <2>1. /\ \A m \in Position(f) : m \notin T => held'[f][m] = held[f][m]
        /\ p.left \subseteq DOMAIN p.spans
    BY <1>1, <1>2, TakenEffect, TypedParts
  <2>2. n \in T \/ HeldAccounted(f, n)
    BY <1>5, <2>1 DEF CauseKnown, Accounts
  <2>3. n \in DOMAIN p.spans
    BY <1>2, <2>1, <2>2 DEF HeldAccounted
  <2>4. f \in Touched'
    <3>1. Root \in DOMAIN p.spans
      BY <1>2 DEF Related, SendingKnown, ItemOk, ItemShape
    <3>2. p.left \in SUBSET Nat
      BY <1>1, TypedParts DEF Item
    <3>3. Root \notin p.left \ T
      BY <3>2, RootGoesFirst
    <3> HIDE DEF T
    <3> QED BY <1>2, <3>1, <3>3 DEF Touched
  <2>5. CASE p.left \ T = {}
    <3>1. mem'[f].sent = DOMAIN p.spans
      BY <1>1, <2>5, SendEffect, TypedParts DEF Table, Entry
    <3>2. Names(mem'[f], n)
      BY <2>3, <3>1 DEF Names
    <3> QED BY <1>2, <1>5, <2>4, <2>5, <3>2 DEF HeldAccounted, Accounted
  <2>6. CASE p.left \ T # {}
    <3>1. f \notin excused' => n \in DOMAIN p.spans \ (p.left \ T)
      BY <1>2, <1>3, <2>2, <2>3, <2>6 DEF HeldAccounted, Accounted
    <3> HIDE DEF T
    <3> QED BY <1>2, <1>5, <2>3, <2>4, <2>6, <3>1 DEF HeldAccounted, Accounted
  <2> QED BY <2>5, <2>6
<1> QED BY <1>4, <1>5

\* A request that fails: of the other files nothing is lost that is not excused.
LEMMA CauseFail ==
  ASSUME Related, CauseKnown, NEW f \in File, SendRefused(f) \/ SendUnanswered(f),
         NEW g \in File, Steady(g), NEW n \in Position(g) \ {Root}, held'[g][n] # 0
  PROVE  HeldAccounted(g, n)'
<1>1. Typed /\ pc = "look" /\ disk' = disk
  BY FailEffect DEF Related, saved
<1>2. PICK T \in SUBSET pending[f].left : Taken(f, T)
  BY <1>1, FailEffect
<1>3. CASE g = f
  <2>1. f \in excused'
    BY DEF SendRefused, SendUnanswered
  <2>2. pending'[f].left = {}
    BY <1>1, Nothing, TypedParts DEF SendRefused, SendUnanswered, Ends
  <2> QED BY <1>3, <2>1, <2>2 DEF HeldAccounted
<1>4. CASE g # f
  <2>1. held'[g] = held[g]
    BY <1>1, <1>2, <1>4, TakenEffect
  <2>2. HeldAccounted(g, n)
    BY <2>1 DEF CauseKnown, Accounts
  <2>3. CASE SendRefused(f)
    <3>1. pending'[g] = pending[g] /\ mem' = mem /\ pc' = pc /\ excused' = excused \cup {f}
      BY <1>1, <1>4, <2>3, TypedParts DEF SendRefused
    <3>2. (g \in Touched') = (g \in Touched)
      BY <3>1 DEF Touched
    <3> QED BY <1>1, <2>2, <3>1, <3>2 DEF HeldAccounted, Accounted
  <2>4. CASE SendUnanswered(f)
    <3>1. pc' = "idle" /\ pending'[g].left = {} /\ excused' = excused \cup {f} \cup Lost
      BY <2>4, Nothing DEF SendUnanswered, Ends
    <3>2. g \notin excused' => g \notin excused /\ g \notin Touched
      BY <3>1 DEF Lost
    <3>3. g \notin excused' => Names(disk[g], n)
      BY <1>1, <2>2, <3>2 DEF HeldAccounted, Accounted
    <3> QED BY <1>1, <3>1, <3>3 DEF HeldAccounted, Accounted
  <2> QED BY <2>3, <2>4
<1> QED BY <1>3, <1>4

\* The steps that send nothing and read nothing.
LEMMA CauseStep ==
  ASSUME Related, CauseKnown, NEW g \in File, NEW n \in Position(g) \ {Root}, HeldAccounted(g, n),
         Look \/ Truncate \/ Write \/ Kill \/ (\E all \in BOOLEAN : Start(all))
  PROVE  HeldAccounted(g, n)'
<1>1. Typed /\ RunKnown /\ TouchedKnown
  BY DEF Related, CauseKnown
<1>2. CASE Look
  <2>1. pc = "look" /\ pc' \in {"look", "read"} /\ UNCHANGED <<disk, mem, pending, excused>>
    BY <1>2 DEF Look, saved, history
  <2> QED BY <2>1 DEF HeldAccounted, Accounted, Touched
<1>3. CASE Truncate
  <2>1. pc = "look" /\ pc' = "write" /\ UNCHANGED <<mem, pending, excused>>
    BY <1>3 DEF Truncate, history
  <2> QED BY <2>1 DEF HeldAccounted, Accounted
<1>4. CASE Write
  <2>1. pc = "write" /\ pc' = "idle" /\ disk' = mem /\ pending' = NothingToSend /\ excused' = excused
    BY <1>4 DEF Write, Ends, history
  <2>2. pending[g].left = {} /\ pending'[g].left = {}
    BY <1>1, <2>1, Nothing DEF RunKnown
  <2> QED BY <2>1, <2>2 DEF HeldAccounted, Accounted
<1>5. CASE Kill
  <2>1. pc' = "idle" /\ disk' = disk /\ pending'[g].left = {} /\ excused' = excused \cup Lost
    BY <1>5, Nothing DEF Kill, Ends, saved
  <2>2. g \notin excused' => g \notin excused /\ g \notin Touched /\ pc # "write"
    BY <1>1, <2>1 DEF Lost, TouchedKnown
  <2>3. g \notin excused' => Names(disk[g], n)
    BY <2>2 DEF HeldAccounted, Accounted
  <2> QED BY <2>1, <2>3 DEF HeldAccounted, Accounted
<1>6. CASE Start(TRUE)
  <2>1. excused' = File /\ pending'[g].left = {}
    BY <1>6, Nothing DEF Start
  <2> QED BY <2>1 DEF HeldAccounted
<1>7. CASE Start(FALSE)
  <2>1. /\ pc = "idle" /\ disk' = disk /\ mem' = disk /\ excused' = excused
        /\ pending'[g].left = {}
    BY <1>7, Nothing DEF Start, saved
  <2>2. g \notin Touched
    BY <1>1, <2>1 DEF TouchedKnown
  <2>3. g \notin excused => Names(disk[g], n)
    BY <2>1, <2>2 DEF HeldAccounted, Accounted
  <2> QED BY <2>1, <2>3 DEF HeldAccounted, Accounted
<1> QED BY <1>2, <1>3, <1>4, <1>5, <1>6, <1>7

LEMMA CauseKept == Related /\ CauseKnown /\ [Next]_vars => CauseKnown'
<1> SUFFICES ASSUME Related, CauseKnown, [Next]_vars PROVE CauseKnown'
  OBVIOUS
<1>1. Typed /\ LogKnown'
  BY LogKnownKept DEF Related, Typed
<1>2. TouchedKnown'
  BY TouchedKept DEF CauseKnown
<1>3. ASSUME NEW g \in File, Steady(g)', NEW n \in Position(g) \ {Root}, held'[g][n] # 0
      PROVE  HeldAccounted(g, n)'
  <2>1. Steady(g)
    BY <1>1, <1>3, FilesGrow, SpansGrow
  <2>2. held[g][n] # 0 => HeldAccounted(g, n)
    BY <2>1 DEF CauseKnown, Accounts
  <2>3. CASE UNCHANGED vars \/ Agents \/ Collapse \/ AddPrice
    <3>1. UNCHANGED <<disk, held, pc, mem, pending, excused>>
      BY <2>3 DEF vars, saved, run, history, Agents, CodexLogs, CodexWrites, AntigravityLogs, Log,
                  Collapse, AddPrice
    <3> QED BY <1>3, <2>2, <3>1 DEF HeldAccounted, Accounted, Touched
  <2>4. CASE Look \/ Truncate \/ Write \/ Kill \/ (\E all \in BOOLEAN : Start(all))
    <3>1. held' = held
      BY <2>4 DEF Look, Truncate, Write, Kill, Start
    <3> QED BY <1>3, <2>2, <2>4, <3>1, CauseStep
  <2>5. CASE Read
    <3>1. held' = held
      BY <1>1, <2>5, ReadEffect
    <3> QED BY <1>3, <2>1, <2>5, <3>1, CauseRead
  <2>6. CASE \E f \in File : Send(f)
    BY <1>3, <2>1, <2>6, CauseSend
  <2>7. CASE \E f \in File : SendRefused(f) \/ SendUnanswered(f)
    BY <1>3, <2>1, <2>7, CauseFail
  <2> QED BY <2>3, <2>4, <2>5, <2>6, <2>7 DEF Next, Script, Fails
<1>4. Accounts'
  BY <1>3 DEF Accounts, Position
<1> QED BY <1>2, <1>4 DEF CauseKnown

-----------------------------------------------------------------------------
(* The theorems.                                                            *)

LEMMA Invariant == Spec => []ExportInv
<1>1. Init => ExportInv
  BY InitRelated, InitCause DEF ExportInv
<1>2. ExportInv /\ [Next]_vars => ExportInv'
  BY RelatedKept, CauseKept DEF ExportInv
<1> QED BY <1>1, <1>2, PTL DEF Spec

\* The state file never says of a call that it was sent when LangFuse does not have it,
\* nor has LangFuse a session that ends before a call the state says was sent: for any
\* number of files, lines and spans in a request, whatever fails.
THEOREM SentCorrect == Spec => []SentIsHeld
<1>1. ExportInv => SentIsHeld
  BY DEF ExportInv, Related, StateKnown, EntryOk, EntryHeld, EntryTrue, SentIsHeld
<1> QED BY <1>1, Invariant, PTL

\* A file that the next run would pass over has no call that LangFuse lacks, whenever
\* the session was written to while a run read it.
THEOREM SkippedCorrect == Spec => []SkippedIsSent
<1>1. ExportInv => SkippedIsSent
  BY DEF ExportInv, Related, StateKnown, EntryOk, EntryTrue, SkippedIsSent
<1> QED BY <1>1, Invariant, PTL

\* The id of a call never becomes that of another, however the sessions grow and
\* whichever runs sent them.
THEOREM IdsCorrect == Spec => []IdsAreStable
<1>1. ExportInv => IdsAreStable
  BY DEF ExportInv, Related, HeldKnown, HeldTrue, IdsAreStable
<1> QED BY <1>1, Invariant, PTL

\* A run sends again a call that LangFuse has only with --all, or when the last run
\* that sent calls of that very file failed there or lost what it knew of it, or the
\* file has grown under an entry without ids; a new price aside.
THEOREM TwiceCorrect == Spec => TwiceHasACause
<1>1. ExportInv /\ [Next]_vars => [\A c \in twice' \ twice : Steady(c[1]) => c[1] \in excused]_vars
  <2> SUFFICES ASSUME ExportInv, Next, NEW c \in twice' \ twice, Steady(c[1])
               PROVE  c[1] \in excused
    OBVIOUS
  <2>1. Typed
    BY DEF ExportInv, Related
  <2>2. \E f \in File : Send(f) \/ SendRefused(f) \/ SendUnanswered(f)
    BY DEF Next, Script, Fails, Agents, Look, Read, Settled, Truncate, Write, Start, Kill, Collapse,
           AddPrice, CodexLogs, CodexWrites, AntigravityLogs, Log
  <2>3. PICK f \in File : \E T \in SUBSET pending[f].left : Taken(f, T)
    BY <2>1, <2>2, SendEffect, FailEffect
  <2>4. PICK T \in SUBSET pending[f].left : Taken(f, T)
    BY <2>3
  <2>5. PICK n \in T \ {Root} : c = <<f, n>> /\ held[f][n] # 0
    BY <2>4 DEF Taken
  <2>6. n \in Position(f) \ {Root} /\ n \in pending[f].left
    BY <2>1, <2>5, <2>4, TypedParts
  <2>7. HeldAccounted(f, n)
    BY <2>5, <2>6 DEF ExportInv, CauseKnown, Accounts
  <2> QED BY <2>5, <2>6, <2>7 DEF HeldAccounted, Accounted
<1> QED BY <1>1, Invariant, PTL DEF Spec, TwiceHasACause

-----------------------------------------------------------------------------
(* How long a run takes: the part of Delivered that needs no fairness.       *)

\* The spans that a run may still send: those that wait, and all a file may have
\* that it has not read.
Unread == todo \cup IF pc = "read" THEN {now} ELSE {}
Slots == UNION {{f} \X Position(f) : f \in File}
ToSend == {s \in Slots : s[1] \in Unread \/ s[2] \in pending[s[1]].left}

\* The most steps it can still take.
StepsLeft ==
    IF pc = "idle" THEN 0
    ELSE 2 * Cardinality(todo) + Cardinality(ToSend)
           + (IF pc = "write" THEN 1 ELSE IF pc = "look" THEN 2 ELSE 3)

LEMMA SlotsFinite ==
  ASSUME IsFiniteSet(File)
  PROVE  IsFiniteSet(Slots)
<1> DEFINE Of(f) == {f} \X Position(f)
           All == {Of(f) : f \in File}
<1> DEFINE map == [f \in File |-> Of(f)]
<1>1. IsFiniteSet(All)
  <2>1. map \in Surjection(File, All)
    BY DEF Surjection
  <2> HIDE DEF map, All
  <2> QED BY <2>1, FS_Surjection
<1>2. ASSUME NEW f \in File PROVE IsFiniteSet(Of(f))
  <2>1. IsFiniteSet({f})
    BY FS_Singleton
  <2>2. MaxLines[f] \in Int /\ 0 \in Int
    OBVIOUS
  <2>3. IsFiniteSet(0..MaxLines[f])
    BY <2>2, FS_Interval
  <2> QED BY <2>1, <2>3, FS_Product DEF Position
<1>3. \A T \in All : IsFiniteSet(T)
  BY <1>2
<1>4. IsFiniteSet(UNION All)
  <2> HIDE DEF All
  <2> QED BY <1>1, <1>3, FS_UNION
<1> QED BY <1>4 DEF Slots

LEMMA SlotIs ==
  ASSUME NEW s
  PROVE  s \in Slots <=> \E f \in File : \E n \in Position(f) : s = <<f, n>>
BY DEF Slots

\* Of the two sets that are counted, one that shrinks counts less.
LEMMA Counted ==
  ASSUME NEW S, IsFiniteSet(S), NEW A \in SUBSET S, NEW B \in SUBSET S, B \subseteq A
  PROVE  /\ Cardinality(A) \in Nat /\ Cardinality(B) \in Nat /\ Cardinality(B) <= Cardinality(A)
         /\ A # B => Cardinality(B) < Cardinality(A)
<1>1. IsFiniteSet(A) /\ IsFiniteSet(B)
  BY FS_Subset
<1>2. Cardinality(A) \in Nat /\ Cardinality(B) \in Nat
  BY <1>1, FS_CardinalityType
<1>3. Cardinality(B) <= Cardinality(A) /\ (Cardinality(A) = Cardinality(B) => A = B)
  BY <1>1, FS_Subset
<1> QED BY <1>2, <1>3

\* A request has something in it.
LEMMA FirstHas ==
  ASSUME NEW N \in Nat, NEW S \in SUBSET (0..N), S # {}
  PROVE  \E n \in S : n \in First(S)
<1> DEFINE T == {N + 1 - n : n \in S}
<1>0. \A n \in S : n \in 0..N /\ N + 1 - n \in 1..(N + 1)
  OBVIOUS
<1>1. \A m \in T : m \in 1..(N + 1)
  <2> SUFFICES ASSUME NEW m \in T PROVE m \in 1..(N + 1)
    OBVIOUS
  <2>1. PICK n \in S : m = N + 1 - n
    OBVIOUS
  <2> HIDE DEF T
  <2> QED BY <1>0, <2>1
<1>2. T \in SUBSET (1..(N + 1)) /\ T # {} /\ N + 1 \in Nat
  <2>1. PICK n \in S : TRUE
    OBVIOUS
  <2>2. N + 1 - n \in T
    BY <2>1
  <2> HIDE DEF T
  <2> QED BY <1>1, <2>2
<1>3. Last(T) \in T /\ \A m \in T : m <= Last(T)
  <2> HIDE DEF T
  <2> QED BY <1>2, LastFacts
<1>4. PICK n \in S : Last(T) = N + 1 - n
  BY <1>3
<1>5. \A m \in S : N + 1 - m <= N + 1 - n
  BY <1>3, <1>4
<1> HIDE DEF T
<1>6. \A m \in S : ~(m < n)
  BY <1>0, <1>5
<1> DEFINE before == {m \in S : m < n}
<1>7. before = {}
  BY <1>6
<1>8. Cardinality(before) = 0
  <2> HIDE DEF before
  <2> QED BY <1>7, FS_EmptySet
<1>9. Cardinality(before) < Batch
  <2>1. Batch \in Nat /\ Batch # 0
    OBVIOUS
  <2> HIDE DEF before
  <2> QED BY <1>8, <2>1
<1>10. n \in {k \in S : Cardinality({m \in S : m < k}) < Batch}
  BY <1>9
<1> QED BY <1>10 DEF First

LEMMA LeftTyped ==
  ASSUME Typed, NEW f \in File
  PROVE  /\ MaxLines[f] \in Nat /\ pending[f].left \in SUBSET (0..MaxLines[f])
         /\ \A n \in pending[f].left : n \in Position(f)
BY TypedParts DEF Position

LEMMA Measured ==
  ASSUME IsFiniteSet(File), Typed
  PROVE  /\ Cardinality(todo) \in Nat /\ Cardinality(todo) <= Cardinality(File)
         /\ Cardinality(File) \in Nat /\ Cardinality(Slots) \in Nat
         /\ Cardinality(ToSend) \in Nat /\ Cardinality(ToSend) <= Cardinality(Slots)
<1>1. todo \in SUBSET File /\ ToSend \in SUBSET Slots /\ IsFiniteSet(Slots)
  BY TypedParts, SlotsFinite DEF ToSend
<1> QED BY <1>1, Counted
\* What is left to send is less, and no more is left to read.
LEMMA FewerToSend ==
  ASSUME IsFiniteSet(File), Typed, Typed', ToSend' \subseteq ToSend
  PROVE  /\ Cardinality(ToSend') <= Cardinality(ToSend)
         /\ ToSend' # ToSend => Cardinality(ToSend') < Cardinality(ToSend)
<1>1. IsFiniteSet(Slots) /\ ToSend \in SUBSET Slots /\ ToSend' \in SUBSET Slots
  BY SlotsFinite DEF ToSend, Slots, Position
<1> HIDE DEF ToSend, Slots
<1> QED BY <1>1, Counted

LEMMA EndsNearer ==
  ASSUME IsFiniteSet(File), Typed, pc # "idle", pc' = "idle"
  PROVE  StepsLeft' < StepsLeft
<1>1. Cardinality(todo) \in Nat /\ Cardinality(ToSend) \in Nat
  BY Measured
<1> QED BY <1>1 DEF StepsLeft

LEMMA LookNearer ==
  ASSUME IsFiniteSet(File), Typed, Typed', Look
  PROVE  StepsLeft' < StepsLeft
<1> PICK f \in todo : Look!2!(f)
  BY DEF Look
<1>1. /\ pc = "look" /\ todo' = todo \ {f} /\ pending' = pending
      /\ \/ UNCHANGED <<pc, now>>
         \/ pc' = "read" /\ now' = f
  BY DEF Look
<1>2. Unread' \subseteq Unread
  BY <1>1 DEF Unread
<1>3. ToSend' \subseteq ToSend
  BY <1>1, <1>2 DEF ToSend, Slots, Position
<1>4. Cardinality(todo') = Cardinality(todo) - 1
  <2>1. todo \in SUBSET File /\ f \in todo
    BY TypedParts
  <2>2. IsFiniteSet(todo)
    BY <2>1, FS_Subset
  <2> QED BY <1>1, <2>1, <2>2, FS_RemoveElement
<1>5. Cardinality(ToSend') <= Cardinality(ToSend) /\ Cardinality(ToSend') \in Nat
  BY <1>3, FewerToSend, SlotsFinite, Counted DEF ToSend
<1>6. Cardinality(todo) \in Nat /\ Cardinality(ToSend) \in Nat
  BY Measured
<1> QED BY <1>1, <1>4, <1>5, <1>6 DEF StepsLeft

LEMMA ReadNearer ==
  ASSUME IsFiniteSet(File), Typed, Typed', Read
  PROVE  StepsLeft' < StepsLeft
<1>1. /\ pc = "read" /\ pc' = "look" /\ now \in File /\ todo' = todo
      /\ \A f \in File : f # now => pending'[f] = pending[f]
  BY ReadEffect, TypedParts
<1>2. Unread = todo \cup {now} /\ Unread' = todo
  BY <1>1 DEF Unread
<1>3. ToSend' \subseteq ToSend
  BY <1>1, <1>2, SlotIs DEF ToSend
<1>4. Cardinality(ToSend') <= Cardinality(ToSend)
  BY <1>3, FewerToSend
<1>5. Cardinality(todo) \in Nat /\ Cardinality(ToSend) \in Nat /\ Cardinality(ToSend') \in Nat
  BY Measured, <1>3, SlotsFinite, Counted DEF ToSend
<1> QED BY <1>1, <1>4, <1>5 DEF StepsLeft

\* A request leaves out what it sent, whatever became of it.
LEMMA SentNearer ==
  ASSUME IsFiniteSet(File), Typed, Typed', pc = "look", UNCHANGED <<pc, todo, now>>,
         NEW f \in File, NEW n \in pending[f].left, n \notin pending'[f].left, todo = {},
         pending'[f].left \subseteq pending[f].left,
         \A g \in File : g # f => pending'[g] = pending[g]
  PROVE  StepsLeft' < StepsLeft
<1>1. Unread = {} /\ Unread' = {}
  BY DEF Unread
<1>2. ToSend' \subseteq ToSend
  BY <1>1, SlotIs DEF ToSend
<1>3. <<f, n>> \in ToSend /\ <<f, n>> \notin ToSend'
  BY <1>1, SlotIs, LeftTyped DEF ToSend
<1>4. Cardinality(ToSend') < Cardinality(ToSend)
  BY <1>2, <1>3, FewerToSend
<1>5. Cardinality(todo) \in Nat /\ Cardinality(ToSend) \in Nat /\ Cardinality(ToSend') \in Nat
  BY Measured, <1>2, SlotsFinite, Counted DEF ToSend
<1> QED BY <1>4, <1>5 DEF StepsLeft

LEMMA SendNearer ==
  ASSUME IsFiniteSet(File), Typed, Typed', NEW f \in File,
         Send(f) \/ SendRefused(f) \/ SendUnanswered(f)
  PROVE  StepsLeft' < StepsLeft
<1>1. CASE Send(f)
  <2>1. PICK n \in pending[f].left : n \in First(pending[f].left)
    BY <1>1, SendEffect, LeftTyped, FirstHas
  <2> QED BY <1>1, <2>1, SendEffect, SentNearer
<1>2. CASE SendRefused(f) \/ SendUnanswered(f)
  <2>1. CASE Ends
    BY <1>2, <2>1, FailEffect, EndsNearer DEF Ends
  <2>2. CASE pending' = [pending EXCEPT ![f] = NoItem] /\ UNCHANGED <<pc, todo, now, mark, mem>>
    <3>1. PICK n \in pending[f].left : TRUE
      BY <1>2, FailEffect
    <3>2. pending'[f].left = {} /\ \A g \in File : g # f => pending'[g] = pending[g]
      BY <2>2, TypedParts DEF NoItem
    <3> QED BY <1>2, <2>2, <3>1, <3>2, FailEffect, SentNearer
  <2> QED BY <1>2, <2>1, <2>2, FailEffect
<1> QED BY <1>1, <1>2

LEMMA TruncateNearer ==
  ASSUME IsFiniteSet(File), Typed, Truncate
  PROVE  StepsLeft' < StepsLeft
<1>1. pc = "look" /\ pc' = "write" /\ UNCHANGED <<todo, now, pending>>
  BY DEF Truncate
<1>2. ToSend' = ToSend
  BY <1>1 DEF ToSend, Unread, Slots, Position
<1>3. Cardinality(todo) \in Nat /\ Cardinality(ToSend) \in Nat
  BY Measured
<1> QED BY <1>1, <1>2, <1>3 DEF StepsLeft

\* A run of the exporter comes to its end by itself: every step of it and every
\* failure leaves it fewer, from a number that is fixed when it starts, and neither
\* sessions that grow under it nor ClickHouse give it one more.
THEOREM RunsEnd ==
  ASSUME IsFiniteSet(File)
  PROVE  Spec => /\ [](StepsLeft <= 2 * Cardinality(File) + Cardinality(Slots) + 3)
                 /\ [][pc # "idle" =>
                         /\ Script \/ Fails => StepsLeft' < StepsLeft /\ StepsLeft' >= 0
                         /\ Agents \/ Collapse => StepsLeft' = StepsLeft]_vars
<1> DEFINE Short == StepsLeft <= 2 * Cardinality(File) + Cardinality(Slots) + 3
           Nearer == pc # "idle" =>
                       /\ Script \/ Fails => StepsLeft' < StepsLeft /\ StepsLeft' >= 0
                       /\ Agents \/ Collapse => StepsLeft' = StepsLeft
<1>1. Typed => Short
  BY Measured DEF StepsLeft
<1>2. ASSUME Typed, Typed' PROVE Nearer
  <2>1. ASSUME pc # "idle", Script \/ Fails PROVE StepsLeft' < StepsLeft
    BY <1>2, <2>1, LookNearer, ReadNearer, SendNearer, TruncateNearer, EndsNearer
       DEF Script, Fails, Write, Kill, Ends
  <2>2. StepsLeft' >= 0
    <3>1. IsFiniteSet(Slots) /\ todo' \in SUBSET File /\ ToSend' \in SUBSET Slots
      BY <1>2, SlotsFinite DEF Typed, TypeOK, ToSend, Slots, Position
    <3>2. Cardinality(todo') \in Nat /\ Cardinality(ToSend') \in Nat
      BY <3>1, Counted
    <3> QED BY <3>2 DEF StepsLeft
  <2>3. ASSUME Agents \/ Collapse PROVE StepsLeft' = StepsLeft
    <3>1. UNCHANGED <<pc, todo, now, pending>>
      BY <2>3 DEF Agents, CodexLogs, CodexWrites, AntigravityLogs, Log, Collapse, run
    <3> QED BY <3>1 DEF StepsLeft, ToSend, Unread, Slots, Position
  <2> QED BY <2>1, <2>2, <2>3
<1>3. Spec => []Typed
  BY InitTyped, TypedKept, PTL DEF Spec
<1> QED BY <1>1, <1>2, <1>3, PTL DEF Spec
=============================================================================
