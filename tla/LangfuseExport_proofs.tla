------------------------ MODULE LangfuseExport_proofs ------------------------
EXTENDS LangfuseExport, TLAPS

USE ExportTyped DEF File, Zero

Line == [model : Model, total : [Counter -> Nat], used : Amount]

\* A running total goes on by what was used, or starts again with it.
Follows(f, i) ==
    \/ Total(f, i) = log[f][i].used
    \/ /\ f \in Codex /\ i # 1
       /\ \A k \in Counter : Total(f, i)[k] = Previous(f, i)[k] + log[f][i].used[k]

LogKnown ==
    /\ log \in [File -> Seq(Line)]
    /\ \A f \in File : \A i \in DOMAIN log[f] :
         Follows(f, i) /\ (f \in Antigravity => Total(f, i) = Zero)

-----------------------------------------------------------------------------
LEMMA InitKnown == Init => LogKnown
<1> SUFFICES ASSUME Init PROVE LogKnown
  OBVIOUS
<1>1. CASE log = [f \in File |-> <<>>]
  BY <1>1 DEF LogKnown, Line
<1>2. CASE \E m \in [File -> Model], u \in [File -> Amount] :
             /\ \A f \in File : <<m[f], u[f]>> \in Use /\ (f \in Antigravity => u[f] = Zero)
             /\ log = [f \in File |-> <<[model |-> m[f], total |-> u[f], used |-> u[f]]>>]
  <2>1. PICK m \in [File -> Model], u \in [File -> Amount] :
          /\ \A f \in File : <<m[f], u[f]>> \in Use /\ (f \in Antigravity => u[f] = Zero)
          /\ log = [f \in File |-> <<[model |-> m[f], total |-> u[f], used |-> u[f]]>>]
    BY <1>2
  <2>2. \A f \in File : [model |-> m[f], total |-> u[f], used |-> u[f]] \in Line
    BY DEF Line
  <2>3. log \in [File -> Seq(Line)]
    BY <2>1, <2>2
  <2>4. ASSUME NEW f \in File, NEW i \in DOMAIN log[f]
        PROVE  Follows(f, i) /\ (f \in Antigravity => Total(f, i) = Zero)
    <3>1. log[f] = <<[model |-> m[f], total |-> u[f], used |-> u[f]]>> /\ i = 1
      BY <2>1
    <3> QED BY <2>1, <3>1 DEF Follows, Total
  <2> QED BY <2>3, <2>4 DEF LogKnown
<1> QED BY <1>1, <1>2 DEF Init

LEMMA LogKept ==
  ASSUME LogKnown, NEW f \in File, NEW m \in Model, NEW t \in [Counter -> Nat], NEW u \in Amount,
         Log(f, m, t, u), f \in Antigravity => t = Zero,
         \/ t = u
         \/ /\ f \in Codex /\ log[f] # <<>>
            /\ \A k \in Counter : t[k] = Total(f, Len(log[f]))[k] + u[k]
  PROVE  LogKnown'
<1> DEFINE line == [model |-> m, total |-> t, used |-> u]
<1>1. line \in Line /\ line.total = t /\ line.used = u
  BY DEF Line
<1>2. log' = [log EXCEPT ![f] = Append(log[f], line)]
  BY DEF Log
<1> HIDE DEF line
<1>3. log[f] \in Seq(Line)
  BY DEF LogKnown
<1>4. log' \in [File -> Seq(Line)] /\ log'[f] = Append(log[f], line)
  BY <1>1, <1>2, <1>3 DEF LogKnown
<1>5. \A g \in File : g # f => log'[g] = log[g]
  BY <1>2 DEF LogKnown
<1>6. ASSUME NEW g \in File, NEW i \in DOMAIN log'[g]
      PROVE  Follows(g, i)' /\ (g \in Antigravity => Total(g, i)' = Zero)
  <2>1. CASE g # f
    <3>1. log'[g] = log[g] /\ i \in DOMAIN log[g]
      BY <1>5, <1>6, <2>1
    <3> QED BY <3>1 DEF LogKnown, Follows, Total, Previous
  <2>2. CASE g = f /\ i \in 1..Len(log[f])
    <3>1. \A j \in 1..Len(log[f]) : log'[g][j] = log[f][j]
      BY <1>3, <1>4, <2>2
    <3>2. i \in DOMAIN log[g] /\ log'[g][i] = log[g][i] /\ (i # 1 => log'[g][i - 1] = log[g][i - 1])
      BY <1>3, <2>2, <3>1
    <3>3. Follows(g, i) /\ (g \in Antigravity => Total(g, i) = Zero)
      BY <3>2 DEF LogKnown
    <3> QED BY <3>2, <3>3 DEF Follows, Total, Previous
  <2>3. CASE g = f /\ i = Len(log[f]) + 1
    <3>1. log'[g][i] = line
      BY <1>3, <1>4, <2>3
    <3>2. CASE t = u
      BY <1>1, <2>3, <3>1, <3>2 DEF Follows, Total
    <3>3. CASE t # u
      <4>1. /\ f \in Codex /\ f \notin Antigravity /\ Len(log[f]) \in Nat /\ i # 1
            /\ \A k \in Counter : t[k] = log[f][Len(log[f])].total[k] + u[k]
        BY <1>3, <2>3, <3>3 DEF Total
      <4>2. log'[g][i - 1] = log[f][Len(log[f])]
        <5>1. i - 1 = Len(log[f]) /\ Len(log[f]) \in 1..Len(log[f])
          BY <1>3, <2>3, <3>3, <4>1
        <5>2. \A j \in 1..Len(log[f]) : Append(log[f], line)[j] = log[f][j]
          BY <1>3
        <5> QED BY <1>4, <2>3, <5>1, <5>2
      <4> QED BY <1>1, <2>3, <3>1, <4>1, <4>2 DEF Follows, Total, Previous
    <3> QED BY <3>2, <3>3
  <2> QED BY <1>3, <1>4, <1>6, <2>1, <2>2, <2>3
<1> QED BY <1>4, <1>6 DEF LogKnown

LEMMA LogKnownKept == LogKnown /\ [Next]_vars => LogKnown'
<1> SUFFICES ASSUME LogKnown, [Next]_vars PROVE LogKnown'
  OBVIOUS
<1>1. ASSUME NEW f \in Codex, CodexLogs(f) PROVE LogKnown'
  <2>1. PICK use \in Use, goesOn \in BOOLEAN :
          LET t == IF log[f] = <<>> \/ ~goesOn THEN Zero ELSE Total(f, Len(log[f]))
          IN  Log(f, use[1], [k \in Counter |-> t[k] + use[2][k]], use[2])
    BY <1>1 DEF CodexLogs
  <2> DEFINE t == IF log[f] = <<>> \/ ~goesOn THEN Zero ELSE Total(f, Len(log[f]))
             total == [k \in Counter |-> t[k] + use[2][k]]
  <2>2. Log(f, use[1], total, use[2]) /\ f \in File /\ f \notin Antigravity
    BY <2>1
  <2>3. use[1] \in Model /\ use[2] \in Amount /\ use[2] \in [Counter -> Nat]
    OBVIOUS
  <2>4. CASE log[f] = <<>> \/ ~goesOn
    <3>1. total = use[2]
      BY <2>3, <2>4
    <3> HIDE DEF total
    <3> QED BY <2>2, <2>3, <3>1, LogKept
  <2>5. CASE ~(log[f] = <<>> \/ ~goesOn)
    <3>1. log[f] \in Seq(Line) /\ log[f] # <<>>
      BY <2>5 DEF LogKnown
    <3>2. log[f][Len(log[f])] \in Line
      BY <3>1
    <3>3. Total(f, Len(log[f])) \in [Counter -> Nat] /\ t = Total(f, Len(log[f]))
      BY <2>5, <3>2 DEF Line, Total
    <3> HIDE DEF t
    <3>4. total \in [Counter -> Nat] /\ \A k \in Counter : total[k] = Total(f, Len(log[f]))[k] + use[2][k]
      BY <2>3, <3>3
    <3> HIDE DEF total
    <3> QED BY <2>2, <2>3, <3>1, <3>4, LogKept
  <2> QED BY <2>4, <2>5
<1>2. ASSUME NEW f \in Antigravity, AntigravityLogs(f) PROVE LogKnown'
  <2>1. PICK m \in Model : Log(f, m, Zero, Zero)
    BY <1>2 DEF AntigravityLogs
  <2>2. Zero \in [Counter -> Nat] /\ Zero \in Amount
    OBVIOUS
  <2> QED BY <2>1, <2>2, LogKept
<1>3. CASE log' = log
  BY <1>3 DEF LogKnown, Follows, Total, Previous
<1>4. \/ log' = log \/ (\E f \in Codex : CodexLogs(f)) \/ (\E f \in Antigravity : AntigravityLogs(f))
  BY DEF Next, Script, Fails, Agents, vars, files, Look, Read, Settled, Truncate, Write, Send,
     Start, Kill, SendRefused, SendUnanswered, CodexWrites, Collapse, AddPrice
<1> QED BY <1>1, <1>2, <1>3, <1>4

LEMMA LogKnownHolds == Spec => []LogKnown
BY InitKnown, LogKnownKept, PTL DEF Spec

-----------------------------------------------------------------------------
\* What a reader that compares counters K makes of line i, from what it follows.
LEMMA LineRead ==
  ASSUME NEW f \in File, NEW i \in DOMAIN log[f], NEW K \in SUBSET Counter,
         NEW p \in [Counter -> Nat], NEW q \in [Counter -> Nat], NEW u \in [Counter -> Nat],
         p = Previous(f, i), q = Total(f, i), u = log[f][i].used,
         q = u \/ \A k \in Counter : q[k] = p[k] + u[k]
  PROVE  ReadRight(f, i, K)
<1> DEFINE read == Delta(f, i, K)
<1>1. read = IF \E k \in K : q[k] - p[k] < 0 THEN [k \in K |-> q[k]]
             ELSE [k \in K |-> q[k] - p[k]]
  BY DEF Delta
<1>2. ReadRight(f, i, K) <=>
        IF (\E k \in K : q[k] # p[k] + u[k]) /\ (\A k \in K : q[k] >= p[k])
        THEN \A k \in K : read[k] <= u[k]
        ELSE \A k \in K : read[k] = u[k]
  BY DEF ReadRight
<1> HIDE DEF read
<1>3. CASE \E k \in K : q[k] - p[k] < 0
  <2>1. q = u /\ \A k \in K : read[k] = q[k]
    BY <1>1, <1>3
  <2> QED BY <1>2, <1>3, <2>1
<1>4. CASE \A k \in K : q[k] - p[k] >= 0
  <2>1. \A k \in K : read[k] = q[k] - p[k]
    BY <1>1, <1>4
  <2>2. CASE \A k \in K : q[k] = p[k] + u[k]
    <3>1. \A k \in K : read[k] = u[k]
      BY <2>1, <2>2
    <3> QED BY <1>2, <2>2, <3>1
  <2>3. CASE \E k \in K : q[k] # p[k] + u[k]
    <3>1. \A k \in K : read[k] <= u[k]
      BY <2>1, <2>3
    <3>2. \A k \in K : q[k] >= p[k]
      BY <1>4
    <3> QED BY <1>2, <2>3, <3>1, <3>2
  <2> QED BY <2>2, <2>3
<1> QED BY <1>3, <1>4

\* A restart that the report sees is one that the exporter sees.
LEMMA LineReported ==
  ASSUME NEW f \in File, NEW i \in DOMAIN log[f],
         NEW p \in [Counter -> Nat], NEW q \in [Counter -> Nat],
         p = Previous(f, i), q = Total(f, i)
  PROVE  \A k \in ReportKey : Reported(f, i)[k] <= Delta(f, i, Counter)[k]
<1>1. Delta(f, i, Counter) = IF \E k \in Counter : q[k] - p[k] < 0 THEN [k \in Counter |-> q[k]]
                             ELSE [k \in Counter |-> q[k] - p[k]]
  BY DEF Delta
<1>2. Reported(f, i) = IF \E k \in ReportKey : q[k] - p[k] < 0 THEN [k \in ReportKey |-> q[k]]
                       ELSE [k \in ReportKey |-> q[k] - p[k]]
  BY DEF Delta, Reported
<1>3. CASE \E k \in Counter : q[k] - p[k] < 0
  <2>1. \A k \in ReportKey : Delta(f, i, Counter)[k] = q[k]
    BY <1>1, <1>3
  <2>2. \A k \in ReportKey : Reported(f, i)[k] <= q[k]
    BY <1>2
  <2> QED BY <2>1, <2>2
<1>4. CASE \A k \in Counter : q[k] - p[k] >= 0
  <2>1. \A k \in ReportKey : Delta(f, i, Counter)[k] = q[k] - p[k]
    BY <1>1, <1>4
  <2>2. \A k \in ReportKey : Reported(f, i)[k] = q[k] - p[k]
    BY <1>2, <1>4
  <2> QED BY <2>1, <2>2
<1> QED BY <1>3, <1>4

\* However sessions log, and wherever a running total starts again, neither reader
\* counts more than was used, nor less, unless it cannot see the restart; and what
\* the report counts of a line, whether or not it has a price, the exporter does.
THEOREM ReadingExact == Spec => []ReadingIsExact
<1>1. LogKnown => ReadingIsExact
  <2> SUFFICES ASSUME LogKnown, NEW f \in File, NEW i \in DOMAIN log[f]
               PROVE  /\ ReadRight(f, i, Counter)
                      /\ ReadRight(f, i, ReportKey)
                      /\ \A k \in ReportKey : Reported(f, i)[k] <= Delta(f, i, Counter)[k]
    BY DEF ReadingIsExact
  <2>1. log[f] \in Seq(Line)
    BY DEF LogKnown
  <2>2. log[f][i] \in Line /\ (i # 1 => log[f][i - 1] \in Line)
    BY <2>1
  <2>3. Total(f, i) \in [Counter -> Nat] /\ log[f][i].used \in [Counter -> Nat]
    BY <2>2 DEF Line, Total
  <2>4. Previous(f, i) \in [Counter -> Nat]
    BY <2>2 DEF Line, Total, Previous
  <2>5. \/ Total(f, i) = log[f][i].used
        \/ \A k \in Counter : Total(f, i)[k] = Previous(f, i)[k] + log[f][i].used[k]
    BY DEF LogKnown, Follows
  <2>6. Counter \in SUBSET Counter /\ ReportKey \in SUBSET Counter
    OBVIOUS
  <2> QED BY <2>3, <2>4, <2>5, <2>6, LineRead, LineReported
<1> QED BY <1>1, LogKnownHolds, PTL
=============================================================================
