------------------------ MODULE PostgresMajor_proofs ------------------------
EXTENDS PostgresMajor, FiniteSetTheorems, TLAPS

USE ConstantsTyped DEF Compose, Content, Task, State

LEMMA InitTyped == Init => TypeOK
<1> SUFFICES ASSUME Init PROVE TypeOK
  OBVIOUS
<1>1. PICK fresh \in SUBSET Service, junk \in SUBSET (Service \X (Loc \ Anonymous)) : Init!2!(fresh, junk)
  BY DEF Init
<1>2. container \in [Service -> [major : Major, loc : Loc, state : State]]
  BY <1>1
<1>3. format \in [Service -> [Loc -> Major \cup {0}]]
  BY <1>1
<1>4. rows \in [Service -> [Loc -> Content]]
  BY <1>1
<1>5. apps \in [Service -> SUBSET App] /\ truth \in [Service -> Content]
  BY <1>1
<1>6. QED BY <1>2, <1>3, <1>4, <1>5 DEF Init, TypeOK, NoMarker

LEMMA ConsiderOutcome ==
  ASSUME NEW o \in Operator, NEW s \in Service, Consider(o, s)
  PROVE  \/ Refuse(o) /\ UNCHANGED <<todo, svc>>
         \/ Go(o, "stop") /\ svc' = [svc EXCEPT ![o] = s] /\ UNCHANGED todo
         \/ todo' = [todo EXCEPT ![o] = @ \ {s}] /\ UNCHANGED <<pc, svc>>
BY DEF Consider

LEMMA RunTyped ==
  ASSUME TypeOK, NEW o \in Operator, Step(o)
  PROVE  TypeOK'
<1> USE DEF TypeOK, Go, Refuse, host, plan
<1>1. ASSUME NEW s \in Service, Consider(o, s) PROVE TypeOK'
  <2>1. CASE Refuse(o) /\ UNCHANGED <<todo, svc>>
    BY <1>1, <2>1 DEF Consider
  <2>2. CASE Go(o, "stop") /\ svc' = [svc EXCEPT ![o] = s] /\ UNCHANGED todo
    BY <1>1, <2>2 DEF Consider
  <2>3. CASE todo' = [todo EXCEPT ![o] = @ \ {s}] /\ UNCHANGED <<pc, svc>>
    BY <1>1, <2>3 DEF Consider
  <2>4. QED BY <1>1, <2>1, <2>2, <2>3, ConsiderOutcome
<1>2. ASSUME NEW s \in Service, StackDatabase(o, s) PROVE TypeOK'
  BY <1>2 DEF StackDatabase, ComposeUp
<1>3. ASSUME NEW a \in App, StopApp(o, a) PROVE TypeOK'
  BY <1>3 DEF StopApp
<1>4. CASE AllStopped(o)
  BY <1>4 DEF AllStopped
<1>5. CASE CountBefore(o)
  BY <1>5 DEF CountBefore, Served, Mount
<1>6. CASE Dump(o)
  BY <1>6 DEF Dump, Served, Mount
<1>7. CASE Mark(o)
  BY <1>7 DEF Mark
<1>8. CASE BringUpAlone(o)
  BY <1>8 DEF BringUpAlone, ComposeUp
<1>9. CASE NeverReady(o) \/ ExecFails(o) \/ CheckTarget(o) \/ CountAfter(o)
  BY <1>9 DEF NeverReady, ExecFails, CheckTarget, CountAfter
<1>10. CASE RestoreSome(o)
  BY <1>10 DEF RestoreSome, Restore, Mount
<1>11. CASE RestoreRest(o)
  BY <1>11 DEF RestoreRest, Restore, Mount
<1>12. CASE ClearMarker(o)
  BY <1>12 DEF ClearMarker, NoMarker
<1>13. CASE StartStacks(o)
  BY <1>13 DEF StartStacks
<1>14. CASE StackApps(o)
  BY <1>14 DEF StackApps, WithTables, Mount
<1>15. QED
  BY <1>1, <1>2, <1>3, <1>4, <1>5, <1>6, <1>7, <1>8, <1>9, <1>10, <1>11, <1>12,
     <1>13, <1>14 DEF Step

-----------------------------------------------------------------------------
SingleOperator == \A a, b \in Operator : a = b
EveryWriterStopped == StopList = App
NothingRemoved == "container_removed" \notin Incident

\* The parts of the invariant that speak of the host alone, service by service.
HostOk(s) ==
    /\ Marked(s) => apps[s] = {}
    /\ Exists(s) /\ Served(s) # truth[s] => Marked(s)
    /\ apps[s] # {} => Exists(s) /\ Served(s) = truth[s]
    /\ Marked(s) => marker[s].dump = truth[s]
    /\ Marked(s) => \E l \in Loc : format[s][l] = marker[s].from /\ rows[s][l] = truth[s]
    /\ \E c \in Checkout : Asks(c, s)
    /\ \A l \in Loc : format[s][l] \in {0, Leftover} \/
         \E c \in Checkout : c[s].major = format[s][l] /\ c[s].loc = l
    /\ Answers(s) => format[s][Mount(s)] = container[s].major
    /\ ~Exists(s) => /\ ~Marked(s) /\ apps[s] = {} /\ truth[s] = {}
                     /\ \A l \in Loc : rows[s][l] = {}
    /\ Marked(s) => /\ marker[s].from \in Major /\ marker[s].from < Leftover
                    /\ \A l \in Loc : format[s][l] = marker[s].from => rows[s][l] = truth[s]
                    /\ container[s].major = marker[s].from
                         => format[s][Mount(s)] = marker[s].from
HostInv == \A s \in Service : HostOk(s)

LEMMA HostIsIInv == TypeOK /\ HostInv /\ RunKnows => IInv
BY DEF HostInv, HostOk, IInv, UntrustedNotServed, UntrustedIsMarked, ServedIsCurrent,
       MarkerNamesWholeDump, WayBackExists, Located, NothingYet, OldDataWhole

\* What happens to one service says nothing of another.
LEMMA HostKept ==
  ASSUME NEW s \in Service, HostOk(s),
         container'[s] = container[s], format'[s] = format[s], rows'[s] = rows[s],
         apps'[s] = apps[s], marker'[s] = marker[s], truth'[s] = truth[s]
  PROVE  HostOk(s)'
BY DEF HostOk, Marked, Exists, Answers, Served, Mount, Asks

LEMMA TypedAt ==
  ASSUME TypeOK, NEW s \in Service
  PROVE  /\ container[s].major \in Nat \ {0} /\ container[s].major \in Major
         /\ Mount(s) \in Loc
         /\ \A l \in Loc : format[s][l] \in Nat /\ rows[s][l] \in Content
         /\ marker[s].from \in Nat
         /\ apps[s] \in SUBSET App /\ truth[s] \in Content
<1>1. /\ container[s] \in [major : Major, loc : Loc, state : State]
      /\ format[s] \in [Loc -> Major \cup {0}] /\ rows[s] \in [Loc -> Content]
      /\ marker[s] \in {NoMarker} \cup [from : Major, dump : Content]
      /\ apps[s] \in SUBSET App /\ truth[s] \in Content
  BY DEF TypeOK
<1>2. /\ container[s].major \in Major /\ container[s].loc \in Loc
      /\ marker[s].from \in Major \cup {0}
  BY <1>1 DEF NoMarker
<1>3. \A l \in Loc : format[s][l] \in Major \cup {0} /\ rows[s][l] \in Content
  BY <1>1
<1>4. \A m \in Major : m \in Nat \ {0}
  OBVIOUS
<1>5. container[s].major \in Nat \ {0} /\ marker[s].from \in Nat
  BY ONLY <1>2, <1>4
<1>6. \A l \in Loc : format[s][l] \in Nat
  BY ONLY <1>3, <1>4
<1>7. QED BY <1>1, <1>2, <1>3, <1>5, <1>6, Zenon DEF Mount

LEMMA CheckoutAt ==
  ASSUME NEW c \in Checkout, NEW s \in Service
  PROVE  /\ c[s].major \in Nat \ {0} /\ c[s].major \in Major /\ c[s].loc \in Loc
         /\ Leftover \in Nat /\ c[s].major <= Leftover
BY LeftoverIsNewest

LEMMA StopAppHost ==
  ASSUME HostInv, TypeOK, NEW o \in Operator, NEW a \in App, StopApp(o, a)
  PROVE  HostInv'
<1> SUFFICES ASSUME NEW s \in Service PROVE HostOk(s)'
  BY DEF HostInv
<1>1. /\ container'[s] = container[s] /\ format'[s] = format[s] /\ rows'[s] = rows[s]
      /\ marker'[s] = marker[s] /\ truth'[s] = truth[s]
      /\ apps[s] = {} => apps'[s] = {}
  BY DEF StopApp, TypeOK
<1>2. HostOk(s)
  BY DEF HostInv
<1> QED BY <1>1, <1>2 DEF HostOk, Marked, Exists, Answers, Served, Mount, Asks

LEMMA MarkHost ==
  ASSUME HostInv, TypeOK, RunKnows, NEW o \in Operator, Mark(o)
  PROVE  HostInv'
<1> SUFFICES ASSUME NEW s \in Service, s = svc[o] PROVE HostInv'
  BY DEF TypeOK
<1> DEFINE from == container[s].major
<1>1. /\ Exists(s) /\ ~Marked(s) /\ apps[s] = {} /\ dump[o] = truth[s]
      /\ checkout[o] \in Checkout
      /\ from < checkout[o][s].major /\ format[s][Mount(s)] = from
  BY DEF RunKnows, Moving, InMove, OldPart, NewPart, TypeOK, Mark
<1>2. /\ marker'[s] = [from |-> from, dump |-> truth[s]]
      /\ \A x \in Service : x # s => marker'[x] = marker[x]
  BY <1>1 DEF Mark, TypeOK
<1>3. UNCHANGED <<container, format, rows, apps, truth>>
  BY DEF Mark
<1>4. from \in Major /\ from \in Nat \ {0} /\ from < Leftover /\ Mount(s) \in Loc
  BY <1>1, TypedAt, CheckoutAt
<1>5. HostOk(s)
  BY <1>1 DEF HostInv
<1>6. marker'[s] # NoMarker /\ marker'[s].from = from /\ marker'[s].dump = truth[s]
  BY <1>2, <1>4 DEF NoMarker
<1>7. \A l \in Loc : format[s][l] = from => l = Mount(s)
  <2>1. PICK c \in Checkout : c[s].major = from /\ c[s].loc = Mount(s)
    BY <1>5 DEF HostOk, Asks
  <2>2. SUFFICES ASSUME NEW l \in Loc, format[s][l] = from PROVE l = Mount(s)
    OBVIOUS
  <2>3. from # Leftover /\ from # 0
    BY <1>4
  <2>4. PICK d \in Checkout : d[s].major = from /\ d[s].loc = l
    BY <1>5, <2>2, <2>3 DEF HostOk
  <2> QED BY <1>1, <2>1, <2>4, OneLocationPerMajor
<1>8. rows[s][Mount(s)] = truth[s]
  BY <1>1, <1>5 DEF HostOk, Served
<1>9. HostOk(s)'
  <2>1. (Marked(s) /\ Exists(s) /\ apps[s] = {} /\ marker[s].dump = truth[s])'
    BY <1>1, <1>3, <1>6 DEF Marked, Exists
  <2>2. (\E c \in Checkout : Asks(c, s))'
    BY <1>3, <1>5 DEF HostOk, Asks, Mount
  <2>3. (Answers(s) => format[s][Mount(s)] = container[s].major)'
    BY <1>3, <1>5 DEF HostOk, Answers, Mount
  <2>4. \A l \in Loc : format'[s][l] \in {0, Leftover} \/
          \E c \in Checkout : c[s].major = format'[s][l] /\ c[s].loc = l
    BY <1>3, <1>5 DEF HostOk
  <2>5. \A l \in Loc : format'[s][l] = marker'[s].from => rows'[s][l] = truth'[s]
    BY <1>3, <1>6, <1>7, <1>8
  <2>6. /\ format'[s][Mount(s)'] = marker'[s].from
        /\ \E l \in Loc : format'[s][l] = marker'[s].from /\ rows'[s][l] = truth'[s]
    BY <1>1, <1>3, <1>4, <1>6, <1>8 DEF Mount
  <2>7. marker'[s].from \in Major /\ marker'[s].from < Leftover
    BY <1>4, <1>6
  <2> QED BY <2>1, <2>2, <2>3, <2>4, <2>5, <2>6, <2>7 DEF HostOk
<1>10. \A x \in Service : x # s => HostOk(x)'
  BY <1>2, <1>3, HostKept DEF HostInv
<1> QED BY <1>9, <1>10 DEF HostInv

LEMMA BringUpAloneHost ==
  ASSUME HostInv, TypeOK, RunKnows, NEW o \in Operator, BringUpAlone(o)
  PROVE  HostInv'
<1> SUFFICES ASSUME NEW s \in Service, s = svc[o] PROVE HostInv'
  BY DEF TypeOK
<1>1. /\ Exists(s) /\ Marked(s)
      /\ compose = checkout[o] /\ checkout[o] \in Checkout
      /\ marker[s].from = container[s].major
      /\ container[s].major < compose[s].major
  BY DEF RunKnows, Moving, InMove, OldPart, NewPart, TypeOK, BringUpAlone
<1>2. container[s].major \in Nat /\ compose[s].major \in Nat
  BY <1>1, TypedAt, CheckoutAt
<1>3. /\ container'[s].major = compose[s].major
      /\ container'[s].loc = compose[s].loc
      /\ container'[s].state = "starting"
      /\ \A x \in Service : x # s => container'[x] = container[x]
  <2>1. container[s].major # compose[s].major
    BY <1>1, <1>2
  <2> QED BY <1>1, <2>1 DEF BringUpAlone, ComposeUp, TypeOK
<1>4. UNCHANGED <<format, rows, apps, marker, truth>>
  BY DEF BringUpAlone
<1>5. container'[s].major # marker[s].from
  BY <1>1, <1>2, <1>3
<1>6. HostOk(s)
  BY <1>1 DEF HostInv
<1>7. HostOk(s)'
  BY <1>1, <1>3, <1>4, <1>5, <1>6, SMTT(30) DEF HostOk, Marked, Exists, Answers, Served, Mount, Asks
<1>8. \A x \in Service : x # s => HostOk(x)'
  BY <1>3, <1>4, HostKept DEF HostInv
<1> QED BY <1>7, <1>8 DEF HostInv

\* pg_restore writes where the new server is, never to a location of the old major.
LEMMA RestoreHost ==
  ASSUME HostInv, TypeOK, RunKnows, NEW o \in Operator, pc[o] \in NewPart, Answers(svc[o]),
         NEW c \in Content, Restore(svc[o], c),
         UNCHANGED <<container, format, apps, marker, truth>>
  PROVE  HostInv'
<1> SUFFICES ASSUME NEW s \in Service, s = svc[o] PROVE HostInv'
  BY DEF TypeOK
<1>1. /\ Exists(s) /\ Marked(s)
      /\ marker[s].from < container[s].major
  BY DEF RunKnows, Moving, InMove, OldPart, NewPart, TypeOK
<1>2. HostOk(s)
  BY <1>1 DEF HostInv
<1>3. Mount(s) \in Loc /\ format[s][Mount(s)] # marker[s].from
  <2>1. format[s][Mount(s)] = container[s].major
    BY <1>2 DEF HostOk
  <2> QED BY <1>1, <2>1, TypedAt
<1>4. \A l \in Loc : l # Mount(s) => rows'[s][l] = rows[s][l]
  BY <1>1 DEF Restore, TypeOK
<1>5. \A x \in Service : x # s => rows'[x] = rows[x]
  BY <1>1 DEF Restore, TypeOK
<1>6. HostOk(s)'
  BY <1>1, <1>2, <1>3, <1>4, SMTT(30) DEF HostOk, Marked, Exists, Answers, Served, Mount, Asks
<1>7. \A x \in Service : x # s => HostOk(x)'
  BY <1>5, HostKept DEF HostInv
<1> QED BY <1>6, <1>7 DEF HostInv

LEMMA ClearMarkerHost ==
  ASSUME HostInv, TypeOK, RunKnows, NEW o \in Operator, ClearMarker(o)
  PROVE  HostInv'
<1> SUFFICES ASSUME NEW s \in Service, s = svc[o] PROVE HostInv'
  BY DEF TypeOK
<1>1. Exists(s) /\ Served(s) = truth[s] /\ Marked(s)
  BY DEF RunKnows, Moving, InMove, OldPart, NewPart, TypeOK, ClearMarker
<1>2. marker'[s] = NoMarker /\ \A x \in Service : x # s => marker'[x] = marker[x]
  BY <1>1 DEF ClearMarker, TypeOK
<1>3. UNCHANGED <<container, format, rows, apps, truth>>
  BY DEF ClearMarker
<1>4. HostOk(s)
  BY <1>1 DEF HostInv
<1>5. HostOk(s)'
  BY <1>1, <1>2, <1>3, <1>4, SMTT(30) DEF HostOk, Marked, Exists, Answers, Served, Mount, Asks
<1>6. \A x \in Service : x # s => HostOk(x)'
  BY <1>2, <1>3, HostKept DEF HostInv
<1> QED BY <1>5, <1>6 DEF HostInv

LEMMA StackDatabaseHost ==
  ASSUME HostInv, TypeOK, RunKnows, NEW o \in Operator, NEW s \in Service, StackDatabase(o, s)
  PROVE  HostInv'
<1>1. /\ compose = checkout[o] /\ checkout[o] \in Checkout
      /\ ~Marked(s)
      /\ Exists(s) => Asks(checkout[o], s)
  BY DEF RunKnows, Settled, TypeOK, StackDatabase
<1>2. /\ container'[s].major = compose[s].major
      /\ container'[s].loc = compose[s].loc
      /\ container'[s].state \in {"up", "starting"}
      /\ container'[s].state = "up" => Answers(s)
      /\ \A x \in Service : x # s => container'[x] = container[x]
  BY DEF StackDatabase, ComposeUp, TypeOK
<1>3. UNCHANGED <<format, rows, apps, marker, truth>>
  BY DEF StackDatabase
<1>4. HostOk(s)
  BY DEF HostInv
<1>5. compose[s].loc \in Loc
  BY <1>1, CheckoutAt
<1>6. HostOk(s)'
  <2>1. CASE Exists(s)
    BY <1>1, <1>2, <1>3, <1>4, <2>1, SMTT(30) DEF HostOk, Marked, Exists, Answers, Served, Mount, Asks
  <2>2. CASE ~Exists(s)
    BY <1>1, <1>2, <1>3, <1>4, <1>5, <2>2
       DEF HostOk, Marked, Exists, Answers, Served, Mount, Asks
  <2> QED BY <2>1, <2>2
<1>7. \A x \in Service : x # s => HostOk(x)'
  BY <1>2, <1>3, HostKept DEF HostInv
<1> QED BY <1>6, <1>7 DEF HostInv

\* Whatever an application does to an unmarked database is what its users want.
LEMMA WrittenHost ==
  ASSUME HostInv, TypeOK, NEW s \in Service, ~Marked(s), Exists(s), NEW c \in Content,
         rows' = [rows EXCEPT ![s][Mount(s)] = c],
         truth' = [truth EXCEPT ![s] = c],
         apps' \in [Service -> SUBSET App],
         \A x \in Service : x # s => apps'[x] = apps[x],
         UNCHANGED <<container, format, marker>>
  PROVE  HostInv'
<1>1. HostOk(s) /\ Mount(s) \in Loc
  BY TypedAt DEF HostInv
<1>2. /\ rows'[s][Mount(s)] = c /\ truth'[s] = c
      /\ \A x \in Service : x # s => rows'[x] = rows[x] /\ truth'[x] = truth[x]
  BY <1>1 DEF TypeOK
<1>3. HostOk(s)'
  BY <1>1, <1>2, SMTT(30) DEF HostOk, Marked, Exists, Answers, Served, Mount, Asks
<1>4. \A x \in Service : x # s => HostOk(x)'
  BY <1>2, HostKept DEF HostInv
<1> QED BY <1>3, <1>4 DEF HostInv

LEMMA StackAppsHost ==
  ASSUME HostInv, TypeOK, RunKnows, NEW o \in Operator, StackApps(o)
  PROVE  HostInv'
<1> SUFFICES ASSUME NEW s \in Service, s = svc[o] PROVE HostInv'
  BY DEF TypeOK
<1>1. ~Marked(s) /\ Exists(s)
  BY DEF RunKnows, Settled, StackApps
<1>2. Served(s) = truth[s] /\ Mount(s) \in Loc
  BY <1>1, TypedAt DEF HostInv, HostOk
<1>3. WithTables(truth[s]) \in Content
  BY DEF WithTables, TypeOK
<1>4. /\ rows' = [rows EXCEPT ![s][Mount(s)] = WithTables(truth[s])]
      /\ truth' = [truth EXCEPT ![s] = WithTables(truth[s])]
  BY <1>2 DEF StackApps, Served, TypeOK
<1>5. /\ apps' \in [Service -> SUBSET App]
      /\ \A x \in Service : x # s => apps'[x] = apps[x]
      /\ UNCHANGED <<container, format, marker>>
  BY DEF StackApps, TypeOK
<1> QED BY <1>1, <1>3, <1>4, <1>5, WrittenHost

LEMMA AppWriteHost ==
  ASSUME HostInv, TypeOK, NEW s \in Service, NEW r \in Row, AppWrite(s, r)
  PROVE  HostInv'
<1>1. ~Marked(s) /\ Exists(s) /\ Served(s) = truth[s] /\ truth[s] \in Content
  BY TypedAt DEF HostInv, HostOk, AppWrite, Exists, Answers
<1>2. /\ apps' \in [Service -> SUBSET App]
      /\ \A x \in Service : x # s => apps'[x] = apps[x]
      /\ UNCHANGED <<container, format, marker>>
  BY DEF AppWrite, TypeOK
<1>3. \E c \in Content : /\ rows' = [rows EXCEPT ![s][Mount(s)] = c]
                         /\ truth' = [truth EXCEPT ![s] = c]
  <2>1. CASE r \notin Served(s)
    <3>1. truth[s] \cup {r} \in Content
      BY <1>1
    <3> QED BY <1>1, <2>1, <3>1 DEF AppWrite, Served, TypeOK
  <2>2. CASE r \in Served(s)
    <3>1. truth[s] \ {r} \in Content
      BY <1>1
    <3> QED BY <1>1, <2>2, <3>1 DEF AppWrite, Served, TypeOK
  <2> QED BY <2>1, <2>2
<1> QED BY <1>1, <1>2, <1>3, WrittenHost

\* A database that starts, stops or is started again keeps its image and mount.
LEMMA StateHost ==
  ASSUME HostInv, TypeOK, NEW s \in Service, Exists(s),
         NEW state \in State \ {"none"}, container' = [container EXCEPT ![s] = In(state, s)],
         \A x \in Service : x # s => format'[x] = format[x],
         \A l \in Loc : format'[s][l] =
            IF l = Mount(s) /\ state = "up" THEN container[s].major ELSE format[s][l],
         state = "up" => Fits(s),
         UNCHANGED <<rows, apps, marker, truth>>
  PROVE  HostInv'
<1>1. HostOk(s) /\ Mount(s) \in Loc
  BY TypedAt DEF HostInv
<1>2. /\ container'[s].major = container[s].major /\ container'[s].loc = container[s].loc
      /\ container'[s].state = state
      /\ \A x \in Service : x # s => container'[x] = container[x]
  BY DEF TypeOK, In, Mount
<1>3. PICK c \in Checkout : c[s].major = container[s].major /\ c[s].loc = Mount(s)
  BY <1>1 DEF HostOk, Asks
<1>4. Asks(c, s)'
  BY <1>2, <1>3 DEF Asks, Mount
<1>5. \A l \in Loc : format'[s][l] \in {0, Leftover} \/
         \E d \in Checkout : d[s].major = format'[s][l] /\ d[s].loc = l
  BY <1>1, <1>3 DEF HostOk
<1>6. state = "up" => format[s][Mount(s)] \in {0, container[s].major}
  BY DEF Fits
<1>7. (Answers(s) => format[s][Mount(s)] = container[s].major)'
  BY <1>1, <1>2 DEF Answers, Mount
<1>8. ASSUME Marked(s)
      PROVE  \A l \in Loc : format'[s][l] = marker[s].from <=> format[s][l] = marker[s].from
  <2>1. marker[s].from \in Nat \ {0}
    BY <1>1, <1>8 DEF HostOk
  <2>2. container[s].major = marker[s].from => format[s][Mount(s)] = marker[s].from
    BY <1>1, <1>8 DEF HostOk
  <2> QED BY <1>1, <1>6, <2>1, <2>2
<1>9. HostOk(s)'
  BY <1>1, <1>2, <1>4, <1>5, <1>7, <1>8 DEF HostOk, Marked, Exists, Served, Mount
<1>10. \A x \in Service : x # s => HostOk(x)'
  BY <1>2, HostKept DEF HostInv
<1> QED BY <1>9, <1>10 DEF HostInv

LEMMA DatabaseHost ==
  ASSUME HostInv, TypeOK, NEW s \in Service,
         ServerReady(s) \/ DatabaseDown(s) \/ DatabaseStarted(s)
  PROVE  HostInv'
<1>1. Mount(s) \in Loc /\ Exists(s)
  BY TypedAt DEF Exists, Answers, ServerReady, DatabaseDown, DatabaseStarted
<1>2. CASE ServerReady(s)
  <2>1. /\ \A x \in Service : x # s => format'[x] = format[x]
        /\ \A l \in Loc : format'[s][l] =
             IF l = Mount(s) THEN container[s].major ELSE format[s][l]
    BY <1>1, <1>2 DEF ServerReady, TypeOK
  <2>2. /\ container' = [container EXCEPT ![s] = In("up", s)] /\ Fits(s)
        /\ UNCHANGED <<rows, apps, marker, truth>>
    BY <1>2 DEF ServerReady
  <2>3. "up" \in State \ {"none"}
    OBVIOUS
  <2> QED BY <1>1, <2>1, <2>2, <2>3, StateHost
<1>3. CASE DatabaseDown(s) \/ DatabaseStarted(s)
  <2>1. PICK state \in {"down", "starting"} :
          container' = [container EXCEPT ![s] = In(state, s)]
    BY <1>3 DEF DatabaseDown, DatabaseStarted
  <2>2. UNCHANGED <<format, rows, apps, marker, truth>>
    BY <1>3 DEF DatabaseDown, DatabaseStarted
  <2>3. state \in State \ {"none"} /\ state # "up"
    BY <2>1
  <2> QED BY <1>1, <2>1, <2>2, <2>3, StateHost
<1> QED BY <1>2, <1>3

LEMMA TryAgainHost ==
  ASSUME HostInv, TypeOK, NEW s \in Service, TryAgain(s)
  PROVE  HostInv'
<1>1. /\ HostOk(s) /\ Marked(s) /\ apps[s] = {}
      /\ marker[s].from # 0 /\ marker[s].from # Leftover
  BY TypedAt DEF HostInv, HostOk, TryAgain
<1>2. PICK old \in Loc :
        LET kept(l) == l = old \/ l # Mount(s) IN
        /\ format[s][old] = marker[s].from
        /\ container' = [container EXCEPT ![s] =
             [major |-> marker[s].from, loc |-> old, state |-> "starting"]]
        /\ format' = [format EXCEPT ![s] =
             [l \in Loc |-> IF kept(l) THEN format[s][l] ELSE 0]]
        /\ rows' = [rows EXCEPT ![s] =
             [l \in Loc |-> IF kept(l) THEN rows[s][l] ELSE {}]]
  BY DEF TryAgain
<1>3. /\ container'[s].major = marker[s].from /\ container'[s].loc = old
      /\ container'[s].state = "starting"
      /\ rows'[s][old] = rows[s][old]
      /\ \A l \in Loc : format'[s][l] \in {0, format[s][l]}
  BY <1>2 DEF TypeOK
<1>4. \A x \in Service : x # s =>
        /\ container'[x] = container[x] /\ format'[x] = format[x] /\ rows'[x] = rows[x]
        /\ marker'[x] = marker[x]
  BY <1>2 DEF TryAgain, TypeOK
<1>5. marker'[s] = NoMarker /\ UNCHANGED <<apps, truth>>
  BY DEF TryAgain, TypeOK
<1>6. PICK c \in Checkout : c[s].major = marker[s].from /\ c[s].loc = old
  BY <1>1, <1>2 DEF HostOk
<1>7. Asks(c, s)'
  BY <1>3, <1>6 DEF Asks, Mount
<1>8. rows[s][old] = truth[s]
  BY <1>1, <1>2 DEF HostOk
<1>9. HostOk(s)'
  <2>1. (~Marked(s) /\ Exists(s) /\ ~Answers(s) /\ apps[s] = {} /\ Served(s) = truth[s])'
    BY <1>1, <1>3, <1>5, <1>8 DEF Marked, Exists, Answers, Served, Mount
  <2>2. \A l \in Loc : format'[s][l] \in {0, Leftover} \/
          \E d \in Checkout : d[s].major = format'[s][l] /\ d[s].loc = l
    <3> SUFFICES ASSUME NEW l \in Loc, format'[s][l] = format[s][l]
                 PROVE  format[s][l] \in {0, Leftover} \/
                          \E d \in Checkout : d[s].major = format[s][l] /\ d[s].loc = l
      BY <1>3
    <3> QED BY <1>1 DEF HostOk
  <2> QED BY <1>7, <2>1, <2>2 DEF HostOk
<1>10. \A x \in Service : x # s => HostOk(x)'
  BY <1>4, <1>5, HostKept DEF HostInv
<1> QED BY <1>9, <1>10 DEF HostInv

LEMMA InitHost == Init => HostInv /\ RunKnows
<1> SUFFICES ASSUME Init PROVE HostInv /\ RunKnows
  OBVIOUS
<1>1. PICK fresh \in SUBSET Service, junk \in SUBSET (Service \X (Loc \ Anonymous)) : Init!2!(fresh, junk)
  BY DEF Init
<1>2. ASSUME NEW s \in Service PROVE HostOk(s)
  <2>1. ~Marked(s)
    BY DEF Init, Marked
  <2>2. /\ container[s].major = Installed[s].major /\ Mount(s) = Installed[s].loc
        /\ container[s].state = IF s \in fresh THEN "none" ELSE "up"
    BY <1>1 DEF Mount
  <2>3. /\ apps[s] = IF s \in fresh THEN {} ELSE App
        /\ truth[s] = IF s \in fresh THEN {} ELSE {Schema}
    BY <1>1
  <2>4. Asks(Installed, s) /\ Installed[s].loc \in Loc
    BY <2>2, CheckoutAt DEF Asks
  <2>5. \A l \in Loc :
          /\ s \in fresh => format[s][l] = 0 /\ rows[s][l] = {}
          /\ s \notin fresh /\ l = Installed[s].loc =>
               format[s][l] = Installed[s].major /\ rows[s][l] = {Schema}
          /\ s \notin fresh /\ l # Installed[s].loc => format[s][l] \in {0, Leftover}
    BY <1>1
  <2>6. \A l \in Loc : format[s][l] \in {0, Leftover} \/
          \E c \in Checkout : c[s].major = format[s][l] /\ c[s].loc = l
    BY <2>5
  <2> QED BY <2>1, <2>2, <2>3, <2>4, <2>5, <2>6 DEF HostOk, Exists, Answers, Served
<1>3. \A o \in Operator : pc[o] = "idle"
  BY DEF Init
<1>4. RunKnows
  BY <1>3 DEF RunKnows, Moving, InMove, OldPart, NewPart
<1> QED BY <1>2, <1>4 DEF HostInv

LEMMA RunHost ==
  ASSUME HostInv, TypeOK, RunKnows, NEW o \in Operator, Step(o)
  PROVE  HostInv'
<1>1. ASSUME UNCHANGED host PROVE HostInv'
  BY <1>1, HostKept DEF HostInv, host
<1>2. ASSUME NEW s \in Service, Consider(o, s) PROVE HostInv'
  BY <1>1, <1>2 DEF Consider
<1>3. ASSUME NEW s \in Service, StackDatabase(o, s) PROVE HostInv'
  BY <1>3, StackDatabaseHost
<1>4. ASSUME NEW a \in App, StopApp(o, a) PROVE HostInv'
  BY <1>4, StopAppHost
<1>5. CASE \/ AllStopped(o) \/ CountBefore(o) \/ Dump(o) \/ NeverReady(o) \/ ExecFails(o)
           \/ CheckTarget(o) \/ CountAfter(o) \/ StartStacks(o)
  BY <1>1, <1>5 DEF AllStopped, CountBefore, Dump, NeverReady, ExecFails, CheckTarget,
     CountAfter, StartStacks
<1>6. CASE Mark(o)
  BY <1>6, MarkHost
<1>7. CASE BringUpAlone(o)
  BY <1>7, BringUpAloneHost
<1>8. CASE RestoreSome(o)
  <2>1. PICK part \in SUBSET dump[o] : Restore(svc[o], part)
    BY <1>8 DEF RestoreSome
  <2>2. part \in Content
    BY <2>1 DEF TypeOK
  <2> QED BY <1>8, <2>1, <2>2, RestoreHost DEF RestoreSome, NewPart
<1>9. CASE RestoreRest(o)
  <2>1. dump[o] \in Content
    BY DEF TypeOK
  <2> QED BY <1>9, <2>1, RestoreHost DEF RestoreRest, NewPart
<1>10. CASE ClearMarker(o)
  BY <1>10, ClearMarkerHost
<1>11. CASE StackApps(o)
  BY <1>11, StackAppsHost
<1> QED BY <1>2, <1>3, <1>4, <1>5, <1>6, <1>7, <1>8, <1>9, <1>10, <1>11 DEF Step

-----------------------------------------------------------------------------
\* What the one running play knows is about what it reads: its own plan, and of
\* the services it is done with, the containers and markers.
KnowsAt(o) ==
    /\ pc[o] # "idle" => compose = checkout[o]
    /\ pc[o] = "next" \/ InMove(o) => \A s \in Service \ todo[o] : Settled(o, s)
    /\ pc[o] \in {"stack", "apps"} => \A s \in Service : Settled(o, s)
    /\ pc[o] = "apps" => Exists(svc[o])
    /\ Moving(o)

LEMMA KnowsAll ==
  ASSUME SingleOperator, NEW o \in Operator
  PROVE  /\ RunKnows => KnowsAt(o)
         /\ KnowsAt(o)' => RunKnows'
BY DEF RunKnows, KnowsAt, SingleOperator

LEMMA ConsiderKnows ==
  ASSUME SingleOperator, TypeOK, HostInv, RunKnows,
         NEW o \in Operator, NEW s \in Service, Consider(o, s)
  PROVE  RunKnows'
<1>1. KnowsAt(o) /\ checkout[o] \in Checkout /\ HostOk(s) /\ pc[o] = "next" /\ s \in todo[o]
  BY KnowsAll DEF TypeOK, HostInv, Consider
<1>2. UNCHANGED <<host, checkout, before, dump>>
  BY DEF Consider
<1>3. CASE Refuse(o)
  <2>1. pc'[o] = "idle"
    BY <1>3 DEF Refuse, Go, TypeOK
  <2> QED BY <2>1, KnowsAll DEF KnowsAt, Moving, InMove, OldPart, NewPart
<1>4. CASE Go(o, "stop") /\ svc' = [svc EXCEPT ![o] = s] /\ UNCHANGED todo
  <2>1. pc'[o] = "stop" /\ svc'[o] = s /\ todo' = todo
    BY <1>4 DEF Go, TypeOK
  <2>2. ~Marked(s) /\ Answers(s) /\ container[s].major < checkout[o][s].major
    BY <1>1, <2>1 DEF Consider, Refuse, Go, TypeOK
  <2>3. KnowsAt(o)'
    BY <1>1, <1>2, <2>1, <2>2 DEF KnowsAt, HostOk, Moving, InMove, OldPart, NewPart, Settled,
       Asks, Marked, Exists, Answers, Mount, host
  <2> QED BY <2>3, KnowsAll
<1>5. CASE todo' = [todo EXCEPT ![o] = @ \ {s}] /\ UNCHANGED <<pc, svc>>
  <2>1. todo'[o] = todo[o] \ {s} /\ pc' = pc
    BY <1>5 DEF TypeOK
  <2>2. ~Marked(s) /\ (Exists(s) => container[s].major = checkout[o][s].major)
    BY <1>1, <2>1 DEF Consider, TypeOK
  <2>3. Settled(o, s)
    BY <1>1, <2>2, OneLocationPerMajor DEF Settled, HostOk, Asks
  <2>4. KnowsAt(o)'
    BY <1>1, <1>2, <2>1, <2>3 DEF KnowsAt, Moving, InMove, OldPart, NewPart, Settled,
       Asks, Marked, Exists, Mount, host
  <2> QED BY <2>4, KnowsAll
<1> QED BY <1>3, <1>4, <1>5, ConsiderOutcome

\* A task that leaves the host alone, or touches only what no play relies on.
LEMMA QuietKnows ==
  ASSUME SingleOperator, TypeOK, HostInv, RunKnows, NEW o \in Operator,
         UNCHANGED <<host, checkout>>,
         \/ AllStopped(o) /\ EveryWriterStopped
         \/ CountBefore(o) \/ Dump(o) \/ NeverReady(o) \/ ExecFails(o)
         \/ CheckTarget(o) \/ CountAfter(o) \/ StartStacks(o) \/ Abort(o)
  PROVE  RunKnows'
<1>1. KnowsAt(o) /\ checkout[o] \in Checkout /\ svc[o] \in Service /\ HostOk(svc[o])
  BY KnowsAll DEF TypeOK, HostInv
<1>2. ASSUME Refuse(o) PROVE RunKnows'
  <2>1. pc'[o] = "idle"
    BY <1>2 DEF Refuse, Go, TypeOK
  <2> QED BY <2>1, KnowsAll DEF KnowsAt, Moving, InMove, OldPart, NewPart
<1> USE DEF KnowsAt, Moving, InMove, OldPart, NewPart, Settled, Asks, Marked, Exists, Mount,
            Served, Answers, host
<1>3. CASE AllStopped(o) /\ EveryWriterStopped
  <2>1. pc[o] = "stop" /\ pc'[o] = "count" /\ svc'[o] = svc[o] /\ todo'[o] = todo[o]
    BY <1>3 DEF AllStopped, Go, plan, TypeOK
  <2>2. apps[svc[o]] = {}
    BY <1>3 DEF AllStopped, EveryWriterStopped, TypeOK
  <2>3. KnowsAt(o)'
    BY <1>1, <2>1, <2>2
  <2> QED BY <2>3, KnowsAll
<1>4. CASE CountBefore(o)
  <2>1. /\ pc[o] = "count" /\ pc'[o] = "dump" /\ svc'[o] = svc[o] /\ todo'[o] = todo[o]
    BY <1>4 DEF CountBefore, Go, TypeOK
  <2>2. KnowsAt(o)'
    BY <1>1, <2>1
  <2> QED BY <2>2, KnowsAll
<1>5. CASE Dump(o)
  <2>1. /\ pc[o] = "dump" /\ pc'[o] = "mark" /\ svc'[o] = svc[o] /\ todo'[o] = todo[o]
        /\ dump'[o] = Served(svc[o])
    BY <1>5 DEF Dump, Go, TypeOK
  <2>2. dump'[o] = truth[svc[o]]
    BY <1>1, <2>1 DEF HostOk
  <2>3. KnowsAt(o)'
    BY <1>1, <2>1, <2>2
  <2> QED BY <2>3, KnowsAll
<1>6. CASE NeverReady(o) \/ ExecFails(o) \/ Abort(o)
  BY <1>2, <1>6 DEF NeverReady, ExecFails, Abort
<1>7. CASE CheckTarget(o)
  <2>1. CASE Empty(o) /\ Go(o, "restore")
    <3>1. /\ pc[o] = "wait" /\ pc'[o] = "restore" /\ svc'[o] = svc[o] /\ todo'[o] = todo[o]
          /\ dump'[o] = dump[o] /\ Served(svc[o]) = {}
      BY <1>7, <2>1 DEF CheckTarget, Go, plan, Empty, TypeOK
    <3>2. KnowsAt(o)'
      BY <1>1, <3>1
    <3> QED BY <3>2, KnowsAll
  <2>2. CASE Refuse(o)
    BY <1>2, <2>2
  <2> QED BY <1>7, <2>1, <2>2 DEF CheckTarget
<1>8. CASE CountAfter(o)
  <2>1. CASE Go(o, "clear")
    <3>1. /\ pc[o] = "recount" /\ pc'[o] = "clear" /\ svc'[o] = svc[o] /\ todo'[o] = todo[o]
          /\ dump'[o] = dump[o]
      BY <1>8, <2>1 DEF CountAfter, Go, plan, TypeOK
    <3>2. KnowsAt(o)'
      BY <1>1, <3>1
    <3> QED BY <3>2, KnowsAll
  <2>2. CASE Refuse(o)
    BY <1>2, <2>2
  <2> QED BY <1>8, <2>1, <2>2 DEF CountAfter
<1>9. CASE StartStacks(o)
  <2>1. pc[o] = "next" /\ pc'[o] = "stack" /\ todo[o] = {}
    BY <1>9 DEF StartStacks, Go, TypeOK
  <2>2. KnowsAt(o)'
    BY <1>1, <2>1
  <2> QED BY <2>2, KnowsAll
<1> QED BY <1>3, <1>4, <1>5, <1>6, <1>7, <1>8, <1>9

\* The tasks of the move that change the host.
LEMMA MoveKnows ==
  ASSUME SingleOperator, TypeOK, HostInv, RunKnows, NEW o \in Operator,
         \/ \E a \in App : StopApp(o, a)
         \/ Mark(o) \/ BringUpAlone(o) \/ RestoreSome(o) \/ RestoreRest(o) \/ ClearMarker(o)
  PROVE  RunKnows'
<1> SUFFICES ASSUME NEW s \in Service, s = svc[o] PROVE RunKnows'
  BY DEF TypeOK
<1>1. KnowsAt(o) /\ HostOk(s) /\ Mount(s) \in Loc /\ checkout[o] \in Checkout
  BY KnowsAll, TypedAt DEF HostInv, TypeOK
<1> USE DEF KnowsAt, Moving, InMove, OldPart, NewPart, Settled, Asks, Marked, Exists, Mount,
            Served
<1>2. ASSUME NEW a \in App, StopApp(o, a) PROVE RunKnows'
  <2>1. pc[o] = "stop" /\ UNCHANGED <<pc, svc, todo, checkout, dump>>
    BY <1>2 DEF StopApp, plan
  <2>2. UNCHANGED <<compose, container, format, rows, marker, truth>>
    BY <1>2 DEF StopApp
  <2>3. KnowsAt(o)'
    BY <1>1, <2>1, <2>2
  <2> QED BY <2>3, KnowsAll
<1>3. CASE Mark(o)
  <2>1. /\ pc[o] = "mark" /\ pc'[o] = "up" /\ svc' = svc /\ todo' = todo
        /\ UNCHANGED <<compose, checkout, dump, container, format, rows, truth>>
    BY <1>3 DEF Mark, Go, plan, TypeOK
  <2>2. /\ marker'[s] = [from |-> container[s].major, dump |-> dump[o]]
        /\ \A x \in Service : x # s => marker'[x] = marker[x]
    BY <1>3 DEF Mark, TypeOK
  <2>3. marker'[s].from = container[s].major /\ marker'[s] # NoMarker
    BY <2>2, TypedAt DEF NoMarker
  <2>4. KnowsAt(o)'
    BY <1>1, <2>1, <2>2, <2>3
  <2> QED BY <2>4, KnowsAll
<1>4. CASE BringUpAlone(o)
  <2>1. /\ pc[o] = "up" /\ pc'[o] = "wait" /\ svc' = svc /\ todo' = todo
        /\ UNCHANGED <<compose, checkout, dump, marker, truth>>
    BY <1>4 DEF BringUpAlone, Go, plan, TypeOK
  <2>2. compose = checkout[o] /\ marker[s].from < checkout[o][s].major
    BY <1>1, <2>1
  <2>3. /\ container'[s].major = compose[s].major
        /\ container'[s].loc = compose[s].loc
        /\ container'[s].state # "none"
        /\ \A x \in Service : x # s => container'[x] = container[x]
    BY <1>4 DEF BringUpAlone, ComposeUp, TypeOK
  <2>4. KnowsAt(o)'
    BY <1>1, <2>1, <2>2, <2>3
  <2> QED BY <2>4, KnowsAll
<1>5. CASE RestoreSome(o)
  <2>1. /\ pc[o] = "restore" /\ pc'[o] = "restoring" /\ svc' = svc /\ todo' = todo
        /\ UNCHANGED <<compose, container, checkout, dump, marker, truth>>
    BY <1>5 DEF RestoreSome, Go, plan, TypeOK
  <2>2. PICK part \in SUBSET dump[o] : Restore(s, part)
    BY <1>5 DEF RestoreSome
  <2>3. rows'[s][Mount(s)] = part
    <3>1. rows[s][Mount(s)] = {}
      BY <1>1, <2>1
    <3>2. rows'[s][Mount(s)] = rows[s][Mount(s)] \cup part
      BY <1>1, <2>2 DEF Restore, TypeOK
    <3> QED BY <3>1, <3>2
  <2>4. KnowsAt(o)'
    BY <1>1, <2>1, <2>2, <2>3
  <2> QED BY <2>4, KnowsAll
<1>6. CASE RestoreRest(o)
  <2>1. /\ pc[o] = "restoring" /\ pc'[o] = "recount" /\ svc' = svc /\ todo' = todo
        /\ UNCHANGED <<compose, container, checkout, dump, marker, truth>>
    BY <1>6 DEF RestoreRest, Go, plan, TypeOK
  <2>2. rows'[s][Mount(s)] = dump[o]
    <3>1. rows[s][Mount(s)] \subseteq dump[o]
      BY <1>1, <2>1
    <3>2. rows'[s][Mount(s)] = rows[s][Mount(s)] \cup dump[o]
      BY <1>1, <1>6 DEF RestoreRest, Restore, TypeOK
    <3> QED BY <3>1, <3>2
  <2>3. KnowsAt(o)'
    BY <1>1, <2>1, <2>2
  <2> QED BY <2>3, KnowsAll
<1>7. CASE ClearMarker(o)
  <2>1. /\ pc[o] = "clear" /\ pc'[o] = "next" /\ svc' = svc /\ todo'[o] = todo[o] \ {s}
        /\ UNCHANGED <<compose, container, checkout>>
    BY <1>7 DEF ClearMarker, Go, TypeOK
  <2>2. /\ marker'[s] = NoMarker
        /\ \A x \in Service : x # s => marker'[x] = marker[x]
    BY <1>7 DEF ClearMarker, TypeOK
  <2>3. KnowsAt(o)'
    BY <1>1, <2>1, <2>2
  <2> QED BY <2>3, KnowsAll
<1> QED BY <1>2, <1>3, <1>4, <1>5, <1>6, <1>7

LEMMA StackKnows ==
  ASSUME SingleOperator, TypeOK, HostInv, RunKnows, NEW o \in Operator,
         (\E s \in Service : StackDatabase(o, s)) \/ StackApps(o)
  PROVE  RunKnows'
<1>1. KnowsAt(o) /\ checkout[o] \in Checkout
  BY KnowsAll DEF TypeOK
<1> USE DEF KnowsAt, Moving, InMove, OldPart, NewPart, Settled, Asks, Marked, Exists, Mount
<1>2. ASSUME NEW s \in Service, StackDatabase(o, s) PROVE RunKnows'
  <2>1. /\ pc[o] = "stack" /\ pc'[o] = "apps" /\ svc'[o] = s
        /\ UNCHANGED <<compose, checkout, marker>>
    BY <1>2 DEF StackDatabase, Go, TypeOK
  <2>2. /\ container'[s].major = compose[s].major
        /\ container'[s].loc = compose[s].loc
        /\ container'[s].state # "none"
        /\ \A x \in Service : x # s => container'[x] = container[x]
    BY <1>2 DEF StackDatabase, ComposeUp, TypeOK
  <2>3. KnowsAt(o)'
    BY <1>1, <2>1, <2>2
  <2> QED BY <2>3, KnowsAll
<1>3. CASE StackApps(o)
  <2>1. /\ pc[o] = "apps" /\ pc'[o] \in {"idle", "stack"}
        /\ UNCHANGED <<compose, checkout, marker, container>>
    BY <1>3 DEF StackApps, Go, TypeOK
  <2>2. KnowsAt(o)'
    BY <1>1, <2>1
  <2> QED BY <2>2, KnowsAll
<1> QED BY <1>2, <1>3

LEMMA DeployKnows ==
  ASSUME SingleOperator, TypeOK, NEW o \in Operator, NEW c \in Checkout, Deploy(o, c)
  PROVE  RunKnows'
<1>1. pc'[o] = "next" /\ todo'[o] = Service /\ compose' = c /\ checkout'[o] = c
  BY DEF Deploy, TypeOK
<1>2. KnowsAt(o)'
  BY <1>1 DEF KnowsAt, Moving, InMove, OldPart, NewPart
<1> QED BY <1>2, KnowsAll

\* Between the tasks: databases start and stop, and applications write.
LEMMA AroundKnows ==
  ASSUME SingleOperator, TypeOK, HostInv, RunKnows, NEW s \in Service,
         \/ ServerReady(s) \/ DatabaseDown(s) \/ DatabaseStarted(s)
         \/ \E r \in Row : AppWrite(s, r)
  PROVE  RunKnows'
<1>1. UNCHANGED <<compose, marker, pc, todo, svc, checkout, dump>>
  BY DEF ServerReady, DatabaseDown, DatabaseStarted, AppWrite, plan
<1>2. SUFFICES ASSUME NEW o \in Operator PROVE KnowsAt(o)'
  BY DEF RunKnows, KnowsAt
<1>3. KnowsAt(o) /\ svc[o] \in Service /\ HostOk(s)
  BY KnowsAll DEF TypeOK, HostInv
<1>4. CASE \E r \in Row : AppWrite(s, r)
  <2>1. UNCHANGED <<container, format>> /\ apps' = apps /\ apps[s] # {}
    BY <1>4 DEF AppWrite
  <2>2. \A x \in Service : x # s => rows'[x] = rows[x] /\ truth'[x] = truth[x]
    BY <1>4 DEF AppWrite, TypeOK
  <2>3. ~Marked(s)
    BY <1>3, <2>1 DEF HostOk
  <2>4. CASE svc[o] = s
    BY <1>1, <1>3, <2>1, <2>3, <2>4 DEF KnowsAt, Moving, InMove, OldPart, NewPart, Settled,
       Asks, Marked, Exists, Mount
  <2>5. CASE svc[o] # s
    BY <1>1, <1>3, <2>1, <2>2, <2>5 DEF KnowsAt, Moving, InMove, OldPart, NewPart, Settled,
       Asks, Marked, Exists, Mount, Served
  <2> QED BY <2>4, <2>5
<1>5. CASE ServerReady(s) \/ DatabaseDown(s) \/ DatabaseStarted(s)
  <2>1. UNCHANGED <<rows, apps, truth>>
    BY <1>5 DEF ServerReady, DatabaseDown, DatabaseStarted
  <2>6. PICK state \in {"up", "down", "starting"} :
          container' = [container EXCEPT ![s] = In(state, s)]
    BY <1>5 DEF ServerReady, DatabaseDown, DatabaseStarted
  <2>7. Exists(s)
    BY <1>5 DEF ServerReady, DatabaseDown, DatabaseStarted, Exists, Answers
  <2>8. /\ \A x \in Service : x # s => container'[x] = container[x]
        /\ container'[s] = In(state, s)
    BY <2>6 DEF TypeOK
  <2>2. \A x \in Service : container'[x].major = container[x].major /\ Mount(x)' = Mount(x)
    <3>1. container'[s].major = container[s].major /\ container'[s].loc = container[s].loc
      BY <2>8 DEF In, Mount
    <3> QED BY <2>8, <3>1 DEF Mount
  <2>3. \A x \in Service : Exists(x)' <=> Exists(x)
    BY <2>7, <2>8 DEF In, Exists
  <2>4. \A x \in Service :
          format[x][Mount(x)] = container[x].major => format'[x][Mount(x)] = container[x].major
    <3>1. format' = format \/ format' = [format EXCEPT ![s][Mount(s)] = container[s].major]
      BY <1>5 DEF ServerReady, DatabaseDown, DatabaseStarted
    <3>2. CASE format' = [format EXCEPT ![s][Mount(s)] = container[s].major]
      <4>1. Mount(s) \in Loc
        BY TypedAt
      <4>2. format'[s][Mount(s)] = container[s].major
        BY <3>2, <4>1 DEF TypeOK
      <4>3. \A x \in Service : x # s => format'[x] = format[x]
        BY <3>2 DEF TypeOK
      <4> QED BY <4>2, <4>3
    <3> QED BY <3>1, <3>2
  <2>5. \A x \in Service : Settled(o, x) => Settled(o, x)'
    BY <1>1, <2>2, <2>3 DEF Settled, Asks, Marked
  <2> QED BY <1>1, <1>3, <2>1, <2>2, <2>3, <2>4, <2>5
          DEF KnowsAt, Moving, InMove, OldPart, NewPart, Asks, Marked, Served
<1> QED BY <1>4, <1>5

-----------------------------------------------------------------------------
LEMMA AroundTyped ==
  ASSUME TypeOK, NEW s \in Service,
         \/ ServerReady(s) \/ DatabaseDown(s) \/ DatabaseStarted(s)
         \/ ContainersRemoved(s) \/ TryAgain(s) \/ \E r \in Row : AppWrite(s, r)
  PROVE  TypeOK'
<1> USE DEF TypeOK, plan
<1>1. \A state \in State : In(state, s) \in [major : Major, loc : Loc, state : State]
  BY DEF In, Mount
<1>2. Mount(s) \in Loc /\ container[s].major \in Major \cup {0}
  BY TypedAt
<1>3. incidents' \in 0..MaxIncidents
  BY DEF ServerReady, DatabaseDown, DatabaseStarted, ContainersRemoved, TryAgain, AppWrite,
         Happens
<1>4. UNCHANGED <<compose, pc, todo, svc, checkout, before, dump>>
  BY DEF ServerReady, DatabaseDown, DatabaseStarted, ContainersRemoved, TryAgain, AppWrite
<1>5. CASE ServerReady(s)
  <2>1. container' \in [Service -> [major : Major, loc : Loc, state : State]]
    BY <1>1, <1>5 DEF ServerReady
  <2>2. format' \in [Service -> [Loc -> Major \cup {0}]]
    BY <1>2, <1>5 DEF ServerReady
  <2>3. UNCHANGED <<rows, apps, marker, truth>>
    BY <1>5 DEF ServerReady
  <2> QED BY <1>3, <1>4, <2>1, <2>2, <2>3
<1>6. CASE DatabaseDown(s) \/ DatabaseStarted(s)
  <2>1. container' \in [Service -> [major : Major, loc : Loc, state : State]]
    <3>1. PICK state \in State : container' = [container EXCEPT ![s] = In(state, s)]
      BY <1>6 DEF DatabaseDown, DatabaseStarted
    <3> QED BY <1>1, <3>1
  <2>2. UNCHANGED <<format, rows, apps, marker, truth>>
    BY <1>6 DEF DatabaseDown, DatabaseStarted
  <2> QED BY <1>3, <1>4, <2>1, <2>2
<1>7. CASE ContainersRemoved(s)
  <2>1. format' \in [Service -> [Loc -> Major \cup {0}]] /\ rows' \in [Service -> [Loc -> Content]]
    BY <1>7 DEF ContainersRemoved
  <2> QED BY <1>1, <1>3, <1>4, <1>7, <2>1 DEF ContainersRemoved
<1>8. CASE TryAgain(s)
  <2>1. container' \in [Service -> [major : Major, loc : Loc, state : State]]
    <3>1. marker[s].from \in Major
      BY <1>8 DEF TryAgain, Marked
    <3>2. PICK old \in Loc : container' = [container EXCEPT ![s] =
            [major |-> marker[s].from, loc |-> old, state |-> "starting"]]
      BY <1>8 DEF TryAgain
    <3> QED BY <3>1, <3>2
  <2>2. format' \in [Service -> [Loc -> Major \cup {0}]]
    <3>1. PICK old \in Loc : format' = [format EXCEPT ![s] =
            [l \in Loc |-> IF l = old \/ l # Mount(s) THEN format[s][l] ELSE 0]]
      BY <1>8 DEF TryAgain
    <3> QED BY <3>1
  <2>3. rows' \in [Service -> [Loc -> Content]]
    <3>1. PICK old \in Loc : rows' = [rows EXCEPT ![s] =
            [l \in Loc |-> IF l = old \/ l # Mount(s) THEN rows[s][l] ELSE {}]]
      BY <1>8 DEF TryAgain
    <3> QED BY <3>1
  <2>4. marker' \in [Service -> {NoMarker} \cup [from : Major, dump : Content]]
    BY <1>8 DEF TryAgain
  <2>5. UNCHANGED <<apps, truth>>
    BY <1>8 DEF TryAgain
  <2> QED BY <1>3, <1>4, <2>1, <2>2, <2>3, <2>4, <2>5
<1>9. CASE \E r \in Row : AppWrite(s, r)
  <2>1. rows' \in [Service -> [Loc -> Content]] /\ truth' \in [Service -> Content]
    <3>1. PICK r \in Row : AppWrite(s, r)
      BY <1>9
    <3>2. CASE /\ rows' = [rows EXCEPT ![s][Mount(s)] = @ \cup {r}]
               /\ truth' = [truth EXCEPT ![s] = @ \cup {r}]
      BY <1>2, <3>2
    <3>3. CASE /\ rows' = [rows EXCEPT ![s][Mount(s)] = @ \ {r}]
               /\ truth' = [truth EXCEPT ![s] = @ \ {r}]
      BY <1>2, <3>3
    <3> QED BY <3>1, <3>2, <3>3 DEF AppWrite
  <2>2. UNCHANGED <<container, format, apps, marker>>
    BY <1>9 DEF AppWrite
  <2> QED BY <1>3, <1>4, <2>1, <2>2
<1> QED BY <1>5, <1>6, <1>7, <1>8, <1>9

LEMMA OperatorTyped ==
  ASSUME TypeOK, NEW o \in Operator, Abort(o) \/ \E c \in Checkout : Deploy(o, c)
  PROVE  TypeOK'
<1> USE DEF TypeOK, host, plan, Refuse, Go
<1>1. CASE Abort(o)
  BY <1>1 DEF Abort, Happens
<1>2. ASSUME NEW c \in Checkout, Deploy(o, c) PROVE TypeOK'
  BY <1>2 DEF Deploy
<1> QED BY <1>1, <1>2

LEMMA TypeKept ==
  ASSUME TypeOK, [Next]_vars
  PROVE  TypeOK'
<1>1. ASSUME NEW o \in Operator, Step(o) PROVE TypeOK'
  BY <1>1, RunTyped
<1>2. ASSUME NEW o \in Operator, Abort(o) \/ \E c \in Checkout : Deploy(o, c) PROVE TypeOK'
  BY <1>2, OperatorTyped
<1>3. ASSUME NEW s \in Service,
             \/ ServerReady(s) \/ DatabaseDown(s) \/ DatabaseStarted(s)
             \/ ContainersRemoved(s) \/ TryAgain(s) \/ \E r \in Row : AppWrite(s, r)
      PROVE  TypeOK'
  BY <1>3, AroundTyped
<1>4. CASE UNCHANGED vars
  BY <1>4 DEF TypeOK, vars, host, plan
<1> QED BY <1>1, <1>2, <1>3, <1>4 DEF Next

\* Every variable stays in its range, whoever deploys and whatever happens:
\* no assumption but those on the constants.
THEOREM TypeCorrect == Spec => []TypeOK
<1>1. TypeOK /\ [Next]_vars => TypeOK'
  BY TypeKept
<1> QED BY <1>1, InitTyped, PTL DEF Spec

-----------------------------------------------------------------------------
JInv == TypeOK /\ HostInv /\ RunKnows

LEMMA JInvKept ==
  ASSUME SingleOperator, EveryWriterStopped, NothingRemoved, JInv, [Next]_vars
  PROVE  JInv'
<1>1. TypeOK /\ HostInv /\ RunKnows
  BY DEF JInv
<1>2. ASSUME NEW o \in Operator, Step(o) PROVE HostInv' /\ RunKnows'
  <2>1. HostInv'
    BY <1>1, <1>2, RunHost
  <2>2. CASE \E s \in Service : Consider(o, s)
    BY <1>1, <2>1, <2>2, ConsiderKnows
  <2>3. CASE (\E s \in Service : StackDatabase(o, s)) \/ StackApps(o)
    BY <1>1, <2>1, <2>3, StackKnows
  <2>4. CASE \/ \E a \in App : StopApp(o, a)
             \/ Mark(o) \/ BringUpAlone(o) \/ RestoreSome(o) \/ RestoreRest(o)
             \/ ClearMarker(o)
    BY <1>1, <2>1, <2>4, MoveKnows
  <2>5. CASE \/ AllStopped(o) \/ CountBefore(o) \/ Dump(o) \/ NeverReady(o) \/ ExecFails(o)
             \/ CheckTarget(o) \/ CountAfter(o) \/ StartStacks(o)
    <3>1. UNCHANGED <<host, checkout>>
      BY <2>5 DEF AllStopped, CountBefore, Dump, NeverReady, ExecFails, CheckTarget,
         CountAfter, StartStacks, plan
    <3> QED BY <1>1, <2>1, <2>5, <3>1, QuietKnows
  <2> QED BY <1>2, <2>1, <2>2, <2>3, <2>4, <2>5 DEF Step
<1>3. ASSUME NEW o \in Operator, Abort(o) PROVE HostInv' /\ RunKnows'
  <2>1. UNCHANGED <<host, checkout>>
    BY <1>3 DEF Abort, plan
  <2>2. HostInv'
    BY <1>1, <2>1, HostKept DEF HostInv, host
  <2> QED BY <1>1, <1>3, <2>1, <2>2, QuietKnows
<1>4. ASSUME NEW o \in Operator, NEW c \in Checkout, Deploy(o, c) PROVE HostInv' /\ RunKnows'
  <2>1. HostInv'
    BY <1>1, <1>4, HostKept DEF HostInv, Deploy
  <2> QED BY <1>1, <1>4, <2>1, DeployKnows
<1>5. ASSUME NEW s \in Service, ServerReady(s) \/ DatabaseDown(s) \/ DatabaseStarted(s)
      PROVE  HostInv' /\ RunKnows'
  BY <1>1, <1>5, DatabaseHost, AroundKnows
<1>6. ASSUME NEW s \in Service, NEW r \in Row, AppWrite(s, r) PROVE HostInv' /\ RunKnows'
  BY <1>1, <1>6, AppWriteHost, AroundKnows
<1>7. ASSUME NEW s \in Service, ContainersRemoved(s) PROVE FALSE
  BY <1>7 DEF ContainersRemoved, Happens, NothingRemoved
<1>8. ASSUME NEW s \in Service, TryAgain(s) PROVE HostInv' /\ RunKnows'
  <2>1. HostInv'
    BY <1>1, <1>8, TryAgainHost
  <2>2. \A o \in Operator : pc'[o] = "idle"
    BY <1>8 DEF TryAgain
  <2> QED BY <2>1, <2>2 DEF RunKnows, Moving, InMove, OldPart, NewPart
<1>9. ASSUME UNCHANGED vars PROVE HostInv' /\ RunKnows'
  <2>1. HostInv'
    BY <1>1, <1>9, HostKept DEF HostInv, vars, host
  <2>2. RunKnows'
    BY <1>1, <1>9 DEF vars, host, plan, RunKnows, Moving, InMove, OldPart, NewPart, Settled,
       Asks, Marked, Exists, Mount, Served
  <2> QED BY <2>1, <2>2
<1>10. HostInv' /\ RunKnows'
  <2>1. CASE \E o \in Operator : Step(o) \/ Abort(o) \/ \E c \in Checkout : Deploy(o, c)
    BY <1>2, <1>3, <1>4, <2>1
  <2>2. CASE \E s \in Service :
               \/ ServerReady(s) \/ DatabaseDown(s) \/ DatabaseStarted(s)
               \/ ContainersRemoved(s) \/ TryAgain(s)
               \/ \E r \in Row : AppWrite(s, r)
    BY <1>5, <1>6, <1>7, <1>8, <2>2
  <2> QED BY <1>9, <2>1, <2>2 DEF Next
<1>11. TypeOK'
  BY <1>1, TypeKept
<1> QED BY <1>10, <1>11 DEF JInv

\* With one deploy at a time, a stop list that names every writer and no
\* container removed by hand, the invariant of the move holds for every number
\* of services, checkouts, majors, locations and rows, after any number of
\* deploys, failures and recoveries.
THEOREM MoveInvariant ==
  ASSUME SingleOperator, EveryWriterStopped, NothingRemoved
  PROVE  Spec => []IInv
<1>1. Init => JInv
  BY InitTyped, InitHost DEF JInv
<1>2. JInv /\ [Next]_vars => JInv'
  BY JInvKept
<1>3. JInv => IInv
  BY HostIsIInv DEF JInv
<1> QED BY <1>1, <1>2, <1>3, PTL DEF Spec

\* Under the same assumptions a running application is always on the data its
\* users left.
THEOREM ApplicationsOnTheirData ==
  ASSUME SingleOperator, EveryWriterStopped, NothingRemoved
  PROVE  Spec => []ServedIsCurrent
<1>1. IInv => ServedIsCurrent
  BY DEF IInv
<1> QED BY <1>1, MoveInvariant, PTL

\* Under the same assumptions a marked service has its old data, whole, in a
\* location of the old major: there is a way back from every interrupted move.
THEOREM AlwaysAWayBack ==
  ASSUME SingleOperator, EveryWriterStopped, NothingRemoved
  PROVE  Spec => []WayBackExists
<1>1. IInv => WayBackExists
  BY DEF IInv
<1> QED BY <1>1, MoveInvariant, PTL

\* Under the same assumptions a database that holds anything but what its users
\* left is marked, whatever step a run stopped after.
THEOREM HalfDoneIsMarked ==
  ASSUME SingleOperator, EveryWriterStopped, NothingRemoved
  PROVE  Spec => []UntrustedIsMarked
<1>1. IInv => UntrustedIsMarked
  BY DEF IInv
<1> QED BY <1>1, MoveInvariant, PTL

\* Under the same assumptions the dump a marker names is the whole database, for
\* as long as the marker stands.
THEOREM DumpIsWhole ==
  ASSUME SingleOperator, EveryWriterStopped, NothingRemoved
  PROVE  Spec => []MarkerNamesWholeDump
<1>1. IInv => MarkerNamesWholeDump
  BY DEF IInv
<1> QED BY <1>1, MoveInvariant, PTL

-----------------------------------------------------------------------------
(* The old location.                                                        *)

\* A restore goes to the location of the new server.
LEMMA RestoreElsewhere ==
  ASSUME IInv, NEW o \in Operator, pc[o] \in NewPart, Answers(svc[o]),
         NEW c, Restore(svc[o], c), UNCHANGED <<format, marker>>,
         NEW s \in Service, NEW l \in Loc, rows'[s][l] # rows[s][l]
  PROVE  format[s][l] # marker[s].from
<1>1. s = svc[o] /\ l = Mount(s)
  BY DEF Restore, IInv, TypeOK
<1>2. marker[s].from < container[s].major
  BY <1>1 DEF IInv, RunKnows, Moving, NewPart
<1>3. format[s][l] = container[s].major
  BY <1>1 DEF IInv, Located
<1> QED BY <1>2, <1>3, TypedAt DEF IInv

\* A server that starts changes an empty location, or none.
LEMMA ReadyElsewhere ==
  ASSUME IInv, NEW t \in Service, ServerReady(t), NEW s \in Service, NEW l \in Loc, Marked(s),
         format'[s][l] # format[s][l]
  PROVE  format[s][l] # marker[s].from
<1>1. s = t /\ l = Mount(s)
  BY DEF ServerReady, IInv, TypeOK
<1>2. format'[s][l] = container[s].major
  BY <1>1, TypedAt DEF ServerReady, IInv, TypeOK
<1>3. format[s][l] = 0
  BY <1>1, <1>2 DEF ServerReady, Fits
<1>4. marker[s].from \in Major
  BY DEF IInv, OldDataWhole
<1> QED BY <1>3, <1>4

\* Most steps of a run leave the data where they are.
LEMMA RunLeavesData ==
  ASSUME NEW o \in Operator, Step(o)
  PROVE  UNCHANGED <<format, rows>> \/ RestoreSome(o) \/ RestoreRest(o) \/ StackApps(o)
<1>1. CASE \E s \in Service : Consider(o, s) \/ StackDatabase(o, s)
  BY <1>1 DEF Consider, StackDatabase, host
<1>2. CASE \E a \in App : StopApp(o, a)
  BY <1>2 DEF StopApp
<1>3. CASE AllStopped(o) \/ CountBefore(o) \/ Dump(o) \/ Mark(o)
  BY <1>3 DEF AllStopped, CountBefore, Dump, Mark, host
<1>4. CASE BringUpAlone(o) \/ NeverReady(o) \/ ExecFails(o) \/ CheckTarget(o)
  BY <1>4 DEF BringUpAlone, NeverReady, ExecFails, CheckTarget, host
<1>5. CASE CountAfter(o) \/ ClearMarker(o) \/ StartStacks(o)
  BY <1>5 DEF CountAfter, ClearMarker, StartStacks, host
<1> QED BY <1>1, <1>2, <1>3, <1>4, <1>5 DEF Step

\* What an application writes is not under a marker.
LEMMA WritesUnmarked ==
  ASSUME IInv, NEW s \in Service, NEW l \in Loc, rows'[s][l] # rows[s][l],
         \/ \E o \in Operator : StackApps(o)
         \/ \E t \in Service, r \in Row : AppWrite(t, r)
  PROVE  ~Marked(s)
<1>1. ASSUME NEW o \in Operator, StackApps(o) PROVE ~Marked(s)
  <2>1. s = svc[o]
    BY <1>1 DEF StackApps, IInv, TypeOK
  <2> QED BY <1>1, <2>1 DEF StackApps, IInv, RunKnows, Settled
<1>2. ASSUME NEW t \in Service, NEW r \in Row, AppWrite(t, r) PROVE ~Marked(s)
  <2>1. s = t
    BY <1>2 DEF AppWrite, IInv, TypeOK
  <2> QED BY <1>2, <2>1 DEF AppWrite, IInv, UntrustedNotServed
<1> QED BY <1>1, <1>2

\* Under the same assumptions no step of a move, of a server that starts or of an
\* application touches the location the old database is in, as long as the
\* marker stands.
THEOREM OldDataUntouched ==
  ASSUME SingleOperator, EveryWriterStopped, NothingRemoved
  PROVE  Spec => OldLocationUntouched
<1> DEFINE Untouched == \A s \in Service, l \in Loc :
       /\ <<format[s][l], rows[s][l]>>' # <<format[s][l], rows[s][l]>>
       /\ Marked(s) /\ Marked(s)'
       => format[s][l] # marker[s].from
<1>1. ASSUME IInv, [Next]_vars PROVE Untouched
  <2> SUFFICES ASSUME NEW s \in Service, NEW l \in Loc, Marked(s), Marked(s)',
                      format'[s][l] # format[s][l] \/ rows'[s][l] # rows[s][l]
               PROVE  format[s][l] # marker[s].from
    OBVIOUS
  <2>1. ASSUME NEW o \in Operator, RestoreSome(o) \/ RestoreRest(o)
        PROVE  format[s][l] # marker[s].from
    BY <1>1, <2>1, RestoreElsewhere DEF RestoreSome, RestoreRest, NewPart
  <2>2. ASSUME NEW o \in Operator, StackApps(o) PROVE FALSE
    BY <1>1, <2>2, WritesUnmarked DEF StackApps
  <2>3. ASSUME NEW o \in Operator, Abort(o) \/ \E c \in Checkout : Deploy(o, c) PROVE FALSE
    BY <2>3 DEF Abort, Deploy, host
  <2>4. ASSUME NEW t \in Service, ServerReady(t) PROVE format[s][l] # marker[s].from
    BY <1>1, <2>4, ReadyElsewhere DEF ServerReady
  <2>5. ASSUME NEW t \in Service, DatabaseDown(t) \/ DatabaseStarted(t) \/ ContainersRemoved(t)
        PROVE  FALSE
    BY <2>5 DEF DatabaseDown, DatabaseStarted, ContainersRemoved, Happens, NothingRemoved
  <2>6. ASSUME NEW t \in Service, TryAgain(t) PROVE FALSE
    <3>1. CASE t = s
      BY <1>1, <2>6, <3>1 DEF TryAgain, Marked, IInv, TypeOK
    <3>2. CASE t # s
      BY <1>1, <2>6, <3>2 DEF TryAgain, IInv, TypeOK
    <3> QED BY <3>1, <3>2
  <2>7. ASSUME NEW t \in Service, NEW r \in Row, AppWrite(t, r) PROVE FALSE
    BY <1>1, <2>7, WritesUnmarked DEF AppWrite
  <2>8. CASE UNCHANGED vars
    BY <2>8 DEF vars, host
  <2>9. CASE \E o \in Operator : Step(o) \/ Abort(o) \/ \E c \in Checkout : Deploy(o, c)
    BY <2>1, <2>2, <2>3, <2>9, RunLeavesData
  <2> QED BY <1>1, <2>4, <2>5, <2>6, <2>7, <2>8, <2>9 DEF Next
<1> QED BY <1>1, MoveInvariant, PTL DEF Spec, OldLocationUntouched

-----------------------------------------------------------------------------
(* The role implements AppDatabase.                                         *)

Up == [s \in Service |-> apps[s] # {}]
Data == [s \in Service |-> IF apps[s] # {} THEN Served(s) ELSE truth[s]]

\* The data of the promise are what the users left, whether or not the
\* application is up.
LEMMA DataIsTruth ==
  ASSUME ServedIsCurrent
  PROVE  Data = [s \in Service |-> truth[s]]
BY DEF Data, ServedIsCurrent

\* The same after a step.
LEMMA DataIsTruthAfter ==
  ASSUME ServedIsCurrent'
  PROVE  Data' = [s \in Service |-> truth'[s]]
BY DEF Data, ServedIsCurrent, Served, Mount, Exists

\* The hosts the role starts from are initial states of the promise.
LEMMA InitPromised ==
  ASSUME Init, TypeOK, ServedIsCurrent
  PROVE  Promise!Init
<1>1. Data \in [Service -> Content] /\ Up \in [Service -> BOOLEAN]
  BY DataIsTruth DEF TypeOK, Up
<1> QED BY <1>1 DEF Promise!Init, Data, Up

\* What does not touch the applications or what their users left is a stutter.
LEMMA QuietPromised ==
  ASSUME ServedIsCurrent, ServedIsCurrent', UNCHANGED <<apps, truth>>
  PROVE  UNCHANGED Promise!vars
<1>1. Data' = [s \in Service |-> truth'[s]]
  BY DEF Data, ServedIsCurrent, Served, Mount, Exists
<1>2. Data' = Data
  BY <1>1, DataIsTruth
<1>3. Up' = Up
  BY DEF Up
<1> QED BY <1>2, <1>3 DEF Promise!vars, Data, Up

\* An application goes down with its last container.
LEMMA StopPromised ==
  ASSUME TypeOK, ServedIsCurrent, ServedIsCurrent',
         NEW o \in Operator, NEW a \in App, StopApp(o, a)
  PROVE  [Promise!Next]_(Promise!vars)
<1> SUFFICES ASSUME NEW s \in Service, s = svc[o]
             PROVE  [Promise!Next]_(Promise!vars)
  BY DEF TypeOK
<1>1. a \in apps[s]
  BY DEF StopApp
<1>2. truth' = truth /\ apps' = [apps EXCEPT ![s] = apps[s] \ {a}]
  BY DEF StopApp
<1>3. Data' = Data
  BY <1>2, DataIsTruth, DataIsTruthAfter
<1>4. \A t \in Service : apps'[t] = IF t = s THEN apps[s] \ {a} ELSE apps[t]
  BY <1>2 DEF TypeOK
<1>5. CASE apps[s] = {a}
  <2>1. Up[s]
    BY <1>1 DEF Up
  <2>2. \A t \in Service : Up'[t] = IF t = s THEN FALSE ELSE Up[t]
    BY <1>4, <1>5 DEF Up
  <2>3. Up' = [Up EXCEPT ![s] = FALSE]
    <3>1. Up' = [t \in Service |-> Up'[t]] /\ Up = [t \in Service |-> Up[t]]
      BY DEF Up
    <3>2. Up' = [t \in Service |-> IF t = s THEN FALSE ELSE Up[t]]
      BY <2>2, <3>1
    <3> QED BY <3>1, <3>2
  <2>4. Promise!Stop(s)
    BY <1>3, <2>1, <2>3 DEF Promise!Stop, Data, Up
  <2> QED BY <2>4 DEF Promise!Next
<1>6. CASE apps[s] # {a}
  <2>1. \A t \in Service : (apps'[t] # {}) = (apps[t] # {})
    BY <1>1, <1>4, <1>6
  <2>2. Up' = Up
    BY <2>1 DEF Up
  <2> QED BY <1>3, <2>2 DEF Promise!vars, Data, Up
<1> QED BY <1>5, <1>6

\* The stack start brings an application back on what it left, or finds it up.
LEMMA StartPromised ==
  ASSUME TypeOK, TypeOK', ServedIsCurrent, ServedIsCurrent',
         NEW o \in Operator, StackApps(o)
  PROVE  [Promise!Next]_(Promise!vars)
<1> SUFFICES ASSUME NEW s \in Service, s = svc[o]
             PROVE  [Promise!Next]_(Promise!vars)
  BY DEF TypeOK
<1>1. /\ truth' = [truth EXCEPT ![s] = WithTables(truth[s])]
      /\ apps' = [apps EXCEPT ![s] = App]
  BY DEF StackApps
<1>2. Data = [t \in Service |-> truth[t]] /\ Data' = [t \in Service |-> truth'[t]]
  BY DataIsTruth, DataIsTruthAfter
<1>3. Data' = [Data EXCEPT ![s] = WithTables(truth[s])] /\ Data[s] = truth[s]
  BY <1>1, <1>2 DEF TypeOK
<1>4. \A t \in Service : apps'[t] = IF t = s THEN App ELSE apps[t]
  BY <1>1 DEF TypeOK
<1>5. \A t \in Service : Up'[t] = IF t = s THEN TRUE ELSE Up[t]
  BY <1>4, ConstantsTyped DEF Up
<1>6. CASE apps[s] = {}
  <2>1. ~Up[s]
    BY <1>6 DEF Up
  <2>2. Up' = [Up EXCEPT ![s] = TRUE]
    BY <1>5 DEF Up
  <2>3. Data' = [Data EXCEPT ![s] = WithTables(@)]
    BY <1>2, <1>3
  <2>4. Promise!Start(s)
    BY <2>1, <2>2, <2>3 DEF Promise!Start, Data, Up
  <2> QED BY <2>4 DEF Promise!Next
<1>7. CASE apps[s] # {}
  <2>1. Up[s]
    BY <1>7 DEF Up
  <2>2. Up' = Up
    BY <1>5, <2>1 DEF Up
  <2>3. PICK c \in Content : c = WithTables(truth[s])
    BY <1>1 DEF TypeOK, WithTables
  <2>4. Promise!Write(s, c)
    BY <1>3, <2>1, <2>2, <2>3 DEF Promise!Write, Data, Up
  <2> QED BY <2>4 DEF Promise!Next
<1> QED BY <1>6, <1>7

\* A running application changes its own data and no other's.
LEMMA WritePromised ==
  ASSUME TypeOK, TypeOK', ServedIsCurrent, ServedIsCurrent',
         NEW s \in Service, NEW r \in Row, AppWrite(s, r)
  PROVE  [Promise!Next]_(Promise!vars)
<1>1. PICK c \in Content : truth' = [truth EXCEPT ![s] = c]
  BY DEF AppWrite, TypeOK
<1>2. Up[s] /\ Up' = Up
  BY DEF AppWrite, Up
<1>3. Data = [t \in Service |-> truth[t]] /\ Data' = [t \in Service |-> truth'[t]]
  BY DataIsTruth, DataIsTruthAfter
<1>4. Data' = [Data EXCEPT ![s] = c]
  BY <1>1, <1>3 DEF TypeOK
<1>5. Promise!Write(s, c)
  BY <1>2, <1>4 DEF Promise!Write, Data, Up
<1> QED BY <1>5 DEF Promise!Next

\* Containers removed by hand take the application down.
LEMMA RemovedPromised ==
  ASSUME TypeOK, ServedIsCurrent, ServedIsCurrent', NEW s \in Service, ContainersRemoved(s)
  PROVE  [Promise!Next]_(Promise!vars)
<1>1. truth' = truth /\ apps' = [apps EXCEPT ![s] = {}]
  BY DEF ContainersRemoved
<1>2. Data' = Data
  BY <1>1, DataIsTruth, DataIsTruthAfter
<1>3. \A t \in Service : Up'[t] = IF t = s THEN FALSE ELSE Up[t]
  BY <1>1 DEF Up, TypeOK
<1>4. Up' = [Up EXCEPT ![s] = FALSE]
  BY <1>3 DEF Up
<1>5. CASE Up[s]
  <2>1. Promise!Stop(s)
    BY <1>2, <1>4, <1>5 DEF Promise!Stop, Data, Up
  <2> QED BY <2>1 DEF Promise!Next
<1>6. CASE ~Up[s]
  <2>1. Up' = Up
    BY <1>3, <1>6 DEF Up
  <2> QED BY <1>2, <2>1 DEF Promise!vars, Data, Up
<1> QED BY <1>5, <1>6

\* Only three steps of a run touch the applications or what users left.
LEMMA StepPromised ==
  ASSUME NEW o \in Operator, Step(o)
  PROVE  \/ UNCHANGED <<apps, truth>>
         \/ \E a \in App : StopApp(o, a)
         \/ StackApps(o)
<1>1. CASE \E s \in Service : Consider(o, s) \/ StackDatabase(o, s)
  BY <1>1 DEF Consider, StackDatabase, host
<1>2. CASE AllStopped(o) \/ CountBefore(o) \/ Dump(o) \/ Mark(o)
  BY <1>2 DEF AllStopped, CountBefore, Dump, Mark, host
<1>3. CASE BringUpAlone(o) \/ NeverReady(o) \/ ExecFails(o) \/ CheckTarget(o)
  BY <1>3 DEF BringUpAlone, NeverReady, ExecFails, CheckTarget, host
<1>4. CASE RestoreSome(o) \/ RestoreRest(o) \/ CountAfter(o) \/ ClearMarker(o) \/ StartStacks(o)
  BY <1>4 DEF RestoreSome, RestoreRest, CountAfter, ClearMarker, StartStacks, host
<1> QED BY <1>1, <1>2, <1>3, <1>4 DEF Step

\* Every step of the role is a step of the promise, or none.
LEMMA NextPromised ==
  ASSUME TypeOK, TypeOK', ServedIsCurrent, ServedIsCurrent', [Next]_vars
  PROVE  [Promise!Next]_(Promise!vars)
<1>1. CASE UNCHANGED <<apps, truth>>
  BY <1>1, QuietPromised
<1>2. ASSUME NEW o \in Operator, Step(o) PROVE [Promise!Next]_(Promise!vars)
  BY <1>1, <1>2, StepPromised, StopPromised, StartPromised
<1>3. ASSUME NEW o \in Operator, Abort(o) \/ \E c \in Checkout : Deploy(o, c)
      PROVE  UNCHANGED <<apps, truth>>
  BY <1>3 DEF Abort, Deploy, host
<1>4. ASSUME NEW s \in Service,
             ServerReady(s) \/ DatabaseDown(s) \/ DatabaseStarted(s) \/ TryAgain(s)
      PROVE  UNCHANGED <<apps, truth>>
  BY <1>4 DEF ServerReady, DatabaseDown, DatabaseStarted, TryAgain
<1>5. ASSUME NEW s \in Service, ContainersRemoved(s) PROVE [Promise!Next]_(Promise!vars)
  BY <1>5, RemovedPromised
<1>6. ASSUME UNCHANGED vars PROVE UNCHANGED <<apps, truth>>
  BY <1>6 DEF vars, host
<1>7. ASSUME Next PROVE [Promise!Next]_(Promise!vars)
  <2>1. CASE \E o \in Operator : Step(o) \/ Abort(o) \/ \E c \in Checkout : Deploy(o, c)
    BY <1>1, <1>2, <1>3, <2>1
  <2>2. CASE \E s \in Service :
               \/ ServerReady(s) \/ DatabaseDown(s) \/ DatabaseStarted(s)
               \/ ContainersRemoved(s) \/ TryAgain(s)
               \/ \E r \in Row : AppWrite(s, r)
    BY <1>1, <1>4, <1>5, <2>2, WritePromised
  <2> QED BY <1>7, <2>1, <2>2 DEF Next
<1> QED BY <1>1, <1>6, <1>7

\* Under the same assumptions the role implements AppDatabase: whatever the
\* deploys, failures and recoveries, an application that comes back finds what
\* it left, and nothing but the application changes it.
THEOREM RoleKeepsPromise ==
  ASSUME SingleOperator, EveryWriterStopped, NothingRemoved
  PROVE  Spec => KeepsPromise
<1>1. IInv => TypeOK /\ ServedIsCurrent
  BY DEF IInv
<1>2. Init /\ IInv => Promise!Init
  BY <1>1, InitPromised
<1>3. IInv /\ IInv' /\ [Next]_vars => [Promise!Next]_(Promise!vars)
  <2> SUFFICES ASSUME IInv, IInv', [Next]_vars PROVE [Promise!Next]_(Promise!vars)
    OBVIOUS
  <2>1. TypeOK /\ TypeOK' /\ ServedIsCurrent /\ ServedIsCurrent'
    BY DEF IInv
  <2> QED BY <2>1, NextPromised
<1> QED BY <1>2, <1>3, MoveInvariant, PTL DEF Spec, KeepsPromise, Promise!Spec

-----------------------------------------------------------------------------
(* The image bump alone, between majors that look for their data in the same *)
(* place: those before 18.  The change Renovate proposes then cannot be done, *)
(* as the new server finds the data of the old and does not open them.  It    *)
(* does no harm either, and here containers may be removed by hand and the    *)
(* stop list may miss a writer.  18 under an old mount looks elsewhere, in an *)
(* anonymous volume, and nothing is claimed of it here.                       *)

Home(s) == Installed[s].loc
LocationsKept == \A c \in Checkout : \A s \in Service :
    c[s].loc = Home(s) /\ Home(s) \notin Anonymous

\* The one location in use has what the users left, and the format it had.
BumpHost(s) ==
    /\ Mount(s) = Home(s)
    /\ rows[s][Home(s)] = truth[s]
    /\ \A l \in Loc \ {Home(s)} : format[s][l] \in {0, Leftover}
    /\ Answers(s) => format[s][Home(s)] = container[s].major
    /\ apps[s] # {} => Exists(s)
    /\ Marked(s) => /\ marker[s].from \in Major /\ marker[s].from < Leftover
                    /\ format[s][Home(s)] = marker[s].from

\* A run gets as far as waiting for a server that never answers.
BumpRun(o) ==
    LET s == svc[o] IN
    /\ pc[o] # "idle" => compose = checkout[o]
    /\ pc[o] \in OldPart \cup {"up"} =>
         /\ container[s].major < checkout[o][s].major
         /\ format[s][Home(s)] = container[s].major
    /\ pc[o] = "wait" => format[s][Home(s)] \notin {0, container[s].major}
    /\ pc[o] \notin {"restore", "restoring", "recount", "clear"}

BumpInv == TypeOK /\ (\A s \in Service : BumpHost(s)) /\ (\A o \in Operator : BumpRun(o))

LEMMA HomeAt ==
  ASSUME NEW s \in Service
  PROVE  Home(s) \in Loc /\ Installed[s].major \in Major /\ Leftover \in Nat
BY CheckoutAt DEF Home

LEMMA BumpHostSame ==
  ASSUME NEW s \in Service, BumpHost(s),
         container'[s] = container[s], format'[s] = format[s], rows'[s] = rows[s],
         apps'[s] = apps[s], marker'[s] = marker[s], truth'[s] = truth[s]
  PROVE  BumpHost(s)'
BY DEF BumpHost, Marked, Exists, Answers, Mount

LEMMA InitBump ==
  ASSUME LocationsKept, Init
  PROVE  BumpInv
<1>1. TypeOK
  BY InitTyped
<1>2. ASSUME NEW s \in Service PROVE BumpHost(s)
  <2>1. PICK fresh \in SUBSET Service, junk \in SUBSET (Service \X (Loc \ Anonymous)) : Init!2!(fresh, junk)
    BY DEF Init
  <2>2. /\ container[s].major = Installed[s].major /\ container[s].loc = Home(s)
        /\ container[s].state = (IF s \in fresh THEN "none" ELSE "up")
        /\ apps[s] = (IF s \in fresh THEN {} ELSE App)
        /\ truth[s] = (IF s \in fresh THEN {} ELSE {Schema})
    BY <2>1 DEF Home
  <2>3. /\ format[s][Home(s)] = (IF s \in fresh THEN 0 ELSE Installed[s].major)
        /\ rows[s][Home(s)] = (IF s \in fresh THEN {} ELSE {Schema})
    <3>1. CASE s \in fresh
      BY <2>1, <3>1, HomeAt DEF Home
    <3>2. CASE s \notin fresh
      BY <2>1, <3>2, HomeAt DEF Home
    <3> QED BY <3>1, <3>2
  <2>4. \A l \in Loc \ {Home(s)} : format[s][l] \in {0, Leftover}
    BY <2>1 DEF Home
  <2>5. ~Marked(s)
    BY DEF Init, Marked
  <2> QED BY <2>2, <2>3, <2>4, <2>5 DEF BumpHost, Mount, Exists, Answers
<1>3. ASSUME NEW o \in Operator PROVE BumpRun(o)
  BY DEF Init, BumpRun, OldPart
<1> QED BY <1>1, <1>2, <1>3 DEF BumpInv

\* Steps that change neither the host nor the incidents' side of it: what a run
\* decides.
LEMMA BumpDecides ==
  ASSUME BumpInv, SingleOperator, NEW o \in Operator,
         \/ \E s \in Service : Consider(o, s)
         \/ AllStopped(o) \/ CountBefore(o) \/ Dump(o) \/ NeverReady(o) \/ ExecFails(o)
         \/ CheckTarget(o) \/ CountAfter(o) \/ StartStacks(o) \/ Abort(o)
         \/ \E c \in Checkout : Deploy(o, c)
  PROVE  (\A s \in Service : BumpHost(s)') /\ (\A p \in Operator : BumpRun(p)')
<1>1. UNCHANGED <<container, format, rows, apps, marker, truth>>
  BY DEF Consider, AllStopped, CountBefore, Dump, NeverReady, ExecFails, CheckTarget, CountAfter,
         StartStacks, Abort, Deploy, host
<1>2. \A s \in Service : BumpHost(s)'
  BY <1>1, BumpHostSame DEF BumpInv
<1>3. BumpRun(o)'
  <2> USE DEF BumpInv, BumpRun, TypeOK, OldPart
  <2>1. ASSUME NEW s \in Service, Consider(o, s) PROVE BumpRun(o)'
    <3>1. /\ pc[o] = "next" /\ compose' = compose /\ checkout' = checkout
      BY <2>1 DEF Consider, host
    <3>2. CASE Refuse(o) /\ UNCHANGED <<todo, svc>>
      BY <3>1, <3>2 DEF Refuse, Go
    <3>3. CASE todo' = [todo EXCEPT ![o] = @ \ {s}] /\ UNCHANGED <<pc, svc>>
      BY <3>1, <3>3
    <3>4. CASE /\ ~(Refuse(o) /\ UNCHANGED <<todo, svc>>)
               /\ ~(todo' = [todo EXCEPT ![o] = @ \ {s}] /\ UNCHANGED <<pc, svc>>)
      <4>1. /\ Answers(s) /\ checkout[o][s].major > container[s].major
            /\ pc'[o] = "stop" /\ svc'[o] = s
        BY <2>1, <3>4 DEF Consider, Go
      <4>2. format[s][Home(s)] = container[s].major
        BY <4>1 DEF BumpHost
      <4>3. container[s].major < checkout[o][s].major
        BY <4>1, CheckoutAt, TypedAt
      <4> QED BY <1>1, <3>1, <4>1, <4>2, <4>3
    <3> QED BY <3>2, <3>3, <3>4
  <2>2. CASE AllStopped(o)
    BY <1>1, <2>2 DEF AllStopped, Go, host, plan
  <2>3. CASE CountBefore(o) \/ Dump(o)
    BY <1>1, <2>3 DEF CountBefore, Dump, Go, host
  <2>4. CASE NeverReady(o) \/ ExecFails(o) \/ Abort(o)
    BY <2>4 DEF NeverReady, ExecFails, Abort, Refuse, Go
  <2>5. CASE CheckTarget(o)
    <3>1. /\ pc[o] = "wait" /\ Answers(svc[o]) /\ svc[o] \in Service
      BY <2>5 DEF CheckTarget
    <3>2. format[svc[o]][Home(svc[o])] = container[svc[o]].major
      BY <3>1 DEF BumpHost
    <3> QED BY <3>1, <3>2
  <2>6. CASE CountAfter(o)
    BY <2>6 DEF CountAfter
  <2>7. CASE StartStacks(o)
    BY <1>1, <2>7 DEF StartStacks, Go, host
  <2>8. ASSUME NEW c \in Checkout, Deploy(o, c) PROVE BumpRun(o)'
    BY <2>8 DEF Deploy
  <2> QED BY <2>1, <2>2, <2>3, <2>4, <2>5, <2>6, <2>7, <2>8
<1>4. \A p \in Operator : BumpRun(p)'
  BY <1>3 DEF SingleOperator
<1> QED BY <1>2, <1>4

\* What a run does.
LEMMA BumpActs ==
  ASSUME LocationsKept, BumpInv, SingleOperator, NEW o \in Operator,
         \/ \E a \in App : StopApp(o, a)
         \/ \E s \in Service : StackDatabase(o, s)
         \/ Mark(o) \/ BringUpAlone(o) \/ StackApps(o)
         \/ RestoreSome(o) \/ RestoreRest(o) \/ ClearMarker(o)
  PROVE  (\A s \in Service : BumpHost(s)') /\ (\A p \in Operator : BumpRun(p)')
<1>1. ASSUME NEW s \in Service, NEW a \in App, StopApp(o, a)
      PROVE  BumpHost(s)' /\ BumpRun(o)'
  <2>1. /\ UNCHANGED <<compose, container, format, rows, marker, truth, pc, svc, checkout>>
        /\ apps'[s] \subseteq apps[s]
    BY <1>1 DEF StopApp, plan, BumpInv, TypeOK
  <2>2. BumpHost(s)'
    BY <2>1 DEF BumpInv, BumpHost, Marked, Exists, Answers, Mount
  <2>3. BumpRun(o)'
    BY <2>1 DEF BumpInv, BumpRun
  <2> QED BY <2>2, <2>3
<1>2. ASSUME NEW s \in Service, Mark(o) PROVE BumpHost(s)' /\ BumpRun(o)'
  <2> DEFINE t == svc[o]
  <2>1. /\ pc[o] = "mark" /\ t \in Service
        /\ UNCHANGED <<compose, container, format, rows, apps, truth, svc, checkout>>
        /\ pc' = [pc EXCEPT ![o] = "up"]
        /\ marker' = [marker EXCEPT ![t] = [from |-> container[t].major, dump |-> dump[o]]]
    BY <1>2 DEF Mark, Go, plan, BumpInv, TypeOK
  <2>2. container[t].major < checkout[o][t].major /\ format[t][Home(t)] = container[t].major
    BY <2>1 DEF BumpInv, BumpRun, OldPart
  <2>3. BumpRun(o)'
    BY <2>1, <2>2 DEF BumpInv, BumpRun, TypeOK, OldPart
  <2>4. CASE s = t
    <3>1. marker'[s].from = container[s].major
      BY <2>1, <2>4 DEF BumpInv, TypeOK
    <3>2. container[s].major \in Major /\ container[s].major < Leftover
      <4>1. checkout[o] \in Checkout
        BY DEF BumpInv, TypeOK
      <4>2. checkout[o][s].major <= Leftover /\ checkout[o][s].major \in Nat /\ Leftover \in Nat
        BY <2>1, <4>1, CheckoutAt
      <4>3. container[s].major \in Major /\ container[s].major \in Nat
        BY TypedAt DEF BumpInv
      <4> QED BY <2>2, <2>4, <4>2, <4>3
    <3> QED BY <2>1, <2>2, <2>3, <2>4, <3>1, <3>2 DEF BumpInv, BumpHost, Marked, Exists, Answers, Mount
  <2>5. CASE s # t
    <3>1. marker'[s] = marker[s]
      BY <2>1, <2>5 DEF BumpInv, TypeOK
    <3> QED BY <2>1, <2>3, <3>1, BumpHostSame DEF BumpInv
  <2> QED BY <2>4, <2>5
<1>3. ASSUME NEW s \in Service, BringUpAlone(o) PROVE BumpHost(s)' /\ BumpRun(o)'
  <2> DEFINE t == svc[o]
  <2>1. /\ pc[o] = "up" /\ t \in Service /\ ComposeUp(t)
        /\ UNCHANGED <<compose, format, rows, apps, marker, truth, svc, checkout>>
        /\ pc' = [pc EXCEPT ![o] = "wait"]
    BY <1>3 DEF BringUpAlone, Go, plan, BumpInv, TypeOK
  <2>2. /\ container[t].major < checkout[o][t].major /\ format[t][Home(t)] = container[t].major
        /\ compose = checkout[o] /\ checkout[o] \in Checkout
    BY <2>1 DEF BumpInv, BumpRun, TypeOK
  <2>3. /\ container'[t].major = compose[t].major /\ container'[t].loc = Home(t)
        /\ container'[t].state = "starting"
    BY <2>1, <2>2, TypedAt, CheckoutAt DEF ComposeUp, LocationsKept, BumpInv, TypeOK
  <2>4. container[t].major \in Nat \ {0} /\ compose[t].major \in Nat
    BY <2>1, <2>2, TypedAt, CheckoutAt DEF BumpInv
  <2>5. BumpRun(o)'
    <3>1. format[t][Home(t)] \notin {0, container'[t].major}
      BY <2>2, <2>3, <2>4
    <3> QED BY <2>1, <2>2, <3>1 DEF BumpInv, BumpRun, TypeOK, OldPart
  <2>6. CASE s = t
    BY <2>1, <2>3, <2>5, <2>6 DEF BumpInv, BumpHost, Marked, Exists, Answers, Mount
  <2>7. CASE s # t
    <3>1. container'[s] = container[s]
      BY <2>1, <2>7 DEF ComposeUp, BumpInv, TypeOK
    <3> QED BY <2>1, <2>5, <3>1, BumpHostSame DEF BumpInv
  <2> QED BY <2>6, <2>7
<1>4. ASSUME NEW s \in Service, NEW t \in Service, StackDatabase(o, t)
      PROVE  BumpHost(s)' /\ BumpRun(o)'
  <2>1. /\ pc[o] = "stack" /\ ComposeUp(t) /\ pc' = [pc EXCEPT ![o] = "apps"]
        /\ UNCHANGED <<compose, format, rows, apps, marker, truth, checkout>>
        /\ compose \in Checkout
    <3>1. pc[o] = "stack" /\ checkout[o] \in Checkout
      BY <1>4 DEF StackDatabase, BumpInv, TypeOK
    <3>2. compose = checkout[o]
      BY <3>1 DEF BumpInv, BumpRun
    <3> QED BY <1>4, <3>1, <3>2 DEF StackDatabase, Go
  <2>2. BumpRun(o)'
    BY <2>1 DEF BumpInv, BumpRun, TypeOK, OldPart
  <2>3. CASE s = t
    <3>1. /\ container'[t].major = compose[t].major /\ container'[t].loc = compose[t].loc
          /\ \/ container'[t].state = "starting"
             \/ /\ container'[t].state = "up" /\ Answers(t)
                /\ container[t].major = compose[t].major
      BY <2>1 DEF ComposeUp, BumpInv, TypeOK
    <3>2. compose[t].loc = Home(t)
      BY <2>1 DEF LocationsKept
    <3> QED BY <2>1, <2>2, <2>3, <3>1, <3>2 DEF BumpInv, BumpHost, Marked, Exists, Answers, Mount
  <2>4. CASE s # t
    <3>1. container'[s] = container[s]
      BY <2>1, <2>4 DEF ComposeUp, BumpInv, TypeOK
    <3> QED BY <2>1, <2>2, <3>1, BumpHostSame DEF BumpInv
  <2> QED BY <2>3, <2>4
<1>5. ASSUME NEW s \in Service, StackApps(o) PROVE BumpHost(s)' /\ BumpRun(o)'
  <2> DEFINE t == svc[o]
  <2>1. /\ pc[o] = "apps" /\ t \in Service /\ Answers(t) /\ Mount(t) = Home(t)
        /\ UNCHANGED <<compose, container, format, marker, svc, checkout>>
        /\ apps' = [apps EXCEPT ![t] = App]
        /\ rows' = [rows EXCEPT ![t] = [rows[t] EXCEPT ![Home(t)] = WithTables(@)]]
        /\ truth' = [truth EXCEPT ![t] = WithTables(@)]
        /\ pc'[o] \in {"idle", "stack"}
    BY <1>5 DEF StackApps, Go, BumpInv, BumpHost, TypeOK
  <2>2. BumpRun(o)'
    BY <2>1 DEF BumpInv, BumpRun, OldPart
  <2>3. CASE s = t
    <3>1. rows'[s][Home(s)] = WithTables(rows[s][Home(s)]) /\ truth'[s] = WithTables(truth[s])
      BY <2>1, <2>3, HomeAt DEF BumpInv, TypeOK
    <3> QED BY <2>1, <2>2, <2>3, <3>1 DEF BumpInv, BumpHost, Marked, Exists, Answers, Mount
  <2>4. CASE s # t
    <3>1. rows'[s] = rows[s] /\ truth'[s] = truth[s] /\ apps'[s] = apps[s]
      BY <2>1, <2>4 DEF BumpInv, TypeOK
    <3> QED BY <2>1, <2>2, <3>1, BumpHostSame DEF BumpInv
  <2> QED BY <2>3, <2>4
<1>6. ASSUME RestoreSome(o) \/ RestoreRest(o) \/ ClearMarker(o) PROVE FALSE
  BY <1>6 DEF RestoreSome, RestoreRest, ClearMarker, BumpInv, BumpRun
<1>7. (\A s \in Service : BumpHost(s)') /\ BumpRun(o)'
  BY <1>1, <1>2, <1>3, <1>4, <1>5, <1>6, ConstantsTyped
<1> QED BY <1>7 DEF SingleOperator

\* What happens around a run.
LEMMA BumpAround ==
  ASSUME LocationsKept, BumpInv, NEW t \in Service,
         \/ ServerReady(t) \/ DatabaseDown(t) \/ DatabaseStarted(t) \/ ContainersRemoved(t)
         \/ TryAgain(t) \/ \E r \in Row : AppWrite(t, r)
  PROVE  (\A s \in Service : BumpHost(s)') /\ (\A p \in Operator : BumpRun(p)')
<1>1. CASE ServerReady(t)
  <2>1. /\ container[t].state = "starting" /\ format[t][Home(t)] \in {0, container[t].major}
        /\ Mount(t) = Home(t)
        /\ container' = [container EXCEPT ![t] = In("up", t)]
        /\ format' = [format EXCEPT ![t] = [format[t] EXCEPT ![Home(t)] = container[t].major]]
        /\ UNCHANGED <<compose, rows, apps, marker, truth, pc, svc, checkout>>
    BY <1>1 DEF ServerReady, Fits, plan, BumpInv, BumpHost
  <2>2. /\ container'[t].major = container[t].major /\ container'[t].loc = Mount(t)
        /\ container'[t].state = "up" /\ format'[t][Home(t)] = container[t].major
        /\ \A l \in Loc \ {Home(t)} : format'[t][l] = format[t][l]
    BY <2>1, HomeAt DEF In, BumpInv, TypeOK
  <2>3. \A s \in Service \ {t} : container'[s] = container[s] /\ format'[s] = format[s]
    BY <2>1 DEF BumpInv, TypeOK
  <2>4. ASSUME NEW s \in Service PROVE BumpHost(s)'
    <3>1. CASE s = t
      BY <2>1, <2>2, <3>1 DEF BumpInv, BumpHost, Marked, Exists, Answers, Mount
    <3>2. CASE s # t
      BY <2>1, <2>3, <3>2, BumpHostSame DEF BumpInv
    <3> QED BY <3>1, <3>2
  <2>5. ASSUME NEW p \in Operator PROVE BumpRun(p)'
    <3>1. CASE svc[p] = t
      BY <2>1, <2>2, <3>1 DEF BumpInv, BumpRun, OldPart
    <3>2. CASE svc[p] # t
      <4>1. container'[svc[p]] = container[svc[p]] /\ format'[svc[p]] = format[svc[p]]
        BY <2>3, <3>2 DEF BumpInv, TypeOK
      <4> QED BY <2>1, <4>1 DEF BumpInv, BumpRun
    <3> QED BY <3>1, <3>2
  <2> QED BY <2>4, <2>5
<1>2. CASE DatabaseDown(t) \/ DatabaseStarted(t) \/ ContainersRemoved(t)
  <2>1. PICK state \in {"down", "starting", "none"} :
          container' = [container EXCEPT ![t] = In(state, t)]
    <3>1. CASE DatabaseDown(t)
      BY <3>1 DEF DatabaseDown
    <3>2. CASE DatabaseStarted(t)
      BY <3>2 DEF DatabaseStarted
    <3>3. CASE ContainersRemoved(t)
      BY <3>3 DEF ContainersRemoved
    <3> QED BY <1>2, <3>1, <3>2, <3>3
  <2>2. /\ \/ apps' = apps /\ Exists(t) /\ state # "none"
           \/ apps' = [apps EXCEPT ![t] = {}]
        /\ UNCHANGED <<compose, format, rows, marker, truth, pc, svc, checkout>>
    <3>1. CASE DatabaseDown(t) \/ DatabaseStarted(t)
      <4>1. container'[t].state = state
        BY <2>1 DEF In, BumpInv, TypeOK
      <4>2. container'[t].state \in {"down", "starting"}
        BY <3>1 DEF DatabaseDown, DatabaseStarted, In, BumpInv, TypeOK
      <4> QED BY <3>1, <4>1, <4>2 DEF DatabaseDown, DatabaseStarted, Exists, Answers, plan
    <3>2. CASE ContainersRemoved(t)
      <4>1. Mount(t) \notin Anonymous
        BY DEF LocationsKept, BumpInv, BumpHost
      <4>2. format' = format /\ rows' = rows
        BY <3>2, <4>1 DEF ContainersRemoved, BumpInv, TypeOK
      <4> QED BY <3>2, <4>2 DEF ContainersRemoved, plan
    <3> QED BY <1>2, <3>1, <3>2
  <2>3. /\ container'[t].major = container[t].major /\ container'[t].loc = Mount(t)
        /\ container'[t].state = state
        /\ \A s \in Service \ {t} : container'[s] = container[s] /\ apps'[s] = apps[s]
    BY <2>1, <2>2 DEF In, BumpInv, TypeOK
  <2>4. apps'[t] # {} => state # "none"
    BY <2>2 DEF BumpInv, TypeOK
  <2>5. ASSUME NEW s \in Service PROVE BumpHost(s)'
    <3>1. CASE s = t
      BY <2>1, <2>2, <2>3, <2>4, <3>1 DEF BumpInv, BumpHost, Marked, Exists, Answers, Mount
    <3>2. CASE s # t
      BY <2>2, <2>3, <3>2, BumpHostSame DEF BumpInv
    <3> QED BY <3>1, <3>2
  <2>6. \A s \in Service : container'[s].major = container[s].major
    BY <2>3
  <2>7. ASSUME NEW p \in Operator PROVE BumpRun(p)'
    BY <2>2, <2>6 DEF BumpInv, BumpRun, TypeOK
  <2> QED BY <2>5, <2>7
<1>3. CASE TryAgain(t)
  <2>1. PICK old \in Loc :
          /\ format[t][old] = marker[t].from
          /\ container' = [container EXCEPT ![t] =
               [major |-> marker[t].from, loc |-> old, state |-> "starting"]]
          /\ format' = [format EXCEPT ![t] =
               [l \in Loc |-> IF l = old \/ l # Mount(t) THEN format[t][l] ELSE 0]]
          /\ rows' = [rows EXCEPT ![t] =
               [l \in Loc |-> IF l = old \/ l # Mount(t) THEN rows[t][l] ELSE {}]]
    BY <1>3 DEF TryAgain
  <2>2. /\ Marked(t) /\ marker' = [marker EXCEPT ![t] = NoMarker]
        /\ \A o \in Operator : pc[o] = "idle"
        /\ UNCHANGED <<compose, apps, truth, pc, svc, checkout>>
    BY <1>3 DEF TryAgain, plan
  <2>3. marker[t].from \notin {0, Leftover}
    BY <2>2, HomeAt DEF BumpInv, BumpHost
  <2>4. old = Home(t) /\ Mount(t) = Home(t)
    BY <2>1, <2>3 DEF BumpInv, BumpHost
  <2>5. /\ container'[t].loc = Home(t) /\ container'[t].state = "starting"
        /\ \A l \in Loc : format'[t][l] = format[t][l] /\ rows'[t][l] = rows[t][l]
        /\ marker'[t] = NoMarker
    BY <2>1, <2>2, <2>4 DEF BumpInv, TypeOK
  <2>6. \A s \in Service \ {t} : /\ container'[s] = container[s] /\ format'[s] = format[s]
                                /\ rows'[s] = rows[s] /\ marker'[s] = marker[s]
    BY <2>1, <2>2 DEF BumpInv, TypeOK
  <2>7. ASSUME NEW s \in Service PROVE BumpHost(s)'
    <3>1. CASE s = t
      BY <2>2, <2>5, <3>1, HomeAt DEF BumpInv, BumpHost, Marked, Exists, Answers, Mount
    <3>2. CASE s # t
      BY <2>2, <2>6, <3>2, BumpHostSame DEF BumpInv
    <3> QED BY <3>1, <3>2
  <2>8. ASSUME NEW p \in Operator PROVE BumpRun(p)'
    BY <2>2 DEF BumpRun, OldPart
  <2> QED BY <2>7, <2>8
<1>4. ASSUME NEW r \in Row, AppWrite(t, r)
      PROVE  (\A s \in Service : BumpHost(s)') /\ (\A p \in Operator : BumpRun(p)')
  <2>1. /\ Mount(t) = Home(t)
        /\ UNCHANGED <<compose, container, format, apps, marker, pc, svc, checkout>>
        /\ \/ /\ rows' = [rows EXCEPT ![t] = [rows[t] EXCEPT ![Home(t)] = @ \cup {r}]]
              /\ truth' = [truth EXCEPT ![t] = @ \cup {r}]
           \/ /\ rows' = [rows EXCEPT ![t] = [rows[t] EXCEPT ![Home(t)] = @ \ {r}]]
              /\ truth' = [truth EXCEPT ![t] = @ \ {r}]
    BY <1>4 DEF AppWrite, plan, BumpInv, BumpHost
  <2>2. rows[t][Home(t)] = truth[t]
    BY DEF BumpInv, BumpHost
  <2>3. rows'[t][Home(t)] = truth'[t]
    <3>1. rows[t] \in [Loc -> Content] /\ rows \in [Service -> [Loc -> Content]]
          /\ truth \in [Service -> Content] /\ Home(t) \in Loc
      BY HomeAt DEF BumpInv, TypeOK
    <3>2. PICK c \in {truth[t] \cup {r}, truth[t] \ {r}} :
            /\ rows' = [rows EXCEPT ![t] = [rows[t] EXCEPT ![Home(t)] = c]]
            /\ truth' = [truth EXCEPT ![t] = c]
      BY <2>1, <2>2
    <3> QED BY <3>1, <3>2
  <2>4. \A s \in Service \ {t} : rows'[s] = rows[s] /\ truth'[s] = truth[s]
    BY <2>1 DEF BumpInv, TypeOK
  <2>5. ASSUME NEW s \in Service PROVE BumpHost(s)'
    <3>1. CASE s = t
      BY <2>1, <2>3, <3>1 DEF BumpInv, BumpHost, Marked, Exists, Answers, Mount
    <3>2. CASE s # t
      BY <2>1, <2>4, <3>2, BumpHostSame DEF BumpInv
    <3> QED BY <3>1, <3>2
  <2>6. \A p \in Operator : BumpRun(p)'
    BY <2>1 DEF BumpInv, BumpRun
  <2> QED BY <2>5, <2>6
<1> QED BY <1>1, <1>2, <1>3, <1>4

LEMMA BumpKept ==
  ASSUME SingleOperator, LocationsKept, BumpInv, [Next]_vars
  PROVE  BumpInv'
<1>1. TypeOK'
  BY TypeKept DEF BumpInv
<1>2. CASE UNCHANGED vars
  <2>1. UNCHANGED <<compose, container, format, rows, apps, marker, truth, pc, svc, checkout>>
    BY <1>2 DEF vars, host, plan
  <2>2. \A s \in Service : BumpHost(s)'
    BY <2>1, BumpHostSame DEF BumpInv
  <2>3. \A o \in Operator : BumpRun(o)'
    BY <2>1 DEF BumpInv, BumpRun
  <2> QED BY <1>1, <2>2, <2>3 DEF BumpInv
<1>3. ASSUME NEW o \in Operator, Step(o) \/ Abort(o) \/ \E c \in Checkout : Deploy(o, c)
      PROVE  (\A s \in Service : BumpHost(s)') /\ (\A p \in Operator : BumpRun(p)')
  <2>1. CASE Step(o)
    BY <2>1, BumpDecides, BumpActs DEF Step
  <2> QED BY <1>3, <2>1, BumpDecides
<1>4. CASE Next
  <2>1. CASE \E o \in Operator : Step(o) \/ Abort(o) \/ \E c \in Checkout : Deploy(o, c)
    BY <1>1, <1>3, <2>1 DEF BumpInv
  <2>2. ASSUME NEW s \in Service,
               \/ ServerReady(s) \/ DatabaseDown(s) \/ DatabaseStarted(s)
               \/ ContainersRemoved(s) \/ TryAgain(s)
               \/ \E r \in Row : AppWrite(s, r)
        PROVE  BumpInv'
    BY <1>1, <2>2, BumpAround DEF BumpInv
  <2> QED BY <1>4, <2>1, <2>2 DEF Next
<1> QED BY <1>2, <1>4

LEMMA BumpHolds ==
  ASSUME SingleOperator, LocationsKept
  PROVE  Spec => []BumpInv
<1>1. Init => BumpInv
  BY InitBump
<1>2. BumpInv /\ [Next]_vars => BumpInv'
  BY BumpKept
<1> QED BY <1>1, <1>2, PTL DEF Spec

LEMMA BumpServes == BumpInv => TypeOK /\ ServedIsCurrent
BY DEF BumpInv, BumpHost, ServedIsCurrent, Served

\* With one deploy at a time and every checkout's server on the location the host
\* has (a bump between majors before 18), a running application is on the data its users left, whatever containers are
\* removed by hand between deploys and whichever writers the stop list misses.
THEOREM BumpsServeTheirData ==
  ASSUME SingleOperator, LocationsKept
  PROVE  Spec => []ServedIsCurrent
BY BumpServes, BumpHolds, PTL

\* Under the same assumptions a service that is marked has its data, whole, for
\* the old server to come back to.
THEOREM BumpsHaveAWayBack ==
  ASSUME SingleOperator, LocationsKept
  PROVE  Spec => []WayBackExists
<1>1. BumpInv => WayBackExists
  BY HomeAt DEF BumpInv, BumpHost, WayBackExists
<1> QED BY <1>1, BumpHolds, PTL

\* Under the same assumptions the role implements AppDatabase.
THEOREM BumpsKeepPromise ==
  ASSUME SingleOperator, LocationsKept
  PROVE  Spec => KeepsPromise
<1>1. Init /\ BumpInv => Promise!Init
  BY BumpServes, InitPromised
<1>2. BumpInv /\ BumpInv' /\ [Next]_vars => [Promise!Next]_(Promise!vars)
  <2> SUFFICES ASSUME BumpInv, BumpInv', [Next]_vars PROVE [Promise!Next]_(Promise!vars)
    OBVIOUS
  <2>1. TypeOK /\ ServedIsCurrent
    BY BumpServes
  <2>2. TypeOK' /\ ServedIsCurrent'
    BY DEF BumpInv, BumpHost, ServedIsCurrent, Served, Mount, Exists
  <2> QED BY <2>1, <2>2, NextPromised
<1> QED BY <1>1, <1>2, BumpHolds, PTL DEF Spec, KeepsPromise, Promise!Spec

-----------------------------------------------------------------------------
(* How long a deploy takes: the part of ServiceReturns that needs no         *)
(* fairness.                                                                 *)

\* The tasks of the role that are left for the service it is at.
Rank(p) ==
    CASE p = "stop" -> 10 [] p = "count" -> 9 [] p = "dump" -> 8 [] p = "mark" -> 7
      [] p = "up" -> 6 [] p = "wait" -> 5 [] p = "restore" -> 4 [] p = "restoring" -> 3
      [] p = "recount" -> 2 [] p = "clear" -> 1 [] OTHER -> 0

\* The services its loop has left after that one, and the writers the role may
\* still have to stop.
Open(o) == IF pc[o] \in {"next", "stack"} THEN todo[o] ELSE todo[o] \ {svc[o]}
Writing == {w \in Service \X StopList : w[2] \in apps[w[1]]}

\* The most tasks that a play can still do: twelve for a service the role is to look
\* at and one for each writer, then two for each stack that is started.
StepsLeft(o) ==
    CASE pc[o] = "idle" -> 0
      [] pc[o] = "stack" -> 2 * Cardinality(Open(o)) + 1
      [] pc[o] = "apps" -> 2 * Cardinality(Open(o)) + 2
      [] OTHER -> 12 * Cardinality(Open(o)) + Cardinality(Writing) + Rank(pc[o])
                    + 2 * Cardinality(Service) + 2

Longest == 14 * Cardinality(Service) + Cardinality(Service \X StopList) + 12

LEMMA SubsetCounted ==
  ASSUME NEW S, IsFiniteSet(S), NEW T \in SUBSET S
  PROVE  /\ IsFiniteSet(T) /\ Cardinality(T) \in Nat /\ Cardinality(S) \in Nat
         /\ Cardinality(T) <= Cardinality(S)
         /\ \A x \in T : Cardinality(T \ {x}) = Cardinality(T) - 1
<1>1. IsFiniteSet(T) /\ Cardinality(T) <= Cardinality(S)
  BY FS_Subset
<1>2. Cardinality(T) \in Nat /\ Cardinality(S) \in Nat
  BY <1>1, FS_CardinalityType
<1>3. ASSUME NEW x \in T PROVE Cardinality(T \ {x}) = Cardinality(T) - 1
  BY <1>1, FS_RemoveElement
<1> QED BY <1>1, <1>2, <1>3

LEMMA WritingFinite ==
  ASSUME IsFiniteSet(Service), IsFiniteSet(StopList)
  PROVE  /\ IsFiniteSet(Service \X StopList) /\ Writing \in SUBSET (Service \X StopList)
         /\ Cardinality(Service \X StopList) \in Nat
         /\ Cardinality(Writing) \in Nat /\ Cardinality(Writing) <= Cardinality(Service \X StopList)
<1>1. IsFiniteSet(Service \X StopList)
  BY FS_Product
<1>2. Writing \in SUBSET (Service \X StopList)
  BY DEF Writing
<1> HIDE DEF Writing
<1> QED BY <1>1, <1>2, SubsetCounted

LEMMA OpenCounted ==
  ASSUME IsFiniteSet(Service), IsFiniteSet(StopList), TypeOK, NEW o \in Operator
  PROVE  /\ Open(o) \in SUBSET Service /\ todo[o] \in SUBSET Service
         /\ Cardinality(Open(o)) \in Nat /\ Cardinality(Service) \in Nat
         /\ Cardinality(Open(o)) <= Cardinality(Service)
         /\ \A s \in todo[o] : Cardinality(todo[o] \ {s}) = Cardinality(todo[o]) - 1
         /\ pc[o] \in {"next", "stack"} => Open(o) = todo[o]
         /\ pc[o] \notin {"next", "stack"} => Open(o) = todo[o] \ {svc[o]}
<1>1. todo[o] \in SUBSET Service /\ Open(o) \in SUBSET Service
  BY DEF TypeOK, Open
<1>2. /\ pc[o] \in {"next", "stack"} => Open(o) = todo[o]
      /\ pc[o] \notin {"next", "stack"} => Open(o) = todo[o] \ {svc[o]}
  BY DEF Open
<1> HIDE DEF Open
<1> QED BY <1>1, <1>2, SubsetCounted

LEMMA StepsTyped ==
  ASSUME IsFiniteSet(Service), IsFiniteSet(StopList), TypeOK, NEW o \in Operator
  PROVE  /\ StepsLeft(o) \in Nat /\ StepsLeft(o) <= Longest
         /\ pc[o] # "idle" => StepsLeft(o) > 0
<1>1. Rank(pc[o]) \in 0..10
  BY DEF Rank
<1>2. /\ Cardinality(Open(o)) \in Nat /\ Cardinality(Service) \in Nat
      /\ Cardinality(Open(o)) <= Cardinality(Service)
  BY OpenCounted
<1>3. /\ Cardinality(Writing) \in Nat /\ Cardinality(Service \X StopList) \in Nat
      /\ Cardinality(Writing) <= Cardinality(Service \X StopList)
  BY WritingFinite
<1> HIDE DEF Rank, Open, Writing
<1> QED BY <1>1, <1>2, <1>3 DEF StepsLeft, Longest

\* A task of the role goes on to a later one, or ends the play.
LEMMA ForwardNearer ==
  ASSUME IsFiniteSet(Service), IsFiniteSet(StopList), TypeOK, TypeOK', NEW o \in Operator,
         pc[o] \notin {"idle", "next", "stack", "apps"}, UNCHANGED <<todo, svc, apps>>,
         NEW p \in Task, Go(o, p), p \notin {"next", "stack", "apps"},
         p = "idle" \/ Rank(p) < Rank(pc[o])
  PROVE  StepsLeft(o)' < StepsLeft(o)
<1>1. pc'[o] = p
  BY DEF Go, TypeOK
<1>2. CASE p = "idle"
  BY <1>1, <1>2, StepsTyped DEF StepsLeft
<1>3. CASE p # "idle"
  <2>1. Open(o)' = Open(o) /\ Writing' = Writing
    BY <1>1 DEF Open, Writing
  <2>2. Cardinality(Open(o)) \in Nat /\ Cardinality(Writing) \in Nat /\ Cardinality(Service) \in Nat
    BY OpenCounted, WritingFinite
  <2>3. Rank(p) \in Nat /\ Rank(pc[o]) \in Nat /\ Rank(p) < Rank(pc[o])
    BY <1>3 DEF Rank
  <2> HIDE DEF Rank, Open, Writing
  <2> QED BY <1>1, <1>3, <2>1, <2>2, <2>3 DEF StepsLeft
<1> QED BY <1>2, <1>3

LEMMA RoleNearer ==
  ASSUME IsFiniteSet(Service), IsFiniteSet(StopList), TypeOK, TypeOK', NEW o \in Operator,
         \/ AllStopped(o) \/ CountBefore(o) \/ Dump(o) \/ Mark(o) \/ BringUpAlone(o)
         \/ CheckTarget(o) \/ RestoreSome(o) \/ RestoreRest(o) \/ CountAfter(o)
  PROVE  StepsLeft(o)' < StepsLeft(o)
<1>1. UNCHANGED <<todo, svc, apps>>
  BY DEF AllStopped, CountBefore, Dump, Mark, BringUpAlone, CheckTarget, RestoreSome, RestoreRest,
     CountAfter, host, plan
<1>2. \E p \in Task : /\ Go(o, p) /\ p \notin {"next", "stack", "apps"}
                      /\ p = "idle" \/ Rank(p) < Rank(pc[o])
                      /\ pc[o] \notin {"idle", "next", "stack", "apps"}
  BY DEF AllStopped, CountBefore, Dump, Mark, BringUpAlone, CheckTarget, RestoreSome, RestoreRest,
     CountAfter, Refuse, Rank
<1> QED BY <1>1, <1>2, ForwardNearer

\* A play that ends has nothing left.
LEMMA EndNearer ==
  ASSUME IsFiniteSet(Service), IsFiniteSet(StopList), TypeOK, NEW o \in Operator,
         pc[o] # "idle", Refuse(o)
  PROVE  StepsLeft(o)' < StepsLeft(o)
<1>1. pc'[o] = "idle"
  BY DEF Refuse, Go, TypeOK
<1>2. StepsLeft(o)' = 0
  BY <1>1 DEF StepsLeft
<1> QED BY <1>2, StepsTyped

LEMMA ConsiderNearer ==
  ASSUME IsFiniteSet(Service), IsFiniteSet(StopList), TypeOK, TypeOK', NEW o \in Operator,
         NEW s \in Service, Consider(o, s)
  PROVE  StepsLeft(o)' < StepsLeft(o)
<1>1. pc[o] = "next" /\ s \in todo[o] /\ UNCHANGED apps
  BY DEF Consider, host
<1>2. /\ Cardinality(todo[o]) \in Nat /\ Cardinality(todo[o] \ {s}) = Cardinality(todo[o]) - 1
      /\ Open(o) = todo[o] /\ Cardinality(Service) \in Nat
  BY <1>1, OpenCounted
<1>3. Writing' = Writing /\ Cardinality(Writing) \in Nat
  BY <1>1, WritingFinite DEF Writing
<1>4. Rank("next") = 0 /\ Rank("stop") = 10
  BY DEF Rank
<1>5. CASE Refuse(o)
  BY <1>1, <1>5, EndNearer
<1>6. CASE Go(o, "stop") /\ svc' = [svc EXCEPT ![o] = s] /\ UNCHANGED todo
  <2>1. pc'[o] = "stop" /\ Open(o)' = todo[o] \ {s}
    BY <1>6 DEF Go, Open, TypeOK
  <2> HIDE DEF Open, Writing, Rank
  <2> QED BY <1>1, <1>2, <1>3, <1>4, <2>1 DEF StepsLeft
<1>7. CASE todo' = [todo EXCEPT ![o] = @ \ {s}] /\ UNCHANGED <<pc, svc>>
  <2>1. pc'[o] = "next" /\ Open(o)' = todo[o] \ {s}
    BY <1>1, <1>7 DEF Open, TypeOK
  <2> HIDE DEF Open, Writing, Rank
  <2> QED BY <1>1, <1>2, <1>3, <1>4, <2>1 DEF StepsLeft
<1> QED BY <1>5, <1>6, <1>7, ConsiderOutcome

\* A writer that is stopped is not stopped again: nobody starts it but a deploy.
LEMMA StopNearer ==
  ASSUME IsFiniteSet(Service), IsFiniteSet(StopList), TypeOK, TypeOK', NEW o \in Operator,
         NEW a \in App, StopApp(o, a)
  PROVE  StepsLeft(o)' < StepsLeft(o)
<1> DEFINE w == <<svc[o], a>>
<1>1. /\ pc[o] = "stop" /\ UNCHANGED <<pc, todo, svc>> /\ svc[o] \in Service
      /\ a \in StopList /\ a \in apps[svc[o]]
      /\ apps' = [apps EXCEPT ![svc[o]] = apps[svc[o]] \ {a}]
  BY DEF StopApp, plan, TypeOK
<1>2. w \in Writing /\ Writing' = Writing \ {w}
  BY <1>1 DEF Writing, TypeOK
<1>3. Cardinality(Writing') = Cardinality(Writing) - 1 /\ Cardinality(Writing) \in Nat
  <2> HIDE DEF Writing, w
  <2> QED BY <1>2, WritingFinite, SubsetCounted
<1>4. Open(o)' = Open(o) /\ Cardinality(Open(o)) \in Nat /\ Cardinality(Service) \in Nat
  BY <1>1, OpenCounted DEF Open
<1>5. Rank("stop") = 10 /\ pc'[o] = "stop"
  BY <1>1 DEF Rank
<1> HIDE DEF Open, Writing, Rank, w
<1> QED BY <1>1, <1>3, <1>4, <1>5 DEF StepsLeft

LEMMA LoopNearer ==
  ASSUME IsFiniteSet(Service), IsFiniteSet(StopList), TypeOK, TypeOK', NEW o \in Operator,
         ClearMarker(o) \/ StartStacks(o)
  PROVE  StepsLeft(o)' < StepsLeft(o)
<1>1. /\ Cardinality(Open(o)) \in Nat /\ Cardinality(Service) \in Nat
      /\ Cardinality(Writing) \in Nat
  BY OpenCounted, WritingFinite
<1>2. Rank("clear") = 1 /\ Rank("next") = 0
  BY DEF Rank
<1>3. CASE ClearMarker(o)
  <2>1. /\ pc[o] = "clear" /\ pc'[o] = "next" /\ todo'[o] = todo[o] \ {svc[o]}
        /\ UNCHANGED apps
    BY <1>3 DEF ClearMarker, Go, TypeOK
  <2>2. Open(o)' = Open(o) /\ Writing' = Writing
    BY <2>1 DEF Open, Writing
  <2> HIDE DEF Open, Writing, Rank
  <2> QED BY <1>1, <1>2, <2>1, <2>2 DEF StepsLeft
<1>4. CASE StartStacks(o)
  <2>1. /\ pc[o] = "next" /\ pc'[o] = "stack" /\ todo'[o] = Service
    BY <1>4 DEF StartStacks, Go, TypeOK
  <2>2. Open(o)' = Service
    BY <2>1 DEF Open
  <2> HIDE DEF Open, Writing, Rank
  <2> QED BY <1>1, <1>2, <2>1, <2>2 DEF StepsLeft
<1> QED BY <1>3, <1>4

LEMMA StackNearer ==
  ASSUME IsFiniteSet(Service), IsFiniteSet(StopList), TypeOK, TypeOK', NEW o \in Operator,
         (\E s \in Service : StackDatabase(o, s)) \/ StackApps(o)
  PROVE  StepsLeft(o)' < StepsLeft(o)
<1>1. ASSUME NEW s \in Service, StackDatabase(o, s) PROVE StepsLeft(o)' < StepsLeft(o)
  <2>1. /\ pc[o] = "stack" /\ pc'[o] = "apps" /\ s \in todo[o]
        /\ todo'[o] = todo[o] /\ svc'[o] = s
    BY <1>1 DEF StackDatabase, Go, TypeOK
  <2>2. Open(o) = todo[o] /\ Open(o)' = todo[o] \ {s}
    BY <2>1 DEF Open
  <2>3. /\ Cardinality(todo[o]) \in Nat /\ Cardinality(todo[o] \ {s}) = Cardinality(todo[o]) - 1
    BY <2>1, <2>2, OpenCounted
  <2> HIDE DEF Open
  <2> QED BY <2>1, <2>2, <2>3 DEF StepsLeft
<1>2. CASE StackApps(o)
  <2>1. /\ pc[o] = "apps" /\ pc'[o] \in {"idle", "stack"} /\ todo'[o] = todo[o] \ {svc[o]}
    BY <1>2 DEF StackApps, Go, TypeOK
  <2>2. pc'[o] = "stack" => Open(o)' = Open(o)
    BY <2>1 DEF Open
  <2>3. Cardinality(Open(o)) \in Nat
    BY OpenCounted
  <2> HIDE DEF Open
  <2> QED BY <2>1, <2>2, <2>3 DEF StepsLeft
<1> QED BY <1>1, <1>2

LEMMA StepNearer ==
  ASSUME IsFiniteSet(Service), IsFiniteSet(StopList), TypeOK, TypeOK', NEW o \in Operator,
         pc[o] # "idle", Step(o) \/ Abort(o)
  PROVE  StepsLeft(o)' < StepsLeft(o)
<1>1. NeverReady(o) \/ ExecFails(o) \/ Abort(o) => Refuse(o)
  BY DEF NeverReady, ExecFails, Abort
<1> QED BY <1>1, EndNearer, ConsiderNearer, StopNearer, RoleNearer, LoopNearer, StackNearer DEF Step

\* What happens to the databases and applications while a deploy runs.
Around ==
    \E s \in Service :
        \/ ServerReady(s) \/ DatabaseDown(s) \/ DatabaseStarted(s)
        \/ ContainersRemoved(s) \/ TryAgain(s)
        \/ \E r \in Row : AppWrite(s, r)

LEMMA AroundWaits ==
  ASSUME TypeOK, NEW o \in Operator, pc[o] # "idle", Around
  PROVE  StepsLeft(o)' = StepsLeft(o)
<1>1. UNCHANGED <<pc, todo, svc, apps>>
  BY DEF Around, ServerReady, DatabaseDown, DatabaseStarted, ContainersRemoved, TryAgain, AppWrite,
     plan
<1> QED BY <1>1 DEF StepsLeft, Open, Writing

\* A deploy comes to its end by itself: it has no more tasks than Longest, each it
\* does leaves fewer, and neither databases that go down and come back nor people
\* who work in the applications give it one more.
THEOREM DeploysEnd ==
  ASSUME IsFiniteSet(Service), IsFiniteSet(StopList)
  PROVE  Spec => /\ [](\A o \in Operator : StepsLeft(o) <= Longest)
                 /\ [][\A o \in Operator : pc[o] # "idle" =>
                         /\ Step(o) \/ Abort(o) => StepsLeft(o)' < StepsLeft(o) /\ StepsLeft(o)' >= 0
                         /\ Around => StepsLeft(o)' = StepsLeft(o)]_vars
<1> DEFINE Short == \A o \in Operator : StepsLeft(o) <= Longest
           Nearer == \A o \in Operator : pc[o] # "idle" =>
                       /\ Step(o) \/ Abort(o) => StepsLeft(o)' < StepsLeft(o) /\ StepsLeft(o)' >= 0
                       /\ Around => StepsLeft(o)' = StepsLeft(o)
<1>1. TypeOK => Short
  BY StepsTyped
<1>2. ASSUME TypeOK, TypeOK' PROVE Nearer
  <2> SUFFICES ASSUME NEW o \in Operator, pc[o] # "idle"
               PROVE  /\ Step(o) \/ Abort(o) => StepsLeft(o)' < StepsLeft(o) /\ StepsLeft(o)' >= 0
                      /\ Around => StepsLeft(o)' = StepsLeft(o)
    OBVIOUS
  <2>1. StepsLeft(o)' >= 0
    <3>1. Rank(pc'[o]) \in 0..10
      BY DEF Rank
    <3>2. Open(o)' \in SUBSET Service /\ Writing' \in SUBSET (Service \X StopList)
      BY <1>2 DEF Open, Writing, TypeOK
    <3>3. Cardinality(Open(o)') \in Nat /\ Cardinality(Writing') \in Nat /\ Cardinality(Service) \in Nat
      BY <3>2, WritingFinite, SubsetCounted
    <3> HIDE DEF Open, Writing, Rank
    <3> QED BY <3>1, <3>3 DEF StepsLeft
  <2>2. Step(o) \/ Abort(o) => StepsLeft(o)' < StepsLeft(o)
    BY <1>2, StepNearer
  <2>3. Around => StepsLeft(o)' = StepsLeft(o)
    BY <1>2, AroundWaits
  <2> QED BY <2>1, <2>2, <2>3
<1> QED BY <1>1, <1>2, TypeCorrect, PTL DEF Spec
=============================================================================
