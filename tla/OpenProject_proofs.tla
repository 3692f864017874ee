------------------------- MODULE OpenProject_proofs -------------------------
EXTENDS OpenProject, FiniteSetTheorems, TLAPS

USE ProjectTyped DEF Steps, Single, Name

\* What a run has in its loop, and which views it may delete.
OwnView(v) == v.project = "this" /\ v.name \in Standard
LoopKnown ==
    /\ pc = "milestones" => todo \subseteq Milestone
    /\ pc = "create" => todo \subseteq Standard
    /\ pc \in {"epic", "patch"} => todo \subseteq Item
    /\ pc = "delete" => IsFiniteSet(todo) /\ \A v \in views : v.id \in todo => OwnView(v)

\* What it knows of the work packages.
ItemsKnown ==
    /\ pc \notin {"epic", "patch"} => edited = {}
    /\ \A i \in Item : seen[i] <= lock[i] /\ (i \in edited => seen[i] < lock[i])
    /\ Cardinality(Item) < PageSize => epics <= 1 /\ (pc = "epic" => epics = 0)

OpInv == TypeOK /\ IsFiniteSet(views) /\ LoopKnown /\ ItemsKnown

-----------------------------------------------------------------------------
LEMMA IdsFinite ==
  ASSUME NEW S, IsFiniteSet(S)
  PROVE  IsFiniteSet({v.id : v \in S})
<1> DEFINE f == [v \in S |-> v.id]
<1>1. f \in Surjection(S, {v.id : v \in S})
  BY DEF Surjection
<1> HIDE DEF f
<1> QED BY <1>1, FS_Surjection

\* There is always a number that is not taken.
LEMMA RoomAtTheTop ==
  ASSUME NEW S, IsFiniteSet(S)
  PROVE  Cardinality(S) \in Nat /\ \E n \in 1..(Cardinality(S) + 1) : n \notin S
<1>1. Cardinality(S) \in Nat
  BY FS_CardinalityType
<1>2. ASSUME 1..(Cardinality(S) + 1) \subseteq S PROVE FALSE
  <2>1. Cardinality(1..(Cardinality(S) + 1)) = Cardinality(S) + 1
    BY <1>1, FS_Interval
  <2>2. Cardinality(1..(Cardinality(S) + 1)) <= Cardinality(S)
    BY <1>2, FS_Subset
  <2> QED BY <1>1, <2>1, <2>2
<1> QED BY <1>1, <1>2

LEMMA FreshIsNew ==
  ASSUME OpInv
  PROVE  Fresh \in Nat /\ Fresh \notin Ids /\ (pc = "delete" => Fresh \notin todo)
<1> DEFINE taken == Ids \cup {dash, cat} \cup (IF pc = "delete" THEN todo ELSE {})
<1>1. IsFiniteSet(Ids)
  BY IdsFinite DEF OpInv, Ids
<1>2. IsFiniteSet(Ids \cup {dash, cat})
  <2>1. Ids \cup {dash, cat} = (Ids \cup {dash}) \cup {cat}
    OBVIOUS
  <2> QED BY <1>1, <2>1, FS_AddElement
<1>3. IsFiniteSet(taken)
  <2>1. CASE pc = "delete"
    BY <1>2, <2>1, FS_Union DEF OpInv, LoopKnown
  <2>2. CASE pc # "delete"
    BY <1>2, <2>2
  <2> QED BY <2>1, <2>2
<1>4. Fresh = CHOOSE n \in 1..(Cardinality(taken) + 1) : n \notin taken
  BY DEF Fresh
<1>5. Ids \subseteq taken /\ (pc = "delete" => todo \subseteq taken)
  OBVIOUS
<1> HIDE DEF taken
<1>6. Cardinality(taken) \in Nat /\ \E n \in 1..(Cardinality(taken) + 1) : n \notin taken
  BY <1>3, RoomAtTheTop
<1>7. Fresh \in 1..(Cardinality(taken) + 1) /\ Fresh \notin taken
  BY <1>4, <1>6
<1> QED BY <1>5, <1>6, <1>7

LEMMA InitKnown == Init => OpInv
<1> SUFFICES ASSUME Init PROVE OpInv
  OBVIOUS
<1> DEFINE v == [id |-> 1, project |-> "other", name |-> Category]
           w == [id |-> 2, project |-> "this", name |-> Own]
<1>1. views = {v} \cup {w}
  BY DEF Init
<1>2. v \in [id : Nat, project : {"this", "other"}, name : Name] /\ v.id = 1
  OBVIOUS
<1>3. w \in [id : Nat, project : {"this", "other"}, name : Name] /\ w.id = 2
  OBVIOUS
<1> HIDE DEF v, w
<1>4. IsFiniteSet(views)
  BY <1>1, FS_Singleton, FS_AddElement
<1>5. \A x, y \in views : x.id = y.id => x = y
  BY <1>1, <1>2, <1>3
<1>6. TypeOK
  <2>1. views \subseteq [id : Nat, project : {"this", "other"}, name : Name]
    BY <1>1, <1>2, <1>3
  <2>2. /\ dash \in Int /\ boards \in Nat /\ grids \in Nat /\ miles \subseteq Milestone
        /\ lock \in [Item -> Nat] /\ tagged \subseteq Item /\ epics \in Nat
        /\ cat \in Nat /\ seen \in [Item -> Int]
        /\ edited \subseteq Item /\ edits \in 0..MaxEdits /\ bad \in 0..MaxBad
    BY DEF Init
  <2>3. pc \in Steps \cup {"idle"} /\ todo = {}
    BY DEF Init
  <2>4. about \in BOOLEAN /\ active \in BOOLEAN /\ trouble \in BOOLEAN
    BY ZenonT(30) DEF Init
  <2> QED BY <1>5, <2>1, <2>2, <2>3, <2>4 DEF TypeOK
<1>7. LoopKnown /\ ItemsKnown
  BY DEF Init, LoopKnown, ItemsKnown
<1> QED BY <1>4, <1>6, <1>7 DEF OpInv

-----------------------------------------------------------------------------
LEMMA BadTyped ==
  ASSUME TypeOK, Answered \/ Refused \/ Bad \/ bad' = bad
  PROVE  bad' \in 0..MaxBad
BY DEF TypeOK, Answered, Refused, Bad

LEMMA TroubleTyped ==
  ASSUME TypeOK, Answered \/ Refused
  PROVE  trouble' \in BOOLEAN
BY DEF TypeOK, Answered, Refused

\* What op_provision.py does apart from the views leaves work packages alone.
LEMMA AsideKnown ==
  ASSUME OpInv, UNCHANGED <<views, active, items, seen, edited, edits>>,
         dash' \in Int, boards' \in Nat, grids' \in Nat, miles' \subseteq Milestone, about' \in BOOLEAN,
         pc \notin {"epic", "patch"}, pc' \in Steps \ {"epic", "patch", "delete"}, cat' \in Nat,
         pc' \in Single => todo' = {},
         pc' = "milestones" => todo' \subseteq Milestone,
         pc' = "create" => todo' \subseteq Standard,
         trouble' \in BOOLEAN, bad' \in 0..MaxBad
  PROVE  OpInv'
<1>1. UNCHANGED <<lock, tagged, epics>>
  BY DEF items
<1>2. TypeOK'
  BY <1>1 DEF OpInv, TypeOK
<1>3. LoopKnown' /\ ItemsKnown'
  BY <1>1 DEF OpInv, LoopKnown, ItemsKnown
<1> QED BY <1>2, <1>3 DEF OpInv

\* The end of a run.
LEMMA OverKnown ==
  ASSUME OpInv, Over, UNCHANGED <<views, dash, miles, about, active, epics, edits>>,
         boards' \in Nat, grids' \in Nat, bad' \in 0..MaxBad, UNCHANGED <<lock, tagged>>
  PROVE  OpInv'
<1>1. /\ pc' = "idle" /\ todo' = {} /\ cat' = 0 /\ seen' = [i \in Item |-> -1]
      /\ trouble' = FALSE /\ edited' = {}
  BY DEF Over
<1>2. TypeOK'
  <2>1. seen' \in [Item -> Int] /\ cat' \in Nat
    BY <1>1
  <2> trouble' \in BOOLEAN
    BY <1>1
  <2>2. pc' \in Steps \cup {"idle"} /\ edited' \subseteq Item
    BY <1>1
  <2> QED BY <1>1, <2>1, <2>2 DEF OpInv, TypeOK
<1>3. LoopKnown' /\ ItemsKnown'
  BY <1>1 DEF OpInv, TypeOK, LoopKnown, ItemsKnown
<1> QED BY <1>2, <1>3 DEF OpInv

\* The steps of op_provision.py that do not touch the views.
LEMMA LayoutKnown ==
  ASSUME OpInv,
         \/ Provision \/ SetProject \/ ListVersions \/ AddMilestone \/ FindDashboard
         \/ ChangeDashboard \/ MakeDashboard \/ EnsureBoard \/ PostBoard
  PROVE  OpInv'
<1>1. CASE Provision
  <2>1. pc = "idle" /\ pc' = "project" /\ todo' = {} /\ (Answered \/ Refused)
    BY <1>1 DEF Provision, Goes
  <2>2. UNCHANGED <<views, dash, boards, miles, about, active, grids, items, cat, seen, edited, edits>>
    BY <1>1 DEF Provision, layout
  <2> QED BY <2>1, <2>2, AsideKnown, BadTyped, TroubleTyped DEF OpInv, TypeOK
<1>2. CASE SetProject
  <2>1. /\ pc = "project" /\ pc' = "versions" /\ todo' = {} /\ (Answered \/ Refused)
        /\ UNCHANGED <<views, dash, boards, miles, active, grids, items, cat, seen, edited, edits>>
    BY <1>2 DEF SetProject, Goes
  <2>2. about' \in BOOLEAN
    BY <1>2 DEF SetProject, OpInv, TypeOK
  <2> QED BY <2>1, <2>2, AsideKnown, BadTyped, TroubleTyped DEF OpInv, TypeOK
<1>3. CASE ListVersions
  <2>1. /\ pc = "versions" /\ pc' = "milestones" /\ todo' \subseteq Milestone
        /\ Answered \/ Refused
    BY <1>3 DEF ListVersions, Goes
  <2>2. UNCHANGED <<views, dash, boards, miles, about, active, grids, items, cat, seen, edited, edits>>
    BY <1>3 DEF ListVersions, layout
  <2> QED BY <2>1, <2>2, AsideKnown, BadTyped, TroubleTyped DEF OpInv, TypeOK
<1>4. CASE AddMilestone
  <2>1. /\ pc = "milestones" /\ todo \subseteq Milestone
        /\ UNCHANGED <<views, dash, boards, about, active, grids, items, cat, seen, edited, edits>>
    BY <1>4 DEF AddMilestone, OpInv, LoopKnown
  <2>2. \/ pc' = "queries" /\ todo' = {}
        \/ pc' = "milestones" /\ todo' \subseteq Milestone
    BY <1>4, <2>1 DEF AddMilestone, Goes
  <2>3. miles' \subseteq Milestone
    BY <1>4, <2>1 DEF AddMilestone, OpInv, TypeOK
  <2>4. trouble' \in BOOLEAN /\ bad' \in 0..MaxBad
    <3>1. Answered \/ Refused \/ (trouble' \in BOOLEAN /\ bad' = bad)
      BY <1>4 DEF AddMilestone, OpInv, TypeOK
    <3> QED BY <3>1, BadTyped, TroubleTyped DEF OpInv, TypeOK
  <2> QED BY <2>1, <2>2, <2>3, <2>4, AsideKnown DEF OpInv, TypeOK
<1>5. CASE FindDashboard
  <2>1. /\ pc = "dashboard" /\ pc' \in {"change", "make"} /\ todo' = {}
        /\ trouble' \in BOOLEAN /\ bad' = bad
    BY <1>5 DEF FindDashboard, Goes, Answered, Missed, OpInv, TypeOK
  <2>2. UNCHANGED <<views, dash, boards, miles, about, active, grids, items, cat, seen, edited, edits>>
    BY <1>5 DEF FindDashboard, layout
  <2> QED BY <2>1, <2>2, AsideKnown DEF OpInv, TypeOK
<1>6. CASE ChangeDashboard \/ MakeDashboard
  <2>1. /\ pc \in {"change", "make"} /\ pc' = "board" /\ todo' = {} /\ (Answered \/ Refused)
        /\ UNCHANGED <<views, boards, miles, about, active, items, cat, seen, edited, edits>>
    BY <1>6 DEF ChangeDashboard, MakeDashboard, Goes
  <2>2. dash' \in Int /\ grids' \in Nat
    BY <1>6 DEF ChangeDashboard, MakeDashboard, OpInv, TypeOK
  <2> QED BY <2>1, <2>2, AsideKnown, BadTyped, TroubleTyped DEF OpInv, TypeOK
<1>7. CASE EnsureBoard
  <2>1. UNCHANGED <<views, dash, boards, miles, about, active, grids, lock, tagged, epics, edits>>
    BY <1>7 DEF EnsureBoard, layout, items
  <2>2. CASE Over /\ bad' = bad
    BY <2>1, <2>2, OverKnown DEF OpInv, TypeOK
  <2>3. CASE Missed(boards > 0) /\ Goes("post", {}) /\ UNCHANGED <<cat, seen, edited>>
    <3>1. /\ pc = "board" /\ pc' = "post" /\ todo' = {} /\ bad' = bad /\ trouble' \in BOOLEAN
      BY <1>7, <2>3 DEF EnsureBoard, Goes, Missed, OpInv, TypeOK
    <3> QED BY <2>1, <2>3, <3>1, AsideKnown DEF OpInv, TypeOK, items
  <2> QED BY <1>7, <2>2, <2>3 DEF EnsureBoard
<1>8. CASE PostBoard
  <2>1. /\ Over /\ UNCHANGED <<views, dash, miles, about, active, lock, tagged, epics, edits>>
        /\ boards' \in Nat /\ grids' \in Nat
    BY <1>8 DEF PostBoard, OpInv, TypeOK, items
  <2>2. bad' \in 0..MaxBad
    BY <1>8, BadTyped DEF PostBoard, OpInv
  <2> QED BY <2>1, <2>2, OverKnown
<1> QED BY <1>1, <1>2, <1>3, <1>4, <1>5, <1>6, <1>7, <1>8

\* A view that is new has a number of its own.
LEMMA AddedKnown ==
  ASSUME OpInv, NEW s \in Name,
         views' = views \cup {[id |-> Fresh, project |-> "this", name |-> s]}
  PROVE  /\ views' \subseteq [id : Nat, project : {"this", "other"}, name : Name]
         /\ \A v, w \in views' : v.id = w.id => v = w
         /\ IsFiniteSet(views')
         /\ pc = "delete" => \A v \in views' : v.id \in todo => OwnView(v)
<1> DEFINE n == Fresh
           new == [id |-> n, project |-> "this", name |-> s]
<1>1. n \in Nat /\ (\A v \in views : v.id # n) /\ (pc = "delete" => n \notin todo)
  BY FreshIsNew DEF Ids
<1> HIDE DEF n
<1>2. new \in [id : Nat, project : {"this", "other"}, name : Name] /\ new.id = n
  BY <1>1
<1>3. views' = views \cup {new}
  BY DEF n
<1> HIDE DEF new
<1>4. IsFiniteSet(views')
  BY <1>3, FS_AddElement DEF OpInv
<1> QED BY <1>1, <1>2, <1>3, <1>4 DEF OpInv, TypeOK, LoopKnown

\* A view that is gone leaves the rest as it was.
LEMMA GoneKnown ==
  ASSUME OpInv, views' \subseteq views
  PROVE  /\ views' \subseteq [id : Nat, project : {"this", "other"}, name : Name]
         /\ \A v, w \in views' : v.id = w.id => v = w
         /\ IsFiniteSet(views')
         /\ pc = "delete" => \A v \in views' : v.id \in todo => OwnView(v)
<1>1. IsFiniteSet(views')
  BY FS_Subset DEF OpInv
<1> QED BY <1>1 DEF OpInv, TypeOK, LoopKnown

\* A step on the views, with the rest of the layout and the work packages as
\* they were.
LEMMA ViewsKnown ==
  ASSUME OpInv, UNCHANGED <<dash, boards, miles, about, active, grids, items, seen, edited, edits>>,
         views' \subseteq [id : Nat, project : {"this", "other"}, name : Name],
         \A v, w \in views' : v.id = w.id => v = w,
         IsFiniteSet(views'),
         pc \in {"queries", "delete", "create"}, pc' \in {"delete", "create", "dashboard"},
         pc' = "delete" => IsFiniteSet(todo') /\ \A v \in views' : v.id \in todo' => OwnView(v),
         pc' = "create" => todo' \subseteq Standard,
         pc' = "dashboard" => todo' = {}, cat' \in Nat,
         trouble' \in BOOLEAN, bad' \in 0..MaxBad
  PROVE  OpInv'
<1>1. UNCHANGED <<lock, tagged, epics>>
  BY DEF items
<1>2. TypeOK'
  BY <1>1 DEF OpInv, TypeOK
<1>3. LoopKnown' /\ ItemsKnown'
  BY <1>1 DEF OpInv, LoopKnown, ItemsKnown
<1> QED BY <1>2, <1>3 DEF OpInv

LEMMA QueriesKnown ==
  ASSUME OpInv, ListQueries \/ DeleteQuery \/ CreateQuery
  PROVE  OpInv'
<1>1. CASE ListQueries
  <2>1. /\ pc = "queries" /\ pc' = "delete" /\ todo' \in {Standing, {}}
        /\ bad' = bad \/ Refused
    BY <1>1 DEF ListQueries, Goes
  <2>2. UNCHANGED <<views, dash, boards, miles, about, active, grids, items, cat, seen, edited, edits>>
    BY <1>1 DEF ListQueries, layout
  <2>3. trouble' \in BOOLEAN
    BY <1>1 DEF ListQueries, Refused, OpInv, TypeOK
  <2>4. \A v \in views : v.id \in Standing => OwnView(v)
    BY DEF Standing, Listed, OwnView, OpInv, TypeOK
  <2>5. IsFiniteSet(Standing) /\ IsFiniteSet({})
    <3> DEFINE L == {v \in Listed : v.name \in Standard /\ v.project = "this"}
    <3>1. L \subseteq views
      BY DEF Listed
    <3>2. IsFiniteSet(L)
      BY <3>1, FS_Subset DEF OpInv
    <3> HIDE DEF L
    <3>3. IsFiniteSet({v.id : v \in L})
      BY <3>2, IdsFinite
    <3> QED BY <3>3, FS_EmptySet DEF Standing, L
  <2>6. bad' \in 0..MaxBad
    BY <2>1, BadTyped DEF OpInv
  <2> QED BY <2>1, <2>2, <2>3, <2>4, <2>5, <2>6, ViewsKnown DEF OpInv, TypeOK
<1>2. CASE DeleteQuery
  <2>1. /\ pc = "delete" /\ views' \subseteq views
        /\ UNCHANGED <<dash, boards, miles, about, active, grids, items, cat, seen, edited, edits>>
    BY <1>2 DEF DeleteQuery
  <2>2. \/ pc' = "create" /\ todo' = Standard
        \/ pc' = "delete" /\ todo' \in SUBSET todo
    BY <1>2 DEF DeleteQuery, Goes
  <2>3. trouble' \in BOOLEAN /\ bad' \in 0..MaxBad
    <3>1. Answered \/ Refused \/ (trouble' = trouble /\ bad' = bad)
      BY <1>2 DEF DeleteQuery
    <3> QED BY <3>1, BadTyped, TroubleTyped DEF OpInv, TypeOK
  <2>4. pc' = "delete" => IsFiniteSet(todo')
    BY <2>1, <2>2, FS_Subset DEF OpInv, LoopKnown
  <2> QED BY <2>1, <2>2, <2>3, <2>4, GoneKnown, ViewsKnown DEF OpInv, TypeOK
<1>3. CASE CreateQuery
  <2>1. /\ pc = "create" /\ todo \subseteq Standard
        /\ UNCHANGED <<dash, boards, miles, about, active, grids, items, seen, edited, edits>>
    BY <1>3 DEF CreateQuery, OpInv, LoopKnown
  <2>2. \/ pc' = "dashboard" /\ todo' = {}
        \/ pc' = "create" /\ todo' \subseteq Standard
    BY <1>3, <2>1 DEF CreateQuery, Goes
  <2>3. trouble' \in BOOLEAN /\ bad' \in 0..MaxBad
    <3>1. Answered \/ Refused \/ (trouble' = trouble /\ bad' = bad)
      BY <1>3 DEF CreateQuery
    <3> QED BY <3>1, BadTyped, TroubleTyped DEF OpInv, TypeOK
  <2>4. cat' \in Nat
    <3>1. cat' \in {cat, 0, Fresh}
      BY <1>3 DEF CreateQuery
    <3> QED BY <3>1, FreshIsNew DEF OpInv, TypeOK
  <2>5. \/ views' = views
        \/ \E s \in Name : views' = views \cup {[id |-> Fresh, project |-> "this", name |-> s]}
    BY <1>3, <2>1 DEF CreateQuery
  <2>6. /\ views' \subseteq [id : Nat, project : {"this", "other"}, name : Name]
        /\ \A v, w \in views' : v.id = w.id => v = w
        /\ IsFiniteSet(views')
    BY <2>5, AddedKnown, GoneKnown
  <2> QED BY <2>1, <2>2, <2>3, <2>4, <2>6, ViewsKnown
<1> QED BY <1>1, <1>2, <1>3

-----------------------------------------------------------------------------
(* op_build.py.                                                             *)

\* A step of op_build.py leaves the layout as it was.
LEMMA BuildKnown ==
  ASSUME OpInv, UNCHANGED <<layout, active, grids, cat, edits>>,
         pc' \in {"epic", "patch"}, todo' \subseteq Item,
         lock' \in [Item -> Nat], tagged' \subseteq Item, epics' \in Nat,
         seen' \in [Item -> Int], edited' = edited,
         trouble' \in BOOLEAN, bad' \in 0..MaxBad, ItemsKnown'
  PROVE  OpInv'
<1>1. UNCHANGED <<views, dash, boards, miles, about, active, grids, cat, edits>>
  BY DEF layout
<1>2. TypeOK'
  BY <1>1 DEF OpInv, TypeOK
<1>3. LoopKnown'
  BY DEF LoopKnown
<1> QED BY <1>1, <1>2, <1>3 DEF OpInv

LEMMA FetchKnown ==
  ASSUME OpInv, FetchItems
  PROVE  OpInv'
<1>1. /\ pc = "idle" /\ pc' \in {"epic", "patch"} /\ todo' \subseteq Item /\ Answered
      /\ epics > 0 /\ Cardinality(Item) < PageSize => pc' = "patch"
  BY DEF FetchItems, Goes
<1>2. PICK listed \in SUBSET Item :
        seen' = [i \in Item |-> IF i \in listed THEN lock[i] ELSE -1]
  BY DEF FetchItems
<1>3. UNCHANGED <<layout, active, grids, items, cat, edited, edits>>
  BY DEF FetchItems
<1>4. UNCHANGED <<lock, tagged, epics>>
  BY <1>3 DEF items
<1>5. lock \in [Item -> Nat] /\ epics \in Nat /\ tagged \subseteq Item
  BY DEF OpInv, TypeOK
<1>6. seen' \in [Item -> Int] /\ \A i \in Item : seen'[i] <= lock[i]
  BY <1>2, <1>5
<1>7. ItemsKnown'
  BY <1>1, <1>3, <1>4, <1>5, <1>6 DEF OpInv, ItemsKnown
<1> QED
  BY <1>1, <1>3, <1>4, <1>5, <1>6, <1>7, BuildKnown, BadTyped, TroubleTyped DEF OpInv

LEMMA EpicKnown ==
  ASSUME OpInv, CreateEpic
  PROVE  OpInv'
<1>1. /\ pc = "epic" /\ pc' = "patch" /\ todo' = todo /\ (Answered \/ Refused)
      /\ epics' \in {epics, epics + 1}
      /\ UNCHANGED <<layout, active, grids, lock, tagged, cat, seen, edited, edits>>
  BY DEF CreateEpic, Goes
<1>2. epics \in Nat /\ todo \subseteq Item /\ lock \in [Item -> Nat] /\ tagged \subseteq Item
      /\ seen \in [Item -> Int]
  BY <1>1 DEF OpInv, TypeOK, LoopKnown
<1>3. ItemsKnown'
  BY <1>1, <1>2 DEF OpInv, ItemsKnown
<1> QED BY <1>1, <1>2, <1>3, BuildKnown, BadTyped, TroubleTyped DEF OpInv

LEMMA PatchKnown ==
  ASSUME OpInv, PatchItem
  PROVE  OpInv'
<1>1. CASE todo = {} /\ Over /\ UNCHANGED <<lock, tagged, bad>>
  <2>1. UNCHANGED <<views, dash, boards, miles, about, active, grids, epics, edits>>
    BY DEF PatchItem, layout
  <2> QED BY <1>1, <2>1, OverKnown DEF OpInv, TypeOK
<1>2. CASE \E i \in todo : Patched(i) /\ Goes("patch", todo \ {i}) /\ UNCHANGED <<cat, seen, edited>>
  <2>1. PICK i \in todo :
          Patched(i) /\ Goes("patch", todo \ {i}) /\ UNCHANGED <<cat, seen, edited>>
    BY <1>2
  <2>2. pc = "patch" /\ todo \subseteq Item /\ UNCHANGED <<layout, active, grids, epics, edits>>
    BY DEF PatchItem, OpInv, LoopKnown
  <2>3. lock \in [Item -> Nat] /\ tagged \subseteq Item /\ epics \in Nat /\ seen \in [Item -> Int]
    BY DEF OpInv, TypeOK
  <2>4. /\ tagged' \subseteq Item /\ lock' \in [Item -> Nat]
        /\ \A j \in Item : lock'[j] >= lock[j]
    <3>1. i \in Item /\ tagged' \in {tagged, tagged \cup {i}}
      BY <2>1, <2>2 DEF Patched
    <3>2. lock' = lock \/ lock' = [lock EXCEPT ![i] = lock[i] + 1]
      BY <2>1 DEF Patched
    <3> QED BY <2>3, <3>1, <3>2
  <2>5. trouble' \in BOOLEAN /\ bad' \in 0..MaxBad
    <3>1. Answered \/ Refused \/ (trouble' = trouble /\ bad' = bad)
      BY <2>1 DEF Patched
    <3> QED BY <3>1, BadTyped, TroubleTyped DEF OpInv, TypeOK
  <2>6. ItemsKnown'
    BY <2>1, <2>2, <2>3, <2>4 DEF OpInv, ItemsKnown, Goes
  <2> QED BY <2>1, <2>2, <2>3, <2>4, <2>5, <2>6, BuildKnown DEF Goes
<1> QED BY <1>1, <1>2 DEF PatchItem

LEMMA StopsKnown ==
  ASSUME OpInv, Stops
  PROVE  OpInv'
<1>1. /\ Over /\ UNCHANGED <<views, dash, boards, miles, about, active, grids, lock, tagged, epics, edits>>
      /\ bad' \in 0..MaxBad
  BY BadTyped DEF Stops, layout, items, OpInv
<1> QED BY <1>1, OverKnown DEF OpInv, TypeOK

-----------------------------------------------------------------------------
(* People.                                                                  *)

LEMMA EditTyped ==
  ASSUME TypeOK, Edit
  PROVE  edits' \in 0..MaxEdits /\ trouble' \in BOOLEAN
BY DEF TypeOK, Edit

LEMMA PeopleKnown ==
  ASSUME OpInv, People
  PROVE  OpInv'
<1>1. CASE ChangeView
  <2>1. /\ Edit /\ UNCHANGED <<dash, boards, miles, about, active, grids, items, run, edited, bad>>
        /\ \/ views' \subseteq views
           \/ \E s \in Name : views' = views \cup {[id |-> Fresh, project |-> "this", name |-> s]}
    BY <1>1 DEF ChangeView
  <2>2. /\ views' \subseteq [id : Nat, project : {"this", "other"}, name : Name]
        /\ \A v, w \in views' : v.id = w.id => v = w
        /\ IsFiniteSet(views')
        /\ pc = "delete" => \A v \in views' : v.id \in todo => OwnView(v)
    BY <2>1, AddedKnown, GoneKnown
  <2>3. edits' \in 0..MaxEdits /\ trouble' \in BOOLEAN
    BY <2>1, EditTyped DEF OpInv
  <2>4. UNCHANGED <<lock, tagged, epics, pc, todo, cat, seen>>
    BY <2>1 DEF items, run
  <2>5. TypeOK'
    BY <2>1, <2>2, <2>3, <2>4 DEF OpInv, TypeOK
  <2>6. LoopKnown' /\ ItemsKnown'
    BY <2>1, <2>2, <2>4 DEF OpInv, LoopKnown, ItemsKnown
  <2> QED BY <2>2, <2>5, <2>6 DEF OpInv
<1>2. CASE AddGrid
  <2>1. /\ UNCHANGED <<views, dash, miles, about, active, items, run, edited, bad>>
        /\ grids' = grids + 1 /\ boards' \in {boards, boards + 1}
    BY <1>2 DEF AddGrid
  <2>2. UNCHANGED <<lock, tagged, epics, pc, todo, cat, seen>>
    BY <2>1 DEF items, run
  <2>3. edits' \in 0..MaxEdits /\ trouble' \in BOOLEAN
    BY <1>2, EditTyped DEF AddGrid, OpInv, TypeOK
  <2>4. TypeOK'
    BY <2>1, <2>2, <2>3 DEF OpInv, TypeOK
  <2>5. LoopKnown' /\ ItemsKnown'
    BY <2>1, <2>2 DEF OpInv, LoopKnown, ItemsKnown
  <2> QED BY <2>1, <2>4, <2>5 DEF OpInv
<1>3. CASE ChangeItem
  <2>1. /\ Edit /\ UNCHANGED <<views, dash, boards, miles, about, active, grids, epics, pc, todo, cat, seen, bad>>
    BY <1>3 DEF ChangeItem, layout, run
  <2>2. PICK i \in Item :
          /\ lock' = [lock EXCEPT ![i] = lock[i] + 1]
          /\ tagged' = tagged \ {i}
          /\ edited' = IF pc \in {"epic", "patch"} THEN edited \cup {i} ELSE {}
    BY <1>3 DEF ChangeItem
  <2>3. edits' \in 0..MaxEdits /\ trouble' \in BOOLEAN
    BY <2>1, EditTyped DEF OpInv
  <2>4. lock \in [Item -> Nat] /\ seen \in [Item -> Int] /\ edited \subseteq Item /\ tagged \subseteq Item
    BY DEF OpInv, TypeOK
  <2>5. lock' \in [Item -> Nat] /\ lock'[i] = lock[i] + 1 /\ \A j \in Item : lock'[j] >= lock[j]
    BY <2>2, <2>4
  <2>6. edited' \subseteq Item /\ tagged' \subseteq Item
    BY <2>2, <2>4
  <2>7. TypeOK'
    BY <2>1, <2>3, <2>5, <2>6 DEF OpInv, TypeOK
  <2>8. LoopKnown'
    BY <2>1 DEF OpInv, LoopKnown
  <2>9. ItemsKnown'
    <3>1. pc \notin {"epic", "patch"} => edited' = {}
      BY <2>2
    <3>2. \A j \in Item : seen[j] <= lock'[j] /\ (j \in edited' => seen[j] < lock'[j])
      BY <2>2, <2>4, <2>5 DEF OpInv, ItemsKnown
    <3> QED BY <2>1, <3>1, <3>2 DEF OpInv, ItemsKnown
  <2> QED BY <2>1, <2>7, <2>8, <2>9 DEF OpInv
<1>4. CASE Archive
  <2>1. /\ active' = ~active
        /\ UNCHANGED <<views, dash, boards, miles, about, grids, lock, tagged, epics, pc, todo, cat, seen, edited, bad>>
    BY <1>4 DEF Archive, layout, items, run
  <2>2. edits' \in 0..MaxEdits /\ trouble' \in BOOLEAN
    BY <1>4, EditTyped DEF Archive, OpInv, TypeOK
  <2>3. active' \in BOOLEAN
    BY <2>1
  <2>4. TypeOK'
    BY <2>1, <2>2, <2>3 DEF OpInv, TypeOK
  <2>5. LoopKnown' /\ ItemsKnown'
    BY <2>1 DEF OpInv, LoopKnown, ItemsKnown
  <2> QED BY <2>1, <2>4, <2>5 DEF OpInv
<1> QED BY <1>1, <1>2, <1>3, <1>4 DEF People

LEMMA OpInvKept == OpInv /\ [Next]_vars => OpInv'
<1> SUFFICES ASSUME OpInv, [Next]_vars PROVE OpInv'
  OBVIOUS
<1>1. CASE UNCHANGED vars
  <2>1. /\ UNCHANGED <<views, dash, boards, miles, about, active, grids, lock, tagged, epics>>
        /\ UNCHANGED <<pc, todo, cat, seen, trouble, edited, edits, bad>>
    BY <1>1 DEF vars, layout, items, run
  <2>2. TypeOK'
    BY <2>1 DEF OpInv, TypeOK
  <2>3. LoopKnown' /\ ItemsKnown'
    BY <2>1 DEF OpInv, LoopKnown, ItemsKnown
  <2> QED BY <2>1, <2>2, <2>3 DEF OpInv
<1>2. CASE Script
  BY <1>2, LayoutKnown, QueriesKnown, EpicKnown, PatchKnown DEF Script
<1> QED BY <1>1, <1>2, LayoutKnown, FetchKnown, StopsKnown, PeopleKnown DEF Next

LEMMA OpInvHolds == Spec => []OpInv
BY InitKnown, OpInvKept, PTL DEF Spec

-----------------------------------------------------------------------------
\* Type correctness, for any views, milestones and work packages; the number of a
\* new view is one that no other has.
THEOREM TypeCorrect == Spec => []TypeOK
<1>1. OpInv => TypeOK
  BY DEF OpInv
<1> QED BY <1>1, OpInvHolds, PTL

\* However often op_build.py is stopped and run again, there is one epic, as long
\* as one page holds the work packages.
THEOREM EpicOnce == Spec => []OneEpic
<1>1. OpInv => OneEpic
  BY DEF OpInv, ItemsKnown, OneEpic
<1> QED BY <1>1, OpInvHolds, PTL

\* op_provision.py takes away none but its own views, whatever people add, remove
\* or number meanwhile, and however many pages there are.
THEOREM OthersStay == Spec => OthersKept
<1> DEFINE Kept == edits' = edits =>
             \A v \in views \ views' : v.project = "this" /\ v.name \in Standard
<1>1. ASSUME OpInv, [Next]_vars PROVE Kept
  <2> SUFFICES ASSUME edits' = edits, NEW v \in views \ views'
               PROVE  OwnView(v)
    BY DEF OwnView
  <2>1. DeleteQuery
    <3>1. ~Edit
      BY <1>1 DEF Edit, OpInv, TypeOK
    <3> QED
      BY <1>1, <3>1 DEF Next, Script, People, vars, layout, Provision, SetProject, ListVersions,
         AddMilestone, ListQueries, CreateQuery, FindDashboard, ChangeDashboard,
         MakeDashboard, EnsureBoard, PostBoard, FetchItems, CreateEpic, PatchItem, Stops,
         ChangeView, AddGrid, ChangeItem, Archive
  <2>2. PICK n \in todo : views' = {w \in views : w.id # n}
    BY <2>1 DEF DeleteQuery
  <2>3. v.id = n /\ pc = "delete"
    BY <2>1, <2>2 DEF DeleteQuery
  <2> QED BY <1>1, <2>2, <2>3 DEF OpInv, LoopKnown
<1> QED BY <1>1, OpInvHolds, PTL DEF Spec, OthersKept

\* A work package that somebody changed after op_build.py had read it is not
\* patched: the lockVersion of the request is older than its own.
THEOREM EditsStay == Spec => EditsKept
<1> DEFINE Kept == edits' = edits => \A i \in edited : i \in tagged' => i \in tagged
<1>1. ASSUME OpInv, [Next]_vars PROVE Kept
  <2> SUFFICES ASSUME edits' = edits, NEW i \in edited, i \in tagged', i \notin tagged
               PROVE  FALSE
    OBVIOUS
  <2>1. PatchItem
    <3>1. ~Edit
      BY <1>1 DEF Edit, OpInv, TypeOK
    <3> QED
      BY <1>1, <3>1 DEF Next, Script, People, vars, items, Provision, SetProject, ListVersions,
         AddMilestone, ListQueries, DeleteQuery, CreateQuery, FindDashboard,
         ChangeDashboard, MakeDashboard, EnsureBoard, PostBoard, FetchItems, CreateEpic,
         Stops, ChangeView, AddGrid, ChangeItem, Archive
  <2>2. PICK j \in todo : Patched(j)
    BY <2>1 DEF PatchItem
  <2>3. tagged' = tagged \cup {j} /\ seen[j] = lock[j]
    BY <2>2 DEF Patched
  <2>4. i \in Item /\ seen[i] < lock[i] /\ seen[i] = lock[i]
    BY <1>1, <2>3 DEF OpInv, TypeOK, ItemsKnown
  <2>5. seen[i] \in Int /\ lock[i] \in Int
    BY <1>1, <2>4 DEF OpInv, TypeOK
  <2> QED BY <2>4, <2>5
<1> QED BY <1>1, OpInvHolds, PTL DEF Spec, EditsKept

-----------------------------------------------------------------------------
(* A run with nothing in its way.                                           *)

\* What the project has of the layout at each task, if no request failed, all
\* views are on one page and nobody was at work.
One(s) == \E v \in views : /\ v.project = "this" /\ v.name = s
                           /\ \A w \in views : w.project = "this" /\ w.name = s => w = v
None(s) == \A v \in views : ~(v.project = "this" /\ v.name = s)
Shown == [id |-> cat, project |-> "this", name |-> Category] \in views
Views == {"create", "dashboard", "change", "make", "board", "post"}
LaidOut ==
    ~trouble =>
      /\ pc \in {"versions", "milestones", "queries", "delete"} \cup Views => about
      /\ pc = "milestones" => Milestone \subseteq miles \cup todo
      /\ pc \in {"queries", "delete"} \cup Views => miles = Milestone
      /\ pc = "delete" => \A v \in views : OwnView(v) => v.id \in todo
      /\ pc \in Views => /\ \A s \in Standard : IF s \in todo THEN None(s) ELSE One(s)
                         /\ Category \notin todo => Shown
      /\ pc = "make" => dash = -1
      /\ pc \in {"board", "post"} => dash = cat
      /\ pc = "post" => boards = 0

\* Once a run has had trouble it stays so to its end, and people are trouble.
LEMMA TroubleStays ==
  ASSUME OpInv, [Next]_vars, ~trouble', pc' \notin {"idle", "epic", "patch"}
  PROVE  \/ UNCHANGED <<layout, pc, todo, cat, trouble>>
         \/ Provision
         \/ /\ ~trouble
            /\ \/ SetProject \/ ListVersions \/ AddMilestone \/ ListQueries \/ DeleteQuery
               \/ CreateQuery \/ FindDashboard \/ ChangeDashboard \/ MakeDashboard
               \/ EnsureBoard
<1>1. ~PostBoard /\ ~FetchItems /\ ~CreateEpic /\ ~PatchItem /\ ~Stops
  BY DEF PostBoard, FetchItems, CreateEpic, PatchItem, Stops, Over, Goes
<1>2. CASE People
  <2>1. ~ChangeView /\ ~ChangeItem /\ ~Archive
    BY DEF ChangeView, ChangeItem, Archive, Edit, run
  <2> QED BY <1>2, <2>1 DEF People, AddGrid, Edit, run, layout
<1>3. ASSUME trouble, ~Provision, ~People, ~UNCHANGED vars PROVE FALSE
  BY <1>1, <1>3 DEF Next, Script, SetProject, ListVersions, AddMilestone, ListQueries,
     DeleteQuery, CreateQuery, FindDashboard, ChangeDashboard, MakeDashboard, EnsureBoard,
     Answered, Refused, Missed, Over
<1>4. UNCHANGED vars => UNCHANGED <<layout, pc, todo, cat, trouble>>
  BY DEF vars, run
<1> QED BY <1>1, <1>2, <1>3, <1>4 DEF Next, Script

LEMMA LaidOutKept == OpInv /\ LaidOut /\ [Next]_vars => LaidOut'
<1> SUFFICES ASSUME OpInv, LaidOut, [Next]_vars, ~trouble' PROVE LaidOut'
  BY DEF LaidOut
<1>1. CASE pc' \in {"idle", "epic", "patch", "project"}
  BY <1>1 DEF LaidOut, Views
<1>2. CASE UNCHANGED <<layout, pc, todo, cat, trouble>>
  BY <1>2 DEF LaidOut, Views, layout, One, None, Shown
<1>3. CASE Provision
  BY <1>1, <1>3 DEF Provision, Goes
<1>4. CASE ~trouble /\ SetProject
  <2>1. pc' = "versions" /\ about'
    BY <1>4 DEF SetProject, Refused, Goes
  <2> QED BY <2>1 DEF LaidOut, Views
<1>5. CASE ~trouble /\ ListVersions
  <2>1. pc = "versions" /\ pc' = "milestones" /\ todo' = Milestone \ miles /\ UNCHANGED <<about, miles>>
    BY <1>5 DEF ListVersions, Refused, Goes, layout
  <2> QED BY <1>5, <2>1 DEF LaidOut, Views
<1>6. CASE ~trouble /\ AddMilestone
  <2>1. pc = "milestones" /\ about /\ Milestone \subseteq miles \cup todo /\ miles \subseteq Milestone
    BY <1>6 DEF AddMilestone, LaidOut, OpInv, TypeOK
  <2>2. UNCHANGED about
    BY <1>6 DEF AddMilestone
  <2>3. \/ pc' = "queries" /\ todo = {} /\ miles' = miles
        \/ \E m \in todo : pc' = "milestones" /\ todo' = todo \ {m} /\ miles' = miles \cup {m}
    BY <1>6 DEF AddMilestone, Refused, Goes
  <2> QED BY <2>1, <2>2, <2>3 DEF LaidOut, Views
<1>7. CASE ~trouble /\ ListQueries
  <2>1. /\ pc = "queries" /\ pc' = "delete" /\ todo' = Standing /\ views = Listed
        /\ UNCHANGED <<views, about, miles>>
    BY <1>7 DEF ListQueries, Refused, Goes, layout
  <2>2. \A v \in views : OwnView(v) => v.id \in Standing
    BY <2>1 DEF Standing, OwnView
  <2> QED BY <1>7, <2>1, <2>2 DEF LaidOut, Views
<1>8. CASE ~trouble /\ DeleteQuery
  <2>1. /\ pc = "delete" /\ about /\ miles = Milestone /\ UNCHANGED <<about, miles>>
        /\ \A v \in views : OwnView(v) => v.id \in todo
    BY <1>8 DEF DeleteQuery, LaidOut, Views
  <2>2. CASE todo = {} /\ pc' = "create" /\ todo' = Standard /\ views' = views
    <3>1. \A s \in Standard : None(s)'
      BY <2>1, <2>2 DEF None, OwnView
    <3> QED BY <2>1, <2>2, <3>1 DEF LaidOut, Views
  <2>3. CASE \E n \in todo : pc' = "delete" /\ todo' = todo \ {n} /\ views' = {v \in views : v.id # n}
    BY <2>1, <2>3 DEF LaidOut, Views
  <2> QED BY <1>8, <2>2, <2>3 DEF DeleteQuery, Refused, Goes
<1>9. CASE ~trouble /\ CreateQuery
  <2>1. /\ pc = "create" /\ about /\ miles = Milestone /\ UNCHANGED <<about, miles>>
        /\ \A s \in Standard : IF s \in todo THEN None(s) ELSE One(s)
        /\ Category \notin todo => Shown
        /\ todo \subseteq Standard
    BY <1>9 DEF CreateQuery, LaidOut, Views, OpInv, LoopKnown
  <2>2. CASE pc' = "dashboard" /\ todo = {} /\ todo' = {} /\ UNCHANGED <<views, cat>>
    <3>1. \A s \in Standard : One(s)'
      BY <2>1, <2>2 DEF One
    <3>2. Shown'
      BY <2>1, <2>2 DEF Shown
    <3> QED BY <2>1, <2>2, <3>1, <3>2 DEF LaidOut, Views
  <2>3. ASSUME NEW s \in todo, Category \in todo => s = Category,
               pc' = "create", todo' = todo \ {s},
               views' = views \cup {[id |-> Fresh, project |-> "this", name |-> s]},
               cat' = IF s = Category THEN Fresh ELSE cat
        PROVE  LaidOut'
    <3> DEFINE n == Fresh
               new == [id |-> n, project |-> "this", name |-> s]
    <3>1. new.project = "this" /\ new.name = s /\ new \in views' /\ views' = views \cup {new}
      BY <2>3
    <3>2. s = Category => Shown'
      BY <2>3 DEF Shown
    <3>3. s # Category => Shown'
      BY <2>1, <2>3 DEF Shown
    <3> HIDE DEF n, new
    <3>4. One(s)'
      BY <2>1, <3>1 DEF One, None
    <3>5. ASSUME NEW r \in Standard, r # s PROVE IF r \in todo' THEN None(r)' ELSE One(r)'
      <4>1. CASE r \in todo
        BY <2>1, <2>3, <3>1, <3>5, <4>1 DEF None
      <4>2. CASE r \notin todo
        BY <2>1, <2>3, <3>1, <3>5, <4>2 DEF One
      <4> QED BY <4>1, <4>2
    <3> QED BY <2>1, <2>3, <3>2, <3>3, <3>4, <3>5 DEF LaidOut, Views
  <2> QED BY <1>9, <2>2, <2>3 DEF CreateQuery, Refused, Goes
<1>10. CASE /\ ~trouble /\ pc' # "idle"
            /\ FindDashboard \/ ChangeDashboard \/ MakeDashboard \/ EnsureBoard
  <2>1. /\ pc \in {"dashboard", "change", "make", "board"} /\ pc' \in {"change", "make", "board", "post"}
        /\ todo = {} /\ todo' = todo /\ UNCHANGED <<about, miles, views, cat>>
    BY <1>10 DEF FindDashboard, ChangeDashboard, MakeDashboard, EnsureBoard, Over, Goes,
       layout, OpInv, TypeOK
  <2>2. /\ about /\ miles = Milestone /\ Shown
        /\ \A s \in Standard : IF s \in todo THEN None(s) ELSE One(s)
    BY <1>10, <2>1 DEF LaidOut, Views
  <2>3. /\ pc' = "make" => dash' = -1
        /\ pc' \in {"board", "post"} => dash' = cat'
        /\ pc' = "post" => boards' = 0
    <3>1. CASE FindDashboard
      BY <3>1 DEF FindDashboard, Missed, Goes, layout
    <3>2. CASE ChangeDashboard
      BY <3>2 DEF ChangeDashboard, Refused, Goes
    <3>3. CASE MakeDashboard
      BY <1>10, <3>3 DEF MakeDashboard, Refused, Goes, LaidOut
    <3>4. CASE EnsureBoard
      <4>1. pc = "board" /\ UNCHANGED <<dash, cat, boards>> /\ pc' = "post" /\ ~(boards > 0)
        BY <1>10, <3>4 DEF EnsureBoard, Missed, Goes, Over, layout
      <4>2. boards \in Nat
        BY DEF OpInv, TypeOK
      <4> QED BY <1>10, <4>1, <4>2 DEF LaidOut
    <3> QED BY <1>10, <3>1, <3>2, <3>3, <3>4
  <2> QED BY <2>1, <2>2, <2>3 DEF LaidOut, Views, One, None, Shown
<1> QED BY <1>1, <1>2, <1>3, <1>4, <1>5, <1>6, <1>7, <1>8, <1>9, <1>10, TroubleStays

\* A run of op_provision.py none of whose requests fails, with nobody at work in the
\* project, all views on one page and all grids on one, ends in the standard layout and
\* adds no board to one that is there: whatever runs that were cut off, refused or in
\* trouble, and people, left before it.
THEOREM RunsLayOut == Spec => RunLaysOut
<1> DEFINE Laid == (pc = "board" \/ pc = "post") /\ pc' = "idle" /\ ~trouble /\ active /\ bad' = bad
                     => /\ Layout'
                        /\ boards > 0 => boards' = boards
<1>1. Init => LaidOut
  BY DEF Init, LaidOut, Views
<1>2. ASSUME OpInv, LaidOut, [Next]_vars PROVE Laid
  <2> SUFFICES ASSUME pc \in {"board", "post"}, pc' = "idle", ~trouble, active, bad' = bad
               PROVE  Layout' /\ (boards > 0 => boards' = boards)
    OBVIOUS
  <2>1. ~Bad
    BY <1>2 DEF Bad, OpInv, TypeOK
  <2>2. EnsureBoard \/ PostBoard
    BY <1>2, <2>1 DEF Next, Script, People, vars, run, Stops, ChangeView, AddGrid, ChangeItem,
       Archive, Provision, FetchItems, SetProject, ListVersions, AddMilestone, ListQueries,
       DeleteQuery, CreateQuery, FindDashboard, ChangeDashboard, MakeDashboard, CreateEpic,
       PatchItem
  <2>3. /\ boards' > 0 /\ (boards > 0 => boards' = boards)
        /\ UNCHANGED <<views, dash, miles, about>>
    <3>1. CASE EnsureBoard
      BY <3>1 DEF EnsureBoard, Goes, layout
    <3>2. CASE PostBoard
      <4>1. pc = "post" /\ boards = 0
        BY <1>2, <3>2 DEF PostBoard, LaidOut
      <4> QED BY <2>1, <3>2, <4>1 DEF PostBoard
    <3> QED BY <2>2, <3>1, <3>2
  <2>4. /\ about /\ miles = Milestone /\ dash = cat /\ Shown /\ todo = {}
        /\ \A s \in Standard : One(s)
    BY <1>2 DEF LaidOut, Views, OpInv, TypeOK
  <2>5. ASSUME NEW s \in Standard
        PROVE  Cardinality({v \in views : v.project = "this" /\ v.name = s}) = 1
    <3>1. PICK v \in views : /\ v.project = "this" /\ v.name = s
                             /\ \A w \in views : w.project = "this" /\ w.name = s => w = v
      BY <2>4 DEF One
    <3>2. {w \in views : w.project = "this" /\ w.name = s} = {v}
      BY <3>1
    <3> QED BY <3>2, FS_Singleton
  <2> QED BY <2>3, <2>4, <2>5 DEF Layout, Shown
<1> QED BY <1>1, <1>2, OpInvHolds, LaidOutKept, PTL DEF Spec, RunLaysOut

-----------------------------------------------------------------------------
(* How long a run takes: the part of Repaired that needs no fairness.        *)

\* The most requests and steps that either script can still make.
StepsLeft ==
    LET rest == PageSize + Cardinality(Standard) + 7 IN
    CASE pc = "project" -> Cardinality(Milestone) + rest + 3
      [] pc = "versions" -> Cardinality(Milestone) + rest + 2
      [] pc = "milestones" -> Cardinality(todo) + rest + 1
      [] pc = "queries" -> rest
      [] pc = "delete" -> Cardinality(todo) + Cardinality(Standard) + 6
      [] pc = "create" -> Cardinality(todo) + 5
      [] pc = "dashboard" -> 4
      [] pc \in {"change", "make"} -> 3
      [] pc = "board" -> 2
      [] pc = "post" -> 1
      [] pc = "epic" -> Cardinality(todo) + 2
      [] pc = "patch" -> Cardinality(todo) + 1
      [] OTHER -> 0

Longest == Cardinality(Milestone) + PageSize + Cardinality(Standard) + Cardinality(Item) + 10
AllFinite == IsFiniteSet(Standard) /\ IsFiniteSet(Milestone) /\ IsFiniteSet(Item)

\* A page holds no more than fits on it, as no two views have one number.
LEMMA PageIsFull ==
  ASSUME NEW S, IsFiniteSet(S), \A v \in S : v.id \in Nat, \A v, w \in S : v.id = w.id => v = w
  PROVE  LET L == {v \in S : Cardinality({w \in S : w.id < v.id}) < PageSize}
         IN  IsFiniteSet(L) /\ Cardinality(L) \in Nat /\ Cardinality(L) <= PageSize
<1> DEFINE Before(v) == {w \in S : w.id < v.id}
           L == {v \in S : Cardinality(Before(v)) < PageSize}
           rank == [v \in L |-> Cardinality(Before(v))]
           page == 0..(PageSize - 1)
<1>1. IsFiniteSet(L)
  <2>1. L \in SUBSET S
    OBVIOUS
  <2> QED BY <2>1, FS_Subset
<1>2. ASSUME NEW v \in S
      PROVE  IsFiniteSet(Before(v)) /\ Cardinality(Before(v)) \in Nat
  <2>1. Before(v) \in SUBSET S
    OBVIOUS
  <2> HIDE DEF Before
  <2> QED BY <2>1, FS_Subset, FS_CardinalityType
<1>3. ASSUME NEW v \in S, NEW w \in S, v.id < w.id
      PROVE  Cardinality(Before(v)) < Cardinality(Before(w))
  <2>1. \A x \in S : x.id < v.id => x.id < w.id
    BY <1>3
  <2>2. Before(v) \subseteq Before(w) /\ v \in Before(w) /\ v \notin Before(v)
    BY <1>3, <2>1
  <2> HIDE DEF Before
  <2>3. /\ Cardinality(Before(v)) <= Cardinality(Before(w))
        /\ Cardinality(Before(v)) # Cardinality(Before(w))
    BY <1>2, <2>2, FS_Subset
  <2> QED BY <1>2, <2>3
<1>4. rank \in [L -> page]
  <2>1. \A v \in L : v \in S /\ Cardinality(Before(v)) < PageSize
    OBVIOUS
  <2>2. ASSUME NEW n \in Nat, n < PageSize PROVE n \in page
    BY <2>2
  <2> HIDE DEF Before, page, L
  <2>3. \A v \in L : Cardinality(Before(v)) \in page
    BY <1>2, <2>1, <2>2
  <2> QED BY <2>3
<1>5. \A v, w \in L : rank[v] = rank[w] => v = w
  <2> SUFFICES ASSUME NEW v \in L, NEW w \in L, rank[v] = rank[w] PROVE v.id = w.id
    OBVIOUS
  <2>1. v \in S /\ w \in S /\ Cardinality(Before(v)) = Cardinality(Before(w))
    OBVIOUS
  <2> HIDE DEF Before, L, rank
  <2>2. Cardinality(Before(v)) \in Nat /\ v.id \in Nat /\ w.id \in Nat
    BY <1>2, <2>1
  <2>3. ~(v.id < w.id) /\ ~(w.id < v.id)
    BY <1>3, <2>1, <2>2
  <2> QED BY <2>2, <2>3
<1>6. IsFiniteSet(page) /\ Cardinality(page) = PageSize
  <2>1. PageSize - 1 \in Int /\ 0 \in Int /\ PageSize \in Nat
    OBVIOUS
  <2>2. /\ IsFiniteSet(0..(PageSize - 1))
        /\ Cardinality(0..(PageSize - 1)) = IF 0 > PageSize - 1 THEN 0 ELSE PageSize - 1 - 0 + 1
    BY <2>1, FS_Interval
  <2> QED BY <2>1, <2>2
<1> HIDE DEF rank, page
<1>7. rank \in Injection(L, page)
  <2> HIDE DEF L
  <2>1. \A v, w \in DOMAIN rank : rank[v] = rank[w] => v = w
    BY <1>4, <1>5
  <2> QED BY <1>4, <2>1 DEF Injection, IsInjective
<1>8. Cardinality(L) <= PageSize /\ Cardinality(L) \in Nat
  <2> HIDE DEF L
  <2> QED BY <1>1, <1>6, <1>7, FS_Injection, FS_CardinalityType
<1> QED BY <1>1, <1>8

\* So a run deletes no more views than one page holds.
LEMMA StandingBound ==
  ASSUME OpInv
  PROVE  IsFiniteSet(Standing) /\ Cardinality(Standing) \in Nat /\ Cardinality(Standing) <= PageSize
<1> DEFINE L == {v \in Listed : v.name \in Standard /\ v.project = "this"}
           f == [v \in L |-> v.id]
<1>1. IsFiniteSet(Listed) /\ Cardinality(Listed) \in Nat /\ Cardinality(Listed) <= PageSize
  BY PageIsFull DEF OpInv, TypeOK, Listed
<1>2. IsFiniteSet(L) /\ Cardinality(L) \in Nat /\ Cardinality(L) <= Cardinality(Listed)
  <2>1. L \in SUBSET Listed
    OBVIOUS
  <2> HIDE DEF L
  <2> QED BY <1>1, <2>1, FS_Subset, FS_CardinalityType
<1>3. f \in Surjection(L, Standing)
  BY DEF Surjection, Standing
<1>4. IsFiniteSet(Standing) /\ Cardinality(Standing) <= Cardinality(L)
  <2> HIDE DEF f, L
  <2> QED BY <1>2, <1>3, FS_Surjection
<1> HIDE DEF L
<1> QED BY <1>1, <1>2, <1>4, FS_CardinalityType

LEMMA LoopCounted ==
  ASSUME OpInv, AllFinite
  PROVE  /\ IsFiniteSet(todo) /\ Cardinality(todo) \in Nat
         /\ \A x \in todo : Cardinality(todo \ {x}) = Cardinality(todo) - 1
         /\ todo = {} => Cardinality(todo) = 0
<1>1. IsFiniteSet(todo)
  <2>1. CASE pc \in {"milestones", "create", "epic", "patch"}
    BY <2>1, FS_Subset DEF AllFinite, OpInv, LoopKnown
  <2>2. CASE pc = "delete"
    BY <2>2 DEF OpInv, LoopKnown
  <2>3. CASE pc \in Single \cup {"idle"}
    BY <2>3, FS_EmptySet DEF OpInv, TypeOK
  <2>4. pc \in Steps \cup {"idle"}
    BY DEF OpInv, TypeOK
  <2> QED BY <2>1, <2>2, <2>3, <2>4
<1>2. Cardinality(todo) \in Nat
  BY <1>1, FS_CardinalityType
<1>3. ASSUME NEW x \in todo PROVE Cardinality(todo \ {x}) = Cardinality(todo) - 1
  BY <1>1, FS_RemoveElement
<1>4. todo = {} => Cardinality(todo) = 0
  BY FS_EmptySet
<1> QED BY <1>1, <1>2, <1>3, <1>4

LEMMA ConstantsCounted ==
  ASSUME AllFinite
  PROVE  /\ Cardinality(Standard) \in Nat /\ Cardinality(Milestone) \in Nat
         /\ Cardinality(Item) \in Nat
         /\ \A S \in SUBSET Milestone : Cardinality(S) \in Nat /\ Cardinality(S) <= Cardinality(Milestone)
         /\ \A S \in SUBSET Item : Cardinality(S) \in Nat /\ Cardinality(S) <= Cardinality(Item)
<1>1. /\ Cardinality(Standard) \in Nat /\ Cardinality(Milestone) \in Nat /\ Cardinality(Item) \in Nat
  BY FS_CardinalityType DEF AllFinite
<1>2. ASSUME NEW S \in SUBSET Milestone
      PROVE  Cardinality(S) \in Nat /\ Cardinality(S) <= Cardinality(Milestone)
  BY FS_Subset, FS_CardinalityType DEF AllFinite
<1>3. ASSUME NEW S \in SUBSET Item
      PROVE  Cardinality(S) \in Nat /\ Cardinality(S) <= Cardinality(Item)
  BY FS_Subset, FS_CardinalityType DEF AllFinite
<1> QED BY <1>1, <1>2, <1>3

LEMMA ScriptNearer ==
  ASSUME OpInv, OpInv', AllFinite, Script \/ Stops
  PROVE  StepsLeft' < StepsLeft
<1> USE LoopCounted, ConstantsCounted DEF Goes
<1>1. Cardinality(todo) \in Nat
  OBVIOUS
<1>2. CASE SetProject
  BY <1>2 DEF SetProject, StepsLeft
<1>3. CASE ListVersions
  <2>1. todo' \in SUBSET Milestone /\ pc = "versions" /\ pc' = "milestones"
    BY <1>3 DEF ListVersions
  <2>2. Cardinality(todo') \in Nat /\ Cardinality(todo') <= Cardinality(Milestone)
    BY <2>1
  <2> QED BY <2>1, <2>2 DEF StepsLeft
<1>4. CASE AddMilestone
  <2>1. CASE todo = {} /\ Goes("queries", {})
    BY <1>4, <2>1 DEF AddMilestone, StepsLeft
  <2>2. ASSUME NEW m \in todo, Goes("milestones", todo \ {m}) PROVE StepsLeft' < StepsLeft
    BY <1>4, <2>2 DEF AddMilestone, StepsLeft
  <2> QED BY <1>4, <2>1, <2>2 DEF AddMilestone
<1>5. CASE ListQueries
  <2>1. pc = "queries" /\ pc' = "delete" /\ todo' \in {Standing, {}}
    BY <1>5 DEF ListQueries
  <2>2. Cardinality(todo') \in Nat /\ Cardinality(todo') <= PageSize
    <3>1. Cardinality({}) = 0
      BY FS_EmptySet
    <3>2. Cardinality(Standing) \in Nat /\ Cardinality(Standing) <= PageSize
      BY StandingBound
    <3>3. CASE todo' = Standing
      <4> HIDE LoopCounted, ConstantsCounted
      <4> QED BY <3>2, <3>3
    <3>4. CASE todo' = {}
      <4> HIDE LoopCounted, ConstantsCounted
      <4> QED BY <3>1, <3>4
    <3> QED BY <2>1, <3>3, <3>4
  <2> QED BY <2>1, <2>2 DEF StepsLeft
<1>6. CASE DeleteQuery
  <2>1. CASE todo = {} /\ Goes("create", Standard)
    BY <1>6, <2>1 DEF DeleteQuery, StepsLeft
  <2>2. ASSUME NEW n \in todo, Goes("delete", todo \ {n}) PROVE StepsLeft' < StepsLeft
    BY <1>6, <2>2 DEF DeleteQuery, StepsLeft
  <2> QED BY <1>6, <2>1, <2>2 DEF DeleteQuery
<1>7. CASE CreateQuery
  <2>1. CASE todo = {} /\ Goes("dashboard", {})
    BY <1>7, <2>1 DEF CreateQuery, StepsLeft
  <2>2. ASSUME NEW n \in todo, Goes("create", todo \ {n}) PROVE StepsLeft' < StepsLeft
    BY <1>7, <2>2 DEF CreateQuery, StepsLeft
  <2> QED BY <1>7, <2>1, <2>2 DEF CreateQuery
<1>8. CASE FindDashboard \/ ChangeDashboard \/ MakeDashboard \/ EnsureBoard \/ PostBoard
  BY <1>8 DEF FindDashboard, ChangeDashboard, MakeDashboard, EnsureBoard, PostBoard, Missed, Over,
     StepsLeft
<1>9. CASE CreateEpic
  BY <1>9 DEF CreateEpic, StepsLeft
<1>10. CASE PatchItem
  <2>1. CASE todo = {} /\ Over
    BY <1>10, <2>1 DEF PatchItem, Over, StepsLeft
  <2>2. ASSUME NEW i \in todo, Goes("patch", todo \ {i}) PROVE StepsLeft' < StepsLeft
    BY <1>10, <2>2 DEF PatchItem, StepsLeft
  <2> QED BY <1>10, <2>1, <2>2 DEF PatchItem
<1>11. CASE Stops
  <2>1. pc \in Steps /\ pc' = "idle"
    BY <1>11 DEF Stops, Over, OpInv, TypeOK
  <2>2. StepsLeft > 0
    BY <1>1, <2>1 DEF StepsLeft
  <2>3. StepsLeft' = 0
    BY <2>1 DEF StepsLeft
  <2> QED BY <2>2, <2>3
<1> QED BY <1>2, <1>3, <1>4, <1>5, <1>6, <1>7, <1>8, <1>9, <1>10, <1>11 DEF Script

\* A run begins with no more steps than there are milestones, views of one page,
\* standard views and work packages.
LEMMA StartBound ==
  ASSUME OpInv, AllFinite, Provision \/ FetchItems
  PROVE  StepsLeft' <= Longest
<1> USE ConstantsCounted DEF Goes
<1>1. CASE Provision
  BY <1>1 DEF Provision, StepsLeft, Longest
<1>2. CASE FetchItems
  <2>1. todo' \in SUBSET Item /\ pc' \in {"epic", "patch"}
    BY <1>2 DEF FetchItems
  <2>2. Cardinality(todo') \in Nat /\ Cardinality(todo') <= Cardinality(Item)
    BY <2>1
  <2> QED BY <2>1, <2>2 DEF StepsLeft, Longest
<1> QED BY <1>1, <1>2

\* A run of either script comes to its end by itself: it has no more steps than
\* Longest, each it takes leaves fewer, and neither people at work in the project nor
\* requests that are refused give it one more.
THEOREM RunsEnd ==
  ASSUME AllFinite
  PROVE  Spec => /\ [](StepsLeft <= Longest)
                 /\ [][/\ Script \/ Stops => StepsLeft' < StepsLeft /\ StepsLeft' >= 0
                       /\ People => StepsLeft' = StepsLeft]_vars
<1> DEFINE Short == StepsLeft <= Longest
           Nearer == /\ Script \/ Stops => StepsLeft' < StepsLeft /\ StepsLeft' >= 0
                     /\ People => StepsLeft' = StepsLeft
<1>1. Init => Short
  BY ConstantsCounted DEF Init, StepsLeft, Longest
<1>2. ASSUME OpInv PROVE StepsLeft \in Nat
  BY <1>2, LoopCounted, ConstantsCounted DEF StepsLeft
<1>3. ASSUME OpInv, OpInv' PROVE StepsLeft' \in Nat
  <2>1. IsFiniteSet(todo')
    <3>1. CASE pc' \in {"milestones", "create", "epic", "patch"}
      BY <1>3, <3>1, FS_Subset DEF AllFinite, OpInv, LoopKnown
    <3>2. CASE pc' = "delete"
      BY <1>3, <3>2 DEF OpInv, LoopKnown
    <3>3. CASE pc' \in Single \cup {"idle"}
      BY <1>3, <3>3, FS_EmptySet DEF OpInv, TypeOK
    <3>4. pc' \in Steps \cup {"idle"}
      BY <1>3 DEF OpInv, TypeOK
    <3> QED BY <3>1, <3>2, <3>3, <3>4
  <2>2. Cardinality(todo') \in Nat
    BY <2>1, FS_CardinalityType
  <2> QED BY <2>2, ConstantsCounted DEF StepsLeft
<1>4. ASSUME OpInv, OpInv', [Next]_vars PROVE Nearer
  <2>1. ASSUME People PROVE StepsLeft' = StepsLeft
    BY <2>1 DEF People, ChangeView, AddGrid, ChangeItem, Archive, run, StepsLeft
  <2> QED BY <1>3, <1>4, <2>1, ScriptNearer
<1>5. ASSUME OpInv, OpInv', [Next]_vars, Short PROVE Short'
  <2>1. Longest \in Nat /\ StepsLeft \in Nat /\ StepsLeft' \in Nat /\ Longest' = Longest
    BY <1>2, <1>3, <1>5, ConstantsCounted DEF Longest
  <2>2. CASE UNCHANGED vars
    BY <1>5, <2>2 DEF vars, run, StepsLeft, Longest
  <2> QED BY <1>4, <1>5, <2>1, <2>2, StartBound DEF Next
<1> QED BY <1>1, <1>4, <1>5, OpInvHolds, PTL DEF Spec
=============================================================================
