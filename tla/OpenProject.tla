----------------------------- MODULE OpenProject -----------------------------
(***************************************************************************)
(* scripts/openproject: op_provision.py gives a project its views,         *)
(* dashboard, board and milestones over OpenProject's API; op_build.py     *)
(* tags and retypes its work packages.  A request that is refused is       *)
(* printed and passed over, a connection that breaks ends the script, and  *)
(* people work in the project meanwhile.  One script at a time.            *)
(***************************************************************************)
EXTENDS Integers, FiniteSets

CONSTANTS
    Standard,    \* STANDARD_QUERIES, by name
    Category,    \* the one the dashboard shows
    Own,         \* the name of a view that somebody made
    Milestone,   \* those of the project's configuration
    Item,        \* the work packages of CAT, by number
    PageSize,    \* how many views or work packages a list request returns
    GridPage,    \* how many grids: the dashboards and boards of all projects
    MaxGrids,    \* grids with which op_provision.py is still started
    MaxViews,    \* views with which people still add one, and start op_provision.py
    MaxEdits,    \* what people do
    MaxBad       \* requests refused, and connections broken

ASSUME ProjectTyped ==
    /\ Category \in Standard /\ Own \notin Standard
    /\ Item \subseteq Nat /\ PageSize \in Nat /\ GridPage \in Nat
    /\ MaxGrids \in Nat /\ MaxViews \in Nat /\ MaxEdits \in Nat /\ MaxBad \in Nat

Name == Standard \cup {Own}
Epic == "Kubernetes migration"

VARIABLES
    views,     \* the saved views: number, project, name
    dash,      \* the view on the dashboard, 0 for none there is, -1 for no dashboard
    boards,    \* how many boards named Active Work
    grids,     \* how many grids in all projects
    miles,     \* the milestones
    about,     \* whether description and status are the configured ones
    active,    \* whether the project is not archived
    lock,      \* lock[i]: lockVersion
    tagged,    \* the items with the category, type and parent of the script
    epics,     \* how many epics named Epic
    pc,        \* the script: "idle", or what it does next
    todo,      \* what is left of the loop it is in
    cat,       \* cat_qid
    seen,      \* seen[i]: the lockVersion of the bulk fetch
    trouble,   \* whether this run had a request refused, missed what a page did not hold, or
               \* had somebody at work in the project (history)
    edited,    \* the items people changed since the bulk fetch (history)
    edits, bad

layout == <<views, dash, boards, miles, about>>
items == <<lock, tagged, epics>>
run == <<pc, todo, cat, seen>>
vars == <<layout, active, grids, items, run, trouble, edited, edits, bad>>

Steps == {"project", "versions", "milestones", "queries", "delete", "create", "dashboard",
          "change", "make", "board", "post", "epic", "patch"}
Single == {"project", "versions", "queries", "dashboard", "change", "make", "board", "post"}

TypeOK ==
    /\ views \subseteq [id : Nat, project : {"this", "other"}, name : Name]
    /\ \A v, w \in views : v.id = w.id => v = w
    /\ dash \in Int /\ boards \in Nat /\ grids \in Nat /\ miles \subseteq Milestone
    /\ about \in BOOLEAN /\ active \in BOOLEAN
    /\ lock \in [Item -> Nat] /\ tagged \subseteq Item /\ epics \in Nat
    /\ pc \in Steps \cup {"idle"} /\ cat \in Nat /\ seen \in [Item -> Int]
    /\ pc \in Single \cup {"idle"} => todo = {}
    /\ trouble \in BOOLEAN /\ edited \subseteq Item
    /\ edits \in 0..MaxEdits /\ bad \in 0..MaxBad

Init ==
    /\ views = {[id |-> 1, project |-> "other", name |-> Category],
                [id |-> 2, project |-> "this", name |-> Own]}
    /\ dash \in {-1, 2} /\ boards = 0 /\ grids = (IF dash = -1 THEN 0 ELSE 1)
    /\ miles = {} /\ about = FALSE /\ active = TRUE
    /\ lock = [i \in Item |-> 0] /\ tagged = {} /\ epics = 0
    /\ pc = "idle" /\ todo = {} /\ cat = 0 /\ seen = [i \in Item |-> -1]
    /\ trouble = FALSE /\ edited = {} /\ edits = 0 /\ bad = 0

\* A request is answered, or refused: an archived project refuses all.
Answered == active /\ UNCHANGED <<trouble, bad>>
Bad == bad < MaxBad /\ bad' = bad + 1
Refused == trouble' = TRUE /\ IF active THEN Bad ELSE bad' = bad

\* The script is over, and its memory gone.
Over ==
    /\ pc' = "idle" /\ todo' = {} /\ cat' = 0 /\ seen' = [i \in Item |-> -1]
    /\ trouble' = FALSE /\ edited' = {}

Goes(step, loop) == pc' = step /\ todo' = loop
Ids == {v.id : v \in views}
Fresh ==
    LET taken == Ids \cup {dash, cat} \cup (IF pc = "delete" THEN todo ELSE {})
    IN  CHOOSE n \in 1..(Cardinality(taken) + 1) : n \notin taken

-----------------------------------------------------------------------------
(* op_provision.py.                                                         *)

\* provision: an archived project is left alone; one that cannot be read is not.
Provision ==
    /\ pc = "idle" /\ Cardinality(views) <= MaxViews /\ grids <= MaxGrids
    /\ \/ Answered
       \/ Refused
    /\ Goes("project", {})
    /\ UNCHANGED <<layout, active, grids, items, cat, seen, edited, edits>>

SetProject ==
    /\ pc = "project"
    /\ \/ Answered /\ about' = TRUE
       \/ Refused /\ UNCHANGED about
    /\ Goes("versions", {})
    /\ UNCHANGED <<views, dash, boards, miles, active, grids, items, cat, seen, edited, edits>>

\* ensure_milestones: what cannot be listed is taken for not there.
ListVersions ==
    /\ pc = "versions"
    /\ \/ Answered /\ Goes("milestones", Milestone \ miles)
       \/ Refused /\ Goes("milestones", Milestone)
    /\ UNCHANGED <<layout, active, grids, items, cat, seen, edited, edits>>

\* A slip in AddMilestone: one that is refused ends the loop.
AddMilestone_Gives ==
    /\ pc = "milestones"
    /\ \/ /\ todo = {} /\ Goes("queries", {}) /\ UNCHANGED <<miles, trouble, bad>>
       \/ \E m \in todo :
            \/ /\ Goes("milestones", todo \ {m})
               /\ m \notin miles /\ Answered /\ miles' = miles \cup {m}
            \/ Goes("queries", todo) /\ Refused /\ UNCHANGED miles
    /\ UNCHANGED <<views, dash, boards, about, active, grids, items, cat, seen, edited, edits>>

\* A second milestone of the same name is refused.
AddMilestone ==
    /\ pc = "milestones"
    /\ \/ /\ todo = {} /\ Goes("queries", {}) /\ UNCHANGED <<miles, trouble, bad>>
       \/ \E m \in todo :
            /\ Goes("milestones", todo \ {m})
            /\ \/ m \notin miles /\ Answered /\ miles' = miles \cup {m}
               \/ m \in miles /\ trouble' = TRUE /\ UNCHANGED <<miles, bad>>
               \/ Refused /\ UNCHANGED miles
    /\ UNCHANGED <<views, dash, boards, about, active, grids, items, cat, seen, edited, edits>>

Listed == {v \in views : Cardinality({w \in views : w.id < v.id}) < PageSize}

\* A slip in Standing: views are matched by name alone.
Standing_ByName == {v.id : v \in {v \in Listed : v.name \in Standard}}

\* A slip in Standing: the project's name is compared with the number in the link.
Standing_ByIdentifier == {v.id : v \in {v \in Listed : v.name \in Standard /\ v.project = "bezaforge"}}

Standing == {v.id : v \in {v \in Listed : v.name \in Standard /\ v.project = "this"}}

\* ensure_queries: the number of the project and the views, either of which may
\* not be had, and then nothing is there to delete.
ListQueries ==
    /\ pc = "queries"
    /\ \/ /\ active /\ bad' = bad /\ trouble' = (trouble \/ views # Listed)
          /\ Goes("delete", Standing)
       \/ Refused /\ Goes("delete", {})
    /\ UNCHANGED <<layout, active, grids, items, cat, seen, edited, edits>>

DeleteQuery ==
    /\ pc = "delete"
    /\ \/ todo = {} /\ Goes("create", Standard) /\ UNCHANGED <<views, trouble, bad>>
       \/ \E n \in todo :
            /\ \A m \in todo : n <= m
            /\ Goes("delete", todo \ {n})
            /\ \/ Answered /\ views' = {v \in views : v.id # n}
               \/ Refused /\ UNCHANGED views
    /\ UNCHANGED <<dash, boards, miles, about, active, grids, items, cat, seen, edited, edits>>

\* mkquery, the one by category first; None for one that could not be made.
CreateQuery ==
    /\ pc = "create"
    /\ \/ todo = {} /\ Goes("dashboard", {}) /\ UNCHANGED <<views, cat, trouble, bad>>
       \/ \E s \in todo :
            /\ Category \in todo => s = Category
            /\ Goes("create", todo \ {s})
            /\ \/ /\ Answered
                  /\ views' = views \cup {[id |-> Fresh, project |-> "this", name |-> s]}
                  /\ cat' = IF s = Category THEN Fresh ELSE cat
               \/ /\ Refused /\ UNCHANGED views
                  /\ cat' = IF s = Category THEN 0 ELSE cat
    /\ UNCHANGED <<dash, boards, miles, about, active, grids, items, seen, edited, edits>>

\* What is looked for is not on the page of the grids of all projects, though it
\* may be there; and an archived project has none to show.
Missed(isThere) ==
    /\ active /\ isThere => grids > GridPage
    /\ trouble' = (trouble \/ isThere \/ ~active) /\ bad' = bad

\* configure_dashboard looks for the project's dashboard.
FindDashboard ==
    /\ pc = "dashboard"
    /\ \/ dash # -1 /\ Answered /\ Goes("change", {})
       \/ Missed(dash # -1) /\ Goes("make", {})
    /\ UNCHANGED <<layout, active, grids, items, cat, seen, edited, edits>>

\* A slip in ChangeDashboard: a dashboard that shows a view is left as it is.
ChangeDashboard_Once ==
    /\ pc = "change"
    /\ \/ Answered /\ dash' = (IF dash > 0 THEN dash ELSE cat)
       \/ Refused /\ UNCHANGED dash
    /\ Goes("board", {})
    /\ UNCHANGED <<views, boards, miles, about, active, grids, items, cat, seen, edited, edits>>

\* The dashboard shows the view just made.
ChangeDashboard ==
    /\ pc = "change"
    /\ \/ Answered /\ dash' = cat
       \/ Refused /\ UNCHANGED dash
    /\ Goes("board", {})
    /\ UNCHANGED <<views, boards, miles, about, active, grids, items, cat, seen, edited, edits>>

\* A new one does; which of two OpenProject shows, or whether it takes a second,
\* is left open.
MakeDashboard ==
    /\ pc = "make"
    /\ \/ Answered /\ grids' = grids + 1 /\ dash' = cat
       \/ dash # -1 /\ Answered /\ grids' \in {grids, grids + 1} /\ UNCHANGED dash
       \/ Refused /\ UNCHANGED <<dash, grids>>
    /\ Goes("board", {})
    /\ UNCHANGED <<views, boards, miles, about, active, items, cat, seen, edited, edits>>

\* ensure_board has nothing to do if it finds one, and was the last step.
EnsureBoard ==
    /\ pc = "board"
    /\ \/ active /\ boards > 0 /\ Over /\ bad' = bad
       \/ Missed(boards > 0) /\ Goes("post", {}) /\ UNCHANGED <<cat, seen, edited>>
    /\ UNCHANGED <<layout, active, grids, items, edits>>

PostBoard ==
    /\ pc = "post"
    /\ \/ active /\ boards' = boards + 1 /\ grids' = grids + 1 /\ bad' = bad
       \/ UNCHANGED <<boards, grids>> /\ IF active THEN Bad ELSE bad' = bad
    /\ Over
    /\ UNCHANGED <<views, dash, miles, about, active, items, edits>>

-----------------------------------------------------------------------------
(* op_build.py apply, in a project that has its categories and types.       *)

\* A slip in FetchItems: the epic is not looked for.
FetchItems_Unlooked ==
    LET listed == {i \in Item : Cardinality({j \in Item : j < i}) < PageSize} IN
    /\ pc = "idle" /\ Answered
    /\ seen' = [i \in Item |-> IF i \in listed THEN lock[i] ELSE -1]
    /\ Goes("epic", listed)
    /\ UNCHANGED <<layout, active, grids, items, cat, edited, edits>>

\* The first page of work packages, with their lockVersions.  The epic, made
\* last, is at its end.
FetchItems ==
    LET listed == {i \in Item : Cardinality({j \in Item : j < i}) < PageSize}
        sees == epics > 0 /\ Cardinality(Item) < PageSize
    IN
    /\ pc = "idle" /\ Answered
    /\ seen' = [i \in Item |-> IF i \in listed THEN lock[i] ELSE -1]
    /\ IF sees THEN Goes("patch", listed) ELSE Goes("epic", listed)
    /\ UNCHANGED <<layout, active, grids, items, cat, edited, edits>>

CreateEpic ==
    /\ pc = "epic"
    /\ \/ Answered /\ epics' = epics + 1
       \/ Refused /\ UNCHANGED epics
    /\ Goes("patch", todo)
    /\ UNCHANGED <<layout, active, grids, lock, tagged, cat, seen, edited, edits>>

\* A slip in Patched: the lockVersion is left out of the request.
Patched_Unlocked(i) ==
    /\ Answered /\ tagged' = tagged \cup {i}
    /\ lock' = IF i \in tagged THEN lock ELSE [lock EXCEPT ![i] = @ + 1]

\* An item that has changed since is refused, and left to the next run.
Patched(i) ==
    \/ /\ seen[i] = lock[i] /\ Answered
       /\ tagged' = tagged \cup {i}
       /\ lock' = IF i \in tagged THEN lock ELSE [lock EXCEPT ![i] = @ + 1]
    \/ seen[i] # lock[i] /\ UNCHANGED <<lock, tagged, trouble, bad>>
    \/ Refused /\ UNCHANGED <<lock, tagged>>

PatchItem ==
    /\ pc = "patch"
    /\ \/ \E i \in todo :
            /\ \A j \in todo : i <= j
            /\ Patched(i) /\ Goes("patch", todo \ {i}) /\ UNCHANGED <<cat, seen, edited>>
       \/ todo = {} /\ Over /\ UNCHANGED <<lock, tagged, bad>>
    /\ UNCHANGED <<layout, active, grids, epics, edits>>

\* A connection that breaks, an answer without what the script takes from it, or
\* an interrupt: nobody catches it.
Stops ==
    /\ pc # "idle" /\ Bad /\ Over
    /\ UNCHANGED <<layout, active, grids, items, edits>>

-----------------------------------------------------------------------------
(* People.                                                                  *)

Edit == edits < MaxEdits /\ edits' = edits + 1 /\ trouble' = (pc # "idle")

ChangeView ==
    /\ Edit
    /\ \/ /\ Cardinality(views) <= MaxViews
          /\ \E s \in Name : views' = views \cup {[id |-> Fresh, project |-> "this", name |-> s]}
       \/ \E v \in views : views' = views \ {v}
    /\ UNCHANGED <<dash, boards, miles, about, active, grids, items, run, edited, bad>>

\* A board of this name in the project, or any grid in another one.
AddGrid ==
    /\ grids' = grids + 1
    /\ \/ Edit /\ boards' = boards + 1
       \/ edits < MaxEdits /\ edits' = edits + 1 /\ UNCHANGED <<boards, trouble>>
    /\ UNCHANGED <<views, dash, miles, about, active, items, run, edited, bad>>

ChangeItem ==
    /\ Edit
    /\ \E i \in Item :
         /\ lock' = [lock EXCEPT ![i] = @ + 1]
         /\ tagged' = tagged \ {i}
         /\ edited' = IF pc \in {"epic", "patch"} THEN edited \cup {i} ELSE {}
    /\ UNCHANGED <<layout, active, grids, epics, run, bad>>

Archive ==
    /\ active' = ~active
    /\ IF active THEN Edit ELSE edits' = edits /\ trouble' = (pc # "idle")
    /\ UNCHANGED <<layout, grids, items, run, edited, bad>>

-----------------------------------------------------------------------------

Script ==
    \/ SetProject \/ ListVersions \/ AddMilestone \/ ListQueries \/ DeleteQuery
    \/ CreateQuery \/ FindDashboard \/ ChangeDashboard \/ MakeDashboard
    \/ EnsureBoard \/ PostBoard \/ CreateEpic \/ PatchItem
People == ChangeView \/ AddGrid \/ ChangeItem \/ Archive

Next == Provision \/ FetchItems \/ Script \/ Stops \/ People
Spec == Init /\ [][Next]_vars

\* A script that runs gets to its end, and somebody runs each again.
FairSpec == Spec /\ WF_vars(Script) /\ SF_vars(Provision) /\ SF_vars(FetchItems)

-----------------------------------------------------------------------------
(* Properties.                                                              *)

\* The standard layout: each view once, the dashboard on the one by category, and
\* a board.
Layout ==
    /\ \A s \in Standard : Cardinality({v \in views : v.project = "this" /\ v.name = s}) = 1
    /\ [id |-> dash, project |-> "this", name |-> Category] \in views
    /\ boards > 0 /\ miles = Milestone /\ about

\* "Idempotent - safe to re-run": a run none of whose requests fails, with nobody
\* at work in the project, ends in the standard layout whatever earlier runs and
\* people left, and makes no board beside one that is there; provided that one
\* page held all views, and one the grids of all projects, when it looked.
RunLaysOut ==
    [][(pc = "board" \/ pc = "post") /\ pc' = "idle" /\ ~trouble /\ active /\ bad' = bad
        => /\ Layout'
           /\ boards > 0 => boards' = boards]_vars

\* The script takes away none but its own views.
OthersKept ==
    [][edits' = edits => \A v \in views \ views' : v.project = "this" /\ v.name \in Standard]_vars

\* A work package that somebody changed after the script had read it keeps the
\* change.
EditsKept ==
    [][edits' = edits => \A i \in edited : i \in tagged' => i \in tagged]_vars

\* However often the script is stopped and run again, the epic is made once, as
\* long as it is on the page the script reads.
OneEpic == Cardinality(Item) < PageSize => epics <= 1

\* Run again, the scripts repair what a run that was stopped left: the layout is
\* there again and again, if one page holds all views and one all grids, and the
\* work packages get their tags for good.
Repaired ==
    /\ <>[]~active \/ []<>(Layout \/ views # Listed \/ grids > GridPage)
    /\ <>[]~active \/ <>[](tagged = Item)

=============================================================================
