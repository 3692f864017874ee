--------------------------- MODULE PostgresMajor ---------------------------
(***************************************************************************)
(* roles/postgres-major inside roles/services: a deploy lands the compose  *)
(* files, moves every database whose major changed (dump from the old      *)
(* server, bring the new one up alone on a new location, restore, count),  *)
(* then starts the stacks.  Each Ansible task with an effect is one        *)
(* action, so a run can stop between any two of them.  The operator may    *)
(* deploy again, from any checkout, or follow "When it stops" in           *)
(* docs/runbooks/postgres-major-upgrade.md.                                *)
(***************************************************************************)
EXTENDS Naturals, FiniteSets

CONSTANTS
    Operator,     \* terminals a deploy is run from
    Service,      \* entries of services_postgres_majors, one database each
    App,          \* application containers that write to a database
    StopList,     \* those the role is told to stop
    Major,        \* Postgres majors
    Loc,          \* data locations: a bind mount, a named or an anonymous volume
    Anonymous,    \* the anonymous ones, which go with their container
    Row,          \* rows the application inserts and deletes
    Schema,       \* the tables an application creates when it finds none
    Checkout,     \* what can be deployed: the compose entry of every service
    Installed,    \* the checkout already deployed when the model starts
    Leftover,     \* the newest major, which an earlier trial may have used
    Main,         \* the checkout of main, which operators come back to
    Crowded,      \* services whose server holds a second database or role
    Incident,     \* which of "abort", "db_down", "container_removed" happen
    MaxIncidents  \* how many of them

\* A compose entry: loc is where the server of that image, under that mount,
\* keeps its data, which is not always what is mounted (see Fits).
Compose == [major : Major, loc : Loc]

ASSUME ConstantsTyped ==
    /\ Service # {} /\ App # {}
    /\ Major \subseteq Nat \ {0}
    /\ StopList \subseteq App
    /\ Checkout \subseteq [Service -> Compose]
    /\ Installed \in Checkout /\ Main \in Checkout
    /\ Leftover \in Major
    /\ Anonymous \subseteq Loc
    /\ Schema \notin Row
    /\ MaxIncidents \in Nat

\* "Point the database at a new, empty location" (runbook): a service never
\* changes its location and keeps its major, which the role would not notice.
ASSUME OneLocationPerMajor ==
    \A c, d \in Checkout : \A s \in Service :
        c[s].major = d[s].major => c[s].loc = d[s].loc
ASSUME LeftoverIsNewest ==
    \A c \in Checkout : \A s \in Service : c[s].major <= Leftover

\* Only the newest major is ever run on an anonymous volume, so no deploy
\* replaces a container that is on one.
ASSUME AnonymousIsLast ==
    \A c \in Checkout : \A s \in Service : c[s].loc \in Anonymous => c[s].major = Leftover

VARIABLES
    compose,    \* the compose file on the host
    container,  \* the database container: its image's major, mount and state
    format,     \* format[s][l]: the major whose data location l holds, 0 if none
    rows,       \* rows[s][l]: the data themselves
    apps,       \* the application containers running
    marker,     \* the in-progress marker and the dump it names
    truth,      \* what the users of the application have put in (history)
    pc,         \* the task the play in each terminal is at
    todo,       \* the services its loop has left
    svc,        \* the one it is at
    checkout,   \* what it deploys
    before,     \* what the old server held when it was counted
    dump,       \* the dump file
    incidents   \* how many incidents have happened

host == <<compose, container, format, rows, apps, marker, truth>>
plan == <<todo, svc, checkout, before, dump>>
vars == <<host, pc, plan, incidents>>

Content == SUBSET (Row \cup {Schema})
NoMarker == [from |-> 0, dump |-> {}]
Task == {"idle", "next", "stop", "count", "dump", "mark", "up", "wait",
         "restore", "restoring", "recount", "clear", "stack", "apps"}
State == {"none", "starting", "up", "down"}

TypeOK ==
    /\ compose \in [Service -> Compose]
    /\ container \in [Service -> [major : Major, loc : Loc, state : State]]
    /\ format \in [Service -> [Loc -> Major \cup {0}]]
    /\ rows \in [Service -> [Loc -> Content]]
    /\ apps \in [Service -> SUBSET App]
    /\ marker \in [Service -> {NoMarker} \cup [from : Major, dump : Content]]
    /\ truth \in [Service -> Content]
    /\ pc \in [Operator -> Task]
    /\ todo \in [Operator -> SUBSET Service]
    /\ svc \in [Operator -> Service]
    /\ checkout \in [Operator -> Checkout]
    /\ before \in [Operator -> Content]
    /\ dump \in [Operator -> Content]
    /\ incidents \in 0..MaxIncidents

-----------------------------------------------------------------------------
Marked(s) == marker[s] # NoMarker
Exists(s) == container[s].state # "none"
Answers(s) == container[s].state = "up"
Mount(s) == container[s].loc
Served(s) == rows[s][Mount(s)]             \* what the database container holds
WithTables(c) == c \cup {Schema}           \* an application that finds no tables
                                           \* creates them as it starts

\* A slip in Fits: a newer server upgrades the data it finds.
Fits_Upgrades(s) == format[s][Mount(s)] <= container[s].major

\* The server of the container can open the data it finds in its location, or
\* start from nothing.  Before Postgres 18 that location is the mount, so a bump
\* alone finds the old data and exits (runbook: "leaves the database refusing
\* to start").  18 under a mount made for an older major writes to an anonymous
\* volume (runbook, "What a move needs"): that is an entry whose loc is in
\* Anonymous, and its server starts from nothing.
Fits(s) == format[s][Mount(s)] \in {0, container[s].major}

In(state, s) == [major |-> container[s].major, loc |-> Mount(s), state |-> state]

\* Hosts the first deploy finds: the service installed and in use, or nothing
\* there at all.  A location not in use may hold a leftover of an earlier trial.
Init ==
    /\ compose = Installed
    /\ \E fresh \in SUBSET Service, junk \in SUBSET (Service \X (Loc \ Anonymous)) :
         LET used(s, l) == s \notin fresh /\ l = Installed[s].loc
             left(s, l) == s \notin fresh /\ l # Installed[s].loc /\ <<s, l>> \in junk
         IN  /\ container = [s \in Service |->
                  [major |-> Installed[s].major, loc |-> Installed[s].loc,
                   state |-> IF s \in fresh THEN "none" ELSE "up"]]
             /\ format = [s \in Service |-> [l \in Loc |->
                  IF used(s, l) THEN Installed[s].major
                  ELSE IF left(s, l) THEN Leftover ELSE 0]]
             /\ rows = [s \in Service |-> [l \in Loc |->
                  IF used(s, l) \/ left(s, l) THEN {Schema} ELSE {}]]
             /\ apps = [s \in Service |-> IF s \in fresh THEN {} ELSE App]
             /\ truth = [s \in Service |-> IF s \in fresh THEN {} ELSE {Schema}]
    /\ marker = [s \in Service |-> NoMarker]
    /\ pc = [o \in Operator |-> "idle"]
    /\ todo = [o \in Operator |-> {}]
    /\ svc \in [Operator -> Service]
    /\ checkout = [o \in Operator |-> Installed]
    /\ before = [o \in Operator |-> {}]
    /\ dump = [o \in Operator |-> {}]
    /\ incidents = 0

-----------------------------------------------------------------------------
(* The run.  Go(o, p): o's play goes on to task p.                          *)

Go(o, p) == pc' = [pc EXCEPT ![o] = p]
\* A failed task ends the play.
Refuse(o) == Go(o, "idle")

\* The deploy starts: roles/services writes the compose files.
Deploy(o, c) ==
    /\ pc[o] = "idle"
    /\ compose' = c
    /\ pc' = [pc EXCEPT ![o] = "next"]
    /\ todo' = [todo EXCEPT ![o] = Service]
    /\ checkout' = [checkout EXCEPT ![o] = c]
    /\ UNCHANGED <<container, format, rows, apps, marker, truth, svc, before, dump,
                   incidents>>

\* A slip in Consider: the unfinished move is not looked for.
Consider_NoMarkerCheck(o, s) ==
    LET wanted == checkout[o][s].major
        current == container[s].major
    IN  /\ pc[o] = "next"
        /\ s \in todo[o]
        /\ \/ Exists(s) /\ ~Answers(s) /\ Refuse(o) /\ UNCHANGED <<todo, svc>>
           \/ Answers(s) /\ wanted < current /\ Refuse(o) /\ UNCHANGED <<todo, svc>>
           \/ /\ Answers(s) /\ wanted > current
              /\ Go(o, "stop") /\ svc' = [svc EXCEPT ![o] = s] /\ UNCHANGED todo
           \/ /\ Exists(s) => Answers(s) /\ wanted = current
              /\ todo' = [todo EXCEPT ![o] = @ \ {s}] /\ UNCHANGED <<pc, svc>>
        /\ UNCHANGED <<host, checkout, before, dump, incidents>>

\* A slip in Consider: a database that does not answer is taken for none.
Consider_SilentIsNone(o, s) ==
    LET wanted == checkout[o][s].major
        current == container[s].major
    IN  /\ pc[o] = "next"
        /\ s \in todo[o]
        /\ \/ Marked(s) /\ Refuse(o) /\ UNCHANGED <<todo, svc>>
           \/ /\ ~Marked(s) /\ Answers(s) /\ wanted < current
              /\ Refuse(o) /\ UNCHANGED <<todo, svc>>
           \/ /\ ~Marked(s) /\ Answers(s) /\ wanted > current
              /\ Go(o, "stop") /\ svc' = [svc EXCEPT ![o] = s] /\ UNCHANGED todo
           \/ /\ ~Marked(s)
              /\ Answers(s) => wanted = current
              /\ todo' = [todo EXCEPT ![o] = @ \ {s}] /\ UNCHANGED <<pc, svc>>
        /\ UNCHANGED <<host, checkout, before, dump, incidents>>

\* The role's checks on one entry of the list: an unfinished move, a database
\* that does not answer, an older major or a crowded server end the play; a
\* database on the wanted major, or no container, is passed over; any other
\* is moved.
Consider(o, s) ==
    LET wanted == checkout[o][s].major
        current == container[s].major
    IN  /\ pc[o] = "next"
        /\ s \in todo[o]
        /\ \/ /\ \/ Marked(s)
                 \/ Exists(s) /\ ~Answers(s)
                 \/ Answers(s) /\ wanted < current
                 \/ Answers(s) /\ wanted > current /\ s \in Crowded
              /\ Refuse(o)
              /\ UNCHANGED <<todo, svc>>
           \/ /\ ~Marked(s) /\ Answers(s) /\ wanted > current /\ s \notin Crowded
              /\ Go(o, "stop")
              /\ svc' = [svc EXCEPT ![o] = s]
              /\ UNCHANGED todo
           \/ /\ ~Marked(s)
              /\ Exists(s) => Answers(s) /\ wanted = current
              /\ todo' = [todo EXCEPT ![o] = @ \ {s}]
              /\ UNCHANGED <<pc, svc>>
        /\ UNCHANGED <<host, checkout, before, dump, incidents>>

\* docker stop, one container at a time.
StopApp(o, a) ==
    LET s == svc[o] IN
    /\ pc[o] = "stop"
    /\ a \in StopList \cap apps[s]
    /\ apps' = [apps EXCEPT ![s] = @ \ {a}]
    /\ UNCHANGED <<compose, container, format, rows, marker, truth>>
    /\ UNCHANGED <<pc, plan, incidents>>

\* A slip in AllStopped: one container of the list is down, so go on.
AllStopped_One(o) ==
    /\ pc[o] = "stop"
    /\ StopList \ apps[svc[o]] # {}
    /\ Go(o, "count")
    /\ UNCHANGED <<host, plan, incidents>>

AllStopped(o) ==
    /\ pc[o] = "stop"
    /\ StopList \cap apps[svc[o]] = {}
    /\ Go(o, "count")
    /\ UNCHANGED <<host, plan, incidents>>

CountBefore(o) ==
    /\ pc[o] = "count"
    /\ Answers(svc[o])
    /\ before' = [before EXCEPT ![o] = Served(svc[o])]
    /\ Go(o, "dump")
    /\ UNCHANGED <<host, todo, svc, checkout, dump, incidents>>

Dump(o) ==
    /\ pc[o] = "dump"
    /\ Answers(svc[o])
    /\ dump' = [dump EXCEPT ![o] = Served(svc[o])]
    /\ Go(o, "mark")
    /\ UNCHANGED <<host, todo, svc, checkout, before, incidents>>

\* A slip in Mark: the version as the server prints it, 150000 for 15.
Mark_RawVersion(o) ==
    LET s == svc[o] IN
    /\ pc[o] = "mark"
    /\ marker' = [marker EXCEPT ![s] = [from |-> 10000 * container[s].major, dump |-> dump[o]]]
    /\ Go(o, "up")
    /\ UNCHANGED <<compose, container, format, rows, apps, truth, plan, incidents>>

\* The marker names the old major (as read when the role decided) and the dump.
Mark(o) ==
    LET s == svc[o] IN
    /\ pc[o] = "mark"
    /\ marker' = [marker EXCEPT ![s] = [from |-> container[s].major, dump |-> dump[o]]]
    /\ Go(o, "up")
    /\ UNCHANGED <<compose, container, format, rows, apps, truth, plan, incidents>>

\* docker compose up -d: the container is replaced when the compose file asks
\* for another one, started when it is not running, else left alone.
ComposeUp(s) ==
    LET c == compose[s]
        left == Answers(s) /\ container[s].major = c.major /\ Mount(s) = c.loc
    IN  container' = [container EXCEPT ![s] =
            [major |-> c.major, loc |-> c.loc,
             state |-> IF left THEN "up" ELSE "starting"]]

BringUpAlone(o) ==
    /\ pc[o] = "up"
    /\ ComposeUp(svc[o])
    /\ Go(o, "wait")
    /\ UNCHANGED <<compose, format, rows, apps, marker, truth, plan, incidents>>

\* The retries run out on a server that will never open its data.
NeverReady(o) ==
    /\ pc[o] \in {"wait", "apps"}
    /\ ~Fits(svc[o])
    /\ Refuse(o)
    /\ UNCHANGED <<host, plan, incidents>>

\* docker exec against a container that is not running fails the play.
ExecFails(o) ==
    /\ pc[o] \in {"count", "dump", "restore", "restoring", "recount", "clear"}
    /\ ~Answers(svc[o])
    /\ Refuse(o)
    /\ UNCHANGED <<host, plan, incidents>>

Empty(o) ==
    container[svc[o]].major = checkout[o][svc[o]].major /\ Served(svc[o]) = {}

\* A slip in CheckTarget: nothing was restored, so the refusal tidies the marker.
CheckTarget_Tidies(o) ==
    /\ pc[o] = "wait"
    /\ Answers(svc[o])
    /\ \/ Empty(o) /\ Go(o, "restore") /\ UNCHANGED marker
       \/ ~Empty(o) /\ Refuse(o) /\ marker' = [marker EXCEPT ![svc[o]] = NoMarker]
    /\ UNCHANGED <<compose, container, format, rows, apps, truth, plan, incidents>>

\* pg_isready over TCP, then the version and the number of tables.
CheckTarget(o) ==
    /\ pc[o] = "wait"
    /\ Answers(svc[o])
    /\ \/ Empty(o) /\ Go(o, "restore")
       \/ ~Empty(o) /\ Refuse(o)
    /\ UNCHANGED <<host, plan, incidents>>

Restore(s, c) == rows' = [rows EXCEPT ![s][Mount(s)] = @ \cup c]

\* pg_restore writes table by table; a run that stops here leaves some of them.
RestoreSome(o) ==
    /\ pc[o] = "restore"
    /\ Answers(svc[o])
    /\ \E part \in SUBSET dump[o] : Restore(svc[o], part)
    /\ Go(o, "restoring")
    /\ UNCHANGED <<compose, container, format, apps, marker, truth, plan, incidents>>

RestoreRest(o) ==
    /\ pc[o] = "restoring"
    /\ Answers(svc[o])
    /\ Restore(svc[o], dump[o])
    /\ Go(o, "recount")
    /\ UNCHANGED <<compose, container, format, apps, marker, truth, plan, incidents>>

\* A slip in CountAfter: the comparison is the wrong way round.
CountAfter_Strict(o) ==
    LET same == Cardinality(Served(svc[o])) > Cardinality(before[o]) IN
    /\ pc[o] = "recount"
    /\ Answers(svc[o])
    /\ (same /\ Go(o, "clear")) \/ (~same /\ Refuse(o))
    /\ UNCHANGED <<host, plan, incidents>>

CountAfter(o) ==
    LET same == Cardinality(Served(svc[o])) = Cardinality(before[o]) IN
    /\ pc[o] = "recount"
    /\ Answers(svc[o])
    /\ (same /\ Go(o, "clear")) \/ (~same /\ Refuse(o))
    /\ UNCHANGED <<host, plan, incidents>>

\* analyze, then the marker goes; the loop takes the next entry.
ClearMarker(o) ==
    /\ pc[o] = "clear"
    /\ Answers(svc[o])
    /\ marker' = [marker EXCEPT ![svc[o]] = NoMarker]
    /\ todo' = [todo EXCEPT ![o] = @ \ {svc[o]}]
    /\ Go(o, "next")
    /\ UNCHANGED <<compose, container, format, rows, apps, truth>>
    /\ UNCHANGED <<svc, checkout, before, dump, incidents>>

-----------------------------------------------------------------------------
(* "Start service stacks": docker compose up -d for every service in turn.  *)
(* Most applications wait for the database to be healthy.  Gitea's depends_on *)
(* is a plain one: it starts at once, tries until the database answers and    *)
(* writes nothing before, so what it does with data begins at the same moment. *)

StartStacks(o) ==
    /\ pc[o] = "next"
    /\ todo[o] = {}
    /\ todo' = [todo EXCEPT ![o] = Service]
    /\ Go(o, "stack")
    /\ UNCHANGED <<host, svc, checkout, before, dump, incidents>>

StackDatabase(o, s) ==
    /\ pc[o] = "stack"
    /\ s \in todo[o]
    /\ ComposeUp(s)
    /\ svc' = [svc EXCEPT ![o] = s]
    /\ Go(o, "apps")
    /\ UNCHANGED <<compose, format, rows, apps, marker, truth>>
    /\ UNCHANGED <<todo, checkout, before, dump, incidents>>

StackApps(o) ==
    LET s == svc[o] IN
    /\ pc[o] = "apps"
    /\ Answers(s)
    /\ apps' = [apps EXCEPT ![s] = App]
    /\ rows' = [rows EXCEPT ![s][Mount(s)] = WithTables(@)]
    /\ truth' = [truth EXCEPT ![s] = WithTables(@)]
    /\ todo' = [todo EXCEPT ![o] = @ \ {s}]
    /\ Go(o, IF todo[o] = {s} THEN "idle" ELSE "stack")
    /\ UNCHANGED <<compose, container, format, marker, svc, checkout, before, dump, incidents>>

-----------------------------------------------------------------------------
(* What happens around the run.                                             *)

\* A starting server opens its data, or initialises an empty location.  On
\* data of another major it exits and never becomes ready.
ServerReady(s) ==
    /\ container[s].state = "starting"
    /\ Fits(s)
    /\ container' = [container EXCEPT ![s] = In("up", s)]
    /\ format' = [format EXCEPT ![s][Mount(s)] = container[s].major]
    /\ UNCHANGED <<compose, rows, apps, marker, truth, pc, plan, incidents>>

\* The application inserts a row, or deletes it.
AppWrite(s, r) ==
    /\ apps[s] # {}
    /\ Answers(s)
    /\ \/ /\ r \notin Served(s)
          /\ rows' = [rows EXCEPT ![s][Mount(s)] = @ \cup {r}]
          /\ truth' = [truth EXCEPT ![s] = @ \cup {r}]
       \/ /\ r \in Served(s)
          /\ rows' = [rows EXCEPT ![s][Mount(s)] = @ \ {r}]
          /\ truth' = [truth EXCEPT ![s] = @ \ {r}]
    /\ UNCHANGED <<compose, container, format, apps, marker, pc, plan, incidents>>

Happens(i) == i \in Incident /\ incidents < MaxIncidents /\ incidents' = incidents + 1

\* Any task fails, the connection drops or the operator interrupts the play.
Abort(o) ==
    /\ Happens("abort")
    /\ pc[o] # "idle"
    /\ Refuse(o)
    /\ UNCHANGED <<host, plan>>

DatabaseDown(s) ==
    /\ Happens("db_down")
    /\ Answers(s)
    /\ container' = [container EXCEPT ![s] = In("down", s)]
    /\ UNCHANGED <<compose, format, rows, apps, marker, truth, pc, plan>>

\* The restart policy, or docker start as the refusal asks for.
DatabaseStarted(s) ==
    /\ container[s].state = "down"
    /\ container' = [container EXCEPT ![s] = In("starting", s)]
    /\ UNCHANGED <<compose, format, rows, apps, marker, truth>>
    /\ UNCHANGED <<pc, plan, incidents>>

\* A slip in ContainersRemoved: down -v, which takes the volumes too.
ContainersRemoved_Volumes(s) ==
    /\ Happens("container_removed")
    /\ Exists(s)
    /\ \A o \in Operator : pc[o] = "idle"
    /\ container' = [container EXCEPT ![s] = In("none", s)]
    /\ apps' = [apps EXCEPT ![s] = {}]
    /\ format' = [format EXCEPT ![s][Mount(s)] = 0]
    /\ rows' = [rows EXCEPT ![s][Mount(s)] = {}]
    /\ UNCHANGED <<compose, marker, truth, pc, plan>>

\* docker compose down: the containers go, and the data stay but for those in
\* an anonymous volume.
ContainersRemoved(s) ==
    LET kept(l) == l # Mount(s) \/ l \notin Anonymous IN
    /\ Happens("container_removed")
    /\ Exists(s)
    /\ \A o \in Operator : pc[o] = "idle"
    /\ container' = [container EXCEPT ![s] = In("none", s)]
    /\ apps' = [apps EXCEPT ![s] = {}]
    /\ format' = [format EXCEPT ![s] = [l \in Loc |-> IF kept(l) THEN format[s][l] ELSE 0]]
    /\ rows' = [rows EXCEPT ![s] = [l \in Loc |-> IF kept(l) THEN rows[s][l] ELSE {}]]
    /\ UNCHANGED <<compose, marker, truth, pc, plan>>

\* "To try again instead": the container, the new location it has mounted and
\* the marker are removed by hand, and the database is started on its old image.
TryAgain(s) ==
    /\ \A o \in Operator : pc[o] = "idle"
    /\ Marked(s)
    /\ \E old \in Loc :
         LET kept(l) == l = old \/ l # Mount(s) IN
         /\ format[s][old] = marker[s].from
         /\ container' = [container EXCEPT ![s] =
              [major |-> marker[s].from, loc |-> old, state |-> "starting"]]
         /\ format' = [format EXCEPT ![s] =
              [l \in Loc |-> IF kept(l) THEN format[s][l] ELSE 0]]
         /\ rows' = [rows EXCEPT ![s] =
              [l \in Loc |-> IF kept(l) THEN rows[s][l] ELSE {}]]
    /\ marker' = [marker EXCEPT ![s] = NoMarker]
    /\ UNCHANGED <<compose, apps, truth, pc, plan, incidents>>

-----------------------------------------------------------------------------
Step(o) ==
    \/ \E s \in Service : Consider(o, s) \/ StackDatabase(o, s)
    \/ \E a \in App : StopApp(o, a)
    \/ AllStopped(o) \/ CountBefore(o) \/ Dump(o) \/ Mark(o)
    \/ BringUpAlone(o) \/ NeverReady(o) \/ ExecFails(o) \/ CheckTarget(o)
    \/ RestoreSome(o) \/ RestoreRest(o) \/ CountAfter(o) \/ ClearMarker(o)
    \/ StartStacks(o) \/ StackApps(o)

Next ==
    \/ \E o \in Operator : Step(o) \/ Abort(o) \/ \E c \in Checkout : Deploy(o, c)
    \/ \E s \in Service :
         \/ ServerReady(s) \/ DatabaseDown(s) \/ DatabaseStarted(s)
         \/ ContainersRemoved(s) \/ TryAgain(s)
         \/ \E r \in Row : AppWrite(s, r)

Spec == Init /\ [][Next]_vars

\* A play that is running goes on, a starting server starts, a stopped one is
\* started, and an operator with a stopped application deploys main again
\* and follows "When it stops" while there is a marker.
FairSpec ==
    /\ Spec
    /\ \A o \in Operator : WF_vars(Step(o)) /\ SF_vars(Deploy(o, Main))
    /\ \A s \in Service :
         WF_vars(ServerReady(s)) /\ WF_vars(DatabaseStarted(s)) /\ SF_vars(TryAgain(s))

-----------------------------------------------------------------------------
(* Correctness.                                                             *)

\* While the in-progress marker stands, no application container of the
\* service runs: the half-restored database is never served (tasks/main.yml,
\* "the new database is not to be trusted until the marker goes").
UntrustedNotServed == \A s \in Service : Marked(s) => apps[s] = {}

\* A database container that holds anything but what the users left is marked:
\* whatever step a run stops after, a database that is empty, half restored or
\* a leftover is known as such to the next run.
UntrustedIsMarked ==
    \A s \in Service : Exists(s) /\ Served(s) # truth[s] => Marked(s)

\* A running application is on the data its users left, through every move,
\* refusal, interruption and recovery.
ServedIsCurrent ==
    \A s \in Service : apps[s] # {} => Exists(s) /\ Served(s) = truth[s]

\* The dump the marker names is the whole database: nothing is written between
\* the dump and the marker, or while the marker stands.
MarkerNamesWholeDump == \A s \in Service : Marked(s) => marker[s].dump = truth[s]

\* While the marker stands the old data are still there, complete, in a
\* location of the old major: the way back exists.
WayBackExists ==
    \A s \in Service : Marked(s) =>
        \E l \in Loc : format[s][l] = marker[s].from /\ rows[s][l] = truth[s]

\* The role never writes to the location the old database was in: a location
\* of another major than the one being installed changes only by the hand of
\* its own application or of the operator who recovers.
OldLocationUntouched ==
    [][\A s \in Service, l \in Loc :
         /\ <<format[s][l], rows[s][l]>>' # <<format[s][l], rows[s][l]>>
         /\ Marked(s) /\ Marked(s)'
         => format[s][l] # marker[s].from]_vars

\* An application taken down by a move is up again in the end, when incidents
\* stop and the operator keeps to the runbook.
ServiceReturns == \A s \in Service : apps[s] = {} ~> apps[s] = App

\* The role implements the promise: one database per application, changed by
\* nothing but the application.
Promise == INSTANCE AppDatabase WITH
    Content <- Content,
    Ready <- WithTables,
    up <- [s \in Service |-> apps[s] # {}],
    data <- [s \in Service |-> IF apps[s] # {} THEN Served(s) ELSE truth[s]]
KeepsPromise == Promise!Spec

-----------------------------------------------------------------------------
(* The inductive invariant, in parts.                                       *)

Asks(c, s) == container[s].major = c[s].major /\ Mount(s) = c[s].loc

\* Every container, and every data directory but a leftover, is one some
\* checkout asks for, so a location is known by the major of its data.
Located == \A s \in Service :
    /\ \E c \in Checkout : Asks(c, s)
    /\ \A l \in Loc : format[s][l] \in {0, Leftover} \/
         \E c \in Checkout : c[s].major = format[s][l] /\ c[s].loc = l
    /\ Answers(s) => format[s][Mount(s)] = container[s].major

\* A service with no container has never had any data.
NothingYet == \A s \in Service : ~Exists(s) =>
    /\ ~Marked(s) /\ apps[s] = {} /\ truth[s] = {}
    /\ \A l \in Loc : rows[s][l] = {}

\* The data of the old major are all there, under a marker.
OldDataWhole == \A s \in Service : Marked(s) =>
    /\ marker[s].from \in Major /\ marker[s].from < Leftover
    /\ \A l \in Loc : format[s][l] = marker[s].from => rows[s][l] = truth[s]
    /\ container[s].major = marker[s].from => format[s][Mount(s)] = marker[s].from

\* What a run has established about a service it is done with.
Settled(o, s) == ~Marked(s) /\ (Exists(s) => Asks(checkout[o], s))

OldPart == {"stop", "count", "dump", "mark"}
NewPart == {"wait", "restore", "restoring", "recount", "clear"}
InMove(o) == pc[o] \in OldPart \cup {"up"} \cup NewPart

\* Where a run is, and what that says of the service it is moving.
Moving(o) == LET s == svc[o] IN
    /\ InMove(o) => s \in todo[o] /\ Exists(s)
    /\ pc[o] \in OldPart \cup {"up"} =>
         /\ container[s].major < checkout[o][s].major
         /\ format[s][Mount(s)] = container[s].major
    /\ pc[o] \in OldPart => ~Marked(s)
    /\ pc[o] \in {"count", "dump", "mark"} => apps[s] = {}
    /\ pc[o] \in {"mark", "up"} \cup NewPart => dump[o] = truth[s]
    /\ pc[o] \in {"up"} \cup NewPart => Marked(s)
    /\ pc[o] = "up" => marker[s].from = container[s].major
    /\ pc[o] \in NewPart => Asks(checkout[o], s) /\ marker[s].from < container[s].major
    /\ pc[o] = "restore" => Served(s) = {}
    /\ pc[o] = "restoring" => Served(s) \subseteq dump[o]
    /\ pc[o] \in {"recount", "clear"} => Served(s) = dump[o]

RunKnows == \A o \in Operator :
    /\ pc[o] # "idle" => compose = checkout[o]
    /\ pc[o] = "next" \/ InMove(o) => \A s \in Service \ todo[o] : Settled(o, s)
    /\ pc[o] \in {"stack", "apps"} => \A s \in Service : Settled(o, s)
    /\ pc[o] = "apps" => Exists(svc[o])
    /\ Moving(o)

\* With one terminal, a stop list that names every writer and no container
\* removed by hand, this holds after every step and implies the properties
\* above: each step of a run may rely on what the steps before it saw.
IInv ==
    /\ TypeOK
    /\ UntrustedNotServed /\ UntrustedIsMarked /\ ServedIsCurrent
    /\ MarkerNamesWholeDump /\ WayBackExists
    /\ Located /\ NothingYet /\ OldDataWhole /\ RunKnows

=============================================================================
