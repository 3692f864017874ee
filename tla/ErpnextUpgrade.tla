-------------------------- MODULE ErpnextUpgrade --------------------------
(***************************************************************************)
(* roles/erpnext on forge-erp: deploying a checkout whose compose file     *)
(* names another image than the one the backend runs is an upgrade.  The   *)
(* role backs the books up, recreates the containers on the new image and  *)
(* runs `bench migrate`, while the application stays up and people work    *)
(* in it.  The first build of the site, and forge-erp's nightly backup,    *)
(* are left out.                                                           *)
(***************************************************************************)
EXTENDS Naturals, FiniteSetsExt

CONSTANTS
    Version,     \* the releases of frappe/erpnext, as numbers
    Installed,   \* the one the host starts on
    Entry,       \* ledger entries that may be posted, each as its amount
    Slots,       \* images on disk from which 20 GB are no longer free
    MayRemove,   \* whether the containers may be taken down by hand
    MaxCuts      \* how many runs are cut off, or containers taken down

ASSUME ErpTyped ==
    /\ Version \subseteq Nat \ {0}
    /\ Installed \in Version /\ Entry \subseteq Nat
    /\ Slots \in Nat /\ MayRemove \in BOOLEAN /\ MaxCuts \in Nat

VARIABLES
    compose,    \* the version in erpnext-one.yaml on the host
    container,  \* the version the backend was created from, 0 for no container
    images,     \* the versions on disk
    db,         \* the site's database: the release whose schema it has, whether
                \* a migration of it is half done, and the ledger
    backup,     \* backup[v]: the newest backup of a database of release v, on
                \* bezapool
    pc,         \* the run: "idle", or the task it is about to do
    from,       \* erpnext_running_image of the run, 0 when it does not upgrade
    before,     \* erpnext_ledger_before
    result,     \* how the last run ended: "none", "ok", "failed"
    lost,       \* entries a migration or a restore lost (history)
    skewed,     \* a run was cut off, or people went about, with the code ahead
                \* of the database, and it was not migrated since (history)
    cuts        \* runs cut off so far

host == <<compose, container, images>>
run == <<pc, from, before, result>>
past == <<lost, skewed>>
vars == <<host, db, backup, run, past, cuts>>

Database == [schema : Version, half : BOOLEAN, books : SUBSET Entry]
NoBackup == [schema |-> 0, half |-> FALSE, books |-> {}]
Tasks == {"read", "room", "ledger", "backup", "up", "migrate", "compare"}

TypeOK ==
    /\ compose \in Version /\ container \in Version \cup {0}
    /\ images \subseteq Version
    /\ db \in Database /\ backup \in [Version -> Database \cup {NoBackup}]
    /\ pc \in Tasks \cup {"idle"}
    /\ from \in Version \cup {0}
    /\ before \subseteq Entry
    /\ result \in {"none", "ok", "failed"}
    /\ lost \subseteq Entry
    /\ skewed \in BOOLEAN /\ cuts \in 0..MaxCuts

Init ==
    /\ compose = Installed /\ container = Installed /\ images = {Installed}
    /\ db = [schema |-> Installed, half |-> FALSE, books |-> {}]
    /\ backup = [v \in Version |-> NoBackup]
    /\ pc = "idle" /\ from = 0 /\ before = {} /\ result = "none"
    /\ lost = {} /\ skewed = FALSE /\ cuts = 0

\* The code that runs is that of the database.
InStep == container = db.schema /\ ~db.half
Upgrading == from # 0

Goes(next) == pc' = next /\ UNCHANGED <<from, before, result>>
Ends(how) ==
    /\ pc' = "idle" /\ from' = 0 /\ before' = {} /\ result' = how

-----------------------------------------------------------------------------
(* A run of the role, from a checkout that names version v.                 *)

\* The compose files are copied before anything is looked at.
Deploy(v) ==
    /\ pc = "idle"
    /\ compose' = v
    /\ pc' = "read"
    /\ UNCHANGED <<container, images, db, backup, from, before, result, past, cuts>>

\* A slip in Decide: the image is compared with the compose file of the run
\* before, and an older one goes through.
Decide_AnyDirection ==
    /\ pc = "read"
    /\ UNCHANGED <<host, db, backup, cuts>>
    /\ \/ /\ container \in {0, compose}
          /\ pc' = "up" /\ UNCHANGED <<from, before, result, past>>
       \/ /\ container \notin {0, compose}
          /\ pc' = "up" /\ UNCHANGED <<from, before, result, past>>

\* A missing container is taken for a host with no site yet.
Decide ==
    /\ pc = "read"
    /\ UNCHANGED <<host, db, backup, cuts>>
    /\ \/ /\ container \in {0, compose}
          /\ pc' = "up" /\ UNCHANGED <<from, before, result, past>>
       \/ /\ container \notin {0, compose} /\ compose > container
          /\ pc' = "room" /\ from' = container
          /\ UNCHANGED <<before, result, past>>
       \/ /\ container \notin {0, compose} /\ compose < container
          /\ Ends("failed") /\ UNCHANGED past

Room(disk) == Cardinality(disk) < Slots
\* docker image prune --all: what no container was created from.
Pruned == images \cap {container}

MakeRoom ==
    LET disk == IF Room(images) THEN images ELSE Pruned IN
    /\ pc = "room"
    /\ images' = disk
    /\ UNCHANGED <<compose, container, db, backup, past, cuts>>
    /\ IF Room(disk) THEN Goes("ledger") ELSE Ends("failed")

\* The count of the posted entries, and their sum.
Totals(books) == <<Cardinality(books), SumSet(books)>>

\* docker exec needs the backend.
LedgerBefore ==
    /\ pc = "ledger" /\ container # 0
    /\ before' = db.books
    /\ pc' = "backup"
    /\ UNCHANGED <<host, db, backup, from, result, past, cuts>>

\* A slip in Backup: a host without forge-erp's script is not backed up.
Backup_OnlyWithScript ==
    /\ pc = "backup" /\ container # 0
    /\ backup' \in {backup, [backup EXCEPT ![db.schema] = db]}
    /\ Goes("up")
    /\ UNCHANGED <<host, db, past, cuts>>

\* bench backup --with-files, and the copy off the VM.
Backup ==
    /\ pc = "backup" /\ container # 0
    /\ backup' = [backup EXCEPT ![db.schema] = db]
    /\ Goes("up")
    /\ UNCHANGED <<host, db, past, cuts>>

\* A slip in BringUp: room is made once more, with the new containers up.
BringUp_PrunesAfter ==
    /\ pc = "up"
    /\ images' = IF Room(images \cup {compose}) THEN images \cup {compose} ELSE {compose}
    /\ container' = compose
    /\ UNCHANGED <<compose, db, backup, past, cuts>>
    /\ IF Upgrading THEN Goes("migrate") ELSE Ends("ok")

\* A slip in BringUp: the image pulled is the one the container names.
BringUp_PullsTheOld ==
    /\ pc = "up"
    /\ images' = images \cup {container}
    /\ container' = compose
    /\ UNCHANGED <<compose, db, backup, past, cuts>>
    /\ IF Upgrading THEN Goes("migrate") ELSE Ends("ok")

\* The image is pulled and the containers are created from it.
BringUp ==
    /\ pc = "up"
    /\ images' = images \cup {compose}
    /\ container' = compose
    /\ UNCHANGED <<compose, db, backup, past, cuts>>
    /\ IF Upgrading THEN Goes("migrate") ELSE Ends("ok")

Migration(books, half) ==
    /\ db' = [schema |-> container, half |-> half, books |-> books]
    /\ lost' = lost \cup (db.books \ books)
    /\ skewed' = (skewed /\ half)
    /\ UNCHANGED <<host, backup, cuts>>

\* bench migrate succeeds.  A patch of it may lose an entry.
Migrate ==
    /\ pc = "migrate" /\ container # 0
    /\ \E books \in {db.books} \cup {db.books \ {e} : e \in db.books} :
         Migration(books, FALSE)
    /\ Goes("compare")

\* An attempt that fails half way; there are more.
MigrateHalf ==
    /\ pc = "migrate" /\ container # 0
    /\ ~db.half
    /\ Migration(db.books, TRUE)
    /\ UNCHANGED run

\* A slip in Compare: the entries are counted and not summed.
Compare_Counts ==
    /\ pc = "compare" /\ container # 0
    /\ UNCHANGED <<host, db, backup, past, cuts>>
    /\ Ends(IF Totals(db.books)[1] = Totals(before)[1] THEN "ok" ELSE "failed")

\* The totals after the upgrade against those before it.
Compare ==
    /\ pc = "compare" /\ container # 0
    /\ UNCHANGED <<host, db, backup, past, cuts>>
    /\ Ends(IF Totals(db.books) = Totals(before) THEN "ok" ELSE "failed")

\* Anything that stops a play: a lost connection, a pull or a backup that
\* fails, the last retry of the migration.
Cut ==
    /\ pc # "idle" /\ cuts < MaxCuts
    /\ cuts' = cuts + 1
    /\ skewed' = (skewed \/ (container # 0 /\ ~InStep))
    /\ UNCHANGED <<host, db, backup, lost>>
    /\ Ends("failed")

-----------------------------------------------------------------------------
(* People.                                                                  *)

\* The application is up throughout; a number is used once.
Post(e) ==
    /\ container # 0
    /\ e \notin db.books \cup lost
    /\ db' = [db EXCEPT !.books = @ \cup {e}]
    /\ UNCHANGED <<host, backup, run, past, cuts>>

\* docker compose down, for another reason.
ContainersRemoved ==
    /\ MayRemove
    /\ pc = "idle" /\ container # 0 /\ cuts < MaxCuts
    /\ container' = 0
    /\ cuts' = cuts + 1
    /\ skewed' = TRUE
    /\ UNCHANGED <<compose, images, db, backup, run, lost>>

\* The runbook's way back: the reverted checkout was deployed and refused, which
\* left its compose file; the containers are recreated from it by hand...
RecreateByHand ==
    /\ pc = "idle" /\ result = "failed"
    /\ compose < container
    /\ container' = compose
    /\ images' = images \cup {compose}
    /\ skewed' = TRUE
    /\ UNCHANGED <<compose, db, backup, run, lost, cuts>>

\* ... and the backup of that release is restored.
RestoreByHand(b) ==
    /\ pc = "idle" /\ result = "failed"
    /\ container = compose
    /\ b.schema = container /\ ~b.half
    /\ db # b
    /\ db' = b
    /\ lost' = (lost \cup db.books) \ b.books
    /\ skewed' = FALSE
    /\ UNCHANGED <<host, backup, run, cuts>>

-----------------------------------------------------------------------------

Role ==
    \/ \E v \in Version : Deploy(v)
    \/ Decide \/ MakeRoom \/ LedgerBefore \/ Backup \/ BringUp
    \/ Migrate \/ MigrateHalf \/ Compare \/ Cut

People ==
    \/ \E e \in Entry : Post(e)
    \/ ContainersRemoved \/ RecreateByHand
    \/ \E v \in Version : RestoreByHand(backup[v])

Next == Role \/ People
Spec == Init /\ [][Next]_vars

-----------------------------------------------------------------------------

\* "The backup taken at the start of this run is the way back": a migration
\* that begins leaves behind a backup of the schema it starts from, with every
\* entry the ledger was recorded with.
BackedUpBeforeMigrated ==
    [][pc = "migrate" /\ ~db.half /\ db'.schema # db.schema =>
         LET b == backup[db.schema] IN
           b.schema = db.schema /\ ~b.half /\ before \subseteq b.books]_vars

\* "The running image stays and becomes the rollback target": while an upgrade
\* is under way the image it started from is on the disk.
RollbackImageKept == Upgrading => from \in images

\* The version-skew trap of FORGE-77, new code on a database that was not
\* migrated, is entered only by a run cut off after it brought the stack up, by
\* containers removed by hand, or on the way back; never by a run that had its
\* way, from whatever checkout.
SkewNeedsACut ==
    pc = "idle" /\ container # 0 /\ ~InStep => skewed

\* "Stops if the ledger totals moved": an upgrade that ends well has lost none
\* of the entries that were there when it began, whatever was posted meanwhile.
LossIsReported ==
    [][pc = "compare" /\ pc' = "idle" /\ result' = "ok" => before \cap lost = {}]_vars

\* fleet-update.md: "Fix the cause and run the command again; every step is safe
\* to repeat".  A run that ends well, with nobody having removed a container,
\* leaves the code and the database in step.
RunAgainCompletes ==
    result = "ok" /\ pc = "idle" /\ container # 0 => InStep

=============================================================================
