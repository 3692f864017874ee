------------------------ MODULE ErpnextUpgrade_proofs ------------------------
EXTENDS ErpnextUpgrade, SetSums, TLAPS

USE ErpTyped DEF Tasks, Database, NoBackup

\* What a run knows of itself: it upgrades from the decision to the totals, and
\* until it brings the stack up the container is the one it found.
RunKnown ==
    /\ pc \in {"idle", "read"} => from = 0
    /\ pc \in {"room", "ledger", "backup", "migrate", "compare"} => from # 0
    /\ pc \in {"room", "ledger", "backup", "up"} /\ from # 0 => container = from
    /\ pc = "up" /\ from = 0 => container \in {0, compose}

\* The images that must not go.
ImagesKnown ==
    /\ container # 0 => container \in images
    /\ from # 0 => from \in images

\* Outside the migration, code and database out of step are known to be.
SkewKnown ==
    /\ container = 0 => skewed
    /\ container # 0 /\ ~InStep /\ pc # "migrate" => skewed

\* The backup of the run, until the migration begins.
BackedUp(v) == backup[v].schema = v /\ ~backup[v].half /\ before \subseteq backup[v].books
BackupKnown ==
    /\ pc = "backup" => before \subseteq db.books
    /\ pc \in {"up", "migrate"} /\ from # 0 /\ ~db.half => BackedUp(db.schema)

ErpInv == TypeOK /\ RunKnown /\ ImagesKnown /\ SkewKnown /\ BackupKnown

-----------------------------------------------------------------------------
LEMMA InitKnown == Init => ErpInv
<1> SUFFICES ASSUME Init PROVE ErpInv
  OBVIOUS
<1>1. db \in Database /\ backup \in [Version -> Database \cup {NoBackup}]
  BY DEF Init
<1>2. TypeOK
  <2>1. /\ compose \in Version /\ container \in Version \cup {0} /\ images \subseteq Version
        /\ from \in Version \cup {0} /\ before \subseteq Entry /\ lost \subseteq Entry
    BY DEF Init
  <2>2. /\ pc \in Tasks \cup {"idle"} /\ result \in {"none", "ok", "failed"}
        /\ skewed \in BOOLEAN
    BY ZenonT(30) DEF Init
  <2>3. cuts \in 0..MaxCuts
    BY DEF Init
  <2> QED BY <1>1, <2>1, <2>2, <2>3 DEF TypeOK
<1>3. RunKnown /\ ImagesKnown /\ SkewKnown /\ BackupKnown
  BY DEF Init, RunKnown, ImagesKnown, SkewKnown, BackupKnown, InStep
<1> QED BY <1>2, <1>3 DEF ErpInv

\* A step that leaves the run's task, or ends the run, with the host and the
\* books as they were.
LEMMA EndKnown ==
  ASSUME ErpInv, NEW how \in {"ok", "failed"}, Ends(how), UNCHANGED <<host, db, backup, lost>>,
         cuts' \in 0..MaxCuts, skewed' \in BOOLEAN,
         skewed => skewed', container # 0 /\ ~InStep => skewed'
  PROVE  ErpInv'
<1>1. /\ pc' = "idle" /\ from' = 0 /\ before' = {} /\ result' = how
      /\ UNCHANGED <<compose, container, images, db, backup, lost>>
  BY DEF Ends, host
<1>2. TypeOK'
  BY <1>1 DEF ErpInv, TypeOK
<1>3. RunKnown' /\ ImagesKnown' /\ BackupKnown'
  BY <1>1 DEF ErpInv, RunKnown, ImagesKnown, BackupKnown
<1>4. SkewKnown'
  BY <1>1 DEF ErpInv, SkewKnown, InStep
<1> QED BY <1>2, <1>3, <1>4 DEF ErpInv

LEMMA DecideKnown == ErpInv /\ Decide => ErpInv'
<1> SUFFICES ASSUME ErpInv, Decide PROVE ErpInv'
  OBVIOUS
<1>1. CASE Ends("failed") /\ UNCHANGED past
  <2>1. pc = "read" /\ UNCHANGED <<host, db, backup, cuts, skewed, lost>>
    BY <1>1 DEF Decide, past
  <2> QED BY <1>1, <2>1, EndKnown DEF ErpInv, TypeOK, SkewKnown
<1>2. CASE ~(Ends("failed") /\ UNCHANGED past)
  <2>1. /\ pc = "read" /\ before' = before /\ result' = result
        /\ \/ container \in {0, compose} /\ pc' = "up" /\ from' = from
           \/ container # 0 /\ pc' = "room" /\ from' = container
        /\ UNCHANGED <<compose, container, images, db, backup, lost, skewed, cuts>>
    BY <1>2 DEF Decide, past, host
  <2>2. TypeOK'
    BY <2>1 DEF ErpInv, TypeOK
  <2>3. RunKnown' /\ ImagesKnown' /\ BackupKnown'
    BY <2>1 DEF ErpInv, TypeOK, RunKnown, ImagesKnown, BackupKnown
  <2>4. SkewKnown'
    BY <2>1 DEF ErpInv, SkewKnown, InStep
  <2> QED BY <2>2, <2>3, <2>4 DEF ErpInv
<1> QED BY <1>1, <1>2

LEMMA MakeRoomKnown == ErpInv /\ MakeRoom => ErpInv'
<1> SUFFICES ASSUME ErpInv, MakeRoom PROVE ErpInv'
  OBVIOUS
<1>1. /\ pc = "room" /\ container = from /\ from # 0 /\ images' \subseteq images
      /\ container \in images'
      /\ UNCHANGED <<compose, container, db, backup, lost, skewed, cuts>>
  BY DEF MakeRoom, Pruned, ErpInv, RunKnown, ImagesKnown, past
<1>2. \/ pc' = "ledger" /\ UNCHANGED <<from, before, result>>
      \/ pc' = "idle" /\ from' = 0 /\ before' = {} /\ result' = "failed"
  BY DEF MakeRoom, Goes, Ends
<1>3. TypeOK'
  BY <1>1, <1>2 DEF ErpInv, TypeOK
<1>4. RunKnown' /\ ImagesKnown' /\ BackupKnown'
  BY <1>1, <1>2 DEF ErpInv, RunKnown, ImagesKnown, BackupKnown
<1>5. SkewKnown'
  BY <1>1, <1>2 DEF ErpInv, SkewKnown, InStep
<1> QED BY <1>3, <1>4, <1>5 DEF ErpInv

LEMMA BackupsKnown == ErpInv /\ (LedgerBefore \/ Backup) => ErpInv'
<1> SUFFICES ASSUME ErpInv, LedgerBefore \/ Backup PROVE ErpInv'
  OBVIOUS
<1>1. UNCHANGED <<compose, container, images, db, from, result, lost, skewed, cuts>>
  BY DEF LedgerBefore, Backup, Goes, host, past
<1>2. CASE LedgerBefore
  <2>1. pc = "ledger" /\ pc' = "backup" /\ before' = db.books /\ backup' = backup
    BY <1>2 DEF LedgerBefore
  <2>2. TypeOK'
    BY <1>1, <2>1 DEF ErpInv, TypeOK
  <2>3. RunKnown' /\ ImagesKnown' /\ BackupKnown'
    BY <1>1, <2>1 DEF ErpInv, RunKnown, ImagesKnown, BackupKnown
  <2>4. SkewKnown'
    BY <1>1, <2>1 DEF ErpInv, SkewKnown, InStep
  <2> QED BY <2>2, <2>3, <2>4 DEF ErpInv
<1>3. CASE Backup
  <2>1. /\ pc = "backup" /\ pc' = "up" /\ before' = before
        /\ backup' = [backup EXCEPT ![db.schema] = db]
    BY <1>3 DEF Backup, Goes
  <2>2. db \in Database /\ db.schema \in Version /\ backup'[db.schema] = db
    BY <2>1 DEF ErpInv, TypeOK
  <2>3. TypeOK'
    BY <1>1, <2>1, <2>2 DEF ErpInv, TypeOK
  <2>4. RunKnown' /\ ImagesKnown'
    BY <1>1, <2>1 DEF ErpInv, RunKnown, ImagesKnown
  <2>5. BackupKnown'
    BY <1>1, <2>1, <2>2 DEF ErpInv, BackupKnown, BackedUp
  <2>6. SkewKnown'
    BY <1>1, <2>1 DEF ErpInv, SkewKnown, InStep
  <2> QED BY <2>3, <2>4, <2>5, <2>6 DEF ErpInv
<1> QED BY <1>2, <1>3

LEMMA BringUpKnown == ErpInv /\ BringUp => ErpInv'
<1> SUFFICES ASSUME ErpInv, BringUp PROVE ErpInv'
  OBVIOUS
<1>1. /\ pc = "up" /\ images' = images \cup {compose} /\ container' = compose
      /\ UNCHANGED <<compose, db, backup, lost, skewed, cuts>>
  BY DEF BringUp, past
<1>2. \/ from # 0 /\ pc' = "migrate" /\ UNCHANGED <<from, before, result>>
      \/ from = 0 /\ pc' = "idle" /\ from' = 0 /\ before' = {} /\ result' = "ok"
  BY DEF BringUp, Goes, Ends, Upgrading
<1>3. TypeOK'
  BY <1>1, <1>2 DEF ErpInv, TypeOK
<1>4. RunKnown' /\ ImagesKnown' /\ BackupKnown'
  BY <1>1, <1>2 DEF ErpInv, RunKnown, ImagesKnown, BackupKnown, BackedUp
<1>5. SkewKnown'
  BY <1>1, <1>2 DEF ErpInv, TypeOK, RunKnown, SkewKnown, InStep
<1> QED BY <1>3, <1>4, <1>5 DEF ErpInv

LEMMA MigrateKnown == ErpInv /\ (Migrate \/ MigrateHalf) => ErpInv'
<1> SUFFICES ASSUME ErpInv, Migrate \/ MigrateHalf PROVE ErpInv'
  OBVIOUS
<1>1. PICK books \in SUBSET Entry, half \in BOOLEAN :
        /\ Migration(books, half) /\ pc = "migrate" /\ container # 0
        /\ pc' = IF half THEN "migrate" ELSE "compare"
        /\ UNCHANGED <<from, before, result>>
  <2>1. CASE Migrate
    <3>1. PICK books \in {db.books} \cup {db.books \ {e} : e \in db.books} :
            Migration(books, FALSE)
      BY <2>1 DEF Migrate
    <3>2. books \subseteq Entry
      BY DEF ErpInv, TypeOK
    <3> QED BY <2>1, <3>1, <3>2 DEF Migrate, Goes
  <2>2. CASE MigrateHalf
    <3>1. db.books \subseteq Entry
      BY DEF ErpInv, TypeOK
    <3> QED BY <2>2, <3>1 DEF MigrateHalf, run
  <2> QED BY <2>1, <2>2
<1>2. /\ db' = [schema |-> container, half |-> half, books |-> books]
      /\ lost' = lost \cup (db.books \ books) /\ skewed' = (skewed /\ half)
      /\ UNCHANGED <<compose, container, images, backup, cuts>>
  BY <1>1 DEF Migration, host
<1>3. TypeOK'
  BY <1>1, <1>2 DEF ErpInv, TypeOK
<1>4. RunKnown' /\ ImagesKnown' /\ BackupKnown'
  BY <1>1, <1>2 DEF ErpInv, RunKnown, ImagesKnown, BackupKnown
<1>5. SkewKnown'
  BY <1>1, <1>2 DEF SkewKnown, InStep
<1> QED BY <1>3, <1>4, <1>5 DEF ErpInv

LEMMA RoleKnown == ErpInv /\ Role => ErpInv'
<1> SUFFICES ASSUME ErpInv, Role PROVE ErpInv'
  OBVIOUS
<1>1. ASSUME NEW v \in Version, Deploy(v) PROVE ErpInv'
  <2>1. /\ pc = "idle" /\ pc' = "read" /\ compose' = v
        /\ UNCHANGED <<container, images, db, backup, from, before, result, lost, skewed, cuts>>
    BY <1>1 DEF Deploy, past
  <2>2. TypeOK'
    BY <2>1 DEF ErpInv, TypeOK
  <2>3. RunKnown' /\ ImagesKnown' /\ BackupKnown'
    BY <2>1 DEF ErpInv, RunKnown, ImagesKnown, BackupKnown
  <2>4. SkewKnown'
    BY <2>1 DEF ErpInv, SkewKnown, InStep
  <2> QED BY <2>2, <2>3, <2>4 DEF ErpInv
<1>2. CASE Compare
  <2>1. pc = "compare" /\ UNCHANGED <<host, db, backup, lost, skewed, cuts>>
    BY <1>2 DEF Compare, past
  <2>2. PICK how \in {"ok", "failed"} : Ends(how)
    BY <1>2 DEF Compare
  <2> QED BY <2>1, <2>2, EndKnown DEF ErpInv, TypeOK, SkewKnown
<1>3. CASE Cut
  <2>1. cuts' \in 0..MaxCuts
    BY <1>3 DEF Cut, ErpInv, TypeOK
  <2>2. skewed' \in BOOLEAN /\ (skewed => skewed') /\ (container # 0 /\ ~InStep => skewed')
    BY <1>3 DEF Cut
  <2> QED BY <1>3, <2>1, <2>2, EndKnown DEF Cut
<1> QED
  BY <1>1, <1>2, <1>3, DecideKnown, MakeRoomKnown, BackupsKnown, BringUpKnown, MigrateKnown DEF Role

LEMMA PeopleKnown == ErpInv /\ People => ErpInv'
<1> SUFFICES ASSUME ErpInv, People PROVE ErpInv'
  OBVIOUS
<1>1. UNCHANGED <<compose, backup, pc, from, before, result>>
  BY DEF People, Post, ContainersRemoved, RecreateByHand, RestoreByHand, host, run
<1>2. ASSUME NEW e \in Entry, Post(e) PROVE ErpInv'
  <2>1. /\ UNCHANGED <<container, images, lost, skewed, cuts>>
        /\ db' \in Database /\ db'.schema = db.schema /\ db'.half = db.half
        /\ db.books \subseteq db'.books
    BY <1>2 DEF Post, host, past, ErpInv, TypeOK
  <2>2. TypeOK'
    BY <1>1, <2>1 DEF ErpInv, TypeOK
  <2>3. RunKnown' /\ ImagesKnown' /\ BackupKnown'
    BY <1>1, <2>1 DEF ErpInv, RunKnown, ImagesKnown, BackupKnown, BackedUp
  <2>4. SkewKnown'
    BY <1>1, <2>1 DEF ErpInv, SkewKnown, InStep
  <2> QED BY <2>2, <2>3, <2>4 DEF ErpInv
<1>3. CASE ContainersRemoved \/ RecreateByHand
  <2>1. /\ pc = "idle" /\ skewed' = TRUE
        /\ \/ container' = 0 /\ images' = images
           \/ container' = compose /\ images' = images \cup {compose}
        /\ UNCHANGED <<db, lost>>
    BY <1>3 DEF ContainersRemoved, RecreateByHand
  <2> cuts' \in 0..MaxCuts
    BY <1>3 DEF ContainersRemoved, RecreateByHand, ErpInv, TypeOK
  <2>2. TypeOK'
    BY <1>1, <2>1 DEF ErpInv, TypeOK
  <2>3. RunKnown' /\ ImagesKnown' /\ BackupKnown'
    BY <1>1, <2>1 DEF ErpInv, RunKnown, ImagesKnown, BackupKnown
  <2>4. SkewKnown'
    BY <2>1 DEF SkewKnown
  <2> QED BY <2>2, <2>3, <2>4 DEF ErpInv
<1>4. ASSUME NEW v \in Version, RestoreByHand(backup[v]) PROVE ErpInv'
  <2>1. /\ pc = "idle" /\ container = compose /\ db' = backup[v]
        /\ backup[v].schema = container /\ ~backup[v].half
        /\ lost' = (lost \cup db.books) \ backup[v].books /\ skewed' = FALSE
        /\ UNCHANGED <<container, images, cuts>>
    BY <1>4 DEF RestoreByHand, host
  <2>2. backup[v] \in Database
    BY <2>1 DEF ErpInv, TypeOK
  <2>3. TypeOK'
    BY <1>1, <2>1, <2>2 DEF ErpInv, TypeOK
  <2>4. RunKnown' /\ ImagesKnown' /\ BackupKnown'
    BY <1>1, <2>1 DEF ErpInv, RunKnown, ImagesKnown, BackupKnown
  <2>5. SkewKnown'
    BY <1>1, <2>1 DEF ErpInv, TypeOK, SkewKnown, InStep
  <2> QED BY <2>3, <2>4, <2>5 DEF ErpInv
<1> QED BY <1>2, <1>3, <1>4 DEF People

LEMMA ErpInvKept == ErpInv /\ [Next]_vars => ErpInv'
<1> SUFFICES ASSUME ErpInv, [Next]_vars PROVE ErpInv'
  OBVIOUS
<1>1. CASE UNCHANGED vars
  <2>1. UNCHANGED <<compose, container, images, db, backup, pc, from, before, result,
                    lost, skewed, cuts>>
    BY <1>1 DEF vars, host, run, past
  <2>2. TypeOK'
    BY <2>1 DEF ErpInv, TypeOK
  <2>3. RunKnown' /\ ImagesKnown' /\ BackupKnown'
    BY <2>1 DEF ErpInv, RunKnown, ImagesKnown, BackupKnown, BackedUp
  <2>4. SkewKnown'
    BY <2>1 DEF ErpInv, SkewKnown, InStep
  <2> QED BY <2>2, <2>3, <2>4 DEF ErpInv
<1> QED BY <1>1, RoleKnown, PeopleKnown DEF Next

LEMMA ErpInvHolds == Spec => []ErpInv
BY InitKnown, ErpInvKept, PTL DEF Spec

-----------------------------------------------------------------------------
\* Type correctness, for any releases, entries, disk, cuts and removed
\* containers; a restore only ever loads a backup there is.
THEOREM TypeCorrect == Spec => []TypeOK
<1>1. ErpInv => TypeOK
  BY DEF ErpInv
<1> QED BY <1>1, ErpInvHolds, PTL

\* The image an upgrade started from stays on the disk until the run is over,
\* however small the disk and whatever the prune takes.
THEOREM RollbackKept == Spec => []RollbackImageKept
<1>1. ErpInv => RollbackImageKept
  BY DEF ErpInv, ImagesKnown, RollbackImageKept, Upgrading
<1> QED BY <1>1, ErpInvHolds, PTL

\* New code on a database that was not migrated is entered by a cut, by removed
\* containers or on the way back, for any chain of releases.
THEOREM SkewIsACut == Spec => []SkewNeedsACut
<1>1. ErpInv => SkewNeedsACut
  BY DEF ErpInv, SkewKnown, SkewNeedsACut
<1> QED BY <1>1, ErpInvHolds, PTL

\* Every migration that begins leaves behind a backup of the schema it starts
\* from, with every entry of the ledger's totals, whatever is posted meanwhile.
THEOREM MigrationsBackedUp == Spec => BackedUpBeforeMigrated
<1> DEFINE Backed ==
      pc = "migrate" /\ ~db.half /\ db'.schema # db.schema =>
        LET b == backup[db.schema] IN
          b.schema = db.schema /\ ~b.half /\ before \subseteq b.books
<1>1. ErpInv => Backed
  BY DEF ErpInv, RunKnown, BackupKnown, BackedUp
<1> QED BY <1>1, ErpInvHolds, PTL DEF BackedUpBeforeMigrated

-----------------------------------------------------------------------------
(* The totals.                                                              *)

\* Nobody posts an entry a second time, so what was lost is not in the ledger; and
\* an upgrade loses at most one of the entries its totals were taken of.
TotalsKnown ==
    /\ IsFiniteSet(db.books) /\ IsFiniteSet(before)
    /\ \A v \in Version : IsFiniteSet(backup[v].books)
    /\ lost \cap db.books = {}
    /\ pc \in {"idle", "read", "room", "ledger"} => before = {}
    /\ pc \in {"backup", "up", "migrate"} => before \subseteq db.books
    /\ pc = "compare" => \/ before \subseteq db.books
                         \/ \E e \in before : before \ {e} \subseteq db.books

LEMMA InitTotals == Init => TotalsKnown
BY FS_EmptySet DEF Init, TotalsKnown

\* A migration that ends well.
LEMMA MigrateTotals == ErpInv /\ TotalsKnown /\ Migrate => TotalsKnown'
<1> SUFFICES ASSUME ErpInv, TotalsKnown, Migrate PROVE TotalsKnown'
  OBVIOUS
<1>1. PICK books \in {db.books} \cup {db.books \ {e} : e \in db.books} :
        Migration(books, FALSE)
  BY DEF Migrate
<1>2. /\ pc = "migrate" /\ pc' = "compare" /\ before' = before /\ backup' = backup
      /\ db'.books = books /\ lost' = lost \cup (db.books \ books)
  BY <1>1 DEF Migrate, Migration, Goes
<1>3. books \subseteq db.books /\ before \subseteq db.books
  BY <1>2 DEF TotalsKnown
<1>4. IsFiniteSet(books)
  BY <1>3, FS_Subset DEF TotalsKnown
<1>5. before \subseteq books \/ \E e \in before : before \ {e} \subseteq books
  <2>1. PICK e : books = db.books \/ books = db.books \ {e}
    OBVIOUS
  <2>2. CASE e \in before
    BY <1>3, <2>1, <2>2
  <2>3. CASE e \notin before
    BY <1>3, <2>1, <2>3
  <2> QED BY <2>2, <2>3
<1>6. lost' \cap books = {}
  BY <1>2, <1>3 DEF TotalsKnown
<1> QED BY <1>2, <1>4, <1>5, <1>6 DEF TotalsKnown

\* The other steps of a run, none of which changes the ledger.
LEMMA RoleTotals == ErpInv /\ TotalsKnown /\ Role => TotalsKnown'
<1> SUFFICES ASSUME ErpInv, TotalsKnown, Role PROVE TotalsKnown'
  OBVIOUS
<1>1. ASSUME NEW v \in Version, Deploy(v) PROVE TotalsKnown'
  BY <1>1 DEF Deploy, past, TotalsKnown
<1>2. CASE Decide
  BY <1>2 DEF Decide, Ends, past, TotalsKnown
<1>3. CASE MakeRoom
  BY <1>3 DEF MakeRoom, Goes, Ends, past, TotalsKnown
<1>4. CASE LedgerBefore
  BY <1>4 DEF LedgerBefore, past, TotalsKnown
<1>5. CASE Backup
  <2>1. /\ pc = "backup" /\ pc' = "up" /\ UNCHANGED <<db, before, lost>>
        /\ backup' = [backup EXCEPT ![db.schema] = db]
    BY <1>5 DEF Backup, Goes, past
  <2>2. \A v \in Version : backup'[v] = backup[v] \/ backup'[v] = db
    BY <2>1 DEF ErpInv, TypeOK
  <2>3. \A v \in Version : IsFiniteSet(backup'[v].books)
    BY <2>2 DEF TotalsKnown
  <2> QED BY <2>1, <2>3 DEF TotalsKnown
<1>6. CASE BringUp
  BY <1>6, FS_EmptySet DEF BringUp, Goes, Ends, past, TotalsKnown
<1>7. CASE MigrateHalf
  <2>1. /\ db'.books = db.books /\ lost' = lost \cup (db.books \ db.books)
        /\ UNCHANGED <<backup, pc, before>>
    BY <1>7 DEF MigrateHalf, Migration, run
  <2> QED BY <2>1 DEF TotalsKnown
<1>8. CASE Compare \/ Cut
  <2>1. /\ pc' = "idle" /\ before' = {} /\ UNCHANGED <<db, backup, lost>>
    BY <1>8 DEF Compare, Cut, Ends, past
  <2> QED BY <2>1, FS_EmptySet DEF TotalsKnown
<1> QED BY <1>1, <1>2, <1>3, <1>4, <1>5, <1>6, <1>7, <1>8, MigrateTotals DEF Role

\* People post new entries only, and restore while no upgrade is under way.
LEMMA PeopleTotals == ErpInv /\ TotalsKnown /\ People => TotalsKnown'
<1> SUFFICES ASSUME ErpInv, TotalsKnown, People PROVE TotalsKnown'
  OBVIOUS
<1>1. ASSUME NEW e \in Entry, Post(e) PROVE TotalsKnown'
  <2>1. /\ db'.books = db.books \cup {e} /\ e \notin lost
        /\ UNCHANGED <<backup, pc, before, lost>>
    BY <1>1 DEF Post, run, past, ErpInv, TypeOK
  <2>2. IsFiniteSet(db.books \cup {e})
    BY FS_AddElement DEF TotalsKnown
  <2> QED BY <2>1, <2>2 DEF TotalsKnown
<1>2. CASE ContainersRemoved \/ RecreateByHand
  BY <1>2 DEF ContainersRemoved, RecreateByHand, run, TotalsKnown
<1>3. ASSUME NEW v \in Version, RestoreByHand(backup[v]) PROVE TotalsKnown'
  BY <1>3 DEF RestoreByHand, run, TotalsKnown
<1> QED BY <1>1, <1>2, <1>3 DEF People

LEMMA TotalsKept == ErpInv /\ TotalsKnown /\ [Next]_vars => TotalsKnown'
<1>1. ASSUME TotalsKnown, UNCHANGED vars PROVE TotalsKnown'
  BY <1>1 DEF vars, host, run, past, TotalsKnown
<1> QED BY <1>1, RoleTotals, PeopleTotals DEF Next

LEMMA TotalsHold == Spec => []TotalsKnown
BY InitTotals, TotalsKept, ErpInvHolds, PTL DEF Spec

\* An upgrade that ends well has lost none of the entries its totals were taken of.
\* Equal totals mean it, though a count and a sum do not determine a ledger: at
\* most one entry is gone, and what could stand in for it has another number.
THEOREM NoSilentLoss == Spec => LossIsReported
<1> DEFINE Reported ==
      pc = "compare" /\ pc' = "idle" /\ result' = "ok" => before \cap lost = {}
<1>1. ErpInv /\ TotalsKnown /\ [Next]_vars => [Reported]_vars
  <2> SUFFICES ASSUME ErpInv, TotalsKnown, Next, pc = "compare", pc' = "idle", result' = "ok"
               PROVE  before \cap lost = {}
    OBVIOUS
  <2>1. Compare
    BY DEF Next, Role, People, Deploy, Decide, MakeRoom, LedgerBefore, Backup, BringUp, Migrate,
           MigrateHalf, Cut, Ends, Post, ContainersRemoved, RecreateByHand, RestoreByHand, run
  <2>2. Totals(db.books) = Totals(before)
    BY <2>1 DEF Compare, Ends
  <2>3. Cardinality(db.books) = Cardinality(before) /\ SumSet(db.books) = SumSet(before)
    BY <2>2 DEF Totals
  <2>4. /\ \A y \in db.books : y \in Nat
        /\ \A y \in before : y \in Nat
    BY DEF ErpInv, TypeOK
  <2>5. before \subseteq db.books
    <3>1. ASSUME NEW e \in before, before \ {e} \subseteq db.books PROVE before = db.books
      BY <2>3, <2>4, <3>1, TotalsTell DEF TotalsKnown
    <3> QED BY <3>1 DEF TotalsKnown
  <2> QED BY <2>5 DEF TotalsKnown
<1> QED BY <1>1, ErpInvHolds, TotalsHold, PTL DEF Spec, LossIsReported
=============================================================================
