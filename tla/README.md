# Formal models of bezaforge-infrastructure

The repository configures a small private cloud: Terraform declares the virtual
machines, Ansible roles configure every host, and timers on the hosts watch,
copy and report. Most of it is desired state, each task idempotent on its own.
The models here are of the rest: the roles and scripts whose correctness
depends on the **order** in which things happen, on what a run that stops half
way leaves behind, or on what one process read before another one wrote.

Paths are from the root of the repository. `X:n` is line n of file X.

1. [The modules](#the-modules)
2. [PostgresMajor](#postgresmajor), [DeployDrift](#deploydrift), [ErpnextUpgrade](#erpnextupgrade), [GitMirrorSync](#gitmirrorsync), [LangfuseExport](#langfuseexport), [OpenProject](#openproject)
3. [What is proved](#what-is-proved)
4. [Disagreements with the code and the docs](#disagreements-with-the-code-and-the-docs)
5. [Inventory of the system](#inventory-of-the-system)
6. [Plan](#plan)
7. [Running the checks](#running-the-checks)

## The modules

| module | what it is |
|---|---|
| `AppDatabase` | abstract: one database per application, changed by nothing but the application |
| `PostgresMajor` | `roles/postgres-major` in the loop of `roles/services`; implements `AppDatabase` |
| `DeployDrift` | `site.yml`, `roles/deploy-stamp`, Prometheus and `scripts/deploy-drift-check.py` |
| `ErpnextUpgrade` | the upgrade path of `roles/erpnext` |
| `GitMirrorSync` | `bezaforge-git-mirror-sync.py` with merges, `git land` and kills around it |
| `LangfuseExport` | `scripts/token-usage/to-langfuse.py`, and the Codex reader of `token-usage.py` |
| `OpenProject` | `scripts/openproject/op_provision.py` and `op_build.py` over OpenProject's API |
| `Mirrors` | abstract: mirrors that go forward along GitHub's main and nowhere else; `GitMirrorSync` implements it |
| `SetSums` | lemmas about the sum of a finite set, for the ledger totals |
| `..._proofs` | the theorems about each of the six (two modules for LangFuse) |
| `MC...` | constants of the instances TLC checks |

Common conventions. One action is one Ansible task, HTTP call or command with
an effect; a run is a program counter over them, so it can stop between any two.
Files, rows, commits and images are members of small sets. Variables marked
(history) are not in the code: they remember what an honest observer would
know, and only properties read them. An operator named `Action_Slip` is a
plausible mistake in `Action`; each property is listed in `PROJECT.json` with a
slip that breaks it, which shows that the property depends on the code.

## PostgresMajor

**What the code does.** A deploy copies the compose files
(`roles/services/tasks/main.yml:48-123`), includes `postgres-major` once per
entry of `services_postgres_majors` (`:244-262`), and then starts all stacks
(`:264-272`). The role looks at each database: an unfinished move, a database
that does not answer, an older major or a second database on the server stops
the run; the same major, or no container, is passed over. Any other is moved:
the writers are stopped, the rows counted, the database dumped, a marker
written, the new server brought up alone on a new location, checked for being
empty, restored, counted again, and the marker cleared.

**State.** `compose`, `container`, `format` and `rows` are the host: the compose file,
the database container, and for every data location the major of the data in it and the
data. A location is where the server keeps its data, which may be an anonymous volume
(`Anonymous`) that goes with its container. `apps` are the running application
containers, `marker` the in-progress file. `pc`, `todo`, `svc`, `checkout`, `before`,
`dump` are the play in each terminal. `truth` (history) is what the users have put in.

**Actions.**

| action | code |
|---|---|
| `Deploy` | the compose files, `roles/services/tasks/main.yml:48-123` |
| `Consider` | the checks, `roles/postgres-major/tasks/main.yml:24-146` |
| `StopApp`, `AllStopped` | `docker stop` in a loop, `:156-164` |
| `CountBefore`, `Dump`, `Mark` | `:166-180`, `:182-204`, `:206-216` |
| `BringUpAlone`, `CheckTarget`, `NeverReady` | `:218-225`, `:227-282`, its retries |
| `RestoreSome`, `RestoreRest` | `pg_restore`, cut off and to the end, `:284-292` |
| `CountAfter`, `ClearMarker` | `:294-320`, `:322-341` |
| `StartStacks`, `StackDatabase`, `StackApps` | `docker compose up -d` per stack |
| `ExecFails`, `Abort` | a task that fails, or an operator who interrupts |
| `ServerReady`, `DatabaseDown`, `DatabaseStarted`, `AppWrite` | the Postgres image, docker and the application |
| `ContainersRemoved`, `TryAgain` | by hand, from `forge-ops-image-repull.md` and "To try again instead" of `postgres-major-upgrade.md:125-127` |

A dump is the set of rows it holds; that a restore can be partial is kept
(`RestoreSome` leaves any part of the dump), its text is not. `Schema` stands
for the tables an application creates when it finds none: it is what makes an
empty database and a used one tell apart, and what an application started on
the wrong database writes first.

**Runs.** All have one operator.

| run | question | instance |
|---|---|---|
| `pg_one` | do the applications stay on their data, is the way back always there, is the old location left alone, does the role implement `AppDatabase`, do applications come back, is the invariant of the proof inductive? | one service with two writers, two checkouts, two locations, two rows, two incidents; 16 thousand states |
| `pg_repull` | does a bump from 15 to 17 that forgets the new location, a crowded server or a `docker compose down` lose data? | two services, one crowded, one incident; 22 thousand states |
| `pg_removed` | is a host without the container a host without a database? **violated** | one service |

*Bounds.* Two majors and two locations give a move, its leftover and its way
back. Two rows tell an empty, a partial and a whole restore apart, and let a
write after the dump swap one row for another. Two incidents let a recovery be
interrupted. Deploys, writes and `TryAgain` are not bounded. What the bounds
cannot show, the proof does: it has none.

*Fairness* (`ServiceReturns` only). A play that is running goes on
(`WF Step`), a starting server starts, a stopped one is started by its restart
policy. `SF Deploy(o, Main)` and `SF TryAgain(s)` are about the operator, and
are assumptions on people: someone whose application is down deploys main
again, and follows the runbook while the marker is there. Incidents are
bounded, so they stop.

**Safety properties.** `UntrustedIsMarked`, `ServedIsCurrent`,
`MarkerNamesWholeDump`, `WayBackExists` and `OldLocationUntouched`, and
`UntrustedNotServed` as a part of `IInv`; each is stated in words above its
definition.

**Assumptions that matter.** `OneLocationPerMajor`: a compose entry does not
move to another location on the same major; the runbook says so and the role
would not notice. `StopList` names every writer (violate it and
`MarkerNamesWholeDump` fails: that is the slip `AllStopped_One`). One deploy
at a time: with two operators TLC violates `UntrustedNotServed`, as nothing
locks a host. Every stack is taken to wait for a healthy database
(`depends_on` with a condition); Gitea's and one of NetBox's workers have a plain
`depends_on`, and start earlier than the model lets them, on the same database.

**18 on the old mount.** Before 18 the image keeps its data where the mount is: a
bump that forgets the new location has the new server find the old data and refuse
them, and `pg_repull` is about that. From 18 on it looks one directory down, and the
documents disagree on what 18 does on a mount made for 15.
`postgres-major-upgrade.md:19-21` and `:26-30` and `netbox-compose.yml.j2:84-87`
have it start on an anonymous volume, "and the database is gone at the next
recreate"; `postgres-major-upgrade.md:4` and `tasks/main.yml:265-268` have the
server refuse to start. If the first is right, the role does not notice: the volume is
empty, so `tasks/main.yml:269-282` lets the restore go on into it, the counts agree,
the marker is cleared, and the data last as long as the container. The old
location still has them as they were at the move, but nothing says so any more. To see
it, run `pg_repull` with `Loc = {old, anon}`, `Anonymous = {anon}`,
`Major <- Majors`, `Leftover <- Newest`, `Checkout <- AstrayCheckouts` and
`Main <- Astray`: `ServedIsCurrent` is violated by a move followed by a removed
container, and with `Incident = {"abort", "db_down"}` both properties hold. Which of
the two the image does is outside the repository; the checks and theorems about
bumps claim nothing about it.

## DeployDrift

**What the code does.** `deploy-stamp` is the last role of every play. It reads
HEAD and the state of the tree, writes one stamp per role that the play applied
under the tags of the run, removes stamps of roles git no longer has, and
regenerates the host's metrics. The checker asks Prometheus for the stamps and
the dirty marks, asks Gitea for the roles and for the newest commit of each,
and exits 0 (current), 1 (behind) or 2 (invalid); its wrapper publishes that as
a gauge.

**State.** The commits (`has`, `touched`, `main`, `head`, `edited`), the play
(`pc`, `host`, `hosts`, `left`, `listed`), what each host runs (`applied`,
history), its `stamp`s, `metric`s and what Prometheus has of them (`prom`), and
the checker's answers so far. Commits are numbered in the order they are made,
so a number is also the committer timestamp the checker compares. `calm`
(history) is the set of hosts that were at rest, and scraped, when the check
behind the gauge began and that were not touched since: the checker can be held
to what it says about those.

**Actions.** `Merge`, `BranchCommit`, `CheckOut`, `Edit` are people and Renovate;
`StartPlaybook`, `ApplyRole`, `Stamp`, `Reap` (stamps of roles git no longer has),
`Publish`, `PlayFails` the playbook, with any limit and any tags; `Scrape` Prometheus;
`ReadDeployed`, `ReadDirty`, `ListRoles`, `DateRole`, `Verdict`, `Unreachable` the
checker, each read a step. `Habit` says which of five things people do: `fail` (a play
that fails), `edit` (modified files), `back` (an older checkout), `branch` (deploys from
a task branch), `midrun` (a checkout that moves under a play).

**Runs.**

| run | question | instance |
|---|---|---|
| `drift_main` | deploying main only, with failing plays, is a gauge of 0 earned? | two hosts with one role each, two commits, habit `fail`; 3.1 million states |
| `drift_hands` | are modified files never passed over, is a gauge of 1 real, is a late role reported? | one host, one role, habits `edit`, `back`, `branch`; 80 thousand states |
| `drift_new_role` | is a role merged and never deployed reported? **violated** | one host, two roles |

*Bounds.* A missed change needs two commits and a skipped role, a stale verdict
one commit during a check, a cross-host mistake two hosts.

*Fairness* (`LateIsReported` only). Prometheus scrapes every host, and a check
comes to its end: the timer fires and each of its reads has a time-out.

**Known blind spots**, found by turning more habits on. With `branch`,
`MissedChangeIsReported` fails, although `deploy-drift.md:22` lists a role
changed on main and not deployed as caught: timestamps order commits of
different branches, so a deploy from a task branch that is younger than a change
on main hides that change. With `fail` and
`edit`, `DirtyIsReported` fails: a play that stops before the stamper leaves
files of a modified tree under stamps of a clean one. With `midrun`,
`MissedChangeIsReported` fails: HEAD is read after the roles have run, so a
commit checked out meanwhile is credited to roles applied before. The last two
are inherent in a stamp written last; the runs keep these combinations out. A scrape
in the model may be late by any time but never fails: one that does takes the series
of its host away, and between the checker's two queries that is a host without
dirty marks, which `deploy-drift-check.py:278` takes for a clean tree until the next
check. `Stamp` reads HEAD and the state of the tree at once, which are two tasks; they
differ only with `midrun`. Roles
brought in with `include_role` (`postgres-major`) are never stamped.

## ErpnextUpgrade

**What the code does.** `roles/erpnext` copies the compose file, compares the
image it names with the one the running backend was created from
(`tasks/main.yml:139-181`) and refuses an older one. For a newer one it makes
room on the disk, records the ledger totals, backs the site up, recreates the
containers, runs `bench migrate` with retries and compares the totals. The
application stays up and people work in it.

**State.** `compose`, `container`, `images` are the host; `db` the database (the
release of its schema, whether a migration is half done, the ledger);
`backup[v]` the newest backup of a database of release v; `pc`, `from`, `before`,
`result` the run. `lost` and `skewed` are history.

**Actions.** `Deploy`, `Decide`, `MakeRoom`, `LedgerBefore`, `Backup`, `BringUp`,
`Migrate`, `MigrateHalf`, `Compare` are the role, `Cut` is anything that stops
it. `Post` is people at work. `ContainersRemoved` is the re-pull runbook,
`RecreateByHand` and `RestoreByHand` the way back of `erpnext-upgrade.md`.
Left out: installing Docker, the first build of the site, the nightly backup, and
the weekly prune of `roles/docker-prune`, which could take the image that
`RollbackImageKept` speaks of between the bring-up and the end of an upgrade.

**Runs.**

| run | question | instance |
|---|---|---|
| `erp_main` | is every migration backed up, is the rollback image kept, does a run that has its way leave code and database in step, is a loss reported? | three releases, two entries of different amounts, a disk for two images, two cuts; 1.4 million states |
| `erp_again` | does running it again repair a run that was cut off? **violated** | the same, one cut |

*Bounds.* Three releases let an upgrade skip one and let the prune choose the
wrong image. Two entries let one be lost and another posted in its place, which
is what the totals must tell apart. Entries are their amounts and differ: with
two entries of the same amount a count and a sum cannot tell a lost one from
one posted during the upgrade, and `LossIsReported` does not hold. The window
is a few minutes; it is listed among the hazards.

`SkewNeedsACut` names causes, and removed containers are one: a host whose
containers were taken down and that is then deployed from a newer checkout has new code
on its old database, and nothing here or in the repository excludes it.

No liveness is claimed: whether an upgrade completes is up to people.

## GitMirrorSync

**What the code does.** Every five minutes the script lists an owner's
repositories on Gitea, asks GitHub for the head of main (`wanted`), each mirror
for its own (`have`), and where they differ fetches main into a bare copy,
which it makes when there is none, and pushes it, never by force. A failure is
reported and the rest goes on. systemd kills a run after four minutes.

**State.** `github`, `has`, `stray` are the remotes: GitHub's newest commit,
the newest of these each mirror has, and the mirrors with a commit of their
own. `made` and `local` are the bare copies. `pc`, `todo`, `now`, `asked`,
`fetched`, `failures`, `result` are the run; `odd` is history. `bad` counts what
has gone wrong.

**Actions.** `List`, `HeadGitHub`, `HeadMirror`, `Mkdir`, `GitInit`, `Fetch`,
`Push`, `Finish` are the script, each with the branch where the remote does not
answer; a push whose answer is lost may have been taken. `Kill` is systemd.
`Merge`, `Land` and `CommitThere` are people.

**Runs.**

| run | question | instance |
|---|---|---|
| `git_main` | does the script implement `Mirrors`, so that a mirror only goes forward along GitHub's main and one with a commit of its own stays as it is; does a quiet run mean a copy, is a diverged mirror reported, do mirrors catch up? | two repositories on two mirrors, two commits each, one mirror that diverges, one failure or kill; 890 thousand states |
| `git_stuck` | the same for a kill between `mkdir` and `git init`: **violated** | one repository |

*Bounds.* `fetched` spans the two mirrors of one repository and must not reach
the next, hence two of each. One failure per behaviour shows that each is
contained; the copies it leaves are used by every later run, and runs are not
bounded. `HalfMade` is FALSE in `git_main` to keep the one defect of `git_stuck`
from hiding others.

*The promise.* `Mirrors` has three steps: GitHub's main grows, a mirror goes on to a
commit that main has, or it gets a commit of its own and stays. `FollowsGitHub`
says that whatever the script and people do is one of these or nothing, seen from
the remotes: no push takes a commit off a mirror, from a stale copy or after
`git land`, and none brings what GitHub does not have.

*Fairness* (`CatchesUp` only). `WF Script`: the timer fires and every step ends,
if only in an error (git runs under a timeout). People need do nothing.

Two choices of the code are not violations here but worth knowing. A repository
GitHub does not answer for is passed over and the run still ends well, as long as it
answers for one (one of its own without main counts as answered: `Finish`). A push
refused because `git land` got there first is reported as a mirror with commits
GitHub does not have; the next run finds them equal.

## LangfuseExport

**What the code does.** `to-langfuse.py` looks at every session file of Codex and
Antigravity and passes over those whose time and size are what `sent.json` says.
The others it reads: a Codex call is the step between two running totals, an
Antigravity call a row of its database; calls whose model has no price are left
out. A call's span id is made of its session and its position among the calls
that are left. What the state does not name is sent in batches; a file whose
batches all went through gets its new entry, and at the end of the run the state
is written. A state file of the release before has no span ids, and its entry is
taken over when the mark is the same. `token-usage.py` reads the same Codex
files for its report.

**State.** `log` and `half` are the files, each line with its model, its total
and what was really used (history). `priced` are the models in the tables,
`disk` and `torn` the state file, `held[f][n]` the line LangFuse has under an id,
`twice` the spans it holds two copies of until ClickHouse merges them. `pc`,
`todo`, `now`, `mark`, `mem`, `pending` are the run. `raced` and `excused` are
history: the files an old entry was taken over for that had more by then, and the
files whose calls may be sent again, because the last try to send them failed or was
lost, the run has `--all`, or their entry has no ids.

**Actions.** `Start`, with and without `--all`; `Look` (`os.stat` and the
comparison), `Read` (the file as it is by then), `Send`, `SendRefused` (refused,
taken in part, or the connection breaks: caught), `SendUnanswered` (a time-out
while waiting for the answer: not caught), `Truncate` and `Write` (one
`write_text`, between which the file is empty), `Kill`. Around them
`CodexLogs`, `CodexWrites` (half a line), `AntigravityLogs`, `Collapse`,
`AddPrice`. The contents of a span are left out but for the line it is of;
`--dry-run` changes nothing.

**Run.** `usage_main`: do state and LangFuse agree, whatever grew, was refused or
killed; do ids stay with their calls; is each call there once in the end; do the
readers count what was used? One Codex session of two lines, one Antigravity
conversation of one, two models, one of which may get a price later, batches of
two, one failure, kill or price, one `--all`; 550 thousand states.

*Bounds.* Two Codex lines with the session's own span are three spans, which a
batch of two splits. Two counters, one of which the report does not look at,
tell a restart that shows in one counter from one that shows in none. Half of the
behaviours start from the state file of the release before, with a line in each
file; a torn state file may be replaced any number of times.

*Fairness* (`Delivered` only). A run gets to its end, ClickHouse merges, and
somebody runs the script again: the last is an assumption on people, as the
script has no timer. `--all` is assumed only while the state file is torn, as
without it the script ends at once.

**Known blind spots.** The properties are about sessions that are `Steady`, where no
model that logged got a price afterwards: see the disagreements below. A file that grew
between the look and the read on the very run that takes over its old entry stays behind
until it grows again (`raced`). A total that restarts and is past its old value in every
counter by the next line cannot be seen, and is under-counted. An unanswered request
loses what the run had sent and not recorded, and a refused one the batches of that file
before it: both are sent again, and are double until the merge, as `TwiceHasACause`
says. So is a file that has grown under an entry of the release before, which is not
what the script says: see the disagreements. The report adds up a step before it looks
for a price (`token-usage.py:231-234`), so of models without one it shows tokens that
LangFuse never gets; `ReadingIsExact` compares what the two make of a line, not what
they show. Two runs at once, one session in two files, and the write-ahead log of
Antigravity's database are not modelled.

## OpenProject

**What the code does.** `op_provision.py` gives a project its description and
milestones, deletes the saved views with its own names and makes them anew,
points the dashboard at one of them and makes sure of the board. `op_build.py`
reads the first page of work packages with their lock versions, makes the epic
if it is not on that page, and sets category, type and parent of each, quoting
the lock version it read. A refused request is printed and passed over; a
connection that breaks ends the script.

**State.** `views`, `dash`, `boards`, `miles`, `about` are the project's layout,
`grids` counts the dashboards and boards of all projects,
`active` whether it is not archived, `lock`, `tagged`, `epics` its work packages.
`pc`, `todo`, `cat`, `seen` are the script; `trouble` and `edited` are history.

**Actions.** `Provision`, `SetProject`, `ListVersions`, `AddMilestone`, `ListQueries`,
`DeleteQuery`, `CreateQuery`, `FindDashboard`, `ChangeDashboard`, `MakeDashboard`,
`EnsureBoard`, `PostBoard` are `op_provision.py`, `FetchItems`, `CreateEpic`,
`PatchItem` are `op_build.py`, each one request with its refused branch; `Stops` is a
broken connection or an interrupt. `ChangeView`, `AddGrid`, `ChangeItem`, `Archive` are
people. Dashboard and board are looked for on one page of the grids of all projects
(`:119`, `:138`), and made when they are not on it (`Missed`). The preflight, and
categories and types, are taken to be there.

**Run.** `op_main`: does an undisturbed run end in the standard layout whatever
it found, are others' views and later edits kept, is the epic made once, do the
scripts repair what a stopped one left? Two standard views and one of
somebody's, one milestone, two work packages, pages of four (of two for the grids), two
refusals or stops, one change by people; 457 thousand states.

*Bounds.* A page of four is full when two runs have left duplicates, so both
sides of the page limit occur (the code's is 200); a page of two grids (100) is full
when the project has its dashboard and its board, and `MaxGrids` lets runs start
past it. Two failures let a failed
list be followed by a stop. With `MaxEdits = 2` the run is too long to be of use;
`OthersKept` and `EditsKept` do not depend on it, as they are proved. `MaxViews`
keeps the duplicates bounded.

*Fairness* (`Repaired` only). A running script gets to its end, and somebody
runs each again and again (`SF`, as an archived project refuses `op_build.py`
meanwhile): an assumption on people.

**Known blind spots.** A list of views that is refused counts as "no views": the
run deletes nothing and adds a second set, without an error in its summary, and
the next good run removes both. A failed delete is not reported. When the view by
category cannot be made, the dashboard shows none. Past a full page duplicates
accumulate, and the epic may be made twice. Past a full page of grids, which other
projects fill, every run posts another board, with nothing in its way, and may try
another dashboard. Each needs `trouble`, or something that is not on a page, and the
properties say so. Two scripts at once are not modelled.

## What is proved

Eight modules of theorems, checked by TLAPS to the last leaf, each for every value
of the constants that satisfies the assumptions of its component's module
(`ConstantsTyped`, `OneLocationPerMajor` and `LeftoverIsNewest`; `DriftTyped`;
`ErpTyped`; `SyncTyped`; `ExportTyped`; `ProjectTyped`).

| module | theorem | states | assumes besides |
|---|---|---|---|
| `PostgresMajor_proofs` | `TypeCorrect` | `TypeOK` | nothing |
| | `MoveInvariant` | `IInv` | `SingleOperator`, `EveryWriterStopped`, `NothingRemoved` |
| | `ApplicationsOnTheirData` | `ServedIsCurrent` | the same |
| | `AlwaysAWayBack` | `WayBackExists` | the same |
| | `HalfDoneIsMarked` | `UntrustedIsMarked` | the same |
| | `DumpIsWhole` | `MarkerNamesWholeDump` | the same |
| | `OldDataUntouched` | `OldLocationUntouched` | the same |
| | `RoleKeepsPromise` | `KeepsPromise` | the same |
| | `BumpsServeTheirData` | `ServedIsCurrent` | `SingleOperator`, `LocationsKept` |
| | `BumpsHaveAWayBack` | `WayBackExists` | the same |
| | `BumpsKeepPromise` | `KeepsPromise` | the same |
| | `DeploysEnd` | bound on the tasks of a deploy | `Service`, `StopList` finite |
| `DeployDrift_proofs` | `TypeCorrect` | `TypeOK` | nothing |
| | `MissedChangesReported` | `MissedChangeIsReported` | `MainOnly` |
| | `NoneLeftOut` | `NothingLeftOut` | `MainOnly` |
| | `ModifiedFilesReported` | `DirtyIsReported` | `WholePlays` |
| | `AlarmsAreReal` | `BehindIsReal` | `WholePlays` |
| `ErpnextUpgrade_proofs` | `TypeCorrect` | `TypeOK` | nothing |
| | `RollbackKept` | `RollbackImageKept` | nothing |
| | `SkewIsACut` | `SkewNeedsACut` | nothing |
| | `MigrationsBackedUp` | `BackedUpBeforeMigrated` | nothing |
| | `NoSilentLoss` | `LossIsReported` | nothing |
| `GitMirrorSync_proofs` | `TypeCorrect` | `TypeOK` | nothing |
| | `NeverOverwrites` | `NothingOverwritten`, defined there | nothing |
| | `MirrorsFollow` | `FollowsGitHub` | nothing |
| | `QuietRunsCopied` | `QuietMeansCopied` | nothing |
| | `DivergenceReported` | `DivergedIsReported` | nothing |
| | `RunsEnd` | bound on the steps of a run | `Repo` finite |
| `LangfuseExport_proofs` | `ReadingExact` | `ReadingIsExact` | nothing |
| `LangfuseState_proofs` | `TypeCorrect` | `TypeOK` | nothing |
| | `SentCorrect` | `SentIsHeld` | nothing |
| | `SkippedCorrect` | `SkippedIsSent` | nothing |
| | `IdsCorrect` | `IdsAreStable` | nothing |
| | `TwiceCorrect` | `TwiceHasACause` | nothing |
| | `RunsEnd` | bound on the steps of a run | `File` finite |
| `OpenProject_proofs` | `TypeCorrect` | `TypeOK` | nothing |
| | `EpicOnce` | `OneEpic` | nothing |
| | `OthersStay` | `OthersKept` | nothing |
| | `EditsStay` | `EditsKept` | nothing |
| | `RunsLayOut` | `RunLaysOut` | nothing |
| | `RunsEnd` | bound on the requests of a run | `Standard`, `Milestone`, `Item` finite |

**Postgres.** `SingleOperator`: one terminal. `EveryWriterStopped`:
`StopList = App`. `NothingRemoved`: nobody takes a container down by hand
(`pg_removed` shows why). They are the conditions under which the role works;
aborts and database restarts may happen at any step. `LocationsKept`: no checkout
names another location than the host's, nor is that an anonymous volume, in which case
the other two are not needed.

`ServedIsCurrent` is not inductive: that an application may be started depends on
what the run that starts it saw before, and that depends on what earlier runs
left. `IInv` adds what each step relies on:

- `Located`: a data directory is known by the major in it, because a major has
  one location per service; so "the old data" is well defined.
- `NothingYet`: a service with no container never had data, so the stack start
  may bring a blank database up.
- `OldDataWhole`: under a marker, every location of the old major holds exactly
  what the users left.
- `RunKnows`: what the run at each task has established about the service it is
  moving (`Moving`) and about those it is done with (`Settled`). The dump is the
  truth from the moment it is taken, the target is empty before the restore, part
  of the dump during it, and the dump after.

The proof splits `IInv` into what is about the host (`HostInv`: one lemma per
action) and what is about the run (`RunKnows`: one lemma per group of actions).
`MoveInvariant` puts them together, and `pg_one` checks `IInv` itself.

*Bumps.* With `LocationsKept` (no checkout names another location than the
host's, and that one is not anonymous), which is `pg_repull`'s checkouts, the new
server refuses the old data, and the invariant is another one, `BumpInv`: the one
location in use has what the users left (`BumpHost`), and no play gets past the wait
for the new server (`BumpRun`). So the role restores into nothing, whoever removes
containers, and whatever the stop list leaves running. The assumption is that the data
are looked for in the same place, so this is about majors before 18, and not about
what 18 does on an old mount.

*The refinement.* The abstract `up[s]` is "some application container of s
runs", and `data[s]` is what the database container holds while one does, else
what the users left. By `ServedIsCurrent`, before and after a step, `data` is
`truth` in both cases (`DataIsTruth`, `DataIsTruthAfter`). Only four actions
touch applications or `truth`: `StopApp` is a stutter until the last container
goes and then `Stop`; `StackApps` is `Start`, or `Write` if the application was
up; `AppWrite` is `Write`; and `ContainersRemoved`, which only `BumpsKeepPromise`
meets, is a `Stop` too. Everything else is a stutter.

**Deploy drift.** `MainOnly` (no habit `back`, `branch` or `midrun`) and
`WholePlays` (no habit `fail` or `midrun`) are what the blind spots above leave.

- Under `MainOnly` the invariant is `LineInv`. The commits are one line
  (`InLine`): a role not touched between two commits is the same in both. Every
  stamp and metric speaks of a commit the host is not behind (`Covered`); that a
  play may have stopped half way is harmless, because the stamps are then older
  than what runs. `CalmKnown` and `DatedKnown` carry this through the checker's
  reads: its answers are those of some main between the start of the check and
  now. `Earned` is the property at the verdict.
- Under `WholePlays` it is `TrustInv`: once a play is over, no stamp hides a
  modified file or a newer commit (`Trusted`), whatever branch it came from;
  metrics and answers of hosts at rest repeat the stamps.

**ERPNext.** `ErpInv`: a run knows its container is the one it found until it
brings the stack up (`RunKnown`), so the image that must stay is always one of
two (`ImagesKnown`); outside a migration a skew has a cause (`SkewKnown`); and
from the backup to the migration the newest backup is of the schema at hand and
holds every entry of the totals taken before it (`BackupKnown`).

`NoSilentLoss` adds `TotalsKnown`: when the totals are compared, the ledger has all
entries they were taken of, or all but one. That this is enough is arithmetic over
sets (`TotalsTell` in `SetSums`): two finite sets of the same size and the same sum,
one of which has all but one element of the other, are the same. `SumSet` takes
elements in an order of its own choice; that the order does not matter (`SumRemove`)
is an induction over finite sets, done as a smallest counterexample, as the
library's induction theorem cannot be applied.

**Git mirrors.** `NothingOverwritten` holds of every step by itself. `MirrorsFollow`
says more, and needs `CopyIsBehind`: a bare copy has no commit that GitHub's main
has not, so a push from it is a `Follow`, however long ago it was fetched. The other
two need `SyncInv`: what a run has established over the pairs of repository and mirror
it has `Passed`: each it did not report has what GitHub answered with, and did
not diverge while it was looked at.

**LangFuse.** `LogKnown`: a line's total is the one before plus what was used, or starts
again. From it, both readers' arithmetic, for any counters and amounts: `ReadRight` is
proved once for any set of counters, and used for the exporter's and the report's. The
rest is `ExportInv`. The heart of it is about a set of lines that only grows at its end,
as a session's does: numbering it gives every line one number, and growing it moves none
(`NumFacts`, `SpansFacts`, `GrowFacts`, by cardinality). So a file that grows keeps its
ids, and one with the same mark has the same spans (`SpansGrow`). Over that, for every
file the properties speak of (not in `raced`, and `Steady` where they say so): what
LangFuse holds is what the file has under that id (`HeldKnown`); a mark in the state, or
in an item waiting to be sent, is no later than the file's, and if it is the file's own
then all of it is held, or is in the item (`StateKnown`, `SendingKnown`); what is
neither looked at nor waiting has nothing left (`RunKnown`); and of every file that is
not `excused` each call held is in the state, in memory, or sent by this run
(`CauseKnown`). A failure takes only the last away, and only from the files it touched,
which is why the others need no assumption on failures.

**OpenProject.** `OpInv`: what is left of a loop is the script's own
(`LoopKnown`), and an item somebody changed has a lock version past the one the
script read (`ItemsKnown`). That a new view's number is free is a pigeonhole over
the finite set of numbers taken. `RunsLayOut` adds `LaidOut`: what a run with
nothing in its way has of the layout at each task, such as that no view of its own
is left but those it is about to delete, that each made so far is there once, and that a
board it is about to make is the first.

**How long a run takes.** `DeploysEnd` and the three `RunsEnd` each give a measure,
`StepsLeft`: it is never more than a bound in the sizes of the constants, each step of
the run (an abort or a kill included) lowers it, never below zero, and nothing done
around the run changes it. So a run has no loop that failures, people or files that grow
could keep it in. It rests on details of each script: that a loop works off a list read
once (`Item`, a page of `PageSize` views), that a batch that was sent is not sent again,
that the writers are stopped once each. With several terminals another deploy may start
writers again and so raise the measure of the first; `DeploysEnd` makes no claim about
that step.

**Only model-checked.** Liveness (`ServiceReturns`, `LateIsReported`,
`CatchesUp`, `Delivered`, `Repaired`), as it depends on fairness, which the prover
does not reach. What `StepsLeft` adds is that fairness is needed only for a run to
take its next step, not for it to have a last one.

## Disagreements with the code and the docs

Each is shown by the run named, and described in full in `PROJECT.json`.

- `pg_removed`: after `docker compose down` a deploy that brings a new major
  starts the application on an empty database. `tasks/main.yml:48-49` takes a
  missing container for a new host.
- `drift_new_role`: a role merged and never deployed has no stamp, and the
  comparison iterates over stamps. `deploy-drift.md:24` lists it as caught.
- `erp_again`: a run cut off between the bring-up and the migrate is not
  repaired by running it again: the second run finds the wanted image running.
- `git_stuck`: a run killed between `mkdir` and `git init` leaves a directory
  that every later run takes for a repository.

Met while reading, without a run. `postgres-major-upgrade.md:113-114` goes back
by deploying the reverted change and removes the marker in the step after. Neither
order works as written: while there is a marker the role refuses every deploy
(`tasks/main.yml:37-46`), and with the marker gone it refuses to go from the newer
major, which still answers, to the older (`:105-113`). The new database container has to
be removed by hand first; then the role takes the host for one without a database
and the stack starts on the old location. What 18 does on a mount made for an older
major is told in two ways: see PostgresMajor. `to-langfuse.py:25-26` and `:365-367`
and `scripts/token-usage/README.md:50` have a changed file send only the calls not
sent before; one with an entry of the release before that has grown since sends all of
them again (`:362`, `:368`). The ERPNext refusal of an older image
says nothing was touched, though the compose file was copied before it.
`scripts/token-usage/README.md:56` says of a model without a price "add it and
re-run": a session that has not changed since is passed over and its calls are
never sent, and in one that has, the calls that now have a price shift the
positions, and so the ids, of those after them (`--all` sends them, under the
new ids).

## Inventory of the system

| component | state it keeps | operations | what is hard | correct when | here |
|---|---|---|---|---|---|
| Postgres major upgrade | compose file, container, data locations, marker, dump | tasks of the role, recovery by hand | a run that stops anywhere; stale decisions | see above | `PostgresMajor` |
| Service deployment | compose files, `.env`, running stacks | copy, move databases, start stacks | refusal of one service leaves all down | stacks start only over databases that are done | the part around the move, in `PostgresMajor` |
| Deploy drift | stamps, metrics, scraped series, gauge | stamp, publish, scrape, check | reads at different times, commits out of order | a 0 is earned, a 1 is real | `DeployDrift` |
| ERPNext upgrade | image, site database, backups, totals | tasks of the role, way back | application stays up; cut runs | no migration without a way back, no skew, no silent loss | `ErpnextUpgrade` |
| Git mirror sync | bare copies, failures of a run | list, compare, fetch, push | remotes move meanwhile; kills | never overwrites, reports, catches up | `GitMirrorSync` |
| Token usage to LangFuse | `sent.json`: mark and span ids per file | read sessions, send batches, write state | ids are positions of priced calls; a batch refused half way; files that grow meanwhile | every call there once, none hidden by the state | `LangfuseExport`; Claude's reader and the report's sums not |
| DNS failover and failback | resolved's current server; count and time of failbacks | probe, restart, export | primary that flaps; backoff; restart races the probe | back on the primary once it answers; never restarted in a loop | not modelled |
| Host watch | fails, down since, last post per host | check, post, record | message posted and run killed before the record | a host down is announced, and its return; no message lost | not modelled |
| Syncthing mesh and check | devices and folders per host, stall state | accept, share, drop, check | hosts deployed at different times; stall against catching up | folders converge to the inventory; a stall is reported | not modelled |
| Backup pipeline | dumps, rsync copy, snapshots, replica, off-site | six timers | a dump that fails before `rsync --delete`; a job that reads what another writes | a good copy survives any one failed night, and the failure is reported | not modelled |
| Fleet update | checkout, hosts done | update host by host, health | stale checkout, stop half way | no host updated from an old checkout; health at the end | not modelled |
| OpenProject provisioning | views, dashboard, board, milestones, work packages behind an API | delete by name and create, ensure, tag by lock version | refusals printed and passed over; stops between delete and create; people at work | a second run ends in the same state, nobody's work lost | `OpenProject`; `op_provision_rails.rb` not |
| AdGuard reconciliation | settings over an API | read, change what differs | several resources, one request each | converges, changes nothing when equal | not modelled |
| Docker firewall | iptables chains | flush and rebuild | packets and docker's own restart in between | a published port is never open to the outside | not modelled |
| Kernel pin | GRUB default, holds, installed kernels | pin, hold, autoremove | several passes and reboots | the pinned kernel is installed while it is the default | not modelled |
| DNS parity check | a metric file | compare two zones | none between runs | | not modelled |
| Docker engine, data directory, prune | packages, images | install, prune | the prune, seen by `ErpnextUpgrade` | | not modelled |
| Ollama, ComfyUI | pinned builds | install | none | | not modelled |
| Monitoring stack, rules, dashboards | configuration | deploy, export | evaluated by Grafana | | not modelled, but for the drift check |
| Host baseline | packages, users, network | idempotent tasks | none between tasks | | not modelled |
| Virtual machines | Terraform state | plan, apply | Terraform's own | | not modelled |
| CI and Renovate | outside the repository | merge | appear as `Merge` | | not modelled |
| Static container configuration | files | none | none | | not modelled |

How they interact. A merge on main (people, or Renovate) reaches the laptop and
the mirrors through `git land` and the mirror sync; the fleet update and
`site.yml` deploy it from a checkout; `deploy-stamp` records that and the drift
check compares it with main. The deploy runs the two upgrade roles. The backup
jobs read the databases those roles move, over NFS and on timers of their own.
The watchers (host watch, DNS check, drift check, Syncthing check) write metric
files or post, and never act on what others keep, but for the DNS failback,
which restarts the resolver.

`PROJECT.json` lists the hazards of the modelled parts, each at its line, with
the properties that cover it or the reason none does.

## Plan

Done: `AppDatabase` and `PostgresMajor` (the only code here that can lose a
user's data by itself), `DeployDrift` (what the operator believes about
everything else), `ErpnextUpgrade`, `GitMirrorSync`, `LangfuseExport`,
`OpenProject`; theorems about all six.

Next to model, each a component with an order worth checking:

1. `BackupPipeline`: the six jobs as processes over one abstract chain of
   copies. Abstract: `KeptCopies`, at every moment some copy holds what the
   application had at most n good nights ago. One failed job a night, dumps
   half written, `--delete`, retention.
2. `DnsFailback` with `HostWatch` beside it: time as small ticks; failback
   within the backoff, announcements at least once. Liveness under the timers.
3. `SyncthingMesh`, then `FleetUpdate`, which would compose `DeployDrift`'s
   playbook with the host-by-host loop.
4. `DockerFirewall`, `AdGuardReconcile`, `KernelPin`, as far as they have an
   order worth checking.

Not modelled, and not planned: components that are desired state (host baseline,
virtual machines, static configuration, Ollama and ComfyUI, the monitoring
stack), where no step depends on the order of others; the DNS parity check, one
process without state; CI and Renovate, which run elsewhere and appear as merges.

Next to prove: the same bound for the ERPNext role and the drift checker; that two
terminals do no harm to each other as long as their services differ; what survives
of `UntrustedIsMarked` with `LocationsKept`, where a marker and a removed container
can meet.

No module declares a `RECURSIVE` operator.

## Running the checks

    tlc -config PostgresMajor_one.cfg MCPostgresMajor
    tlapm PostgresMajor_proofs.tla

Each run of `PROJECT.json` names its module and `.cfg`. The passing runs take
from seconds to three minutes; of the proofs `PostgresMajor_proofs` takes about
four minutes, `DeployDrift_proofs` and `LangfuseState_proofs` one to two, the others
about one or less. Deadlock is
checked in all runs. Runs marked "violated" end with the counterexample their
finding describes.
