---------------------------- MODULE DeployDrift ----------------------------
(***************************************************************************)
(* "Merged" against "deployed".  roles/deploy-stamp, last in every play of *)
(* site.yml, records on the host which commit each role was applied from;  *)
(* Prometheus scrapes the record; scripts/deploy-drift-check.py compares   *)
(* it with main on a timer and publishes 0 (current), 1 (behind) or 2      *)
(* (invalid).  Commits are numbered in the order they are made, so a       *)
(* commit is its own committer timestamp.                                  *)
(***************************************************************************)
EXTENDS Naturals, FiniteSets

CONSTANTS
    Host,        \* one per play of site.yml
    Role,        \* directories of ansible/roles
    RolesOf,     \* RolesOf[h]: the roles the play of h lists
    Initial,     \* the roles of the first commit
    Habit,       \* what the operator and the hosts may do: see below
    MaxCommits   \* how many commits are made

\* "fail": a play may fail at any role.  "edit": tracked files may be modified.
\* "back": an older commit of main may be checked out.  "branch": commits may
\* be made and deployed off main.  "midrun": the checkout may move under a play.
Habits == {"fail", "edit", "back", "branch", "midrun"}

ASSUME DriftTyped ==
    /\ RolesOf \in [Host -> SUBSET Role]
    /\ Initial \subseteq Role
    /\ Habit \subseteq Habits
    /\ MaxCommits \in Nat \ {0}

VARIABLES
    has,       \* has[c]: the roles in the tree of commit c
    touched,   \* touched[c][r]: the newest commit up to c that touched role r
    last,      \* the newest commit anywhere
    main,      \* the head of main
    merged,    \* the commits of main
    head,      \* what the control node has checked out
    edited,    \* roles with modified tracked files there
    pc,        \* the playbook: "idle", "roles", "reap" or "publish"
    host,      \* the play it is at
    hosts,     \* the plays it has left
    left,      \* the roles the play has left
    listed,    \* the roles the tags select of those site.yml had at the start
    applied,   \* applied[h][r]: what the host runs (history)
    stamp,     \* stamp[h][r]: /etc/bezaforge/deployed/<role>
    metric,    \* the textfile metrics of the host
    prom,      \* what Prometheus has scraped
    step,      \* the checker: "idle", "dirty", "list" or "history"
    deployed,  \* its answers so far: the timestamps,
    dirty,     \* the pairs marked dirty,
    roles,     \* the roles it lists and has yet to date,
    wanted,    \* the newest commit of each, 0 for none
    exit,      \* the verdict published
    since,     \* main when the check behind the verdict began (history)
    calm       \* hosts scraped before that check began and left alone since
               \* (history)

repo == <<has, touched, last, main, merged, head, edited>>
play == <<pc, host, hosts, left, listed>>
fleet == <<applied, stamp, metric, prom>>
answers == <<deployed, dirty, roles, wanted>>
verdict == <<exit, since, calm>>
check == <<step, answers, verdict>>
vars == <<repo, play, fleet, check>>

Commit == 1..MaxCommits
NoStamp == [ts |-> 0, dirty |-> FALSE]
Stamps == [Host -> [Role -> [ts : 0..MaxCommits, dirty : BOOLEAN]]]
Nothing == [h \in Host |-> [r \in Role |-> 0]]
NoCommit == [r \in Role |-> 0]

TypeOK ==
    /\ has \in [Commit -> SUBSET Role]
    /\ touched \in [Commit -> [Role -> 0..MaxCommits]]
    /\ last \in Commit /\ main \in 1..last /\ head \in 1..last
    /\ merged \subseteq 1..last /\ edited \subseteq Role
    /\ pc \in {"idle", "roles", "reap", "publish"}
    /\ host \in Host /\ hosts \subseteq Host
    /\ left \subseteq Role /\ listed \subseteq Role
    /\ applied \in [Host -> [Role -> [v : 0..MaxCommits, edited : BOOLEAN]]]
    /\ stamp \in Stamps /\ metric \in Stamps /\ prom \in Stamps
    /\ step \in {"idle", "dirty", "list", "history"}
    /\ deployed \in [Host -> [Role -> 0..MaxCommits]]
    /\ dirty \in SUBSET (Host \X Role)
    /\ roles \subseteq Role /\ wanted \in [Role -> 0..MaxCommits]
    /\ exit \in 0..2 /\ since \in 1..last
    /\ calm \in SUBSET Host

\* Nothing is deployed yet, and the gauge has no good news to give.
Init ==
    /\ has = [c \in Commit |-> IF c = 1 THEN Initial ELSE {}]
    /\ touched = [c \in Commit |-> [r \in Role |->
                    IF c = 1 /\ r \in Initial THEN 1 ELSE 0]]
    /\ last = 1 /\ main = 1 /\ merged = {1} /\ head = 1 /\ edited = {}
    /\ pc = "idle" /\ host \in Host /\ hosts = {} /\ left = {} /\ listed = {}
    /\ applied = [h \in Host |-> [r \in Role |-> [v |-> 0, edited |-> FALSE]]]
    /\ stamp = [h \in Host |-> [r \in Role |-> NoStamp]]
    /\ metric = stamp /\ prom = stamp
    /\ step = "idle"
    /\ deployed = Nothing /\ dirty = {} /\ roles = {} /\ wanted = NoCommit
    /\ exit = 2 /\ since = 1 /\ calm = {}

-----------------------------------------------------------------------------
(* The repository and the control node's checkout.                          *)

\* A commit on top of c that changes, adds or deletes roles; one that touches
\* none changes a document.
NewCommit(c, rs, deletes) ==
    /\ last < MaxCommits
    /\ deletes => rs # {} /\ rs \subseteq has[c]
    /\ last' = last + 1
    /\ has' = [has EXCEPT ![last + 1] = IF deletes THEN has[c] \ rs ELSE has[c] \cup rs]
    /\ touched' = [touched EXCEPT ![last + 1] =
         [r \in Role |-> IF r \in rs THEN last + 1 ELSE touched[c][r]]]

\* A change lands on main: git land, or Renovate merging by itself.
Merge(rs, deletes) ==
    /\ NewCommit(main, rs, deletes)
    /\ main' = last + 1
    /\ merged' = merged \cup {last + 1}
    /\ UNCHANGED <<head, edited, play, fleet, check>>

MayMove == pc = "idle" \/ "midrun" \in Habit

BranchCommit(rs) ==
    /\ "branch" \in Habit /\ MayMove
    /\ NewCommit(head, rs, FALSE)
    /\ head' = last + 1
    /\ UNCHANGED <<main, merged, edited, play, fleet, check>>

CheckOut(c) ==
    /\ MayMove
    /\ c \in merged
    /\ c = main \/ "back" \in Habit
    /\ c # head
    /\ head' = c
    /\ edited' = {}
    /\ UNCHANGED <<has, touched, last, main, merged, play, fleet, check>>

Edit(r) ==
    /\ "edit" \in Habit /\ MayMove
    /\ r \in has[head]
    /\ edited' = IF r \in edited THEN edited \ {r} ELSE edited \cup {r}
    /\ UNCHANGED <<has, touched, last, main, merged, head, play, fleet, check>>

-----------------------------------------------------------------------------
(* A run of site.yml, with or without tags and limit.                       *)

Selected(h) == RolesOf[h] \cap listed

StartPlaybook(limit, tags) ==
    /\ pc = "idle"
    /\ pc' = "roles"
    /\ listed' = has[head] \cap tags
    /\ \E h \in limit :
         /\ host' = h /\ hosts' = limit \ {h}
         /\ left' = RolesOf[h] \cap listed'
    /\ UNCHANGED <<repo, fleet, check>>

\* A role is applied from the working tree as it is by then.
ApplyRole(r) ==
    /\ pc = "roles"
    /\ r \in left
    /\ applied' = [applied EXCEPT ![host][r] =
                     [v |-> touched[head][r], edited |-> r \in edited]]
    /\ left' = left \ {r}
    /\ calm' = calm \ {host}
    /\ UNCHANGED <<repo, pc, host, hosts, listed, stamp, metric, prom>>
    /\ UNCHANGED <<step, answers, exit, since>>

\* A slip in Stamp: every role of the play is stamped, whatever the tags.
Stamp_IgnoresTags ==
    LET mine == [ts |-> head, dirty |-> edited # {}] IN
    /\ pc = "roles" /\ left = {}
    /\ stamp' = [stamp EXCEPT ![host] =
         [r \in Role |-> IF r \in RolesOf[host] THEN mine ELSE stamp[host][r]]]
    /\ pc' = "reap"
    /\ UNCHANGED <<repo, host, hosts, left, listed, applied, metric, prom, check>>

\* A slip in Stamp: the tree is never looked at for modified files.
Stamp_NotDirty ==
    LET mine == [ts |-> head, dirty |-> FALSE] IN
    /\ pc = "roles" /\ left = {}
    /\ stamp' = [stamp EXCEPT ![host] =
         [r \in Role |-> IF r \in Selected(host) THEN mine ELSE stamp[host][r]]]
    /\ pc' = "reap"
    /\ UNCHANGED <<repo, host, hosts, left, listed, applied, metric, prom, check>>

\* HEAD and the state of the tree are read now, and every selected role of the
\* play is stamped with them.  A loop that fails half way leaves what a play with
\* fewer tags, and one that failed before its stamps, leave behind.
Stamp ==
    LET mine == [ts |-> head, dirty |-> edited # {}] IN
    /\ pc = "roles" /\ left = {}
    /\ stamp' = [stamp EXCEPT ![host] =
         [r \in Role |-> IF r \in Selected(host) THEN mine ELSE stamp[host][r]]]
    /\ pc' = "reap"
    /\ UNCHANGED <<repo, host, hosts, left, listed, applied, metric, prom, check>>

\* Stamps of roles that the commit checked out by now does not have are removed.
Reap ==
    /\ pc = "reap"
    /\ stamp' = [stamp EXCEPT ![host] =
         [r \in Role |-> IF r \in has[head] THEN stamp[host][r] ELSE NoStamp]]
    /\ pc' = "publish"
    /\ UNCHANGED <<repo, host, hosts, left, listed, applied, metric, prom, check>>

\* The metrics are regenerated and the next play starts.
Publish ==
    /\ pc = "publish"
    /\ metric' = [metric EXCEPT ![host] = stamp[host]]
    /\ calm' = calm \ {host}
    /\ \/ /\ hosts = {} /\ pc' = "idle" /\ listed' = {}
          /\ UNCHANGED <<host, hosts, left>>
       \/ \E h \in hosts :
            /\ pc' = "roles" /\ host' = h /\ hosts' = hosts \ {h}
            /\ left' = Selected(h) /\ UNCHANGED listed
    /\ UNCHANGED <<repo, applied, stamp, prom>>
    /\ UNCHANGED <<step, answers, exit, since>>

\* With one host to a play, a task that fails ends the playbook.
PlayFails ==
    /\ "fail" \in Habit
    /\ pc # "idle"
    /\ pc' = "idle" /\ hosts' = {} /\ left' = {} /\ listed' = {}
    /\ UNCHANGED <<repo, host, fleet, check>>

\* A scrape may be late by any time.  One that fails, and takes the series of the
\* host away until the next one, is not modelled.
Scrape(h) ==
    /\ prom' = [prom EXCEPT ![h] = metric[h]]
    /\ UNCHANGED <<repo, play, applied, stamp, metric, check>>

-----------------------------------------------------------------------------
(* deploy-drift-check.py, under its wrapper.                                *)

\* A host at rest whose last play is in Prometheus already.
Quiet(h) == prom[h] = metric[h] /\ (pc = "idle" \/ host # h)

\* The first query.  A run publishes nothing before it ends, so the verdict
\* on view belongs to the check before: since and calm go with that one, and
\* are taken anew here because no property looks at them until this check ends.
ReadDeployed ==
    /\ step = "idle"
    /\ deployed' = [h \in Host |-> [r \in Role |-> prom[h][r].ts]]
    /\ step' = "dirty"
    /\ since' = main /\ calm' = {h \in Host : Quiet(h)}
    /\ UNCHANGED <<repo, play, fleet, dirty, roles, wanted, exit>>

ReadDirty ==
    /\ step = "dirty"
    /\ dirty' = {p \in Host \X Role : prom[p[1]][p[2]].dirty}
    /\ step' = "list"
    /\ UNCHANGED <<repo, play, fleet, deployed, roles, wanted, verdict>>

\* The roles are listed from main, then dated one by one from its history:
\* each answer is of main as it is by then.
ListRoles ==
    /\ step = "list"
    /\ roles' = has[main]
    /\ step' = "history"
    /\ UNCHANGED <<repo, play, fleet, deployed, dirty, wanted, verdict>>

\* A slip in DateRole: the path is ignored, and any commit counts.
DateRole_AnyPath(r) ==
    /\ step = "history" /\ r \in roles
    /\ wanted' = [wanted EXCEPT ![r] = main]
    /\ roles' = roles \ {r}
    /\ UNCHANGED <<repo, play, fleet, step, deployed, dirty, verdict>>

DateRole(r) ==
    /\ step = "history" /\ r \in roles
    /\ wanted' = [wanted EXCEPT ![r] = touched[main][r]]
    /\ roles' = roles \ {r}
    /\ UNCHANGED <<repo, play, fleet, step, deployed, dirty, verdict>>

Pairs == {p \in Host \X Role : deployed[p[1]][p[2]] # 0}
Unknown == {p \in Pairs : wanted[p[2]] = 0}
DirtyPairs == (Pairs \ Unknown) \cap dirty
Behind == {p \in Pairs \ (Unknown \cup dirty) :
             wanted[p[2]] > deployed[p[1]][p[2]]}

\* A slip in Outcome: a stamp of an unknown role is passed over.
Outcome_SkipsUnknown ==
    IF Pairs = {} \/ DirtyPairs # {} THEN 2 ELSE IF Behind # {} THEN 1 ELSE 0

\* A slip in Outcome: the hosts behind are named and nothing is reported.
Outcome_NeverBehind ==
    IF Pairs = {} \/ Unknown # {} \/ DirtyPairs # {} THEN 2 ELSE 0

Outcome ==
    IF Pairs = {} \/ Unknown # {} \/ DirtyPairs # {} THEN 2
    ELSE IF Behind # {} THEN 1 ELSE 0

Done ==
    /\ step' = "idle"
    /\ deployed' = Nothing /\ dirty' = {} /\ roles' = {} /\ wanted' = NoCommit
    /\ UNCHANGED <<repo, play, fleet, since, calm>>

Verdict ==
    /\ step = "history" /\ roles = {}
    /\ exit' = Outcome
    /\ Done

\* A slip in Unreachable: the code of a killed script is published as it is.
Unreachable_RawCode ==
    /\ step # "idle"
    /\ exit' = 137
    /\ Done

\* A source that cannot be read ends the check, as does a script that dies
\* without its summary.
Unreachable ==
    /\ step # "idle"
    /\ exit' = 2
    /\ Done

-----------------------------------------------------------------------------

Operator ==
    \/ \E rs \in SUBSET Role, deletes \in BOOLEAN : Merge(rs, deletes)
    \/ \E rs \in SUBSET Role : BranchCommit(rs)
    \/ \E r \in Role : Edit(r)
    \/ \E c \in Commit : CheckOut(c)
    \/ \E limit \in SUBSET Host \ {{}}, tags \in SUBSET Role \ {{}} :
         StartPlaybook(limit, tags)

Playbook == (\E r \in Role : ApplyRole(r)) \/ Stamp \/ Reap \/ Publish \/ PlayFails

Check ==
    \/ ReadDeployed \/ ReadDirty \/ ListRoles
    \/ \E r \in Role : DateRole(r)
    \/ Verdict \/ Unreachable

Next == Operator \/ Playbook \/ (\E h \in Host : Scrape(h)) \/ Check

Spec == Init /\ [][Next]_vars

\* The timers fire: Prometheus scrapes every host, and a check that has begun
\* reaches its end (every read of it has a time-out).
FairSpec ==
    /\ Spec
    /\ \A h \in Host : WF_vars(Scrape(h))
    /\ WF_vars(Check)

-----------------------------------------------------------------------------
(* What the operator is told.                                               *)

Published == step = "idle"
Stamped(h) == {r \in Role : metric[h][r].ts # 0}

\* deploy-drift.md: what is caught is "a role whose files changed on main but
\* which has not been deployed to some host since".  When the gauge says 0, no
\* host that the check saw at rest runs a stamped role older than main was
\* when the check began.
MissedChangeIsReported ==
    Published /\ exit = 0 =>
      \A h \in calm : \A r \in Stamped(h) \cap has[since] :
        applied[h][r].v >= touched[since][r]

\* deploy-drift.md: "a host deployed from a dirty working tree" is caught.
\* When the gauge says 0, no stamped role of such a host came from a file
\* modified on the control node.
DirtyIsReported ==
    Published /\ exit = 0 =>
      \A h \in calm : \A r \in Stamped(h) : ~applied[h][r].edited

\* deploy-drift-check.py: "a check that quietly narrows its own scope will
\* eventually report a green it has not earned".  When the gauge says 0, every
\* stamp a host at rest carries is of a role main had, so none was left out.
NothingLeftOut ==
    Published /\ exit = 0 =>
      \A h \in calm : \A r \in Stamped(h) : touched[since][r] # 0 /\ r \in has[since]

\* When the gauge says 1 and no host was touched since the check began, some
\* host really does not run what main has: the alert never cries wolf because
\* of commits to other roles, or a document.
BehindIsReal ==
    Published /\ exit = 1 /\ calm = Host =>
      \E h \in Host, r \in Role :
        metric[h][r].ts # 0 /\ applied[h][r].v # touched[main][r]

\* deploy-drift.md: "a brand-new role merged and never deployed" is caught.
\* When the gauge says 0, a host at rest that reports at all has run every role
\* of its play that main had.
NewRoleIsReported ==
    Published /\ exit = 0 =>
      \A h \in calm : Stamped(h) # {} =>
        \A r \in RolesOf[h] \cap has[since] : applied[h][r].v # 0

\* A stamped role that main has moved past does not stay behind a gauge of 0:
\* either it is deployed or the alert is raised.
Late == \E h \in Host, r \in Role :
    metric[h][r].ts # 0 /\ r \in has[main] /\ touched[main][r] > metric[h][r].ts
LateIsReported == Late ~> (exit # 0 \/ ~Late)

=============================================================================
