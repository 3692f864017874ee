------------------------- MODULE DeployDrift_proofs -------------------------
EXTENDS DeployDrift, TLAPS

USE DriftTyped DEF Commit, Habits

\* The checkout is main, and stays where it is while a playbook runs.
MainOnly == Habit \cap {"back", "branch", "midrun"} = {}

\* Plays come to their end over a checkout that is left alone.
WholePlays == Habit \cap {"fail", "midrun"} = {}

-----------------------------------------------------------------------------
(* Types.                                                                   *)

LEMMA InitTyped == Init => TypeOK
<1> SUFFICES ASSUME Init PROVE TypeOK
  OBVIOUS
<1>1. /\ has \in [Commit -> SUBSET Role] /\ touched \in [Commit -> [Role -> 0..MaxCommits]]
      /\ last \in Commit /\ main \in 1..last /\ head \in 1..last
      /\ merged \subseteq 1..last /\ edited \subseteq Role
  BY DEF Init
<1>2. stamp \in Stamps /\ metric \in Stamps /\ prom \in Stamps
  BY DEF Init, Stamps, NoStamp
<1>3. applied \in [Host -> [Role -> [v : 0..MaxCommits, edited : BOOLEAN]]]
  BY DEF Init
<1>4. deployed \in [Host -> [Role -> 0..MaxCommits]] /\ wanted \in [Role -> 0..MaxCommits]
  BY DEF Init, Nothing, NoCommit
<1>5. /\ pc \in {"idle", "roles", "reap", "publish"} /\ host \in Host /\ hosts \subseteq Host
      /\ left \subseteq Role /\ listed \subseteq Role
      /\ step \in {"idle", "dirty", "list", "history"}
      /\ dirty \in SUBSET (Host \X Role) /\ roles \subseteq Role
      /\ exit \in 0..2 /\ since \in 1..last /\ calm \in SUBSET Host
  BY DEF Init
<1> QED BY <1>1, <1>2, <1>3, <1>4, <1>5 DEF TypeOK

LEMMA CommitTyped ==
  ASSUME TypeOK, NEW c \in 1..last, NEW rs \in SUBSET Role, NEW deletes \in BOOLEAN,
         NewCommit(c, rs, deletes)
  PROVE  /\ last + 1 \in Commit /\ last' = last + 1
         /\ has' \in [Commit -> SUBSET Role]
         /\ touched' \in [Commit -> [Role -> 0..MaxCommits]]
<1>1. last + 1 \in Commit /\ last' = last + 1 /\ c \in Commit
  BY DEF NewCommit, TypeOK
<1>2. has' \in [Commit -> SUBSET Role]
  BY <1>1 DEF NewCommit, TypeOK
<1>3. [r \in Role |-> IF r \in rs THEN last + 1 ELSE touched[c][r]] \in [Role -> 0..MaxCommits]
  BY <1>1 DEF TypeOK
<1>4. touched' \in [Commit -> [Role -> 0..MaxCommits]]
  BY <1>1, <1>3 DEF NewCommit, TypeOK
<1> QED BY <1>1, <1>2, <1>4

LEMMA OperatorTyped == TypeOK /\ Operator => TypeOK'
<1> SUFFICES ASSUME TypeOK, Operator PROVE TypeOK'
  OBVIOUS
<1>1. ASSUME NEW rs \in SUBSET Role, NEW deletes \in BOOLEAN, Merge(rs, deletes) PROVE TypeOK'
  <2>1. UNCHANGED <<head, edited, play, fleet, check>>
    BY <1>1 DEF Merge
  <2>2. main \in 1..last
    BY DEF TypeOK
  <2>3. /\ last + 1 \in Commit /\ last' = last + 1 /\ has' \in [Commit -> SUBSET Role]
        /\ touched' \in [Commit -> [Role -> 0..MaxCommits]]
    BY <1>1, <2>2, CommitTyped DEF Merge
  <2>4. main' \in 1..last' /\ merged' \subseteq 1..last' /\ head' \in 1..last' /\ since' \in 1..last'
    BY <1>1, <2>1, <2>3 DEF Merge, TypeOK, check, verdict
  <2> QED
    BY <2>1, <2>3, <2>4 DEF TypeOK, play, fleet, check, answers, verdict
<1>2. ASSUME NEW rs \in SUBSET Role, BranchCommit(rs) PROVE TypeOK'
  <2>1. UNCHANGED <<main, merged, edited, play, fleet, check>>
    BY <1>2 DEF BranchCommit
  <2>2. head \in 1..last
    BY DEF TypeOK
  <2>3. /\ last + 1 \in Commit /\ last' = last + 1 /\ has' \in [Commit -> SUBSET Role]
        /\ touched' \in [Commit -> [Role -> 0..MaxCommits]]
    BY <1>2, <2>2, CommitTyped DEF BranchCommit
  <2>4. main' \in 1..last' /\ merged' \subseteq 1..last' /\ head' \in 1..last' /\ since' \in 1..last'
    BY <1>2, <2>1, <2>3 DEF BranchCommit, TypeOK, check, verdict
  <2> QED
    BY <2>1, <2>3, <2>4 DEF TypeOK, play, fleet, check, answers, verdict
<1>3. ASSUME NEW r \in Role, Edit(r) PROVE TypeOK'
  BY <1>3 DEF Edit, TypeOK, play, fleet, check, answers, verdict
<1>4. ASSUME NEW c \in Commit, CheckOut(c) PROVE TypeOK'
  BY <1>4 DEF CheckOut, TypeOK, play, fleet, check, answers, verdict
<1>5. ASSUME NEW limit \in SUBSET Host \ {{}}, NEW tags \in SUBSET Role \ {{}},
             StartPlaybook(limit, tags)
      PROVE TypeOK'
  BY <1>5 DEF StartPlaybook, TypeOK, repo, fleet, check, answers, verdict
<1> QED BY <1>1, <1>2, <1>3, <1>4, <1>5 DEF Operator

\* What a role's application changes.
LEMMA ApplyEffect ==
  ASSUME TypeOK, NEW r \in Role, ApplyRole(r)
  PROVE  /\ r \in left /\ pc = "roles" /\ left' = left \ {r} /\ calm' = calm \ {host}
         /\ applied' \in [Host -> [Role -> [v : 0..MaxCommits, edited : BOOLEAN]]]
         /\ applied'[host][r] = [v |-> touched[head][r], edited |-> r \in edited]
         /\ \A h \in Host, q \in Role : h # host \/ q # r => applied'[h][q] = applied[h][q]
         /\ UNCHANGED <<repo, pc, host, hosts, listed, stamp, metric, prom, step, answers, exit, since>>
<1> DEFINE now == [v |-> touched[head][r], edited |-> r \in edited]
<1>1. touched[head][r] \in 0..MaxCommits /\ (r \in edited) \in BOOLEAN
  BY DEF TypeOK
<1>2. now \in [v : 0..MaxCommits, edited : BOOLEAN]
  BY <1>1
<1> HIDE DEF now
<1>3. applied' = [applied EXCEPT ![host] = [applied[host] EXCEPT ![r] = now]]
  BY DEF ApplyRole, now
<1>4. /\ applied' \in [Host -> [Role -> [v : 0..MaxCommits, edited : BOOLEAN]]]
      /\ applied'[host][r] = now
      /\ \A h \in Host, q \in Role : h # host \/ q # r => applied'[h][q] = applied[h][q]
  BY <1>2, <1>3 DEF TypeOK
<1> QED BY <1>4 DEF ApplyRole, now

\* What the stamper changes.
LEMMA StampEffect ==
  ASSUME TypeOK, Stamp
  PROVE  /\ pc = "roles" /\ left = {} /\ pc' = "reap"
         /\ stamp' \in Stamps
         /\ \A r \in Role : stamp'[host][r] =
              IF r \in Selected(host) THEN [ts |-> head, dirty |-> edited # {}]
              ELSE stamp[host][r]
         /\ \A h \in Host : h # host => stamp'[h] = stamp[h]
         /\ UNCHANGED <<repo, host, hosts, left, listed, applied, metric, prom, check>>
<1> DEFINE mine == [ts |-> head, dirty |-> edited # {}]
           new == [r \in Role |-> IF r \in Selected(host) THEN mine ELSE stamp[host][r]]
<1>1. mine \in [ts : 0..MaxCommits, dirty : BOOLEAN]
  <2>1. head \in 0..MaxCommits /\ (edited # {}) \in BOOLEAN
    BY DEF TypeOK
  <2> QED BY <2>1
<1> HIDE DEF mine
<1>2. new \in [Role -> [ts : 0..MaxCommits, dirty : BOOLEAN]]
  BY <1>1 DEF TypeOK, Stamps
<1>3. stamp' = [stamp EXCEPT ![host] = new]
  BY DEF Stamp, mine
<1>4. stamp' \in Stamps /\ stamp'[host] = new /\ \A h \in Host : h # host => stamp'[h] = stamp[h]
  <2> HIDE DEF new
  <2> QED BY <1>2, <1>3 DEF TypeOK, Stamps
<1> QED BY <1>4 DEF Stamp, mine

\* What the removal of old stamps changes.
LEMMA ReapEffect ==
  ASSUME TypeOK, Reap
  PROVE  /\ pc = "reap" /\ pc' = "publish"
         /\ stamp' \in Stamps
         /\ \A r \in Role : stamp'[host][r] \in {stamp[host][r], NoStamp}
         /\ \A h \in Host : h # host => stamp'[h] = stamp[h]
         /\ UNCHANGED <<repo, host, hosts, left, listed, applied, metric, prom, check>>
<1> DEFINE new == [r \in Role |-> IF r \in has[head] THEN stamp[host][r] ELSE NoStamp]
<1>1. NoStamp \in [ts : 0..MaxCommits, dirty : BOOLEAN]
  BY DEF NoStamp
<1>2. new \in [Role -> [ts : 0..MaxCommits, dirty : BOOLEAN]]
  BY <1>1 DEF TypeOK, Stamps
<1>3. stamp' = [stamp EXCEPT ![host] = new]
  BY DEF Reap
<1>4. stamp' \in Stamps /\ stamp'[host] = new /\ \A h \in Host : h # host => stamp'[h] = stamp[h]
  <2> HIDE DEF new
  <2> QED BY <1>2, <1>3 DEF TypeOK, Stamps
<1> QED BY <1>4 DEF Reap

\* What the metrics' regeneration changes.
LEMMA PublishEffect ==
  ASSUME TypeOK, Publish
  PROVE  /\ pc = "publish" /\ calm' = calm \ {host}
         /\ metric' \in Stamps /\ metric'[host] = stamp[host]
         /\ \A h \in Host : h # host => metric'[h] = metric[h]
         /\ \/ pc' = "idle" /\ listed' = {} /\ UNCHANGED <<host, hosts, left>>
            \/ pc' = "roles" /\ host' \in hosts /\ hosts' = hosts \ {host'}
               /\ left' = Selected(host') /\ listed' = listed
         /\ UNCHANGED <<repo, applied, stamp, prom, step, answers, exit, since>>
<1>1. metric' = [metric EXCEPT ![host] = stamp[host]]
  BY DEF Publish
<1>2. /\ metric' \in Stamps /\ metric'[host] = stamp[host]
      /\ \A h \in Host : h # host => metric'[h] = metric[h]
  BY <1>1 DEF TypeOK, Stamps
<1> QED BY <1>2 DEF Publish

LEMMA PlaybookTyped == TypeOK /\ Playbook => TypeOK'
<1> SUFFICES ASSUME TypeOK, Playbook PROVE TypeOK'
  OBVIOUS
<1>1. ASSUME NEW r \in Role, ApplyRole(r) PROVE TypeOK'
  <2>1. /\ left' \subseteq Role /\ calm' \in SUBSET Host
        /\ applied' \in [Host -> [Role -> [v : 0..MaxCommits, edited : BOOLEAN]]]
        /\ UNCHANGED <<repo, pc, host, hosts, listed, stamp, metric, prom, step, answers, exit, since>>
    BY <1>1, ApplyEffect DEF TypeOK
  <2> QED BY <2>1 DEF TypeOK, repo, answers
<1>2. CASE Stamp \/ Reap
  <2>1. /\ pc' \in {"reap", "publish"} /\ stamp' \in Stamps
        /\ UNCHANGED <<repo, host, hosts, left, listed, applied, metric, prom, check>>
    BY <1>2, StampEffect, ReapEffect
  <2> QED BY <2>1 DEF TypeOK, repo, check, answers, verdict
<1>3. CASE Publish
  <2>1. /\ pc' \in {"idle", "roles"} /\ host' \in Host /\ hosts' \subseteq Host
        /\ left' \subseteq Role /\ listed' \subseteq Role /\ calm' \in SUBSET Host
        /\ metric' \in Stamps
        /\ UNCHANGED <<repo, applied, stamp, prom, step, answers, exit, since>>
    BY <1>3, PublishEffect DEF TypeOK, Selected
  <2> QED BY <2>1 DEF TypeOK, repo, answers
<1>4. CASE PlayFails
  BY <1>4 DEF PlayFails, TypeOK, repo, fleet, check, answers, verdict
<1> QED BY <1>1, <1>2, <1>3, <1>4 DEF Playbook

LEMMA ScrapeTyped ==
  ASSUME TypeOK, NEW h \in Host, Scrape(h)
  PROVE  TypeOK'
<1>1. prom' \in Stamps /\ UNCHANGED <<repo, play, applied, stamp, metric, check>>
  BY DEF Scrape, TypeOK, Stamps
<1> QED BY <1>1 DEF TypeOK, repo, play, check, answers, verdict

LEMMA DoneTyped ==
  ASSUME TypeOK, Done, exit' \in 0..2
  PROVE  TypeOK'
<1>1. deployed' \in [Host -> [Role -> 0..MaxCommits]] /\ wanted' \in [Role -> 0..MaxCommits]
  BY DEF Done, Nothing, NoCommit
<1> QED BY <1>1 DEF Done, TypeOK, repo, play, fleet

LEMMA CheckTyped == TypeOK /\ Check => TypeOK'
<1> SUFFICES ASSUME TypeOK, Check PROVE TypeOK'
  OBVIOUS
<1>1. CASE ReadDeployed
  <2>1. deployed' \in [Host -> [Role -> 0..MaxCommits]]
    BY <1>1 DEF ReadDeployed, TypeOK, Stamps
  <2> QED BY <1>1, <2>1 DEF ReadDeployed, TypeOK, repo, play, fleet
<1>2. CASE ReadDirty
  <2>1. dirty' \in SUBSET (Host \X Role)
    BY <1>2 DEF ReadDirty
  <2> QED BY <1>2, <2>1 DEF ReadDirty, TypeOK, repo, play, fleet, verdict
<1>3. CASE ListRoles
  <2>1. has[main] \subseteq Role
    BY DEF TypeOK
  <2> QED BY <1>3, <2>1 DEF ListRoles, TypeOK, repo, play, fleet, verdict
<1>4. ASSUME NEW r \in Role, DateRole(r) PROVE TypeOK'
  <2>1. touched[main][r] \in 0..MaxCommits
    BY DEF TypeOK
  <2>2. wanted' \in [Role -> 0..MaxCommits] /\ roles' \subseteq Role
    BY <1>4, <2>1 DEF DateRole, TypeOK
  <2> QED BY <1>4, <2>2 DEF DateRole, TypeOK, repo, play, fleet, verdict
<1>5. CASE Verdict
  BY <1>5, DoneTyped DEF Verdict, Outcome
<1>6. CASE Unreachable
  BY <1>6, DoneTyped DEF Unreachable
<1> QED BY <1>1, <1>2, <1>3, <1>4, <1>5, <1>6 DEF Check

LEMMA TypeKept == TypeOK /\ [Next]_vars => TypeOK'
<1> SUFFICES ASSUME TypeOK, [Next]_vars PROVE TypeOK'
  OBVIOUS
<1>1. CASE UNCHANGED vars
  BY <1>1 DEF TypeOK, vars, repo, play, fleet, check, answers, verdict
<1> QED BY <1>1, OperatorTyped, PlaybookTyped, ScrapeTyped, CheckTyped DEF Next

\* Type correctness, for any hosts, roles, commits and habits.
THEOREM TypeCorrect == Spec => []TypeOK
BY InitTyped, TypeKept, PTL DEF Spec

-----------------------------------------------------------------------------
(* Main only: a gauge of 0 is earned.                                       *)

\* The commits are one line: what a later commit has of a role that was not
\* touched since an earlier one, the earlier one has.
InLine ==
    \A d \in 1..last : \A c \in 1..d : \A r \in Role :
      /\ touched[c][r] <= touched[d][r] /\ touched[d][r] <= d
      /\ touched[d][r] <= c => touched[c][r] = touched[d][r] /\ (r \in has[c] <=> r \in has[d])

\* A stamp, or a metric, speaks of a commit the host is not behind.
Covered(s, h, r) ==
    s[h][r].ts # 0 => s[h][r].ts <= head /\ touched[s[h][r].ts][r] <= applied[h][r].v

PlayKnown ==
    pc = "roles" => \A r \in Selected(host) \ left : applied[host][r].v = touched[head][r]
FleetKnown ==
    \A h \in Host, r \in Role : Covered(stamp, h, r) /\ Covered(metric, h, r)

\* What the checker's answers say of the hosts it saw at rest.
CalmKnown ==
    \A h \in calm, r \in Role :
      /\ metric[h][r].ts <= since
      /\ step # "idle" => deployed[h][r] = metric[h][r].ts
DatedKnown ==
    /\ step # "history" => wanted = NoCommit
    /\ step = "history" =>
         \E m \in since..last : \A r \in Role :
           /\ r \in roles \/ wanted[r] # 0 => r \in has[m]
           /\ wanted[r] # 0 => \E d \in m..last : wanted[r] = touched[d][r]
Earned ==
    Published /\ exit = 0 =>
      \A h \in calm : \A r \in Stamped(h) :
        r \in has[since] /\ touched[since][r] # 0 /\ touched[since][r] <= metric[h][r].ts

LineInv ==
    /\ TypeOK /\ main = last /\ InLine
    /\ PlayKnown /\ FleetKnown /\ CalmKnown /\ DatedKnown /\ Earned

-----------------------------------------------------------------------------
LEMMA InitInLine == Init => LineInv
<1> SUFFICES ASSUME Init PROVE LineInv
  OBVIOUS
<1>1. TypeOK
  BY InitTyped
<1>2. main = last /\ InLine
  BY DEF Init, InLine
<1>3. PlayKnown /\ CalmKnown /\ DatedKnown /\ Earned
  BY DEF Init, PlayKnown, CalmKnown, DatedKnown, Earned
<1>4. \A h \in Host, r \in Role : stamp[h][r].ts = 0 /\ metric[h][r].ts = 0
  BY DEF Init, NoStamp
<1>5. FleetKnown
  BY <1>4 DEF FleetKnown, Covered
<1> QED BY <1>1, <1>2, <1>3, <1>5 DEF LineInv

\* A merge adds a commit to the end of the line, and what there was stays.
LEMMA MergeInLine ==
  ASSUME LineInv, NEW rs \in SUBSET Role, NEW deletes \in BOOLEAN, Merge(rs, deletes)
  PROVE  /\ last' = last + 1 /\ main' = last' /\ last + 1 \in Commit /\ InLine'
         /\ \A c \in 1..last : touched'[c] = touched[c] /\ has'[c] = has[c]
<1> USE DEF LineInv
<1>1. last + 1 \in Commit /\ last' = last + 1 /\ main' = last' /\ main = last /\ last \in Commit
  BY DEF Merge, NewCommit, TypeOK
<1>2. /\ has' = [has EXCEPT ![last + 1] = IF deletes THEN has[last] \ rs ELSE has[last] \cup rs]
      /\ touched' = [touched EXCEPT ![last + 1] =
           [r \in Role |-> IF r \in rs THEN last + 1 ELSE touched[last][r]]]
  BY <1>1 DEF Merge, NewCommit
<1>3. \A c \in 1..last : touched'[c] = touched[c] /\ has'[c] = has[c]
  BY <1>1, <1>2 DEF TypeOK
<1>4. \A r \in Role :
        /\ touched'[last + 1][r] = IF r \in rs THEN last + 1 ELSE touched[last][r]
        /\ r \notin rs => (r \in has'[last + 1] <=> r \in has[last])
  BY <1>1, <1>2 DEF TypeOK
<1>5. ASSUME NEW d \in 1..(last + 1), NEW c \in 1..d, NEW r \in Role
      PROVE  /\ touched'[c][r] <= touched'[d][r] /\ touched'[d][r] <= d
             /\ touched'[d][r] <= c =>
                  touched'[c][r] = touched'[d][r] /\ (r \in has'[c] <=> r \in has'[d])
  <2>1. last \in Nat /\ last # 0 /\ \A e \in 1..last : touched[e][r] \in 0..MaxCommits
    BY <1>1 DEF TypeOK
  <2>2. CASE d \in 1..last
    BY <1>3, <2>1, <2>2 DEF InLine
  <2>3. CASE d = last + 1 /\ c \in 1..last
    <3>1. /\ touched[c][r] <= touched[last][r] /\ touched[last][r] <= last
          /\ touched[last][r] <= c =>
               touched[c][r] = touched[last][r] /\ (r \in has[c] <=> r \in has[last])
      BY <2>1, <2>3 DEF InLine
    <3>2. touched[c][r] <= last
      BY <2>1, <2>3 DEF InLine
    <3> QED BY <1>3, <1>4, <2>1, <2>3, <3>1, <3>2
  <2>4. CASE d = last + 1 /\ c = last + 1
    <3>1. touched[last][r] <= last
      BY <2>1 DEF InLine
    <3> QED BY <1>4, <2>1, <2>4, <3>1
  <2> QED BY <2>1, <2>2, <2>3, <2>4
<1> QED BY <1>1, <1>3, <1>5 DEF InLine

\* What a commit after it does not change.
LEMMA MergeKnown ==
  ASSUME LineInv, NEW rs \in SUBSET Role, NEW deletes \in BOOLEAN, Merge(rs, deletes)
  PROVE  LineInv'
<1> USE DEF LineInv
<1>1. /\ last' = last + 1 /\ main' = last' /\ InLine'
      /\ \A c \in 1..last : touched'[c] = touched[c] /\ has'[c] = has[c]
  BY MergeInLine
<1>2. UNCHANGED <<head, edited, play, fleet, check>>
  BY DEF Merge
<1>3. /\ UNCHANGED <<pc, host, hosts, left, listed, applied, stamp, metric, prom>>
      /\ UNCHANGED <<step, deployed, dirty, roles, wanted, exit, since, calm>>
  BY <1>2 DEF play, fleet, check, answers, verdict
<1>4. last \in Nat /\ head \in 1..last /\ since \in 1..last
  BY DEF TypeOK
<1>5. TypeOK'
  BY OperatorTyped DEF Operator
<1>6. PlayKnown'
  BY <1>1, <1>2, <1>3, <1>4 DEF PlayKnown, Selected
<1>7. FleetKnown'
  <2> SUFFICES ASSUME NEW h \in Host, NEW r \in Role
               PROVE  Covered(stamp, h, r)' /\ Covered(metric, h, r)'
    BY DEF FleetKnown
  <2>1. Covered(stamp, h, r) /\ Covered(metric, h, r)
    BY DEF FleetKnown
  <2>2. stamp[h][r].ts \in Nat /\ metric[h][r].ts \in Nat
    BY DEF TypeOK, Stamps
  <2> QED BY <1>1, <1>2, <1>3, <1>4, <2>1, <2>2 DEF Covered
<1>8. CalmKnown'
  BY <1>3 DEF CalmKnown
<1>9. DatedKnown'
  <2>1. CASE step # "history"
    BY <1>3, <2>1 DEF DatedKnown, NoCommit
  <2>2. CASE step = "history"
    <3>1. PICK m \in since..last : \A r \in Role :
            /\ r \in roles \/ wanted[r] # 0 => r \in has[m]
            /\ wanted[r] # 0 => \E d \in m..last : wanted[r] = touched[d][r]
      BY <2>2 DEF DatedKnown
    <3>2. m \in since'..last' /\ m \in 1..last
      BY <1>1, <1>3, <1>4
    <3>3. ASSUME NEW r \in Role, wanted[r] # 0
          PROVE  \E d \in m..last' : wanted'[r] = touched'[d][r]
      <4>1. PICK d \in m..last : wanted[r] = touched[d][r]
        BY <3>1, <3>3
      <4>2. d \in 1..last /\ d \in m..last'
        BY <1>1, <1>4, <3>2
      <4> QED BY <1>1, <1>3, <4>1, <4>2
    <3> QED BY <1>1, <1>3, <2>2, <3>1, <3>2, <3>3 DEF DatedKnown
  <2> QED BY <2>1, <2>2
<1>10. Earned'
  BY <1>1, <1>3, <1>4 DEF Earned, Published, Stamped
<1> QED BY <1>1, <1>5, <1>6, <1>7, <1>8, <1>9, <1>10

LEMMA CheckOutKnown ==
  ASSUME MainOnly, LineInv,
         (\E c \in Commit : CheckOut(c)) \/ (\E r \in Role : Edit(r))
  PROVE  LineInv'
<1> USE DEF LineInv
<1>1. /\ UNCHANGED <<has, touched, last, main, pc, host, hosts, left, listed>>
      /\ UNCHANGED <<applied, stamp, metric, prom>>
      /\ UNCHANGED <<step, deployed, dirty, roles, wanted, exit, since, calm>>
  BY DEF CheckOut, Edit, play, fleet, check, answers, verdict
<1>2. pc = "idle" /\ head' \in Nat /\ head <= head'
  <2>1. head \in 1..last /\ last \in Nat
    BY DEF TypeOK
  <2> QED BY <2>1 DEF CheckOut, Edit, MayMove, MainOnly
<1>3. TypeOK'
  BY OperatorTyped DEF Operator
<1>4. PlayKnown' /\ InLine' /\ main' = last'
  BY <1>1, <1>2 DEF PlayKnown, InLine
<1>5. FleetKnown'
  <2> SUFFICES ASSUME NEW h \in Host, NEW q \in Role
               PROVE  Covered(stamp, h, q)' /\ Covered(metric, h, q)'
    BY DEF FleetKnown
  <2>1. Covered(stamp, h, q) /\ Covered(metric, h, q)
    BY DEF FleetKnown
  <2>2. stamp[h][q].ts \in Nat /\ metric[h][q].ts \in Nat
    <3>1. stamp \in Stamps /\ metric \in Stamps
      BY DEF TypeOK
    <3> QED BY <3>1 DEF Stamps
  <2>3. head \in Nat
    BY DEF TypeOK
  <2> QED BY <1>1, <1>2, <2>1, <2>2, <2>3 DEF Covered
<1>6. CalmKnown' /\ Earned'
  BY <1>1 DEF CalmKnown, Earned, Published, Stamped
<1>7. DatedKnown'
  BY <1>1 DEF DatedKnown, NoCommit
<1> QED BY <1>3, <1>4, <1>5, <1>6, <1>7

-----------------------------------------------------------------------------
\* A step of the playbook that leaves the checker, and what it knows of the
\* hosts still calm, as they were.
LEMMA PlayLeaves ==
  ASSUME LineInv, TypeOK', UNCHANGED <<repo, step, answers, exit, since>>,
         calm' \subseteq calm, \A h \in calm' : metric'[h] = metric[h],
         PlayKnown', FleetKnown'
  PROVE  LineInv'
<1> USE DEF LineInv
<1>1. UNCHANGED <<has, touched, last, main, head, deployed, dirty, roles, wanted>>
  BY DEF repo, answers
<1>2. InLine' /\ main' = last'
  BY <1>1 DEF InLine
<1>3. CalmKnown'
  BY <1>1 DEF CalmKnown
<1>4. DatedKnown'
  BY <1>1 DEF DatedKnown, NoCommit
<1>5. Earned'
  BY <1>1 DEF Earned, Published, Stamped
<1> QED BY <1>2, <1>3, <1>4, <1>5

LEMMA PlaybookKnown ==
  ASSUME LineInv, Playbook
  PROVE  LineInv'
<1> USE DEF LineInv
<1>1. TypeOK'
  BY PlaybookTyped
<1>2. ASSUME NEW r \in Role, ApplyRole(r) PROVE LineInv'
  <2>1. /\ r \in left /\ pc = "roles" /\ left' = left \ {r} /\ calm' = calm \ {host}
        /\ applied'[host][r] = [v |-> touched[head][r], edited |-> r \in edited]
        /\ \A h \in Host, q \in Role : h # host \/ q # r => applied'[h][q] = applied[h][q]
        /\ UNCHANGED <<repo, pc, host, hosts, listed, stamp, metric, prom, step, answers, exit, since>>
    BY <1>2, ApplyEffect
  <2>2. UNCHANGED <<has, touched, head, last>> /\ host \in Host
    BY <2>1 DEF repo, TypeOK
  <2>3. PlayKnown'
    BY <2>1, <2>2 DEF PlayKnown, Selected, TypeOK
  <2>4. ASSUME NEW s \in Stamps, NEW h \in Host, NEW q \in Role, Covered(s, h, q)
        PROVE  s[h][q].ts # 0 => s[h][q].ts <= head /\ touched[s[h][q].ts][q] <= applied'[h][q].v
    <3>1. s[h][q].ts \in 0..MaxCommits /\ head \in 1..last /\ last \in Nat
      BY DEF Stamps, TypeOK
    <3>2. CASE h = host /\ q = r
      <4>1. applied'[h][q].v = touched[head][q]
        BY <2>1, <3>2
      <4>2. s[h][q].ts # 0 => s[h][q].ts \in 1..head
        BY <2>4, <3>1 DEF Covered
      <4> QED BY <3>1, <4>1, <4>2 DEF InLine
    <3>3. CASE ~(h = host /\ q = r)
      BY <2>1, <2>4, <3>3 DEF Covered
    <3> QED BY <3>2, <3>3
  <2>5. FleetKnown'
    <3> SUFFICES ASSUME NEW h \in Host, NEW q \in Role
                 PROVE  Covered(stamp, h, q)' /\ Covered(metric, h, q)'
      BY DEF FleetKnown
    <3>1. Covered(stamp, h, q) /\ Covered(metric, h, q) /\ stamp \in Stamps /\ metric \in Stamps
      BY DEF FleetKnown, TypeOK
    <3> QED BY <2>1, <2>2, <2>4, <3>1 DEF Covered
  <2>6. calm' \subseteq calm /\ metric' = metric
    BY <2>1
  <2> QED BY <1>1, <2>1, <2>3, <2>5, <2>6, PlayLeaves
<1>3. CASE Stamp
  <2>1. /\ pc = "roles" /\ left = {} /\ pc' = "reap"
        /\ \A r \in Role : stamp'[host][r] =
              IF r \in Selected(host) THEN [ts |-> head, dirty |-> edited # {}]
              ELSE stamp[host][r]
        /\ \A h \in Host : h # host => stamp'[h] = stamp[h]
        /\ UNCHANGED <<repo, host, hosts, left, listed, applied, metric, prom, check>>
    BY <1>3, StampEffect
  <2>2. UNCHANGED <<has, touched, head, step, answers, exit, since, calm>>
    BY <2>1 DEF repo, check, verdict
  <2>3. PlayKnown'
    BY <2>1 DEF PlayKnown
  <2>4. FleetKnown'
    <3> SUFFICES ASSUME NEW h \in Host, NEW r \in Role
                 PROVE  Covered(stamp, h, r)' /\ Covered(metric, h, r)'
      BY DEF FleetKnown
    <3>1. Covered(stamp, h, r) /\ Covered(metric, h, r)
      BY DEF FleetKnown
    <3>2. Covered(metric, h, r)'
      BY <2>1, <2>2, <3>1 DEF Covered
    <3>3. CASE h = host /\ r \in Selected(host)
      <4>0. r \in Selected(host) \ left /\ stamp'[host][r] = [ts |-> head, dirty |-> edited # {}]
        BY <2>1, <3>3
      <4>1. stamp'[h][r].ts = head /\ applied'[h][r].v = touched[head][r]
        BY <2>1, <3>3, <4>0 DEF PlayKnown
      <4>2. head \in Nat /\ touched[head][r] \in Nat
        BY DEF TypeOK
      <4> QED BY <2>2, <3>2, <4>1, <4>2 DEF Covered
    <3>4. CASE ~(h = host /\ r \in Selected(host))
      <4>1. stamp'[h][r] = stamp[h][r]
        BY <2>1, <3>4
      <4> QED BY <2>1, <2>2, <3>1, <3>2, <4>1 DEF Covered
    <3> QED BY <3>3, <3>4
  <2> QED BY <1>1, <2>1, <2>2, <2>3, <2>4, PlayLeaves
<1>4. CASE Publish
  <2>1. /\ pc = "publish" /\ calm' = calm \ {host} /\ metric'[host] = stamp[host]
        /\ \A h \in Host : h # host => metric'[h] = metric[h]
        /\ pc' = "roles" => left' = Selected(host') /\ listed' = listed
        /\ UNCHANGED <<repo, applied, stamp, prom, step, answers, exit, since>>
    BY <1>4, PublishEffect
  <2>2. UNCHANGED <<has, touched, head>>
    BY <2>1 DEF repo
  <2>3. PlayKnown'
    BY <2>1 DEF PlayKnown, Selected
  <2>4. FleetKnown'
    BY <2>1, <2>2 DEF FleetKnown, Covered
  <2>5. calm' \subseteq calm /\ \A h \in calm' : metric'[h] = metric[h]
    BY <2>1 DEF TypeOK
  <2> QED BY <1>1, <2>1, <2>3, <2>4, <2>5, PlayLeaves
<1>5. CASE PlayFails
  <2>1. pc' = "idle" /\ UNCHANGED <<repo, fleet, check>>
    BY <1>5 DEF PlayFails
  <2>2. UNCHANGED <<touched, head, applied, stamp, metric, step, answers, exit, since, calm>>
    BY <2>1 DEF repo, fleet, check, verdict
  <2>3. PlayKnown' /\ FleetKnown'
    BY <2>1, <2>2 DEF PlayKnown, FleetKnown, Covered
  <2> QED BY <1>1, <2>1, <2>2, <2>3, PlayLeaves
<1>6. CASE Reap
  <2>1. /\ pc = "reap" /\ pc' = "publish"
        /\ \A r \in Role : stamp'[host][r] \in {stamp[host][r], NoStamp}
        /\ \A h \in Host : h # host => stamp'[h] = stamp[h]
        /\ UNCHANGED <<repo, host, hosts, left, listed, applied, metric, prom, check>>
    BY <1>6, ReapEffect
  <2>2. UNCHANGED <<has, touched, head, step, answers, exit, since, calm>>
    BY <2>1 DEF repo, check, verdict
  <2>3. PlayKnown'
    BY <2>1 DEF PlayKnown
  <2>4. FleetKnown'
    <3> SUFFICES ASSUME NEW h \in Host, NEW r \in Role
                 PROVE  Covered(stamp, h, r)' /\ Covered(metric, h, r)'
      BY DEF FleetKnown
    <3>1. Covered(stamp, h, r) /\ Covered(metric, h, r)
      BY DEF FleetKnown
    <3>2. stamp'[h][r] = stamp[h][r] \/ stamp'[h][r].ts = 0
      BY <2>1 DEF NoStamp
    <3> QED BY <2>1, <2>2, <3>1, <3>2 DEF Covered
  <2> QED BY <1>1, <2>1, <2>2, <2>3, <2>4, PlayLeaves
<1> QED BY <1>2, <1>3, <1>4, <1>5, <1>6 DEF Playbook

LEMMA StartKnown ==
  ASSUME LineInv, NEW limit \in SUBSET Host \ {{}}, NEW tags \in SUBSET Role \ {{}},
         StartPlaybook(limit, tags)
  PROVE  LineInv'
<1> USE DEF LineInv
<1>1. TypeOK'
  BY OperatorTyped DEF Operator
<1>2. left' = Selected(host)' /\ UNCHANGED <<repo, fleet, check>>
  BY DEF StartPlaybook, Selected
<1>3. UNCHANGED <<touched, head, applied, stamp, metric, step, answers, exit, since, calm>>
  BY <1>2 DEF repo, fleet, check, verdict
<1>4. PlayKnown' /\ FleetKnown'
  BY <1>2, <1>3 DEF PlayKnown, FleetKnown, Covered
<1> QED BY <1>1, <1>2, <1>3, <1>4, PlayLeaves

LEMMA ScrapeKnown ==
  ASSUME LineInv, NEW h \in Host, Scrape(h)
  PROVE  LineInv'
<1> USE DEF LineInv
<1>1. TypeOK'
  BY ScrapeTyped
<1>2. UNCHANGED <<repo, play, applied, stamp, metric, check>>
  BY DEF Scrape
<1>3. /\ UNCHANGED <<touched, head, pc, host, hosts, left, listed>>
      /\ UNCHANGED <<step, answers, exit, since, calm>>
  BY <1>2 DEF repo, play, check, verdict
<1>4. PlayKnown' /\ FleetKnown'
  BY <1>2, <1>3 DEF PlayKnown, Selected, FleetKnown, Covered
<1> QED BY <1>1, <1>2, <1>3, <1>4, PlayLeaves

-----------------------------------------------------------------------------
\* A step of the checker leaves repository, playbook and hosts as they were.
LEMMA CheckLeaves ==
  ASSUME LineInv, TypeOK', UNCHANGED <<repo, play, fleet>>,
         CalmKnown', DatedKnown', Earned'
  PROVE  LineInv'
<1> USE DEF LineInv
<1>1. /\ UNCHANGED <<has, touched, last, main, head, pc, host, left, listed>>
      /\ UNCHANGED <<applied, stamp, metric>>
  BY DEF repo, play, fleet
<1>2. InLine' /\ main' = last'
  BY <1>1 DEF InLine
<1>3. PlayKnown' /\ FleetKnown'
  BY <1>1 DEF PlayKnown, Selected, FleetKnown, Covered
<1> QED BY <1>2, <1>3

\* The verdict: a stamp that is not behind the commit its role is dated with was
\* not behind main when the check began.
LEMMA VerdictEarned ==
  ASSUME LineInv, step = "history", roles = {}, Outcome = 0,
         NEW h \in calm, NEW r \in Stamped(h)
  PROVE  r \in has[since] /\ touched[since][r] # 0 /\ touched[since][r] <= metric[h][r].ts
<1> USE DEF LineInv
<1>1. h \in Host /\ r \in Role /\ metric[h][r].ts # 0
  BY DEF TypeOK, Stamped
<1>2. deployed[h][r] = metric[h][r].ts /\ metric[h][r].ts <= since
  BY <1>1 DEF CalmKnown
<1>3. since \in 1..last /\ last \in Nat /\ metric[h][r].ts \in Nat
  <2>1. metric \in Stamps /\ since \in 1..last /\ last \in Nat
    BY DEF TypeOK
  <2> QED BY <1>1, <2>1 DEF Stamps
<1>4. <<h, r>> \in Pairs
  BY <1>1, <1>2 DEF Pairs
<1>5. Unknown = {} /\ DirtyPairs = {} /\ Behind = {}
  BY DEF Outcome
<1>6. wanted[r] # 0
  BY <1>4, <1>5 DEF Unknown
<1>7. ~(wanted[r] > deployed[h][r])
  <2>1. <<h, r>> \notin Unknown \cup dirty
    BY <1>4, <1>5 DEF DirtyPairs
  <2> QED BY <1>4, <1>5, <2>1 DEF Behind
<1>8. PICK m \in since..last : \A q \in Role :
        /\ q \in roles \/ wanted[q] # 0 => q \in has[m]
        /\ wanted[q] # 0 => \E d \in m..last : wanted[q] = touched[d][q]
  BY DEF DatedKnown
<1>9. PICK d \in m..last : wanted[r] = touched[d][r]
  BY <1>1, <1>6, <1>8
<1>10. r \in has[m]
  BY <1>1, <1>6, <1>8
<1>11. m \in 1..d /\ d \in 1..last /\ since \in 1..d /\ since \in 1..m /\ m \in 1..last
  BY <1>3
<1>12. touched[d][r] \in Nat /\ touched[m][r] \in Nat
  BY <1>1, <1>11 DEF TypeOK
<1>13. touched[d][r] <= metric[h][r].ts
  BY <1>2, <1>3, <1>7, <1>9, <1>12
<1>14. touched[m][r] <= touched[d][r] /\ touched[since][r] = touched[d][r]
  BY <1>1, <1>2, <1>3, <1>11, <1>12, <1>13 DEF InLine
<1>15. r \in has[since]
  BY <1>1, <1>2, <1>3, <1>10, <1>11, <1>12, <1>13, <1>14 DEF InLine
<1> QED BY <1>6, <1>9, <1>13, <1>14, <1>15

LEMMA CheckKnown ==
  ASSUME LineInv, Check
  PROVE  LineInv'
<1> USE DEF LineInv
<1>1. TypeOK'
  BY CheckTyped
<1>2. CASE ReadDeployed
  <2>1. /\ step = "idle" /\ step' = "dirty" /\ since' = main
        /\ calm' = {h \in Host : Quiet(h)}
        /\ deployed' = [h \in Host |-> [r \in Role |-> prom[h][r].ts]]
        /\ UNCHANGED <<repo, play, fleet, wanted>>
    BY <1>2 DEF ReadDeployed
  <2>2. UNCHANGED <<head, metric>>
    BY <2>1 DEF repo, fleet
  <2>3. ASSUME NEW h \in calm', NEW r \in Role
        PROVE  metric[h][r].ts <= main /\ deployed'[h][r] = metric[h][r].ts
    <3>1. h \in Host /\ prom[h] = metric[h]
      BY <2>1, <2>3 DEF Quiet
    <3>2. metric \in Stamps /\ head \in 1..last /\ last \in Nat
      BY DEF TypeOK
    <3>3. metric[h][r].ts \in Nat
      BY <3>1, <3>2 DEF Stamps
    <3>4. metric[h][r].ts # 0 => metric[h][r].ts <= head
      BY <3>1 DEF FleetKnown, Covered
    <3> QED BY <2>1, <3>1, <3>2, <3>3, <3>4
  <2>4. CalmKnown'
    BY <2>1, <2>2, <2>3 DEF CalmKnown
  <2>5. DatedKnown' /\ Earned'
    BY <2>1 DEF DatedKnown, NoCommit, Earned, Published
  <2> QED BY <1>1, <2>1, <2>4, <2>5, CheckLeaves
<1>3. CASE ReadDirty \/ ListRoles
  <2>1. /\ step # "idle" /\ step # "history" /\ step' # "idle" /\ main \in 1..last
        /\ step' = "history" => roles' = has[main]
        /\ UNCHANGED <<repo, play, fleet, deployed, wanted, verdict>>
    BY <1>3 DEF ReadDirty, ListRoles, TypeOK
  <2>2. UNCHANGED <<has, touched, last, main, metric, since, calm>>
    BY <2>1 DEF repo, fleet, verdict
  <2>3. CalmKnown' /\ Earned'
    BY <2>1, <2>2 DEF CalmKnown, Earned, Published
  <2>4. wanted = NoCommit /\ wanted' = NoCommit'
    BY <2>1 DEF DatedKnown, NoCommit
  <2>5. DatedKnown'
    <3>1. main \in since..last
      BY <2>1 DEF TypeOK
    <3> QED BY <2>1, <2>2, <2>4, <3>1 DEF DatedKnown, NoCommit
  <2> QED BY <1>1, <2>1, <2>3, <2>5, CheckLeaves
<1>4. ASSUME NEW r \in Role, DateRole(r) PROVE LineInv'
  <2>1. /\ step = "history" /\ step' = step /\ r \in roles /\ roles' = roles \ {r}
        /\ wanted' = [wanted EXCEPT ![r] = touched[main][r]]
        /\ UNCHANGED <<repo, play, fleet, deployed, dirty, verdict>>
    BY <1>4 DEF DateRole
  <2>2. UNCHANGED <<has, touched, last, main, metric, since, calm>>
    BY <2>1 DEF repo, fleet, verdict
  <2>3. CalmKnown' /\ Earned'
    BY <2>1, <2>2 DEF CalmKnown, Earned, Published
  <2>4. PICK m \in since..last : \A q \in Role :
          /\ q \in roles \/ wanted[q] # 0 => q \in has[m]
          /\ wanted[q] # 0 => \E d \in m..last : wanted[q] = touched[d][q]
    BY <2>1 DEF DatedKnown
  <2>5. main = last /\ last \in m..last
    BY DEF TypeOK
  <2>6. ASSUME NEW q \in Role
        PROVE  /\ q \in roles' \/ wanted'[q] # 0 => q \in has[m]
               /\ wanted'[q] # 0 => \E d \in m..last : wanted'[q] = touched[d][q]
    <3>1. CASE q = r
      BY <2>1, <2>4, <2>5, <3>1 DEF TypeOK
    <3>2. CASE q # r
      <4>1. wanted'[q] = wanted[q]
        BY <2>1, <3>2 DEF TypeOK
      <4> QED BY <2>1, <2>4, <4>1
    <3> QED BY <3>1, <3>2
  <2>7. DatedKnown'
    BY <2>1, <2>2, <2>6 DEF DatedKnown
  <2> QED BY <1>1, <2>1, <2>3, <2>7, CheckLeaves
<1>5. CASE Verdict \/ Unreachable
  <2>1. /\ Done
        /\ \/ exit' = 2
           \/ step = "history" /\ roles = {} /\ exit' = Outcome
    BY <1>5 DEF Verdict, Unreachable
  <2>2. step' = "idle" /\ wanted' = NoCommit /\ UNCHANGED <<repo, play, fleet, since, calm>>
    BY <2>1 DEF Done
  <2>3. UNCHANGED <<has, touched, metric>>
    BY <2>2 DEF repo, fleet
  <2>4. CalmKnown' /\ DatedKnown'
    BY <2>2, <2>3 DEF CalmKnown, DatedKnown, NoCommit
  <2>5. Earned'
    <3> SUFFICES ASSUME exit' = 0, NEW h \in calm, NEW r \in Stamped(h)
                 PROVE  /\ r \in has[since] /\ touched[since][r] # 0
                        /\ touched[since][r] <= metric[h][r].ts
      BY <2>2, <2>3 DEF Earned, Stamped
    <3> QED BY <2>1, VerdictEarned
  <2> QED BY <1>1, <2>2, <2>4, <2>5, CheckLeaves
<1> QED BY <1>2, <1>3, <1>4, <1>5 DEF Check

LEMMA LineInvKept ==
  ASSUME MainOnly
  PROVE  LineInv /\ [Next]_vars => LineInv'
<1> SUFFICES ASSUME LineInv, [Next]_vars PROVE LineInv'
  OBVIOUS
<1>1. CASE UNCHANGED vars
  <2>1. UNCHANGED <<repo, play, fleet, check>>
    BY <1>1 DEF vars
  <2>2. /\ UNCHANGED <<has, touched, last, metric>>
        /\ UNCHANGED <<step, deployed, roles, wanted, exit, since, calm>>
    BY <2>1 DEF repo, fleet, check, answers, verdict
  <2>3. CalmKnown' /\ DatedKnown' /\ Earned'
    BY <2>2 DEF LineInv, CalmKnown, DatedKnown, NoCommit, Earned, Published, Stamped
  <2>4. TypeOK'
    BY <1>1, TypeKept DEF LineInv
  <2> QED BY <2>1, <2>3, <2>4, CheckLeaves
<1>2. ASSUME NEW rs \in SUBSET Role PROVE ~BranchCommit(rs)
  BY DEF BranchCommit, MainOnly
<1>3. CASE Operator
  <2>1. CASE \E rs \in SUBSET Role, deletes \in BOOLEAN : Merge(rs, deletes)
    BY <2>1, MergeKnown
  <2>2. CASE (\E c \in Commit : CheckOut(c)) \/ (\E r \in Role : Edit(r))
    BY <2>2, CheckOutKnown
  <2>3. CASE \E limit \in SUBSET Host \ {{}}, tags \in SUBSET Role \ {{}} :
               StartPlaybook(limit, tags)
    BY <2>3, StartKnown
  <2> QED BY <1>2, <1>3, <2>1, <2>2, <2>3 DEF Operator
<1> QED BY <1>1, <1>3, PlaybookKnown, ScrapeKnown, CheckKnown DEF Next

LEMMA LineInvHolds ==
  ASSUME MainOnly
  PROVE  Spec => []LineInv
BY InitInLine, LineInvKept, PTL DEF Spec

-----------------------------------------------------------------------------
\* Deployed from main only, over a checkout that stays where it is during a
\* play: a gauge of 0 means that every stamped role of a host that was at rest
\* is no older than main was when the check began, whatever plays failed, and
\* whatever was merged, deleted or added back meanwhile.
THEOREM MissedChangesReported ==
  ASSUME MainOnly
  PROVE  Spec => []MissedChangeIsReported
<1>1. LineInv => MissedChangeIsReported
  <2> SUFFICES ASSUME LineInv, Published, exit = 0, NEW h \in calm,
                      NEW r \in Stamped(h) \cap has[since]
               PROVE  applied[h][r].v >= touched[since][r]
    BY DEF MissedChangeIsReported
  <2> USE DEF LineInv
  <2>1. h \in Host /\ r \in Role /\ metric[h][r].ts # 0
    BY DEF TypeOK, Stamped
  <2>2. touched[since][r] <= metric[h][r].ts /\ metric[h][r].ts <= since
    BY <2>1 DEF Earned, CalmKnown
  <2>3. touched[metric[h][r].ts][r] <= applied[h][r].v
    BY <2>1 DEF FleetKnown, Covered
  <2>4. metric[h][r].ts \in 1..since /\ since \in 1..last
    <3>1. metric \in Stamps /\ since \in 1..last /\ last \in Nat
      BY DEF TypeOK
    <3> QED BY <2>1, <2>2, <3>1 DEF Stamps
  <2>5. touched[metric[h][r].ts][r] = touched[since][r]
    BY <2>1, <2>2, <2>4 DEF InLine
  <2>6. touched[since][r] \in Nat /\ applied[h][r].v \in Nat
    BY <2>1, <2>4 DEF TypeOK
  <2> QED BY <2>3, <2>5, <2>6
<1> QED BY <1>1, LineInvHolds, PTL

\* And no stamp of such a host was left out of the comparison.
THEOREM NoneLeftOut ==
  ASSUME MainOnly
  PROVE  Spec => []NothingLeftOut
<1>1. LineInv => NothingLeftOut
  BY DEF LineInv, Earned, NothingLeftOut
<1> QED BY <1>1, LineInvHolds, PTL

-----------------------------------------------------------------------------
(* Whole plays: what a stamp says of its role is so, and a gauge of 1 is real. *)

\* A stamp, or a metric, that a host carries hides neither a modified file nor a
\* newer commit.
Trusted(s, h, r) ==
    s[h][r].ts # 0 => (applied[h][r].edited => s[h][r].dirty) /\ applied[h][r].v <= s[h][r].ts

\* What the play at a host has applied and not yet stamped.
Fresh(h, r) == pc = "roles" /\ h = host /\ r \in Selected(host) \ left

StampTrust ==
    \A h \in Host, r \in Role :
      /\ ~Fresh(h, r) => Trusted(stamp, h, r)
      /\ Fresh(h, r) => applied[h][r].v <= head /\ (applied[h][r].edited => r \in edited)
MetricTrust ==
    /\ pc = "roles" => left \subseteq Selected(host)
    /\ \A h \in Host : pc = "idle" \/ h # host => metric[h] = stamp[h]
CalmTrust ==
    \A h \in calm :
      /\ prom[h] = metric[h]
      /\ \A r \in Role :
           /\ Trusted(metric, h, r)
           /\ step # "idle" => deployed[h][r] = metric[h][r].ts
           /\ step \in {"list", "history"} /\ metric[h][r].dirty => <<h, r>> \in dirty
TouchedKnown ==
    /\ \A c \in 1..last : \A r \in Role : touched[c][r] <= c
    /\ \A r \in Role : wanted[r] <= touched[main][r]
DirtyTold ==
    Published /\ exit = 0 => \A h \in calm : \A r \in Stamped(h) : ~metric[h][r].dirty
BehindTold ==
    Published /\ exit = 1 /\ calm = Host =>
      \E h \in Host, r \in Role :
        metric[h][r].ts # 0 /\ metric[h][r].ts < touched[main][r]

TrustInv ==
    /\ TypeOK /\ StampTrust /\ MetricTrust /\ CalmTrust
    /\ TouchedKnown /\ DirtyTold /\ BehindTold

-----------------------------------------------------------------------------
LEMMA TsTyped ==
  ASSUME TypeOK, NEW h \in Host, NEW r \in Role
  PROVE  stamp[h][r].ts \in Nat /\ metric[h][r].ts \in Nat
<1>1. stamp \in Stamps /\ metric \in Stamps
  BY DEF TypeOK
<1> QED BY <1>1 DEF Stamps

LEMMA MainTyped ==
  ASSUME TypeOK, NEW r \in Role
  PROVE  touched[main][r] \in Nat /\ wanted[r] \in Nat
<1>1. main \in 1..last /\ last \in 1..MaxCommits
  BY DEF TypeOK
<1>2. touched \in [Commit -> [Role -> 0..MaxCommits]]
  BY DEF TypeOK
<1>3. wanted \in [Role -> 0..MaxCommits]
  BY DEF TypeOK
<1>4. main \in Commit
  BY <1>1
<1>5. touched[main][r] \in 0..MaxCommits /\ wanted[r] \in 0..MaxCommits
  BY <1>2, <1>3, <1>4
<1> QED BY <1>5

LEMMA MainTypedAfter ==
  ASSUME TypeOK', NEW r \in Role
  PROVE  touched'[main'][r] \in Nat
<1>1. main' \in 1..last' /\ last' \in 1..MaxCommits
  BY DEF TypeOK
<1>2. touched' \in [Commit -> [Role -> 0..MaxCommits]]
  BY DEF TypeOK
<1>3. main' \in Commit
  BY <1>1
<1>4. touched'[main'][r] \in 0..MaxCommits
  BY <1>2, <1>3
<1> QED BY <1>4

LEMMA InitTrust == Init => TrustInv
<1> SUFFICES ASSUME Init PROVE TrustInv
  OBVIOUS
<1>1. TypeOK
  BY InitTyped
<1>2. \A h \in Host, r \in Role : stamp[h][r].ts = 0
  BY DEF Init, NoStamp
<1>3. StampTrust
  BY <1>2 DEF Init, StampTrust, Trusted, Fresh
<1>4. MetricTrust /\ CalmTrust /\ DirtyTold /\ BehindTold
  BY DEF Init, MetricTrust, CalmTrust, DirtyTold, BehindTold, Published
<1>5. TouchedKnown
  BY DEF Init, TouchedKnown, NoCommit
<1> QED BY <1>1, <1>3, <1>4, <1>5 DEF TrustInv

\* Commits, checkouts and edits, none of them during a play.
LEMMA RepoTrust ==
  ASSUME TrustInv, TypeOK', UNCHANGED <<play, fleet, check>>, TouchedKnown',
         pc = "idle" \/ UNCHANGED <<head, edited>>,
         \A r \in Role : touched[main][r] <= touched'[main'][r]
  PROVE  TrustInv'
<1> USE DEF TrustInv
<1>1. /\ UNCHANGED <<pc, host, hosts, left, listed, applied, stamp, metric, prom>>
      /\ UNCHANGED <<step, deployed, dirty, roles, wanted, exit, since, calm>>
  BY DEF play, fleet, check, answers, verdict
<1>2. StampTrust'
  BY <1>1 DEF StampTrust, Trusted, Fresh, Selected
<1>3. MetricTrust'
  BY <1>1 DEF MetricTrust, Selected
<1>4. CalmTrust'
  BY <1>1 DEF CalmTrust, Trusted
<1>5. DirtyTold'
  BY <1>1 DEF DirtyTold, Published, Stamped
<1>6. BehindTold'
  <2> SUFFICES ASSUME step = "idle", exit = 1, calm = Host
               PROVE  \E h \in Host, r \in Role :
                        metric[h][r].ts # 0 /\ metric[h][r].ts < touched'[main'][r]
    BY <1>1 DEF BehindTold, Published
  <2>1. PICK h \in Host, r \in Role : metric[h][r].ts # 0 /\ metric[h][r].ts < touched[main][r]
    BY DEF BehindTold, Published
  <2>2. metric[h][r].ts \in Nat /\ touched[main][r] \in Nat
    BY TsTyped, MainTyped
  <2>3. touched'[main'][r] \in Nat
    BY MainTypedAfter
  <2> QED BY <2>1, <2>2, <2>3
<1> QED BY <1>2, <1>3, <1>4, <1>5, <1>6

LEMMA NewCommitTouched ==
  ASSUME TypeOK, TouchedKnown, NEW c \in 1..last, NEW rs \in SUBSET Role,
         NEW deletes \in BOOLEAN, NewCommit(c, rs, deletes)
  PROVE  /\ \A d \in 1..last' : \A r \in Role : touched'[d][r] <= d
         /\ \A d \in 1..last : touched'[d] = touched[d]
         /\ \A r \in Role : touched[c][r] <= touched'[last'][r]
<1>1. last + 1 \in Commit /\ last' = last + 1 /\ last \in Nat
  BY DEF NewCommit, TypeOK
<1>2. touched' = [touched EXCEPT ![last + 1] =
           [r \in Role |-> IF r \in rs THEN last + 1 ELSE touched[c][r]]]
  BY DEF NewCommit
<1>3. \A d \in 1..last : touched'[d] = touched[d]
  BY <1>1, <1>2 DEF TypeOK
<1>4. \A r \in Role : touched'[last + 1][r] = IF r \in rs THEN last + 1 ELSE touched[c][r]
  BY <1>1, <1>2 DEF TypeOK
<1>5. \A r \in Role : touched[c][r] <= c /\ touched[c][r] \in Nat
  BY <1>1 DEF TouchedKnown, TypeOK
<1> QED BY <1>1, <1>3, <1>4, <1>5 DEF TouchedKnown

LEMMA OperatorTrust ==
  ASSUME WholePlays, TrustInv, Operator
  PROVE  TrustInv'
<1> USE DEF TrustInv
<1>0. TypeOK'
  BY OperatorTyped
<1>1. ASSUME NEW rs \in SUBSET Role, NEW deletes \in BOOLEAN, Merge(rs, deletes) PROVE TrustInv'
  <2>1. /\ main \in 1..last /\ NewCommit(main, rs, deletes) /\ main' = last' /\ last' = last + 1
        /\ UNCHANGED <<head, edited, play, fleet, check>>
    BY <1>1 DEF Merge, NewCommit, TypeOK
  <2>2. /\ \A d \in 1..last' : \A r \in Role : touched'[d][r] <= d
        /\ \A r \in Role : touched[main][r] <= touched'[main'][r]
    BY <2>1, NewCommitTouched
  <2>3. TouchedKnown'
    <3>1. wanted' = wanted
      BY <2>1 DEF check, answers
    <3>2. \A r \in Role : wanted[r] \in Nat /\ touched[main][r] \in Nat /\ touched'[main'][r] \in Nat
      BY <1>0, MainTyped, MainTypedAfter
    <3> QED BY <2>2, <3>1, <3>2 DEF TouchedKnown
  <2> QED BY <1>0, <2>1, <2>2, <2>3, RepoTrust
<1>2. ASSUME NEW rs \in SUBSET Role, BranchCommit(rs) PROVE TrustInv'
  <2>1. /\ head \in 1..last /\ main \in 1..last /\ NewCommit(head, rs, FALSE) /\ pc = "idle"
        /\ UNCHANGED <<main, play, fleet, check>>
    BY <1>2 DEF BranchCommit, MayMove, WholePlays, TypeOK
  <2>2. /\ \A d \in 1..last' : \A r \in Role : touched'[d][r] <= d
        /\ touched'[main] = touched[main]
    BY <2>1, NewCommitTouched
  <2>3. wanted' = wanted /\ \A r \in Role : touched[main][r] \in Nat
    BY <2>1 DEF check, answers, TypeOK
  <2>4. TouchedKnown'
    BY <2>1, <2>2, <2>3 DEF TouchedKnown
  <2> QED BY <1>0, <2>1, <2>2, <2>3, <2>4, RepoTrust
<1>3. CASE (\E c \in Commit : CheckOut(c)) \/ (\E r \in Role : Edit(r))
  <2>1. pc = "idle" /\ UNCHANGED <<touched, last, main, play, fleet, check>>
    BY <1>3 DEF CheckOut, Edit, MayMove, WholePlays
  <2>2. wanted' = wanted /\ \A r \in Role : touched[main][r] \in Nat
    BY <2>1 DEF check, answers, TypeOK
  <2>3. TouchedKnown'
    BY <2>1, <2>2 DEF TouchedKnown
  <2> QED BY <1>0, <2>1, <2>2, <2>3, RepoTrust
<1>4. ASSUME NEW limit \in SUBSET Host \ {{}}, NEW tags \in SUBSET Role \ {{}},
             StartPlaybook(limit, tags)
      PROVE TrustInv'
  <2>1. /\ pc = "idle" /\ left' = Selected(host)' /\ UNCHANGED <<repo, fleet, check>>
    BY <1>4 DEF StartPlaybook, Selected
  <2>2. /\ UNCHANGED <<touched, last, main, head, edited, applied, stamp, metric, prom>>
        /\ UNCHANGED <<step, deployed, dirty, wanted, exit, calm>>
    BY <2>1 DEF repo, fleet, check, answers, verdict
  <2>3. StampTrust' /\ MetricTrust' /\ CalmTrust'
    BY <2>1, <2>2 DEF StampTrust, Trusted, Fresh, MetricTrust, CalmTrust
  <2>4. TouchedKnown' /\ DirtyTold' /\ BehindTold'
    BY <2>2 DEF TouchedKnown, DirtyTold, BehindTold, Published, Stamped
  <2> QED BY <1>0, <2>3, <2>4
<1> QED BY <1>1, <1>2, <1>3, <1>4 DEF Operator

\* A step of the playbook, or a scrape, that leaves what is calm as it was.
LEMMA FleetTrust ==
  ASSUME TrustInv, TypeOK', UNCHANGED <<repo, step, answers, exit, since>>,
         calm' \subseteq calm, StampTrust', MetricTrust',
         \A h \in calm' : UNCHANGED <<metric[h], applied[h]>> /\ prom'[h] = metric'[h]
  PROVE  TrustInv'
<1> USE DEF TrustInv
<1>1. UNCHANGED <<touched, last, main, deployed, dirty, wanted>>
  BY DEF repo, answers
<1>2. CalmTrust'
  BY <1>1 DEF CalmTrust, Trusted
<1>3. TouchedKnown' /\ DirtyTold'
  BY <1>1 DEF TouchedKnown, DirtyTold, Published, Stamped
<1>4. BehindTold'
  <2>1. calm' = Host => calm = Host
    BY DEF TypeOK
  <2> QED BY <1>1, <2>1 DEF BehindTold, Published
<1> QED BY <1>2, <1>3, <1>4

LEMMA PlaybookTrust ==
  ASSUME WholePlays, TrustInv, Playbook
  PROVE  TrustInv'
<1> USE DEF TrustInv
<1>1. TypeOK'
  BY PlaybookTyped
<1>2. ASSUME NEW r \in Role, ApplyRole(r) PROVE TrustInv'
  <2>1. /\ r \in left /\ pc = "roles" /\ left' = left \ {r} /\ calm' = calm \ {host}
        /\ applied' \in [Host -> [Role -> [v : 0..MaxCommits, edited : BOOLEAN]]]
        /\ applied'[host][r] = [v |-> touched[head][r], edited |-> r \in edited]
        /\ \A h \in Host, q \in Role : h # host \/ q # r => applied'[h][q] = applied[h][q]
        /\ UNCHANGED <<repo, pc, host, hosts, listed, stamp, metric, prom, step, answers, exit, since>>
    BY <1>2, ApplyEffect
  <2>2. UNCHANGED <<head, edited>> /\ touched[head][r] <= head /\ host \in Host
    BY <2>1 DEF repo, TypeOK, TouchedKnown
  <2>3. ASSUME NEW h \in Host, NEW q \in Role
        PROVE  /\ ~Fresh(h, q)' => Trusted(stamp, h, q)'
               /\ Fresh(h, q)' => applied'[h][q].v <= head /\ (applied'[h][q].edited => q \in edited)
    <3>1. CASE h = host /\ q = r /\ r \in Selected(host)
      <4>1. Fresh(h, q)'
        BY <2>1, <3>1 DEF Fresh, Selected
      <4>2. applied'[h][q].v = touched[head][r] /\ applied'[h][q].edited = (r \in edited)
        BY <2>1, <3>1
      <4> QED BY <2>2, <3>1, <4>1, <4>2
    <3>2. CASE ~(h = host /\ q = r)
      <4>1. applied'[h][q] = applied[h][q] /\ (Fresh(h, q)' <=> Fresh(h, q))
        BY <2>1, <3>2 DEF Fresh, Selected
      <4> QED BY <2>1, <4>1 DEF StampTrust, Trusted
    <3>3. r \in Selected(host)
      BY <2>1 DEF MetricTrust
    <3> QED BY <3>1, <3>2, <3>3
  <2>4. StampTrust' /\ MetricTrust'
    BY <2>1, <2>2, <2>3 DEF StampTrust, MetricTrust, Selected
  <2>5. \A h \in calm' : applied'[h] = applied[h] /\ metric'[h] = metric[h] /\ prom'[h] = metric'[h]
    BY <2>1 DEF TypeOK, CalmTrust
  <2> QED BY <1>1, <2>1, <2>4, <2>5, FleetTrust
<1>3. CASE Stamp
  <2>1. /\ pc = "roles" /\ left = {} /\ pc' = "reap"
        /\ \A r \in Role : stamp'[host][r] =
              IF r \in Selected(host) THEN [ts |-> head, dirty |-> edited # {}]
              ELSE stamp[host][r]
        /\ \A h \in Host : h # host => stamp'[h] = stamp[h]
        /\ UNCHANGED <<repo, host, hosts, left, listed, applied, metric, prom, check>>
    BY <1>3, StampEffect
  <2>2. UNCHANGED <<step, answers, exit, since, calm>>
    BY <2>1 DEF check, verdict
  <2>3. ASSUME NEW h \in Host, NEW r \in Role PROVE ~Fresh(h, r)' /\ Trusted(stamp, h, r)'
    <3>1. ~Fresh(h, r)' /\ applied' = applied
      BY <2>1 DEF Fresh
    <3>2. CASE h = host /\ r \in Selected(host)
      <4>1. stamp'[h][r] = [ts |-> head, dirty |-> edited # {}]
        BY <2>1, <3>2
      <4>2. applied[h][r].v <= head /\ (applied[h][r].edited => r \in edited)
        BY <2>1, <3>2 DEF StampTrust, Fresh
      <4>3. stamp'[h][r].ts = head /\ stamp'[h][r].dirty = (edited # {})
        BY <4>1
      <4>4. applied[h][r].edited => stamp'[h][r].dirty
        BY <4>2, <4>3
      <4> QED BY <3>1, <4>2, <4>3, <4>4 DEF Trusted
    <3>3. CASE ~(h = host /\ r \in Selected(host))
      <4>1. stamp'[h][r] = stamp[h][r] /\ ~Fresh(h, r)
        BY <2>1, <3>3 DEF Fresh
      <4> QED BY <3>1, <4>1 DEF StampTrust, Trusted
    <3> QED BY <3>2, <3>3
  <2>4. StampTrust' /\ MetricTrust'
    BY <2>1, <2>3 DEF StampTrust, MetricTrust
  <2>5. \A h \in calm' : applied'[h] = applied[h] /\ metric'[h] = metric[h] /\ prom'[h] = metric'[h]
    BY <2>1, <2>2 DEF CalmTrust
  <2> QED BY <1>1, <2>1, <2>2, <2>4, <2>5, FleetTrust
<1>4. CASE Publish
  <2>1. /\ pc = "publish" /\ calm' = calm \ {host} /\ metric'[host] = stamp[host]
        /\ \A h \in Host : h # host => metric'[h] = metric[h]
        /\ \/ pc' = "idle" /\ host' = host
           \/ pc' = "roles" /\ left' = Selected(host') /\ listed' = listed
        /\ UNCHANGED <<repo, applied, stamp, prom, step, answers, exit, since>>
    BY <1>4, PublishEffect
  <2>2. UNCHANGED <<head, edited>>
    BY <2>1 DEF repo
  <2>3. \A h \in Host, r \in Role : ~Fresh(h, r) /\ ~Fresh(h, r)'
    BY <2>1 DEF Fresh, Selected
  <2>4. StampTrust'
    BY <2>1, <2>2, <2>3 DEF StampTrust, Trusted
  <2>5. MetricTrust'
    BY <2>1 DEF MetricTrust, Selected
  <2>6. /\ calm' \subseteq calm
        /\ \A h \in calm' : applied'[h] = applied[h] /\ metric'[h] = metric[h] /\ prom'[h] = metric'[h]
    BY <2>1 DEF TypeOK, CalmTrust
  <2> QED BY <1>1, <2>1, <2>4, <2>5, <2>6, FleetTrust
<1>5. ~PlayFails
  BY DEF PlayFails, WholePlays
<1>6. CASE Reap
  <2>1. /\ pc = "reap" /\ pc' = "publish"
        /\ \A r \in Role : stamp'[host][r] \in {stamp[host][r], NoStamp}
        /\ \A h \in Host : h # host => stamp'[h] = stamp[h]
        /\ UNCHANGED <<repo, host, hosts, left, listed, applied, metric, prom, check>>
    BY <1>6, ReapEffect
  <2>2. UNCHANGED <<step, answers, exit, since, calm>>
    BY <2>1 DEF check, verdict
  <2>3. ASSUME NEW h \in Host, NEW r \in Role PROVE ~Fresh(h, r)' /\ Trusted(stamp, h, r)'
    <3>1. ~Fresh(h, r) /\ ~Fresh(h, r)' /\ applied' = applied
      BY <2>1 DEF Fresh
    <3>2. stamp'[h][r] = stamp[h][r] \/ stamp'[h][r].ts = 0
      BY <2>1 DEF NoStamp
    <3> QED BY <3>1, <3>2 DEF StampTrust, Trusted
  <2>4. StampTrust' /\ MetricTrust'
    BY <2>1, <2>3 DEF StampTrust, MetricTrust
  <2>5. \A h \in calm' : applied'[h] = applied[h] /\ metric'[h] = metric[h] /\ prom'[h] = metric'[h]
    BY <2>1, <2>2 DEF CalmTrust
  <2> QED BY <1>1, <2>1, <2>2, <2>4, <2>5, FleetTrust
<1> QED BY <1>2, <1>3, <1>4, <1>5, <1>6 DEF Playbook

LEMMA ScrapeTrust ==
  ASSUME TrustInv, NEW h \in Host, Scrape(h)
  PROVE  TrustInv'
<1> USE DEF TrustInv
<1>1. TypeOK'
  BY ScrapeTyped
<1>2. /\ prom' = [prom EXCEPT ![h] = metric[h]]
      /\ UNCHANGED <<repo, play, applied, stamp, metric, check>>
  BY DEF Scrape
<1>3. /\ UNCHANGED <<head, edited, pc, host, hosts, left, listed>>
      /\ UNCHANGED <<step, answers, exit, since, calm>>
  BY <1>2 DEF repo, play, check, verdict
<1>4. StampTrust' /\ MetricTrust'
  BY <1>2, <1>3 DEF StampTrust, Trusted, Fresh, Selected, MetricTrust
<1>5. \A g \in calm' : applied'[g] = applied[g] /\ metric'[g] = metric[g] /\ prom'[g] = metric'[g]
  <2>1. prom \in [Host -> [Role -> [ts : 0..MaxCommits, dirty : BOOLEAN]]] /\ calm \subseteq Host
    BY DEF TypeOK, Stamps
  <2> QED BY <1>2, <1>3, <2>1 DEF CalmTrust
<1> QED BY <1>1, <1>2, <1>3, <1>4, <1>5, FleetTrust

\* A step of the checker.
LEMMA AnswersTrust ==
  ASSUME TrustInv, TypeOK', UNCHANGED <<repo, play, fleet>>,
         CalmTrust', \A r \in Role : wanted'[r] <= touched[main][r],
         DirtyTold', BehindTold'
  PROVE  TrustInv'
<1> USE DEF TrustInv
<1>1. /\ UNCHANGED <<touched, last, main, head, edited, pc, host, left, listed>>
      /\ UNCHANGED <<applied, stamp, metric>>
  BY DEF repo, play, fleet
<1>2. StampTrust' /\ MetricTrust' /\ TouchedKnown'
  BY <1>1 DEF StampTrust, Trusted, Fresh, Selected, MetricTrust, TouchedKnown
<1> QED BY <1>2

LEMMA VerdictTrust ==
  ASSUME TrustInv, Verdict
  PROVE  /\ exit' = 0 => \A h \in calm : \A r \in Stamped(h) : ~metric[h][r].dirty
         /\ exit' = 1 /\ calm = Host =>
              \E h \in Host, r \in Role :
                metric[h][r].ts # 0 /\ metric[h][r].ts < touched[main][r]
<1> USE DEF TrustInv
<1>1. exit' = Outcome /\ step = "history"
  BY DEF Verdict
<1>2. ASSUME exit' = 0, NEW h \in calm, NEW r \in Stamped(h) PROVE ~metric[h][r].dirty
  <2>1. h \in Host /\ r \in Role /\ metric[h][r].ts # 0
    BY DEF TypeOK, Stamped
  <2>2. deployed[h][r] = metric[h][r].ts /\ (metric[h][r].dirty => <<h, r>> \in dirty)
    BY <1>1, <2>1 DEF CalmTrust
  <2>3. <<h, r>> \in Pairs
    BY <2>1, <2>2 DEF Pairs
  <2>4. Unknown = {} /\ DirtyPairs = {}
    BY <1>1, <1>2 DEF Outcome
  <2> QED BY <2>2, <2>3, <2>4 DEF DirtyPairs
<1>3. ASSUME exit' = 1, calm = Host
      PROVE  \E h \in Host, r \in Role :
               metric[h][r].ts # 0 /\ metric[h][r].ts < touched[main][r]
  <2>1. PICK p \in Behind : TRUE
    BY <1>1, <1>3 DEF Outcome
  <2>2. /\ p \in Host \X Role /\ deployed[p[1]][p[2]] # 0
        /\ wanted[p[2]] > deployed[p[1]][p[2]]
    BY DEF Behind, Pairs
  <2>3. p[1] \in Host /\ p[2] \in Role
    BY <2>2
  <2>4. deployed[p[1]][p[2]] = metric[p[1]][p[2]].ts
    BY <1>1, <1>3, <2>3 DEF CalmTrust
  <2>5. wanted[p[2]] <= touched[main][p[2]]
    BY <2>3 DEF TouchedKnown
  <2>6. metric[p[1]][p[2]].ts \in Nat /\ wanted[p[2]] \in Nat /\ touched[main][p[2]] \in Nat
    BY <2>3, TsTyped, MainTyped
  <2> QED BY <2>2, <2>3, <2>4, <2>5, <2>6
<1> QED BY <1>2, <1>3

LEMMA CheckTrust ==
  ASSUME TrustInv, Check
  PROVE  TrustInv'
<1> USE DEF TrustInv
<1>1. TypeOK'
  BY CheckTyped
<1>2. CASE ReadDeployed
  <2>1. /\ step = "idle" /\ step' = "dirty"
        /\ calm' = {h \in Host : Quiet(h)}
        /\ deployed' = [h \in Host |-> [r \in Role |-> prom[h][r].ts]]
        /\ UNCHANGED <<repo, play, fleet, wanted>>
    BY <1>2 DEF ReadDeployed
  <2>2. UNCHANGED <<applied, metric, prom>>
    BY <2>1 DEF fleet
  <2>3. ASSUME NEW h \in calm'
        PROVE  /\ prom[h] = metric[h]
               /\ \A r \in Role : Trusted(metric, h, r) /\ deployed'[h][r] = metric[h][r].ts
    <3>1. h \in Host /\ prom[h] = metric[h] /\ (pc = "idle" \/ host # h)
      BY <2>1, <2>3 DEF Quiet
    <3>2. metric[h] = stamp[h]
      BY <3>1 DEF MetricTrust
    <3>3. \A r \in Role : Trusted(stamp, h, r)
      BY <3>1 DEF StampTrust, Fresh
    <3> QED BY <2>1, <3>1, <3>2, <3>3 DEF Trusted
  <2>4. CalmTrust'
    BY <2>1, <2>2, <2>3 DEF CalmTrust, Trusted
  <2>5. DirtyTold' /\ BehindTold'
    BY <2>1 DEF DirtyTold, BehindTold, Published
  <2> QED BY <1>1, <2>1, <2>4, <2>5, AnswersTrust DEF TouchedKnown
<1>3. CASE ReadDirty \/ ListRoles \/ \E r \in Role : DateRole(r)
  <2>1. /\ step # "idle" /\ step' # "idle"
        /\ \/ dirty' = {p \in Host \X Role : prom[p[1]][p[2]].dirty} /\ step = "dirty"
           \/ dirty' = dirty /\ step \in {"list", "history"}
        /\ UNCHANGED <<repo, play, fleet, deployed, verdict>>
    BY <1>3 DEF ReadDirty, ListRoles, DateRole
  <2>2. UNCHANGED <<applied, metric, prom, calm>>
    BY <2>1 DEF fleet, verdict
  <2>3. CalmTrust'
    <3>1. ASSUME NEW h \in calm, NEW r \in Role, metric[h][r].dirty,
                 step' \in {"list", "history"}
          PROVE  <<h, r>> \in dirty'
      <4>1. h \in Host /\ prom[h] = metric[h]
        BY DEF TypeOK, CalmTrust
      <4> QED BY <2>1, <3>1, <4>1 DEF CalmTrust
    <3> QED BY <2>1, <2>2, <3>1 DEF CalmTrust, Trusted
  <2>4. \A r \in Role : wanted'[r] <= touched[main][r]
    <3>1. \A r \in Role : touched[main][r] \in Nat
      BY DEF TypeOK
    <3>2. wanted' = wanted \/ \E r \in Role : wanted' = [wanted EXCEPT ![r] = touched[main][r]]
      BY <1>3 DEF ReadDirty, ListRoles, DateRole
    <3>3. wanted \in [Role -> 0..MaxCommits] /\ \A r \in Role : wanted[r] <= touched[main][r]
      BY DEF TouchedKnown, TypeOK
    <3> QED BY <3>1, <3>2, <3>3
  <2>5. DirtyTold' /\ BehindTold'
    BY <2>1 DEF DirtyTold, BehindTold, Published
  <2> QED BY <1>1, <2>1, <2>3, <2>4, <2>5, AnswersTrust
<1>4. CASE Verdict \/ Unreachable
  <2>1. Done /\ (Unreachable => exit' = 2)
    BY <1>4 DEF Verdict, Unreachable
  <2>2. step' = "idle" /\ wanted' = NoCommit /\ UNCHANGED <<repo, play, fleet, since, calm>>
    BY <2>1 DEF Done
  <2>3. UNCHANGED <<touched, main, applied, metric, prom>>
    BY <2>2 DEF repo, fleet
  <2>4. CalmTrust'
    BY <2>2, <2>3 DEF CalmTrust, Trusted
  <2>5. \A r \in Role : wanted'[r] <= touched[main][r]
    <3>1. \A r \in Role : touched[main][r] \in Nat
      BY DEF TypeOK
    <3> QED BY <2>2, <3>1 DEF NoCommit
  <2>6. DirtyTold' /\ BehindTold'
    BY <1>4, <2>1, <2>2, <2>3, VerdictTrust DEF DirtyTold, BehindTold, Published, Stamped
  <2> QED BY <1>1, <2>2, <2>4, <2>5, <2>6, AnswersTrust
<1> QED BY <1>2, <1>3, <1>4 DEF Check

LEMMA TrustInvKept ==
  ASSUME WholePlays
  PROVE  TrustInv /\ [Next]_vars => TrustInv'
<1> SUFFICES ASSUME TrustInv, [Next]_vars PROVE TrustInv'
  OBVIOUS
<1>1. CASE UNCHANGED vars
  <2>1. UNCHANGED <<repo, play, fleet, check>>
    BY <1>1 DEF vars
  <2>2. /\ UNCHANGED <<touched, main, applied, metric, prom>>
        /\ UNCHANGED <<step, deployed, dirty, wanted, exit, calm>>
    BY <2>1 DEF repo, fleet, check, answers, verdict
  <2>3. CalmTrust' /\ DirtyTold' /\ BehindTold' /\ \A r \in Role : wanted'[r] <= touched[main][r]
    BY <2>2 DEF TrustInv, CalmTrust, Trusted, DirtyTold, BehindTold, Published, Stamped, TouchedKnown
  <2>4. TypeOK'
    BY <1>1, TypeKept DEF TrustInv
  <2> QED BY <2>1, <2>3, <2>4, AnswersTrust
<1> QED BY <1>1, OperatorTrust, PlaybookTrust, ScrapeTrust, CheckTrust DEF Next

LEMMA TrustInvHolds ==
  ASSUME WholePlays
  PROVE  Spec => []TrustInv
BY InitTrust, TrustInvKept, PTL DEF Spec

\* Plays that come to their end: a gauge of 0 means that no stamped role of a
\* host that was at rest came from a modified file, from whatever branch or older
\* commit it was deployed.
THEOREM ModifiedFilesReported ==
  ASSUME WholePlays
  PROVE  Spec => []DirtyIsReported
<1>1. TrustInv => DirtyIsReported
  <2> SUFFICES ASSUME TrustInv, Published, exit = 0, NEW h \in calm, NEW r \in Stamped(h)
               PROVE  ~applied[h][r].edited
    BY DEF DirtyIsReported
  <2>1. r \in Role /\ metric[h][r].ts # 0
    BY DEF Stamped
  <2>2. ~metric[h][r].dirty /\ Trusted(metric, h, r)
    BY <2>1 DEF TrustInv, DirtyTold, CalmTrust
  <2> QED BY <2>1, <2>2 DEF Trusted
<1> QED BY <1>1, TrustInvHolds, PTL

\* And a gauge of 1, with every host left alone since the check began, means that
\* some host does not run what main has.
THEOREM AlarmsAreReal ==
  ASSUME WholePlays
  PROVE  Spec => []BehindIsReal
<1>1. TrustInv => BehindIsReal
  <2> SUFFICES ASSUME TrustInv, Published, exit = 1, calm = Host
               PROVE  \E h \in Host, r \in Role :
                        metric[h][r].ts # 0 /\ applied[h][r].v # touched[main][r]
    BY DEF BehindIsReal
  <2>1. PICK h \in Host, r \in Role : metric[h][r].ts # 0 /\ metric[h][r].ts < touched[main][r]
    BY DEF TrustInv, BehindTold
  <2>2. applied[h][r].v <= metric[h][r].ts
    BY <2>1 DEF TrustInv, CalmTrust, Trusted
  <2>3. applied[h][r].v \in Nat /\ touched[main][r] \in Nat /\ metric[h][r].ts \in Nat
    <3>1. applied[h][r] \in [v : 0..MaxCommits, edited : BOOLEAN]
      BY DEF TrustInv, TypeOK
    <3> QED BY <3>1, TsTyped, MainTyped DEF TrustInv
  <2> QED BY <2>1, <2>2, <2>3
<1> QED BY <1>1, TrustInvHolds, PTL
=============================================================================
