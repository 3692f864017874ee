------------------------ MODULE GitMirrorSync_proofs ------------------------
EXTENDS GitMirrorSync, FiniteSetTheorems, TLAPS

USE SyncTyped DEF Steps, repo

\* The pairs a run is done with.
Passed(p) ==
    /\ pc # "idle" /\ p[1] \notin todo
    /\ pc # "repo" /\ repo = p[1] => now[2] = "Gitea" /\ p[2] = "GitLab"

\* What a run knows of the copy it made and of the pairs it has passed.
CopyKnown ==
    /\ fetched => made[repo] = "repo" /\ local[repo] >= asked[repo]
    /\ pc = "push" => fetched
    /\ pc \in {"idle", "mkdir", "init", "fetch"} => ~fetched
AskedKnown ==
    \A r \in Repo :
        /\ asked[r] <= github[r]
        /\ r \in todo \/ pc = "idle" => asked[r] = 0
PassedKnown ==
    /\ odd \subseteq stray
    /\ \A p \in Pair :
         Passed(p) /\ asked[p[1]] # 0 /\ p \notin failures
             => has[p] >= asked[p[1]] /\ p \notin odd

SyncInv == TypeOK /\ CopyKnown /\ AskedKnown /\ PassedKnown

-----------------------------------------------------------------------------
LEMMA NowhereTyped == Nowhere \in Pair
<1>1. PICK r \in Repo : TRUE
  BY SyncTyped
<1>2. <<r, "GitLab">> \in Pair
  BY DEF Pair
<1> QED BY <1>2 DEF Nowhere

LEMMA PairParts ==
  ASSUME NEW p \in Pair
  PROVE  p[1] \in Repo /\ p[2] \in {"GitLab", "Gitea"} /\ p = <<p[1], p[2]>>
BY DEF Pair

LEMMA EndsTyped ==
  ASSUME TypeOK, NEW how \in {"ok", "failed"}, Ends(how),
         UNCHANGED <<remotes, copies>>, bad' \in 0..MaxBad
  PROVE  TypeOK'
<1>1. /\ pc' = "idle" /\ todo' = {} /\ failures' = {} /\ odd' = {} /\ fetched' = FALSE
      /\ result' = how /\ now' = Nowhere /\ asked' = [r \in Repo |-> 0]
  BY DEF Ends
<1>2. asked' \in [Repo -> 0..MaxCommit] /\ now' \in Pair
  BY <1>1, NowhereTyped
<1>3. UNCHANGED <<github, has, stray, made, local>>
  BY DEF remotes, copies
<1> QED BY <1>1, <1>2, <1>3 DEF TypeOK

\* After a mirror comes the other of the same repository, or the next repository.
LEMMA OnwardTyped ==
  ASSUME TypeOK, NEW S \in SUBSET Pair, Onward(S), pc \notin {"idle", "repo"},
         UNCHANGED <<github, stray, made>>, has' \in [Pair -> 0..MaxCommit],
         local' \in [Repo -> 0..MaxCommit], fetched' \in BOOLEAN, bad' \in 0..MaxBad
  PROVE  TypeOK'
<1>1. now' \in Pair /\ now'[1] = now[1] /\ pc' \in {"mirror", "repo"}
  BY PairParts DEF Onward, TypeOK, Pair
<1> QED BY <1>1, PairParts DEF Onward, TypeOK

LEMMA BadTyped ==
  ASSUME TypeOK, Bad \/ Fine
  PROVE  bad' \in 0..MaxBad
BY DEF TypeOK, Bad, Fine

LEMMA ScriptTyped ==
  ASSUME SyncInv, Script
  PROVE  TypeOK'
<1> USE DEF SyncInv
<1>1. CASE List
  <2>1. CASE Fine /\ pc' = "repo"
    <3>1. /\ todo' \subseteq Repo /\ odd' = stray
          /\ UNCHANGED <<github, has, stray, made, local, now, asked, fetched, failures, result, bad>>
      BY <1>1, <2>1 DEF List, Fine, Ends, remotes, copies
    <3> QED BY <2>1, <3>1 DEF TypeOK
  <2>2. CASE Bad /\ Ends("failed")
    BY <1>1, <2>2, BadTyped, EndsTyped DEF List
  <2> QED BY <1>1, <2>1, <2>2 DEF List
<1>2. CASE HeadGitHub
  <2> PICK r \in todo : HeadGitHub!3!(r)
    BY <1>2 DEF HeadGitHub
  <2>1. r \in Repo /\ todo' = todo \ {r} /\ bad' \in 0..MaxBad
    BY <1>2, BadTyped DEF TypeOK, HeadGitHub
  <2>2. CASE pc' = "mirror" /\ now' = <<r, "GitLab">> /\ asked' = [asked EXCEPT ![r] = github[r]]
                /\ fetched' = FALSE /\ github[r] # 0
    BY <1>2, <2>1, <2>2 DEF HeadGitHub, TypeOK, Pair, remotes, copies
  <2>3. CASE UNCHANGED <<pc, now, asked, fetched>>
    BY <1>2, <2>1, <2>3 DEF HeadGitHub, TypeOK, remotes, copies
  <2> QED BY <2>2, <2>3
<1>3. CASE HeadMirror
  <2>1. bad' \in 0..MaxBad
    BY <1>3, BadTyped DEF HeadMirror
  <2>2. ASSUME Onward({}) PROVE TypeOK'
    BY <1>3, <2>1, <2>2, OnwardTyped DEF HeadMirror, TypeOK, remotes, copies
  <2>3. ASSUME ~Onward({}) PROVE TypeOK'
    <3>1. /\ pc = "mirror" /\ pc' \in {"push", "mkdir", "fetch"}
          /\ pc' = "push" => fetched
          /\ UNCHANGED <<github, has, stray, made, local, fetched, todo, now, asked, failures, result, odd>>
      BY <1>3, <2>3 DEF HeadMirror, remotes, copies
    <3> QED BY <2>1, <3>1 DEF TypeOK, CopyKnown
  <2> QED BY <2>2, <2>3
<1>4. CASE Mkdir \/ GitInit
  BY <1>4, PairParts DEF Mkdir, GitInit, TypeOK, remotes
<1>5. CASE Fetch
  <2>1. bad' \in 0..MaxBad
    BY <1>5, BadTyped DEF Fetch
  <2>2. CASE made[repo] = "repo" /\ local' = [local EXCEPT ![repo] = github[repo]]
             /\ fetched' = TRUE /\ pc' = "push"
             /\ UNCHANGED <<todo, now, asked, failures, result, odd>>
    BY <1>5, <2>1, <2>2, PairParts DEF Fetch, TypeOK, remotes
  <2>3. CASE Onward({now}) /\ UNCHANGED <<local, fetched>>
    BY <1>5, <2>1, <2>3, OnwardTyped DEF Fetch, TypeOK, remotes
  <2> QED BY <1>5, <2>2, <2>3 DEF Fetch
<1>6. CASE Push
  <2>1. bad' \in 0..MaxBad
    BY <1>6, BadTyped DEF Push
  <2>2. has' \in [Pair -> 0..MaxCommit]
    BY <1>6, PairParts DEF Push, Moved, TypeOK
  <2>3. \E S \in SUBSET Pair : Onward(S)
    BY <1>6 DEF Push, TypeOK
  <2> QED BY <1>6, <2>1, <2>2, <2>3, OnwardTyped DEF Push, TypeOK, copies
<1>7. CASE Finish
  BY <1>7, EndsTyped DEF Finish, TypeOK
<1> QED BY <1>1, <1>2, <1>3, <1>4, <1>5, <1>6, <1>7 DEF Script

LEMMA PeopleTyped ==
  ASSUME SyncInv, People
  PROVE  TypeOK'
<1> USE PairParts DEF copies, run, SyncInv
<1>1. ASSUME NEW r \in Repo, Merge(r) PROVE TypeOK'
  BY <1>1 DEF Merge, TypeOK
<1>2. ASSUME NEW p \in Pair, Land(p) PROVE TypeOK'
  BY <1>2 DEF Land, TypeOK
<1>3. ASSUME NEW p \in Pair, CommitThere(p) PROVE TypeOK'
  BY <1>3 DEF CommitThere, TypeOK
<1> QED BY <1>1, <1>2, <1>3 DEF People

LEMMA NextTyped ==
  ASSUME SyncInv, [Next]_vars
  PROVE  TypeOK'
<1>1. CASE Script
  BY <1>1, ScriptTyped
<1>2. CASE Kill
  BY <1>2, BadTyped, EndsTyped DEF Kill, SyncInv
<1>3. CASE People
  BY <1>3, PeopleTyped
<1>4. CASE UNCHANGED vars
  BY <1>4 DEF vars, remotes, copies, run, TypeOK, SyncInv
<1> QED BY <1>1, <1>2, <1>3, <1>4 DEF Next

LEMMA InitKnown == Init => SyncInv
<1> SUFFICES ASSUME Init PROVE SyncInv
  OBVIOUS
<1>1. github \in [Repo -> 0..MaxCommit] /\ has \in [Pair -> 0..MaxCommit]
  BY DEF Init
<1>2. /\ made \in [Repo -> {"no", "dir", "repo"}] /\ local \in [Repo -> 0..MaxCommit]
      /\ asked \in [Repo -> 0..MaxCommit]
  BY DEF Init
<1>3. /\ stray = {} /\ failures = {} /\ odd = {} /\ bad = 0 /\ pc = "idle" /\ todo = {}
      /\ now = Nowhere /\ fetched = FALSE /\ result = "none"
  BY DEF Init
<1>4. TypeOK
  <2>1. now \in Pair /\ bad \in 0..MaxBad
    BY <1>3, NowhereTyped
  <2> QED BY <1>1, <1>2, <1>3, <2>1 DEF TypeOK
<1>5. CopyKnown /\ AskedKnown /\ PassedKnown
  BY <1>1, <1>3 DEF Init, CopyKnown, AskedKnown, PassedKnown, Passed
<1> QED BY <1>4, <1>5 DEF SyncInv

LEMMA EndsKnown ==
  ASSUME SyncInv, NEW how \in {"ok", "failed"}, Ends(how), UNCHANGED <<remotes, copies>>
  PROVE  CopyKnown' /\ AskedKnown' /\ PassedKnown'
<1>1. \A r \in Repo : asked'[r] = 0
  BY DEF Ends
<1>2. ~fetched' /\ pc' = "idle" /\ odd' = {} /\ github' = github
  BY DEF Ends, remotes
<1> QED BY <1>1, <1>2 DEF SyncInv, TypeOK, CopyKnown, AskedKnown, PassedKnown, Passed

\* A run goes on from a pair with a mirror that has what was asked, or a report.
LEMMA OnwardKnown ==
  ASSUME SyncInv, pc \notin {"idle", "repo"}, NEW S \in SUBSET Pair, Onward(S),
         \A p \in Pair : has'[p] \in Nat /\ has'[p] >= has[p],
         now \in S \/ (has'[now] >= asked[repo] /\ now \notin stray),
         UNCHANGED <<github, stray, copies, fetched>>
  PROVE  CopyKnown' /\ AskedKnown' /\ PassedKnown'
<1>1. /\ now'[1] = now[1] /\ pc' \in {"mirror", "repo"}
      /\ now[2] = "GitLab" => pc' = "mirror" /\ now' = <<now[1], "Gitea">>
      /\ now[2] = "Gitea" => pc' = "repo" /\ now' = now
      /\ failures' = failures \cup S /\ UNCHANGED <<todo, asked, odd>>
  BY PairParts DEF Onward
<1>2. CopyKnown'
  BY <1>1 DEF SyncInv, CopyKnown, copies
<1>3. AskedKnown'
  BY <1>1 DEF SyncInv, AskedKnown
<1>4. ASSUME NEW p \in Pair, Passed(p)', p # now PROVE Passed(p)
  BY <1>1, <1>4, PairParts DEF Passed, SyncInv, TypeOK
<1>5. ASSUME NEW p \in Pair, Passed(p)', asked'[p[1]] # 0, p \notin failures'
      PROVE  has'[p] >= asked'[p[1]] /\ p \notin odd'
  <2>1. has[p] \in Nat /\ asked[p[1]] \in Nat
    BY PairParts DEF SyncInv, TypeOK
  <2>2. has'[p] \in Nat /\ has'[p] >= has[p]
    BY <1>5
  <2>3. CASE p = now
    BY <1>1, <1>5, <2>3 DEF SyncInv, PassedKnown
  <2>4. CASE p # now
    BY <1>1, <1>4, <1>5, <2>1, <2>2, <2>4 DEF SyncInv, PassedKnown
  <2> QED BY <2>3, <2>4
<1> QED BY <1>1, <1>2, <1>3, <1>5 DEF PassedKnown, SyncInv

LEMMA ScriptKnown ==
  ASSUME SyncInv, Script
  PROVE  CopyKnown' /\ AskedKnown' /\ PassedKnown'
<1>1. CASE List
  <2>1. CASE pc' = "repo"
    <3>1. /\ pc = "idle" /\ odd' = stray /\ UNCHANGED <<github, has, stray, made, local>>
          /\ UNCHANGED <<now, asked, fetched, failures>> /\ ~fetched
          /\ todo' \subseteq Repo /\ \A r \in Repo : asked[r] = 0
      BY <1>1, <2>1 DEF List, Ends, remotes, copies, SyncInv, CopyKnown, AskedKnown
    <3> QED BY <2>1, <3>1 DEF SyncInv, CopyKnown, AskedKnown, PassedKnown, TypeOK, Pair
  <2>2. CASE Ends("failed")
    BY <1>1, <2>2, EndsKnown DEF List
  <2> QED BY <1>1, <2>1, <2>2 DEF List
<1>2. CASE HeadGitHub
  <2> PICK r \in todo : HeadGitHub!3!(r)
    BY <1>2 DEF HeadGitHub
  <2>1. /\ pc = "repo" /\ r \in Repo /\ todo' = todo \ {r} /\ asked[r] = 0
        /\ UNCHANGED <<github, has, stray, made, local, failures, odd>>
    BY <1>2 DEF HeadGitHub, SyncInv, TypeOK, AskedKnown, remotes, copies
  <2>2. CASE pc' = "mirror" /\ now' = <<r, "GitLab">> /\ asked' = [asked EXCEPT ![r] = github[r]]
                /\ fetched' = FALSE
    <3>1. CopyKnown'
      BY <2>2 DEF CopyKnown
    <3>2. AskedKnown'
      BY <2>1, <2>2 DEF SyncInv, TypeOK, AskedKnown
    <3>3. ASSUME NEW p \in Pair, Passed(p)' PROVE p[1] # r /\ Passed(p)
      BY <2>1, <2>2, <3>3, PairParts DEF Passed
    <3>4. PassedKnown'
      BY <2>1, <2>2, <3>3, PairParts DEF SyncInv, TypeOK, PassedKnown
    <3> QED BY <3>1, <3>2, <3>4
  <2>3. CASE UNCHANGED <<pc, now, asked, fetched>>
    <3>1. CopyKnown' /\ AskedKnown'
      BY <2>1, <2>3 DEF SyncInv, CopyKnown, AskedKnown
    <3>2. ASSUME NEW p \in Pair, Passed(p)', p[1] # r PROVE Passed(p)
      BY <2>1, <2>3, <3>2 DEF Passed
    <3>3. PassedKnown'
      BY <2>1, <2>3, <3>2 DEF SyncInv, PassedKnown
    <3> QED BY <3>1, <3>3
  <2> QED BY <2>2, <2>3
<1>3. CASE HeadMirror
  <2>1. CASE Onward({}) /\ has[now] = asked[repo] /\ now \notin stray
    <3>1. \A p \in Pair : has'[p] \in Nat /\ has'[p] >= has[p]
      BY <1>3 DEF HeadMirror, remotes, SyncInv, TypeOK
    <3>2. has'[now] >= asked[repo]
      BY <1>3, <2>1, <3>1 DEF HeadMirror, remotes, SyncInv, TypeOK
    <3> QED BY <1>3, <2>1, <3>1, <3>2, OnwardKnown DEF HeadMirror, remotes
  <2>2. CASE /\ pc' \in {"push", "mkdir", "fetch"} /\ (pc' = "push" <=> fetched)
             /\ UNCHANGED <<todo, now, asked, failures, odd>>
    <3>1. pc = "mirror" /\ UNCHANGED <<github, has, stray, made, local, fetched>>
      BY <1>3 DEF HeadMirror, remotes, copies
    <3>2. \A p \in Pair : Passed(p)' <=> Passed(p)
      BY <2>2, <3>1 DEF Passed
    <3>3. PassedKnown'
      BY <2>2, <3>1, <3>2 DEF SyncInv, PassedKnown
    <3> QED BY <2>2, <3>1, <3>3 DEF SyncInv, CopyKnown, AskedKnown
  <2> QED BY <1>3, <2>1, <2>2 DEF HeadMirror
<1>4. CASE Mkdir \/ GitInit
  <2>1. /\ pc \in {"mkdir", "init"} /\ pc' \in {"init", "fetch"}
        /\ UNCHANGED <<github, has, stray, local, fetched, todo, now, asked, failures, odd>>
    BY <1>4 DEF Mkdir, GitInit, remotes
  <2>2. \A p \in Pair : Passed(p)' <=> Passed(p)
    BY <2>1 DEF Passed
  <2>3. PassedKnown'
    BY <2>1, <2>2 DEF SyncInv, PassedKnown
  <2> QED BY <2>1, <2>3 DEF SyncInv, CopyKnown, AskedKnown
<1>5. CASE Fetch
  <2>1. CASE local' = [local EXCEPT ![repo] = github[repo]] /\ fetched' = TRUE /\ pc' = "push"
             /\ UNCHANGED <<todo, now, asked, failures, odd>>
    <3>1. pc = "fetch" /\ UNCHANGED <<github, has, stray, made>>
      BY <1>5 DEF Fetch, remotes
    <3>2. \A p \in Pair : Passed(p)' <=> Passed(p)
      BY <2>1, <3>1 DEF Passed
    <3>3. PassedKnown' /\ AskedKnown'
      BY <2>1, <3>1, <3>2 DEF SyncInv, PassedKnown, AskedKnown
    <3>4. made[repo] = "repo"
      BY <1>5, <2>1 DEF Fetch, Onward
    <3>5. CopyKnown'
      BY <2>1, <3>1, <3>4, PairParts DEF SyncInv, CopyKnown, AskedKnown, TypeOK
    <3> QED BY <3>3, <3>5
  <2>2. CASE Onward({now}) /\ UNCHANGED <<local, fetched>>
    <3>1. \A p \in Pair : has'[p] \in Nat /\ has'[p] >= has[p]
      BY <1>5 DEF Fetch, remotes, SyncInv, TypeOK
    <3> QED BY <1>5, <2>2, <3>1, OnwardKnown DEF Fetch, remotes, copies, SyncInv, TypeOK
  <2> QED BY <1>5, <2>1, <2>2 DEF Fetch
<1>6. CASE Push
  <2>1. PICK S \in SUBSET Pair : Onward(S) /\ (now \in S \/ (Takes /\ has' = Moved))
    BY <1>6 DEF Push, SyncInv, TypeOK
  <2>2. /\ pc = "push" /\ UNCHANGED <<github, stray, copies, fetched>>
        /\ has' = has \/ (Takes /\ has' = Moved)
    BY <1>6 DEF Push
  <2>3. \A p \in Pair : has'[p] \in Nat /\ has'[p] >= has[p]
    BY <2>2, PairParts DEF Takes, Moved, SyncInv, TypeOK
  <2>4. local[repo] >= asked[repo]
    BY <2>2 DEF SyncInv, CopyKnown
  <2>5. Takes /\ has' = Moved => has'[now] >= asked[repo] /\ now \notin stray
    BY <2>4 DEF Takes, Moved, SyncInv, TypeOK
  <2> QED BY <2>1, <2>2, <2>3, <2>5, OnwardKnown
<1>7. CASE Finish
  BY <1>7, EndsKnown DEF Finish, remotes, copies
<1> QED BY <1>1, <1>2, <1>3, <1>4, <1>5, <1>6, <1>7 DEF Script

\* What people do moves GitHub and the mirrors forward, and is not the run's.
LEMMA PeopleKnown ==
  ASSUME SyncInv, People
  PROVE  CopyKnown' /\ AskedKnown' /\ PassedKnown'
<1>1. /\ UNCHANGED <<made, local, pc, todo, now, asked, fetched, failures, odd>>
      /\ stray \subseteq stray'
      /\ \A r \in Repo : github'[r] \in Nat /\ github'[r] >= github[r]
      /\ \A p \in Pair : has'[p] \in Nat /\ has'[p] >= has[p]
  <2> USE PairParts DEF copies, run, SyncInv, TypeOK
  <2>1. ASSUME NEW r \in Repo, Merge(r) PROVE <1>1!:
    BY <2>1 DEF Merge
  <2>2. ASSUME NEW p \in Pair, Land(p) PROVE <1>1!:
    BY <2>2 DEF Land
  <2>3. ASSUME NEW p \in Pair, CommitThere(p) PROVE <1>1!:
    BY <2>3 DEF CommitThere
  <2> QED BY <2>1, <2>2, <2>3 DEF People
<1>2. CopyKnown'
  BY <1>1 DEF SyncInv, CopyKnown
<1>3. AskedKnown'
  BY <1>1 DEF SyncInv, TypeOK, AskedKnown
<1>4. \A p \in Pair : asked[p[1]] \in Nat /\ has[p] \in Nat
  BY PairParts DEF SyncInv, TypeOK
<1>5. PassedKnown'
  BY <1>1, <1>4 DEF SyncInv, PassedKnown, Passed
<1> QED BY <1>2, <1>3, <1>5

LEMMA SyncInvKept ==
  ASSUME SyncInv, [Next]_vars
  PROVE  SyncInv'
<1>1. CASE Script
  BY <1>1, ScriptKnown, NextTyped DEF SyncInv
<1>2. CASE Kill
  BY <1>2, EndsKnown, NextTyped DEF Kill, SyncInv, remotes, copies
<1>3. CASE People
  BY <1>3, PeopleKnown, NextTyped DEF SyncInv
<1>4. CASE UNCHANGED vars
  BY <1>4, NextTyped DEF vars, remotes, copies, run, SyncInv, CopyKnown, AskedKnown, PassedKnown,
     Passed
<1> QED BY <1>1, <1>2, <1>3, <1>4 DEF Next

LEMMA SyncInvHolds == Spec => []SyncInv
BY InitKnown, SyncInvKept, PTL DEF Spec

\* Type correctness, for any number of repositories, commits, diverged mirrors,
\* failures and kills; a push is never tried without a copy that is a repository.
THEOREM TypeCorrect == Spec => []TypeOK
<1>1. SyncInv => TypeOK
  BY DEF SyncInv
<1> QED BY <1>1, SyncInvHolds, PTL

\* Nothing a mirror holds is ever taken off it, by whatever interleaving of a run
\* with merges, git land and commits on the mirror.
NothingOverwritten ==
    [][\A p \in Pair : has'[p] >= has[p] /\ (p \in stray => p \in stray' /\ has'[p] = has[p])]_vars

\* It needs nothing of the run but the type of its state.
THEOREM NeverOverwrites == Spec => NothingOverwritten
<1> DEFINE Kept == \A p \in Pair :
       has'[p] >= has[p] /\ (p \in stray => p \in stray' /\ has'[p] = has[p])
<1>1. ASSUME TypeOK, [Next]_vars PROVE Kept
  <2> USE PairParts DEF TypeOK, remotes, copies
  <2>1. CASE Push
    BY <1>1, <2>1 DEF Push, Takes, Moved
  <2>2. ASSUME NEW p \in Pair, Land(p) PROVE Kept
    BY <1>1, <2>2 DEF Land
  <2>3. ASSUME NEW p \in Pair, CommitThere(p) PROVE Kept
    BY <1>1, <2>3 DEF CommitThere
  <2>4. CASE has' = has /\ stray' = stray
    BY <1>1, <2>4
  <2>5. List \/ HeadGitHub \/ HeadMirror \/ Mkdir \/ GitInit \/ Fetch \/ Finish \/ Kill
           => has' = has /\ stray' = stray
    BY DEF List, HeadGitHub, HeadMirror, Mkdir, GitInit, Fetch, Finish, Kill
  <2>6. (\E r \in Repo : Merge(r)) \/ UNCHANGED vars => has' = has /\ stray' = stray
    BY DEF Merge, vars
  <2> QED BY <1>1, <2>1, <2>2, <2>3, <2>4, <2>5, <2>6 DEF Next, Script, People
<1> QED BY <1>1, TypeCorrect, PTL DEF Spec, NothingOverwritten

\* Only Finish ends a run well.
LEMMA EndsWell ==
  ASSUME SyncInv, [Next]_vars, pc = "repo", pc' = "idle", result' = "ok"
  PROVE  todo = {} /\ failures = {}
<1>1. ~Kill /\ ~List /\ ~HeadMirror /\ ~Mkdir /\ ~GitInit /\ ~Fetch /\ ~Push
  BY DEF Kill, Ends, List, HeadMirror, Mkdir, GitInit, Fetch, Push
<1>2. ~HeadGitHub
  BY DEF HeadGitHub
<1>3. ~People /\ ~UNCHANGED vars
  BY DEF People, Merge, Land, CommitThere, run, vars
<1> QED BY <1>1, <1>2, <1>3 DEF Next, Script, Finish, Ends

\* A run that ends well has passed every pair it asked for, and reported none.
LEMMA EndsCopied ==
  ASSUME SyncInv, [Next]_vars, pc = "repo", pc' = "idle", result' = "ok",
         NEW p \in Pair, asked[p[1]] # 0
  PROVE  has[p] >= asked[p[1]] /\ p \notin odd
<1>1. Passed(p) /\ p \notin failures
  BY EndsWell DEF Passed
<1> QED BY <1>1 DEF SyncInv, PassedKnown

\* A unit that is not failed means a copy, for any number of repositories and
\* whatever happened during the run and before it.
THEOREM QuietRunsCopied == Spec => QuietMeansCopied
<1> DEFINE Copied == pc = "repo" /\ pc' = "idle" /\ result' = "ok" =>
                       \A p \in Pair : has[p] >= asked[p[1]]
<1>1. ASSUME SyncInv, [Next]_vars PROVE Copied
  <2> SUFFICES ASSUME pc = "repo", pc' = "idle", result' = "ok", NEW p \in Pair
               PROVE  has[p] >= asked[p[1]]
    OBVIOUS
  <2>1. CASE asked[p[1]] = 0
    BY <1>1, <2>1 DEF SyncInv, TypeOK
  <2>2. CASE asked[p[1]] # 0
    BY <1>1, <2>2, EndsCopied
  <2> QED BY <2>1, <2>2
<1> QED BY <1>1, SyncInvHolds, PTL DEF Spec, QuietMeansCopied

\* A run never ends well over a diverged mirror that was there when it began.
THEOREM DivergenceReported == Spec => DivergedIsReported
<1> DEFINE Reported == pc = "repo" /\ pc' = "idle" /\ result' = "ok" =>
                         \A p \in odd : asked[p[1]] = 0
<1>1. ASSUME SyncInv, [Next]_vars PROVE Reported
  BY <1>1, EndsCopied DEF SyncInv, TypeOK
<1> QED BY <1>1, SyncInvHolds, PTL DEF Spec, DivergedIsReported

-----------------------------------------------------------------------------
(* GitMirrorSync implements Mirrors: github, has and stray are its own.      *)

\* The bare copy of a repository may be old, but is never ahead of GitHub: that is
\* all a push is made from.
CopyIsBehind == \A r \in Repo : local[r] <= github[r]

LEMMA CopyStaysBehind ==
  ASSUME TypeOK, CopyIsBehind, [Next]_vars
  PROVE  CopyIsBehind'
<1>1. CASE Fetch
  BY <1>1, PairParts DEF Fetch, TypeOK, CopyIsBehind, remotes
<1>2. ASSUME NEW r \in Repo, Merge(r) PROVE CopyIsBehind'
  BY <1>2 DEF Merge, TypeOK, CopyIsBehind, copies
<1>3. CASE UNCHANGED <<github, local>>
  BY <1>3 DEF CopyIsBehind
<1>4. \/ Fetch \/ (\E r \in Repo : Merge(r)) \/ UNCHANGED <<github, local>>
  BY DEF Next, Script, People, List, HeadGitHub, HeadMirror, Mkdir, GitInit, Push, Finish, Kill,
     Land, CommitThere, remotes, copies, vars
<1> QED BY <1>1, <1>2, <1>3, <1>4

LEMMA InitFollows == Init => CopyIsBehind /\ Promise!Init
<1> SUFFICES ASSUME Init PROVE CopyIsBehind /\ Promise!Init
  OBVIOUS
<1>1. /\ github \in [Repo -> {0, 1}] /\ has \in [Pair -> {0, 1}] /\ stray = {}
      /\ local = [r \in Repo |-> 0]
  BY DEF Init
<1>2. github \in [Repo -> Nat] /\ has \in [Pair -> Nat]
  BY <1>1
<1> QED BY <1>1, <1>2 DEF CopyIsBehind, Promise!Init, Promise!Mirror, Pair

\* A push takes a mirror to a commit of GitHub's it did not have, or leaves it.
LEMMA PushFollows ==
  ASSUME TypeOK, CopyIsBehind, Push, has' # has
  PROVE  Promise!Next
<1>1. /\ now \in Pair /\ now[1] \in Repo /\ now \notin stray
      /\ has' = [has EXCEPT ![now] = local[repo]] /\ has[now] <= local[repo]
      /\ UNCHANGED <<github, stray>>
  BY PairParts DEF Push, Takes, Moved, TypeOK
<1>2. local[repo] \in Nat /\ has[now] \in Nat /\ github[repo] \in Nat /\ local[repo] <= github[repo]
  BY <1>1 DEF TypeOK, CopyIsBehind
<1>3. local[repo] # has[now]
  BY <1>1 DEF TypeOK
<1>4. local[repo] \in (has[now] + 1)..github[now[1]]
  BY <1>1, <1>2, <1>3
<1>5. Promise!Follow(now)
  BY <1>1, <1>4 DEF Promise!Follow
<1> QED BY <1>1, <1>5 DEF Promise!Next, Promise!Mirror, Pair

LEMMA NextFollows ==
  ASSUME TypeOK, CopyIsBehind, [Next]_vars
  PROVE  [Promise!Next]_(Promise!vars)
<1>1. CASE Push
  BY <1>1, PushFollows DEF Push, Promise!vars
<1>2. ASSUME NEW r \in Repo, Merge(r) PROVE Promise!Next
  <2>1. Promise!Merge(r)
    BY <1>2 DEF Merge, Promise!Merge
  <2> QED BY <2>1 DEF Promise!Next
<1>3. ASSUME NEW p \in Pair, Land(p) PROVE Promise!Next
  <2>1. p[1] \in Repo /\ has[p] \in Nat /\ github[p[1]] \in Nat
    BY PairParts DEF TypeOK
  <2>2. github[p[1]] \in (has[p] + 1)..github[p[1]]
    BY <1>3, <2>1 DEF Land
  <2>3. Promise!Follow(p)
    BY <1>3, <2>2 DEF Land, Promise!Follow
  <2> QED BY <2>3 DEF Promise!Next, Promise!Mirror, Pair
<1>4. ASSUME NEW p \in Pair, CommitThere(p) PROVE Promise!Next
  <2>1. Promise!Part(p)
    BY <1>4 DEF CommitThere, Promise!Part
  <2> QED BY <2>1 DEF Promise!Next, Promise!Mirror, Pair
<1>5. CASE UNCHANGED remotes
  BY <1>5 DEF remotes, Promise!vars
<1>6. \/ Push \/ (\E r \in Repo : Merge(r)) \/ (\E p \in Pair : Land(p) \/ CommitThere(p))
      \/ UNCHANGED remotes
  BY DEF Next, Script, People, List, HeadGitHub, HeadMirror, Mkdir, GitInit, Fetch, Finish, Kill,
     remotes, vars
<1> QED BY <1>1, <1>2, <1>3, <1>4, <1>5, <1>6

\* Whatever a run decided on, however old its copy and whoever else pushes, a mirror
\* takes nothing but commits that GitHub's main has, in their order, and one with a
\* commit of its own takes none: every step is a step of Mirrors or none.
THEOREM MirrorsFollow == Spec => FollowsGitHub
<1>1. Init => CopyIsBehind /\ Promise!Init
  BY InitFollows
<1>2. TypeOK /\ CopyIsBehind /\ [Next]_vars => CopyIsBehind' /\ [Promise!Next]_(Promise!vars)
  BY CopyStaysBehind, NextFollows
<1> QED BY <1>1, <1>2, TypeCorrect, PTL DEF Spec, FollowsGitHub, Promise!Spec

-----------------------------------------------------------------------------
(* How long a run takes: the part of CatchesUp that needs no fairness.       *)

\* What a run at step p still has to do for the repository of the pair n.
Stage(p, n) ==
    LET one == CASE p = "mirror" -> 5 [] p = "mkdir" -> 4 [] p = "init" -> 3
                 [] p = "fetch" -> 2 [] p = "push" -> 1 [] OTHER -> 0
    IN  IF one # 0 /\ n[2] = "GitLab" THEN one + 5 ELSE one

\* The most steps it can still take.
StepsLeft == IF pc = "idle" THEN 0 ELSE 11 * Cardinality(todo) + Stage(pc, now) + 1

LEMMA StageIs ==
  ASSUME NEW p \in Steps \cup {"idle"}, NEW n \in Pair
  PROVE  /\ n[2] = "GitLab" \/ n[2] = "Gitea"
         /\ p \in {"idle", "repo"} => Stage(p, n) = 0
         /\ p = "mirror" => Stage(p, n) = IF n[2] = "GitLab" THEN 10 ELSE 5
         /\ p = "mkdir" => Stage(p, n) = IF n[2] = "GitLab" THEN 9 ELSE 4
         /\ p = "init" => Stage(p, n) = IF n[2] = "GitLab" THEN 8 ELSE 3
         /\ p = "fetch" => Stage(p, n) = IF n[2] = "GitLab" THEN 7 ELSE 2
         /\ p = "push" => Stage(p, n) = IF n[2] = "GitLab" THEN 6 ELSE 1
         /\ Stage(p, n) \in 0..10
<1>1. n[2] = "GitLab" \/ n[2] = "Gitea"
  BY PairParts
<1>2. p \in {"idle", "repo", "mirror", "mkdir", "init", "fetch", "push"}
  OBVIOUS
<1> QED BY <1>1, <1>2 DEF Stage

\* The repositories to be looked at are all that is counted.
LEMMA TodoCounted ==
  ASSUME IsFiniteSet(Repo), NEW T \in SUBSET Repo
  PROVE  /\ Cardinality(T) \in Nat /\ Cardinality(T) <= Cardinality(Repo)
         /\ Cardinality(Repo) \in Nat
         /\ \A r \in T : Cardinality(T \ {r}) = Cardinality(T) - 1
<1>1. IsFiniteSet(T) /\ Cardinality(T) <= Cardinality(Repo)
  BY FS_Subset
<1>2. Cardinality(T) \in Nat /\ Cardinality(Repo) \in Nat
  BY <1>1, FS_CardinalityType
<1>3. ASSUME NEW r \in T PROVE Cardinality(T \ {r}) = Cardinality(T) - 1
  BY <1>1, FS_RemoveElement
<1> QED BY <1>1, <1>2, <1>3

LEMMA StepsTyped ==
  ASSUME IsFiniteSet(Repo), TypeOK
  PROVE  /\ StepsLeft \in 0..(11 * Cardinality(Repo) + 1)
         /\ pc # "idle" => StepsLeft > 0
<1>1. Stage(pc, now) \in 0..10 /\ (pc \in {"idle", "repo"} => Stage(pc, now) = 0)
  BY StageIs DEF TypeOK
<1>2. Cardinality(todo) \in Nat /\ Cardinality(todo) <= Cardinality(Repo) /\ Cardinality(Repo) \in Nat
  BY TodoCounted DEF TypeOK
<1>3. CASE pc \in {"idle", "repo"}
  BY <1>1, <1>2, <1>3 DEF StepsLeft
<1>4. CASE pc \notin {"idle", "repo"}
  <2>1. todo \in SUBSET (Repo \ {repo}) /\ repo \in Repo
    BY <1>4, PairParts DEF TypeOK
  <2>2. IsFiniteSet(Repo \ {repo}) /\ Cardinality(Repo \ {repo}) = Cardinality(Repo) - 1
    BY <2>1, FS_RemoveElement
  <2>3. Cardinality(todo) <= Cardinality(Repo) - 1
    BY <2>1, <2>2, FS_Subset
  <2> QED BY <1>1, <1>2, <1>4, <2>3 DEF StepsLeft
<1> QED BY <1>3, <1>4

\* On to the next mirror is on to fewer steps.
LEMMA OnwardNearer ==
  ASSUME IsFiniteSet(Repo), TypeOK, TypeOK', pc \notin {"idle", "repo"},
         NEW S \in SUBSET Pair, Onward(S)
  PROVE  StepsLeft' < StepsLeft
<1>1. /\ todo' = todo
      /\ \/ now[2] = "GitLab" /\ pc' = "mirror" /\ now'[2] = "Gitea"
         \/ now[2] = "Gitea" /\ pc' = "repo"
  BY StageIs, PairParts DEF Onward, TypeOK
<1>2. /\ now[2] = "GitLab" => Stage(pc, now) \in 6..10
      /\ Stage(pc, now) \in 1..10
  BY StageIs DEF TypeOK
<1>3. /\ pc' = "mirror" /\ now'[2] = "Gitea" => Stage(pc', now') = 5
      /\ pc' = "repo" => Stage(pc', now') = 0
  BY StageIs DEF TypeOK
<1>4. Cardinality(todo) \in Nat
  BY TodoCounted DEF TypeOK
<1> QED BY <1>1, <1>2, <1>3, <1>4 DEF StepsLeft

\* So is every step of a run, and a kill; what people do is none of its steps.
LEMMA StepNearer ==
  ASSUME IsFiniteSet(Repo), TypeOK, TypeOK', pc # "idle", Script \/ Kill
  PROVE  StepsLeft' < StepsLeft
<1>1. Cardinality(todo) \in Nat /\ Stage(pc, now) \in 0..10 /\ Stage(pc', now') \in 0..10
  BY TodoCounted, StageIs DEF TypeOK
<1>2. CASE HeadGitHub
  <2> PICK r \in todo : HeadGitHub!3!(r)
    BY <1>2 DEF HeadGitHub
  <2>1. todo' = todo \ {r} /\ pc' \in {"repo", "mirror"} /\ Cardinality(todo') = Cardinality(todo) - 1
    BY <1>2, TodoCounted DEF HeadGitHub, TypeOK
  <2>2. Stage(pc, now) = 0 /\ pc = "repo"
    BY <1>2, StageIs DEF HeadGitHub, TypeOK
  <2> QED BY <1>1, <2>1, <2>2 DEF StepsLeft
<1>3. CASE HeadMirror
  <2>1. ASSUME Onward({}) PROVE StepsLeft' < StepsLeft
    BY <1>3, <2>1, OnwardNearer DEF HeadMirror
  <2>2. ASSUME ~Onward({}) PROVE StepsLeft' < StepsLeft
    <3>1. /\ pc = "mirror" /\ pc' \in {"push", "mkdir", "fetch"} /\ todo' = todo /\ now' = now
      BY <1>3, <2>2 DEF HeadMirror
    <3>2. Stage(pc', now') < Stage(pc, now)
      BY <3>1, StageIs DEF TypeOK
    <3> QED BY <1>1, <3>1, <3>2 DEF StepsLeft
  <2> QED BY <2>1, <2>2
<1>4. CASE Mkdir \/ GitInit
  <2>1. /\ \/ pc = "mkdir" /\ pc' = "init"
           \/ pc = "init" /\ pc' = "fetch"
        /\ todo' = todo /\ now' = now
    BY <1>4 DEF Mkdir, GitInit
  <2>2. Stage(pc', now') < Stage(pc, now)
    BY <2>1, StageIs DEF TypeOK
  <2> QED BY <1>1, <2>1, <2>2 DEF StepsLeft
<1>5. CASE Fetch
  <2>1. ASSUME Onward({now}) PROVE StepsLeft' < StepsLeft
    BY <1>5, <2>1, OnwardNearer DEF Fetch, TypeOK
  <2>2. ASSUME ~Onward({now}) PROVE StepsLeft' < StepsLeft
    <3>1. pc = "fetch" /\ pc' = "push" /\ todo' = todo /\ now' = now
      BY <1>5, <2>2 DEF Fetch
    <3>2. Stage(pc', now') < Stage(pc, now)
      BY <3>1, StageIs DEF TypeOK
    <3> QED BY <1>1, <3>1, <3>2 DEF StepsLeft
  <2> QED BY <2>1, <2>2
<1>6. CASE Push
  <2>1. \E S \in SUBSET Pair : Onward(S)
    BY <1>6 DEF Push, TypeOK
  <2> QED BY <1>6, <2>1, OnwardNearer DEF Push
<1>7. CASE pc' = "idle"
  BY <1>1, <1>7 DEF StepsLeft
<1> QED BY <1>2, <1>3, <1>4, <1>5, <1>6, <1>7 DEF Script, Kill, List, Finish, Ends

\* A run comes to its end by itself: it has at most eleven steps for each repository
\* and one to finish, each it takes leaves fewer, and neither merges, git land,
\* commits on a mirror nor a bare copy that was left half made give it one more.
THEOREM RunsEnd ==
  ASSUME IsFiniteSet(Repo)
  PROVE  Spec => /\ [](StepsLeft <= 11 * Cardinality(Repo) + 1)
                 /\ [][pc # "idle" => /\ Script \/ Kill => StepsLeft' < StepsLeft /\ StepsLeft' >= 0
                                      /\ People => StepsLeft' = StepsLeft]_vars
<1> DEFINE Short == StepsLeft <= 11 * Cardinality(Repo) + 1
           Nearer == pc # "idle" => /\ Script \/ Kill => StepsLeft' < StepsLeft /\ StepsLeft' >= 0
                                    /\ People => StepsLeft' = StepsLeft
<1>1. TypeOK => Short
  BY StepsTyped, TodoCounted
<1>2. ASSUME TypeOK, TypeOK' PROVE Nearer
  <2>1. ASSUME pc # "idle", Script \/ Kill PROVE StepsLeft' < StepsLeft
    BY <1>2, <2>1, StepNearer
  <2>2. StepsLeft' >= 0
    <3>1. Stage(pc', now') \in 0..10 /\ Cardinality(todo') \in Nat
      BY <1>2, StageIs, TodoCounted DEF TypeOK
    <3> QED BY <3>1 DEF StepsLeft
  <2>3. ASSUME People PROVE StepsLeft' = StepsLeft
    BY <2>3 DEF People, Merge, Land, CommitThere, run, StepsLeft
  <2> QED BY <2>1, <2>2, <2>3
<1> QED BY <1>1, <1>2, TypeCorrect, PTL DEF Spec
=============================================================================
