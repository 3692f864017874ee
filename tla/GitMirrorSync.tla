--------------------------- MODULE GitMirrorSync ---------------------------
(***************************************************************************)
(* bezaforge-git-mirror-sync: every five minutes, main of each repository  *)
(* that GitHub has is copied to GitLab and Gitea, never by force.          *)
(* Meanwhile merges land on GitHub, `git land` pushes to all three from a  *)
(* laptop, a commit appears on a mirror alone, remotes do not answer, and  *)
(* systemd kills a run that takes over four minutes.  One owner.           *)
(***************************************************************************)
EXTENDS Naturals, FiniteSets

CONSTANTS
    Repo,        \* the owner's repositories on Gitea
    MaxCommit,   \* commits of each on GitHub's main, which are 1..MaxCommit
    MaxStrays,   \* mirrors that get a commit of their own
    MaxBad,      \* operations that fail after three attempts, and kills
    HalfMade     \* whether a kill may fall between mkdir and git init

ASSUME SyncTyped ==
    /\ Repo # {} /\ MaxCommit \in Nat \ {0} /\ MaxStrays \in Nat /\ MaxBad \in Nat
    /\ HalfMade \in BOOLEAN

Pair == Repo \X {"GitLab", "Gitea"}

VARIABLES
    github,    \* github[r]: the newest commit of main, 0 when there is none
    has,       \* has[p]: the newest of GitHub's commits that mirror p has
    stray,     \* the mirrors with a commit on top that GitHub does not have
    made,      \* made[r]: the bare copy: "no", "dir" (empty), or "repo"
    local,     \* local[r]: the commit main is at in the bare copy
    pc,        \* the run: "idle", or what it does next
    todo,      \* the repositories still to be looked at
    now,       \* the pair being copied
    asked,     \* asked[r]: `wanted`, 0 for a repository not answered for
    fetched,   \* as in sync()
    failures,  \* the pairs reported
    result,    \* how the last run ended: "none", "ok", "failed"
    odd,       \* the mirrors with such a commit when the run began (history)
    bad        \* failures and kills so far

remotes == <<github, has, stray>>
copies == <<made, local>>
run == <<pc, todo, now, asked, fetched, failures, result, odd>>
vars == <<remotes, copies, run, bad>>

Steps == {"repo", "mirror", "mkdir", "init", "fetch", "push"}
repo == now[1]
Nowhere == CHOOSE p \in Pair : TRUE

TypeOK ==
    /\ github \in [Repo -> 0..MaxCommit] /\ has \in [Pair -> 0..MaxCommit]
    /\ stray \subseteq Pair /\ failures \subseteq Pair /\ odd \subseteq Pair
    /\ made \in [Repo -> {"no", "dir", "repo"}]
    /\ local \in [Repo -> 0..MaxCommit]
    /\ pc \in Steps \cup {"idle"} /\ todo \subseteq Repo /\ now \in Pair
    /\ asked \in [Repo -> 0..MaxCommit]
    /\ fetched \in BOOLEAN /\ result \in {"none", "ok", "failed"}
    /\ bad \in 0..MaxBad
    /\ pc \notin {"idle", "repo"} => asked[repo] # 0 /\ repo \notin todo
    /\ pc = "push" => made[repo] = "repo"

\* Gitea has main of every repository; GitLab may have no project yet, and a
\* repository may be kept on Gitea alone.
Init ==
    /\ github \in [Repo -> {0, 1}]
    /\ has \in {h \in [Pair -> {0, 1}] : \A r \in Repo : h[<<r, "Gitea">>] = 1}
    /\ stray = {} /\ bad = 0
    /\ made = [r \in Repo |-> "no"] /\ local = [r \in Repo |-> 0]
    /\ pc = "idle" /\ todo = {} /\ now = Nowhere /\ asked = [r \in Repo |-> 0]
    /\ fetched = FALSE /\ failures = {} /\ result = "none" /\ odd = {}

Bad == bad < MaxBad /\ bad' = bad + 1
Fine == bad' = bad

\* The run is over, and its memory gone.
Ends(how) ==
    /\ pc' = "idle" /\ result' = how
    /\ todo' = {} /\ failures' = {} /\ odd' = {} /\ fetched' = FALSE
    /\ asked' = [r \in Repo |-> 0] /\ now' = Nowhere

\* On to Gitea after GitLab, and to the next repository after Gitea.
Onward(reported) ==
    /\ failures' = failures \cup reported
    /\ IF now[2] = "GitLab"
       THEN pc' = "mirror" /\ now' = <<repo, "Gitea">>
       ELSE pc' = "repo" /\ now' = now
    /\ UNCHANGED <<todo, asked, result, odd>>

-----------------------------------------------------------------------------
(* A run of the script.                                                     *)

\* gitea_repos: what Gitea lists, empty repositories left out.
List ==
    /\ pc = "idle"
    /\ UNCHANGED <<remotes, copies>>
    /\ \/ /\ Fine
          /\ pc' = "repo" /\ todo' = {r \in Repo : has[<<r, "Gitea">>] > 0}
          /\ odd' = stray
          /\ UNCHANGED <<now, asked, fetched, failures, result>>
       \/ Bad /\ Ends("failed")

\* A slip in HeadGitHub: a repository that is not on GitHub is gone on with.
HeadGitHub_GoesOn ==
    /\ pc = "repo"
    /\ UNCHANGED <<remotes, copies, failures, result, odd>>
    /\ \E r \in todo :
         /\ Fine
         /\ todo' = todo \ {r} /\ asked' = [asked EXCEPT ![r] = github[r]]
         /\ pc' = "mirror" /\ now' = <<r, "GitLab">> /\ fetched' = FALSE

\* `wanted`: one repository that GitHub does not answer for, or that has no main
\* there, is passed over.
HeadGitHub ==
    /\ pc = "repo"
    /\ UNCHANGED <<remotes, copies, failures, result, odd>>
    /\ \E r \in todo :
         /\ todo' = todo \ {r}
         /\ \/ /\ github[r] # 0 /\ Fine
               /\ asked' = [asked EXCEPT ![r] = github[r]]
               /\ pc' = "mirror" /\ now' = <<r, "GitLab">> /\ fetched' = FALSE
            \/ /\ IF github[r] = 0 THEN Fine ELSE Bad
               /\ UNCHANGED <<pc, now, asked, fetched>>

\* A slip in HeadMirror: a bare copy that is there is not fetched into.
HeadMirror_TrustsCopy ==
    LET same == has[now] = asked[repo] /\ now \notin stray
        Copy == /\ pc' = IF fetched \/ made[repo] = "repo" THEN "push"
                         ELSE IF made[repo] = "no" THEN "mkdir" ELSE "fetch"
                /\ UNCHANGED <<todo, now, asked, failures, result, odd>>
    IN
    /\ pc = "mirror"
    /\ UNCHANGED <<remotes, copies, fetched>>
    /\ \/ Fine /\ same /\ Onward({})
       \/ Fine /\ ~same /\ Copy
       \/ Bad /\ Copy

\* `have`: a mirror that cannot be read is taken for one with nothing on it.
HeadMirror ==
    LET same == has[now] = asked[repo] /\ now \notin stray
        Copy == /\ pc' = IF fetched THEN "push"
                         ELSE IF made[repo] = "no" THEN "mkdir" ELSE "fetch"
                /\ UNCHANGED <<todo, now, asked, failures, result, odd>>
    IN
    /\ pc = "mirror"
    /\ UNCHANGED <<remotes, copies, fetched>>
    /\ \/ Fine /\ same /\ Onward({})
       \/ Fine /\ ~same /\ Copy
       \/ Bad /\ Copy

Mkdir ==
    /\ pc = "mkdir"
    /\ made' = [made EXCEPT ![repo] = "dir"]
    /\ pc' = "init"
    /\ UNCHANGED <<remotes, local, todo, now, asked, fetched, failures, result, odd, bad>>

GitInit ==
    /\ pc = "init"
    /\ made' = [made EXCEPT ![repo] = "repo"]
    /\ pc' = "fetch"
    /\ UNCHANGED <<remotes, local, todo, now, asked, fetched, failures, result, odd, bad>>

\* A slip in Fetch: a fetch that fails leaves the copy of the last run to push.
Fetch_Unchecked ==
    /\ pc = "fetch"
    /\ made[repo] = "repo"
    /\ \/ Fine /\ local' = [local EXCEPT ![repo] = github[repo]]
       \/ Bad /\ local' = local
    /\ fetched' = TRUE /\ pc' = "push"
    /\ UNCHANGED <<remotes, made, todo, now, asked, failures, result, odd>>

\* GitHub's main as it is now, which may be newer than `wanted`.
Fetch ==
    /\ pc = "fetch"
    /\ UNCHANGED <<remotes, made>>
    /\ \/ /\ made[repo] = "repo" /\ Fine
          /\ local' = [local EXCEPT ![repo] = github[repo]]
          /\ fetched' = TRUE /\ pc' = "push"
          /\ UNCHANGED <<todo, now, asked, failures, result, odd>>
       \/ /\ IF made[repo] = "repo" THEN Bad ELSE Fine
          /\ Onward({now}) /\ UNCHANGED <<local, fetched>>

\* The mirror takes a push that moves its main forward, and refuses another.
Takes == now \notin stray /\ has[now] <= local[repo]
Moved == [has EXCEPT ![now] = local[repo]]

\* A slip in Push: the refspec of the fetch, with its plus sign.
Push_Forces ==
    /\ pc = "push"
    /\ Fine /\ has' = Moved /\ stray' = stray \ {now}
    /\ Onward({})
    /\ UNCHANGED <<github, copies, fetched>>

\* A slip in Push: a refusal is taken for a mirror that is ahead.
Push_RefusalIsFine ==
    /\ pc = "push"
    /\ UNCHANGED <<github, stray, copies, fetched>>
    /\ \/ Fine /\ Takes /\ has' = Moved /\ Onward({})
       \/ Fine /\ ~Takes /\ has' = has /\ Onward({})
       \/ Bad /\ has' = has /\ Onward({now})

\* A push whose answer is lost may have been taken.
Push ==
    /\ pc = "push"
    /\ UNCHANGED <<github, stray, copies, fetched>>
    /\ \/ Fine /\ Takes /\ has' = Moved /\ Onward({})
       \/ Fine /\ ~Takes /\ has' = has /\ Onward({now})
       \/ Bad /\ has' \in {has} \cup {h \in {Moved} : Takes} /\ Onward({now})

\* GitHub answering for no repository is reported too.  It answers for one of its
\* own that has no main, and not for one kept on Gitea alone: of a repository
\* without main on GitHub, either may be the case.
Finish ==
    /\ pc = "repo" /\ todo = {}
    /\ \E seen \in {\E r \in Repo : asked[r] # 0, \E r \in Repo : asked[r] # 0 \/ github[r] = 0} :
         Ends(IF failures = {} /\ seen THEN "ok" ELSE "failed")
    /\ UNCHANGED <<remotes, copies, bad>>

\* TimeoutStartSec, or a reboot.
Kill ==
    /\ pc # "idle" /\ (pc = "init" => HalfMade)
    /\ Bad /\ Ends("failed")
    /\ UNCHANGED <<remotes, copies>>

-----------------------------------------------------------------------------
(* People.                                                                  *)

\* A pull request is merged on GitHub.
Merge(r) ==
    /\ github[r] \in 1..(MaxCommit - 1)
    /\ github' = [github EXCEPT ![r] = @ + 1]
    /\ UNCHANGED <<has, stray, copies, run, bad>>

\* git land, after its merge: main, to a mirror.
Land(p) ==
    /\ p \notin stray /\ has[p] < github[p[1]]
    /\ has' = [has EXCEPT ![p] = github[p[1]]]
    /\ UNCHANGED <<github, stray, copies, run, bad>>

\* A commit made on a mirror.
CommitThere(p) ==
    /\ p \notin stray /\ has[p] # 0 /\ Cardinality(stray) < MaxStrays
    /\ stray' = stray \cup {p}
    /\ UNCHANGED <<github, has, copies, run, bad>>

-----------------------------------------------------------------------------

Script ==
    \/ List \/ HeadGitHub \/ HeadMirror \/ Mkdir \/ GitInit \/ Fetch \/ Push
    \/ Finish
People ==
    \/ \E r \in Repo : Merge(r)
    \/ \E p \in Pair : Land(p) \/ CommitThere(p)

Next == Script \/ Kill \/ People
Spec == Init /\ [][Next]_vars

\* The timer starts the script every five minutes, and a step of it ends, if
\* only in a failure; people need do nothing.
FairSpec == Spec /\ WF_vars(Script)

-----------------------------------------------------------------------------

\* "It never forces a push": whatever a run decided on an older look, and whoever
\* else pushes, a mirror only goes forward along GitHub's main, and one with a commit
\* of its own stays as it is.
Promise == INSTANCE Mirrors WITH Remote <- {"GitLab", "Gitea"}
FollowsGitHub == Promise!Spec

\* A unit that is not failed means a copy: whatever GitHub had when the run asked
\* is on both mirrors of every repository it answered for.
QuietMeansCopied ==
    [][pc = "repo" /\ pc' = "idle" /\ result' = "ok" =>
         \A p \in Pair : has[p] >= asked[p[1]]]_vars

\* "A mirror holding a commit GitHub doesn't is refused by the mirror itself,
\* reported": a run does not end well over one that was there when it began, in
\* a repository GitHub answered for.
DivergedIsReported ==
    [][pc = "repo" /\ pc' = "idle" /\ result' = "ok" =>
         \A p \in odd : asked[p[1]] = 0]_vars

\* "This makes the copy from inside": with nobody at the laptop, once merges stop
\* and remotes answer, each mirror that has no commit of its own gets to what
\* GitHub has, and stays there.
CatchesUp ==
    <>[](\A p \in Pair : has[p] >= github[p[1]] \/ p \in stray)

=============================================================================
