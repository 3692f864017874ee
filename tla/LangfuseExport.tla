--------------------------- MODULE LangfuseExport ---------------------------
(***************************************************************************)
(* scripts/token-usage/to-langfuse.py: what Codex and Antigravity logged   *)
(* is read, and each model call sent to LangFuse under an id made of its   *)
(* session and its position among the calls that have a price.  A state    *)
(* file keeps what was sent.  Meanwhile sessions grow, batches are refused *)
(* or taken in part, answers are lost, the run is killed, and the price    *)
(* tables get a model.  The Codex reader of token-usage.py is beside it.   *)
(***************************************************************************)
EXTENDS Integers, FiniteSets, Sequences

CONSTANTS
    Codex, Antigravity, \* the session files of each
    Model,       \* the models that log calls
    Known,       \* those in the price tables at first
    NewPrice,    \* those that may be added to them
    Counter,     \* the counters of a call
    ReportKey,   \* those token-usage.py looks at
    Amount,      \* what a call may take, by counter
    Use,         \* which model may take which
    MaxLines,    \* calls and rate-limit updates logged in each file
    Batch,       \* spans sent in one request
    MaxBad,      \* requests that fail, kills, and prices added
    MaxAll       \* runs with --all, but for those that replace a torn file

File == Codex \cup Antigravity
Nowhere == CHOOSE f \in File : TRUE
Zero == [k \in Counter |-> 0]

ASSUME ExportTyped ==
    /\ Codex \cap Antigravity = {}
    /\ Known \subseteq Model /\ NewPrice \subseteq Model
    /\ ReportKey \subseteq Counter /\ Amount \subseteq [Counter -> Nat] /\ Zero \in Amount
    /\ Use \subseteq Model \X Amount
    /\ MaxLines \in [File -> Nat \ {0}]
    /\ Batch \in Nat \ {0} /\ MaxBad \in Nat /\ MaxAll \in Nat \ {0}

VARIABLES
    log,      \* log[f]: the lines with a total: model, total, and what was used (history)
    half,     \* half[f]: whether the next line is written in part
    priced,   \* the models in the price tables
    disk,     \* sent.json, a table of entries
    torn,     \* whether it is cut off, so that it cannot be read
    held,     \* held[f][n]: the line LangFuse has under that id, or 0
    twice,    \* the calls LangFuse holds two copies of or more
    pc,       \* the run: "idle", or what it does next
    todo,     \* the files not yet looked at
    now,      \* the file being read
    mark,     \* its mark
    mem,      \* `state`
    pending,  \* pending[f]: what is to be sent of it
    bad,      \* failures, kills and prices so far
    again,    \* runs with --all so far
    raced,    \* the files an older entry was taken over for that had more (history)
    excused   \* the files whose calls this run may send again: the last try to send them
              \* failed or was lost, it runs with --all, or their entry has no ids (history)

files == <<log, half, priced>>
saved == <<disk, torn>>
run == <<pc, todo, now, mark, mem, pending>>
history == <<raced, excused>>
vars == <<files, saved, held, twice, run, bad, again, history>>

-----------------------------------------------------------------------------
(* The readers.                                                             *)

Total(f, i) == log[f][i].total
Previous(f, i) == IF f \in Antigravity \/ i = 1 THEN Zero ELSE Total(f, i - 1)

\* A slip in Delta: a total that restarted is not looked for.
Delta_NoRestart(f, i, K) == [k \in K |-> Total(f, i)[k] - Previous(f, i)[k]]

\* A Codex call is the step between two running totals, or the whole total when
\* any counter went down.  An Antigravity row is a call by itself.
Delta(f, i, K) ==
    LET step == [k \in K |-> Total(f, i)[k] - Previous(f, i)[k]]
    IN  IF \E k \in K : step[k] < 0 THEN [k \in K |-> Total(f, i)[k]] ELSE step

HasPrice(m) == m \in priced

\* The calls of a session, but for rate-limit updates and models without a price.
CodexCalls(f) ==
    {i \in DOMAIN log[f] :
        (\E k \in Counter : Delta(f, i, Counter)[k] # 0) /\ HasPrice(log[f][i].model)}

AntigravityCalls(f) == {i \in DOMAIN log[f] : HasPrice(log[f][i].model)}

Calls(f) == IF f \in Codex THEN CodexCalls(f) ELSE AntigravityCalls(f)

\* The number of the span of line i; the code counts from 0.
Id(f, i) == Cardinality({j \in Calls(f) : j <= i})

Root == 0
Last(S) == CHOOSE i \in S : \A j \in S : j <= i

\* A slip in Spans: no span for the session itself.
Spans_NoRoot(f) ==
    [n \in {Id(f, i) : i \in Calls(f)} |-> CHOOSE i \in Calls(f) : Id(f, i) = n]

\* spans_for: the line each id stands for.  The session's own span is as long
\* as its last call.
Spans(f) ==
    [n \in IF Calls(f) = {} THEN {} ELSE {Root} \cup {Id(f, i) : i \in Calls(f)} |->
        IF n = Root THEN Last(Calls(f)) ELSE CHOOSE i \in Calls(f) : Id(f, i) = n]

\* What token-usage.py adds up of line i, whether or not its model has a price.
Reported(f, i) == Delta(f, i, ReportKey)

-----------------------------------------------------------------------------

\* No model that logs here got a price after the first run could have read it.
Steady(f) == \A i \in DOMAIN log[f] : log[f][i].model \notin priced \ Known

Mark(f) == <<Len(log[f]), half[f]>>      \* the time and the size
NoEntry == [kind |-> "none", mark |-> <<0, FALSE>>, sent |-> {}]
Entry(m, ids) == [kind |-> "entry", mark |-> m, sent |-> ids]
NoItem == [mark |-> <<0, FALSE>>, left |-> {}, spans |-> <<>>]
NothingSent == [f \in File |-> NoEntry]
NothingToSend == [f \in File |-> NoItem]

Position(f) == 0..MaxLines[f]
Marks == Nat \X BOOLEAN
Table == [File -> [kind : {"none", "legacy", "entry"}, mark : Marks, sent : SUBSET Nat]]

TypeOK ==
    /\ \A f \in File : log[f] \in Seq([model : Model, total : [Counter -> Nat], used : Amount])
    /\ half \in [File -> BOOLEAN] /\ priced \subseteq Model
    /\ disk \in Table /\ mem \in Table /\ torn \in BOOLEAN
    /\ \A f \in File : held[f] \in [Position(f) -> Position(f)]
    /\ twice \subseteq File \X Nat
    /\ pc \in {"idle", "look", "read", "write"} /\ todo \subseteq File
    /\ now \in (IF pc = "read" THEN File ELSE {Nowhere}) /\ mark \in Marks
    /\ \A f \in File : pending[f].mark \in Marks /\ pending[f].left \subseteq DOMAIN pending[f].spans
    /\ bad \in 0..MaxBad /\ again \in 0..MaxAll /\ raced \subseteq File /\ excused \subseteq File

\* No session and no state file; or a state file of the release before, that
\* has no span ids and was written when all there is had been sent.
Init ==
    /\ half = [f \in File |-> FALSE] /\ priced = Known /\ twice = {} /\ torn = FALSE
    /\ \/ /\ log = [f \in File |-> <<>>]
          /\ disk = NothingSent
       \/ /\ \E m \in [File -> Model], u \in [File -> Amount] :
                /\ \A f \in File : <<m[f], u[f]>> \in Use /\ (f \in Antigravity => u[f] = Zero)
                /\ log = [f \in File |-> <<[model |-> m[f], total |-> u[f], used |-> u[f]]>>]
          /\ disk = [f \in File |-> [NoEntry EXCEPT !.kind = "legacy", !.mark = Mark(f)]]
    /\ held = [f \in File |-> [n \in Position(f) |-> IF n \in DOMAIN Spans(f) THEN Spans(f)[n] ELSE 0]]
    /\ pc = "idle" /\ todo = {} /\ now = Nowhere
    /\ mark = <<0, FALSE>> /\ mem = NothingSent /\ pending = NothingToSend
    /\ bad = 0 /\ again = 0 /\ raced = {} /\ excused = {}

Bad == bad < MaxBad /\ bad' = bad + 1

-----------------------------------------------------------------------------
(* The agents, LangFuse, and the price tables.                              *)

Log(f, m, t, u) ==
    /\ Len(log[f]) < MaxLines[f]
    /\ log' = [log EXCEPT ![f] = Append(@, [model |-> m, total |-> t, used |-> u])]
    /\ half' = [half EXCEPT ![f] = FALSE]
    /\ UNCHANGED <<priced, saved, held, twice, run, bad, again, history>>

\* The running total goes on, or starts again.
CodexLogs(f) ==
    \E use \in Use, goesOn \in BOOLEAN :
        LET t == IF log[f] = <<>> \/ ~goesOn THEN Zero ELSE Total(f, Len(log[f]))
        IN  Log(f, use[1], [k \in Counter |-> t[k] + use[2][k]], use[2])

\* A row is a call, and what it counts is passed on as it is.
AntigravityLogs(f) == \E m \in Model : <<m, Zero>> \in Use /\ Log(f, m, Zero, Zero)

\* A line of which only a part has reached the file.
CodexWrites(f) ==
    /\ ~half[f] /\ Len(log[f]) < MaxLines[f]
    /\ half' = [half EXCEPT ![f] = TRUE]
    /\ UNCHANGED <<log, priced, saved, held, twice, run, bad, again, history>>

\* ClickHouse merges the table, which collapses the copies.
Collapse ==
    /\ twice # {} /\ twice' = {}
    /\ UNCHANGED <<files, saved, held, run, bad, again, history>>

\* A script that runs has read its tables.
AddPrice ==
    /\ pc = "idle" /\ Bad
    /\ \E m \in NewPrice \ priced : priced' = priced \cup {m}
    /\ UNCHANGED <<log, half, saved, held, twice, run, again, history>>

-----------------------------------------------------------------------------
(* main.                                                                    *)

\* A torn file ends the run at once, so it has to go, which is what --all does.
Start(all) ==
    /\ pc = "idle"
    /\ all \/ ~torn
    /\ IF all /\ ~torn THEN again < MaxAll /\ again' = again + 1 ELSE again' = again
    /\ mem' = IF all THEN NothingSent ELSE disk
    /\ pc' = "look" /\ todo' = File /\ pending' = NothingToSend
    /\ excused' = IF all THEN File ELSE excused
    /\ UNCHANGED <<files, saved, held, twice, now, mark, bad, raced>>

\* sorted(sources): the names of the agents come first.
InOrder(f, S) == f \in Codex => S \cap Antigravity = {}

\* os.stat, and on to the next file if the mark is the one in the state.
Look ==
    /\ pc = "look"
    /\ \E f \in todo :
         /\ InOrder(f, todo)
         /\ todo' = todo \ {f}
         /\ IF mem[f].kind = "entry" /\ mem[f].mark = Mark(f)
            THEN UNCHANGED <<pc, now, mark>>
            ELSE pc' = "read" /\ now' = f /\ mark' = Mark(f)
    /\ UNCHANGED <<files, saved, held, twice, mem, pending, bad, again, history>>

\* A slip in Settled: the calls are numbered among those still to send.
Settled_Renumbered(f, ids, fresh, whole) ==
    LET before == Cardinality(ids \ fresh) - 1
        spans == [n \in {Root} \cup {m - before : m \in fresh} |->
                     IF n = Root THEN Spans(f)[Root] ELSE Spans(f)[n + before]]
    IN
    /\ IF fresh = {} \/ whole
       THEN mem' = [mem EXCEPT ![f] = Entry(mark, ids)] /\ UNCHANGED pending
       ELSE /\ pending' = [pending EXCEPT ![f] =
                  [mark |-> mark, left |-> DOMAIN spans, spans |-> spans]]
            /\ UNCHANGED mem
    /\ pc' = "look" /\ now' = Nowhere /\ mark' = <<0, FALSE>>
    /\ UNCHANGED <<files, saved, held, twice, todo, bad, again, history>>

\* What a run makes of the file it read: already sent, or spans still to send.
Settled(f, ids, fresh, whole) ==
    /\ raced' = IF whole /\ (Mark(f) # mark \/ ~Steady(f)) THEN raced \cup {f} ELSE raced
    /\ excused' = IF mem[f].kind = "legacy" /\ ~whole THEN excused \cup {f} ELSE excused
    /\ IF fresh = {} \/ whole
       THEN mem' = [mem EXCEPT ![f] = Entry(mark, ids)] /\ UNCHANGED pending
       ELSE /\ pending' = [pending EXCEPT ![f] =
                  [mark |-> mark, left |-> {Root} \cup fresh, spans |-> Spans(f)]]
            /\ UNCHANGED mem
    /\ pc' = "look" /\ now' = Nowhere /\ mark' = <<0, FALSE>>
    /\ UNCHANGED <<files, saved, held, twice, todo, bad, again>>

\* A slip in Read: an entry without ids is always taken for sent.
Read_AnyLegacy ==
    LET ids == DOMAIN Spans(now)
        fresh == ids \ ({Root} \cup mem[now].sent)
    IN pc = "read" /\ Settled(now, ids, fresh, mem[now].kind = "legacy")

\* The file as it is now, which may have grown since its mark was taken.  The
\* session's own span goes with whatever else does.  An entry of the release
\* before has no ids, and a file with its mark is taken for sent.
Read ==
    LET ids == DOMAIN Spans(now)
        fresh == ids \ ({Root} \cup mem[now].sent)
        whole == mem[now].kind = "legacy" /\ mem[now].mark = mark
    IN pc = "read" /\ Settled(now, ids, fresh, whole)

\* The next request: the first Batch spans that are left.
First(S) == {n \in S : Cardinality({m \in S : m < n}) < Batch}

\* LangFuse takes spans T of f; one it has already is there twice for a while.
Taken(f, T) ==
    /\ held' = [held EXCEPT ![f] =
           [n \in Position(f) |-> IF n \in T THEN pending[f].spans[n] ELSE @[n]]]
    /\ twice' = twice \cup {<<f, n>> : n \in {n \in T \ {Root} : held[f][n] # 0}}

\* The run is over, and its memory gone.
Ends ==
    /\ pc' = "idle" /\ todo' = {} /\ mem' = NothingSent /\ pending' = NothingToSend
    /\ now' = Nowhere /\ mark' = <<0, FALSE>>

\* One file after the other; the one under way has sent its root.
Sending(f) ==
    LET waiting == {g \in File : pending[g].left # {}}
        begun == {g \in waiting : Root \notin pending[g].left}
    IN
    /\ pc = "look" /\ todo = {}
    /\ f \in waiting /\ InOrder(f, waiting)
    /\ begun # {} => f \in begun

\* A slip in Send: the mark is taken when the file has been sent.
Send_MarkThen(f) ==
    LET batch == First(pending[f].left)
        left == pending[f].left \ batch
    IN
    /\ Sending(f) /\ Taken(f, batch)
    /\ pending' = [pending EXCEPT ![f].left = left]
    /\ mem' = IF left # {} THEN mem
              ELSE [mem EXCEPT ![f] = Entry(Mark(f), DOMAIN pending[f].spans)]
    /\ excused' = IF left = {} THEN excused \ {f} ELSE excused
    /\ UNCHANGED <<files, saved, pc, todo, now, mark, bad, again, raced>>

\* A request that succeeds; with the last of them the file is in the state.
Send(f) ==
    LET batch == First(pending[f].left)
        left == pending[f].left \ batch
    IN
    /\ Sending(f) /\ Taken(f, batch)
    /\ pending' = [pending EXCEPT ![f].left = left]
    /\ mem' = IF left # {} THEN mem
              ELSE [mem EXCEPT ![f] = Entry(pending[f].mark, DOMAIN pending[f].spans)]
    /\ excused' = IF left = {} THEN excused \ {f} ELSE excused
    /\ UNCHANGED <<files, saved, pc, todo, now, mark, bad, again, raced>>

\* The files this run has begun to send, or all when it emptied the state.
Touched == {g \in File : Root \in DOMAIN pending[g].spans \ pending[g].left}
Lost == IF torn THEN File ELSE Touched

\* A slip in SendRefused: the file gets its entry all the same.
SendRefused_Recorded(f) ==
    /\ Sending(f) /\ Bad
    /\ \E T \in SUBSET First(pending[f].left) : Taken(f, T)
    /\ mem' = [mem EXCEPT ![f] = Entry(pending[f].mark, DOMAIN pending[f].spans)]
    /\ pending' = [pending EXCEPT ![f] = NoItem]
    /\ UNCHANGED <<files, saved, pc, todo, now, mark, again, history>>

\* A slip in SendRefused: the run ends there, and writes nothing.
SendRefused_GivesUp(f) ==
    /\ Sending(f) /\ Bad
    /\ \E T \in SUBSET First(pending[f].left) : Taken(f, T)
    /\ excused' = excused \cup {f} /\ Ends
    /\ UNCHANGED <<files, saved, again, raced>>

\* A request that is refused, or taken in part, or whose connection breaks: the
\* rest of the file is not sent, and its entry stays.
SendRefused(f) ==
    /\ Sending(f) /\ Bad
    /\ \E T \in SUBSET First(pending[f].left) : Taken(f, T)
    /\ pending' = [pending EXCEPT ![f] = NoItem]
    /\ excused' = excused \cup {f}
    /\ UNCHANGED <<files, saved, pc, todo, now, mark, mem, again, raced>>

\* A request that is not answered in time: an exception nobody catches, and with
\* it goes what the run has not written.
SendUnanswered(f) ==
    /\ Sending(f) /\ Bad
    /\ \E T \in SUBSET First(pending[f].left) : Taken(f, T)
    /\ excused' = excused \cup {f} \cup Lost /\ Ends
    /\ UNCHANGED <<files, saved, again, raced>>

\* STATE.write_text: the file is emptied, and written.
Truncate ==
    /\ pc = "look" /\ todo = {} /\ \A f \in File : pending[f].left = {}
    /\ torn' = TRUE /\ disk' = NothingSent /\ pc' = "write"
    /\ UNCHANGED <<files, held, twice, todo, now, mark, mem, pending, bad, again, history>>

Write ==
    /\ pc = "write"
    /\ disk' = mem /\ torn' = FALSE /\ Ends
    /\ UNCHANGED <<files, held, twice, bad, again, history>>

Kill ==
    /\ pc # "idle" /\ Bad /\ Ends
    /\ excused' = excused \cup Lost
    /\ UNCHANGED <<files, saved, held, twice, again, raced>>

-----------------------------------------------------------------------------

Script == Look \/ Read \/ Truncate \/ Write \/ \E f \in File : Send(f)
Fails == Kill \/ \E f \in File : SendRefused(f) \/ SendUnanswered(f)
Agents ==
    \/ \E f \in Codex : CodexLogs(f) \/ CodexWrites(f)
    \/ \E f \in Antigravity : AntigravityLogs(f)

Next == Script \/ Start(TRUE) \/ Start(FALSE) \/ Fails \/ Agents \/ Collapse \/ AddPrice
Spec == Init /\ [][Next]_vars

\* ClickHouse merges in time, a run gets to its end, and somebody runs the
\* script again, with --all if the last run left a file it cannot read.
FairSpec ==
    /\ Spec /\ WF_vars(Script) /\ WF_vars(Start(FALSE))
    /\ WF_vars(torn /\ Start(TRUE)) /\ WF_vars(Collapse)

-----------------------------------------------------------------------------
(* Properties.                                                              *)

\* The state never names a span that LangFuse did not take, whatever was refused,
\* lost or killed, and never a trace that ends before its calls do.
SentIsHeld ==
    \A f \in File \ raced : \A n \in disk[f].sent :
        /\ held[f][n] # 0
        /\ Steady(f) => held[f][n] <= held[f][Root]

\* A file that is passed over because its mark has not changed has no call that
\* was not sent: not one logged between the look and the read, nor one whose line
\* was half written then.
SkippedIsSent ==
    \A f \in File \ raced :
        Steady(f) /\ disk[f].kind # "none" /\ disk[f].mark = Mark(f)
            => \A n \in DOMAIN Spans(f) : held[f][n] # 0

\* "a re-run replaces what it sent before rather than adding to it": no call is
\* held under two ids, and an id holds its own call.
IdsAreStable ==
    \A f \in File : Steady(f) =>
        LET spans == Spans(f) IN
        \A n \in Position(f) \ {Root} :
            held[f][n] # 0 => n \in DOMAIN spans /\ held[f][n] = spans[n]

\* "A changed file sends only the calls not sent before": a run sends a call again,
\* which LangFuse then counts twice, only with --all, or if the last run that sent
\* calls of that file was refused there or lost what it knew of it; or, against
\* what the script says, if the file has grown under an entry of the release
\* before.  What goes wrong with one file never makes another be sent again.
TwiceHasACause ==
    [][\A c \in twice' \ twice : Steady(c[1]) => c[1] \in excused]_vars

\* What a reader that compares counters K makes of line i: never more than was
\* used, nor less, unless the total restarted and each of K is past where it was.
ReadRight(f, i, K) ==
    LET read == Delta(f, i, K)
        used == log[f][i].used
        restarted == \E k \in K : Total(f, i)[k] # Previous(f, i)[k] + used[k]
        hidden == \A k \in K : Total(f, i)[k] >= Previous(f, i)[k]
    IN  IF restarted /\ hidden
        THEN \A k \in K : read[k] <= used[k]
        ELSE \A k \in K : read[k] = used[k]

\* Neither reader counts more than was used, nor less, unless it cannot see the
\* restart; and one that the report cannot see, the exporter still may.
ReadingIsExact ==
    \A f \in File : \A i \in DOMAIN log[f] :
        /\ ReadRight(f, i, Counter)
        /\ ReadRight(f, i, ReportKey)
        /\ \A k \in ReportKey : Reported(f, i)[k] <= Delta(f, i, Counter)[k]

\* Once the sessions are at rest, every call that has a price gets to LangFuse,
\* and is counted there once.
Delivered ==
    <>[](\A f \in File \ raced : Steady(f) =>
            \A n \in DOMAIN Spans(f) : held[f][n] # 0 /\ <<f, n>> \notin twice)

=============================================================================
