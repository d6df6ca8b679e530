------------------------------- MODULE Runner -------------------------------
(***************************************************************************)
(* One execution of Runner.Run (internal/agent/runner.go): the script's    *)
(* process tree, the two stream pumps with their reader and ticker         *)
(* goroutines, the shared sequence counter and output budget, and the      *)
(* bounded waits after the end of the script.                              *)
(*                                                                         *)
(* Output is counted in units; a batch is the sequence of the units it     *)
(* carries, so that order and loss can be seen.  The process tree is       *)
(* external: the direct child, and one descendant that may outlive it and  *)
(* hold the pipes open.                                                    *)
(***************************************************************************)
EXTENDS Naturals, Sequences, FiniteSets, SequencesExt

CONSTANTS
    MaxUnits,    \* bound: units the tree writes to one stream
    MaxOutput,   \* RunRequest.MaxOutputBytes, in units
    BatchUnits,  \* Runner.BatchBytes, in units
    KillWorks    \* TRUE: killTree always ends the direct child

ASSUME RunnerAssumption ==
    /\ MaxUnits \in Nat
    /\ MaxOutput \in Nat \ {0}
    /\ BatchUnits \in Nat \ {0}
    /\ KillWorks \in BOOLEAN

Streams == {"stdout", "stderr"}

VARIABLES
    pc,         \* where Run is
    runErr,     \* runCtx.Err()
    child,      \* the direct child: "none", "alive", or how it ended
    heir,       \* a descendant outside the child's own life holds the pipes
    written,    \* units written to each stream
    pipe,       \* the units in each pipe
    closed,     \* waitPipes has closed the read ends
    reader,     \* the pumpReader goroutines: "off", "on", "eof"
    hand,       \* units a reader has read and not yet added
    pending,    \* streamPump.pending
    locked,     \* streamPump.mu: the batch whose onLogs call holds it, or <<>>
    stopped,    \* close(stop)
    ticker,     \* the ticker goroutines that run
    seq,        \* runState.seq
    observed, truncated,  \* outputBudget
    delivered,  \* the log entries in the order onLogs was called with them
    abandoned,  \* waitPipes gave the readers up
    killed,     \* history: why killTree was first used on a live child
    outcome     \* what Run returned

tree    == <<child, heir, written>>
budget  == <<observed, truncated>>
pumps   == <<reader, ticker, hand, pending, locked>>
emitted == <<seq, delivered>>
main    == <<pc, runErr, closed, stopped, abandoned, killed, outcome>>
vars    == <<main, tree, pipe, pumps, budget, emitted>>

PCs == {"prepare", "notify", "abort", "reap", "wait", "grace", "sweep", "drain",
        "close", "flush stdout", "flushing stdout", "flush stderr", "flushing stderr",
        "judge", "returned", "rejected", "failed"}

TypeOK ==
    /\ pc \in PCs
    /\ runErr \in {"none", "deadline", "cancel"}
    /\ child \in {"none", "alive", "zero", "nonzero", "killed"}
    /\ heir \in BOOLEAN
    /\ written \in [Streams -> 0 .. MaxUnits]
    /\ pipe \in [Streams -> Seq(1 .. MaxUnits)]
    /\ closed \in BOOLEAN
    /\ reader \in [Streams -> {"off", "on", "eof"}]
    /\ ticker \subseteq Streams
    /\ hand \in [Streams -> Seq(1 .. MaxUnits)]
    /\ pending \in [Streams -> Seq(1 .. MaxUnits)]
    /\ locked \in [Streams -> {<<>>} \cup [seq : Nat, stream : Streams, text : Seq(1 .. MaxUnits)]]
    /\ stopped \in BOOLEAN
    /\ seq \in Nat
    /\ observed \in 0 .. MaxOutput
    /\ truncated \in BOOLEAN
    /\ delivered \in Seq([seq : Nat, stream : Streams, text : Seq(1 .. MaxUnits)])
    /\ abandoned \in BOOLEAN
    /\ killed \in {"no", "deadline", "cancel", "rejected"}
    /\ outcome \in {"none", "timeout", "cancelled", "zero", "nonzero", "rejected", "failed"}

Init ==
    /\ pc = "prepare"
    /\ runErr = "none"
    /\ child = "none"
    /\ heir = FALSE
    /\ written = [s \in Streams |-> 0]
    /\ pipe = [s \in Streams |-> <<>>]
    /\ closed = FALSE
    /\ reader = [s \in Streams |-> "off"]
    /\ ticker = {}
    /\ hand = [s \in Streams |-> <<>>]
    /\ pending = [s \in Streams |-> <<>>]
    /\ locked = [s \in Streams |-> <<>>]
    /\ stopped = FALSE
    /\ seq = 0
    /\ observed = 0
    /\ truncated = FALSE
    /\ delivered = <<>>
    /\ abandoned = FALSE
    /\ killed = "no"
    /\ outcome = "none"

-----------------------------------------------------------------------------
(* The process tree, external.                                             *)

Writing == child = "alive" \/ heir

Write(s) ==
    /\ Writing
    /\ written[s] < MaxUnits
    /\ written' = [written EXCEPT ![s] = @ + 1]
    /\ pipe' = [pipe EXCEPT ![s] = Append(@, written[s] + 1)]
    /\ UNCHANGED <<main, child, heir, pumps, budget, emitted>>

\* The child starts a descendant that inherits its pipes.
Fork ==
    /\ child = "alive" /\ ~heir
    /\ heir' = TRUE
    /\ UNCHANGED <<main, child, written, pipe, pumps, budget, emitted>>

ChildExits ==
    /\ child = "alive"
    /\ child' \in {"zero", "nonzero"}
    /\ UNCHANGED <<main, heir, written, pipe, pumps, budget, emitted>>

HeirExits ==
    /\ heir
    /\ heir' = FALSE
    /\ UNCHANGED <<main, child, written, pipe, pumps, budget, emitted>>

\* killTree(cmd): the group or the tree, else the direct child alone.  Of an
\* exited parent's children taskkill finds none.
KillTree ==
    /\ \/ child = "alive" /\ child' = "killed"
       \/ (child # "alive" \/ ~KillWorks) /\ UNCHANGED child
    /\ heir' \in {FALSE, heir}
    /\ UNCHANGED written

-----------------------------------------------------------------------------
(* Run.                                                                    *)

\* runCtx: its deadline, or the caller's cancellation.
CtxEnds(why) ==
    /\ pc \notin {"returned", "rejected", "failed"}
    /\ runErr = "none"
    /\ runErr' = why
    /\ UNCHANGED <<pc, closed, stopped, abandoned, killed, outcome,
                   tree, pipe, pumps, budget, emitted>>

PrepareFails ==
    /\ pc = "prepare"
    /\ pc' = "failed"
    /\ outcome' = "failed"
    /\ UNCHANGED <<runErr, closed, stopped, abandoned, killed, tree, pipe, pumps, budget, emitted>>

\* cmd.Start; the parent's copies of the write ends are closed.
Spawn ==
    /\ pc = "prepare"
    /\ pc' = "notify"
    /\ child' = "alive"
    /\ UNCHANGED <<runErr, closed, stopped, abandoned, killed, outcome, heir, written,
                   pipe, pumps, budget, emitted>>

\* onStart returns nil: readers and tickers start.
Started ==
    /\ pc = "notify"
    /\ pc' = "wait"
    /\ reader' = [s \in Streams |-> "on"]
    /\ ticker' = Streams
    /\ UNCHANGED <<runErr, closed, stopped, abandoned, killed, outcome, tree, pipe,
                   hand, pending, locked, budget, emitted>>

\* onStart returns an error: killTree, then cmd.Wait without a bound.
Refused ==
    /\ pc = "notify"
    /\ pc' = "reap"
    /\ KillTree
    /\ killed' = IF child = "alive" THEN "rejected" ELSE killed
    /\ UNCHANGED <<runErr, closed, stopped, abandoned, outcome, pipe, pumps, budget, emitted>>

Reaped ==
    /\ pc = "reap"
    /\ child # "alive"
    /\ pc' = "rejected"
    /\ outcome' = "rejected"
    /\ UNCHANGED <<runErr, closed, stopped, abandoned, killed, tree, pipe, pumps, budget, emitted>>

\* select: <-waitDone, or <-runCtx.Done() and killTree.
ChildWaited ==
    /\ pc = "wait"
    /\ child # "alive"
    /\ pc' = "sweep"
    /\ UNCHANGED <<runErr, closed, stopped, abandoned, killed, outcome, tree, pipe, pumps,
                   budget, emitted>>

RunCtxDone ==
    /\ pc = "wait"
    /\ runErr # "none"
    /\ KillTree
    /\ killed' = IF child = "alive" THEN runErr ELSE killed
    /\ pc' = "grace"
    /\ UNCHANGED <<runErr, closed, stopped, abandoned, outcome, pipe, pumps, budget, emitted>>

\* Mutant: without the bound of bifrost#951, only waitDone ends the wait.
GraceUnbounded ==
    /\ pc = "grace" /\ child # "alive"
    /\ pc' = "sweep"
    /\ UNCHANGED <<runErr, closed, stopped, abandoned, killed, outcome, tree, pipe, pumps,
                   budget, emitted>>

\* waitDone, or time.After(grace).
GraceOver ==
    /\ pc = "grace"
    /\ pc' = "sweep"
    /\ UNCHANGED <<runErr, closed, stopped, abandoned, killed, outcome, tree, pipe, pumps,
                   budget, emitted>>

Sweep ==
    /\ pc = "sweep"
    /\ KillTree
    /\ pc' = "drain"
    /\ UNCHANGED <<runErr, closed, stopped, abandoned, killed, outcome, pipe, pumps,
                   budget, emitted>>

ReadersDone == \A s \in Streams : reader[s] = "eof"

\* Mutant: waitPipes returns before the readers are done.
PipesNotAwaited ==
    /\ pc \in {"drain", "close"}
    /\ stopped' = TRUE
    /\ pc' = "flush stdout"
    /\ UNCHANGED <<runErr, closed, abandoned, killed, outcome, tree, pipe, pumps, budget, emitted>>

\* waitPipes returns: both readers are done, at once or within the second
\* grace; then close(stop).
PipesDrained ==
    /\ pc \in {"drain", "close"}
    /\ ReadersDone
    /\ stopped' = TRUE
    /\ pc' = "flush stdout"
    /\ UNCHANGED <<runErr, closed, abandoned, killed, outcome, tree, pipe, pumps, budget, emitted>>

\* The first grace is over: the read ends are closed.
CloseReaders ==
    /\ pc = "drain"
    /\ ~ReadersDone
    /\ closed' = TRUE
    /\ pc' = "close"
    /\ UNCHANGED <<runErr, stopped, abandoned, killed, outcome, tree, pipe, pumps, budget, emitted>>

\* The second grace is over: the stuck readers are abandoned; close(stop).
Abandon ==
    /\ pc = "close"
    /\ ~ReadersDone
    /\ abandoned' = TRUE
    /\ stopped' = TRUE
    /\ pc' = "flush stdout"
    /\ UNCHANGED <<runErr, closed, killed, outcome, tree, pipe, pumps, budget, emitted>>

\* Mutant: the switch forgets runCtx's own deadline.
OutcomeWithoutDeadline ==
    CASE runErr = "cancel" -> "cancelled"
      [] OTHER             -> child

\* Run's closing switch.
Outcome ==
    CASE runErr = "deadline" -> "timeout"
      [] runErr = "cancel"   -> "cancelled"
      [] OTHER               -> child

Judge ==
    /\ pc = "judge"
    /\ pc' = "returned"
    /\ outcome' = Outcome
    /\ UNCHANGED <<runErr, closed, stopped, abandoned, killed, tree, pipe, pumps, budget, emitted>>

-----------------------------------------------------------------------------
(* The pumps.                                                              *)

\* Read returns data: any part of what the pipe holds.
Read(s) ==
    /\ reader[s] = "on" /\ hand[s] = <<>> /\ ~closed
    /\ \E n \in 1 .. Len(pipe[s]) :
          /\ hand' = [hand EXCEPT ![s] = SubSeq(pipe[s], 1, n)]
          /\ pipe' = [pipe EXCEPT ![s] = SubSeq(@, n + 1, Len(@))]
    /\ UNCHANGED <<main, tree, reader, ticker, pending, locked, budget, emitted>>

\* Read returns EOF, or an error because the read end was closed.
ReadEnds(s) ==
    /\ reader[s] = "on" /\ hand[s] = <<>>
    /\ closed \/ (~Writing /\ pipe[s] = <<>>)
    /\ reader' = [reader EXCEPT ![s] = "eof"]
    /\ UNCHANGED <<main, tree, pipe, ticker, hand, pending, locked, budget, emitted>>

\* Mutants: the buffer is not reset; the counter is read but not advanced.
EmitWithoutReset(s, text) ==
    /\ seq' = seq + 1
    /\ locked' = [locked EXCEPT ![s] = [seq |-> seq + 1, stream |-> s, text |-> text]]
    /\ UNCHANGED <<pending, delivered>>

EmitSameSeq(s, text) ==
    /\ seq' = 1
    /\ locked' = [locked EXCEPT ![s] = [seq |-> 1, stream |-> s, text |-> text]]
    /\ pending' = [pending EXCEPT ![s] = <<>>]
    /\ UNCHANGED delivered

\* flushLocked: the buffer becomes an entry with the next seq, and p.mu stays
\* held until onLogs returns.
Emit(s, text) ==
    /\ seq' = seq + 1
    /\ locked' = [locked EXCEPT ![s] = [seq |-> seq + 1, stream |-> s, text |-> text]]
    /\ pending' = [pending EXCEPT ![s] = <<>>]
    /\ UNCHANGED delivered

\* Mutant: one unit more than there is room for.
TakeOneTooMany(chunk) == SubSeq(chunk, 1, MaxOutput - observed + 1)

\* outputBudget.take: the prefix of the chunk there is room for.
Take(chunk) == SubSeq(chunk, 1, MaxOutput - observed)

\* Mutant: the cap is tested before the chunk, not within it.
AllowedWhileBelow(chunk) == IF observed < MaxOutput THEN chunk ELSE <<>>

Allowed(chunk) == IF Len(chunk) > MaxOutput - observed THEN Take(chunk) ELSE chunk

\* streamPump.add.
Add(s) ==
    /\ hand[s] # <<>> /\ locked[s] = <<>>
    /\ LET allowed == Allowed(hand[s])
           buffer  == pending[s] \o allowed
       IN  /\ observed' = observed + Len(allowed)
           /\ truncated' = (truncated \/ Len(allowed) < Len(hand[s]))
           /\ IF Len(buffer) >= BatchUnits
              THEN Emit(s, buffer)
              ELSE /\ pending' = [pending EXCEPT ![s] = buffer]
                   /\ UNCHANGED <<locked, emitted>>
    /\ hand' = [hand EXCEPT ![s] = <<>>]
    /\ UNCHANGED <<main, tree, pipe, reader, ticker>>

\* A ticker flushes what has waited for the interval.  When stop is closed its
\* select may still take a tick that is due.
Tick(s) ==
    /\ s \in ticker
    /\ locked[s] = <<>> /\ pending[s] # <<>>
    /\ Emit(s, pending[s])
    /\ UNCHANGED <<main, tree, pipe, reader, ticker, hand, budget>>

TickerStops(s) ==
    /\ s \in ticker /\ stopped
    /\ ticker' = ticker \ {s}
    /\ UNCHANGED <<main, tree, pipe, reader, hand, pending, locked, budget, emitted>>

\* Where Run is once the batch of s is delivered: a flush of its own is over.
AfterDelivery(s) ==
    CASE s = "stdout" /\ pc = "flushing stdout" -> "flush stderr"
      [] s = "stderr" /\ pc = "flushing stderr" -> "judge"
      [] OTHER -> pc

\* onLogs is called and returns; the pump's mutex is released.
Deliver(s) ==
    /\ locked[s] # <<>>
    /\ delivered' = Append(delivered, locked[s])
    /\ locked' = [locked EXCEPT ![s] = <<>>]
    /\ pc' = AfterDelivery(s)
    /\ UNCHANGED <<runErr, closed, stopped, abandoned, killed, outcome, tree, pipe,
                   reader, ticker, hand, pending, budget, seq>>

\* outPump.flush() and errPump.flush() of Run.  A flush waits for the mutex;
\* with something to emit it then waits for its own onLogs call.
Flush(s, at, calling, next) ==
    /\ pc = at
    /\ locked[s] = <<>>
    /\ \/ pending[s] = <<>> /\ pc' = next /\ UNCHANGED <<pending, locked, emitted>>
       \/ pending[s] # <<>> /\ pc' = calling /\ Emit(s, pending[s])
    /\ UNCHANGED <<runErr, closed, stopped, abandoned, killed, outcome, tree, pipe,
                   reader, ticker, hand, budget>>

FlushStdout == Flush("stdout", "flush stdout", "flushing stdout", "flush stderr")

\* Mutant: Run flushes the first pump only.
FlushStdoutOnly ==
    /\ pc = "flush stderr"
    /\ pc' = "judge"
    /\ UNCHANGED <<runErr, closed, stopped, abandoned, killed, outcome, tree, pipe, pumps,
                   budget, emitted>>

FlushStderr == Flush("stderr", "flush stderr", "flushing stderr", "judge")

-----------------------------------------------------------------------------
TreeStep == (\E s \in Streams : Write(s)) \/ Fork \/ ChildExits \/ HeirExits

MainStep == PrepareFails \/ Spawn \/ Started \/ Refused \/ Reaped \/ ChildWaited
            \/ RunCtxDone \/ GraceOver \/ Sweep \/ PipesDrained \/ CloseReaders
            \/ Abandon \/ Judge \/ FlushStdout \/ FlushStderr

PumpStep(s) == Read(s) \/ ReadEnds(s) \/ Add(s) \/ Tick(s) \/ TickerStops(s) \/ Deliver(s)

Next ==
    \/ TreeStep \/ MainStep \/ CtxEnds("deadline") \/ CtxEnds("cancel")
    \/ \E s \in Streams : PumpStep(s)

Spec == Init /\ [][Next]_vars

(* The goroutines run, the deadline fires and an onLogs call ends (each of  *)
(* its posts has the HTTP client's timeout).  Nothing is assumed of the     *)
(* tree: the script may never end and descendants may hold the pipes.       *)
FairSpec ==
    /\ Spec
    /\ WF_vars(MainStep) /\ WF_vars(CtxEnds("deadline"))
    /\ \A s \in Streams : WF_vars(PumpStep(s)) /\ WF_vars(Deliver(s))

-----------------------------------------------------------------------------
(* Safety.                                                                  *)

\* The text of stream s handed to onLogs so far, in the order of the calls.
Text(s) == FlattenSeq([k \in 1 .. Len(delivered) |->
              IF delivered[k].stream = s THEN delivered[k].text ELSE <<>>])

Held(s) == IF locked[s] = <<>> THEN <<>> ELSE locked[s].text

\* Each stream arrives as a gapless prefix of what the tree wrote, whatever
\* the reader, the ticker and the final flush do about the same buffer.
StreamsInOrder ==
    \A s \in Streams : \E n \in 0 .. written[s] :
        Text(s) \o Held(s) \o pending[s] = [k \in 1 .. n |-> k]

\* The budget: the units accepted over both streams are those emitted or
\* buffered, never above MaxOutputBytes; a unit was dropped iff Truncated.
BudgetExact ==
    LET len(s) == Len(Text(s) \o Held(s) \o pending[s])
        left(s) == Len(hand[s]) + Len(pipe[s])
    IN  /\ observed <= MaxOutput
        /\ observed = len("stdout") + len("stderr")
        /\ truncated <=> \E s \in Streams : len(s) + left(s) < written[s]

\* seq: "globally monotonic", each number used once and none skipped.
SeqsUsedOnce ==
    LET locks == {s \in Streams : locked[s] # <<>>}
    IN  /\ {delivered[k].seq : k \in 1 .. Len(delivered)} \cup {locked[s].seq : s \in locks}
             = 1 .. seq
        /\ Len(delivered) + Cardinality(locks) = seq

\* "cmd.Wait never races our readers or discards the final writes": when Run
\* returns with both pipes at EOF and nothing cut off, everything the tree
\* wrote has been handed to onLogs.
NothingLeftBehind ==
    pc = "returned" /\ ~closed /\ ~truncated =>
        \A s \in Streams : Len(Text(s)) = written[s]

\* An exit code is the script's own and nothing was killed for it; a run whose
\* child was killed reports the reason it was killed for (runner.go:334-380).
\* Of a script that ended by itself it leaves open whether Run reports its exit
\* or, when the deadline or the cancel came before the switch, that.
OutcomeOfTheScript ==
    pc = "returned" =>
        /\ outcome \in {"zero", "nonzero"} => child = outcome /\ killed = "no"
        /\ killed # "no" => (killed = "deadline" <=> outcome = "timeout")

\* After Run has returned only a reader it abandoned can still emit.
LateLogsFromAbandoned ==
    [][pc = "returned" /\ delivered' # delivered => abandoned]_vars

-----------------------------------------------------------------------------
(* Liveness.                                                                *)

\* "Run can NEVER hang after the script exited": once the running report is
\* accepted Run returns, even if the tree refuses to die.
StartedReturns == pc = "wait" ~> pc = "returned"
=============================================================================
