-------------------------------- MODULE Spool --------------------------------
(***************************************************************************)
(* The durable spool of the device client (internal/agent/client.go).      *)
(* Its goroutines share one directory without a lock: the stream pumps of  *)
(* a job (PostLogs), the claim loop (ReportResult, which drains first) and *)
(* the heartbeat (DrainSpool).  Run may give a stuck pump up and return:   *)
(* such a pump posts, and spools, beside the result of its job or beside   *)
(* later jobs.  A record is created under its final name and then written, *)
(* so another goroutine, or the next incarnation after a crash, can meet   *)
(* it half written.                                                        *)
(*                                                                         *)
(* A file name is kind-job-nanoseconds and DrainSpool replays in the order *)
(* of names.  The server is external.                                      *)
(***************************************************************************)
EXTENDS Naturals, FiniteSets, Sequences

CONSTANTS
    JobSeq,       \* the jobs in the order the loop runs them; numbers that
                  \* compare like the job ids in the file names
    Pumps,        \* the log sources of a job; each posts one batch
    MaxRestarts,  \* bound: how often the agent crashes or is restarted
    RemoveOpen,   \* TRUE: a file a writer has open can be removed (POSIX);
                  \* FALSE: the removal fails (Windows)
    NoFile        \* no file is open

Jobs    == {JobSeq[k] : k \in DOMAIN JobSeq}
Writers == Pumps \cup {"loop"}
Drains  == {"loop", "beat"}
Kind(w) == IF w = "loop" THEN "result" ELSE "logs"

\* A payload, known by its job and the goroutine that produces it, and the
\* file that holds it.  nano is the creation instant in the file's name.
Items  == [job : Jobs, src : Writers]
Files  == [item : Items, nano : Nat]

ASSUME SpoolAssumption ==
    /\ JobSeq \in Seq(Nat) /\ Len(JobSeq) > 0
    /\ \A a, b \in DOMAIN JobSeq : JobSeq[a] = JobSeq[b] => a = b
    /\ "loop" \notin Pumps /\ IsFiniteSet(Pumps)
    /\ MaxRestarts \in Nat
    /\ RemoveOpen \in BOOLEAN
    /\ NoFile \notin Files

VARIABLES
    terminal,   \* jobs the server holds to be over
    received,   \* items the server has recorded
    run,        \* the index in JobSeq of the job the loop is at
    wpc,        \* what the goroutine of each item does about it
    open,       \* the file it has created and not finished
    clock,      \* the next instant of the file names
    disk,       \* the files in the spool directory
    whole,      \* those whose record has been written completely
    dpc,        \* a drain: "off", at its "next" file, with a request about its
                \* record under way ("post"), or about to "remove" it
    list,       \* the names its ReadDir returned and it has still to visit
    restarts,
    \* --- history
    answered,   \* items the server accepted, fenced or refused for good
    timedOut,   \* items given up on an HTTP 408
    spooled,    \* items for which Spool returned nil
    torn,       \* items whose record a drain read before it was written
    excused     \* items lost to a failed write, a crash, or the 7-day sweep

disks   == <<disk, whole, clock>>
writers == <<run, wpc, open>>
drains  == <<dpc, list>>
history == <<answered, timedOut, spooled, torn, excused>>
vars    == <<terminal, received, writers, disks, drains, restarts, history>>

TypeOK ==
    /\ terminal \subseteq Jobs
    /\ received \subseteq Items
    /\ run \in 1 .. Len(JobSeq) + 1
    /\ wpc \in [Items -> {"ready", "flush", "post", "create", "write", "done"}]
    /\ open \in [Items -> Files \cup {NoFile}]
    /\ clock \in Nat
    /\ disk \subseteq Files
    /\ whole \subseteq Files
    /\ dpc \in [Drains -> {"off", "next", "post", "remove"}]
    /\ list \in [Drains -> SUBSET Files]
    /\ restarts \in 0 .. MaxRestarts
    /\ answered \subseteq Items
    /\ timedOut \subseteq Items
    /\ spooled \subseteq Items
    /\ torn \subseteq Items
    /\ excused \subseteq Items

Init ==
    /\ terminal = {}
    /\ received = {}
    /\ run = 1
    /\ wpc = [i \in Items |-> "ready"]
    /\ open = [i \in Items |-> NoFile]
    /\ clock = 1
    /\ disk = {}
    /\ whole = {}
    /\ dpc = [d \in Drains |-> "off"]
    /\ list = [d \in Drains |-> {}]
    /\ restarts = 0
    /\ answered = {}
    /\ timedOut = {}
    /\ spooled = {}
    /\ torn = {}
    /\ excused = {}

-----------------------------------------------------------------------------
(* One post() with its retries, as its callers see it.                     *)

\* The request reaches the server: recorded, unless the job is over (fenced).
Arrives(i) ==
    IF i.job \in terminal
    THEN UNCHANGED <<terminal, received>>
    ELSE /\ received' = received \cup {i}
         /\ terminal' = IF i.src = "loop" THEN terminal \cup {i.job} ELSE terminal

\* Accepted, fenced, or refused with a 4xx that is not retryable.
PostAnswered(i) ==
    /\ Arrives(i) \/ UNCHANGED <<terminal, received>>
    /\ answered' = answered \cup {i}
    /\ UNCHANGED <<timedOut, spooled, torn, excused>>

\* Every attempt met a network error, an unreadable answer or a 5xx, or the
\* context ended; the server may have recorded the item all the same.
PostFailed(i) ==
    /\ Arrives(i) \/ UNCHANGED <<terminal, received>>
    /\ UNCHANGED history

\* Every attempt met an HTTP 408 without an envelope: post() retries it like
\* a 5xx, but its callers classify the error by Retryable and Status < 500.
Post408(i) ==
    /\ timedOut' = timedOut \cup {i}
    /\ UNCHANGED <<terminal, received, answered, spooled, torn, excused>>

\* The watchdog ends the job the loop is at, or an earlier one.
ServerEnds(j) ==
    /\ j \in {JobSeq[k] : k \in DOMAIN JobSeq \cap 1 .. run} \ terminal
    /\ terminal' = terminal \cup {j}
    /\ UNCHANGED <<received, writers, disks, drains, restarts, history>>

-----------------------------------------------------------------------------
(* The writers.                                                            *)

Busy     == run <= Len(JobSeq)
Result   == [job |-> JobSeq[run], src |-> "loop"]
Begun(i) == \E k \in DOMAIN JobSeq : k <= run /\ JobSeq[k] = i.job

\* Mutant: a claimed job is skipped.
DoneSkipsOne(i) ==
    /\ wpc' = [wpc EXCEPT ![i] = "done"]
    /\ run' = IF i.src = "loop" THEN run + 2 ELSE run

\* The goroutine is done with i; after a result the loop goes on to the next
\* claimed job.
Done(i) ==
    /\ wpc' = [wpc EXCEPT ![i] = "done"]
    /\ run' = IF i.src = "loop" THEN run + 1 ELSE run

\* Mutant: an answered batch is spooled like one that failed.
PostLogsKeepsAnswered(i) ==
    /\ i.src \in Pumps /\ Begun(i) /\ wpc[i] = "ready"
    /\ PostAnswered(i) \/ Post408(i) \/ PostFailed(i)
    /\ wpc' = [wpc EXCEPT ![i] = "create"]
    /\ UNCHANGED <<run, open, disks, drains, restarts>>

\* PostLogs of a pump of the current job or, given up by Run, of an earlier one:
\* an answer of any finality ends it, a transient failure spools.
PostLogs(i) ==
    /\ i.src \in Pumps /\ Begun(i) /\ wpc[i] = "ready"
    /\ \/ (PostAnswered(i) \/ Post408(i)) /\ Done(i)
       \/ PostFailed(i) /\ wpc' = [wpc EXCEPT ![i] = "create"] /\ UNCHANGED run
    /\ UNCHANGED <<open, disks, drains, restarts>>

\* Spool, first half: the empty file appears under its final name.
CreateFile(i) ==
    /\ wpc[i] = "create"
    /\ LET f == [item |-> i, nano |-> clock]
       IN  /\ disk' = disk \cup {f}
           /\ open' = [open EXCEPT ![i] = f]
    /\ clock' = clock + 1
    /\ wpc' = [wpc EXCEPT ![i] = "write"]
    /\ UNCHANGED <<run, whole, terminal, received, drains, restarts, history>>

\* Spool, second half: write and close.  If the name was removed meanwhile
\* the bytes go to a file nobody can open again.
WriteFile(i) ==
    /\ wpc[i] = "write"
    /\ whole' = whole \cup ({open[i]} \cap disk)
    /\ spooled' = spooled \cup {i}
    /\ open' = [open EXCEPT ![i] = NoFile]
    /\ Done(i)
    /\ UNCHANGED <<disk, clock, terminal, received, drains, restarts,
                   answered, timedOut, torn, excused>>

\* Mkdir, open (O_EXCL on a name of the same instant) or write fails; a file
\* already created is removed.  The error is logged or swallowed.
SpoolFails(i) ==
    /\ wpc[i] \in {"create", "write"}
    /\ disk' = disk \ {open[i]}
    /\ excused' = excused \cup {i}
    /\ open' = [open EXCEPT ![i] = NoFile]
    /\ Done(i)
    /\ UNCHANGED <<whole, clock, terminal, received, drains, restarts,
                   answered, timedOut, spooled, torn>>

-----------------------------------------------------------------------------
(* DrainSpool.                                                             *)

\* sort.Strings on kind-job-nano: all logs first, then by job, then by time.
Before(f, g) ==
    LET rank(x) == IF Kind(x.item.src) = "logs" THEN 0 ELSE 1
    IN  \/ rank(f) < rank(g)
        \/ rank(f) = rank(g) /\ f.item.job < g.item.job
        \/ rank(f) = rank(g) /\ f.item.job = g.item.job /\ f.nano < g.nano

\* The file drain d is at.
At(d, f) == f \in list[d] /\ \A g \in list[d] \ {f} : Before(f, g)

StartDrain(d) ==
    /\ dpc' = [dpc EXCEPT ![d] = "next"]
    /\ list' = [list EXCEPT ![d] = disk]

\* heartbeatLoop drains after an answered heartbeat.
BeatDrains ==
    /\ dpc["beat"] = "off"
    /\ disk # {}
    /\ StartDrain("beat")
    /\ UNCHANGED <<terminal, received, writers, disks, restarts, history>>

\* The record cannot be read (already gone) or decoded (not yet written).
ReplayCorrupt(d) ==
    /\ dpc[d] = "next"
    /\ \E f \in list[d] \ (disk \cap whole) :
          /\ At(d, f)
          /\ torn' = IF f \in disk THEN torn \cup {f.item} ELSE torn
    /\ dpc' = [dpc EXCEPT ![d] = "remove"]
    /\ UNCHANGED <<list, terminal, received, writers, disks, restarts,
                   answered, timedOut, spooled, excused>>

\* Mutant: a corrupt record is skipped and left in place.
CorruptStays(d) ==
    /\ dpc[d] = "remove"
    /\ \E f \in list[d] : At(d, f) /\ list' = [list EXCEPT ![d] = @ \ {f}]
    /\ dpc' = [dpc EXCEPT ![d] = "next"]
    /\ UNCHANGED <<disks, terminal, received, writers, restarts, history>>

\* os.Remove(path) of a record that was found corrupt.
RemoveCorrupt(d) ==
    /\ dpc[d] = "remove"
    /\ \E f \in list[d] :
          /\ At(d, f)
          /\ disk' = IF RemoveOpen \/ \A i \in Items : open[i] # f
                     THEN disk \ {f} ELSE disk
          /\ list' = [list EXCEPT ![d] = @ \ {f}]
    /\ dpc' = [dpc EXCEPT ![d] = "next"]
    /\ UNCHANGED <<whole, clock, terminal, received, writers, restarts, history>>

\* The record is read.  While it is posted the file stays in the directory:
\* another drain can replay it too, or a fenced result drop it.
ReadRecord(d) ==
    /\ dpc[d] = "next"
    /\ \E f \in disk \cap whole : At(d, f)
    /\ dpc' = [dpc EXCEPT ![d] = "post"]
    /\ UNCHANGED <<list, terminal, received, writers, disks, restarts, history>>

\* A final answer (or a 408, classified like one) removes the file.
ReplayAnswered(d) ==
    /\ dpc[d] = "post"
    /\ \E f \in list[d] :
          /\ At(d, f)
          /\ PostAnswered(f.item) \/ Post408(f.item)
          /\ disk' = disk \ {f}
          /\ list' = [list EXCEPT ![d] = @ \ {f}]
    /\ dpc' = [dpc EXCEPT ![d] = "next"]
    /\ UNCHANGED <<whole, clock, writers, restarts>>

\* Mutants: a transient failure removes the record; or it does not stop the drain.
FailedReplayDrops(d) ==
    /\ dpc[d] = "post"
    /\ \E f \in list[d] :
          /\ At(d, f)
          /\ PostFailed(f.item)
          /\ disk' = disk \ {f}
    /\ list' = [list EXCEPT ![d] = {}]
    /\ dpc' = [dpc EXCEPT ![d] = "next"]
    /\ UNCHANGED <<whole, clock, writers, restarts>>

FailedReplayGoesOn(d) ==
    /\ dpc[d] = "post"
    /\ \E f \in list[d] :
          /\ At(d, f)
          /\ PostFailed(f.item)
          /\ list' = [list EXCEPT ![d] = @ \ {f}]
    /\ dpc' = [dpc EXCEPT ![d] = "next"]
    /\ UNCHANGED <<disks, writers, restarts>>

\* A transient failure stops the drain.
ReplayFailed(d) ==
    /\ dpc[d] = "post"
    /\ \E f \in list[d] : At(d, f) /\ PostFailed(f.item)
    /\ list' = [list EXCEPT ![d] = {}]
    /\ dpc' = [dpc EXCEPT ![d] = "next"]
    /\ UNCHANGED <<disks, writers, restarts>>

EndDrain(d) ==
    /\ dpc[d] = "next" /\ list[d] = {}
    /\ dpc' = [dpc EXCEPT ![d] = "off"]
    /\ UNCHANGED <<list, terminal, received, writers, disks, restarts, history>>

-----------------------------------------------------------------------------
(* ReportResult.                                                           *)

\* Run has returned, and waitPipes may have given readers up: whatever its pumps
\* do, drain first.
BeginResult ==
    /\ Busy /\ wpc[Result] = "ready"
    /\ StartDrain("loop")
    /\ wpc' = [wpc EXCEPT ![Result] = "flush"]
    /\ UNCHANGED <<run, open, terminal, received, disks, restarts, history>>

\* ... but whatever became of the drain, the result is posted.
FlushEnds ==
    /\ Busy /\ wpc[Result] = "flush" /\ dpc["loop"] = "off"
    /\ wpc' = [wpc EXCEPT ![Result] = "post"]
    /\ UNCHANGED <<run, open, terminal, received, disks, drains, restarts, history>>

\* Recorded, refused, or given up on a 408.
PostResult ==
    /\ Busy /\ wpc[Result] = "post"
    /\ PostAnswered(Result) \/ Post408(Result)
    /\ Done(Result)
    /\ UNCHANGED <<open, disks, drains, restarts>>

\* Fenced: dropSpooledForJob removes every record of the job it can read, and
\* the verdict the server has answers for them all.
PostFenced ==
    /\ Busy /\ wpc[Result] = "post"
    /\ Result.job \in terminal
    /\ LET dropped == {f \in disk \cap whole : f.item.job = Result.job}
       IN  /\ disk' = disk \ dropped
           /\ answered' = answered \cup {Result} \cup {f.item : f \in dropped}
    /\ Done(Result)
    /\ UNCHANGED <<open, whole, clock, terminal, received, drains, restarts,
                   timedOut, spooled, torn, excused>>

PostResultFailed ==
    /\ Busy /\ wpc[Result] = "post"
    /\ PostFailed(Result)
    /\ wpc' = [wpc EXCEPT ![Result] = "create"]
    /\ UNCHANGED <<run, open, disks, drains, restarts>>

-----------------------------------------------------------------------------
\* A crash or a stop and the next start: memory is gone, a file in the making
\* stays as it is, the job at hand is never resumed, and SweepSpool removes
\* the files of more than seven days.
Restart ==
    /\ restarts < MaxRestarts
    /\ restarts' = restarts + 1
    /\ \E swept \in SUBSET disk :
          /\ disk' = disk \ swept
          /\ excused' = excused \cup {f.item : f \in swept}
                                \cup {i \in Items : Begun(i) /\ wpc[i] # "done"}
    /\ wpc' = [i \in Items |-> IF Begun(i) THEN "done" ELSE wpc[i]]
    /\ run' = IF Busy THEN run + 1 ELSE run
    /\ open' = [i \in Items |-> NoFile]
    /\ dpc' = [d \in Drains |-> "off"]
    /\ list' = [d \in Drains |-> {}]
    /\ UNCHANGED <<whole, clock, terminal, received, answered, timedOut, spooled, torn>>

SpoolStep == \E i \in Items : CreateFile(i) \/ WriteFile(i) \/ SpoolFails(i)

ResultStep == BeginResult \/ FlushEnds \/ PostResult \/ PostFenced \/ PostResultFailed

DrainStep(d) == ReplayCorrupt(d) \/ RemoveCorrupt(d) \/ ReadRecord(d)
                \/ ReplayAnswered(d) \/ ReplayFailed(d) \/ EndDrain(d)

Next ==
    \/ \E j \in Jobs : ServerEnds(j)
    \/ \E i \in Items : PostLogs(i)
    \/ SpoolStep \/ ResultStep \/ BeatDrains
    \/ \E d \in Drains : DrainStep(d)
    \/ Restart

Spec == Init /\ [][Next]_vars

(* A call of Spool and a drain under way go on, the heartbeat drains again   *)
(* and again, and not every replay of them all fails.  Nothing else has to   *)
(* happen: no pump need post, and no result need be reported.                *)
FairSpec ==
    /\ Spec
    /\ WF_vars(SpoolStep) /\ WF_vars(BeatDrains)
    /\ WF_vars(\E d \in Drains : DrainStep(d))
    /\ SF_vars(\E d \in Drains : ReplayAnswered(d))

-----------------------------------------------------------------------------
(* Safety.                                                                  *)

OnDisk(i) == \E f \in disk \cap whole : f.item = i

\* The goroutine that produced the payload is done with it.
Released(i) == wpc[i] = "done"

\* A payload leaves the agent's hands only answered by the server or given up
\* for a reason that can be named: a 408, a failed write, a crash, the sweep,
\* or a drain that took it for corrupt.  In particular two drains at once, and
\* a drain beside a writer, lose nothing else.
EveryPayloadAccounted ==
    \A i \in Items : Released(i) =>
        i \in answered \cup timedOut \cup excused \cup torn \/ OnDisk(i)

\* A result that reaches the server from the spool overtakes no logs of its job
\* that were spooled before it: names sort logs first and the first transient
\* failure stops the drain.  Logs of a pump that Run gave up can be younger than
\* the result, and logs a drain met half written are lost anyway, or stay behind
\* it.  (The direct post of a result gives no such promise.)
ReplayedResultsComeLast ==
    [][\A r \in disk \cap whole :
        /\ r.item.src = "loop"
        /\ r.item \in received' \ received
        => ~\E f \in disk \cap whole : /\ f.item.job = r.item.job /\ f.item.src # "loop"
                                      /\ f.nano < r.nano /\ f.item \notin torn]_vars

-----------------------------------------------------------------------------
(* Refinement.                                                              *)

Place(i) == IF OnDisk(i) THEN "kept" ELSE IF Released(i) THEN "gone" ELSE "pending"

Promise == INSTANCE Outbox WITH
    place <- [i \in Items |-> Place(i)],
    lost  <- timedOut \cup excused \cup torn

\* The directory, its writers and its drains keep the outbox's promise: a
\* payload becomes durable at most once, it leaves the agent in the very step
\* that answers it or at a loss that has a reason, whoever takes that step, and
\* no record of it turns up again (ReportResult, PostLogs, Spool, DrainSpool).
ImplementsOutbox == Promise!Spec

-----------------------------------------------------------------------------
(* Liveness.                                                                *)

\* The spool does not stay occupied for ever: a drain replays what it finds, or
\* takes it for corrupt and removes it, and a payload that left never returns.
SpoolEmpties == disk # {} ~> disk = {}

-----------------------------------------------------------------------------
(* What the documentation says and the code does not do.                    *)

\* client.go, PostLogs: "Transient: keep the logs durably; drain on a later
\* call": what Spool reported as kept is kept until it is answered.
DurablySpooled ==
    \A i \in spooled : i \in answered \cup timedOut \cup excused \/ OnDisk(i)
=============================================================================
