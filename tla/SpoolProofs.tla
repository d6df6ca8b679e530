----------------------------- MODULE SpoolProofs -----------------------------
(***************************************************************************)
(* Theorems about Spool for every list of jobs, every set of pumps, any    *)
(* number of restarts, and both ways a system removes an open file.        *)
(*                                                                         *)
(* The goroutines share the directory without a lock; what keeps them      *)
(* apart is that a name is used once (its instant), that a writer's file   *)
(* is no drain's to replay until it is whole, and that each payload has a  *)
(* goroutine of its own.  Nothing rests on the pumps being done when the   *)
(* result of their job is reported.                                        *)
(***************************************************************************)
EXTENDS Spool, FiniteSetTheorems, TLAPS

\* A goroutine holds a file exactly while it writes it, of a job that has begun;
\* the loop is busy with the result of the current job, and with no other.
WriterInv ==
    \A i \in Items :
        /\ IF wpc[i] = "write" THEN open[i] \in Files /\ open[i].item = i
           ELSE open[i] = NoFile
        /\ ~Begun(i) => wpc[i] = "ready"
        /\ i.src = "loop" /\ wpc[i] \notin {"ready", "done"} => Busy /\ i = Result

\* Every name in use is older than the clock.
ClockInv ==
    /\ \A f \in disk \cup whole : f.nano < clock
    /\ \A d \in Drains : \A f \in list[d] : f.nano < clock

\* A file in the making is not whole, and gone only if a drain took it for
\* corrupt; what a drain posts it has read from a whole file; what a drain is
\* about to remove it has taken for corrupt, or it is gone already.
FileInv ==
    /\ \A i \in Items : wpc[i] = "write" =>
          open[i] \notin whole /\ (open[i] \in disk \/ i \in torn)
    /\ \A d \in Drains : \A f \in list[d] : At(d, f) =>
          /\ dpc[d] = "post" => f \in whole
          /\ dpc[d] = "remove" => f.item \in torn \/ f \notin disk

\* A drain that has a result still to visit has all older logs of its job that
\* are on the disk still to visit too, unless one was met half written.
ListInv ==
    \A d \in Drains : \A r \in list[d] : r.item.src = "loop" =>
        \A f \in disk :
            /\ f.item.job = r.item.job /\ f.item.src # "loop"
            /\ f.nano < r.nano /\ f.item \notin torn
            => f \in list[d]

\* A payload has one file; a whole file's writer is done with it, even when the
\* file is gone, and a file nobody will ever finish belongs to a payload that was
\* lost with a crash.
Single(f) == \A g \in disk \cup whole : g.item = f.item => g = f
Home(f) == IF f \in whole THEN Released(f.item)
           ELSE \/ f.item \in excused
                \/ wpc[f.item] = "write" /\ open[f.item] = f

KeptInv ==
    /\ \A f \in disk \cup whole : Single(f) /\ Home(f)
    /\ \A i \in excused : Released(i)

SpoolInv == /\ TypeOK /\ WriterInv /\ ClockInv /\ FileInv /\ ListInv /\ KeptInv
            /\ EveryPayloadAccounted

-----------------------------------------------------------------------------
(* The constants, the items and the files.                                  *)

LEMMA Givens ==
  /\ Len(JobSeq) \in Nat \ {0} /\ DOMAIN JobSeq = 1 .. Len(JobSeq)
  /\ \A k \in DOMAIN JobSeq : JobSeq[k] \in Jobs /\ JobSeq[k] \in Nat
  /\ Jobs \subseteq Nat
  /\ "loop" \in Writers /\ "loop" \notin Pumps
  /\ NoFile \notin Files
<1>1. JobSeq \in Seq(Nat) /\ Len(JobSeq) > 0
  BY SpoolAssumption
<1>2. Len(JobSeq) \in Nat \ {0} /\ DOMAIN JobSeq = 1 .. Len(JobSeq)
  BY <1>1
<1>3. \A k \in DOMAIN JobSeq : JobSeq[k] \in Jobs /\ JobSeq[k] \in Nat
  BY <1>1 DEF Jobs
<1>4. Jobs \subseteq Nat
  BY <1>3 DEF Jobs
<1> QED BY <1>2, <1>3, <1>4, SpoolAssumption DEF Writers

\* The result of the job the loop is at.
LEMMA ResultIs ==
  ASSUME TypeOK, Busy
  PROVE  /\ run \in 1 .. Len(JobSeq) /\ Result \in Items
         /\ Result.src = "loop" /\ Begun(Result)
<1>1. run \in DOMAIN JobSeq /\ run \in 1 .. Len(JobSeq) /\ run <= run
  BY Givens DEF TypeOK, Busy
<1> QED BY <1>1, Givens DEF Result, Items, Begun

LEMMA FileIs ==
  ASSUME NEW f \in Files
  PROVE  /\ f.item \in Items /\ f.nano \in Nat
         /\ f.item.job \in Jobs /\ f.item.job \in Nat /\ f.item.src \in Writers
<1>1. f.item \in Items /\ f.nano \in Nat
  BY DEF Files
<1> QED BY <1>1, Givens DEF Items

\* The order of the names: a drain is at one file at a time.
LEMMA AtOne ==
  ASSUME TypeOK, NEW d \in Drains, NEW f, NEW g, At(d, f), At(d, g)
  PROVE  f = g
<1> SUFFICES ASSUME f # g PROVE FALSE
  OBVIOUS
<1>1. f \in Files /\ g \in Files
  BY DEF At, TypeOK
<1>2. Before(f, g) /\ Before(g, f)
  BY DEF At
<1>3. /\ f.item.job \in Nat /\ g.item.job \in Nat /\ f.nano \in Nat /\ g.nano \in Nat
  BY <1>1, FileIs
<1> DEFINE rank(x) == IF Kind(x.item.src) = "logs" THEN 0 ELSE 1
<1>4. rank(f) \in Nat /\ rank(g) \in Nat
  OBVIOUS
<1>5. /\ \/ rank(f) < rank(g)
         \/ rank(f) = rank(g) /\ f.item.job < g.item.job
         \/ rank(f) = rank(g) /\ f.item.job = g.item.job /\ f.nano < g.nano
      /\ \/ rank(g) < rank(f)
         \/ rank(g) = rank(f) /\ g.item.job < f.item.job
         \/ rank(g) = rank(f) /\ g.item.job = f.item.job /\ g.nano < f.nano
  BY <1>2 DEF Before
<1> HIDE DEF rank
<1> QED BY <1>3, <1>4, <1>5

-----------------------------------------------------------------------------
(* Types.                                                                   *)

\* NewClient: an empty directory and a loop before its first job.
LEMMA InitSpoolInv == Init => SpoolInv
<1> SUFFICES ASSUME Init PROVE SpoolInv
  OBVIOUS
<1>1. TypeOK
  <2>1. clock \in Nat /\ run \in 1 .. Len(JobSeq) + 1 /\ restarts \in 0 .. MaxRestarts
    BY Givens, SpoolAssumption DEF Init
  <2> QED BY <2>1 DEF Init, TypeOK
<1>2. WriterInv
  BY DEF Init, WriterInv
<1>3. ClockInv /\ FileInv /\ ListInv /\ KeptInv
  BY DEF Init, ClockInv, FileInv, ListInv, KeptInv
<1>4. EveryPayloadAccounted
  BY DEF Init, EveryPayloadAccounted, Released
<1> QED BY <1>1, <1>2, <1>3, <1>4 DEF SpoolInv

\* A goroutine at another place, and the others where they were.
LEMMA MoveIs ==
  ASSUME TypeOK, NEW i \in Items, NEW to, wpc' = [wpc EXCEPT ![i] = to]
  PROVE  wpc'[i] = to /\ \A j \in Items \ {i} : wpc'[j] = wpc[j]
BY DEF TypeOK

\* The loop at its next job, or where it is.
LEMMA DoneIs ==
  ASSUME TypeOK, NEW i \in Items, Done(i), i.src = "loop" => Busy
  PROVE  /\ run' \in 1 .. Len(JobSeq) + 1
         /\ wpc' \in [Items -> {"ready", "flush", "post", "create", "write", "done"}]
         /\ wpc'[i] = "done" /\ \A j \in Items \ {i} : wpc'[j] = wpc[j]
         /\ run' = run \/ (run' = run + 1 /\ i.src = "loop")
BY Givens DEF Done, TypeOK, Busy

\* What a request changes of the server and of the history.
LEMMA PostTypes ==
  ASSUME TypeOK, NEW i \in Items, PostAnswered(i) \/ PostFailed(i) \/ Post408(i)
  PROVE  /\ terminal' \subseteq Jobs /\ received' \subseteq Items
         /\ answered' \subseteq Items /\ answered \subseteq answered'
         /\ timedOut' \subseteq Items /\ timedOut \subseteq timedOut'
         /\ spooled' = spooled /\ torn' = torn /\ excused' = excused
         /\ \A r \in received' \ received : r = i
<1>1. i.job \in Jobs
  BY DEF Items
<1> QED BY <1>1 DEF TypeOK, PostAnswered, PostFailed, Post408, Arrives, history

LEMMA DrainTypes ==
  ASSUME TypeOK, NEW d \in Drains, DrainStep(d)
  PROVE  TypeOK'
<1> USE DEF writers, disks, history
<1>0. \A f \in Files : f.item \in Items
  BY FileIs
<1>1. CASE ReplayCorrupt(d)
  <2>1. torn' \subseteq Items
    BY <1>0, <1>1 DEF ReplayCorrupt, TypeOK
  <2> QED BY <1>1, <2>1 DEF ReplayCorrupt, TypeOK
<1>2. CASE RemoveCorrupt(d)
  <2>1. PICK f \in list[d] :
          /\ disk' = IF RemoveOpen \/ \A i \in Items : open[i] # f
                     THEN disk \ {f} ELSE disk
          /\ list' = [list EXCEPT ![d] = @ \ {f}]
    BY <1>2, Zenon DEF RemoveCorrupt
  <2>2. disk' \subseteq Files
    BY <2>1 DEF TypeOK
  <2>3. list' \in [Drains -> SUBSET Files]
    BY <2>1 DEF TypeOK
  <2>4. UNCHANGED <<whole, clock, terminal, received, writers, restarts, history>>
        /\ dpc' = [dpc EXCEPT ![d] = "next"]
    BY <1>2 DEF RemoveCorrupt
  <2> QED BY <2>2, <2>3, <2>4 DEF TypeOK
<1>3. CASE ReplayAnswered(d)
  <2>1. PICK f \in list[d] :
          /\ PostAnswered(f.item) \/ Post408(f.item)
          /\ disk' = disk \ {f}
          /\ list' = [list EXCEPT ![d] = @ \ {f}]
    BY <1>3, Zenon DEF ReplayAnswered
  <2>2. f.item \in Items
    BY <1>0 DEF TypeOK
  <2>3. /\ terminal' \subseteq Jobs /\ received' \subseteq Items /\ answered' \subseteq Items
        /\ timedOut' \subseteq Items /\ spooled' = spooled /\ torn' = torn /\ excused' = excused
    BY <2>1, <2>2, PostTypes
  <2>4. disk' \subseteq Files /\ list' \in [Drains -> SUBSET Files]
    BY <2>1 DEF TypeOK
  <2>5. UNCHANGED <<whole, clock, writers, restarts>> /\ dpc' = [dpc EXCEPT ![d] = "next"]
    BY <1>3 DEF ReplayAnswered
  <2> QED BY <2>3, <2>4, <2>5 DEF TypeOK
<1>4. CASE ReplayFailed(d)
  <2>1. PICK f \in list[d] : PostFailed(f.item)
    BY <1>4, Zenon DEF ReplayFailed
  <2>2. f.item \in Items
    BY <1>0 DEF TypeOK
  <2>3. /\ terminal' \subseteq Jobs /\ received' \subseteq Items /\ answered' \subseteq Items
        /\ timedOut' \subseteq Items /\ spooled' = spooled /\ torn' = torn /\ excused' = excused
    BY <2>1, <2>2, PostTypes
  <2>4. /\ list' = [list EXCEPT ![d] = {}] /\ dpc' = [dpc EXCEPT ![d] = "next"]
        /\ UNCHANGED <<disks, writers, restarts>>
    BY <1>4 DEF ReplayFailed
  <2> QED BY <2>3, <2>4 DEF TypeOK
<1>5. CASE ReadRecord(d) \/ EndDrain(d)
  BY <1>5 DEF ReadRecord, EndDrain, TypeOK
<1> QED BY <1>1, <1>2, <1>3, <1>4, <1>5 DEF DrainStep

LEMMA WriterTypes ==
  ASSUME TypeOK, WriterInv, NEW i \in Items,
         PostLogs(i) \/ CreateFile(i) \/ WriteFile(i) \/ SpoolFails(i)
  PROVE  TypeOK'
<1> USE DEF disks, drains, history
<1>1. CASE PostLogs(i)
  <2>1. /\ terminal' \subseteq Jobs /\ received' \subseteq Items /\ answered' \subseteq Items
        /\ timedOut' \subseteq Items /\ spooled' = spooled /\ torn' = torn /\ excused' = excused
    BY <1>1, PostTypes DEF PostLogs
  <2>2. i.src # "loop"
    BY <1>1, Givens DEF PostLogs
  <2>3. /\ run' \in 1 .. Len(JobSeq) + 1
        /\ wpc' \in [Items -> {"ready", "flush", "post", "create", "write", "done"}]
    <3>1. CASE Done(i)
      BY <2>2, <3>1, DoneIs
    <3>2. CASE wpc' = [wpc EXCEPT ![i] = "create"] /\ UNCHANGED run
      BY <3>2 DEF TypeOK
    <3> QED BY <1>1, <3>1, <3>2 DEF PostLogs
  <2>4. UNCHANGED <<open, disks, drains, restarts>>
    BY <1>1 DEF PostLogs
  <2> QED BY <2>1, <2>3, <2>4 DEF TypeOK
<1>2. CASE CreateFile(i)
  <2>1. [item |-> i, nano |-> clock] \in Files
    BY DEF Files, TypeOK
  <2>2. disk' \subseteq Files /\ open' \in [Items -> Files \cup {NoFile}] /\ clock' \in Nat
    BY <1>2, <2>1 DEF CreateFile, TypeOK
  <2>3. wpc' \in [Items -> {"ready", "flush", "post", "create", "write", "done"}]
    BY <1>2 DEF CreateFile, TypeOK
  <2>4. UNCHANGED <<run, whole, terminal, received, drains, restarts, history>>
    BY <1>2 DEF CreateFile
  <2> QED BY <2>2, <2>3, <2>4 DEF TypeOK
<1>3. CASE WriteFile(i) \/ SpoolFails(i)
  <2>1. wpc[i] \in {"create", "write"} /\ Done(i) /\ open' = [open EXCEPT ![i] = NoFile]
    BY <1>3 DEF WriteFile, SpoolFails
  <2>2. i.src = "loop" => Busy
    BY <2>1 DEF WriterInv
  <2>3. /\ run' \in 1 .. Len(JobSeq) + 1
        /\ wpc' \in [Items -> {"ready", "flush", "post", "create", "write", "done"}]
    BY <2>1, <2>2, DoneIs
  <2>4. open' \in [Items -> Files \cup {NoFile}]
    BY <2>1 DEF TypeOK
  <2>5. disk' \subseteq Files /\ whole' \subseteq Files /\ spooled' \subseteq Items
        /\ excused' \subseteq Items
    BY <1>3 DEF WriteFile, SpoolFails, TypeOK
  <2>6. UNCHANGED <<clock, terminal, received, drains, restarts, answered, timedOut, torn>>
    BY <1>3 DEF WriteFile, SpoolFails
  <2> QED BY <2>3, <2>4, <2>5, <2>6 DEF TypeOK
<1> QED BY <1>1, <1>2, <1>3

LEMMA ResultTypes ==
  ASSUME TypeOK, ResultStep
  PROVE  TypeOK'
<1> USE DEF disks, drains, history
<1>0. Busy /\ Result \in Items /\ Result.src = "loop"
  BY ResultIs DEF ResultStep, BeginResult, FlushEnds, PostResult, PostFenced, PostResultFailed
<1>1. CASE BeginResult
  <2>1. wpc' \in [Items -> {"ready", "flush", "post", "create", "write", "done"}]
    BY <1>1 DEF BeginResult, TypeOK
  <2>2. dpc' \in [Drains -> {"off", "next", "post", "remove"}] /\ list' \in [Drains -> SUBSET Files]
    BY <1>1 DEF BeginResult, StartDrain, TypeOK
  <2> QED BY <1>1, <2>1, <2>2 DEF BeginResult, TypeOK
<1>2. CASE FlushEnds
  BY <1>2 DEF FlushEnds, TypeOK
<1>3. CASE PostResult \/ PostResultFailed
  <2>1. /\ terminal' \subseteq Jobs /\ received' \subseteq Items /\ answered' \subseteq Items
        /\ timedOut' \subseteq Items /\ spooled' = spooled /\ torn' = torn /\ excused' = excused
    BY <1>0, <1>3, PostTypes DEF PostResult, PostResultFailed
  <2>2. /\ run' \in 1 .. Len(JobSeq) + 1
        /\ wpc' \in [Items -> {"ready", "flush", "post", "create", "write", "done"}]
    <3>1. CASE PostResult
      BY <1>0, <3>1, DoneIs DEF PostResult
    <3>2. CASE PostResultFailed
      BY <3>2 DEF PostResultFailed, TypeOK
    <3> QED BY <1>3, <3>1, <3>2
  <2>3. UNCHANGED <<open, disks, drains, restarts>>
    BY <1>3 DEF PostResult, PostResultFailed
  <2> QED BY <2>1, <2>2, <2>3 DEF TypeOK
<1>4. CASE PostFenced
  <2>1. /\ run' \in 1 .. Len(JobSeq) + 1
        /\ wpc' \in [Items -> {"ready", "flush", "post", "create", "write", "done"}]
    BY <1>0, <1>4, DoneIs DEF PostFenced
  <2>2. disk' \subseteq disk /\ answered' \subseteq Items
    <3>1. \A f \in disk : f.item \in Items
      BY FileIs DEF TypeOK
    <3> QED BY <1>0, <1>4, <3>1 DEF PostFenced, TypeOK
  <2>3. UNCHANGED <<open, whole, clock, terminal, received, drains, restarts,
                    timedOut, spooled, torn, excused>>
    BY <1>4 DEF PostFenced
  <2> QED BY <2>1, <2>2, <2>3 DEF TypeOK
<1> QED BY <1>1, <1>2, <1>3, <1>4 DEF ResultStep

\* What a crash takes, and what it leaves.
LEMMA RestartIs ==
  ASSUME TypeOK, Restart
  PROVE  /\ run' \in {run, run + 1} /\ run' \in 1 .. Len(JobSeq) + 1
         /\ \A i \in Items : wpc'[i] = IF Begun(i) THEN "done" ELSE wpc[i]
         /\ open' = [i \in Items |-> NoFile]
         /\ list' = [d \in Drains |-> {}] /\ dpc' = [d \in Drains |-> "off"]
         /\ \E swept \in SUBSET disk :
              /\ disk' = disk \ swept
              /\ excused' = excused \cup {f.item : f \in swept}
                                    \cup {i \in Items : Begun(i) /\ wpc[i] # "done"}
         /\ UNCHANGED <<whole, clock, terminal, received, answered, timedOut, spooled, torn>>
<1>1. run' \in {run, run + 1} /\ run' \in 1 .. Len(JobSeq) + 1
  BY Givens DEF Restart, TypeOK, Busy
<1>2. \E swept \in SUBSET disk :
              /\ disk' = disk \ swept
              /\ excused' = excused \cup {f.item : f \in swept}
                                    \cup {i \in Items : Begun(i) /\ wpc[i] # "done"}
  BY Zenon DEF Restart
<1> QED BY <1>1, <1>2 DEF Restart

LEMMA StepTypes == TypeOK /\ WriterInv /\ [Next]_vars => TypeOK'
<1> SUFFICES ASSUME TypeOK, WriterInv, [Next]_vars PROVE TypeOK'
  OBVIOUS
<1> USE DEF disks, drains, writers, history
<1>1. CASE Restart
  <2>1. PICK swept \in SUBSET disk :
           /\ disk' = disk \ swept
           /\ excused' = excused \cup {f.item : f \in swept}
                                 \cup {i \in Items : Begun(i) /\ wpc[i] # "done"}
    BY <1>1, RestartIs
  <2>2. excused' \subseteq Items /\ disk' \subseteq Files
    <3>1. \A f \in swept : f.item \in Items
      BY FileIs DEF TypeOK
    <3> QED BY <2>1, <3>1 DEF TypeOK
  <2>3. wpc' \in [Items -> {"ready", "flush", "post", "create", "write", "done"}]
    BY <1>1 DEF Restart, TypeOK
  <2>4. restarts' \in 0 .. MaxRestarts
    BY <1>1, SpoolAssumption DEF Restart, TypeOK
  <2> QED BY <1>1, <2>2, <2>3, <2>4, RestartIs DEF TypeOK
<1>2. CASE BeatDrains
  <2>1. dpc' \in [Drains -> {"off", "next", "post", "remove"}] /\ list' \in [Drains -> SUBSET Files]
    BY <1>2 DEF BeatDrains, StartDrain, TypeOK
  <2> QED BY <1>2, <2>1 DEF BeatDrains, TypeOK
<1>3. CASE \E j \in Jobs : ServerEnds(j)
  BY <1>3 DEF ServerEnds, TypeOK
<1>4. CASE UNCHANGED vars
  BY <1>4 DEF vars, TypeOK
<1> QED BY <1>1, <1>2, <1>3, <1>4, WriterTypes, ResultTypes, DrainTypes DEF Next, SpoolStep

-----------------------------------------------------------------------------
(* The goroutines and their files.                                          *)

LEMMA BegunKept ==
  ASSUME TypeOK, run' \in {run, run + 1}, NEW i, Begun(i)
  PROVE  Begun(i)'
BY Givens DEF Begun, TypeOK

\* One goroutine goes on, with a file if it is to write one; the loop goes on to
\* the next job when it is done with a result.
LEMMA WriterMoves ==
  ASSUME TypeOK, WriterInv, NEW i \in Items, Begun(i),
         NEW to, wpc' = [wpc EXCEPT ![i] = to],
         NEW f, open' = [open EXCEPT ![i] = f],
         IF to = "write" THEN f \in Files /\ f.item = i ELSE f = NoFile,
         \/ run' = run /\ (i.src = "loop" /\ to \notin {"ready", "done"} => Busy /\ i = Result)
         \/ /\ run' = run + 1 /\ to = "done"
            /\ i.src = "loop" /\ wpc[i] \notin {"ready", "done"}
  PROVE  WriterInv'
<1> SUFFICES ASSUME NEW j \in Items
             PROVE  /\ IF wpc'[j] = "write" THEN open'[j] \in Files /\ open'[j].item = j
                       ELSE open'[j] = NoFile
                    /\ ~Begun(j)' => wpc'[j] = "ready"
                    /\ j.src = "loop" /\ wpc'[j] \notin {"ready", "done"} => Busy' /\ j = Result'
  BY DEF WriterInv
<1>1. Begun(i)' /\ (Begun(j) => Begun(j)')
  BY BegunKept
<1>2. wpc'[i] = to /\ open'[i] = f
      /\ (j # i => wpc'[j] = wpc[j] /\ open'[j] = open[j])
  BY DEF TypeOK
<1>3. CASE run' = run
  <2>1. Busy' = Busy /\ Result' = Result
    BY <1>3 DEF Busy, Result
  <2> QED BY <1>1, <1>2, <1>3, <2>1 DEF WriterInv, TypeOK
<1>4. CASE run' = run + 1 /\ run' # run
  <2>1. i = Result /\ to = "done"
    BY <1>4 DEF WriterInv
  <2>2. j.src = "loop" /\ wpc'[j] \notin {"ready", "done"} => FALSE
    BY <1>2, <2>1 DEF WriterInv
  <2> QED BY <1>1, <1>2, <2>1, <2>2 DEF WriterInv
<1> QED BY <1>3, <1>4

\* The goroutine lets its file go and is done.
LEMMA WriterDone ==
  ASSUME TypeOK, WriterInv, NEW i \in Items, Begun(i), Done(i),
         open' = [open EXCEPT ![i] = NoFile],
         i.src = "loop" => wpc[i] \notin {"ready", "done"}
  PROVE  WriterInv'
<1>1. wpc' = [wpc EXCEPT ![i] = "done"]
  BY DEF Done
<1>2. run' = run \/ (run' = run + 1 /\ i.src = "loop")
  BY DEF Done
<1> QED BY <1>1, <1>2, WriterMoves

\* The goroutine goes on within its job, with no file.
LEMMA LoopMoves ==
  ASSUME TypeOK, WriterInv, NEW i \in Items, Begun(i), NEW to \in {"flush", "post", "create"},
         wpc' = [wpc EXCEPT ![i] = to], run' = run,
         open' = [open EXCEPT ![i] = NoFile],
         i.src = "loop" => Busy /\ i = Result
  PROVE  WriterInv'
<1>1. to # "write"
  OBVIOUS
<1>2. IF to = "write" THEN NoFile \in Files /\ NoFile.item = i ELSE NoFile = NoFile
  BY <1>1
<1>3. i.src = "loop" /\ to \notin {"ready", "done"} => Busy /\ i = Result
  OBVIOUS
<1> QED BY <1>2, <1>3, WriterMoves

\* A goroutine that has begun is one of a job that has begun.
LEMMA Started ==
  ASSUME WriterInv, NEW i \in Items, wpc[i] # "ready"
  PROVE  Begun(i)
BY DEF WriterInv

LEMMA SameOpen ==
  ASSUME TypeOK, WriterInv, NEW i \in Items, wpc[i] # "write", open' = open
  PROVE  open' = [open EXCEPT ![i] = NoFile]
<1>1. open[i] = NoFile /\ open \in [Items -> Files \cup {NoFile}]
  BY DEF WriterInv, TypeOK
<1> QED BY <1>1

LEMMA WriterStepInv == TypeOK /\ WriterInv /\ [Next]_vars => WriterInv'
<1> SUFFICES ASSUME TypeOK, WriterInv, [Next]_vars PROVE WriterInv'
  OBVIOUS
<1> USE DEF disks, drains, writers, history
<1>1. ASSUME NEW i \in Items, PostLogs(i) PROVE WriterInv'
  <2>1. Begun(i) /\ wpc[i] = "ready" /\ i.src # "loop" /\ open' = open
    BY <1>1, Givens DEF PostLogs
  <2>2. open' = [open EXCEPT ![i] = NoFile]
    BY <2>1, SameOpen
  <2>3. CASE Done(i)
    BY <2>1, <2>2, <2>3, WriterDone
  <2>4. CASE wpc' = [wpc EXCEPT ![i] = "create"] /\ UNCHANGED run
    BY <2>1, <2>2, <2>4, LoopMoves
  <2> QED BY <1>1, <2>3, <2>4 DEF PostLogs
<1>2. ASSUME NEW i \in Items, CreateFile(i) PROVE WriterInv'
  <2> DEFINE f == [item |-> i, nano |-> clock]
  <2>1. f \in Files /\ f.item = i
    BY DEF Files, TypeOK
  <2>2. /\ wpc[i] = "create" /\ open' = [open EXCEPT ![i] = f]
        /\ wpc' = [wpc EXCEPT ![i] = "write"] /\ run' = run
    BY <1>2 DEF CreateFile
  <2>3. Begun(i) /\ (i.src = "loop" => Busy /\ i = Result)
    BY <2>2 DEF WriterInv
  <2> HIDE DEF f
  <2> QED BY <2>1, <2>2, <2>3, WriterMoves
<1>3. ASSUME NEW i \in Items, WriteFile(i) \/ SpoolFails(i) PROVE WriterInv'
  <2>1. wpc[i] \in {"create", "write"} /\ Done(i) /\ open' = [open EXCEPT ![i] = NoFile]
    BY <1>3 DEF WriteFile, SpoolFails
  <2> QED BY <2>1, Started, WriterDone
<1>4. CASE ResultStep
  <2>1. Busy /\ Result \in Items /\ Result.src = "loop" /\ Begun(Result)
    BY <1>4, ResultIs DEF ResultStep, BeginResult, FlushEnds, PostResult, PostFenced,
                          PostResultFailed
  <2>2. wpc[Result] # "write" /\ open' = open
    BY <1>4 DEF ResultStep, BeginResult, FlushEnds, PostResult, PostFenced, PostResultFailed
  <2>3. open' = [open EXCEPT ![Result] = NoFile]
    BY <2>1, <2>2, SameOpen
  <2>4. CASE BeginResult
    <3>1. wpc' = [wpc EXCEPT ![Result] = "flush"] /\ run' = run
      BY <2>4 DEF BeginResult
    <3> QED BY <2>1, <2>3, <3>1, LoopMoves
  <2>5. CASE FlushEnds
    <3>1. wpc' = [wpc EXCEPT ![Result] = "post"] /\ run' = run
      BY <2>5 DEF FlushEnds
    <3> QED BY <2>1, <2>3, <3>1, LoopMoves
  <2>6. CASE PostResultFailed
    <3>1. wpc' = [wpc EXCEPT ![Result] = "create"] /\ run' = run
      BY <2>6 DEF PostResultFailed
    <3> QED BY <2>1, <2>3, <3>1, LoopMoves
  <2>7. CASE PostResult \/ PostFenced
    <3>1. Done(Result) /\ wpc[Result] = "post"
      BY <2>7 DEF PostResult, PostFenced
    <3> QED BY <2>1, <2>3, <3>1, WriterDone
  <2> QED BY <1>4, <2>4, <2>5, <2>6, <2>7 DEF ResultStep
<1>5. CASE Restart
  <2>1. /\ run' \in {run, run + 1} /\ open' = [i \in Items |-> NoFile]
        /\ \A i \in Items : wpc'[i] = IF Begun(i) THEN "done" ELSE wpc[i]
    BY <1>5, RestartIs
  <2>2. \A i \in Items : wpc'[i] \in {"ready", "done"} /\ open'[i] = NoFile
    BY <2>1 DEF WriterInv
  <2>3. \A i \in Items : ~Begun(i)' => wpc'[i] = "ready"
    BY <2>1, BegunKept DEF WriterInv
  <2> QED BY <2>2, <2>3 DEF WriterInv
<1>6. ASSUME UNCHANGED <<run, wpc, open>> PROVE WriterInv'
  BY <1>6 DEF WriterInv, Begun, Busy, Result
<1>7. ASSUME NEW d \in Drains, DrainStep(d) PROVE UNCHANGED <<run, wpc, open>>
  BY <1>7 DEF DrainStep, ReplayCorrupt, RemoveCorrupt, ReadRecord, ReplayAnswered,
              ReplayFailed, EndDrain
<1>8. CASE BeatDrains \/ (\E j \in Jobs : ServerEnds(j)) \/ UNCHANGED vars
  BY <1>6, <1>8 DEF BeatDrains, ServerEnds, vars
<1> QED BY <1>1, <1>2, <1>3, <1>4, <1>5, <1>6, <1>7, <1>8 DEF Next, SpoolStep

-----------------------------------------------------------------------------
(* The instants of the names.                                               *)

\* Only Spool brings a new name, and it is younger than all others.
LEMMA NamesOf ==
  ASSUME TypeOK, WriterInv, [Next]_vars, ~\E i \in Items : CreateFile(i)
  PROVE  /\ clock' = clock /\ disk' \subseteq disk
         /\ \A f \in whole' \ whole : f \in disk
         /\ \A d \in Drains : list'[d] \subseteq list[d] \cup disk
<1> USE DEF disks, drains, writers, history
<1>1. ASSUME NEW i \in Items, PostLogs(i) \/ WriteFile(i) \/ SpoolFails(i)
      PROVE  /\ clock' = clock /\ disk' \subseteq disk /\ list' = list
             /\ \A f \in whole' \ whole : f \in disk
  BY <1>1 DEF PostLogs, WriteFile, SpoolFails
<1>2. CASE ResultStep
  <2>1. clock' = clock /\ disk' \subseteq disk /\ whole' = whole
    BY <1>2 DEF ResultStep, BeginResult, FlushEnds, PostResult, PostFenced, PostResultFailed
  <2>2. list' = list \/ list' = [list EXCEPT !["loop"] = disk]
    BY <1>2 DEF ResultStep, BeginResult, FlushEnds, PostResult, PostFenced, PostResultFailed,
                StartDrain
  <2> QED BY <2>1, <2>2 DEF TypeOK
<1>3. ASSUME NEW d \in Drains, DrainStep(d)
      PROVE  /\ clock' = clock /\ disk' \subseteq disk /\ whole' = whole
             /\ \A c \in Drains : list'[c] \subseteq list[c]
  <2>1. /\ clock' = clock /\ whole' = whole
        /\ list' = list \/ list' = [list EXCEPT ![d] = {}]
                        \/ \E f \in list[d] : list' = [list EXCEPT ![d] = @ \ {f}]
    BY <1>3 DEF DrainStep, ReplayCorrupt, RemoveCorrupt, ReadRecord, ReplayAnswered,
                ReplayFailed, EndDrain
  <2>2. disk' \subseteq disk
    BY <1>3 DEF DrainStep, ReplayCorrupt, RemoveCorrupt, ReadRecord, ReplayAnswered,
                ReplayFailed, EndDrain
  <2> QED BY <2>1, <2>2 DEF TypeOK
<1>4. CASE Restart
  BY <1>4, RestartIs
<1>5. CASE BeatDrains
  BY <1>5 DEF BeatDrains, StartDrain, TypeOK
<1>6. CASE (\E j \in Jobs : ServerEnds(j)) \/ UNCHANGED vars
  BY <1>6 DEF ServerEnds, vars
<1> QED BY <1>1, <1>2, <1>3, <1>4, <1>5, <1>6 DEF Next, SpoolStep

LEMMA ClockStep == TypeOK /\ WriterInv /\ ClockInv /\ [Next]_vars => ClockInv'
<1> SUFFICES ASSUME TypeOK, WriterInv, ClockInv, [Next]_vars PROVE ClockInv'
  OBVIOUS
<1>0. clock \in Nat /\ \A f \in Files : f.nano \in Nat
  BY FileIs DEF TypeOK
<1>1. ASSUME NEW i \in Items, CreateFile(i) PROVE ClockInv'
  <2>1. PICK f : f.nano = clock /\ disk' = disk \cup {f}
    BY <1>1 DEF CreateFile
  <2>2. whole' = whole /\ list' = list /\ clock' = clock + 1
    BY <1>1 DEF CreateFile, drains
  <2>3. \A g \in disk \cup whole : g \in Files
    BY DEF TypeOK
  <2>4. \A d \in Drains : \A g \in list[d] : g \in Files
    BY DEF TypeOK
  <2> QED BY <1>0, <2>1, <2>2, <2>3, <2>4 DEF ClockInv
<1>2. CASE ~\E i \in Items : CreateFile(i)
  BY <1>2, NamesOf DEF ClockInv
<1> QED BY <1>1, <1>2

-----------------------------------------------------------------------------
(* Files in the making, and what the drains make of files.                  *)

Making == \A i \in Items : wpc[i] = "write" =>
             open[i] \notin whole /\ (open[i] \in disk \/ i \in torn)

Visiting(d) == \A f \in list[d] : At(d, f) =>
                  /\ dpc[d] = "post" => f \in whole
                  /\ dpc[d] = "remove" => f.item \in torn \/ f \notin disk

LEMMA FileParts ==
  /\ FileInv <=> Making /\ \A d \in Drains : Visiting(d)
  /\ FileInv' <=> Making' /\ \A d \in Drains : Visiting(d)'
BY DEF FileInv, Making, Visiting

\* A drain that stays where it is.
LEMMA VisitingKept ==
  ASSUME NEW d \in Drains, Visiting(d), dpc'[d] = dpc[d], list'[d] = list[d],
         torn \subseteq torn', whole \subseteq whole', \A f \in disk' \ disk : f \notin list[d]
  PROVE  Visiting(d)'
BY DEF Visiting, At

\* Goroutines that stay where they are, or stop to write.
LEMMA MakingKept ==
  ASSUME Making, torn \subseteq torn',
         \A i \in Items : wpc'[i] = "write" =>
            /\ wpc[i] = "write" /\ open'[i] = open[i]
            /\ open[i] \notin whole' \ whole
            /\ open[i] \in disk \ disk' => i \in torn'
  PROVE  Making'
BY DEF Making

LEMMA FileStepByWriter ==
  ASSUME TypeOK, WriterInv, ClockInv, FileInv, NEW i \in Items,
         PostLogs(i) \/ CreateFile(i) \/ WriteFile(i) \/ SpoolFails(i)
  PROVE  FileInv'
<1>0. Making /\ \A d \in Drains : Visiting(d)
  BY FileParts
<1> USE DEF disks, drains, history
<1>1. CASE PostLogs(i)
  <2>1. UNCHANGED <<open, disks, drains>> /\ torn' = torn
    BY <1>1, PostTypes DEF PostLogs
  <2>2. \A j \in Items : wpc'[j] = "write" => wpc[j] = "write"
    BY <1>1 DEF PostLogs, Done, TypeOK
  <2> QED BY <1>0, <2>1, <2>2, MakingKept, VisitingKept, FileParts
<1>2. CASE CreateFile(i)
  <2> DEFINE f == [item |-> i, nano |-> clock]
  <2>1. /\ disk' = disk \cup {f} /\ open' = [open EXCEPT ![i] = f]
        /\ wpc' = [wpc EXCEPT ![i] = "write"]
        /\ UNCHANGED <<whole, drains, torn>> /\ f.nano = clock
    BY <1>2 DEF CreateFile
  <2>2. /\ clock \in Nat
        /\ \A g \in whole : g.nano < clock
        /\ \A d \in Drains : \A g \in list[d] : g.nano < clock
    BY DEF ClockInv, TypeOK
  <2> HIDE DEF f
  <2>3. f \notin whole /\ \A d \in Drains : f \notin list[d]
    <3>1. ~(f.nano < clock)
      BY <2>1, <2>2
    <3> QED BY <2>2, <3>1
  <2>4. Making'
    <3>1. open'[i] = f /\ \A j \in Items \ {i} : open'[j] = open[j] /\ wpc'[j] = wpc[j]
      BY <2>1 DEF TypeOK
    <3> QED BY <1>0, <2>1, <2>3, <3>1 DEF Making
  <2>5. \A d \in Drains : Visiting(d)'
    BY <1>0, <2>1, <2>3, VisitingKept
  <2> QED BY <2>4, <2>5, FileParts
<1>3. CASE WriteFile(i) \/ SpoolFails(i)
  <2>1. /\ Done(i) /\ UNCHANGED <<dpc, list, torn>> /\ open' = [open EXCEPT ![i] = NoFile]
        /\ disk' \subseteq disk /\ disk \ disk' \subseteq {open[i]}
        /\ whole \subseteq whole' /\ whole' \ whole \subseteq {open[i]}
    BY <1>3 DEF WriteFile, SpoolFails
  <2>2. \A d \in Drains : Visiting(d)'
    BY <1>0, <2>1, VisitingKept
  <2>3. \A j \in Items : wpc'[j] = "write" => j # i /\ wpc[j] = "write" /\ open'[j] = open[j]
    BY <2>1 DEF Done, TypeOK
  <2>4. \A j \in Items : wpc'[j] = "write" => open[j] # open[i]
    BY <2>3, Givens DEF WriterInv
  <2>5. Making'
    BY <1>0, <2>1, <2>3, <2>4, MakingKept
  <2> QED BY <2>2, <2>5, FileParts
<1> QED BY <1>1, <1>2, <1>3

LEMMA FileStepByResult ==
  ASSUME TypeOK, WriterInv, FileInv, ResultStep
  PROVE  FileInv'
<1>0. Making /\ \A d \in Drains : Visiting(d)
  BY FileParts
<1>b. Busy /\ Result \in Items
  BY ResultIs DEF ResultStep, BeginResult, FlushEnds, PostResult, PostFenced, PostResultFailed
<1> USE DEF disks, drains, history
<1>1. /\ \A i \in Items : wpc'[i] = "write" => wpc[i] = "write"
      /\ open' = open
  BY DEF ResultStep, BeginResult, FlushEnds, PostResult, PostFenced, PostResultFailed, Done, TypeOK
<1>2. CASE BeginResult
  <2>1. /\ dpc' = [dpc EXCEPT !["loop"] = "next"] /\ list' = [list EXCEPT !["loop"] = disk]
        /\ UNCHANGED <<disks, torn>>
    BY <1>2 DEF BeginResult, StartDrain
  <2>2. Visiting("loop")'
    BY <2>1 DEF Visiting, TypeOK, Drains
  <2>3. \A d \in Drains \ {"loop"} : Visiting(d)'
    BY <1>0, <2>1, VisitingKept DEF TypeOK
  <2> QED BY <1>0, <1>1, <2>1, <2>2, <2>3, MakingKept, FileParts
<1>3. CASE FlushEnds \/ PostResultFailed \/ PostResult
  <2>1. UNCHANGED <<disks, drains>> /\ torn' = torn
    BY <1>b, <1>3, PostTypes DEF FlushEnds, PostResultFailed, PostResult
  <2> QED BY <1>0, <1>1, <2>1, MakingKept, VisitingKept, FileParts
<1>4. CASE PostFenced
  <2>1. disk' = disk \ {f \in disk \cap whole : f.item.job = Result.job}
        /\ UNCHANGED <<whole, drains, torn>>
    BY <1>4 DEF PostFenced
  <2>2. \A i \in Items : wpc[i] = "write" => open[i] \notin disk \ disk'
    BY <1>0, <2>1 DEF Making
  <2>3. disk' \subseteq disk
    BY <2>1
  <2> QED BY <1>0, <1>1, <2>1, <2>2, <2>3, MakingKept, VisitingKept, FileParts
<1> QED BY <1>2, <1>3, <1>4 DEF ResultStep

LEMMA FileStepByDrain ==
  ASSUME TypeOK, WriterInv, FileInv, NEW d \in Drains, DrainStep(d)
  PROVE  FileInv'
<1>0. Making /\ \A c \in Drains : Visiting(c)
  BY FileParts
<1> USE DEF disks, writers, history
<1>1. CASE ReplayCorrupt(d)
  <2>1. PICK f \in list[d] \ (disk \cap whole) :
           At(d, f) /\ torn' = IF f \in disk THEN torn \cup {f.item} ELSE torn
    BY <1>1, Zenon DEF ReplayCorrupt
  <2>2. UNCHANGED <<wpc, open, disk, whole, list>> /\ dpc' = [dpc EXCEPT ![d] = "remove"]
        /\ torn \subseteq torn'
    BY <1>1, <2>1 DEF ReplayCorrupt
  <2>3. Visiting(d)'
    <3>1. \A g \in list[d] : At(d, g) => g = f
      BY <2>1, AtOne
    <3> QED BY <2>1, <2>2, <3>1 DEF Visiting, At, TypeOK
  <2>4. \A c \in Drains \ {d} : Visiting(c)'
    BY <1>0, <2>2, VisitingKept DEF TypeOK
  <2> QED BY <1>0, <2>2, <2>3, <2>4, MakingKept, FileParts
<1>2. CASE RemoveCorrupt(d)
  <2>1. PICK f \in list[d] :
           /\ At(d, f)
           /\ disk' = IF RemoveOpen \/ \A i \in Items : open[i] # f
                      THEN disk \ {f} ELSE disk
           /\ list' = [list EXCEPT ![d] = @ \ {f}]
    BY <1>2, Zenon DEF RemoveCorrupt
  <2>2. UNCHANGED <<wpc, open, whole, torn>> /\ dpc' = [dpc EXCEPT ![d] = "next"]
        /\ dpc[d] = "remove"
    BY <1>2 DEF RemoveCorrupt
  <2>3. disk' \subseteq disk /\ disk \ disk' \subseteq {f}
    BY <2>1
  <2>4. f.item \in torn \/ f \notin disk
    BY <1>0, <2>1, <2>2 DEF Visiting
  <2>5. ASSUME NEW i \in Items, wpc[i] = "write", open[i] \in disk \ disk'
        PROVE  i \in torn
    <3>1. open[i] = f /\ open[i].item = i /\ f \in disk
      BY <2>3, <2>5 DEF WriterInv
    <3> QED BY <2>4, <3>1
  <2>6. Making'
    BY <1>0, <2>2, <2>5, MakingKept
  <2>7. Visiting(d)'
    BY <2>2 DEF Visiting, TypeOK
  <2>8. \A c \in Drains \ {d} : Visiting(c)'
    BY <1>0, <2>1, <2>2, <2>3, VisitingKept DEF TypeOK
  <2> QED BY <2>6, <2>7, <2>8, FileParts
<1>3. CASE ReplayAnswered(d)
  <2>1. PICK f \in list[d] :
          /\ At(d, f)
          /\ PostAnswered(f.item) \/ Post408(f.item)
          /\ disk' = disk \ {f}
          /\ list' = [list EXCEPT ![d] = @ \ {f}]
    BY <1>3, Zenon DEF ReplayAnswered
  <2>2. /\ UNCHANGED <<wpc, open, whole>> /\ dpc[d] = "post" /\ torn' = torn
        /\ dpc' = [dpc EXCEPT ![d] = "next"]
    <3>1. f.item \in Items
      BY FileIs DEF TypeOK
    <3> QED BY <1>3, <2>1, <3>1, PostTypes DEF ReplayAnswered
  <2>3. Making'
    <3>1. f \in whole
      BY <1>0, <2>1, <2>2 DEF Visiting
    <3> QED BY <1>0, <2>1, <2>2, <3>1, MakingKept DEF Making
  <2>4. Visiting(d)'
    BY <2>2 DEF Visiting, TypeOK
  <2>5. \A c \in Drains \ {d} : Visiting(c)'
    BY <1>0, <2>1, <2>2, VisitingKept DEF TypeOK
  <2> QED BY <2>3, <2>4, <2>5, FileParts
<1>4. CASE ReplayFailed(d)
  <2>1. PICK f \in list[d] : PostFailed(f.item)
    BY <1>4, Zenon DEF ReplayFailed
  <2>2. /\ UNCHANGED <<wpc, open, disk, whole>> /\ torn' = torn
        /\ list' = [list EXCEPT ![d] = {}] /\ dpc' = [dpc EXCEPT ![d] = "next"]
    BY <1>4, <2>1 DEF ReplayFailed, PostFailed
  <2>3. Visiting(d)'
    BY <2>2 DEF Visiting, TypeOK
  <2>4. \A c \in Drains \ {d} : Visiting(c)'
    BY <1>0, <2>2, VisitingKept DEF TypeOK
  <2> QED BY <1>0, <2>2, <2>3, <2>4, MakingKept, FileParts
<1>5. CASE EndDrain(d)
  <2>1. UNCHANGED <<wpc, open, disk, whole, list, torn>> /\ dpc' = [dpc EXCEPT ![d] = "off"]
    BY <1>5 DEF EndDrain
  <2>2. Visiting(d)'
    BY <2>1 DEF Visiting, TypeOK
  <2>3. \A c \in Drains \ {d} : Visiting(c)'
    BY <1>0, <2>1, VisitingKept DEF TypeOK
  <2> QED BY <1>0, <2>1, <2>2, <2>3, MakingKept, FileParts
<1>6. CASE ReadRecord(d)
  <2>1. PICK f \in disk \cap whole : At(d, f)
    BY <1>6, Zenon DEF ReadRecord
  <2>2. UNCHANGED <<wpc, open, disk, whole, list, torn>> /\ dpc' = [dpc EXCEPT ![d] = "post"]
    BY <1>6 DEF ReadRecord
  <2>3. Visiting(d)'
    <3>1. \A g \in list[d] : At(d, g) => g = f
      BY <2>1, AtOne
    <3> QED BY <2>1, <2>2, <3>1 DEF Visiting, At, TypeOK
  <2>4. \A c \in Drains \ {d} : Visiting(c)'
    BY <1>0, <2>2, VisitingKept DEF TypeOK
  <2> QED BY <1>0, <2>2, <2>3, <2>4, MakingKept, FileParts
<1> QED BY <1>1, <1>2, <1>3, <1>4, <1>5, <1>6 DEF DrainStep

LEMMA FileStep == TypeOK /\ WriterInv /\ ClockInv /\ FileInv /\ [Next]_vars => FileInv'
<1> SUFFICES ASSUME TypeOK, WriterInv, ClockInv, FileInv, [Next]_vars PROVE FileInv'
  OBVIOUS
<1>0. Making /\ \A c \in Drains : Visiting(c)
  BY FileParts
<1>1. UNCHANGED <<wpc, open, disk, whole, torn, dpc, list>> => FileInv'
  BY <1>0, MakingKept, VisitingKept, FileParts
<1>2. CASE BeatDrains
  <2>1. /\ dpc' = [dpc EXCEPT !["beat"] = "next"] /\ list' = [list EXCEPT !["beat"] = disk]
        /\ UNCHANGED <<wpc, open, disk, whole, torn>>
    BY <1>2 DEF BeatDrains, StartDrain, writers, disks, history
  <2>2. Visiting("beat")'
    BY <2>1 DEF Visiting, TypeOK, Drains
  <2>3. \A d \in Drains \ {"beat"} : Visiting(d)'
    BY <1>0, <2>1, VisitingKept DEF TypeOK
  <2> QED BY <1>0, <2>1, <2>2, <2>3, MakingKept, FileParts
<1>3. CASE Restart
  <2>1. /\ dpc' = [d \in Drains |-> "off"]
        /\ \A i \in Items : wpc'[i] = IF Begun(i) THEN "done" ELSE wpc[i]
    BY <1>3, RestartIs
  <2>2. \A i \in Items : wpc'[i] # "write"
    BY <2>1 DEF WriterInv
  <2> QED BY <2>1, <2>2, FileParts DEF Making, Visiting
<1>4. CASE \E j \in Jobs : ServerEnds(j)
  BY <1>1, <1>4 DEF ServerEnds, writers, disks, drains, history
<1>5. CASE UNCHANGED vars
  BY <1>1, <1>5 DEF vars, writers, disks, drains, history
<1> QED BY <1>2, <1>3, <1>4, <1>5, FileStepByWriter, FileStepByResult, FileStepByDrain
        DEF Next, SpoolStep

-----------------------------------------------------------------------------
(* What a drain still has to visit.                                         *)

Listed(d) == \A r \in list[d] : r.item.src = "loop" =>
                \A f \in disk :
                    /\ f.item.job = r.item.job /\ f.item.src # "loop"
                    /\ f.nano < r.nano /\ f.item \notin torn
                    => f \in list[d]

\* A drain that visits only files that are gone then, or were half written, that
\* gives up the others too, or that stays where it is beside a younger file.
LEMMA ListedKept ==
  ASSUME NEW d \in Drains, Listed(d), torn \subseteq torn',
         \/ list'[d] = {}
         \/ /\ list'[d] \subseteq list[d]
            /\ \A f \in list[d] \ list'[d] : f \notin disk' \/ f.item \in torn',
         \A f \in disk' \ disk : \A r \in list[d] : ~(f.nano < r.nano)
  PROVE  Listed(d)'
BY DEF Listed

LEMMA ListedByDrain ==
  ASSUME TypeOK, FileInv, NEW d \in Drains, DrainStep(d), \A c \in Drains : Listed(c)
  PROVE  \A c \in Drains : Listed(c)'
<1> USE DEF disks, writers, history
<1>1. disk' \subseteq disk /\ torn \subseteq torn'
  BY DEF DrainStep, ReplayCorrupt, RemoveCorrupt, ReadRecord, ReplayAnswered, ReplayFailed,
         EndDrain, PostAnswered, PostFailed, Post408
<1>2. ASSUME NEW c \in Drains, list'[c] = list[c] PROVE Listed(c)'
  BY <1>1, <1>2, ListedKept
<1>3. CASE ReplayAnswered(d)
  <2>1. PICK f \in list[d] : disk' = disk \ {f} /\ list' = [list EXCEPT ![d] = @ \ {f}]
    BY <1>3, Zenon DEF ReplayAnswered
  <2>2. list'[d] \subseteq list[d] /\ list[d] \ list'[d] \subseteq {f} /\ f \notin disk'
    BY <2>1 DEF TypeOK
  <2>3. Listed(d)'
    BY <1>1, <2>2, ListedKept
  <2>4. \A c \in Drains \ {d} : list'[c] = list[c]
    BY <2>1 DEF TypeOK
  <2> QED BY <1>2, <2>3, <2>4
<1>4. CASE RemoveCorrupt(d)
  <2>1. PICK f \in list[d] : At(d, f) /\ list' = [list EXCEPT ![d] = @ \ {f}]
    BY <1>4, Zenon DEF RemoveCorrupt
  <2>2. f.item \in torn \/ f \notin disk
    BY <1>4, <2>1 DEF RemoveCorrupt, FileInv
  <2>3. list'[d] \subseteq list[d] /\ list[d] \ list'[d] \subseteq {f}
    BY <2>1 DEF TypeOK
  <2>4. Listed(d)'
    BY <1>1, <2>2, <2>3, ListedKept
  <2>5. \A c \in Drains \ {d} : list'[c] = list[c]
    BY <2>1 DEF TypeOK
  <2> QED BY <1>2, <2>4, <2>5
<1>5. CASE ReplayFailed(d)
  <2>1. list' = [list EXCEPT ![d] = {}]
    BY <1>5 DEF ReplayFailed
  <2>2. list'[d] = {} /\ \A c \in Drains \ {d} : list'[c] = list[c]
    BY <2>1 DEF TypeOK
  <2>3. Listed(d)'
    BY <2>2 DEF Listed
  <2> QED BY <1>2, <2>2, <2>3
<1>6. CASE ReplayCorrupt(d) \/ ReadRecord(d) \/ EndDrain(d)
  <2>1. list' = list
    BY <1>6 DEF ReplayCorrupt, ReadRecord, EndDrain
  <2> QED BY <1>2, <2>1
<1> QED BY <1>3, <1>4, <1>5, <1>6 DEF DrainStep

LEMMA ListStep == TypeOK /\ WriterInv /\ ClockInv /\ FileInv /\ ListInv /\ [Next]_vars => ListInv'
<1> SUFFICES ASSUME TypeOK, WriterInv, ClockInv, FileInv, ListInv, [Next]_vars PROVE ListInv'
  OBVIOUS
<1> USE DEF disks, drains, writers, history
<1>0. \A d \in Drains : Listed(d)
  BY DEF ListInv, Listed
<1>f. (\A d \in Drains : Listed(d)') => ListInv'
  BY DEF ListInv, Listed
<1>a. ASSUME disk' \subseteq disk, torn \subseteq torn', list' = list PROVE ListInv'
  BY <1>0, <1>a, <1>f, ListedKept
<1>1. ASSUME NEW d \in Drains, DrainStep(d) PROVE ListInv'
  BY <1>0, <1>1, <1>f, ListedByDrain
<1>2. ASSUME NEW d \in Drains, StartDrain(d), UNCHANGED <<disk, torn>> PROVE ListInv'
  <2>1. Listed(d)'
    BY <1>2 DEF StartDrain, Listed, TypeOK
  <2>2. \A c \in Drains \ {d} : Listed(c)'
    <3>1. \A c \in Drains \ {d} : list'[c] = list[c]
      BY <1>2 DEF StartDrain, TypeOK
    <3> QED BY <1>0, <1>2, <3>1, ListedKept
  <2> QED BY <1>f, <2>1, <2>2
<1>3. ASSUME NEW i \in Items, CreateFile(i) PROVE ListInv'
  <2>1. PICK f : f.nano = clock /\ disk' = disk \cup {f}
    BY <1>3 DEF CreateFile
  <2>2. UNCHANGED <<list, torn>>
    BY <1>3 DEF CreateFile
  <2>3. clock \in Nat /\ \A d \in Drains : \A r \in list[d] : r.nano \in Nat /\ r.nano < clock
    BY FileIs DEF ClockInv, TypeOK
  <2>4. \A g \in disk' \ disk : \A d \in Drains : \A r \in list[d] : ~(g.nano < r.nano)
    BY <2>1, <2>3
  <2> QED BY <1>0, <1>f, <2>2, <2>4, ListedKept
<1>4. ASSUME NEW i \in Items, PostLogs(i) \/ WriteFile(i) \/ SpoolFails(i) PROVE ListInv'
  <2>1. disk' \subseteq disk /\ torn' = torn /\ list' = list
    BY <1>4 DEF PostLogs, WriteFile, SpoolFails, PostAnswered, PostFailed, Post408
  <2> QED BY <1>a, <2>1
<1>5. CASE FlushEnds \/ PostResult \/ PostFenced \/ PostResultFailed
  <2>1. disk' \subseteq disk /\ torn' = torn /\ list' = list
    BY <1>5 DEF FlushEnds, PostResult, PostFenced, PostResultFailed, PostAnswered, PostFailed,
                Post408
  <2> QED BY <1>a, <2>1
<1>6. CASE BeginResult
  BY <1>2, <1>6 DEF BeginResult, Drains
<1>7. CASE BeatDrains
  BY <1>2, <1>7 DEF BeatDrains, Drains
<1>8. CASE Restart
  <2>1. \A d \in Drains : list'[d] = {}
    BY <1>8, RestartIs
  <2> QED BY <2>1 DEF ListInv
<1>9. CASE (\E j \in Jobs : ServerEnds(j)) \/ UNCHANGED vars
  BY <1>a, <1>9 DEF ServerEnds, vars
<1> QED BY <1>1, <1>3, <1>4, <1>5, <1>6, <1>7, <1>8, <1>9 DEF Next, SpoolStep, ResultStep

-----------------------------------------------------------------------------
(* One file for a payload, and its writer.                                  *)

\* Files only leave the directory, and a goroutine that stops to write is done
\* or has lost its payload.
LEMMA HomeKept ==
  ASSUME TypeOK, KeptInv, disk' \subseteq disk, whole' = whole, excused \subseteq excused',
         \A i \in Items : wpc[i] = "done" => wpc'[i] = "done",
         \A i \in Items : wpc[i] = "write" =>
            (wpc'[i] = "write" /\ open'[i] = open[i]) \/ i \in excused',
         \A i \in excused' \ excused : wpc'[i] = "done"
  PROVE  KeptInv'
<1>1. \A i \in excused : i \in Items
  BY DEF TypeOK
<1>2. \A f \in disk \cup whole : f.item \in Items
  BY FileIs DEF TypeOK
<1>3. \A i \in excused' : Released(i)'
  BY <1>1 DEF KeptInv, Released
<1>4. ASSUME NEW f \in disk' \cup whole' PROVE Single(f)' /\ Home(f)'
  <2>1. f \in disk \cup whole /\ f.item \in Items
    BY <1>2
  <2>2. Single(f)'
    BY <2>1 DEF KeptInv, Single
  <2>3. Home(f)'
    BY <2>1 DEF KeptInv, Home, Released
  <2> QED BY <2>2, <2>3
<1> QED BY <1>3, <1>4 DEF KeptInv

LEMMA KeptByWriter ==
  ASSUME TypeOK, WriterInv, FileInv, KeptInv, NEW i \in Items,
         PostLogs(i) \/ CreateFile(i) \/ WriteFile(i) \/ SpoolFails(i)
  PROVE  KeptInv'
<1> USE DEF disks, drains, history
<1>0. \A f \in disk \cup whole : f.item \in Items
  BY FileIs DEF TypeOK
<1>1. CASE PostLogs(i)
  <2>1. UNCHANGED <<open, disk, whole, excused>> /\ wpc[i] = "ready"
    BY <1>1 DEF PostLogs, PostAnswered, PostFailed, Post408
  <2>2. \A j \in Items \ {i} : wpc'[j] = wpc[j]
    BY <1>1 DEF PostLogs, Done, TypeOK
  <2>3. \A j \in Items : wpc[j] \in {"done", "write"} => wpc'[j] = wpc[j]
    BY <2>1, <2>2
  <2> QED BY <2>1, <2>3, HomeKept
<1>2. CASE CreateFile(i)
  <2>0. PICK f : f = [item |-> i, nano |-> clock]
    OBVIOUS
  <2>1. /\ wpc[i] = "create" /\ wpc' = [wpc EXCEPT ![i] = "write"]
        /\ disk' = disk \cup {f} /\ open' = [open EXCEPT ![i] = f]
        /\ whole' = whole /\ excused' = excused /\ f.item = i
    BY <1>2, <2>0 DEF CreateFile
  <2>2. \A g \in disk \cup whole : g.item # i
    BY <2>1 DEF KeptInv, Home, Released
  <2>3. /\ wpc'[i] = "write" /\ open'[i] = f
        /\ \A j \in Items \ {i} : wpc'[j] = wpc[j] /\ open'[j] = open[j]
    BY <2>1 DEF TypeOK
  <2>4. \A j \in excused' : Released(j)'
    BY <2>1, <2>3 DEF KeptInv, Released, TypeOK
  <2>5. f \notin disk \cup whole /\ \A g \in disk' \cup whole' : g = f \/ g \in disk \cup whole
    BY <2>1, <2>2
  <2>6. Single(f)' /\ Home(f)'
    BY <2>1, <2>2, <2>3, <2>5 DEF Single, Home
  <2>7. ASSUME NEW g \in disk \cup whole PROVE Single(g)' /\ Home(g)'
    <3>1. Single(g) /\ Home(g) /\ g.item \in Items \ {i}
      BY <1>0, <2>2 DEF KeptInv
    <3>2. Single(g)'
      BY <2>1, <2>5, <3>1 DEF Single
    <3>3. Home(g)'
      BY <2>1, <2>3, <3>1 DEF Home, Released
    <3> QED BY <3>2, <3>3
  <2> QED BY <2>4, <2>5, <2>6, <2>7 DEF KeptInv
<1>3. CASE WriteFile(i)
  <2>1. /\ wpc[i] = "write" /\ disk' = disk /\ excused' = excused
        /\ whole' = whole \cup ({open[i]} \cap disk)
        /\ open' = [open EXCEPT ![i] = NoFile] /\ wpc' = [wpc EXCEPT ![i] = "done"]
    BY <1>3 DEF WriteFile, Done
  <2>2. /\ wpc'[i] = "done" /\ \A j \in Items \ {i} : wpc'[j] = wpc[j] /\ open'[j] = open[j]
    BY <2>1 DEF TypeOK
  <2>3. open[i].item = i
    BY <2>1 DEF WriterInv
  <2>4. \A j \in excused' : Released(j)'
    BY <2>1, <2>2 DEF KeptInv, Released, TypeOK
  <2>5. ASSUME NEW g \in disk' \cup whole' PROVE Single(g)' /\ Home(g)'
    <3>1. g \in disk \cup whole /\ g.item \in Items
      BY <1>0, <2>1
    <3>2. Single(g)'
      BY <2>1, <3>1 DEF KeptInv, Single
    <3>3. CASE g.item = i
      <4>1. Released(g.item)'
        BY <2>2, <3>3 DEF Released
      <4>2. g \in whole \/ (g \in disk /\ (g.item \in excused' \/ g = open[i]))
        BY <2>1, <3>1, <3>3 DEF KeptInv, Home
      <4> QED BY <2>1, <3>2, <4>1, <4>2 DEF Home
    <3>4. CASE g.item # i
      <4>1. g \in whole' <=> g \in whole
        BY <2>1, <2>3, <3>4
      <4> QED BY <2>1, <2>2, <3>1, <3>2, <3>4, <4>1 DEF KeptInv, Home, Released
    <3> QED BY <3>3, <3>4
  <2> QED BY <2>4, <2>5 DEF KeptInv
<1>4. CASE SpoolFails(i)
  <2>1. /\ disk' \subseteq disk /\ whole' = whole /\ excused' = excused \cup {i}
        /\ open' = [open EXCEPT ![i] = NoFile] /\ wpc' = [wpc EXCEPT ![i] = "done"]
    BY <1>4 DEF SpoolFails, Done
  <2>2. wpc'[i] = "done" /\ \A j \in Items \ {i} : wpc'[j] = wpc[j] /\ open'[j] = open[j]
    BY <2>1 DEF TypeOK
  <2> QED BY <2>1, <2>2, HomeKept
<1> QED BY <1>1, <1>2, <1>3, <1>4

LEMMA KeptStep == TypeOK /\ WriterInv /\ FileInv /\ KeptInv /\ [Next]_vars => KeptInv'
<1> SUFFICES ASSUME TypeOK, WriterInv, FileInv, KeptInv, [Next]_vars PROVE KeptInv'
  OBVIOUS
<1> USE DEF disks, drains, writers, history
<1>1. ASSUME NEW d \in Drains, DrainStep(d) PROVE KeptInv'
  <2>1. disk' \subseteq disk /\ UNCHANGED <<wpc, open, whole, excused>>
    BY <1>1 DEF DrainStep, ReplayCorrupt, RemoveCorrupt, ReadRecord, ReplayAnswered, ReplayFailed,
                EndDrain, PostAnswered, PostFailed, Post408
  <2> QED BY <2>1, HomeKept
<1>2. CASE ResultStep
  <2>1. Busy /\ Result \in Items
    BY <1>2, ResultIs DEF ResultStep, BeginResult, FlushEnds, PostResult, PostFenced,
                          PostResultFailed
  <2>2. /\ disk' \subseteq disk /\ UNCHANGED <<open, whole, excused>>
        /\ wpc[Result] \notin {"done", "write"}
    BY <1>2 DEF ResultStep, BeginResult, FlushEnds, PostResult, PostFenced, PostResultFailed,
                PostAnswered, PostFailed, Post408
  <2>3. \A j \in Items \ {Result} : wpc'[j] = wpc[j]
    BY <1>2, <2>1 DEF ResultStep, BeginResult, FlushEnds, PostResult, PostFenced,
                      PostResultFailed, Done, TypeOK
  <2> QED BY <2>2, <2>3, HomeKept
<1>3. CASE Restart
  <2>1. PICK swept \in SUBSET disk :
              /\ disk' = disk \ swept
              /\ excused' = excused \cup {f.item : f \in swept}
                                    \cup {i \in Items : Begun(i) /\ wpc[i] # "done"}
    BY <1>3, RestartIs
  <2>2. whole' = whole /\ \A i \in Items : wpc'[i] = IF Begun(i) THEN "done" ELSE wpc[i]
    BY <1>3, RestartIs
  <2>3. \A i \in Items : wpc[i] \in {"done", "write"} => wpc'[i] = "done"
    BY <2>2 DEF WriterInv
  <2>4. \A f \in swept : f.item \in Items /\ wpc'[f.item] = "done"
    <3>1. \A f \in swept : f.item \in Items
      BY FileIs DEF TypeOK
    <3> QED BY <2>3, <3>1 DEF KeptInv, Home, Released
  <2>5. \A i \in Items : wpc[i] = "write" => i \in excused'
    BY <2>1 DEF WriterInv
  <2>6. \A i \in excused' \ excused : wpc'[i] = "done"
    BY <2>1, <2>2, <2>4
  <2> QED BY <2>1, <2>2, <2>3, <2>5, <2>6, HomeKept
<1>4. CASE BeatDrains \/ (\E j \in Jobs : ServerEnds(j)) \/ UNCHANGED vars
  <2>1. UNCHANGED <<wpc, open, disk, whole, excused>>
    BY <1>4 DEF BeatDrains, ServerEnds, vars
  <2> QED BY <2>1, HomeKept
<1> QED BY <1>1, <1>2, <1>3, <1>4, KeptByWriter DEF Next, SpoolStep

-----------------------------------------------------------------------------
(* Every payload is accounted for.                                          *)

Settled(i)   == i \in answered \cup timedOut \cup excused \cup torn
Accounted(i) == Settled(i) \/ OnDisk(i)

\* What was accounted for stays so: a record that leaves the disk is answered,
\* given up, swept, or was taken for corrupt.
LEMMA AccountedKept ==
  ASSUME TypeOK, WriterInv, FileInv, [Next]_vars, NEW i \in Items, Accounted(i)
  PROVE  Accounted(i)'
<1> USE DEF disks, drains, writers, history
<1>0. ASSUME answered \subseteq answered', timedOut \subseteq timedOut', excused \subseteq excused',
             torn \subseteq torn', whole \subseteq whole',
             \A f \in disk \cap whole : f \notin disk' => Settled(f.item)'
      PROVE  Accounted(i)'
  <2>1. CASE Settled(i)
    BY <1>0, <2>1 DEF Accounted, Settled
  <2>2. ASSUME NEW f \in disk \cap whole, f.item = i PROVE Accounted(i)'
    BY <1>0, <2>2 DEF Accounted, OnDisk
  <2> QED BY <2>1, <2>2 DEF Accounted, OnDisk
<1>1. ASSUME NEW d \in Drains, DrainStep(d) PROVE Accounted(i)'
  <2>1. CASE ReplayCorrupt(d)
    <3>1. torn \subseteq torn'
      BY <2>1 DEF ReplayCorrupt
    <3> QED BY <1>0, <2>1, <3>1 DEF ReplayCorrupt
  <2>2. CASE RemoveCorrupt(d)
    <3>1. PICK f \in list[d] :
             /\ At(d, f)
             /\ disk' = IF RemoveOpen \/ \A w \in Items : open[w] # f
                        THEN disk \ {f} ELSE disk
      BY <2>2, Zenon DEF RemoveCorrupt
    <3>2. f.item \in torn \/ f \notin disk
      BY <2>2, <3>1 DEF RemoveCorrupt, FileInv
    <3>3. disk \ disk' \subseteq {f}
      BY <3>1
    <3>4. UNCHANGED <<whole, answered, timedOut, excused, torn>>
      BY <2>2 DEF RemoveCorrupt
    <3> QED BY <1>0, <3>2, <3>3, <3>4 DEF Settled
  <2>3. CASE ReplayAnswered(d)
    <3>1. PICK f \in list[d] : /\ PostAnswered(f.item) \/ Post408(f.item)
                               /\ disk' = disk \ {f}
      BY <2>3, Zenon DEF ReplayAnswered
    <3>2. /\ answered \subseteq answered' /\ timedOut \subseteq timedOut'
          /\ excused' = excused /\ torn' = torn /\ whole' = whole
          /\ f.item \in answered' \cup timedOut'
      BY <2>3, <3>1 DEF ReplayAnswered, PostAnswered, Post408
    <3> QED BY <1>0, <3>1, <3>2 DEF Settled
  <2>4. CASE ReplayFailed(d)
    <3>1. UNCHANGED history /\ UNCHANGED disks
      BY <2>4, Zenon DEF ReplayFailed, PostFailed
    <3> QED BY <1>0, <3>1
  <2>5. CASE ReadRecord(d) \/ EndDrain(d)
    BY <1>0, <2>5 DEF ReadRecord, EndDrain
  <2> QED BY <1>1, <2>1, <2>2, <2>3, <2>4, <2>5 DEF DrainStep
<1>2. ASSUME NEW w \in Items, PostLogs(w) \/ CreateFile(w) \/ WriteFile(w) \/ SpoolFails(w)
      PROVE  Accounted(i)'
  <2>1. CASE PostLogs(w)
    BY <1>0, <2>1 DEF PostLogs, PostAnswered, PostFailed, Post408
  <2>2. CASE CreateFile(w) \/ WriteFile(w)
    BY <1>0, <2>2 DEF CreateFile, WriteFile
  <2>3. CASE SpoolFails(w)
    <3>1. open[w] \notin disk \cap whole
      BY <2>3, Givens DEF SpoolFails, WriterInv, FileInv, TypeOK
    <3> QED BY <1>0, <2>3, <3>1 DEF SpoolFails
  <2> QED BY <1>2, <2>1, <2>2, <2>3
<1>3. CASE ResultStep
  <2>1. CASE BeginResult \/ FlushEnds
    BY <1>0, <2>1 DEF BeginResult, FlushEnds
  <2>2. CASE PostResult \/ PostResultFailed
    BY <1>0, <2>2 DEF PostResult, PostResultFailed, PostAnswered, PostFailed, Post408
  <2>3. CASE PostFenced
    BY <1>0, <2>3 DEF PostFenced, Settled
  <2> QED BY <1>3, <2>1, <2>2, <2>3 DEF ResultStep
<1>4. CASE Restart
  <2>1. PICK swept \in SUBSET disk :
          /\ disk' = disk \ swept
          /\ excused' = excused \cup {f.item : f \in swept}
                                \cup {j \in Items : Begun(j) /\ wpc[j] # "done"}
    BY <1>4, RestartIs
  <2>2. UNCHANGED <<whole, answered, timedOut, torn>>
    BY <1>4, RestartIs
  <2>3. \A f \in disk : f \notin disk' => f.item \in excused'
    BY <2>1
  <2>4. excused \subseteq excused'
    BY <2>1
  <2> QED BY <1>0, <2>2, <2>3, <2>4 DEF Settled
<1>5. CASE BeatDrains \/ (\E j \in Jobs : ServerEnds(j)) \/ UNCHANGED vars
  BY <1>0, <1>5 DEF BeatDrains, ServerEnds, vars
<1> QED BY <1>1, <1>2, <1>3, <1>4, <1>5 DEF Next, SpoolStep

\* A goroutine leaves its payload answered, given up, or on the disk.
LEMMA FinishedAccounted ==
  ASSUME TypeOK, WriterInv, FileInv, [Next]_vars, NEW i \in Items,
         wpc[i] # "done", wpc'[i] = "done"
  PROVE  Accounted(i)'
<1> USE DEF disks, drains, writers, history
<1>1. ASSUME NEW v \in Items, PostLogs(v) PROVE Accounted(i)'
  <2>1. v = i /\ wpc' # [wpc EXCEPT ![v] = "create"]
    BY <1>1 DEF PostLogs, Done, TypeOK
  <2>2. PostAnswered(i) \/ Post408(i)
    BY <1>1, <2>1 DEF PostLogs
  <2> QED BY <2>2 DEF PostAnswered, Post408, Accounted, Settled
<1>2. ASSUME NEW v \in Items, CreateFile(v) PROVE Accounted(i)'
  BY <1>2 DEF CreateFile, TypeOK
<1>3. ASSUME NEW v \in Items, WriteFile(v) \/ SpoolFails(v) PROVE Accounted(i)'
  <2>1. v = i
    BY <1>3 DEF WriteFile, SpoolFails, Done, TypeOK
  <2>2. CASE SpoolFails(i)
    BY <2>2 DEF SpoolFails, Accounted, Settled
  <2>3. CASE WriteFile(i)
    <3>1. wpc[i] = "write" /\ whole' = whole \cup ({open[i]} \cap disk) /\ disk' = disk
          /\ torn' = torn
      BY <2>3 DEF WriteFile
    <3>2. open[i].item = i /\ (open[i] \in disk \/ i \in torn)
      BY <3>1 DEF WriterInv, FileInv
    <3>3. CASE open[i] \in disk
      <4>1. open[i] \in disk' \cap whole' /\ open[i].item = i
        BY <3>1, <3>2, <3>3
      <4> QED BY <4>1 DEF Accounted, OnDisk
    <3>4. CASE i \in torn
      BY <3>1, <3>4 DEF Accounted, Settled
    <3> QED BY <3>2, <3>3, <3>4
  <2> QED BY <1>3, <2>1, <2>2, <2>3
<1>4. CASE BeginResult \/ FlushEnds \/ PostResultFailed
  BY <1>4 DEF BeginResult, FlushEnds, PostResultFailed, TypeOK
<1>5. CASE PostResult \/ PostFenced
  <2>1. i = Result
    BY <1>5 DEF PostResult, PostFenced, Done, TypeOK
  <2>2. i \in answered' \/ i \in timedOut'
    BY <1>5, <2>1 DEF PostResult, PostFenced, PostAnswered, Post408
  <2> QED BY <2>2 DEF Accounted, Settled
<1>6. CASE Restart
  BY <1>6, RestartIs DEF Accounted, Settled
<1>7. ASSUME NEW d \in Drains, DrainStep(d) PROVE Accounted(i)'
  BY <1>7 DEF DrainStep, ReplayCorrupt, RemoveCorrupt, ReadRecord, ReplayAnswered,
              ReplayFailed, EndDrain
<1>8. CASE BeatDrains \/ (\E j \in Jobs : ServerEnds(j)) \/ UNCHANGED vars
  BY <1>8 DEF BeatDrains, ServerEnds, vars
<1> QED BY <1>1, <1>2, <1>3, <1>4, <1>5, <1>6, <1>7, <1>8, Zenon DEF Next, SpoolStep, ResultStep

LEMMA AccountedStep ==
  TypeOK /\ WriterInv /\ FileInv /\ EveryPayloadAccounted /\ [Next]_vars => EveryPayloadAccounted'
<1> SUFFICES ASSUME TypeOK, WriterInv, FileInv, EveryPayloadAccounted, [Next]_vars,
                    NEW i \in Items, Released(i)'
             PROVE  Accounted(i)'
  BY DEF EveryPayloadAccounted, Accounted, Settled
<1>1. CASE Released(i)
  <2>1. Accounted(i)
    BY <1>1 DEF EveryPayloadAccounted, Accounted, Settled
  <2> QED BY <2>1, AccountedKept
<1>2. CASE ~Released(i)
  BY <1>2, FinishedAccounted DEF Released
<1> QED BY <1>1, <1>2

-----------------------------------------------------------------------------
(* The spool keeps the outbox's promise.                                    *)

Lost == timedOut \cup excused \cup torn

PlaceKept == \A i \in Items : Place(i)' = Place(i)

\* How a step shows as one of the outbox.
LEMMA NothingSeen ==
  ASSUME PlaceKept, answered' = answered, Lost' = Lost
  PROVE  [Promise!Next]_Promise!vars
BY DEF PlaceKept, Lost, Promise!vars

LEMMA AnswerSeen ==
  ASSUME NEW S \in SUBSET Items, S # {}, answered' = answered \cup S, Lost' = Lost,
         \A i \in Items : IF i \in S THEN Place(i)' = "gone" ELSE Place(i)' = Place(i)
  PROVE  [Promise!Next]_Promise!vars
<1>1. Promise!Leave(S)
  BY DEF Promise!Leave
<1>2. Promise!Answer(S)
  BY <1>1 DEF Promise!Answer, Lost
<1> QED BY <1>2 DEF Promise!Next

LEMMA LossSeen ==
  ASSUME NEW S \in SUBSET Items, S # {}, answered' = answered, Lost' = Lost \cup S,
         \A i \in Items : Place(i)' = Place(i) \/ (i \in S /\ Place(i)' = "gone")
  PROVE  [Promise!Next]_Promise!vars
<1> DEFINE G == {i \in S : Place(i)' = "gone"}
<1>1. Promise!Leave(G)
  BY DEF Promise!Leave
<1>2. \E H \in SUBSET S : Promise!Leave(H)
  <2>1. G \in SUBSET S
    OBVIOUS
  <2> HIDE DEF G
  <2> QED BY <1>1, <2>1
<1>3. Promise!Lose(S)
  BY <1>2 DEF Promise!Lose, Lost
<1> QED BY <1>3 DEF Promise!Next

\* The same of a single payload.
OthersKept(i) == \A j \in Items \ {i} : Place(j)' = Place(j)

LEMMA OneAnswered ==
  ASSUME NEW i \in Items, answered' = answered \cup {i}, Lost' = Lost,
         Place(i)' = "gone", OthersKept(i)
  PROVE  [Promise!Next]_Promise!vars
<1>1. PICK S : S = {i}
  OBVIOUS
<1>2. \A j \in Items : IF j \in S THEN Place(j)' = "gone" ELSE Place(j)' = Place(j)
  BY <1>1 DEF OthersKept
<1>3. S \in SUBSET Items /\ S # {} /\ answered' = answered \cup S
  BY <1>1
<1> QED BY <1>2, <1>3, AnswerSeen

LEMMA OneLost ==
  ASSUME NEW i \in Items, answered' = answered, Lost' = Lost \cup {i},
         Place(i)' \in {Place(i), "gone"}, OthersKept(i)
  PROVE  [Promise!Next]_Promise!vars
<1>1. PICK S : S = {i}
  OBVIOUS
<1>2. \A j \in Items : Place(j)' = Place(j) \/ (j \in S /\ Place(j)' = "gone")
  BY <1>1 DEF OthersKept
<1>3. S \in SUBSET Items /\ S # {} /\ Lost' = Lost \cup S
  BY <1>1
<1> QED BY <1>2, <1>3, LossSeen

LEMMA KeepSeen ==
  ASSUME NEW i \in Items, Place(i) = "pending", Place(i)' = "kept", OthersKept(i),
         answered' = answered, Lost' = Lost
  PROVE  [Promise!Next]_Promise!vars
<1>1. Promise!Keep(i)
  BY DEF Promise!Keep, Lost, OthersKept
<1> QED BY <1>1 DEF Promise!Next

\* What a step does of the two facts a place is made of.
DoneSame == \A i \in Items : wpc'[i] = "done" <=> wpc[i] = "done"

LEMMA PlaceSame ==
  ASSUME DoneSame, disk' \cap whole' = disk \cap whole
  PROVE  PlaceKept
<1>1. \A i \in Items : OnDisk(i)' <=> OnDisk(i)
  BY DEF OnDisk
<1>2. \A i \in Items : Released(i)' <=> Released(i)
  BY DEF DoneSame, Released
<1> QED BY <1>1, <1>2 DEF PlaceKept, Place

\* A file that is whole is the only one of its payload.
LEMMA DiskLess ==
  ASSUME TypeOK, KeptInv, NEW F \in SUBSET disk, disk' = disk \ F, whole' = whole
  PROVE  \A i \in Items : OnDisk(i)' <=> OnDisk(i) /\ i \notin {f.item : f \in F \cap whole}
BY DEF OnDisk, KeptInv, Single

\* The writer of a whole file is done with its payload.
LEMMA WholeIs ==
  ASSUME TypeOK, KeptInv, NEW f \in whole
  PROVE  f.item \in Items /\ wpc[f.item] = "done"
<1>1. f.item \in Items
  BY FileIs DEF TypeOK
<1> QED BY <1>1 DEF KeptInv, Home, Released

\* The payload of a goroutine that is not done is pending.
LEMMA PendingIs ==
  ASSUME TypeOK, KeptInv, NEW i \in Items, wpc[i] # "done"
  PROVE  ~OnDisk(i) /\ Place(i) = "pending"
<1>1. ~OnDisk(i)
  BY DEF OnDisk, KeptInv, Home, Released
<1> QED BY <1>1 DEF Place, Released

\* The goroutine is done with its payload.
Leaves(i) == wpc[i] # "done" /\ wpc' = [wpc EXCEPT ![i] = "done"]

LEMMA OneReleased ==
  ASSUME TypeOK, NEW i \in Items, Leaves(i)
  PROVE  \A j \in Items : Released(j)' <=> Released(j) \/ j = i
BY DEF TypeOK, Leaves, Released

\* It leaves without a file of its payload.
LEMMA LeavesGone ==
  ASSUME TypeOK, KeptInv, NEW i \in Items, Leaves(i), disk' \cap whole' = disk \cap whole
  PROVE  Place(i)' = "gone" /\ OthersKept(i)
<1>1. \A j \in Items : Released(j)' <=> Released(j) \/ j = i
  BY OneReleased
<1>2. \A j \in Items : OnDisk(j)' <=> OnDisk(j)
  BY DEF OnDisk
<1>3. ~OnDisk(i)
  BY PendingIs DEF Leaves
<1> QED BY <1>1, <1>2, <1>3 DEF Place, OthersKept

LEMMA InitPromises == Init => Promise!Init
BY DEF Init, Promise!Init, Place, OnDisk, Released

\* It leaves with an answer, or a 408.
LEMMA AnsweredAndGone ==
  ASSUME TypeOK, KeptInv, NEW i \in Items, Leaves(i), UNCHANGED disks,
         PostAnswered(i) \/ Post408(i)
  PROVE  [Promise!Next]_Promise!vars
<1>1. Place(i)' = "gone" /\ OthersKept(i)
  BY LeavesGone DEF disks
<1>2. CASE PostAnswered(i)
  <2>1. answered' = answered \cup {i} /\ Lost' = Lost
    BY <1>2 DEF PostAnswered, Lost
  <2> QED BY <1>1, <2>1, OneAnswered
<1>3. CASE Post408(i)
  <2>1. answered' = answered /\ Lost' = Lost \cup {i}
    BY <1>3 DEF Post408, Lost
  <2> QED BY <1>1, <2>1, OneLost
<1> QED BY <1>2, <1>3

\* It gives its payload up.
LEMMA LostAndGone ==
  ASSUME TypeOK, KeptInv, NEW i \in Items, Leaves(i), disk' \cap whole' = disk \cap whole,
         answered' = answered, Lost' = Lost \cup {i}
  PROVE  [Promise!Next]_Promise!vars
<1>1. Place(i)' = "gone" /\ OthersKept(i)
  BY LeavesGone
<1> QED BY <1>1, OneLost

\* It finishes a file that is still there.
LEMMA WrittenAndKept ==
  ASSUME TypeOK, WriterInv, KeptInv, NEW i \in Items, WriteFile(i), open[i] \in disk
  PROVE  [Promise!Next]_Promise!vars
<1>1. /\ wpc[i] = "write" /\ disk' = disk /\ whole' = whole \cup {open[i]}
      /\ answered' = answered /\ Lost' = Lost /\ Leaves(i)
  BY DEF WriteFile, Done, Leaves, Lost
<1>2. open[i].item = i /\ Place(i) = "pending"
  BY <1>1, PendingIs DEF WriterInv
<1>3. OnDisk(i)' /\ \A j \in Items \ {i} : OnDisk(j)' <=> OnDisk(j)
  <2>1. open[i] \in disk' \cap whole'
    BY <1>1
  <2>2. OnDisk(i)'
    BY <1>2, <2>1, Zenon DEF OnDisk
  <2>3. ASSUME NEW j \in Items \ {i} PROVE OnDisk(j)' <=> OnDisk(j)
    BY <1>1, <1>2 DEF OnDisk
  <2> QED BY <2>2, <2>3
<1>4. \A j \in Items : Released(j)' <=> Released(j) \/ j = i
  BY <1>1, OneReleased
<1>5. Place(i)' = "kept" /\ OthersKept(i)
  BY <1>3, <1>4 DEF Place, OthersKept
<1> QED BY <1>1, <1>2, <1>5, KeepSeen

LEMMA WriterKeepsPromise ==
  ASSUME TypeOK, WriterInv, ClockInv, FileInv, KeptInv, NEW i \in Items,
         PostLogs(i) \/ CreateFile(i) \/ WriteFile(i) \/ SpoolFails(i)
  PROVE  [Promise!Next]_Promise!vars
<1> USE DEF disks, drains, history
<1>1. CASE PostLogs(i)
  <2>1. wpc[i] = "ready" /\ UNCHANGED disks
    BY <1>1 DEF PostLogs
  <2>2. CASE (PostAnswered(i) \/ Post408(i)) /\ Done(i)
    BY <2>1, <2>2, AnsweredAndGone DEF Leaves, Done
  <2>3. CASE PostFailed(i) /\ wpc' = [wpc EXCEPT ![i] = "create"]
    <3>1. DoneSame
      BY <2>1, <2>3 DEF DoneSame, TypeOK
    <3>2. PlaceKept
      BY <2>1, <3>1, PlaceSame
    <3>3. answered' = answered /\ Lost' = Lost
      BY <2>3 DEF PostFailed, Lost
    <3> QED BY <3>2, <3>3, NothingSeen
  <2> QED BY <1>1, <2>2, <2>3 DEF PostLogs
<1>2. CASE CreateFile(i)
  <2>1. PICK f : f.nano = clock /\ disk' = disk \cup {f} /\ whole' = whole
    BY <1>2 DEF CreateFile
  <2>2. f \notin whole
    <3>1. clock \in Nat /\ \A g \in whole : g.nano < clock
      BY DEF ClockInv, TypeOK
    <3> QED BY <2>1, <3>1
  <2>3. DoneSame
    BY <1>2 DEF CreateFile, DoneSame, TypeOK
  <2>4. disk' \cap whole' = disk \cap whole
    BY <2>1, <2>2
  <2>5. PlaceKept
    BY <2>3, <2>4, PlaceSame
  <2>6. answered' = answered /\ Lost' = Lost
    BY <1>2 DEF CreateFile, Lost
  <2> QED BY <2>5, <2>6, NothingSeen
<1>3. CASE WriteFile(i)
  <2>1. /\ wpc[i] = "write" /\ disk' = disk /\ whole' = whole \cup ({open[i]} \cap disk)
        /\ answered' = answered /\ Lost' = Lost /\ Leaves(i)
    BY <1>3 DEF WriteFile, Done, Leaves, Lost
  <2>2. CASE open[i] \in disk
    BY <1>3, <2>2, WrittenAndKept
  <2>3. CASE open[i] \notin disk
    <3>1. disk' \cap whole' = disk \cap whole
      BY <2>1, <2>3
    <3>2. Lost' = Lost \cup {i}
      BY <2>1, <2>3 DEF FileInv, Lost
    <3> QED BY <2>1, <3>1, <3>2, LostAndGone
  <2> QED BY <2>2, <2>3
<1>4. CASE SpoolFails(i)
  <2>1. /\ wpc[i] \in {"create", "write"} /\ disk' = disk \ {open[i]} /\ whole' = whole
        /\ Leaves(i)
    BY <1>4 DEF SpoolFails, Done, Leaves
  <2>2. disk' \cap whole' = disk \cap whole
    <3>1. open[i] \notin disk \cap whole
      BY <2>1, Givens DEF WriterInv, FileInv, TypeOK
    <3> QED BY <2>1, <3>1
  <2>3. answered' = answered /\ Lost' = Lost \cup {i}
    BY <1>4 DEF SpoolFails, Lost
  <2> QED BY <2>1, <2>2, <2>3, LostAndGone
<1> QED BY <1>1, <1>2, <1>3, <1>4, Zenon

LEMMA ResultKeepsPromise ==
  ASSUME TypeOK, WriterInv, KeptInv, ResultStep
  PROVE  [Promise!Next]_Promise!vars
<1> USE DEF disks, drains, history
<1>0. Busy /\ Result \in Items
  BY ResultIs DEF ResultStep, BeginResult, FlushEnds, PostResult, PostFenced, PostResultFailed
<1>1. CASE BeginResult \/ FlushEnds \/ PostResultFailed
  <2>1. UNCHANGED <<disk, whole>> /\ wpc[Result] # "done"
        /\ \E pc \in {"flush", "post", "create"} : wpc' = [wpc EXCEPT ![Result] = pc]
    BY <1>1 DEF BeginResult, FlushEnds, PostResultFailed
  <2>2. DoneSame
    BY <1>0, <2>1 DEF DoneSame, TypeOK
  <2>3. PlaceKept
    BY <2>1, <2>2, PlaceSame
  <2>4. answered' = answered /\ Lost' = Lost
    BY <1>1 DEF BeginResult, FlushEnds, PostResultFailed, PostFailed, Lost
  <2> QED BY <2>3, <2>4, NothingSeen
<1>2. CASE PostResult
  <2>1. Leaves(Result) /\ UNCHANGED disks /\ (PostAnswered(Result) \/ Post408(Result))
    BY <1>2 DEF PostResult, Leaves, Done
  <2> QED BY <1>0, <2>1, AnsweredAndGone
<1>3. CASE PostFenced
  <2>0. PICK i : i = Result
    OBVIOUS
  <2>a. PICK dropped : dropped = {f \in disk \cap whole : f.item.job = Result.job}
    OBVIOUS
  <2>b. PICK S : S = {i} \cup {f.item : f \in dropped}
    OBVIOUS
  <2>1. /\ Leaves(i) /\ whole' = whole /\ disk' = disk \ dropped
        /\ answered' = answered \cup S /\ Lost' = Lost
    BY <1>3, <2>0, <2>a, <2>b DEF PostFenced, Leaves, Done, Lost
  <2>2. i \in Items /\ ~OnDisk(i)
    BY <1>0, <2>0, <2>1, PendingIs DEF Leaves
  <2>3. \A f \in dropped : f.item \in Items /\ Released(f.item)
    BY <2>a, WholeIs DEF Released
  <2>4. \A j \in Items : OnDisk(j)' <=> OnDisk(j) /\ j \notin {f.item : f \in dropped}
    <3>1. dropped \cap whole = dropped /\ dropped \in SUBSET disk
      BY <2>a
    <3>2. \A j \in Items : OnDisk(j)' <=> OnDisk(j) /\ j \notin {f.item : f \in dropped \cap whole}
      BY <2>1, <3>1, DiskLess
    <3> QED BY <3>1, <3>2
  <2>5. \A j \in Items : Released(j)' <=> Released(j) \/ j = i
    BY <2>1, <2>2, OneReleased
  <2>6. ASSUME NEW j \in Items
        PROVE  IF j \in S THEN Place(j)' = "gone" ELSE Place(j)' = Place(j)
    <3>1. CASE j = i
      BY <2>2, <2>4, <2>5, <2>b, <3>1 DEF Place
    <3>2. ASSUME NEW f \in dropped, j = f.item PROVE Place(j)' = "gone"
      BY <2>3, <2>4, <2>5, <3>2 DEF Place
    <3>3. CASE j \notin S
      BY <2>4, <2>5, <2>b, <3>3 DEF Place
    <3> QED BY <2>b, <3>1, <3>2, <3>3
  <2>7. S \in SUBSET Items /\ S # {}
    BY <2>2, <2>3, <2>b
  <2> QED BY <2>1, <2>6, <2>7, AnswerSeen
<1> QED BY <1>1, <1>2, <1>3 DEF ResultStep

\* A whole file is removed, if it is still there.
LEMMA RemovedAndGone ==
  ASSUME TypeOK, KeptInv, NEW f \in whole, disk' = disk \ {f}, whole' = whole, wpc' = wpc
  PROVE  f.item \in Items /\ Place(f.item)' = "gone" /\ OthersKept(f.item)
<1>1. \A i \in Items : Released(i)' <=> Released(i)
  BY DEF Released
<1>2. f.item \in Items /\ Released(f.item)
  BY WholeIs DEF Released
<1>3. ~\E g \in disk' \cap whole' : g.item = f.item
  BY DEF KeptInv, Single
<1>4. \A i \in Items \ {f.item} : OnDisk(i)' <=> OnDisk(i)
  BY DEF OnDisk
<1> QED BY <1>1, <1>2, <1>3, <1>4 DEF Place, OnDisk, OthersKept

LEMMA DrainKeepsPromise ==
  ASSUME TypeOK, WriterInv, FileInv, KeptInv, NEW d \in Drains, DrainStep(d)
  PROVE  [Promise!Next]_Promise!vars
<1> USE DEF disks, writers, history
<1>0. UNCHANGED <<wpc, whole>>
  BY DEF DrainStep, ReplayCorrupt, RemoveCorrupt, ReadRecord, ReplayAnswered,
              ReplayFailed, EndDrain
<1>a. ASSUME disk' \cap whole' = disk \cap whole PROVE PlaceKept
  BY <1>0, <1>a, PlaceSame DEF DoneSame
<1>1. CASE ReplayCorrupt(d)
  <2>1. PICK f \in list[d] : f \notin disk \cap whole
                              /\ torn' = IF f \in disk THEN torn \cup {f.item} ELSE torn
    BY <1>1, Zenon DEF ReplayCorrupt
  <2>2. UNCHANGED <<disk, whole, answered, timedOut, excused>>
    BY <1>1 DEF ReplayCorrupt
  <2>3. PlaceKept
    BY <1>a, <2>2
  <2>4. CASE f.item \in Lost \/ f \notin disk
    BY <2>1, <2>2, <2>3, <2>4, NothingSeen DEF Lost
  <2>5. CASE f.item \notin Lost /\ f \in disk
    <3>1. f.item \in Items
      BY FileIs DEF TypeOK
    <3>2. answered' = answered /\ Lost' = Lost \cup {f.item}
      BY <2>1, <2>2, <2>5 DEF Lost
    <3>3. Place(f.item)' = Place(f.item) /\ OthersKept(f.item)
      BY <2>3, <3>1 DEF PlaceKept, OthersKept
    <3> QED BY <3>1, <3>2, <3>3, OneLost
  <2> QED BY <2>4, <2>5
<1>2. CASE RemoveCorrupt(d)
  <2>1. PICK f \in list[d] :
          /\ At(d, f)
          /\ disk' = IF RemoveOpen \/ \A i \in Items : open[i] # f THEN disk \ {f} ELSE disk
    BY <1>2, Zenon DEF RemoveCorrupt
  <2>2. answered' = answered /\ Lost' = Lost /\ dpc[d] = "remove"
    BY <1>2 DEF RemoveCorrupt, Lost
  <2>3. CASE f \notin disk \cap whole \/ disk' = disk
    <3>1. PlaceKept
      BY <1>0, <1>a, <2>1, <2>3
    <3> QED BY <2>2, <3>1, NothingSeen
  <2>4. CASE f \in disk \cap whole /\ disk' = disk \ {f}
    <3>1. f.item \in Lost
      BY <2>1, <2>2, <2>4 DEF FileInv, Lost
    <3>2. f.item \in Items /\ Place(f.item)' = "gone" /\ OthersKept(f.item)
      BY <1>0, <2>4, RemovedAndGone
    <3>3. Lost' = Lost \cup {f.item}
      BY <2>2, <3>1
    <3> QED BY <2>2, <3>2, <3>3, OneLost
  <2> QED BY <2>1, <2>3, <2>4
<1>3. CASE ReplayAnswered(d)
  <2>0. PICK f \in list[d] : /\ At(d, f) /\ dpc[d] = "post"
                             /\ PostAnswered(f.item) \/ Post408(f.item)
                             /\ disk' = disk \ {f}
    BY <1>3, Zenon DEF ReplayAnswered
  <2>1. f \in whole
    BY <2>0 DEF FileInv
  <2>2. f.item \in Items /\ Place(f.item)' = "gone" /\ OthersKept(f.item)
    BY <1>0, <2>0, <2>1, RemovedAndGone
  <2>3. CASE PostAnswered(f.item)
    <3>1. answered' = answered \cup {f.item} /\ Lost' = Lost
      BY <2>3 DEF PostAnswered, Lost
    <3> QED BY <2>2, <3>1, OneAnswered
  <2>4. CASE Post408(f.item)
    <3>1. answered' = answered /\ Lost' = Lost \cup {f.item}
      BY <2>4 DEF Post408, Lost
    <3> QED BY <2>2, <3>1, OneLost
  <2> QED BY <2>0, <2>3, <2>4
<1>4. CASE ReadRecord(d) \/ ReplayFailed(d) \/ EndDrain(d)
  <2>1. UNCHANGED <<disk, whole, answered>> /\ Lost' = Lost
    <3>1. CASE ReplayFailed(d)
      <4>1. PICK i : PostFailed(i)
        BY <3>1, Zenon DEF ReplayFailed
      <4>2. UNCHANGED disks
        BY <3>1 DEF ReplayFailed
      <4> QED BY <4>1, <4>2 DEF PostFailed, Lost
    <3>2. CASE ReadRecord(d) \/ EndDrain(d)
      BY <3>2 DEF ReadRecord, EndDrain, Lost
    <3> QED BY <1>4, <3>1, <3>2
  <2>2. PlaceKept
    BY <1>a, <2>1
  <2> QED BY <2>1, <2>2, NothingSeen
<1> QED BY <1>1, <1>2, <1>3, <1>4 DEF DrainStep

\* The payloads a crash takes from their goroutines.
AtHand == {i \in Items : Begun(i) /\ wpc[i] # "done"}

LEMMA RestartKeepsPromise ==
  ASSUME TypeOK, WriterInv, KeptInv, Restart
  PROVE  [Promise!Next]_Promise!vars
<1>1. PICK swept \in SUBSET disk :
        /\ disk' = disk \ swept
        /\ excused' = excused \cup {f.item : f \in swept} \cup AtHand
  BY RestartIs DEF AtHand
<1>2. /\ UNCHANGED <<whole, answered, timedOut, torn>>
      /\ \A i \in Items : wpc'[i] = IF Begun(i) THEN "done" ELSE wpc[i]
  BY RestartIs
<1>3. PICK S : S = {f.item : f \in swept \cap whole} \cup AtHand
  OBVIOUS
<1>4. \A f \in swept \cap whole : f.item \in Items /\ Released(f.item)
  BY WholeIs DEF Released
<1>5. \A i \in AtHand : i \in Items /\ ~OnDisk(i)
  BY PendingIs DEF AtHand
<1>6. \A i \in Items : OnDisk(i)' <=> OnDisk(i) /\ i \notin {f.item : f \in swept \cap whole}
  BY <1>1, <1>2, DiskLess
<1>7. \A i \in Items : Released(i)' <=> Released(i) \/ i \in AtHand
  BY <1>2 DEF AtHand, Released, WriterInv
<1>8. \A f \in swept : f.item \in excused \cup S
  <2> SUFFICES ASSUME NEW f \in swept, f.item \notin excused, f \notin whole PROVE f.item \in AtHand
    BY <1>3
  <2>1. f.item \in Items
    BY FileIs DEF TypeOK
  <2>2. wpc[f.item] = "write"
    BY DEF KeptInv, Home
  <2> QED BY <2>1, <2>2 DEF AtHand, WriterInv
<1>9. answered' = answered /\ Lost' = Lost \cup S
  <2>1. excused' = excused \cup S
    BY <1>1, <1>3, <1>8
  <2> QED BY <1>2, <2>1 DEF Lost
<1>10. ASSUME NEW i \in Items, i \in S PROVE Place(i)' = "gone"
  <2>1. CASE i \in AtHand
    BY <1>5, <1>6, <1>7, <2>1 DEF Place
  <2>2. CASE i \in {f.item : f \in swept \cap whole}
    BY <1>4, <1>6, <1>7, <2>2 DEF Place
  <2> QED BY <1>3, <1>10, <2>1, <2>2
<1>11. ASSUME NEW i \in Items, i \notin S PROVE Place(i)' = Place(i)
  BY <1>3, <1>6, <1>7, <1>11 DEF Place
<1>12. S \in SUBSET Items
  BY <1>3, <1>4, <1>5
<1>13. CASE S = {}
  BY <1>9, <1>11, <1>13, NothingSeen DEF PlaceKept
<1>14. CASE S # {}
  <2>1. \A i \in Items : Place(i)' = Place(i) \/ (i \in S /\ Place(i)' = "gone")
    BY <1>10, <1>11, <1>12
  <2> QED BY <1>9, <1>12, <1>14, <2>1, LossSeen
<1> QED BY <1>13, <1>14

LEMMA StepKeepsPromise == SpoolInv /\ [Next]_vars => [Promise!Next]_Promise!vars
<1> SUFFICES ASSUME SpoolInv, [Next]_vars PROVE [Promise!Next]_Promise!vars
  OBVIOUS
<1>0. TypeOK /\ WriterInv /\ ClockInv /\ FileInv /\ KeptInv
  BY DEF SpoolInv
<1>1. CASE BeatDrains \/ (\E j \in Jobs : ServerEnds(j)) \/ UNCHANGED vars
  <2>1. UNCHANGED <<wpc, disk, whole, answered, timedOut, excused, torn>>
    BY <1>1 DEF BeatDrains, ServerEnds, vars, writers, disks, history
  <2>2. PlaceKept
    BY <2>1, PlaceSame DEF DoneSame
  <2> QED BY <2>1, <2>2, NothingSeen DEF Lost
<1> QED BY <1>0, <1>1, WriterKeepsPromise, ResultKeepsPromise, DrainKeepsPromise,
           RestartKeepsPromise DEF Next, SpoolStep

-----------------------------------------------------------------------------
(* The theorems.                                                            *)

\* A drain that is at a result has no older logs of its job left to replay.
LEMMA ResultLast ==
  ASSUME TypeOK, ListInv, NEW d \in Drains, NEW f \in Files, At(d, f), f.item.src = "loop",
         NEW g \in disk, g.item.job = f.item.job, g.item.src # "loop",
         g.nano < f.nano, g.item \notin torn
  PROVE  FALSE
<1>1. g \in list[d] \ {f} /\ g \in Files
  BY DEF At, ListInv, TypeOK
<1>2. Before(f, g)
  BY <1>1 DEF At
<1>3. f.item.job \in Nat /\ g.item.job \in Nat
  BY <1>1, FileIs
<1> QED BY <1>2, <1>3 DEF Before, Kind

Late == \A r \in disk \cap whole :
          /\ r.item.src = "loop"
          /\ r.item \in received' \ received
          => ~\E f \in disk \cap whole : /\ f.item.job = r.item.job /\ f.item.src # "loop"
                                        /\ f.nano < r.nano /\ f.item \notin torn

LEMMA LastStep == SpoolInv /\ [Next]_vars => [Late]_vars
<1> SUFFICES ASSUME SpoolInv, Next, NEW r \in disk \cap whole, r.item.src = "loop",
                    r.item \in received' \ received,
                    NEW g \in disk \cap whole, g.item.job = r.item.job, g.item.src # "loop",
                    g.nano < r.nano, g.item \notin torn
             PROVE  FALSE
  BY DEF Late
<1> USE DEF disks, drains, writers, history
<1>0. TypeOK /\ ListInv /\ KeptInv /\ received' # received
  BY DEF SpoolInv
<1>r. r.item \in Items /\ wpc[r.item] = "done"
  BY <1>0, WholeIs
<1>1. ASSUME NEW i \in Items, PostLogs(i) PROVE FALSE
  <2>1. r.item = i
    BY <1>0, <1>1, PostTypes DEF PostLogs
  <2> QED BY <1>1, <1>r, <2>1 DEF PostLogs
<1>2. CASE PostResult \/ PostResultFailed
  <2>1. Result \in Items /\ wpc[Result] = "post"
    BY <1>0, <1>2, ResultIs DEF PostResult, PostResultFailed
  <2>2. r.item = Result
    BY <1>0, <1>2, <2>1, PostTypes DEF PostResult, PostResultFailed
  <2> QED BY <1>r, <2>1, <2>2
<1>3. ASSUME NEW d \in Drains, ReplayAnswered(d) \/ ReplayFailed(d) PROVE FALSE
  <2>1. PICK f \in list[d] :
           At(d, f) /\ (PostAnswered(f.item) \/ PostFailed(f.item) \/ Post408(f.item))
    BY <1>3, Zenon DEF ReplayAnswered, ReplayFailed
  <2>2. f \in Files /\ f.item \in Items
    BY <1>0, FileIs DEF TypeOK
  <2>3. r.item = f.item
    BY <1>0, <2>1, <2>2, PostTypes
  <2>4. dpc[d] = "post" /\ FileInv
    BY <1>3 DEF ReplayAnswered, ReplayFailed, SpoolInv
  <2>5. f \in whole
    BY <2>1, <2>4 DEF FileInv
  <2>6. f = r
    BY <1>0, <2>3, <2>5 DEF KeptInv, Single
  <2> QED BY <1>0, <2>1, <2>2, <2>6, ResultLast
<1>4. CASE PostFenced \/ BeginResult \/ FlushEnds
  BY <1>0, <1>4 DEF PostFenced, BeginResult, FlushEnds
<1>5. ASSUME NEW i \in Items, CreateFile(i) \/ WriteFile(i) \/ SpoolFails(i) PROVE FALSE
  BY <1>0, <1>5 DEF CreateFile, WriteFile, SpoolFails
<1>6. ASSUME NEW d \in Drains,
             ReplayCorrupt(d) \/ RemoveCorrupt(d) \/ ReadRecord(d) \/ EndDrain(d)
      PROVE  FALSE
  BY <1>0, <1>6 DEF ReplayCorrupt, RemoveCorrupt, ReadRecord, EndDrain
<1>7. CASE BeatDrains \/ Restart \/ (\E j \in Jobs : ServerEnds(j))
  BY <1>0, <1>7 DEF BeatDrains, Restart, ServerEnds
<1> QED BY <1>1, <1>2, <1>3, <1>4, <1>5, <1>6, <1>7, Zenon
        DEF Next, SpoolStep, ResultStep, DrainStep

\* The writers, the clock, the files and the drains always fit together, pumps
\* that Run gave up included (runner.go:391-400, client.go:444-575).
THEOREM SpoolInvariance == Spec => []SpoolInv
<1>1. SpoolInv /\ [Next]_vars => SpoolInv'
  BY StepTypes, WriterStepInv, ClockStep, FileStep, ListStep, KeptStep, AccountedStep, Zenon
     DEF SpoolInv
<1> QED BY <1>1, InitSpoolInv, PTL DEF Spec

\* Every variable of the spool keeps its type (client.go, Spool and DrainSpool).
THEOREM SpoolTypeCorrect == Spec => []TypeOK
<1>1. SpoolInv => TypeOK
  BY DEF SpoolInv
<1> QED BY <1>1, SpoolInvariance, PTL

\* A payload leaves the agent's hands only answered, or given up for a reason
\* that can be named: any number of goroutines at one directory without a lock,
\* of any number of jobs and restarts, lose nothing else (client.go:444-575).
THEOREM PayloadsAccounted == Spec => []EveryPayloadAccounted
<1>1. SpoolInv => EveryPayloadAccounted
  BY DEF SpoolInv
<1> QED BY <1>1, SpoolInvariance, PTL

\* A result the server records from the spool leaves no older logs of its job
\* behind there, whichever drain replays it and whatever a pump that Run gave up
\* spools meanwhile (client.go, DrainSpool).
THEOREM ReplayedResultsLast == Spec => ReplayedResultsComeLast
BY LastStep, SpoolInvariance, PTL DEF Spec, ReplayedResultsComeLast, Late

\* The spool implements the outbox: a payload becomes durable at most once,
\* leaves the agent in the step that answers it or at a loss with a reason, and
\* never turns up again, whichever goroutine acts (client.go:380-609).
THEOREM SpoolImplementsOutbox == Spec => ImplementsOutbox
BY InitPromises, StepKeepsPromise, SpoolInvariance, PTL DEF Spec, ImplementsOutbox, Promise!Spec
=============================================================================
