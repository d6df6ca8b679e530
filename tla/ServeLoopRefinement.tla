------------------------- MODULE ServeLoopRefinement -------------------------
(***************************************************************************)
(* The serve loop implements the job lifecycle, for every set of jobs and  *)
(* all bounds.  Each step of the loop, its heartbeat, the server and the   *)
(* script is one step of JobLifecycle or leaves its variables alone; the   *)
(* guards of the abstract steps follow from the inductive invariant.       *)
(***************************************************************************)
EXTENDS ServeLoopProofs

\* A step that leaves the server's view of the jobs, the scripts and the
\* claims' history alone is a stutter of the lifecycle.
LEMMA QuietStep ==
  ASSUME UNCHANGED <<status, token, spawns, exit, expired, cancelHit, stopMet>>
  PROVE  UNCHANGED Lifecycle!vars
BY DEF Lifecycle!vars

\* A result that reaches the server under a made claim, and is honest about it,
\* concludes the claim or is fenced (PostArrives, DrainSpool).
LEMMA ResultConcludes ==
  ASSUME TypeOK, NEW c \in Claims, NEW v \in Verdicts, Honest(c, v),
         ResultArrives(c, v),
         UNCHANGED <<token, spawns, exit, expired, cancelHit, stopMet>>
  PROVE  [Lifecycle!Next]_Lifecycle!vars
<1>1. CASE Accepts(c)
  <2>1. Lifecycle!Truthful(c, v)
    BY DEF Honest, Lifecycle!Truthful
  <2>2. Lifecycle!Current(c) /\ Lifecycle!Live(c[1])
    BY <1>1 DEF Accepts, Live, Lifecycle!Current, Lifecycle!Live
  <2>3. status' = [status EXCEPT ![c[1]] = v]
    BY <1>1 DEF ResultArrives
  <2>4. Lifecycle!Conclude(c)
    BY <2>1, <2>2, <2>3 DEF Lifecycle!Conclude, Lifecycle!Verdicts, Verdicts
  <2> QED BY <2>4 DEF Lifecycle!Next, Lifecycle!Claims, Claims
<1>2. CASE ~Accepts(c)
  BY <1>2, QuietStep DEF ResultArrives
<1> QED BY <1>1, <1>2

\* DrainSpool, of the heartbeat or of ReportResult: a replayed record is a
\* result of its claim; a replay that does not arrive changes nothing.
LEMMA ReplayConcludes ==
  ASSUME TypeOK, ReportInv, NEW r \in spool,
         ReplayAnswered(r) \/ ReplayFailed(r),
         UNCHANGED <<token, spawns, exit, expired, cancelHit, stopMet>>
  PROVE  [Lifecycle!Next]_Lifecycle!vars
<1>1. r.claim \in Claims /\ r.status \in Verdicts /\ Honest(r.claim, r.status)
  BY DEF TypeOK, Records, ReportInv
<1>2. CASE ResultArrives(r.claim, r.status)
  BY <1>1, <1>2, ResultConcludes
<1>3. CASE UNCHANGED status
  BY <1>3, QuietStep
<1> QED BY <1>2, <1>3 DEF ReplayAnswered, ReplayFailed

\* killTree ends the script of the claim, or nothing.
LEMMA KillEndsScript ==
  ASSUME TypeOK, TreeInv, NEW c \in Claims, KillTree(c),
         UNCHANGED <<status, token, spawns, expired, cancelHit, stopMet>>
  PROVE  [Lifecycle!Next]_Lifecycle!vars
<1>1. CASE UNCHANGED exit
  BY <1>1, QuietStep
<1>2. CASE c \in alive /\ exit' = [exit EXCEPT ![c] = "killed"]
  <2>1. spawns[c] = 1 /\ exit[c] = "none"
    BY <1>2 DEF TreeInv
  <2>2. Lifecycle!EndScript(c)
    BY <1>2, <2>1 DEF Lifecycle!EndScript
  <2> QED BY <2>2 DEF Lifecycle!Next, Lifecycle!Claims, Claims
<1> QED BY <1>1, <1>2 DEF KillTree

\* A job is held exactly inside process, and it is a claim.
LEMMA HeldClaim ==
  ASSUME TypeOK, HeldInv, pc \notin {"idle", "down"}
  PROVE  job \in Claims /\ job # NoClaim
BY DEF TypeOK, HeldInv

\* NewServe: no job is claimed yet.
LEMMA InitRefines == Init => Lifecycle!Init
BY DEF Init, Lifecycle!Init, Lifecycle!Claims, Claims

-----------------------------------------------------------------------------
\* Steps of the server and of the claim loop up to the script's start.
LEMMA ClaimStepRefines ==
  ASSUME IInv, ServerStep \/ ClaimStep \/ Spawn
  PROVE  [Lifecycle!Next]_Lifecycle!vars
<1> USE DEF loop, world, history
<1>1. TypeOK /\ HeldInv /\ ReportInv
  BY DEF IInv
<1>2. ASSUME NEW j \in Jobs, RequestCancel(j) PROVE [Lifecycle!Next]_Lifecycle!vars
  BY <1>2, QuietStep DEF RequestCancel
<1>3. ASSUME NEW j \in Jobs, LeaseExpire(j) PROVE [Lifecycle!Next]_Lifecycle!vars
  <2>1. Lifecycle!Requeue(j)
    BY <1>3 DEF LeaseExpire, Lifecycle!Requeue
  <2> QED BY <2>1 DEF Lifecycle!Next
<1>4. ASSUME NEW j \in Jobs, Watchdog(j) PROVE [Lifecycle!Next]_Lifecycle!vars
  <2>1. Lifecycle!Lose(j)
    BY <1>4 DEF Watchdog, Lifecycle!Lose
  <2> QED BY <2>1 DEF Lifecycle!Next
<1>5. ASSUME NEW j \in Jobs, Claim(j) \/ ClaimLost(j)
      PROVE  [Lifecycle!Next]_Lifecycle!vars
  <2>1. Lifecycle!Claim(j)
    BY <1>5 DEF Claim, ClaimLost, Assign, Lifecycle!Claim
  <2> QED BY <2>1 DEF Lifecycle!Next
<1>6. CASE Spawn
  <2>1. pc = "prepare" /\ spawns[job] = 0 /\ job[2] <= token[job[1]]
    BY <1>1, <1>6, HeldClaim DEF Spawn, HeldInv
  <2>2. job \in Claims /\ ~Concluded(job)
    BY <1>1, <2>1, HeldClaim DEF ReportInv
  <2>3. spawns' = [spawns EXCEPT ![job] = 1]
    BY <1>1, <1>6, <2>1, <2>2 DEF Spawn, TypeOK
  <2>4. ~Lifecycle!Concluded(job)
    BY <2>2 DEF Concluded, Verdicts, Lifecycle!Concluded, Lifecycle!Current, Lifecycle!Verdicts
  <2>5. UNCHANGED <<status, token, exit, expired, cancelHit, stopMet>>
    BY <1>6 DEF Spawn, server
  <2>6. Lifecycle!StartScript(job)
    BY <2>1, <2>3, <2>4, <2>5 DEF Lifecycle!StartScript
  <2> QED BY <2>2, <2>6 DEF Lifecycle!Next, Lifecycle!Claims, Claims
<1> QED BY <1>2, <1>3, <1>4, <1>5, <1>6 DEF ServerStep, ClaimStep

\* Steps of Runner.Run after the script's start, and the script's own end.
LEMMA RunStepRefines ==
  ASSUME IInv, RunStep \/ Deadline \/ (\E c \in Claims : ScriptExit(c) \/ HeirsExit(c))
  PROVE  [Lifecycle!Next]_Lifecycle!vars
<1> USE DEF server, world, history
<1>1. TypeOK /\ HeldInv /\ TreeInv
  BY DEF IInv
<1>2. CASE SpawnFails \/ NotifyRefused \/ Reaped \/ ChildWaited \/ GraceOver \/ Judge
  <2>1. UNCHANGED <<status, token, spawns, exit, expired, cancelHit, stopMet>>
    BY <1>2 DEF SpawnFails, NotifyRefused, Reaped, ChildWaited, GraceOver, Judge
  <2> QED BY <2>1, QuietStep
<1>3. CASE Spawn
  BY <1>3, ClaimStepRefines
<1>4. CASE NotifyAccepted \/ NotifyUnanswered
  <2>1. pc = "notify" /\ job \in Claims /\ spawns[job] = 1
    BY <1>1, <1>4, HeldClaim DEF NotifyAccepted, NotifyUnanswered, HeldInv, InRun
  <2>2. UNCHANGED <<token, spawns, exit, expired, cancelHit, stopMet>>
    BY <1>4 DEF NotifyAccepted, NotifyUnanswered
  <2>3. \/ UNCHANGED status
        \/ Accepts(job) /\ status' = [status EXCEPT ![job[1]] = "running"]
    BY <1>4 DEF NotifyAccepted, NotifyUnanswered
  <2>4. CASE UNCHANGED status
    BY <2>2, <2>4, QuietStep
  <2>5. CASE Accepts(job) /\ status' = [status EXCEPT ![job[1]] = "running"]
    <3>1. Lifecycle!ConfirmRunning(job)
      BY <2>1, <2>2, <2>5 DEF Accepts, Live, Lifecycle!ConfirmRunning,
         Lifecycle!Current, Lifecycle!Live
    <3> QED BY <2>1, <3>1 DEF Lifecycle!Next, Lifecycle!Claims, Claims
  <2> QED BY <2>3, <2>4, <2>5
<1>5. CASE Abort \/ RunCtxDone \/ PipesDrained
  <2>1. KillTree(job) /\ pc \notin {"idle", "down"}
    BY <1>5 DEF Abort, RunCtxDone, PipesDrained
  <2>2. UNCHANGED <<status, token, spawns, expired, cancelHit, stopMet>>
    BY <1>5 DEF Abort, RunCtxDone, PipesDrained
  <2> QED BY <1>1, <2>1, <2>2, HeldClaim, KillEndsScript
<1>6. CASE Deadline
  <2>1. pc \in InRun /\ job \in Claims /\ spawns[job] = 1
    BY <1>1, <1>6, HeldClaim DEF Deadline, HeldInv, InRun
  <2>2. Lifecycle!Expire(job)
    BY <1>6, <2>1 DEF Deadline, Lifecycle!Expire
  <2> QED BY <2>1, <2>2 DEF Lifecycle!Next, Lifecycle!Claims, Claims
<1>7. ASSUME NEW c \in Claims, ScriptExit(c) PROVE [Lifecycle!Next]_Lifecycle!vars
  <2>1. spawns[c] = 1 /\ exit[c] = "none"
    BY <1>1, <1>7 DEF ScriptExit, TreeInv
  <2>2. Lifecycle!EndScript(c)
    BY <1>7, <2>1 DEF ScriptExit, Lifecycle!EndScript
  <2> QED BY <2>2 DEF Lifecycle!Next, Lifecycle!Claims, Claims
<1>8. ASSUME NEW c \in Claims, HeirsExit(c) PROVE [Lifecycle!Next]_Lifecycle!vars
  BY <1>8, QuietStep DEF HeirsExit
<1> QED BY <1>2, <1>3, <1>4, <1>5, <1>6, <1>7, <1>8 DEF RunStep

\* Steps of process after Run has returned: only a result that arrives counts.
LEMMA ReportStepRefines ==
  ASSUME IInv, ReportStep
  PROVE  [Lifecycle!Next]_Lifecycle!vars
<1> USE DEF world, history
<1>1. TypeOK /\ HeldInv /\ ReportInv
  BY DEF IInv
<1>2. CASE CheckShutdown \/ CheckCancel \/ FlushGone \/ FlushDone \/ PostRefused
  <2>1. UNCHANGED <<status, token, spawns, exit, expired, cancelHit, stopMet>>
    BY <1>2 DEF CheckShutdown, CheckCancel, FlushGone, FlushDone, PostRefused, server
  <2> QED BY <2>1, QuietStep
<1>3. CASE FlushAnswered \/ FlushFailed
  <2>1. UNCHANGED <<token, spawns, exit, expired, cancelHit, stopMet>>
    BY <1>3 DEF FlushAnswered, FlushFailed
  <2>2. PICK r \in todo \cap spool : ReplayAnswered(r) \/ ReplayFailed(r)
    BY <1>3 DEF FlushAnswered, FlushFailed
  <2> QED BY <1>1, <2>1, <2>2, ReplayConcludes
<1>4. CASE PostArrives \/ PostUnanswered
  <2>1. UNCHANGED <<token, spawns, exit, expired, cancelHit, stopMet>>
    BY <1>4 DEF PostArrives, PostUnanswered
  <2>2. job \in Claims /\ verdict \in Verdicts /\ Honest(job, verdict)
    BY <1>1, <1>4, HeldClaim DEF PostArrives, PostUnanswered, ReportInv, Reporting
  <2>3. ResultArrives(job, verdict) \/ UNCHANGED status
    BY <1>4 DEF PostArrives, PostUnanswered
  <2>4. CASE ResultArrives(job, verdict)
    BY <1>1, <2>1, <2>2, <2>4, ResultConcludes
  <2>5. CASE UNCHANGED status
    BY <2>1, <2>5, QuietStep
  <2> QED BY <2>3, <2>4, <2>5
<1> QED BY <1>2, <1>3, <1>4 DEF ReportStep

\* Steps of the heartbeat loop: a replay may conclude a claim, and a cancel is
\* a word to the agent.
LEMMA BeatStepRefines ==
  ASSUME IInv, BeatStep
  PROVE  [Lifecycle!Next]_Lifecycle!vars
<1> USE DEF world
<1>1. TypeOK /\ ReportInv
  BY DEF IInv
<1>2. CASE Heartbeat \/ BeatGone
  <2>1. UNCHANGED <<status, token, spawns, exit, expired, cancelHit, stopMet>>
    BY <1>2 DEF Heartbeat, BeatGone, server, history
  <2> QED BY <2>1, QuietStep
<1>3. CASE BeatAnswered \/ BeatFailed
  <2>1. UNCHANGED <<token, spawns, exit, expired, cancelHit, stopMet>>
    BY <1>3 DEF BeatAnswered, BeatFailed, history
  <2>2. PICK r \in htodo \cap spool : ReplayAnswered(r) \/ ReplayFailed(r)
    BY <1>3 DEF BeatAnswered, BeatFailed
  <2> QED BY <1>1, <2>1, <2>2, ReplayConcludes
<1>4. CASE BeatCancel
  <2>1. UNCHANGED <<status, token, spawns, exit, expired, stopMet>>
    BY <1>4 DEF BeatCancel, server
  <2>2. CASE UNCHANGED cancelHit
    BY <2>1, <2>2, QuietStep
  <2>3. CASE job # NoClaim /\ cancelHit' = cancelHit \cup {job}
    <3>1. job \in Claims
      BY <1>1, <2>3 DEF TypeOK
    <3>2. \E c \in Lifecycle!Claims : Lifecycle!Stop(c)
      BY <2>1, <2>3, <3>1 DEF Lifecycle!Stop, Lifecycle!Claims, Claims
    <3> QED BY <3>2 DEF Lifecycle!Next
  <2> QED BY <1>4, <2>2, <2>3 DEF BeatCancel
<1> QED BY <1>2, <1>3, <1>4 DEF BeatStep

\* The agent's start, stop and crash: only a stop that meets a claim is seen.
LEMMA LifeStepRefines ==
  ASSUME IInv, Start \/ Shutdown \/ Exit \/ Crash
  PROVE  [Lifecycle!Next]_Lifecycle!vars
<1>1. TypeOK
  BY DEF IInv
<1>2. CASE Start \/ Exit \/ Crash
  <2>1. UNCHANGED <<status, token, spawns, exit, expired, cancelHit, stopMet>>
    BY <1>2 DEF Start, Exit, Crash, Vanish, server, world, history
  <2> QED BY <2>1, QuietStep
<1>3. CASE Shutdown
  <2>1. UNCHANGED <<status, token, spawns, exit, expired, cancelHit>>
    BY <1>3 DEF Shutdown, server, world
  <2>2. CASE job = NoClaim
    BY <1>3, <2>1, <2>2, QuietStep DEF Shutdown
  <2>3. CASE job # NoClaim
    <3>1. job \in Claims
      BY <1>1, <2>3 DEF TypeOK
    <3>2. \E how \in {"running", "other"} : stopMet' = [stopMet EXCEPT ![job] = how]
      BY <1>3, <2>3 DEF Shutdown
    <3>3. {c \in Claims : stopMet'[c] # "nothing"}
            = {c \in Claims : stopMet[c] # "nothing"} \cup {job}
      BY <1>1, <3>1, <3>2 DEF TypeOK
    <3>4. \E c \in Lifecycle!Claims : Lifecycle!Stop(c)
      BY <2>1, <3>1, <3>3 DEF Lifecycle!Stop, Lifecycle!Claims, Claims
    <3> QED BY <3>4 DEF Lifecycle!Next
  <2> QED BY <2>2, <2>3
<1> QED BY <1>2, <1>3

-----------------------------------------------------------------------------
\* The serve loop implements the lifecycle it promises the server: a claim's
\* script is started at most once and never after its verdict, `running` is
\* reported of started scripts only, and verdicts are truthful.
THEOREM Refinement == Spec => ImplementsJobLifecycle
<1>1. Init => Lifecycle!Init
  BY InitRefines
<1>2. IInv /\ [Next]_vars => [Lifecycle!Next]_Lifecycle!vars
  <2> SUFFICES ASSUME IInv, [Next]_vars PROVE [Lifecycle!Next]_Lifecycle!vars
    OBVIOUS
  <2>1. CASE Next
    BY <2>1, ClaimStepRefines, RunStepRefines, ReportStepRefines, BeatStepRefines,
       LifeStepRefines DEF Next
  <2>2. CASE UNCHANGED vars
    <3>1. UNCHANGED <<status, token, spawns, exit, expired, cancelHit, stopMet>>
      BY <2>2 DEF vars, server, world, history
    <3> QED BY <3>1, QuietStep
  <2> QED BY <2>1, <2>2
<1> QED BY <1>1, <1>2, Invariance, PTL DEF Spec, ImplementsJobLifecycle, Lifecycle!Spec
=============================================================================
