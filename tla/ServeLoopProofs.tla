--------------------------- MODULE ServeLoopProofs ---------------------------
(***************************************************************************)
(* Theorems about ServeLoop for every set of jobs and all bounds.          *)
(*                                                                         *)
(* The inductive invariant IInv is a conjunction; each of its parts has a  *)
(* lemma that says which of the others the part rests on, with one step    *)
(* for each action that can disturb it.  The other actions leave the       *)
(* variables of the part alone.                                            *)
(***************************************************************************)
EXTENDS ServeLoop, TLAPS

\* A claim is a job with the number of its claim (Claims).
LEMMA ClaimParts ==
  ASSUME NEW c \in Claims
  PROVE  /\ c[1] \in Jobs /\ c[2] \in 1 .. MaxClaims /\ c[2] \in Nat
         /\ c = <<c[1], c[2]>>
BY ConstantsAssumption DEF Claims

\* ScriptExit and killTree: a child that ends alone adds at most its own claim to
\* those with descendants alive.
LEMMA LeftByChild ==
  ASSUME NEW c, heirs' \in ChildGone(c)
  PROVE  heirs' = heirs \/ heirs' = heirs \cup {c}
BY DEF ChildGone

\* killTree: the child of the claim is gone with its descendants or alone, or it
\* had gone before, or nothing happens, and that only if kills may fail.
LEMMA Killed ==
  ASSUME NEW c, KillTree(c)
  PROVE  \/ /\ c \in alive /\ alive' = alive \ {c}
            /\ exit' = [exit EXCEPT ![c] = "killed"]
            /\ heirs' = heirs \/ (~KillWorks /\ heirs' = heirs \cup {c})
         \/ /\ c \notin alive
            /\ heirs' = IF Groups THEN heirs \ {c} ELSE heirs
            /\ UNCHANGED <<alive, exit>>
         \/ ~KillWorks /\ UNCHANGED <<alive, heirs, exit>>
<1>1. ASSUME heirs' \in (IF KillWorks THEN {heirs} ELSE ChildGone(c))
      PROVE  heirs' = heirs \/ (~KillWorks /\ heirs' = heirs \cup {c})
  BY <1>1, LeftByChild
<1> QED BY <1>1, Zenon DEF KillTree

\* NewServe and the server before the first claim.
LEMMA InitInvariant == Init => IInv
<1> SUFFICES ASSUME Init PROVE IInv
  OBVIOUS
<1>1. TypeOK
  <2>1. /\ cancelReq \in [Jobs -> BOOLEAN] /\ up \in BOOLEAN /\ serveDone \in BOOLEAN
        /\ jobCancelled \in BOOLEAN /\ hflag \in BOOLEAN
    BY Zenon DEF Init
  <2>2. /\ status \in [Jobs -> Statuses] /\ token \in [Jobs -> 0 .. MaxClaims]
        /\ owner \in [Jobs -> 0 .. MaxSessions] /\ session \in 0 .. MaxSessions
        /\ tries \in 0 .. MaxRetries
    BY ConstantsAssumption DEF Init, Statuses
  <2> QED BY <2>1, <2>2 DEF Init, TypeOK, PCs
<1>2. HeldInv /\ TreeInv /\ ContextInv
  BY ConstantsAssumption DEF Init, HeldInv, TreeInv, ContextInv, JobCtxDone, InRun
<1>3. ReportInv /\ RunningInv
  <2>1. ReportInv
    BY ClaimParts DEF Init, ReportInv, Reporting, Concluded, Verdicts
  <2>2. RunningInv
    BY DEF Init, RunningInv
  <2> QED BY <2>1, <2>2
<1>4. ShutdownInv /\ StrayInv
  BY DEF Init, ShutdownInv, StrayInv, NoStrayTree, Reporting, InRun
<1> QED BY <1>1, <1>2, <1>3, <1>4 DEF IInv

\* One result on its way: the claim it is for, and no other, may be concluded by
\* it, and what is recorded then is what was sent.
LEMMA RecordedHonest ==
  ASSUME TypeOK, ReportInv, NEW done \in Claims, NEW v, Honest(done, v),
         ResultArrives(done, v) \/ UNCHANGED status,
         UNCHANGED <<token, exit, spawns, expired, cancelHit, stopMet>>
  PROVE  \A c \in Claims :
            Concluded(c)' => Honest(c, status[c[1]])' /\ (Concluded(c) \/ c = done)
<1> SUFFICES ASSUME NEW c \in Claims, Concluded(c)'
             PROVE  Honest(c, status[c[1]])' /\ (Concluded(c) \/ c = done)
  OBVIOUS
<1>1. c[1] \in Jobs /\ status \in [Jobs -> Statuses]
  BY ClaimParts DEF TypeOK
<1>2. CASE ResultArrives(done, v) /\ Accepts(done) /\ c[1] = done[1]
  <2>1. status' = [status EXCEPT ![c[1]] = v]
    BY <1>2, Zenon DEF ResultArrives
  <2>2. status'[c[1]] = v
    BY <1>1, <2>1, Zenon
  <2>3. token[c[1]] = c[2] /\ token[c[1]] = done[2]
    BY <1>2, Zenon DEF Concluded, Accepts
  <2>4. c = done
    BY <1>2, <2>3, ClaimParts
  <2> QED BY <2>2, <2>4, Zenon DEF Honest
<1>3. CASE ~(ResultArrives(done, v) /\ Accepts(done) /\ c[1] = done[1])
  <2>1. status'[c[1]] = status[c[1]]
    BY <1>1, <1>3, Zenon DEF ResultArrives
  <2>2. Concluded(c)
    BY <2>1, Zenon DEF Concluded
  <2> QED BY <2>1, <2>2, Zenon DEF Honest, ReportInv
<1> QED BY <1>2, <1>3

\* DrainSpool: a spooled result that reaches the server, or reaches it once
\* more, records what was honest already, whatever the loop holds meanwhile.
LEMMA ReplayHonest ==
  ASSUME TypeOK, HeldInv, ReportInv,
         UNCHANGED <<token, job, verdict, exit, spawns, expired, cancelHit, stopMet>>,
         pc' = pc \/ (pc = "flush" /\ pc' = "post"),
         UNCHANGED status \/ \E r \in spool : ResultArrives(r.claim, r.status),
         spool' \subseteq spool
  PROVE  ReportInv'
<1>0. pc' \in Reporting => pc \in Reporting
  BY DEF Reporting
<1>1. CASE UNCHANGED status
  BY <1>0, <1>1 DEF ReportInv, Honest, Concluded
<1>2. ASSUME NEW r \in spool, ResultArrives(r.claim, r.status) PROVE ReportInv'
  <2>1. r.claim \in Claims /\ r.claim # job /\ Honest(r.claim, r.status)
    BY DEF TypeOK, Records, ReportInv
  <2>3. \A c \in Claims : Concluded(c)' => Honest(c, status[c[1]])' /\ (Concluded(c) \/ c = r.claim)
    <3>1. UNCHANGED <<token, exit, spawns, expired, cancelHit, stopMet>>
      OBVIOUS
    <3> QED BY <1>2, <2>1, <3>1, RecordedHonest, Zenon
  <2>4. job = NoClaim <=> pc \in {"idle", "down"}
    BY DEF HeldInv
  <2>5. pc' \notin {"idle", "down", "post"} => ~Concluded(job)'
    <3> SUFFICES ASSUME pc' \notin {"idle", "down", "post"}, Concluded(job)' PROVE FALSE
      OBVIOUS
    <3>1. pc \notin {"idle", "down", "post"} /\ job \in Claims /\ job' = job
      BY <2>4 DEF TypeOK
    <3>2. Concluded(job)
      BY <2>1, <2>3, <3>1
    <3> QED BY <3>1, <3>2 DEF ReportInv
  <2> QED BY <1>0, <2>1, <2>3, <2>5 DEF ReportInv, Honest
<1> QED BY <1>1, <1>2

\* ReportResult: the result posted may be recorded, and is spooled when no answer
\* says it was.
LEMMA PostHonest ==
  ASSUME TypeOK, HeldInv, ReportInv, pc = "post",
         ResultArrives(job, verdict) \/ UNCHANGED status,
         UNCHANGED <<token, exit, spawns, expired, cancelHit, stopMet>>,
         \/ UNCHANGED <<pc, job, verdict, spool>>
         \/ /\ pc' = "idle" /\ job' = NoClaim
            /\ spool' \subseteq spool \cup {[claim |-> job, status |-> verdict]}
  PROVE  ReportInv'
<1>1. job \in Claims /\ verdict \in Verdicts /\ Honest(job, verdict) /\ job[2] <= token[job[1]]
  BY DEF TypeOK, HeldInv, ReportInv, Reporting
<1>2. \A c \in Claims : Concluded(c)' => Honest(c, status[c[1]])'
  BY <1>1, RecordedHonest, Zenon
<1>3. \A r \in spool : Honest(r.claim, r.status)' /\ r.claim[2] <= token'[r.claim[1]]
  BY Zenon DEF ReportInv, Honest
<1>4. \A r \in spool : r.claim \in Claims /\ r.claim # job
  BY DEF TypeOK, Records, ReportInv
<1>5. NoClaim \notin Claims
  BY ConstantsAssumption DEF Claims
<1>6. CASE UNCHANGED <<pc, job, verdict, spool>>
  BY <1>1, <1>2, <1>3, <1>4, <1>6 DEF ReportInv, Honest, Reporting
<1>7. CASE /\ pc' = "idle" /\ job' = NoClaim
           /\ spool' \subseteq spool \cup {[claim |-> job, status |-> verdict]}
  <2>1. ASSUME NEW r \in spool'
        PROVE  Honest(r.claim, r.status)' /\ r.claim[2] <= token'[r.claim[1]] /\ r.claim # job'
    <3>1. CASE r \in spool
      BY <1>3, <1>4, <1>5, <1>7, <3>1
    <3>2. CASE r = [claim |-> job, status |-> verdict]
      <4>1. r.claim = job /\ r.status = verdict
        BY <3>2
      <4>2. Honest(r.claim, r.status)'
        BY <1>1, <4>1, Zenon DEF Honest
      <4> QED BY <1>1, <1>5, <1>7, <4>1, <4>2, Zenon
    <3> QED BY <1>7, <3>1, <3>2
  <2>2. pc' \notin Reporting
    BY <1>7 DEF Reporting
  <2> QED BY <1>2, <1>7, <2>1, <2>2 DEF ReportInv
<1> QED BY <1>6, <1>7

\* process: a step that reports and records nothing keeps what was honest, if the
\* verdict it leaves is honest.
LEMMA LocalHonest ==
  ASSUME ReportInv,
         UNCHANGED <<status, token, job, spool, exit, spawns, expired, cancelHit, stopMet>>,
         pc \notin {"idle", "down", "post"},
         verdict' \in Verdicts, Honest(job, verdict')
  PROVE  ReportInv'
<1>1. verdict' \in Verdicts /\ Honest(job, verdict)'
  BY Zenon DEF Honest
<1>2. \A c \in Claims : Concluded(c)' <=> Concluded(c)
  BY Zenon DEF Concluded
<1>3. \A c \in Claims : Concluded(c)' => Honest(c, status[c[1]])'
  BY <1>2, Zenon DEF ReportInv, Honest
<1>4. \A r \in spool' : Honest(r.claim, r.status)' /\ (r.claim[2] <= token[r.claim[1]])'
                       /\ r.claim # job'
  BY Zenon DEF ReportInv, Honest
<1>5. ~Concluded(job)'
  BY Zenon DEF ReportInv, Concluded
<1> QED BY <1>1, <1>3, <1>4, <1>5, Zenon DEF ReportInv

-----------------------------------------------------------------------------
\* Each step of the agent, the server and the script keeps the variables in
\* their types; what is spooled or recorded is a verdict because ReportInv says
\* so of what is about to be posted.
LEMMA TypeOKStep ==
  ASSUME TypeOK, HeldInv, ReportInv, Next
  PROVE  TypeOK'
<1> USE DEF TypeOK, server, request, runVars, agent, beat, world, history,
          InProcess, PCs
<1>1. ASSUME NEW j \in Jobs, RequestCancel(j) PROVE TypeOK'
  BY <1>1 DEF RequestCancel, loop
<1>2. ASSUME NEW j \in Jobs, LeaseExpire(j) PROVE TypeOK'
  BY <1>2 DEF LeaseExpire, Statuses, loop
<1>3. ASSUME NEW j \in Jobs, Watchdog(j) PROVE TypeOK'
  BY <1>3 DEF Watchdog, Statuses, loop
<1>4. ASSUME NEW j \in Jobs, Claim(j) PROVE TypeOK'
  BY <1>4, ConstantsAssumption DEF Claim, Claims, Statuses, Assign
<1>5. ASSUME NEW j \in Jobs, ClaimLost(j) PROVE TypeOK'
  BY <1>5, ConstantsAssumption DEF ClaimLost, Statuses, Assign, loop
<1>6. CASE SpawnFails
  BY <1>6 DEF SpawnFails, Verdicts
<1>7. CASE Spawn
  BY <1>7 DEF Spawn, InRun, HeldInv
<1>8. CASE NotifyAccepted
  BY <1>8, ConstantsAssumption DEF NotifyAccepted, Claims, Statuses, InRun,
       HeldInv
<1>9. CASE NotifyRefused
  BY <1>9 DEF NotifyRefused
<1>10. CASE NotifyUnanswered
  BY <1>10, ConstantsAssumption DEF NotifyUnanswered, Statuses
<1>11. CASE Abort
  BY <1>11, Killed DEF Abort
<1>12. CASE Reaped
  <2>1. /\ cancelReq' \in [Jobs -> BOOLEAN] /\ up' \in BOOLEAN /\ serveDone' \in BOOLEAN
        /\ jobCancelled' \in BOOLEAN /\ hflag' \in BOOLEAN
    BY <1>12, Zenon DEF TypeOK, Reaped, Return, server, agent, beat
  <2> QED BY <1>12, <2>1, ConstantsAssumption DEF TypeOK, Reaped, Return, PCs,
         InProcess, server, agent, beat, world, history
<1>13. CASE Deadline
  BY <1>13 DEF Deadline, InRun, HeldInv
<1>14. CASE ChildWaited
  BY <1>14 DEF ChildWaited, InRun
<1>15. CASE RunCtxDone
  BY <1>15, Killed DEF RunCtxDone, InRun
<1>16. CASE GraceOver
  BY <1>16 DEF GraceOver, InRun
<1>17. CASE PipesDrained
  BY <1>17, Killed DEF PipesDrained, InRun
<1>18. CASE Judge
  BY <1>18 DEF Judge, Verdicts, Judgement
<1>19. CASE CheckShutdown
  <2>1. /\ cancelReq' \in [Jobs -> BOOLEAN] /\ up' \in BOOLEAN /\ serveDone' \in BOOLEAN
        /\ jobCancelled' \in BOOLEAN /\ hflag' \in BOOLEAN
    BY <1>19, Zenon DEF TypeOK, CheckShutdown, Return, runVars, server, agent, beat
  <2> QED BY <1>19, <2>1, ConstantsAssumption DEF TypeOK, CheckShutdown, Return,
         PCs, InProcess, request, runVars, server, agent, beat, world, history
<1>20. CASE CheckCancel
  BY <1>20 DEF CheckCancel, Verdicts, JobCtxDone
<1>21. CASE FlushGone
  BY <1>21 DEF FlushGone
<1>22. CASE FlushAnswered
  BY <1>22 DEF FlushAnswered, Statuses, Records, ResultArrives, ReplayAnswered
<1>23. CASE FlushFailed
  BY <1>23 DEF FlushFailed, Statuses, Records, ResultArrives, ReplayFailed
<1>24. CASE FlushDone
  BY <1>24 DEF FlushDone
<1>25. CASE PostArrives
  <2>1. /\ cancelReq' \in [Jobs -> BOOLEAN] /\ up' \in BOOLEAN /\ serveDone' \in BOOLEAN
        /\ jobCancelled' \in BOOLEAN /\ hflag' \in BOOLEAN
    BY <1>25, Zenon DEF TypeOK, PostArrives, Return, agent, beat
  <2>2. verdict \in Verdicts
    BY <1>25 DEF PostArrives, ReportInv, Reporting
  <2>3. status' \in [Jobs -> Statuses]
    BY <1>25, <2>2 DEF TypeOK, PostArrives, ResultArrives, Statuses
  <2> QED BY <1>25, <2>1, <2>2, <2>3, ConstantsAssumption DEF TypeOK,
         PostArrives, Return, PCs, InProcess, agent, beat, world, history
<1>26. CASE PostRefused
  <2>1. /\ cancelReq' \in [Jobs -> BOOLEAN] /\ up' \in BOOLEAN /\ serveDone' \in BOOLEAN
        /\ jobCancelled' \in BOOLEAN /\ hflag' \in BOOLEAN
    BY <1>26, Zenon DEF TypeOK, PostRefused, Return, server, agent, beat
  <2> QED BY <1>26, <2>1, ConstantsAssumption DEF TypeOK, PostRefused, Return,
         PCs, InProcess, server, agent, beat, world, history
<1>27. CASE PostUnanswered
  <2>1. /\ cancelReq' \in [Jobs -> BOOLEAN] /\ up' \in BOOLEAN /\ serveDone' \in BOOLEAN
        /\ jobCancelled' \in BOOLEAN /\ hflag' \in BOOLEAN
    BY <1>27, Zenon DEF TypeOK, PostUnanswered, Return, runVars, agent, beat
  <2>2. verdict \in Verdicts /\ job \in Claims
    BY <1>27 DEF PostUnanswered, ReportInv, Reporting, HeldInv, TypeOK
  <2>3. status' \in [Jobs -> Statuses]
    BY <1>27, <2>2 DEF TypeOK, PostUnanswered, ResultArrives, Statuses
  <2>4. spool' \subseteq Records
    BY <1>27, <2>2 DEF TypeOK, PostUnanswered, Records
  <2>5. /\ tries' \in 0 .. MaxRetries /\ runErr' \in {"none", "deadline", "cancel"}
        /\ pc' \in PCs /\ job' \in Claims \cup {NoClaim}
    BY <1>27, ConstantsAssumption DEF TypeOK, PostUnanswered, Return, runVars, PCs, InProcess
  <2> QED BY <1>27, <2>1, <2>2, <2>3, <2>4, <2>5 DEF TypeOK, PostUnanswered,
         Return, agent, beat, world, history
<1>28. CASE Heartbeat
  BY <1>28 DEF Heartbeat, loop
<1>29. CASE BeatGone
  BY <1>29 DEF BeatGone, loop
<1>30. CASE BeatAnswered
  BY <1>30 DEF BeatAnswered, Statuses, Records, ResultArrives,
       ReplayAnswered, loop
<1>31. CASE BeatFailed
  BY <1>31 DEF BeatFailed, Statuses, Records, ResultArrives, ReplayFailed,
       loop
<1>32. CASE BeatCancel
  <2>1. /\ cancelReq' \in [Jobs -> BOOLEAN] /\ up' \in BOOLEAN /\ serveDone' \in BOOLEAN
        /\ jobCancelled' \in BOOLEAN /\ hflag' \in BOOLEAN
    BY <1>32, Zenon DEF TypeOK, BeatCancel, server, agent
  <2> QED BY <1>32, <2>1, ConstantsAssumption DEF TypeOK, HeldInv, BeatCancel,
         CancelRun, InRun, PCs, InProcess, request, server, agent, world
<1>33. ASSUME NEW c \in Claims, ScriptExit(c) PROVE TypeOK'
  BY <1>33, LeftByChild DEF ScriptExit, loop
<1>34. CASE Start
  <2>1. /\ cancelReq' \in [Jobs -> BOOLEAN] /\ up' \in BOOLEAN /\ serveDone' \in BOOLEAN
        /\ jobCancelled' \in BOOLEAN /\ hflag' \in BOOLEAN
    BY <1>34, Zenon DEF TypeOK, Start, server, agent, runVars, beat
  <2> QED BY <1>34, <2>1, ConstantsAssumption DEF TypeOK, Start, PCs, InProcess,
         request, runVars, server, beat, agent, world, history
<1>35. CASE Shutdown
  BY <1>35 DEF Shutdown, CancelRun
<1>36. CASE Exit
  <2>1. /\ cancelReq' \in [Jobs -> BOOLEAN] /\ up' \in BOOLEAN /\ serveDone' \in BOOLEAN
        /\ jobCancelled' \in BOOLEAN /\ hflag' \in BOOLEAN
    BY <1>36, Zenon DEF TypeOK, Exit, Vanish, server
  <2> QED BY <1>36, <2>1, ConstantsAssumption DEF TypeOK, Exit, Vanish, PCs,
         InProcess, server, world, history
<1>37. CASE Crash
  <2>1. /\ cancelReq' \in [Jobs -> BOOLEAN] /\ up' \in BOOLEAN /\ serveDone' \in BOOLEAN
        /\ jobCancelled' \in BOOLEAN /\ hflag' \in BOOLEAN
    BY <1>37, Zenon DEF TypeOK, Crash, Vanish, server
  <2> QED BY <1>37, <2>1, ConstantsAssumption DEF TypeOK, Crash, Vanish, PCs,
         InProcess, server, world
<1>38. ASSUME NEW c \in Claims, HeirsExit(c) PROVE TypeOK'
  BY <1>38 DEF HeirsExit, loop
<1> QED BY <1>1, <1>2, <1>3, <1>4, <1>5, <1>6, <1>7, <1>8, <1>9, <1>10, <1>11,
       <1>12, <1>13, <1>14, <1>15, <1>16, <1>17, <1>18, <1>19, <1>20, <1>21,
       <1>22, <1>23, <1>24, <1>25, <1>26, <1>27, <1>28, <1>29, <1>30, <1>31,
       <1>32, <1>33, <1>34, <1>35, <1>36, <1>37, <1>38 DEF Next, ServerStep,
       ClaimStep, RunStep, ReportStep, BeatStep

\* Run and process: a claim is held exactly inside process, it is a fresh one
\* when it is taken, and its script is started only by cmd.Start.
LEMMA HeldInvStep ==
  ASSUME TypeOK, HeldInv, TreeInv, Next
  PROVE  HeldInv'
<1> USE DEF HeldInv, server, agent, InRun
<1>1. ASSUME NEW j \in Jobs, Claim(j) PROVE HeldInv'
  <2>1. token[j] \in Nat /\ token[j] + 1 \in 1 .. MaxClaims
    BY <1>1, ConstantsAssumption DEF TypeOK, Claim, Assign
  <2>2. job' = <<j, token[j] + 1>> /\ token'[j] = token[j] + 1
    BY <1>1, <2>1 DEF TypeOK, Claim, Assign
  <2>3. job' \in Claims
    BY <2>1, <2>2 DEF Claims
  <2>4. job' # NoClaim /\ pc' = "prepare" /\ up /\ UNCHANGED <<up, spawns>>
    BY <1>1, <2>3, ConstantsAssumption DEF Claim, agent, world, HeldInv
  <2>5. spawns[job'] = 0
    <3>1. spawns[job'] # 1
      BY <2>1, <2>2, <2>3 DEF TreeInv
    <3> QED BY <2>3, <3>1 DEF TreeInv, TypeOK
  <2> QED BY <2>1, <2>2, <2>3, <2>4, <2>5 DEF HeldInv, InRun
<1>2. ASSUME NEW j \in Jobs, ClaimLost(j) PROVE HeldInv'
  BY <1>2 DEF ClaimLost, Assign, loop
<1>3. CASE SpawnFails
  BY <1>3 DEF SpawnFails
<1>4. CASE Spawn
  BY <1>4 DEF Spawn, TypeOK
<1>5. CASE NotifyAccepted
  BY <1>5 DEF NotifyAccepted, world
<1>6. CASE NotifyRefused
  BY <1>6 DEF NotifyRefused, world
<1>7. CASE NotifyUnanswered
  BY <1>7 DEF NotifyUnanswered, world
<1>8. CASE Abort
  BY <1>8 DEF Abort, KillTree
<1>9. CASE Reaped
  BY <1>9 DEF Reaped, Return
<1>10. CASE ChildWaited
  BY <1>10 DEF ChildWaited, world
<1>11. CASE RunCtxDone
  BY <1>11 DEF RunCtxDone, KillTree
<1>12. CASE GraceOver
  BY <1>12 DEF GraceOver, world
<1>13. CASE PipesDrained
  BY <1>13 DEF PipesDrained, KillTree
<1>14. CASE Judge
  BY <1>14 DEF Judge, Judgement
<1>15. CASE CheckShutdown
  BY <1>15 DEF CheckShutdown, Return
<1>16. CASE CheckCancel
  BY <1>16 DEF CheckCancel, JobCtxDone
<1>17. CASE FlushFailed
  BY <1>17 DEF FlushFailed, ReplayFailed
<1>18. CASE FlushDone
  BY <1>18 DEF FlushDone
<1>19. CASE PostArrives
  BY <1>19 DEF PostArrives, Return
<1>20. CASE PostRefused
  BY <1>20 DEF PostRefused, Return
<1>21. CASE PostUnanswered
  BY <1>21 DEF PostUnanswered, Return
<1>22. CASE Start
  BY <1>22 DEF Start
<1>23. CASE Exit
  BY <1>23 DEF Exit, Vanish
<1>24. CASE Crash
  BY <1>24 DEF Crash, Vanish
<1>25. CASE UNCHANGED <<token, up, pc, job, spawns>>
  BY <1>25
<1>26. ASSUME NEW j \in Jobs, RequestCancel(j) \/ LeaseExpire(j) \/
               Watchdog(j)
      PROVE  UNCHANGED <<token, up, pc, job, spawns>>
  BY <1>26, Zenon DEF request, runVars, loop, agent, beat, world, history,
       RequestCancel, LeaseExpire, Watchdog
<1>27. ASSUME NEW c \in Claims, ScriptExit(c) \/ HeirsExit(c)
      PROVE  UNCHANGED <<token, up, pc, job, spawns>>
  BY <1>27, Zenon DEF server, request, runVars, loop, agent, beat, history,
       ScriptExit, HeirsExit
<1>28. ASSUME Deadline \/ FlushGone \/ FlushAnswered \/ Heartbeat \/ BeatGone
               \/ BeatAnswered \/ BeatFailed \/ BeatCancel \/ Shutdown
      PROVE  UNCHANGED <<token, up, pc, job, spawns>>
  BY <1>28, Zenon DEF server, request, runVars, loop, agent, beat, world,
       history, ResultArrives, CancelRun, ReplayAnswered, ReplayFailed,
       Deadline, FlushGone, FlushAnswered, Heartbeat, BeatGone, BeatAnswered,
       BeatFailed, BeatCancel, Shutdown
<1> QED BY <1>1, <1>2, <1>3, <1>4, <1>5, <1>6, <1>7, <1>8, <1>9, <1>10, <1>11,
       <1>12, <1>13, <1>14, <1>15, <1>16, <1>17, <1>18, <1>19, <1>20, <1>21,
       <1>22, <1>23, <1>24, <1>25, <1>26, <1>27, <1>28 DEF Next, ServerStep,
       ClaimStep, RunStep, ReportStep, BeatStep

\* A process tree is the one of a claim that was started once: killTree and
\* the script's own exit end it, cmd.Start makes it.
LEMMA TreeInvStep ==
  ASSUME TypeOK, HeldInv, TreeInv, Next
  PROVE  TreeInv'
<1> USE DEF TreeInv, server, TypeOK
<1>1. ASSUME NEW j \in Jobs, Claim(j) PROVE TreeInv'
  BY <1>1 DEF Claim, Claims, Assign, world
<1>2. ASSUME NEW j \in Jobs, ClaimLost(j) PROVE TreeInv'
  BY <1>2 DEF ClaimLost, Claims, Assign, world
<1>3. CASE Spawn
  BY <1>3 DEF Spawn, HeldInv
<1>4. CASE Abort
  BY <1>4, Killed DEF Abort
<1>5. CASE RunCtxDone
  BY <1>5, Killed DEF RunCtxDone
<1>6. CASE PipesDrained
  BY <1>6, Killed DEF PipesDrained
<1>7. ASSUME NEW c \in Claims, ScriptExit(c) PROVE TreeInv'
  BY <1>7, LeftByChild DEF ScriptExit
<1>8. CASE UNCHANGED <<token, alive, heirs, exit, spawns>>
  BY <1>8 DEF Claims
<1>9. ASSUME NEW j \in Jobs, RequestCancel(j) \/ LeaseExpire(j) \/ Watchdog(j)
      PROVE  UNCHANGED <<token, alive, heirs, exit, spawns>>
  BY <1>9, Zenon DEF request, runVars, loop, agent, beat, world, history,
       RequestCancel, LeaseExpire, Watchdog
<1>10. ASSUME SpawnFails \/ NotifyAccepted \/ NotifyRefused \/
               NotifyUnanswered \/ Reaped \/ Deadline \/ ChildWaited \/
               GraceOver \/ Judge \/ CheckShutdown \/ CheckCancel \/ FlushGone
               \/ FlushAnswered \/ FlushFailed \/ FlushDone \/ PostArrives \/
               PostRefused \/ PostUnanswered \/ Heartbeat \/ BeatGone \/
               BeatAnswered \/ BeatFailed \/ BeatCancel \/ Start \/ Shutdown
               \/ Exit \/ Crash
      PROVE  UNCHANGED <<token, alive, heirs, exit, spawns>>
  BY <1>10, Zenon DEF server, request, runVars, loop, agent, beat, world,
       history, ResultArrives, CancelRun, ReplayAnswered, ReplayFailed,
       Return, SpawnFails, NotifyAccepted, NotifyRefused, NotifyUnanswered,
       Reaped, Deadline, ChildWaited, GraceOver, Judge, CheckShutdown,
       CheckCancel, FlushGone, FlushAnswered, FlushFailed, FlushDone,
       PostArrives, PostRefused, PostUnanswered, Heartbeat, BeatGone,
       BeatAnswered, BeatFailed, BeatCancel, Start, Shutdown, Vanish, Exit,
       Crash
<1>11. ASSUME NEW c \in Claims, HeirsExit(c) PROVE TreeInv'
  BY <1>11 DEF HeirsExit
<1> QED BY <1>1, <1>2, <1>3, <1>4, <1>5, <1>6, <1>7, <1>8, <1>9, <1>10, <1>11 DEF
       Next, ServerStep, ClaimStep, RunStep, ReportStep, BeatStep

\* The contexts of process and Run: each ended for a reason that history knows,
\* and as long as runCtx lives the script's end is its own.
LEMMA ContextInvStep ==
  ASSUME TypeOK, HeldInv, ContextInv, Next
  PROVE  ContextInv'
<1> USE DEF ContextInv, runVars, agent, history, InRun, JobCtxDone
<1>1. ASSUME NEW j \in Jobs, Claim(j) PROVE ContextInv'
  BY <1>1, ConstantsAssumption DEF Claim, TypeOK, Assign, HeldInv
<1>2. CASE SpawnFails
  BY <1>2 DEF SpawnFails
<1>3. CASE Spawn
  BY <1>3 DEF Spawn
<1>4. CASE NotifyAccepted
  BY <1>4 DEF NotifyAccepted, world
<1>5. CASE NotifyRefused
  BY <1>5 DEF NotifyRefused
<1>6. CASE NotifyUnanswered
  BY <1>6 DEF NotifyUnanswered, world
<1>7. CASE Abort
  BY <1>7 DEF Abort, KillTree
<1>8. CASE Reaped
  BY <1>8 DEF Reaped, Return
<1>9. CASE Deadline
  BY <1>9 DEF Deadline, HeldInv
<1>10. CASE ChildWaited
  BY <1>10 DEF ChildWaited, world
<1>11. CASE RunCtxDone
  BY <1>11 DEF RunCtxDone, KillTree
<1>12. CASE GraceOver
  BY <1>12 DEF GraceOver
<1>13. CASE PipesDrained
  BY <1>13 DEF PipesDrained, KillTree
<1>14. CASE Judge
  BY <1>14 DEF Judge, Judgement
<1>15. CASE CheckShutdown
  BY <1>15 DEF CheckShutdown, Return
<1>16. CASE CheckCancel
  BY <1>16 DEF CheckCancel
<1>17. CASE FlushFailed
  BY <1>17 DEF FlushFailed, ReplayFailed
<1>18. CASE FlushDone
  BY <1>18 DEF FlushDone
<1>19. CASE PostArrives
  BY <1>19 DEF PostArrives, Return
<1>20. CASE PostRefused
  BY <1>20 DEF PostRefused, Return
<1>21. CASE PostUnanswered
  BY <1>21 DEF PostUnanswered, Return
<1>22. CASE BeatCancel
  BY <1>22 DEF BeatCancel, CancelRun, world
<1>23. ASSUME NEW c \in Claims, ScriptExit(c) PROVE ContextInv'
  BY <1>23 DEF ScriptExit, TypeOK, loop
<1>24. CASE Start
  BY <1>24 DEF Start, HeldInv
<1>25. CASE Shutdown
  BY <1>25 DEF Shutdown, TypeOK, CancelRun, HeldInv
<1>26. CASE Exit
  BY <1>26 DEF Exit, Vanish
<1>27. CASE Crash
  BY <1>27 DEF Crash, Vanish
<1>28. CASE UNCHANGED <<serveDone, pc, job, jobCancelled, runErr, alive, exit,
                         expired, cancelHit, stopMet>>
  BY <1>28
<1>29. ASSUME NEW j \in Jobs, RequestCancel(j) \/ LeaseExpire(j) \/
               Watchdog(j) \/ ClaimLost(j)
      PROVE  UNCHANGED <<serveDone, pc, job, jobCancelled, runErr, alive,
                        exit, expired, cancelHit, stopMet>>
  BY <1>29, Zenon DEF request, runVars, loop, agent, beat, world, history,
       RequestCancel, LeaseExpire, Watchdog, Assign, ClaimLost
<1>30. ASSUME FlushGone \/ FlushAnswered \/ Heartbeat \/ BeatGone \/
               BeatAnswered \/ BeatFailed
      PROVE  UNCHANGED <<serveDone, pc, job, jobCancelled, runErr, alive,
                        exit, expired, cancelHit, stopMet>>
  BY <1>30, Zenon DEF server, request, runVars, loop, agent, beat, world,
       history, ResultArrives, ReplayAnswered, ReplayFailed, FlushGone,
       FlushAnswered, Heartbeat, BeatGone, BeatAnswered, BeatFailed
<1>31. ASSUME NEW c \in Claims, HeirsExit(c) PROVE ContextInv'
  BY <1>31 DEF HeirsExit, TypeOK, loop
<1> QED BY <1>1, <1>2, <1>3, <1>4, <1>5, <1>6, <1>7, <1>8, <1>9, <1>10, <1>11,
       <1>12, <1>13, <1>14, <1>15, <1>16, <1>17, <1>18, <1>19, <1>20, <1>21,
       <1>22, <1>23, <1>24, <1>25, <1>26, <1>27, <1>28, <1>29, <1>30, <1>31 DEF Next,
       ServerStep, ClaimStep, RunStep, ReportStep, BeatStep

\* Run's closing switch, process, ReportResult and the two drains: what is
\* posted, spooled, replayed or recorded is what happened to the script.
LEMMA ReportInvStep ==
  ASSUME TypeOK, HeldInv, TreeInv, ContextInv, ReportInv, Next
  PROVE  ReportInv'
<1> USE DEF ReportInv, server, world, history, TypeOK, Concluded, Honest,
          Reporting
<1>1. ASSUME NEW j \in Jobs, LeaseExpire(j) PROVE ReportInv'
  BY <1>1 DEF LeaseExpire, Verdicts, request, loop
<1>2. ASSUME NEW j \in Jobs, Watchdog(j) PROVE ReportInv'
  BY <1>2 DEF Watchdog, Verdicts, request, loop
<1>3. ASSUME NEW j \in Jobs, Claim(j) PROVE ReportInv'
  BY <1>3 DEF Claim, Claims, Verdicts, Records, Assign
<1>4. ASSUME NEW j \in Jobs, ClaimLost(j) PROVE ReportInv'
  BY <1>4 DEF ClaimLost, Claims, Verdicts, Records, Assign, loop
<1>5. CASE SpawnFails
  BY <1>5 DEF SpawnFails, Verdicts, HeldInv
<1>6. CASE Spawn
  BY <1>6 DEF Spawn
<1>7. CASE NotifyAccepted
  BY <1>7 DEF NotifyAccepted, Verdicts
<1>8. CASE NotifyRefused
  BY <1>8 DEF NotifyRefused
<1>9. CASE NotifyUnanswered
  BY <1>9 DEF NotifyUnanswered, Claims, Verdicts
<1>10. CASE Abort
  BY <1>10 DEF Abort, Records, KillTree
<1>11. CASE Reaped
  BY <1>11, ConstantsAssumption DEF Reaped, Records, Return
<1>12. CASE Deadline
  BY <1>12 DEF Deadline, InRun
<1>13. CASE ChildWaited
  BY <1>13 DEF ChildWaited
<1>14. CASE RunCtxDone
  BY <1>14 DEF RunCtxDone, Records, KillTree
<1>15. CASE GraceOver
  BY <1>15 DEF GraceOver
<1>16. CASE PipesDrained
  BY <1>16 DEF PipesDrained, Records, KillTree
<1>17. CASE Judge
  BY <1>17 DEF Judge, Verdicts, InProcess, PCs, JobCtxDone, Judgement,
       ContextInv
<1>18. CASE CheckShutdown
  BY <1>18, ConstantsAssumption DEF CheckShutdown, Records, Return, request
<1>19. CASE CheckCancel
  <2>1. /\ pc = "cancel?" /\ pc' = "flush"
        /\ verdict' = IF JobCtxDone THEN "cancelled" ELSE verdict
    BY <1>19, Zenon DEF CheckCancel
  <2>2. UNCHANGED <<status, token, job, spool, exit, spawns, expired, cancelHit, stopMet>>
    BY <1>19, Zenon DEF CheckCancel
  <2>3. verdict' \in Verdicts /\ Honest(job, verdict')
    <3>1. CASE JobCtxDone
      BY <2>1, <3>1 DEF Verdicts, JobCtxDone, HeldInv, ContextInv
    <3>2. CASE ~JobCtxDone
      BY <2>1, <3>2
    <3> QED BY <3>1, <3>2
  <2> QED BY <2>1, <2>2, <2>3, LocalHonest
<1>20. CASE FlushAnswered
  <2>1. UNCHANGED <<token, job, verdict, exit, spawns, expired, cancelHit, stopMet>>
    BY <1>20, Zenon DEF FlushAnswered, runVars, world, history
  <2>2. UNCHANGED status \/ \E r \in spool : ResultArrives(r.claim, r.status)
    BY <1>20, Zenon DEF FlushAnswered, ReplayAnswered
  <2>3. pc' = pc \/ (pc = "flush" /\ pc' = "post")
    BY <1>20, Zenon DEF FlushAnswered, ReplayAnswered, ReplayFailed, loop, request, agent, world, history, runVars
  <2>4. spool' \subseteq spool
    BY <1>20 DEF FlushAnswered, ReplayAnswered
  <2> QED BY <2>1, <2>2, <2>3, <2>4, ReplayHonest, Zenon
<1>21. CASE FlushFailed
  <2>1. UNCHANGED <<token, job, verdict, exit, spawns, expired, cancelHit, stopMet>>
    BY <1>21, Zenon DEF FlushFailed, runVars, world, history
  <2>2. (pc' = pc \/ (pc = "flush" /\ pc' = "post")) /\ spool' \subseteq spool
    BY <1>21 DEF FlushFailed, ReplayFailed
  <2>3. UNCHANGED status \/ \E r \in spool : ResultArrives(r.claim, r.status)
    BY <1>21, Zenon DEF FlushFailed, ReplayFailed
  <2> QED BY <2>1, <2>2, <2>3, ReplayHonest, Zenon
<1>22. CASE FlushDone
  BY <1>22 DEF FlushDone, request
<1>23. CASE PostArrives
  <2>1. /\ pc = "post" /\ ResultArrives(job, verdict) /\ pc' = "idle" /\ job' = NoClaim
        /\ spool' \subseteq spool
    BY <1>23 DEF PostArrives, Return
  <2>2. UNCHANGED <<token, exit, spawns, expired, cancelHit, stopMet>>
    BY <1>23, Zenon DEF PostArrives, world, history
  <2>3. spool' \subseteq spool \cup {[claim |-> job, status |-> verdict]}
    BY <2>1, Zenon
  <2> QED BY <2>1, <2>2, <2>3, PostHonest, Zenon
<1>24. CASE PostRefused
  BY <1>24, ConstantsAssumption DEF PostRefused, Records, Return
<1>25. CASE PostUnanswered
  <2>1. /\ pc = "post" /\ (ResultArrives(job, verdict) \/ UNCHANGED status)
        /\ UNCHANGED <<token, exit, spawns, expired, cancelHit, stopMet>>
    BY <1>25, Zenon DEF PostUnanswered, world, history
  <2>2. \/ UNCHANGED <<pc, job, verdict, spool>>
        \/ /\ pc' = "idle" /\ job' = NoClaim
           /\ spool' \subseteq spool \cup {[claim |-> job, status |-> verdict]}
    BY <1>25, Zenon DEF PostUnanswered, Return
  <2> QED BY <2>1, <2>2, PostHonest, Zenon
<1>26. CASE BeatAnswered
  <2>1. UNCHANGED <<token, job, verdict, exit, spawns, expired, cancelHit, stopMet>>
    BY <1>26, Zenon DEF BeatAnswered, ReplayAnswered, loop, request, agent, world, history
  <2>2. UNCHANGED status \/ \E r \in spool : ResultArrives(r.claim, r.status)
    BY <1>26, Zenon DEF BeatAnswered, ReplayAnswered
  <2>3. pc' = pc \/ (pc = "flush" /\ pc' = "post")
    BY <1>26, Zenon DEF BeatAnswered, ReplayAnswered, ReplayFailed, loop, request, agent, world, history, runVars
  <2>4. spool' \subseteq spool
    BY <1>26 DEF BeatAnswered, ReplayAnswered
  <2> QED BY <2>1, <2>2, <2>3, <2>4, ReplayHonest, Zenon
<1>27. CASE BeatFailed
  <2>1. UNCHANGED <<token, job, verdict, exit, spawns, expired, cancelHit, stopMet>>
    BY <1>27, Zenon DEF BeatFailed, ReplayFailed, loop, request, agent, world, history
  <2>2. UNCHANGED status \/ \E r \in spool : ResultArrives(r.claim, r.status)
    BY <1>27, Zenon DEF BeatFailed, ReplayFailed
  <2>3. pc' = pc \/ (pc = "flush" /\ pc' = "post")
    BY <1>27, Zenon DEF BeatFailed, ReplayAnswered, ReplayFailed, loop, request, agent, world, history, runVars
  <2>4. spool' \subseteq spool
    BY <1>27 DEF BeatFailed, ReplayFailed
  <2> QED BY <2>1, <2>2, <2>3, <2>4, ReplayHonest, Zenon
<1>28. CASE BeatCancel
  BY <1>28 DEF BeatCancel, CancelRun, request
<1>29. ASSUME NEW c \in Claims, ScriptExit(c) PROVE ReportInv'
  BY <1>29 DEF ScriptExit, TreeInv, request, loop
<1>30. CASE Start
  BY <1>30 DEF Start
<1>31. CASE Shutdown
  BY <1>31 DEF Shutdown, CancelRun, request
<1>32. CASE Exit
  BY <1>32 DEF Exit, Vanish, HeldInv
<1>33. CASE Crash
  BY <1>33, ConstantsAssumption DEF Crash, Records, Vanish
<1>34. CASE UNCHANGED <<status, token, pc, job, verdict, spool, exit, spawns,
                         expired, cancelHit, stopMet>>
  BY <1>34 DEF Claims, Verdicts
<1>35. ASSUME NEW j \in Jobs, RequestCancel(j)
      PROVE  UNCHANGED <<status, token, pc, job, verdict, spool, exit, spawns,
                        expired, cancelHit, stopMet>>
  BY <1>35, Zenon DEF request, runVars, loop, agent, beat, world, history,
       RequestCancel
<1>36. ASSUME FlushGone \/ Heartbeat \/ BeatGone
      PROVE  UNCHANGED <<status, token, pc, job, verdict, spool, exit, spawns,
                        expired, cancelHit, stopMet>>
  BY <1>36, Zenon DEF server, request, runVars, loop, agent, beat, world,
       history, FlushGone, Heartbeat, BeatGone
<1>37. ASSUME NEW c \in Claims, HeirsExit(c) PROVE UNCHANGED <<status, token, pc, job, verdict, spool, exit, spawns,
                        expired, cancelHit, stopMet>>
  BY <1>37, Zenon DEF server, request, runVars, loop, agent, beat, world,
       history, HeirsExit
<1> QED BY <1>1, <1>2, <1>3, <1>4, <1>5, <1>6, <1>7, <1>8, <1>9, <1>10, <1>11,
       <1>12, <1>13, <1>14, <1>15, <1>16, <1>17, <1>18, <1>19, <1>20, <1>21,
       <1>22, <1>23, <1>24, <1>25, <1>26, <1>27, <1>28, <1>29, <1>30, <1>31,
       <1>32, <1>33, <1>34, <1>35, <1>36, <1>37 DEF Next, ServerStep, ClaimStep,
       RunStep, ReportStep, BeatStep

\* ReportRunning comes after cmd.Start: a running job was started under its
\* current claim.
LEMMA RunningInvStep ==
  ASSUME TypeOK, HeldInv, RunningInv, Next
  PROVE  RunningInv'
<1> USE DEF RunningInv, Verdicts, world, TypeOK, ResultArrives
<1>1. ASSUME NEW j \in Jobs, LeaseExpire(j) PROVE RunningInv'
  BY <1>1 DEF LeaseExpire
<1>2. ASSUME NEW j \in Jobs, Watchdog(j) PROVE RunningInv'
  BY <1>2 DEF Watchdog
<1>3. ASSUME NEW j \in Jobs, Claim(j) PROVE RunningInv'
  BY <1>3 DEF Claim, Assign
<1>4. ASSUME NEW j \in Jobs, ClaimLost(j) PROVE RunningInv'
  BY <1>4 DEF ClaimLost, Assign
<1>5. CASE Spawn
  BY <1>5 DEF Spawn, HeldInv, server
<1>6. CASE NotifyAccepted
  BY <1>6, ClaimParts DEF NotifyAccepted, Claims, InProcess, PCs, Accepts,
       HeldInv, beat, history
<1>7. CASE NotifyUnanswered
  <2>1. job \in Claims /\ spawns[job] = 1
    BY <1>7 DEF NotifyUnanswered, HeldInv, InRun, InProcess
  <2>2. UNCHANGED <<token, spawns>>
    BY <1>7 DEF NotifyUnanswered
  <2>3. CASE UNCHANGED status
    BY <2>2, <2>3
  <2>4. CASE Accepts(job) /\ status' = [status EXCEPT ![job[1]] = "running"]
    BY <2>1, <2>2, <2>4, ClaimParts DEF Accepts, Live
  <2> QED BY <1>7, <2>3, <2>4 DEF NotifyUnanswered
<1>8. CASE FlushAnswered
  BY <1>8 DEF FlushAnswered, Records, ReplayAnswered
<1>9. CASE FlushFailed
  BY <1>9 DEF FlushFailed, Records, ReplayFailed
<1>10. CASE PostArrives
  BY <1>10 DEF PostArrives, Return
<1>11. CASE PostUnanswered
  BY <1>11 DEF PostUnanswered, Return
<1>12. CASE BeatAnswered
  BY <1>12 DEF BeatAnswered, Records, ReplayAnswered
<1>13. CASE BeatFailed
  BY <1>13 DEF BeatFailed, Records, ReplayFailed
<1>14. CASE UNCHANGED <<status, token, spawns>>
  BY <1>14
<1>15. ASSUME NEW j \in Jobs, RequestCancel(j)
      PROVE  UNCHANGED <<status, token, spawns>>
  BY <1>15, Zenon DEF request, runVars, loop, agent, beat, world, history,
       RequestCancel
<1>16. ASSUME NEW c \in Claims, ScriptExit(c) \/ HeirsExit(c)
      PROVE  UNCHANGED <<status, token, spawns>>
  BY <1>16, Zenon DEF server, request, runVars, loop, agent, beat, history,
       ScriptExit, HeirsExit
<1>17. ASSUME SpawnFails \/ NotifyRefused \/ Abort \/ Reaped \/ Deadline \/
               ChildWaited \/ RunCtxDone \/ GraceOver \/ PipesDrained \/ Judge
               \/ CheckShutdown \/ CheckCancel \/ FlushGone \/ FlushDone \/
               PostRefused \/ Heartbeat \/ BeatGone \/ BeatCancel \/ Start \/
               Shutdown \/ Exit \/ Crash
      PROVE  UNCHANGED <<status, token, spawns>>
  BY <1>17, Zenon DEF server, request, runVars, loop, agent, beat, world,
       history, CancelRun, KillTree, Return, SpawnFails, NotifyRefused,
       Abort, Reaped, Deadline, ChildWaited, RunCtxDone, GraceOver,
       PipesDrained, Judge, CheckShutdown, CheckCancel, FlushGone, FlushDone,
       PostRefused, Heartbeat, BeatGone, BeatCancel, Start, Shutdown, Vanish,
       Exit, Crash
<1> QED BY <1>1, <1>2, <1>3, <1>4, <1>5, <1>6, <1>7, <1>8, <1>9, <1>10, <1>11,
       <1>12, <1>13, <1>14, <1>15, <1>16, <1>17 DEF Next, ServerStep,
       ClaimStep, RunStep, ReportStep, BeatStep

\* process returns without a report when serveCtx ended during the run, and no
\* later step reports that claim.
LEMMA ShutdownInvStep ==
  ASSUME TypeOK, HeldInv, ReportInv, ShutdownInv, Next
  PROVE  ShutdownInv'
<1> USE DEF ShutdownInv, server, history, Concluded
<1>1. ASSUME NEW j \in Jobs, LeaseExpire(j) PROVE ShutdownInv'
  BY <1>1 DEF LeaseExpire, Verdicts, loop, agent
<1>2. ASSUME NEW j \in Jobs, Watchdog(j) PROVE ShutdownInv'
  BY <1>2 DEF Watchdog, Verdicts, loop, agent
<1>3. ASSUME NEW j \in Jobs, Claim(j) PROVE ShutdownInv'
  BY <1>3 DEF Claim, Claims, TypeOK, Assign
<1>4. ASSUME NEW j \in Jobs, ClaimLost(j) PROVE ShutdownInv'
  BY <1>4 DEF ClaimLost, Claims, TypeOK, Assign, loop
<1>5. CASE SpawnFails
  BY <1>5 DEF SpawnFails, InRun
<1>6. CASE Spawn
  BY <1>6 DEF Spawn, InRun
<1>7. CASE NotifyAccepted
  BY <1>7 DEF NotifyAccepted, Verdicts
<1>8. CASE NotifyRefused
  BY <1>8 DEF NotifyRefused
<1>9. CASE NotifyUnanswered
  BY <1>9 DEF NotifyUnanswered, Claims, Verdicts, TypeOK, agent
<1>10. CASE Abort
  BY <1>10 DEF Abort, KillTree, agent
<1>11. CASE Reaped
  BY <1>11, ConstantsAssumption DEF Reaped, Return
<1>12. CASE ChildWaited
  BY <1>12 DEF ChildWaited, InRun, agent
<1>13. CASE RunCtxDone
  BY <1>13 DEF RunCtxDone, InRun, KillTree, agent
<1>14. CASE GraceOver
  BY <1>14 DEF GraceOver, InRun, agent
<1>15. CASE PipesDrained
  BY <1>15 DEF PipesDrained, InRun, KillTree, agent
<1>16. CASE Judge
  BY <1>16 DEF Judge, Judgement, agent
<1>17. CASE CheckShutdown
  BY <1>17, ConstantsAssumption DEF CheckShutdown, Return
<1>18. CASE CheckCancel
  BY <1>18 DEF CheckCancel, InRun, JobCtxDone
<1>19. CASE FlushAnswered
  BY <1>19 DEF FlushAnswered, Claims, Records, TypeOK, Accepts,
       ResultArrives, ReplayAnswered
<1>20. CASE FlushFailed
  BY <1>20 DEF FlushFailed, Claims, Records, InRun, TypeOK, Accepts,
       ResultArrives, ReplayFailed
<1>21. CASE FlushDone
  BY <1>21 DEF FlushDone, InRun
<1>22. CASE PostArrives
  BY <1>22, ConstantsAssumption DEF PostArrives, Claims, TypeOK, Accepts,
       ResultArrives, Return, HeldInv
<1>23. CASE PostRefused
  BY <1>23, ConstantsAssumption DEF PostRefused, Return
<1>24. CASE PostUnanswered
  BY <1>24, ConstantsAssumption DEF PostUnanswered, Claims, InRun, TypeOK,
       Accepts, ResultArrives, Return, HeldInv
<1>25. CASE BeatAnswered
  BY <1>25 DEF BeatAnswered, Claims, Records, TypeOK, Accepts, ResultArrives,
       ReplayAnswered, loop
<1>26. CASE BeatFailed
  BY <1>26 DEF BeatFailed, Claims, Records, TypeOK, Accepts, ResultArrives,
       ReplayFailed, loop, agent
<1>27. CASE Start
  BY <1>27 DEF Start, InRun, HeldInv
<1>28. CASE Shutdown
  BY <1>28 DEF Shutdown, InRun, CancelRun, Honest, Reporting, HeldInv,
       ReportInv
<1>29. CASE Exit
  BY <1>29 DEF Exit, InRun, Vanish, HeldInv
<1>30. CASE Crash
  BY <1>30, ConstantsAssumption DEF Crash, Vanish
<1>31. CASE UNCHANGED <<status, token, serveDone, pc, job, spool, stopMet>>
  BY <1>31 DEF Claims, Verdicts, InRun
<1>32. ASSUME NEW j \in Jobs, RequestCancel(j)
      PROVE  UNCHANGED <<status, token, serveDone, pc, job, spool, stopMet>>
  BY <1>32, Zenon DEF request, runVars, loop, agent, beat, world, history,
       RequestCancel
<1>33. ASSUME NEW c \in Claims, ScriptExit(c) \/ HeirsExit(c)
      PROVE  UNCHANGED <<status, token, serveDone, pc, job, spool, stopMet>>
  BY <1>33, Zenon DEF server, request, runVars, loop, agent, beat, history,
       ScriptExit, HeirsExit
<1>34. ASSUME Deadline \/ FlushGone \/ Heartbeat \/ BeatGone \/ BeatCancel
      PROVE  UNCHANGED <<status, token, serveDone, pc, job, spool, stopMet>>
  BY <1>34, Zenon DEF server, request, runVars, loop, agent, beat, world,
       history, CancelRun, Deadline, FlushGone, Heartbeat, BeatGone,
       BeatCancel
<1> QED BY <1>1, <1>2, <1>3, <1>4, <1>5, <1>6, <1>7, <1>8, <1>9, <1>10, <1>11,
       <1>12, <1>13, <1>14, <1>15, <1>16, <1>17, <1>18, <1>19, <1>20, <1>21,
       <1>22, <1>23, <1>24, <1>25, <1>26, <1>27, <1>28, <1>29, <1>30, <1>31,
       <1>32, <1>33, <1>34 DEF Next, ServerStep, ClaimStep, RunStep,
       ReportStep, BeatStep

\* Every way out of Run kills the tree first, as long as kills work.
LEMMA StrayInvStep ==
  ASSUME TypeOK, HeldInv, TreeInv, StrayInv, Next
  PROVE  StrayInv'
<1> USE DEF StrayInv, NoStrayTree, world, history, Reporting
<1>1. ASSUME NEW j \in Jobs, Claim(j) PROVE StrayInv'
  BY <1>1, ConstantsAssumption DEF Claim, TypeOK, Assign, HeldInv
<1>2. CASE SpawnFails
  BY <1>2 DEF SpawnFails, TypeOK, HeldInv, TreeInv
<1>3. CASE Spawn
  BY <1>3 DEF Spawn
<1>4. CASE NotifyAccepted
  BY <1>4 DEF NotifyAccepted
<1>5. CASE NotifyRefused
  BY <1>5 DEF NotifyRefused
<1>6. CASE NotifyUnanswered
  BY <1>6 DEF NotifyUnanswered
<1>7. CASE Abort
  BY <1>7, Killed DEF Abort, TypeOK, TreeInv, HeldInv, InRun
<1>8. CASE Reaped
  BY <1>8 DEF Reaped, Return
<1>9. CASE ChildWaited
  BY <1>9 DEF ChildWaited
<1>10. CASE RunCtxDone
  BY <1>10, Killed DEF RunCtxDone, TypeOK, TreeInv, HeldInv, InRun
<1>11. CASE GraceOver
  BY <1>11 DEF GraceOver
<1>12. CASE PipesDrained
  BY <1>12, Killed DEF PipesDrained, TypeOK, TreeInv, HeldInv, InRun
<1>13. CASE Judge
  BY <1>13 DEF Judge, Judgement
<1>14. CASE CheckShutdown
  BY <1>14 DEF CheckShutdown, Return
<1>15. CASE CheckCancel
  BY <1>15 DEF CheckCancel, JobCtxDone
<1>16. CASE FlushFailed
  BY <1>16 DEF FlushFailed, ReplayFailed
<1>17. CASE FlushDone
  BY <1>17 DEF FlushDone
<1>18. CASE PostArrives
  BY <1>18 DEF PostArrives, Return
<1>19. CASE PostRefused
  BY <1>19 DEF PostRefused, Return
<1>20. CASE PostUnanswered
  BY <1>20 DEF PostUnanswered, Return
<1>21. ASSUME NEW c \in Claims, ScriptExit(c) PROVE StrayInv'
  BY <1>21, LeftByChild DEF ScriptExit, TypeOK, loop
<1>22. CASE Start
  BY <1>22 DEF Start
<1>23. CASE Exit
  BY <1>23 DEF Exit, Vanish, HeldInv
<1>24. CASE Crash
  BY <1>24 DEF Crash, Vanish
<1>25. CASE UNCHANGED <<pc, job, alive, heirs, exit, orphaned>>
  BY <1>25
<1>26. ASSUME NEW j \in Jobs, RequestCancel(j) \/ LeaseExpire(j) \/
               Watchdog(j) \/ ClaimLost(j)
      PROVE  UNCHANGED <<pc, job, alive, heirs, exit, orphaned>>
  BY <1>26, Zenon DEF request, runVars, loop, agent, beat, world, history,
       RequestCancel, LeaseExpire, Watchdog, Assign, ClaimLost
<1>27. ASSUME Deadline \/ FlushGone \/ FlushAnswered \/ Heartbeat \/ BeatGone
               \/ BeatAnswered \/ BeatFailed \/ BeatCancel \/ Shutdown
      PROVE  UNCHANGED <<pc, job, alive, heirs, exit, orphaned>>
  BY <1>27, Zenon DEF server, request, runVars, loop, agent, beat, world,
       history, ResultArrives, CancelRun, ReplayAnswered, ReplayFailed,
       Deadline, FlushGone, FlushAnswered, Heartbeat, BeatGone, BeatAnswered,
       BeatFailed, BeatCancel, Shutdown
<1>28. ASSUME NEW c \in Claims, HeirsExit(c) PROVE StrayInv'
  BY <1>28 DEF HeirsExit, loop
<1> QED BY <1>1, <1>2, <1>3, <1>4, <1>5, <1>6, <1>7, <1>8, <1>9, <1>10, <1>11,
       <1>12, <1>13, <1>14, <1>15, <1>16, <1>17, <1>18, <1>19, <1>20, <1>21,
       <1>22, <1>23, <1>24, <1>25, <1>26, <1>27, <1>28 DEF Next, ServerStep,
       ClaimStep, RunStep, ReportStep, BeatStep
-----------------------------------------------------------------------------
\* The inductive step: Next, or a step of something else.
LEMMA StepInvariant == IInv /\ [Next]_vars => IInv'
<1> SUFFICES ASSUME IInv, [Next]_vars PROVE IInv'
  OBVIOUS
<1>1. TypeOK /\ HeldInv /\ TreeInv /\ ContextInv /\ ReportInv /\ RunningInv
      /\ ShutdownInv /\ StrayInv
  BY DEF IInv
<1>2. CASE Next
  BY <1>1, <1>2, TypeOKStep, HeldInvStep, TreeInvStep, ContextInvStep,
     ReportInvStep, RunningInvStep, ShutdownInvStep, StrayInvStep DEF IInv
<1>3. CASE UNCHANGED vars
  <2>1. UNCHANGED <<status, token, owner, cancelReq, up, session, serveDone, pc, job,
                    tries, jobCancelled, runErr, verdict, todo, hpc, hflag, htodo,
                    spool, alive, heirs, exit, spawns, expired, cancelHit, stopMet, orphaned>>
    BY <1>3, Zenon DEF vars, server, request, runVars, loop, agent, beat, world, history
  <2>2. TypeOK'
    BY <1>1, <2>1 DEF TypeOK
  <2>3. HeldInv' /\ TreeInv' /\ ContextInv'
    BY <1>1, <2>1 DEF HeldInv, TreeInv, ContextInv, JobCtxDone
  <2>4. ReportInv' /\ RunningInv'
    BY <1>1, <2>1 DEF ReportInv, RunningInv, Honest, Concluded
  <2>5. ShutdownInv' /\ StrayInv'
    BY <1>1, <2>1 DEF ShutdownInv, StrayInv, NoStrayTree, Concluded
  <2> QED BY <2>2, <2>3, <2>4, <2>5 DEF IInv
<1> QED BY <1>2, <1>3

\* The inductive invariant holds in every state of every behaviour of the
\* serve loop, whatever its server, its scripts and its crashes do.
THEOREM Invariance == Spec => []IInv
<1> QED BY InitInvariant, StepInvariant, PTL DEF Spec

-----------------------------------------------------------------------------
\* The variables of Serve, the client and the runner keep their types.
THEOREM TypeCorrect == Spec => []TypeOK
<1>1. IInv => TypeOK
  BY DEF IInv
<1> QED BY <1>1, Invariance, PTL

\* process, ReportResult and DrainSpool: no status that is recorded by the
\* server or waits in the spool is untrue of its claim's script, whatever
\* races, retries, drains, crashes and re-claims went before.
THEOREM VerdictsAreHonest == Spec => []VerdictHonest
<1>1. IInv => VerdictHonest
  BY DEF IInv, ReportInv, VerdictHonest
<1> QED BY <1>1, Invariance, PTL

\* process never runs a script again: at most one cmd.Start per claim, over
\* all incarnations of the agent.
THEOREM SpawnedOnce == Spec => []SpawnedOncePerClaim
<1>1. IInv => SpawnedOncePerClaim
  BY DEF IInv, TreeInv, SpawnedOncePerClaim
<1> QED BY <1>1, Invariance, PTL

\* ReportRunning reports a real spawn: a job the server shows as running was
\* started under its current claim.
THEOREM RunningMeansSpawned == Spec => []RunningIsReal
<1>1. ASSUME IInv PROVE RunningIsReal
  <2>1. TypeOK /\ RunningInv
    BY <1>1 DEF IInv
  <2>2. ASSUME NEW j \in Jobs, status[j] = "running"
        PROVE  <<j, token[j]>> \in {c \in Claims : spawns[c] > 0}
    <3>1. spawns[<<j, token[j]>>] = 1 /\ token[j] \in 1 .. MaxClaims
      BY <2>1, <2>2, ConstantsAssumption DEF TypeOK, RunningInv
    <3> QED BY <3>1 DEF Claims
  <2> QED BY <2>2 DEF RunningIsReal
<1> QED BY <1>1, Invariance, PTL

\* process returns without a report when the service was stopped during the
\* run, and no drain of this or a later session reports that claim.
THEOREM ShutdownIsSilent == Spec => []ShutdownLeavesRunning
<1>1. IInv => ShutdownLeavesRunning
  BY DEF IInv, ShutdownInv, ShutdownLeavesRunning
<1> QED BY <1>1, Invariance, PTL

\* Run and process: with a killTree that works, a live child is that of the
\* held claim or of a crashed incarnation, and descendants outlive only a script
\* that ended by itself; where the second killTree finds them (runner_unix.go,
\* process groups), they do not outlive Run either.
THEOREM NoTreeIsLeft == Spec => []NoStrayTree
<1>1. IInv => NoStrayTree
  BY DEF IInv, StrayInv, NoStrayTree
<1> QED BY <1>1, Invariance, PTL
=============================================================================
