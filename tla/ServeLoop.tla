------------------------------ MODULE ServeLoop ------------------------------
(***************************************************************************)
(* The resident serve mode of the agent (internal/agent/loop.go): one      *)
(* goroutine claims a job, runs it and reports its terminal result, a      *)
(* second one heartbeats, replays the spool and observes the cooperative   *)
(* cancel.  The agent may be shut down, may crash at any step and is       *)
(* started again with a new session identity; only the result spool and    *)
(* the process trees it started outlive it.                                *)
(*                                                                         *)
(* The Bifrost server is external: it is modelled from the answers the     *)
(* client tells apart (client.go post, IsFenced, the mock of the tests).   *)
(* The log stream of a job is the subject of Spool and Runner.             *)
(***************************************************************************)
EXTENDS Naturals, FiniteSets

CONSTANTS
    Jobs,         \* the jobs the server may hand to this device
    MaxClaims,    \* bound: how often one job may be claimed
    MaxSessions,  \* bound: how often the agent may be started
    MaxHeirs,     \* bound: claims with descendants left alive, at a time
    MaxRetries,   \* Client.MaxRetries: attempts of one request after the first
    KillWorks,    \* TRUE: killTree always ends the tree of a live child, and
                  \* does so before the grace is over
    Groups,       \* TRUE: it finds the descendants of an exited child, too (a
                  \* process group, Unix); FALSE: it does not (taskkill /T)
    Busy,         \* TRUE: the server refuses a claim while the device has a live job
    NoClaim       \* "no job is held": the nil of *ClaimedJob

Claims == Jobs \X (1 .. MaxClaims)

ASSUME ConstantsAssumption ==
    /\ MaxClaims \in Nat \ {0}
    /\ MaxSessions \in Nat \ {0}
    /\ MaxHeirs \in Nat
    /\ MaxRetries \in Nat
    /\ KillWorks \in BOOLEAN
    /\ Groups \in BOOLEAN
    /\ Busy \in BOOLEAN
    /\ NoClaim \notin Claims

\* The statuses process() can put into a ResultPayload.
Verdicts == {"succeeded", "failed", "timeout", "cancelled"}
Statuses == {"queued", "claimed", "running", "lost"} \cup Verdicts

\* A spooled SpoolRecord of kind "result".
Records == [claim : Claims, status : Verdicts]

VARIABLES
    \* --- the server, external
    status,       \* the status of each job
    token,        \* the number of the job's latest claim: its claim_token
    owner,        \* the session that made that claim
    cancelReq,    \* an operator asked for the job's cancellation
    \* --- the claim loop: Serve.Run, process, Runner.Run
    up,           \* the agent's OS process exists
    session,      \* Client.SessionID: the number of this incarnation
    serveDone,    \* serveCtx.Err() # nil
    pc,           \* where the claim loop is
    job,          \* the claim it holds (and whose cancel is curCancel)
    tries,        \* failed attempts of the request in progress
    jobCancelled, \* cancelCurrent() has cancelled the current jobCtx
    runErr,       \* runCtx.Err(): what ended it first
    verdict,      \* ResultPayload.Status
    todo,         \* the records the loop's own DrainSpool has still to replay
    \* --- heartbeatLoop
    hpc, hflag, htodo,
    \* --- what survives the agent
    spool,        \* result records on disk
    alive,        \* claims whose direct child is alive, with all it started
    heirs,        \* claims whose child has ended and left descendants alive
    exit,         \* how the script of a claim ended
    \* --- history, read by properties only
    spawns,       \* how often the script of a claim was started
    expired,      \* claims whose run reached its deadline
    cancelHit,    \* claims on which cancelCurrent() acted
    stopMet,      \* what the loop did for a claim when a shutdown met it
    orphaned      \* claims held when the agent crashed

server  == <<status, token, owner, cancelReq>>
request == <<tries, verdict, todo>>
runVars == <<jobCancelled, runErr>>
loop    == <<pc, job, request, runVars>>
agent   == <<up, session, serveDone>>
beat    == <<hpc, hflag, htodo>>
world   == <<alive, heirs, exit, spawns>>
history == <<expired, cancelHit, stopMet, orphaned>>
vars    == <<server, loop, agent, beat, spool, world, history>>

\* Steps between "prepare" and "judge" are inside Runner.Run after the claim;
\* a result is reported in "flush" (the drain) and "post".
InRun     == {"notify", "run", "grace", "drain", "judge"}
InProcess == {"prepare", "abort", "reap", "shutdown?", "cancel?", "flush", "post"} \cup InRun
PCs       == {"idle", "down"} \cup InProcess

TypeOK ==
    /\ status \in [Jobs -> Statuses]
    /\ token \in [Jobs -> 0 .. MaxClaims]
    /\ owner \in [Jobs -> 0 .. MaxSessions]
    /\ cancelReq \in [Jobs -> BOOLEAN]
    /\ up \in BOOLEAN
    /\ session \in 0 .. MaxSessions
    /\ serveDone \in BOOLEAN
    /\ pc \in PCs
    /\ job \in Claims \cup {NoClaim}
    /\ tries \in 0 .. MaxRetries
    /\ jobCancelled \in BOOLEAN
    /\ runErr \in {"none", "deadline", "cancel"}
    /\ verdict \in Verdicts \cup {"none"}
    /\ todo \subseteq Records
    /\ hpc \in {"idle", "drain"}
    /\ hflag \in BOOLEAN
    /\ htodo \subseteq Records
    /\ spool \subseteq Records
    /\ alive \subseteq Claims
    /\ heirs \subseteq Claims
    /\ exit \in [Claims -> {"none", "zero", "nonzero", "killed"}]
    /\ spawns \in [Claims -> Nat]
    /\ expired \subseteq Claims
    /\ cancelHit \subseteq Claims
    /\ stopMet \in [Claims -> {"nothing", "running", "other"}]
    /\ orphaned \subseteq Claims

Init ==
    /\ status = [j \in Jobs |-> "queued"]
    /\ token = [j \in Jobs |-> 0]
    /\ owner = [j \in Jobs |-> 0]
    /\ cancelReq = [j \in Jobs |-> FALSE]
    /\ up = FALSE
    /\ session = 0
    /\ serveDone = FALSE
    /\ pc = "down"
    /\ job = NoClaim
    /\ tries = 0
    /\ jobCancelled = FALSE
    /\ runErr = "none"
    /\ verdict = "none"
    /\ todo = {}
    /\ hpc = "idle"
    /\ hflag = FALSE
    /\ htodo = {}
    /\ spool = {}
    /\ alive = {}
    /\ heirs = {}
    /\ exit = [c \in Claims |-> "none"]
    /\ spawns = [c \in Claims |-> 0]
    /\ expired = {}
    /\ cancelHit = {}
    /\ stopMet = [c \in Claims |-> "nothing"]
    /\ orphaned = {}

-----------------------------------------------------------------------------
(* The server.  It fences: a report counts only under the job's latest     *)
(* claim token and while the job is not terminal.  Every job is queued from *)
(* the start: one that arrives later is one the loop has not claimed yet.  *)

Live(j)    == status[j] \in {"claimed", "running"}
Accepts(c) == Live(c[1]) /\ token[c[1]] = c[2]

\* A result report reaches the server: recorded, or fenced without effect.
ResultArrives(c, v) ==
    status' = IF Accepts(c) THEN [status EXCEPT ![c[1]] = v] ELSE status

RequestCancel(j) ==
    /\ Live(j)
    /\ ~cancelReq[j]
    /\ cancelReq' = [cancelReq EXCEPT ![j] = TRUE]
    /\ UNCHANGED <<status, token, owner, loop, agent, beat, spool, world, history>>

\* No running report arrived within the lease: the job is claimable again.
LeaseExpire(j) ==
    /\ status[j] = "claimed"
    /\ status' = [status EXCEPT ![j] = "queued"]
    /\ UNCHANGED <<token, owner, cancelReq, loop, agent, beat, spool, world, history>>

\* The lost policy: the watchdog gives a running job up.
Watchdog(j) ==
    /\ status[j] = "running"
    /\ status' = [status EXCEPT ![j] = "lost"]
    /\ UNCHANGED <<token, owner, cancelReq, loop, agent, beat, spool, world, history>>

\* The server assigns j to the session that asked.
Assign(j) ==
    /\ status[j] = "queued"
    /\ token[j] < MaxClaims
    /\ Busy => ~\E k \in Jobs : Live(k)
    /\ status' = [status EXCEPT ![j] = "claimed"]
    /\ token' = [token EXCEPT ![j] = @ + 1]
    /\ owner' = [owner EXCEPT ![j] = session]
    /\ UNCHANGED cancelReq

-----------------------------------------------------------------------------
(* Contexts, process trees and the spool.                                  *)

\* jobCtx.Err() # nil: it is a child of serveCtx.
JobCtxDone == jobCancelled \/ serveDone

\* runCtx, while it exists, ends with its parent; a context that has ended
\* keeps the first reason.
CancelRun ==
    runErr' = IF pc \in InRun \cup {"prepare"} /\ runErr = "none" THEN "cancel" ELSE runErr

\* What is left of the trees when the child of claim c ends alone: what it has
\* started may be over, or go on.
ChildGone(c) ==
    {heirs} \cup (IF Cardinality(heirs) < MaxHeirs THEN {heirs \cup {c}} ELSE {})

\* Mutants: a kill may fail unnoticed; or it ends the direct child alone.
KillTreeMayFail(c) ==
    \/ /\ c \in alive
       /\ alive' = alive \ {c}
       /\ exit' = [exit EXCEPT ![c] = "killed"]
       /\ UNCHANGED heirs
    \/ UNCHANGED <<alive, heirs, exit>>

KillTheChildOnly(c) ==
    \/ /\ c \in alive
       /\ alive' = alive \ {c}
       /\ exit' = [exit EXCEPT ![c] = "killed"]
       /\ heirs' \in ChildGone(c)
    \/ /\ c \notin alive
       /\ heirs' = IF Groups THEN heirs \ {c} ELSE heirs
       /\ UNCHANGED <<alive, exit>>

\* killTree(cmd) of claim c: on the tree of a live child, on what is left of
\* an exited one, or in vain.
KillTree(c) ==
    \/ /\ c \in alive
       /\ alive' = alive \ {c}
       /\ exit' = [exit EXCEPT ![c] = "killed"]
       /\ heirs' \in (IF KillWorks THEN {heirs} ELSE ChildGone(c))
    \/ /\ c \notin alive
       /\ heirs' = IF Groups THEN heirs \ {c} ELSE heirs
       /\ UNCHANGED <<alive, exit>>
    \/ ~KillWorks /\ UNCHANGED <<alive, heirs, exit>>

\* The direct child ends by itself, held, given up or orphaned.
ScriptExit(c) ==
    /\ c \in alive
    /\ alive' = alive \ {c}
    /\ heirs' \in ChildGone(c)
    /\ \E code \in {"zero", "nonzero"} : exit' = [exit EXCEPT ![c] = code]
    /\ UNCHANGED <<server, loop, agent, beat, spool, spawns, history>>

HeirsExit(c) ==
    /\ c \in heirs
    /\ heirs' = heirs \ {c}
    /\ UNCHANGED <<server, loop, agent, beat, spool, alive, exit, spawns, history>>

\* Mutant: only an accepted record is removed.
ReplayKeepsFenced(r) ==
    /\ ~serveDone
    /\ ResultArrives(r.claim, r.status) \/ UNCHANGED status
    /\ spool' = IF Accepts(r.claim) THEN spool \ {r} ELSE spool

\* post() of one spooled record got a final answer: accepted, fenced or
\* refused with another 4xx.  The record is removed whichever it was.
ReplayAnswered(r) ==
    /\ ~serveDone
    /\ ResultArrives(r.claim, r.status) \/ UNCHANGED status
    /\ spool' = spool \ {r}

\* post() of one spooled record failed after its retries (or its context was
\* cancelled); the server may have recorded the result all the same.
ReplayFailed(r) ==
    /\ \/ ~serveDone /\ ResultArrives(r.claim, r.status)
       \/ UNCHANGED status
    /\ UNCHANGED spool

-----------------------------------------------------------------------------
(* The claim loop.                                                         *)

\* process() returns: clearCurrent, jobCancel, and pollTimer.Reset(0).
Return ==
    /\ pc' = "idle"
    /\ job' = NoClaim
    /\ tries' = 0
    /\ jobCancelled' = FALSE
    /\ runErr' = "none"
    /\ verdict' = "none"
    /\ todo' = {}

\* Mutant: the job is held under the token of its first claim.
ClaimStaleToken(j) ==
    /\ pc = "idle" /\ ~serveDone
    /\ Assign(j)
    /\ pc' = "prepare"
    /\ job' = <<j, 1>>
    /\ UNCHANGED <<request, runVars, agent, beat, spool, world, history>>

\* The claim request is answered with a job; process() registers its cancel.
Claim(j) ==
    /\ pc = "idle" /\ ~serveDone
    /\ Assign(j)
    /\ pc' = "prepare"
    /\ job' = <<j, token'[j]>>
    /\ UNCHANGED <<request, runVars, agent, beat, spool, world, history>>

\* The server assigned j but the answer was lost, too long or malformed:
\* Claim returns an error and the loop goes back to polling.
ClaimLost(j) ==
    /\ pc = "idle" /\ ~serveDone
    /\ Assign(j)
    /\ UNCHANGED <<loop, agent, beat, spool, world, history>>

\* Mutant: the running report is sent before Start's error is looked at.
SpawnFailsUnnoticed ==
    /\ pc = "prepare"
    /\ pc' = "notify"
    /\ UNCHANGED <<job, request, runVars, server, agent, beat, spool, world, history>>

\* Nothing was spawned (temp script, interpreter, pipe or Start failed).
SpawnFails ==
    /\ pc = "prepare"
    /\ pc' = "flush"
    /\ verdict' = "failed"
    /\ todo' = spool
    /\ UNCHANGED <<job, tries, runVars, server, agent, beat, spool, world, history>>

\* cmd.Start succeeds; the context is not consulted before it.
Spawn ==
    /\ pc = "prepare"
    /\ pc' = "notify"
    /\ alive' = alive \cup {job}
    /\ spawns' = [spawns EXCEPT ![job] = @ + 1]
    /\ UNCHANGED <<job, request, runVars, server, agent, beat, spool, heirs, exit, history>>

\* ReportRunning is accepted.
NotifyAccepted ==
    /\ pc = "notify" /\ ~serveDone
    /\ Accepts(job)
    /\ status' = [status EXCEPT ![job[1]] = "running"]
    /\ pc' = "run"
    /\ tries' = 0
    /\ UNCHANGED <<job, verdict, todo, runVars, token, owner, cancelReq,
                   agent, beat, spool, world, history>>

\* ReportRunning is fenced or refused with another 4xx.
NotifyRefused ==
    /\ pc = "notify" /\ ~serveDone
    /\ pc' = "abort"
    /\ UNCHANGED <<job, request, runVars, server, agent, beat, spool, world, history>>

\* Mutant: one retry too many.
NotifyRetriesOnceMore ==
    /\ pc = "notify"
    /\ tries' = tries + 1
    /\ pc' = IF tries <= MaxRetries THEN "notify" ELSE "abort"
    /\ UNCHANGED <<job, verdict, todo, runVars, server, agent, beat, spool, world, history>>

\* One attempt of ReportRunning gets no usable answer, before or after the
\* server recorded it; after MaxRetries more, or at shutdown, onStart fails.
NotifyUnanswered ==
    /\ pc = "notify"
    /\ \/ UNCHANGED status
       \/ /\ ~serveDone /\ Accepts(job)
          /\ status' = [status EXCEPT ![job[1]] = "running"]
    /\ \/ /\ tries < MaxRetries /\ ~serveDone
          /\ tries' = tries + 1
          /\ UNCHANGED pc
       \/ /\ tries = MaxRetries \/ serveDone
          /\ pc' = "abort"
          /\ UNCHANGED tries
    /\ UNCHANGED <<job, verdict, todo, runVars, token, owner, cancelReq,
                   agent, beat, spool, world, history>>

\* onStart failed: killTree, then cmd.Wait, then ErrRunningRejected.
Abort ==
    /\ pc = "abort"
    /\ KillTree(job)
    /\ pc' = "reap"
    /\ UNCHANGED <<job, request, runVars, server, agent, beat, spool, spawns, history>>

\* Mutant: a refused spawn report is met by running the script again.
ReapedAndRerun ==
    /\ pc = "reap"
    /\ job \notin alive
    /\ pc' = "prepare"
    /\ UNCHANGED <<job, request, runVars, server, agent, beat, spool, world, history>>

\* cmd.Wait returns, which takes the direct child's end; nothing is posted.
Reaped ==
    /\ pc = "reap"
    /\ job \notin alive
    /\ Return
    /\ UNCHANGED <<server, agent, beat, spool, world, history>>

\* Mutant: the timeout covers the running report only.
DeadlineOfNotify ==
    /\ pc = "notify" /\ runErr = "none"
    /\ runErr' = "deadline"
    /\ expired' = expired \cup {job}
    /\ UNCHANGED <<pc, job, request, jobCancelled, server, agent, beat, spool,
                   world, cancelHit, stopMet, orphaned>>

\* The timer of context.WithTimeout(ctx, req.Timeout).
Deadline ==
    /\ pc \in InRun /\ runErr = "none"
    /\ runErr' = "deadline"
    /\ expired' = expired \cup {job}
    /\ UNCHANGED <<pc, job, request, jobCancelled, server, agent, beat, spool,
                   world, cancelHit, stopMet, orphaned>>

\* select: <-waitDone.
ChildWaited ==
    /\ pc = "run"
    /\ job \notin alive
    /\ pc' = "drain"
    /\ UNCHANGED <<job, request, runVars, server, agent, beat, spool, world, history>>

\* select: <-runCtx.Done(), then killTree.
RunCtxDone ==
    /\ pc = "run"
    /\ runErr # "none"
    /\ KillTree(job)
    /\ pc' = "grace"
    /\ UNCHANGED <<job, request, runVars, server, agent, beat, spool, spawns, history>>

\* waitDone within the grace, or the grace is over.
GraceOver ==
    /\ pc = "grace"
    /\ pc' = "drain"
    /\ UNCHANGED <<job, request, runVars, server, agent, beat, spool, world, history>>

\* Mutant: no second killTree.
PipesDrainedUnswept ==
    /\ pc = "drain"
    /\ pc' = "judge"
    /\ UNCHANGED <<job, request, runVars, server, agent, beat, spool, world, history>>

\* The second killTree, for what outlived the child, and waitPipes, which is
\* bounded: descendants that are left do not hold Run.
PipesDrained ==
    /\ pc = "drain"
    /\ KillTree(job)
    /\ pc' = "judge"
    /\ UNCHANGED <<job, request, runVars, server, agent, beat, spool, spawns, history>>

\* Mutant: the switch forgets runCtx's own deadline.
JudgementWithoutDeadline ==
    CASE runErr = "cancel"   -> "cancelled"
      [] exit[job] = "zero"  -> "succeeded"
      [] OTHER               -> "failed"

\* Run's closing switch, translated by process into the result's status.
Judgement ==
    CASE runErr = "deadline"  -> "timeout"
      [] runErr = "cancel"    -> "cancelled"
      [] exit[job] = "zero"   -> "succeeded"
      [] OTHER                -> "failed"

Judge ==
    /\ pc = "judge"
    /\ pc' = "shutdown?"
    /\ verdict' = Judgement
    /\ runErr' = "none"
    /\ UNCHANGED <<job, tries, todo, jobCancelled, server, agent, beat, spool, world, history>>

\* Mutant: the shutdown check is dropped.
NoShutdownCheck ==
    /\ pc = "shutdown?"
    /\ pc' = "cancel?"
    /\ UNCHANGED <<job, request, runVars, server, agent, beat, spool, world, history>>

\* if serveCtx.Err() != nil { return }
CheckShutdown ==
    /\ pc = "shutdown?"
    /\ IF serveDone THEN Return
       ELSE pc' = "cancel?" /\ UNCHANGED <<job, request, runVars>>
    /\ UNCHANGED <<server, agent, beat, spool, world, history>>

\* Mutant: a cancelled job is reported by its exit code, -1.
CancelledFails ==
    /\ pc = "cancel?"
    /\ verdict' = IF JobCtxDone THEN "failed" ELSE verdict
    /\ todo' = spool
    /\ pc' = "flush"
    /\ UNCHANGED <<job, tries, runVars, server, agent, beat, spool, world, history>>

\* if jobCtx.Err() != nil, the status is "cancelled" whatever the outcome was.
\* ReportResult starts with DrainSpool: its directory listing is taken here.
CheckCancel ==
    /\ pc = "cancel?"
    /\ verdict' = IF JobCtxDone THEN "cancelled" ELSE verdict
    /\ todo' = spool
    /\ pc' = "flush"
    /\ UNCHANGED <<job, tries, runVars, server, agent, beat, spool, world, history>>

\* The listing named a file the heartbeat's drain has removed since: the read
\* fails and the record counts as corrupt, which removes nothing more.
FlushGone ==
    /\ pc = "flush"
    /\ \E r \in todo \ spool : todo' = todo \ {r}
    /\ UNCHANGED <<pc, job, tries, verdict, runVars, server, agent, beat, spool, world, history>>

FlushAnswered ==
    /\ pc = "flush"
    /\ \E r \in todo \cap spool : ReplayAnswered(r) /\ todo' = todo \ {r}
    /\ UNCHANGED <<pc, job, tries, verdict, runVars, token, owner, cancelReq,
                   agent, beat, world, history>>

\* A transient failure stops the drain, and the result is posted next.
FlushFailed ==
    /\ pc = "flush"
    /\ \E r \in todo \cap spool : ReplayFailed(r)
    /\ todo' = {}
    /\ pc' = "post"
    /\ UNCHANGED <<job, tries, verdict, runVars, token, owner, cancelReq,
                   agent, beat, world, history>>

FlushDone ==
    /\ pc = "flush" /\ todo = {}
    /\ pc' = "post"
    /\ UNCHANGED <<job, request, runVars, server, agent, beat, spool, world, history>>

\* The result is recorded, or fenced: then dropSpooledForJob removes every
\* record of the job and reportTerminal accepts the verdict.
PostArrives ==
    /\ pc = "post" /\ ~serveDone
    /\ ResultArrives(job, verdict)
    /\ spool' = IF Accepts(job) THEN spool ELSE {r \in spool : r.claim[1] # job[1]}
    /\ Return
    /\ UNCHANGED <<token, owner, cancelReq, agent, beat, world, history>>

\* Another 4xx: logged by reportTerminal, not spooled.
PostRefused ==
    /\ pc = "post" /\ ~serveDone
    /\ Return
    /\ UNCHANGED <<server, agent, beat, spool, world, history>>

\* One attempt gets no usable answer; after MaxRetries more, or when serveCtx
\* ends during the backoff, the result is spooled.
PostUnanswered ==
    /\ pc = "post"
    /\ \/ ~serveDone /\ ResultArrives(job, verdict)
       \/ UNCHANGED status
    /\ \/ /\ tries < MaxRetries /\ ~serveDone
          /\ tries' = tries + 1
          /\ UNCHANGED <<pc, job, verdict, todo, runVars, spool>>
       \/ /\ tries = MaxRetries \/ serveDone
          /\ spool' = spool \cup {[claim |-> job, status |-> verdict]}
          /\ Return
    /\ UNCHANGED <<token, owner, cancelReq, agent, beat, world, history>>

-----------------------------------------------------------------------------
(* heartbeatLoop.                                                          *)

\* The heartbeat is answered: the flag is that of the session's live job.
\* DrainSpool lists the spool right after.
Heartbeat ==
    /\ up /\ ~serveDone /\ hpc = "idle"
    /\ hpc' = "drain"
    /\ hflag' = (\E j \in Jobs : Live(j) /\ owner[j] = session /\ cancelReq[j])
    /\ htodo' = spool
    /\ UNCHANGED <<server, loop, agent, spool, world, history>>

BeatGone ==
    /\ hpc = "drain"
    /\ \E r \in htodo \ spool : htodo' = htodo \ {r}
    /\ UNCHANGED <<hpc, hflag, server, loop, agent, spool, world, history>>

BeatAnswered ==
    /\ hpc = "drain"
    /\ \E r \in htodo \cap spool : ReplayAnswered(r) /\ htodo' = htodo \ {r}
    /\ UNCHANGED <<hpc, hflag, token, owner, cancelReq, loop, agent, world, history>>

BeatFailed ==
    /\ hpc = "drain"
    /\ \E r \in htodo \cap spool : ReplayFailed(r)
    /\ htodo' = {}
    /\ UNCHANGED <<hpc, hflag, token, owner, cancelReq, loop, agent, world, history>>

\* The drain is over: if hb.CancelRequested, cancelCurrent() cancels whatever
\* job is registered NOW.
BeatCancel ==
    /\ hpc = "drain" /\ htodo = {}
    /\ hpc' = "idle"
    /\ hflag' = FALSE
    /\ IF hflag /\ job # NoClaim
       THEN /\ jobCancelled' = TRUE
            /\ CancelRun
            /\ cancelHit' = cancelHit \cup {job}
       ELSE UNCHANGED <<jobCancelled, runErr, cancelHit>>
    /\ UNCHANGED <<htodo, pc, job, request, server, agent, spool, world,
                   expired, stopMet, orphaned>>

-----------------------------------------------------------------------------
(* The life of the agent's process.                                        *)

\* NewServe and the start of Run: a new session; SweepSpool removes the
\* records older than its retention window.
Start ==
    /\ ~up /\ session < MaxSessions
    /\ up' = TRUE
    /\ session' = session + 1
    /\ serveDone' = FALSE
    /\ pc' = "idle"
    /\ \E kept \in SUBSET spool : spool' = kept
    /\ UNCHANGED <<job, request, runVars, server, beat, world, history>>

\* The service control manager asks for a stop, or the console is interrupted.
Shutdown ==
    /\ up /\ ~serveDone
    /\ serveDone' = TRUE
    /\ CancelRun
    /\ stopMet' = IF job = NoClaim THEN stopMet
                  ELSE [stopMet EXCEPT ![job] = IF pc \in InRun THEN "running" ELSE "other"]
    /\ UNCHANGED <<up, session, pc, job, request, jobCancelled, server, beat,
                   spool, world, expired, cancelHit, orphaned>>

\* Everything in memory goes, the heartbeat goroutine with it.
Vanish ==
    /\ up' = FALSE
    /\ serveDone' = FALSE
    /\ pc' = "down"
    /\ job' = NoClaim
    /\ tries' = 0
    /\ jobCancelled' = FALSE
    /\ runErr' = "none"
    /\ verdict' = "none"
    /\ todo' = {}
    /\ hpc' = "idle"
    /\ hflag' = FALSE
    /\ htodo' = {}
    /\ UNCHANGED session

\* Run returns nil and the process exits.
Exit ==
    /\ up /\ serveDone /\ pc = "idle"
    /\ Vanish
    /\ UNCHANGED <<server, spool, world, history>>

\* A crash or a reboot of the agent alone: script trees are not its children
\* in any way that would end them.
Crash ==
    /\ up
    /\ Vanish
    /\ orphaned' = IF job = NoClaim THEN orphaned ELSE orphaned \cup {job}
    /\ UNCHANGED <<server, spool, world, expired, cancelHit, stopMet>>

-----------------------------------------------------------------------------
ServerStep == \E j \in Jobs : RequestCancel(j) \/ LeaseExpire(j) \/ Watchdog(j)

ClaimStep == \E j \in Jobs : Claim(j) \/ ClaimLost(j)

RunStep == SpawnFails \/ Spawn \/ NotifyAccepted \/ NotifyRefused \/ NotifyUnanswered
           \/ Abort \/ Reaped \/ ChildWaited \/ RunCtxDone \/ GraceOver
           \/ PipesDrained \/ Judge

ReportStep == CheckShutdown \/ CheckCancel \/ FlushGone \/ FlushAnswered \/ FlushFailed
              \/ FlushDone \/ PostArrives \/ PostRefused \/ PostUnanswered

BeatStep == Heartbeat \/ BeatGone \/ BeatAnswered \/ BeatFailed \/ BeatCancel

Next ==
    \/ ServerStep \/ ClaimStep \/ RunStep \/ Deadline \/ ReportStep \/ BeatStep
    \/ \E c \in Claims : ScriptExit(c) \/ HeirsExit(c)
    \/ Start \/ Shutdown \/ Exit \/ Crash

Spec == Init /\ [][Next]_vars

(* Fairness.  The goroutines run, the timers fire and every request is      *)
(* bounded by the HTTP client's timeout; the network is not down for good,  *)
(* so a replay that is tried again and again is answered at last.           *)
(* Nothing is assumed of the operator, of crashes and of the script's end.  *)
Fairness ==
    /\ WF_vars(RunStep \/ ReportStep)
    /\ WF_vars(Deadline)
    /\ WF_vars(Exit)
    /\ WF_vars(BeatStep)
    /\ SF_vars(BeatAnswered)

FairSpec == Spec /\ Fairness

-----------------------------------------------------------------------------
(* Safety.                                                                  *)

\* The server holds a verdict reported under claim c.
Concluded(c) == token[c[1]] = c[2] /\ status[c[1]] \in Verdicts

\* What the status of a report says about its claim.
Honest(c, v) ==
    \/ v = "succeeded" /\ exit[c] = "zero"
    \/ v = "failed"    /\ (exit[c] = "nonzero" \/ spawns[c] = 0)
    \/ v = "timeout"   /\ c \in expired
    \/ v = "cancelled" /\ (c \in cancelHit \/ stopMet[c] # "nothing")

\* Whatever the server and the spool say of a claim happened to that claim's
\* script: through races of exit, deadline, cancel and shutdown in Run and
\* process, through retries, spooling, two drains, crashes and re-claims.
VerdictHonest ==
    /\ \A c \in Claims : Concluded(c) => Honest(c, status[c[1]])
    /\ \A r \in spool : Honest(r.claim, r.status)

\* "No local re-run after any uncertain outcome": a claim's script is started
\* at most once, over all sessions of the agent.
SpawnedOncePerClaim == \A c \in Claims : spawns[c] <= 1

\* ReportRunning "reports a REAL spawn": a job the server shows as running has
\* had the script of its current claim started.
RunningIsReal ==
    \A j \in Jobs : status[j] = "running" => <<j, token[j]>> \in {c \in Claims : spawns[c] > 0}

\* While kills work, no path out of Run or process leaves a child behind (it is
\* that of the held claim or of a crashed incarnation), and what a child leaves
\* behind is that of a script which ended by itself, never of one that was
\* killed for its deadline, a cancel, a shutdown or a refused report.  Where
\* the second killTree finds the descendants of an exited child, none outlives
\* Run at all ("Sweep grandchildren", runner.go:347); on Windows it does not.
NoStrayTree ==
    KillWorks => /\ \A c \in alive : c = job \/ c \in orphaned
                 /\ \A c \in heirs : /\ exit[c] \in {"zero", "nonzero"}
                                     /\ Groups => c = job \/ c \in orphaned

\* A shutdown that meets a job inside Run leaves it to the server's lost
\* policy: nothing is ever posted or spooled under that claim, not even by
\* the drains of later sessions.
ShutdownLeavesRunning ==
    \A c \in Claims : stopMet[c] = "running" =>
        ~Concluded(c) /\ \A r \in spool : r.claim # c

\* The serve loop implements the lifecycle it promises the server.
Lifecycle == INSTANCE JobLifecycle WITH
    runs <- spawns,
    stopped <- cancelHit \cup {c \in Claims : stopMet[c] # "nothing"}

ImplementsJobLifecycle == Lifecycle!Spec

-----------------------------------------------------------------------------
(* The inductive invariant behind the theorems of ServeLoopProofs.          *)

Reporting == {"shutdown?", "cancel?", "flush", "post"}

\* The loop runs while the process does; a claim is held exactly inside
\* process, was made by the server, and is about to be started for the first
\* time or has been started once.
HeldInv ==
    /\ up <=> pc # "down"
    /\ job = NoClaim <=> pc \in {"idle", "down"}
    /\ job # NoClaim => job[2] <= token[job[1]]
    /\ pc = "prepare" => spawns[job] = 0
    /\ pc \in InRun \cup {"abort", "reap"} => spawns[job] = 1

\* A tree is the one of a claim that was made and started once.
TreeInv ==
    \A c \in Claims :
        /\ spawns[c] <= 1
        /\ spawns[c] = 1 => c[2] <= token[c[1]]
        /\ c \in alive => spawns[c] = 1 /\ exit[c] = "none"
        /\ c \in heirs => exit[c] # "none"
        /\ exit[c] # "none" => spawns[c] = 1

\* The contexts of the held claim and their history; as long as runCtx lives
\* nothing has been killed.
ContextInv ==
    /\ job = NoClaim => runErr = "none"
    /\ runErr = "deadline" => job \in expired
    /\ runErr = "cancel" => JobCtxDone
    /\ jobCancelled => job \in cancelHit
    /\ serveDone /\ job # NoClaim => stopMet[job] # "nothing"
    /\ pc \in InRun /\ runErr = "none" => job \in alive \/ exit[job] \in {"zero", "nonzero"}
    /\ pc = "grace" => runErr # "none"
    /\ pc \in {"drain", "judge"} /\ runErr = "none" => job \notin alive

\* What is about to be reported, lies in the spool or was recorded is honest,
\* and nothing was reported under the held claim before its own post.
ReportInv ==
    /\ pc \in Reporting => verdict \in Verdicts /\ Honest(job, verdict)
    /\ \A r \in spool : /\ Honest(r.claim, r.status)
                         /\ r.claim[2] <= token[r.claim[1]]
                         /\ r.claim # job
    /\ \A c \in Claims : Concluded(c) => Honest(c, status[c[1]])
    /\ pc \notin {"idle", "down", "post"} => ~Concluded(job)

RunningInv ==
    /\ \A j \in Jobs : status[j] \in {"claimed", "running"} => token[j] > 0
    /\ \A j \in Jobs : status[j] = "running" => spawns[<<j, token[j]>>] = 1

\* A claim a shutdown met inside Run is on its way out without a report.
ShutdownInv ==
    \A c \in Claims :
        /\ stopMet[c] # "nothing" => c[2] <= token[c[1]]
        /\ stopMet[c] = "running" =>
             /\ ~Concluded(c)
             /\ \A r \in spool : r.claim # c
             /\ c = job => serveDone /\ pc \in InRun \cup {"abort", "reap", "shutdown?"}

\* What Run has killed or swept is gone when it returns.
StrayInv ==
    KillWorks => /\ pc \in {"reap", "judge"} \cup Reporting =>
                       job \notin alive /\ (Groups => job \notin heirs)
                 /\ NoStrayTree

IInv == TypeOK /\ HeldInv /\ TreeInv /\ ContextInv /\ ReportInv /\ RunningInv
        /\ ShutdownInv /\ StrayInv

-----------------------------------------------------------------------------
(* Liveness.                                                                *)

\* A claimed job never wedges the loop: process always returns (or the agent
\* goes down), whatever the script and the network do.
LoopReturns == pc \in InProcess ~> pc \in {"idle", "down"}

\* A spooled result does not stay on disk for ever: the heartbeat replays it
\* until the server has answered, unless the agent is gone.
SpoolSettles == \A r \in Records : r \in spool ~> (r \notin spool \/ ~up)

-----------------------------------------------------------------------------
(* What the documentation says and the code does not do.                    *)

\* client.go: the heartbeat returns "the cooperative-cancel flag for the job
\* this session owns": a cancel acts on a job whose cancellation was asked for.
CancelHitsRequested == \A c \in cancelHit : cancelReq[c[1]]
=============================================================================
