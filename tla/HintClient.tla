------------------------------ MODULE HintClient ------------------------------
(***************************************************************************)
(* How a resident agent comes to claim a queued job: the WebSocket hint    *)
(* client with its reconnects (internal/agent/ws.go), the wake-up channel  *)
(* of capacity one, the poll timer, and the select of Serve.Run            *)
(* (internal/agent/loop.go).  What a claim does with its job is ServeLoop's *)
(* subject.                                                                *)
(*                                                                         *)
(* The server is external: it sends a hint for a queued job over a         *)
(* connection that is up, or the hint is lost.                             *)
(***************************************************************************)
EXTENDS Naturals

CONSTANTS
    Jobs,         \* the jobs that may be queued
    BackoffSteps  \* doublings until the backoff is capped: no attempt beyond
                  \* it makes a difference

VARIABLES
    ctxDone,   \* the root context of the process is cancelled
    hpc,       \* the hint goroutine
    attempt,   \* its failed dials in a row
    frames,    \* a hint, or another frame, on the connection
    lpc,       \* the claim loop
    wake,      \* the channel Wake holds an element
    timer,     \* the poll timer
    queue      \* the jobs queued at the server

hintVars == <<hpc, attempt, frames, lpc, wake, timer, queue>>

TypeOK ==
    /\ ctxDone \in BOOLEAN
    /\ hpc \in {"off", "dial", "backoff", "read", "ended"}
    /\ attempt \in 0 .. BackoffSteps
    /\ frames \in {"none", "hint", "other"}
    /\ lpc \in {"off", "select", "claim", "process", "ended"}
    /\ wake \in BOOLEAN
    /\ timer \in {"off", "armed", "fired"}
    /\ queue \subseteq Jobs

Init ==
    /\ hpc = "off" /\ attempt = 0 /\ frames = "none"
    /\ lpc = "off" /\ wake = FALSE /\ timer = "off"
    /\ queue = {}

\* Serve.Run: the hint goroutine unless hints are disabled, and a first claim
\* right away (the timer is created fired).
Begin(enableHints) ==
    /\ lpc = "off"
    /\ hpc' = IF enableHints THEN "dial" ELSE "off"
    /\ lpc' = "select"
    /\ timer' = "fired"
    /\ UNCHANGED <<attempt, frames, wake, queue>>

\* The process ends, with everything but the server's queue.
Reset ==
    /\ hpc' = "off" /\ attempt' = 0 /\ frames' = "none"
    /\ lpc' = "off" /\ wake' = FALSE /\ timer' = "off"
    /\ UNCHANGED queue

-----------------------------------------------------------------------------
(* WSHintClient.Run.                                                        *)

loopVars == <<lpc, wake, timer, queue>>

\* The check at the head of the loop.
HintsEnd ==
    /\ hpc = "dial" /\ ctxDone
    /\ hpc' = "ended"
    /\ UNCHANGED <<attempt, frames, loopVars>>

DialFails ==
    /\ hpc = "dial" /\ ~ctxDone
    /\ attempt' = IF attempt < BackoffSteps THEN attempt + 1 ELSE attempt
    /\ hpc' = "backoff"
    /\ UNCHANGED <<frames, loopVars>>

DialWorks ==
    /\ hpc = "dial" /\ ~ctxDone
    /\ attempt' = 0
    /\ hpc' = "read"
    /\ UNCHANGED <<frames, loopVars>>

\* consume: a hint fills the wake-up channel, unless it is full.
ReadHint ==
    /\ hpc = "read" /\ frames = "hint"
    /\ wake' = TRUE
    /\ frames' = "none"
    /\ UNCHANGED <<hpc, attempt, lpc, timer, queue>>

\* Another type, an error frame, or no JSON.
ReadOther ==
    /\ hpc = "read" /\ frames = "other"
    /\ frames' = "none"
    /\ UNCHANGED <<hpc, attempt, loopVars>>

\* The connection is lost with what was on it, or the context has ended.
ReadFails ==
    /\ hpc = "read"
    /\ frames' = "none"
    /\ hpc' = IF ctxDone THEN "ended" ELSE "backoff"
    /\ UNCHANGED <<attempt, loopVars>>

\* waitBackoff's two ends.
BackoffOver ==
    /\ hpc = "backoff"
    /\ hpc' = "dial"
    /\ UNCHANGED <<attempt, frames, loopVars>>

BackoffCancelled ==
    /\ hpc = "backoff" /\ ctxDone
    /\ hpc' = "ended"
    /\ UNCHANGED <<attempt, frames, loopVars>>

Hints ==
    \/ HintsEnd \/ DialFails \/ DialWorks
    \/ ReadHint \/ ReadOther \/ ReadFails
    \/ BackoffOver \/ BackoffCancelled

-----------------------------------------------------------------------------
(* Serve.Run's loop.                                                        *)

socketVars == <<hpc, attempt, frames>>

TimerFires ==
    /\ timer = "armed"
    /\ timer' = "fired"
    /\ UNCHANGED <<socketVars, lpc, wake, queue>>

\* The select; several cases may be ready.  The context is checked again
\* before a claim.
SelectDone ==
    /\ lpc = "select" /\ ctxDone
    /\ lpc' = "ended"
    /\ UNCHANGED <<socketVars, wake, timer, queue>>

Claiming == IF ctxDone THEN "ended" ELSE "claim"

SelectWake ==
    /\ lpc = "select" /\ wake
    /\ wake' = FALSE
    /\ lpc' = Claiming
    /\ UNCHANGED <<socketVars, timer, queue>>

SelectTimer ==
    /\ lpc = "select" /\ timer = "fired"
    /\ timer' = "off"
    /\ lpc' = Claiming
    /\ UNCHANGED <<socketVars, wake, queue>>

\* Mutant: the timer is armed again only after a claim that was answered.
ClaimFailsUnarmed ==
    /\ lpc = "claim"
    /\ lpc' = IF ctxDone THEN "ended" ELSE "select"
    /\ UNCHANGED <<socketVars, wake, timer, queue>>

\* An error after the retries: back to polling, or the end.
ClaimFails ==
    /\ lpc = "claim"
    /\ IF ctxDone THEN lpc' = "ended" /\ UNCHANGED timer
                  ELSE lpc' = "select" /\ timer' = "armed"
    /\ UNCHANGED <<socketVars, wake, queue>>

NothingQueued ==
    /\ lpc = "claim" /\ queue = {}
    /\ timer' = "armed"
    /\ lpc' = "select"
    /\ UNCHANGED <<socketVars, wake, queue>>

ClaimJob(j) ==
    /\ lpc = "claim" /\ j \in queue
    /\ queue' = queue \ {j}
    /\ lpc' = "process"
    /\ UNCHANGED <<socketVars, wake, timer>>

\* process returns; more work may be waiting.
Processed ==
    /\ lpc = "process"
    /\ timer' = "fired"
    /\ lpc' = "select"
    /\ UNCHANGED <<socketVars, wake, queue>>

Claims ==
    \/ SelectDone \/ SelectWake \/ SelectTimer
    \/ ClaimFails \/ NothingQueued \/ (\E j \in Jobs : ClaimJob(j)) \/ Processed

-----------------------------------------------------------------------------
(* The server.                                                              *)

\* A job is queued; its hint is sent if the connection is up, and may be lost.
Enqueue(j) ==
    /\ j \notin queue
    /\ queue' = queue \cup {j}
    /\ frames' \in IF hpc = "read" THEN {frames, "hint"} ELSE {frames}
    /\ UNCHANGED <<hpc, attempt, lpc, wake, timer>>

SendsOther ==
    /\ hpc = "read" /\ frames = "none"
    /\ frames' = "other"
    /\ UNCHANGED <<hpc, attempt, loopVars>>

Server == (\E j \in Jobs : Enqueue(j)) \/ SendsOther
=============================================================================
