---------------------------- MODULE JobLifecycle ----------------------------
(***************************************************************************)
(* What the device control plane promises about the jobs of one device,    *)
(* without requests, spools, sessions or goroutines: a job is claimed      *)
(* under a fresh claim token, the script of a claim is started at most     *)
(* once and never after the claim's verdict, a job is `running` only once  *)
(* its script was really started, and the verdict recorded for a claim     *)
(* tells what happened to that claim's script.  ServeLoop implements it.   *)
(***************************************************************************)
EXTENDS Naturals

CONSTANTS
    Jobs,       \* the jobs of the device
    MaxClaims   \* bound: how often one job may be claimed

Claims   == Jobs \X (1 .. MaxClaims)
Verdicts == {"succeeded", "failed", "timeout", "cancelled"}

VARIABLES
    status,     \* the status of each job
    token,      \* the number of its latest claim
    runs,       \* how often the script of a claim was started
    exit,       \* how the script of a claim ended
    expired,    \* claims whose deadline passed
    stopped     \* claims the agent was told to end (a cancel or its shutdown)

vars == <<status, token, runs, exit, expired, stopped>>

Init ==
    /\ status = [j \in Jobs |-> "queued"]
    /\ token = [j \in Jobs |-> 0]
    /\ runs = [c \in Claims |-> 0]
    /\ exit = [c \in Claims |-> "none"]
    /\ expired = {}
    /\ stopped = {}

Current(c)   == token[c[1]] = c[2]
Live(j)      == status[j] \in {"claimed", "running"}
Concluded(c) == Current(c) /\ status[c[1]] \in Verdicts

\* What each verdict says about the claim it is reported for.
Truthful(c, v) ==
    \/ v = "succeeded" /\ exit[c] = "zero"
    \/ v = "failed"    /\ (exit[c] = "nonzero" \/ runs[c] = 0)
    \/ v = "timeout"   /\ c \in expired
    \/ v = "cancelled" /\ c \in stopped

Claim(j) ==
    /\ status[j] = "queued" /\ token[j] < MaxClaims
    /\ status' = [status EXCEPT ![j] = "claimed"]
    /\ token' = [token EXCEPT ![j] = @ + 1]
    /\ UNCHANGED <<runs, exit, expired, stopped>>

Requeue(j) ==
    /\ status[j] = "claimed"
    /\ status' = [status EXCEPT ![j] = "queued"]
    /\ UNCHANGED <<token, runs, exit, expired, stopped>>

Lose(j) ==
    /\ status[j] = "running"
    /\ status' = [status EXCEPT ![j] = "lost"]
    /\ UNCHANGED <<token, runs, exit, expired, stopped>>

\* The claim may have lapsed meanwhile, but it was made.
StartScript(c) ==
    /\ c[2] <= token[c[1]] /\ runs[c] = 0 /\ ~Concluded(c)
    /\ runs' = [runs EXCEPT ![c] = 1]
    /\ UNCHANGED <<status, token, exit, expired, stopped>>

EndScript(c) ==
    /\ runs[c] = 1 /\ exit[c] = "none"
    /\ \E how \in {"zero", "nonzero", "killed"} : exit' = [exit EXCEPT ![c] = how]
    /\ UNCHANGED <<status, token, runs, expired, stopped>>

ConfirmRunning(c) ==
    /\ Current(c) /\ Live(c[1]) /\ runs[c] = 1
    /\ status' = [status EXCEPT ![c[1]] = "running"]
    /\ UNCHANGED <<token, runs, exit, expired, stopped>>

Conclude(c) ==
    /\ Current(c) /\ Live(c[1])
    /\ \E v \in Verdicts : /\ Truthful(c, v)
                           /\ status' = [status EXCEPT ![c[1]] = v]
    /\ UNCHANGED <<token, runs, exit, expired, stopped>>

Expire(c) ==
    /\ runs[c] = 1
    /\ expired' = expired \cup {c}
    /\ UNCHANGED <<status, token, runs, exit, stopped>>

Stop(c) ==
    /\ stopped' = stopped \cup {c}
    /\ UNCHANGED <<status, token, runs, exit, expired>>

Next ==
    \/ \E j \in Jobs : Claim(j) \/ Requeue(j) \/ Lose(j)
    \/ \E c \in Claims : \/ StartScript(c) \/ EndScript(c) \/ ConfirmRunning(c)
                         \/ Conclude(c) \/ Expire(c) \/ Stop(c)

Spec == Init /\ [][Next]_vars
=============================================================================
