---------------------------- MODULE ServiceHandler ----------------------------
(***************************************************************************)
(* The Windows service around serve mode (cmd/sopdet/service_windows.go):  *)
(* Execute between the service control manager's requests and the serve    *)
(* goroutine, which puts its exit code into the channel done.              *)
(***************************************************************************)
EXTENDS Naturals

CONSTANT NoCode     \* the channel is empty; nothing was reported

VARIABLES
    ctxDone,    \* the root context is cancelled
    spc,        \* Execute
    done,       \* the channel, of capacity one
    status,     \* the last state reported to the manager
    report      \* what Execute returned

serviceVars == <<spc, done, status, report>>

Codes == 0 .. 2

TypeOK ==
    /\ spc \in {"off", "run", "stop", "return"}
    /\ done \in Codes \cup {NoCode}
    /\ status \in {"stopped", "running", "stop pending"}
    /\ report = NoCode \/ report \in [specific : BOOLEAN, code : Codes]

Init ==
    /\ ctxDone = FALSE
    /\ spc = "off"
    /\ done = NoCode
    /\ status = "stopped"
    /\ report = NoCode

\* The manager starts the service: StartPending, the serve goroutine, Running.
Execute ==
    /\ spc = "off"
    /\ spc' = "run"
    /\ status' = "running"
    /\ ctxDone' = FALSE
    /\ done' = NoCode
    /\ report' = NoCode

\* serveWithContext returns in its goroutine.
Returns(code) ==
    /\ spc \in {"run", "stop"} /\ done = NoCode
    /\ done' = code
    /\ UNCHANGED <<ctxDone, spc, status, report>>

\* The select meets the end of serve first: a clean stop, or a failure of the
\* service's own that the manager recovers from.
SeesDone ==
    /\ spc = "run" /\ done # NoCode
    /\ report' = [specific |-> done # 0, code |-> done]
    /\ status' = IF done = 0 THEN "stopped" ELSE status
    /\ spc' = "return"
    /\ done' = NoCode
    /\ ctxDone' = TRUE

\* Mutant: the context is not cancelled.
StopWithoutCancel ==
    /\ spc = "run"
    /\ status' = "stop pending"
    /\ spc' = "stop"
    /\ UNCHANGED <<ctxDone, done, report>>

\* Stop or Shutdown.
Stop ==
    /\ spc = "run"
    /\ status' = "stop pending"
    /\ ctxDone' = TRUE
    /\ spc' = "stop"
    /\ UNCHANGED <<done, report>>

\* Mutant: the handler does not wait for serve.
StoppedAtOnce ==
    /\ spc = "stop"
    /\ report' = [specific |-> FALSE, code |-> IF done = NoCode THEN 0 ELSE done]
    /\ status' = "stopped"
    /\ spc' = "return"
    /\ done' = NoCode
    /\ UNCHANGED ctxDone

Stopped ==
    /\ spc = "stop" /\ done # NoCode
    /\ report' = [specific |-> FALSE, code |-> done]
    /\ status' = "stopped"
    /\ spc' = "return"
    /\ done' = NoCode
    /\ UNCHANGED ctxDone

Handler == SeesDone \/ Stop \/ Stopped

\* The process of a service ends, after Execute has returned or by a crash.
Exit ==
    /\ spc # "off"
    /\ spc' = "off"
    /\ status' = "stopped"
    /\ ctxDone' = FALSE
    /\ done' = NoCode
    /\ UNCHANGED report
=============================================================================
