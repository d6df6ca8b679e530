------------------------------ MODULE ServeMode ------------------------------
(***************************************************************************)
(* Serve mode as a Windows service (cmd/sopdet/main.go, serveWithContext): *)
(* the service handler, the preparation of the identity, and the serve     *)
(* loop with its hint client, which runs only once the identity is ready.  *)
(* Another process, started at a console, may share the state file.        *)
(***************************************************************************)
EXTENDS Enrollment

CONSTANTS
    Service,        \* the process that runs as a service
    Jobs,
    BackoffSteps,
    NoCode

ASSUME ServeModeAssumption ==
    Service \in Procs /\ BackoffSteps \in Nat /\ NoCode \notin 0 .. 2

VARIABLES ctxDone, spc, done, status, report,
          hpc, attempt, frames, lpc, wake, timer, queue

H == INSTANCE HintClient
S == INSTANCE ServiceHandler

service == <<spc, done, status, report, ctxDone>>
serving == <<hpc, attempt, frames, lpc, wake, timer, queue>>
vars    == <<prepareVars, service, serving>>

ServeModeTypeOK == TypeOK /\ H!TypeOK /\ S!TypeOK

ServeModeInit == Init /\ H!Init /\ S!Init

-----------------------------------------------------------------------------
(* main and serveWithContext.                                               *)

StartService(c) ==
    /\ S!Execute
    /\ Start(Service, c)
    /\ UNCHANGED serving

StartConsole(p, c) ==
    /\ p # Service
    /\ Start(p, c)
    /\ UNCHANGED <<service, serving>>

PrepareServe(p) ==
    /\ Prepare(p)
    /\ UNCHANGED <<service, serving>>

\* Before Serve.Run.
RefuseToServe(p) ==
    /\ p = Service => lpc = "off"
    /\ NewServeFails(p)
    /\ UNCHANGED <<service, serving>>

\* No configuration, no identity or no Serve: exit code 2.
RefusedToServe ==
    /\ ppc[Service] = "refused"
    /\ S!Returns(2)
    /\ UNCHANGED <<prepareVars, serving>>

\* Serve.Run, of the Serve that NewServe makes.
BeginServing ==
    /\ ppc[Service] = "ready"
    /\ \E enableHints \in BOOLEAN : H!Begin(enableHints)
    /\ UNCHANGED <<prepareVars, service>>

\* Serve.Run has no error to return: exit code 0.
ServeReturns ==
    /\ lpc = "ended"
    /\ S!Returns(0)
    /\ UNCHANGED <<prepareVars, serving>>

\* The process of the service ends, after Execute or by a crash.
ServiceEnds == S!Exit /\ End(Service) /\ H!Reset

ConsoleEnds(p) ==
    /\ p # Service
    /\ End(p)
    /\ UNCHANGED <<service, serving>>

Serving(A) == A /\ UNCHANGED <<prepareVars, service>>
Handling   == S!Handler /\ UNCHANGED <<prepareVars, serving>>

ServeModeNext ==
    \/ \E c \in Configs : StartService(c)
    \/ \E p \in Procs : \/ \E c \in Configs : StartConsole(p, c)
                        \/ PrepareServe(p) \/ RefuseToServe(p) \/ ConsoleEnds(p)
    \/ RefusedToServe \/ BeginServing \/ ServeReturns \/ ServiceEnds
    \/ Handling
    \/ Serving(H!Hints) \/ Serving(H!Claims) \/ Serving(H!TimerFires) \/ Serving(H!Server)

\* Goroutines run, timers fire, requests end within their timeouts; a claim
\* that is repeated for ever is answered some day; process returns (the
\* property LoopReturns of ServeLoop).
Fairness ==
    /\ WF_vars(PrepareServe(Service))
    /\ WF_vars(RefusedToServe) /\ WF_vars(BeginServing) /\ WF_vars(ServeReturns)
    /\ WF_vars(S!SeesDone /\ UNCHANGED <<prepareVars, serving>>)
    /\ WF_vars(S!Stopped /\ UNCHANGED <<prepareVars, serving>>)
    /\ WF_vars(Serving(H!Hints))
    /\ WF_vars(Serving(H!TimerFires))
    /\ WF_vars(Serving(H!Claims))
    /\ \A j \in Jobs : SF_vars(Serving(H!ClaimJob(j)))

ServeModeSpec == ServeModeInit /\ [][ServeModeNext]_vars /\ Fairness

-----------------------------------------------------------------------------
\* When Execute has returned, its process has nothing left to do: no claim and
\* no job of the loop is under way, and no half prepared identity.
StoppedMeansOver ==
    spc = "return" => lpc = "ended" \/ (lpc = "off" /\ ppc[Service] = "refused")

\* A queued job is claimed as long as the agent serves, with hints disabled,
\* lost, or come while another job ran, and through claims that fail.
QueuedIsClaimed ==
    \A j \in Jobs : j \in queue ~> (j \notin queue \/ lpc \in {"off", "ended"} \/ ctxDone)

\* A stop request ends the service from whatever it is doing: preparing its
\* identity, waiting, claiming or processing.
StopEnds == spc = "stop" ~> spc \in {"return", "off"}
=============================================================================
