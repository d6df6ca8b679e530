# sopdet: a verification development

TLA+ models of `sopdet`, the device agent of the Bifrost platform, with the
TLC configurations that check them and TLAPS proofs about the core. Paths below
are those of the repository.

`sopdet` is one Go program with two lives. As a **one-shot inventory scan** it
collects facts about the device, trims them to a size, sends them to an ingest
endpoint (as a snapshot, or as a delta of the last delivered scan) and saves a
baseline. As a **resident agent** (`serve`) it polls the Bifrost server for
jobs, runs their scripts in a process tree, streams their output and reports
one terminal result for each.

## 1. Inventory

| Component | Where | State | Operations | What is hard |
|---|---|---|---|---|
| Serve: claim loop, heartbeat loop | `internal/agent/loop.go` | the held job and its cancel function, `serveCtx` | `Run`, `process`, `reportTerminal`, `heartbeatLoop`, `cancelCurrent` | two goroutines, three contexts, a shutdown or a crash at any step; the cancel flag is acted on long after it was read |
| Device protocol client | `internal/agent/client.go` | session id, claim tokens | `Claim`, `Heartbeat`, `ReportRunning`, `PostLogs`, `ReportResult`, `post` | retries of requests whose answer was lost, fencing, the classes of errors |
| Durable spool | `internal/agent/client.go` | a directory of record files | `Spool`, `DrainSpool`, `dropSpooledForJob`, `SweepSpool` | four writers and readers without a lock, half written files, order of replay |
| Runner | `internal/agent/runner*.go` | process tree, pipes, buffers, sequence counter, budget | `Run`, `killTree`, `waitPipes`, stream pumps | exit, deadline and cancel race; a descendant holds the pipes; a kill that fails; two pumps and two tickers |
| Hint client | `internal/agent/ws.go` | a WebSocket, the wake-up channel | `Run`, `consume`, reconnect | hints lost or merged, a wake-up against the poll timer |
| Device state, enrollment | `internal/agent/state.go`, `enroll.go`, `prepare.go` | the state file with the device key | `PrepareServe`, `Enroll`, `SaveDeviceState`, `LoadDeviceState` | a single-use token spent before the key is saved; two processes on one file |
| Serve configuration | `internal/agent/serveconfig.go` | none | precedence of flag, environment and file | none |
| Service handler, command line | `cmd/sopdet` | the channel `done`, the root context | `Execute`, `serveWithContext`, `linger` | a stop against the end of `Run`, or against an enrollment |
| Inventory run | `internal/app/run.go` | the entities of a scan | `Run`, `enforceBudget` | several partial failures, the order of delivery and save |
| Ingest client | `internal/ingest/ingest.go` | a spool of chunks | `Send`, `drain`, `post`, `spool` | some chunks delivered and some not, replays |
| Delta state | `internal/state/state.go` | the baseline file | `Load`, `Save`, `BuildDelta`, `Snapshot` | baseline and server must agree without talking about it |
| Entities, fingerprints | `internal/schema` | none | `BuildEntity`, `Fingerprint` | keys of duplicate records |
| Collection plan | `internal/collect/collect.go`, `base.go` | the report so far | `planCollectors`, `runPlan`, `runCollector` | failing, partial and panicking collectors |
| Platform collectors | `internal/collect/*` | none | about eighty collectors of three systems | what each makes of a source that is empty, absent, unreadable or half read |
| Progress reporter and page | `internal/progress`, `internal/ui`, `internal/term` | event streams, history | `Emit`, `handleEvents`, `WaitForViewers`, `Close` | browsers that come late, or lose their stream and come back |
| Tools, PowerShell package, scripts | `cmd/equivcheck`, `cmd/schemacheck`, `powershell`, `scripts` | files | run by hand | a second implementation of the inventory run |

How they interact. `Serve.Run` (goroutine 1) asks the client for a job and calls
`process`, which calls `Runner.Run`; the runner calls back `onStart`
(`ReportRunning`) and, from two pump goroutines, `onLogs` (`PostLogs`). The
heartbeat goroutine asks the server for the cancel flag, drains the spool and
cancels the context that `process` registered. The pumps, the claim loop
(`ReportResult` drains before it posts) and the heartbeat loop share the spool
directory; the hint client only wakes the claim loop. Before all of this
`serveWithContext` prepares the identity, on Windows in a goroutine beside the
handler that the service manager talks to. On the inventory side `app.Run` calls
collectors, state and ingest client one after the other and emits events, which
the progress page serves to browsers from other goroutines; what couples two runs
is the baseline file and the spool of chunks.

What makes each part correct:

* **Serve**: a claim's script is started once; a verdict tells what happened to
  that script; a claim met by a shutdown is left to the server's lost policy; no
  path leaves a child running, nor what it has forked where the system lets
  `killTree` find that; the loop always returns to polling.
* **Spool**: no payload disappears unnoticed; a replayed result does not overtake
  the logs of its job that were spooled before it; everything spooled is settled
  some day.
* **Runner**: output is neither lost, duplicated, reordered in a stream nor over
  the budget; an exit code is the script's own; `Run` returns.
* **Inventory**: a chunk is delivered or kept; the baseline is a scan the server
  can rebuild; a delta describes the device.
* **Enrollment**: a spent token leaves a usable key, or it was lost for a reason the
  code cannot help; a key stays with the server that issued it; a usable state
  file stays usable.
* **Service**: a stop is reported when nothing runs any more, and it is reported;
  a queued job is claimed.
* **Collection**: what could not be read is an error, not a change of the device.
* **Page**: each stream a browser gets is the run from its start, and who watches
  sees the end.

The full list of components is in `PROJECT.json` ("components"), the hazards,
each at its line, under "hazards".

## 2. Modules

| Module | Models | Lines of thought |
|---|---|---|
| `JobLifecycle` | the promise of the device control plane | abstract: no requests, spool, sessions or goroutines |
| `ServeLoop` | `loop.go`, with the control of `client.go` and `runner.go` | implements `JobLifecycle` |
| `ServeLoopProofs` | theorems of `ServeLoop` | the inductive invariant and what follows from it |
| `ServeLoopRefinement` | theorem: `ServeLoop` implements `JobLifecycle` | extends `ServeLoopProofs` |
| `RunnerProofs`, `SpoolProofs`, `InventoryRunProofs`, `ServeModeProofs`, `PageProofs` | theorems of the modules they are named after | `InventoryRunProofs` has those of `Delta`, `ServeModeProofs` those of `Enrollment`, `PageProofs` those of `InventoryPage` with `ProgressPage` |
| `DataLemmas` | induction, and the flattening of sequences | lemmas of `RunnerProofs` and `InventoryRunProofs` |
| `Outbox` | the promise of the device client about the payloads it is given | abstract: no requests, files, drains or goroutines |
| `Spool` | the spool directory of `client.go` and its users | files, listings, half written records and replays under way one step at a time; implements `Outbox` |
| `Runner` | `runner.go` with `runner_unix.go` and `runner_windows.go` | pipes, pumps, tickers, budget, sequence numbers |
| `Delta` | `state.go`'s `BuildDelta` and `Snapshot`, and a receiver | pure operators |
| `InventoryRun` | `app.Run`, `ingest.Send`, `state.Load`/`Save` | run after run over one baseline and one spool |
| `Enrollment` | `prepare.go`, `enroll.go`, `state.go` | several processes over one state file |
| `HintClient` | `ws.go` and the `select` of `Serve.Run` | what a wake-up may miss |
| `ServiceHandler` | `service_windows.go` | one service, its manager and its serve goroutine |
| `ServeMode` | `serveWithContext` | composes the three above |
| `Collectors` | the shape all collectors share | what a read of a source does to an answer |
| `BaseCollectors`, `LinuxCollectors`, `DarwinCollectors`, `WindowsCollectors` | `internal/collect` | each collector as the list of its reads |
| `Collection` | `collect.go`, `entity.go` | scan after scan of one device |
| `ProgressPage` | `ui/server.go`, the `EventSource` of `index.html`, `linger` | history, streams, the wait for viewers |
| `InventoryPage` | the events of `run.go` and `collect.go` | composes `Collection` and `ProgressPage` |
| `MCServeLoop`, `MCSpool`, `MCInventoryRun`, `MCServeMode`, `MCInventoryPage` | instances for TLC | |

### ServeLoop

`pc` is where goroutine 1 is: `idle` is the `select` of `Serve.Run`; `prepare`
to `judge` are inside `Runner.Run` (`prepare`: before `cmd.Start`; `notify`:
`onStart` is reporting; `run`: the `select` on `waitDone` and `runCtx`; `grace`,
`drain`: the waits after it; `judge`: the closing `switch`); `abort` and `reap`
are the path of a refused running report; `shutdown?` and `cancel?` are the two
context checks of `process`; `flush` and `post` are `ReportResult`, the drain
and the request. `hpc`, `hflag` and `htodo` are the heartbeat goroutine: where
it is, the flag it has read and the spool files it has still to replay.

Contexts are translated by what ends them: `serveDone` is `serveCtx`,
`jobCancelled` the cancel function `cancelCurrent` calls, `runErr` the first
reason `runCtx` ended for (`jobCtx` is done when either of the first two is). A
request is one step per attempt with its three kinds of outcome: answered,
finally refused, or no usable answer, in which case the server may have recorded
it all the same. `tries` counts attempts; the backoff is the time other
processes have.

The server is external. It is modelled by what the client and its tests tell
apart: a claim bumps the job's claim token; a report counts only under the
latest token of a live job (anything else is fenced); a claimed job may lapse
back to the queue, a running one may be given up as lost.

A crash drops everything in memory; the spool, the processes and the server
stay. `alive` are the claims whose script, the child of `Run`, still runs; `heirs`
those of which descendants run although the child has exited. `ScriptExit` ends
the child alone and may leave heirs, which end by themselves (`HeirsExit`) or are
found by the second `killTree` (`PipesDrained`). Whether it finds them is `Groups`:
with process groups (`runner_unix.go`) it does, and `taskkill /T`
(`runner_windows.go`), which walks the tree from a parent that is gone, does not.
Before the child has exited both kill all of the tree, or, without `KillWorks`,
the child alone or nothing. `MaxHeirs` bounds how many claims may have heirs at a time.

### Spool

One directory shared by the pumps of the current job (`PostLogs`), the claim
loop (`ReportResult`) and the heartbeat (`DrainSpool`). A file appears under its
final name, empty, when `os.WriteFile` creates it (`CreateFile`) and is complete
one step later (`WriteFile`); a drain visits the names of a listing taken
earlier and finds a file, half of one or none. What it has read it posts in a step
of its own (`ReadRecord`, then `ReplayAnswered` or `ReplayFailed`): meanwhile the
other drain may replay the same record, or a fenced result drop it. A direct post
is one step with its outcome, since nobody else has its payload, and so is
`dropSpooledForJob`, which removes records whatever becomes of them elsewhere. No
writer waits for another: `Run` gives up a reader after its second grace
(`runner.go:391-400`), so that a pump may post and spool its logs before, during or
after the report of its job's result, and during later jobs. Names
order as the code sorts them: kind, job, time. The fate of each payload is a
history variable.

`Outbox` knows a payload as pending, kept or gone. `Spool` maps to it by what is on
the disk and complete (kept), and by whether the writer is done with a payload that
is not (gone).

### Runner

Two streams of written units, each with a reader, a buffer, a ticker and the
lock they share; one budget and one sequence counter for both. Processes of the
tree are the child and one heir that may inherit the pipes. A kill may fail. The
waits of `Run` (child, context, grace, pipes, abandoned readers) are `pc` values. A
final flush empties the buffer once and ends with its own call of `onLogs`
(`flushing stdout`, `flushing stderr`), whatever a reader that was given up adds
meanwhile.

### InventoryRun and Delta

A collection is a function from keys to fingerprints. One run is collect, trim,
build, drain, send, save; `Die` ends it anywhere. `sent` and `seen` remember what
was built and what had been collected; `Rebuilt` is what a receiver makes of a
scan and its bases. Requests and their retries are one step, which the server
may have seen in either case. `enforceBudget` is one `Trim` per round, `MaxRounds` of
them at most (40 in the code). A spool directory that cannot be listed looks empty to
`drain`.

### Enrollment, HintClient, ServiceHandler and ServeMode

`Enrollment` gives each process a place in `PrepareServe` (`ppc`) and the device
state in its hands; the file is shared. A save is two steps, the temporary file
and the rename, and `End` stops a process at any of them. A key is the pair of
the server that issued it and the device it names, which is what
`ParseDeviceKeyID` and the checks of `Enroll` tell apart. `saved` and `excused`
are history: which devices reached the file, and which tokens were spent for
nothing because no usable answer came, a save failed or the process ended.

`HintClient` has the goroutine of `WSHintClient.Run` (`hpc`), the claim loop
(`lpc`), the wake-up channel, the poll timer and what is on the connection. A
claim's job is `process`, one state here: what happens inside is `ServeLoop`'s.
`attempt` counts failed dials up to the point where the backoff is capped.

`ServiceHandler` is `Execute` with the channel `done`; `status` and `report` are
what the service manager sees.

`ServeMode` joins them on the root context: the service's process prepares an
identity, then serves; a configuration that cannot be loaded (`ConfigFails`), a
refusal and a failing `NewServe` (`RefuseToServe`) are exit code 2, the end of
`Serve.Run` code 0. A second process, started at a console, prepares its identity from the same file.

### The collectors and Collection

A collector reads its sources (a command, a file, a registry key, a WMI class) one
after another and answers records, an error, or both. `Collectors` gives the
vocabulary: a `Read` names its source, where its rows go (records of their own,
fields of the records there are, numbered records, ...) and what the collector
does when the source is empty, absent, unreadable or breaks off midway (go on,
note an error, end, give up with or without the records so far). Every collector
of the code is one definition in these words; a record stands for all rows of
its source and is known by its key and by the sources that went into it, which
is what its fingerprint depends on. Sources that are read alike are represented
by two of them (the eleven DMI files, the four cron directories, the three
firewall profiles).

`Collection` plans by level and option, runs the plan, and keeps the reports of
two scans of a device on which nothing changes. What a source comes to in a scan
is chosen when the scan begins.

### ProgressPage and InventoryPage

`Emit` appends to the history and to each stream in one step, as the lock makes
it; so does a subscription with its copy of the history. `got` is the sequence of
streams a browser has received, each a sequence of events: a reconnect begins the next
one, and `index.html`, which clears nothing, shows them one after the other. A
browser's stream may break and come back, after two seconds; its handler notices
later (`stale`).
Time is counted in polls of `WaitForViewers`, once the run is over: during the
run nothing depends on it. `InventoryPage` lets the steps of a collection emit
their events and adds those of the rest of the run; a run that ends before its first
event (`BeginRun`) shows one error only.

## 3. Runs

"violation" runs each state what a comment, test or document of the repository
says of the program, and TLC shows a behaviour of the code that does otherwise
(section 6).

| Run | Checks | Bounds, and why they are enough |
|---|---|---|
| `ServeLoop_jobs` | `TypeOK`, `VerdictHonest`, `NoStrayTree`, `ShutdownLeavesRunning` | two jobs, so that a flag, a spooled result or a drain of one meets the other; two sessions: a shutdown or a crash at any step, and a successor that replays the spool; kills that work, process groups, and one claim at a time whose script leaves descendants |
| `ServeLoop_reclaim` | `SpawnedOncePerClaim`, `RunningIsReal`, `IInv`, refinement of `JobLifecycle` | one job, two claims, three sessions, requests retried once, kills that fail and do not find descendants (`Groups` false): an old claim's tree, spool record and late reports beside a new claim of the same job |
| `ServeLoop_liveness` | `IInv`, `LoopReturns`, `SpoolSettles` | one job, two sessions, every request retried once; kills that work but do not find the descendants of an exited child, as on Windows: here `IInv` brings the other half of `NoStrayTree`, which is a part of it, to bear. The spool holds one record at most; records behind a failing one are `SpoolEmpties`' matter |
| `Spool_pumps` | `SpoolInv` (with the types), `EveryPayloadAccounted`, `ReplayedResultsComeLast`, `SpoolEmpties`, refinement of `Outbox` | one job, both pumps and both drains, and a restart, under fairness; the pumps post and spool at any time, also after the result. Files of one job beside those of another are the theorems' matter (section 5): with a second job there are too many states |
| `Runner_run` | `TypeOK`, `StreamsInOrder`, `BudgetExact`, `SeqsUsedOnce`, `NothingLeftBehind`, `OutcomeOfTheScript`, `LateLogsFromAbandoned`, `StartedReturns` | two units on each stream against a budget of three: the budget ends inside either stream; a descendant that keeps the pipes open, kills that fail |
| `InventoryRun_scans` | `TypeOK`, `ChunksKept`, `BaselineRebuildable` | three scans, each of which finds one of six inventories: none (every collector failed), one entity with one, two or four records or with one that changed, two entities; a budget of one record and of one round, which brings two records within it and not four; up to two chunks. Added, changed, removed, trimmed, and a chunk spooled by the first scan that the second or the third replays |
| `ServeMode_service` | `ServeModeTypeOK`, `KeyStaysWithItsServer`, `TokenAccounted`, `StoppedMeansOver`, `KeyNeverLost`, `QueuedIsClaimed`, `StopEnds` | a service and a console process, each started twice, two servers, one token for both, four configurations, a state file that is missing, broken or another server's; one job, which is queued again and again; two steps of backoff |
| `InventoryPage_scans` | `CollectionTypeOK`, `ChangesExplained`, `PageTypeOK`, `StreamFromStart`, `FoundAgain`, `EndIsShown` | every collector of every system by itself, since collectors share nothing but the report, by name; two scans, two failures (a source fails in one scan, a collector panics in the other), four records against a limit of three. The page is watched over one part's run, which emits at most six events; two browsers, one of which may lose its stream once; a poll is two seconds: it is back after one, and three without a stream close the page |
| `ServeLoop_v_stalecancel`, `Spool_v_torn`, `InventoryRun_v_dryrun`, `InventoryRun_v_trimmed` | one statement each, violated (section 6) | those of the runs above |

What the properties say:

* `VerdictHonest`: whatever the server has recorded and whatever lies in the
  spool is true of that claim's script: `succeeded` means it exited with zero,
  `failed` that it did not, or was never started, `timeout` that its deadline
  passed, `cancelled` that a cancel or a shutdown reached it.
* `SpawnedOncePerClaim`, `RunningIsReal`: no local re-run after any uncertain
  outcome; `running` is never reported of a script that was not started.
* `ShutdownLeavesRunning`: a claim a shutdown met inside `Run` never gets a
  verdict of this agent, not even through the spool of a later session.
* `NoStrayTree`: as long as kills work, a live child is that of the held claim or
  of a crashed incarnation, and descendants live on only of a script that ended by
  itself, never of one that was killed; where `killTree` finds those, they do not
  outlive `Run` either.
* `EveryPayloadAccounted`: every payload is answered, on disk, or lost for one of
  the reasons the code accepts.
* `ReplayedResultsComeLast`: a replayed result never overtakes logs of its own job
  that were spooled before it, whoever else writes, drains and drops meanwhile. It
  leaves out logs that a drain took for corrupt, younger ones, which only a reader that
  was given up can spool, and the direct post (section 6).
* `ImplementsOutbox`: a payload becomes durable at most once, leaves the agent in the
  step that answers it or at a loss with a reason, and never turns up again.
* `StreamsInOrder`, `NothingLeftBehind`, `BudgetExact`, `SeqsUsedOnce`: the units
  delivered of a stream are a prefix of those written; nothing accepted stays in
  a buffer when `Run` returns; the budget is used to the last unit and not
  beyond; no sequence number is used twice or skipped.
* `OutcomeOfTheScript`, `LateLogsFromAbandoned`: an exit code is the script's own, and
  nothing was killed for it; a run whose child was killed reports the reason. Of a
  script that ended by itself it leaves open whether its exit or a deadline or cancel
  that came before the `switch` is reported. Logs after `Run` has returned come only
  from readers it gave up.
* `ChunksKept`: a run that ended without an error has left each of its chunks with
  the server or, complete, in the spool.
* `BaselineRebuildable`: the state file names a scan which the server can rebuild,
  through all the scans it builds on, to exactly what was collected.
* `LoopReturns`, `SpoolSettles`, `SpoolEmpties`, `StartedReturns`: the loop is never
  wedged by a job, the spool by a record, `Run` by a tree. `SpoolEmpties` says that a
  spool with files in it (`disk # {}`) is empty again some day.
* `KeyStaysWithItsServer`, `KeyNeverLost`, `TokenAccounted`: whatever two processes,
  their crashes and failed saves do, a key is used with and filed under the
  server that issued it, a state file with a key is never replaced by anything
  less, and a spent token has left its key in the file, or will, or was lost for
  a reason outside the code.
* `StoppedMeansOver`, `StopEnds`: when the handler has returned no claim, job or
  enrollment is under way, and a stop request always gets it there.
* `QueuedIsClaimed`: a job that waits at the server is claimed as long as the agent
  serves, although hints may be disabled, lost, merged, or come while the loop is
  between two of its waits, and although claims may fail.
* `ChangesExplained`: if two scans of an unchanged device differ in an entity, one of
  them reports an error for it. The exceptions are named one by one
  (`BestEffortEntities`, `BestEffortSources`, and two more in the definition):
  collectors that leave out in silence what they cannot read. The list is a
  statement about the code, too: every other collector is honest.
* `StreamFromStart`: each stream a browser gets begins with the run's first event
  and leaves out and repeats none, whenever it came and whatever was emitted meanwhile;
  what a watching browser has of its stream is, with what is on its way, the history.
  It is about streams: the page shows those of a browser that came back one after the
  other (section 6).
* `FoundAgain`, `EndIsShown`: the page does not close on a browser that is about to
  reconnect, unless no poll ever saw its stream; and who watches is shown the end,
  unless it leaves, its stream breaks, or the fifteen minutes are over.

Each property has a mutant: a definition of the model with the bug a maintainer
could make, under which TLC finds the property violated. They stand in the
modules, each before the definition it would replace, and are used by nothing.

Deadlock checking is off in every run, because each of the programs
really stops: the agent when its service is stopped and not started again, `Run`
when it has returned, the inventory run after the last scan and its page. That
nothing stops earlier is what the liveness properties say.

## 4. Fairness

Safety is checked without fairness. For liveness:

* weak fairness of the steps of a goroutine: the Go scheduler runs a goroutine
  that can run, timers fire, and every HTTP request is bounded by the client's
  timeout. Nothing is assumed of the script, the operator, crashes or kills;
* strong fairness of an answered replay (`BeatAnswered`, and the drains of
  `Spool`): the network is not down for good, so that a request which is
  repeated for ever is answered some day. Without it nothing in the code could
  empty the spool;
* `Spool`: besides that, weak fairness of a writer's step that is under way, of the
  heartbeat's drain and of the steps of a drain. No pump need have logs, and no
  result need be reported;
* `ServeMode`: weak fairness of the preparation, the goroutines, the handler's waits
  and the timer, strong fairness of a claim that finds a job, for the reason given
  for replays. That `process` returns is `LoopReturns` of `ServeLoop`, and needs
  what that needs. Nobody has to stop the service or to send a hint;
* `InventoryPage`: weak fairness of the event handlers and of the run itself:
  collectors return. Nothing is assumed of the wait's polls and of a browser's
  reconnect. The code gives
  each of them 90 seconds, which those that ignore their context do not keep
  (section 6). Nobody has to open the page, and its fifteen minutes need not pass:
  if they had to, every stream would end with them and `EndIsShown` say nothing.

`ServeLoop_liveness` needs trees that end when they are killed (`KillWorks`),
because `cmd.Wait` after a refused running report has no bound (`runner.go:301`):
a child that survives `killTree` holds the loop for ever. `StartedReturns` does
without that assumption and says what is left: `Run` returns once the running
report has been accepted.

## 5. Proofs

Each theorem holds for every value of the constants its module allows: any jobs,
outputs, budgets, inventories, processes, configurations, viewers, and any bound on
their number. All of them are of one form: an inductive invariant, one lemma for
each of its parts with a step for each action that can disturb it, and the
properties read off it. TLC checked each invariant on the bounds of the module's run
before it was proved; `IInv` and `SpoolInv` are properties of runs. Two of the
attempts found the model wrong, not the proof; they are named below.

### What is assumed

| Assumption | What it says, and why |
|---|---|
| `ConstantsAssumption` (`ServeLoop`), `RunnerAssumption`, `InventoryAssumption`, `ServeModeAssumption` | bounds, that of the rounds of `enforceBudget` among them, are numbers, `NoClaim` is no claim; the set of entities is finite and not empty |
| `SpoolAssumption` | the jobs are listed by numbers that order as their ids do, each once (a job that is claimed again is `ServeLoop`'s matter); there are finitely many pumps |
| `EnrollmentAssumption`, `GivenKeysAssumption` | the model values differ; whoever gives the agent a key names its server beside it. A key says the device it is for, not its server, so that the agent could not notice that an operator paired it with another URL |
| `PageAssumption` | finitely many viewers; a browser's retry is no longer than the idle wait (2 s in `server.go`, 6 s in `main.go`) |
| `EventsAssumption` | a stream holds the events of a run: five more than the plan is long. The real one holds 1024, the longest plan has fewer than sixty collectors. It also says that a plan is a sequence of collectors, which no prover can derive, since none expands `SelectSeq` |

Every one of them is evaluated by a run.

### The serve loop

`ServeLoopProofs` proves `Spec => []IInv` (`Invariance`) and reads the safety
properties off `IInv`. None of them is inductive by itself:

| Part of `IInv` | What it says | Why it is needed |
|---|---|---|
| `TypeOK` | types | everywhere |
| `HeldInv` | a claim is held exactly inside `process`, was made by the server, and is started at most once on its way through `Run` | a new claim has never been started; a spawn is the first |
| `TreeInv` | a tree belongs to a claim that was made and started, and has not ended twice | the exit code `Judge` reads is that of this claim's script |
| `ContextInv` | the reason a context ended for is in the claim's history; while `runCtx` lives nothing was killed | without it "failed" or "succeeded" could be the agent's own kill |
| `ReportInv` | what is about to be posted, is spooled or was recorded is honest, and nothing was reported under the held claim before its own post | carries `VerdictHonest` through retries, spool, drains and crashes |
| `RunningInv` | a job that is claimed or running has a token; `running` has a started script | `RunningIsReal` across lease expiry and re-claims |
| `ShutdownInv` | a claim a shutdown met inside `Run` is on its way out, unreported | `ShutdownLeavesRunning` across sessions |
| `StrayInv` | as long as kills work, the held claim has no child at `reap`, `judge` or later, and with process groups no descendants either | `NoStrayTree`, when the claim is let go |

Each part has a lemma that names the parts it rests on, with one step for each
action that can disturb it; the remaining actions are shown, together, to leave
its variables alone. `ReplayHonest` is the shared step of the two drains. From
`Invariance` follow `TypeCorrect`, `VerdictsAreHonest`, `SpawnedOnce`,
`RunningMeansSpawned`, `ShutdownIsSilent` and `NoTreeIsLeft`.

`ServeLoopRefinement` proves that `ServeLoop` implements `JobLifecycle`
(`Refinement`). The mapping keeps `status`, `token`, `exit` and `expired`; `runs`
is `spawns`, and a claim is `stopped` when `cancelCurrent` acted on it or a
shutdown met it. Each concrete step is one abstract step (an accepted running
report is `ConfirmRunning`, a result that passes the fence, posted or replayed
by either drain, is `Conclude`, a kill that works is `EndScript`) or a stutter;
`IInv` gives the guards: that a script is started for the first time and before
its claim's verdict, and that a result is truthful.

### The runner

`RunnerInv` has two halves. `PlaceInv` says of each place of `Run` what is settled
there: how the child ended, for what reason a tree was killed, which readers are at
their end and which buffers a flush has emptied. From it follow
`OutcomeIsTheScripts` and, with the other half, `NothingIsLeftBehind`.

`LineInv` follows the units of a stream on their way. `Got(s)` is what was accepted
of it: the text of the batches delivered, the batch in a call that has not returned
(`Held`), and the buffer. `Got` is always the first units written, what the reader
holds and what is in the pipe always the last ones, and between them lies what the
budget cut off, nothing as long as it has room. A flush, a delivery and a
rejected batch move units inside `Got` and leave it as it is; only `take` adds to it.
`BudgetInv` counts both streams against the budget, `LockInv` says that a batch in a
call is of the pump that holds the mutex, and `SeqsUsedOnce` is inductive with
it. `StreamsKeepOrder`, `BudgetIsExact` and `NumbersUsedOnce` follow, and
`LateLogs` from `PlaceInv`.

The text of a stream is a `FlattenSeq` over the batches. `DataLemmas` shows what
it needs of that: that the recursive function has a solution, and only one, its type,
and what one more element adds. Induction over numbers goes through sets
(`SetInduction`): the library's induction theorems take an operator, which the
provers cannot instantiate, but a set of numbers that has zero and the successors
of its members is an ordinary constant.

### The spool

`SpoolInv` says why pumps, claim loop and heartbeat can share a directory without a
lock. Nothing in it rests on the pumps being done when the result is reported: they
need not be. `WriterInv`: a goroutine has a file open exactly while it writes it, of a
job that has begun, and the loop is busy with the current job's result and no other.
`ClockInv`: every name in use, on the disk or in a listing, is older than the clock, so
that no new file takes the place of one a drain has listed. `FileInv`: a file that is being written is not whole,
and is gone only if a drain took it for corrupt; what a drain posts it has read from a
whole file. `ListInv`: a drain that has a result still to visit has each log of its job that
is on the disk and older than the result still to visit, too, unless it was met half
written: the log was there when the drain listed the directory, and sorts before the
result. `PayloadsAccounted` and `ReplayedResultsLast` follow.

`KeptInv` is what the refinement needs beyond that. A payload has one file ever; the
writer of a whole file is done with its payload, even when the file is gone; a file
that is not whole has a writer, or its payload went with a crash. So the removal of a
whole file takes its payload out of the agent's hands, the removal of any other
takes none, and a record that two drains replay, or that comes back from a post
after it was dropped, changes nothing but the answers. `SpoolImplementsOutbox` shows
how each step is seen from outside: `WriteFile` keeps a payload, or loses it if its
name was removed meanwhile; an answered post, direct, replayed or fenced, is
`Answer`; a 408, a failed write, a record taken for corrupt, its removal, and a
restart with all the payloads at hand and all the files swept are `Lose`; the
others leave the outbox alone.

### Inventory runs and deltas

`DeltaRestores`: applied to the older of any two collections, their delta gives
the newer one. `ScanRestored`: the same of whole scans, entity by entity.

`InventoryInv` carries this through any number of runs. `EnvelopeInv`: an envelope
builds on an earlier one. `RunInv` and `SendInv`: where a run is, what of its chunks
is with the server, in the spool, or still to send. `MessageInv`: as long as nothing
was a dry run, the server knows what the envelope at hand builds on, and makes of
the two what was collected. `Rebuilt` and `Known` are recursive functions over the
scans; that they have solutions, only one, that those of earlier scans do not
change when a scan is added, and that what the server knows only grows, are lemmas of
their own. In an earlier form they ranged over `0 .. MaxScans`. The proof of
existence failed beyond `Scan`, where the equation refers to envelopes that are not
there; now they range over `0 .. Scan`. `FinishedChunksKept`,
`BaselineIsRebuildable` and `InventoryTypeCorrect` follow.

### The identity and serve mode

`IdentityInv` is about any number of processes at one state file: the file is the one
that was there or a state the code built (`Proper`: its key is of its server), and
a process that compares, writes or serves has such a state of the very server it is
configured for. `KeysKeepTheirServer` follows. `TokensAccounted` is inductive with
`IdentityInv`: a step that spends a token leaves the key in the process's hands, and
each step that takes it from there saves it or names the excuse. `KeysAreNeverLost` is
an action property: only the rename of a complete file replaces the state. Each step
of `ServeMode` is one of `Enrollment` or leaves it alone (`ServeModeEnrolls`), which
brings the three into the composition.

`ServeModeInv` adds the service's side: its process serves only with an identity
that is ready, and its exit code exists only when serve mode is over. From that
follows `StoppedIsOver`.

### The page of a run

`PageInv` relates a run to its page. `HistoryInv` bounds what a run emits: at each
point of it, the events shown and those still to come fit into a stream
(`HistoryFits`). So no stream ever drops its oldest event, and `StreamsInv` (every
stream a browser has got is a beginning of the history, and the last one of a watching
browser with what its queue holds is the history) is inductive:
`StreamsFromStart`. `PageSteps` shows that of the page each step of the composition
is one of its own or shows an event, before the run's last one and with room for it.

`WaitInv` is for `ViewersFoundAgain`: of a lost viewer that was counted by a poll, the
polls without a stream, the polls until it is back and one make no more than
`Retry`; since `Retry <= Idle`, the wait cannot end first. The first attempt at this
proof found `FoundAgain` wrong: a poll that met no stream cleared the set of viewers no
poll has counted, and with a retry as long as the wait, a viewer that came and broke
off between two polls was lost against the property. Its stream was never counted,
so `fresh` now keeps it until a poll that meets a stream.

### What is only model-checked

* Liveness, which needs fairness and `ENABLED`: `LoopReturns`, `SpoolSettles`,
  `SpoolEmpties`, `StartedReturns`, `QueuedIsClaimed`, `StopEnds`, `EndIsShown`.
* `CollectionTypeOK` and `ChangesExplained`. They are statements about each of the
  eighty collectors, one table of reads each, over a device that TLC enumerates;
  what is general in them is `Collect`, a fold over the reads, and what a fold answers
  for every list needs induction over data, which no installed prover carries out.
* That `FlattenSeq`, `Rebuilt` and `Known` are what they are meant to be for given
  data is TLC's to show; the proofs use their equations.


## 6. Disagreements found

Four statements of the repository are refuted by a run; `PROJECT.json`
("findings") quotes the line of each.

| Run | What the code does |
|---|---|
| `ServeLoop_v_stalecancel` | the cancel flag of one job kills the next one: the spool is drained between reading the flag and acting on it (`loop.go:187`) |
| `Spool_v_torn` | a drain removes a record that is just being written, and `Spool` reports success (`client.go:537`) |
| `InventoryRun_v_dryrun` | a dry run moves the baseline past what the server has (`run.go:155`) |
| `InventoryRun_v_trimmed` | a delta of trimmed collections reports live records as removed (`run.go:92`) |

Further places where code and text differ were read in the code while modelling.
The models contain the behaviour; no run states them:

* `loop.go:260`: a shutdown between the two context checks of `process` is
  reported as a cooperative cancel (the comment at 258-259 speaks of a cancel);
* `runner.go:299`: when the running report is refused after `cmd.Start`, the job
  may be claimed and started again, although `onStart` is there for the platform to
  tell a safe reclaim from a lost job (`CHANGELOG.md:142-143`);
* `loop.go:13`, `195-196`: "one job at a time" holds of the loop, not of process
  trees: a crash leaves one behind;
* `client.go:529` against `508`: replay is in the order of names (kind, job,
  time), not of creation;
* `client.go:376`: HTTP 408 is retried as transient and then dropped as final;
* `client.go:403` against `400-401`: a result overtakes its job's spooled logs
  when the drain before it fails, and logs of a reader that `Run` gave up
  (`runner.go:391-400`) may be posted or spooled after it;
* `runner.go:347` against the comment above it: on Windows the second `killTree`
  finds nothing of a child that has exited, as `runner.go:382-390` says itself, so
  that descendants of a script that ended by itself are left behind;
* `prepare.go:101`: two processes may both enroll and replace each other's key: the
  file keeps the key of the second rename, and the first device is enrolled for
  nothing;
* `runner.go:363` against `41-42`: a script that exits by itself while its
  deadline passes is reported as timed out;
* `runner.go:124` against `61`: the two pumps may call `onLogs` out of the order
  of their sequence numbers;
* `runner.go:301` against `75-79`: an unbounded wait after a refused report;
* `service_windows.go:65-68` against `25-28`: a stop during enrollment ends with
  serve mode's exit code 2, which is then reported as a plain Win32 code and not
  as a service-specific failure;
* `prepare.go:71-72` against `77-83`: the writable probe makes it likely, not
  certain, that a token is not spent in vain: the save may still fail;
* `prepare.go:51-88`: a state file that cannot be read is an error without a token,
  and is replaced with one;
* `loop.go:119-120`: no poll hint of the server is followed;
* `ws.go:136-161`: a server that accepts connections and closes them is dialled
  again after the base backoff for ever, `attempt` starts anew with each;
* `assess_linux.go:220-230` against `README.md:175`, which promises each record "a
  stable `key`": the cron directories are visited in the order of a map's
  iteration and their entries numbered along the way, so that a delta of two
  equal scans may remove and add all of them;
* `entity.go:23-28` against its comment, "ensures unique keys": records named `a`,
  `a` and `a#2` leave two of one key. Keys are not texts in the model, which does
  not see this;
* `README.md:175-177` says that sections which cannot be read are reported "rather
  than guessed"; the entities and sources that `ChangesExplained` excepts are left
  out without a word, or replaced: Windows' monitors by a second class, macOS'
  jobs by the property lists on disk, a missing `sshd` on an unreadable
  configuration;
* `linux.go:268-285`: the error of a package database is dropped when a later one
  has rows (`linux_test.go:15` has no later one with rows);
* `collect.go:55`: collectors over WMI, the registry, `runCommand` and gopsutil do not
  heed the context, and the 90 seconds do not end them;
* `index.html:218-256`: the stream that reconnects begins with the history again,
  and the page appends every entity a second time;
* `run.go:148` and `main.go:166`: a failed delivery is shown as two errors.

## 7. Not modelled, and the plan

Abstracted everywhere: durations (a timer may fire as soon as it is armed), the
text of messages, logging, authentication, and process ids (a tree is known by
its claim, so that the reuse of a process id by the operating system is not
seen).

Left out of the modules above: the temp script's encoding and the interpreter's
lookup (one failing step of `Run`), the copy of the envelope in `-out`, the exact
split into chunks (one chunk or one per entity), decorators, the access token of
the page, the modes of files.

Not modelled, and why:

* the parsers of `assess_parse.go` and the fields collectors fill: what a text says
  is data; a model of it would be the text's format again. A source's rows are
  there or not;
* `Fingerprint`'s canonical JSON and hash: two records differ if other sources
  went into them;
* the configurations (`config.go`, `serveconfig.go`): chains of "if set, then this",
  of which a reference definition would be a copy. What they decide is an input
  of the modules that use it;
* the terminal view and the index page, which draw the events;
* `equivcheck` and `schemacheck`, which compare two finished documents;
* the PowerShell agent, a second implementation of the inventory run, in one
  script without concurrency; deployment and release scripts.

What is left to prove is about the collections: `CollectionTypeOK` (what a collector
may answer, as lemmas about `Collect`), and of `ChangesExplained` the part that holds
of every collector, that equal outcomes give equal reports. Both need induction over
the reads of a collector first (section 5, "What is only model-checked"). `ServeLoop`
replays a record in one step where `Spool` takes two; its properties are about
claims, whose fence refuses the second copy.
