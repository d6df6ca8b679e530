----------------------------- MODULE InventoryPage -----------------------------
(***************************************************************************)
(* Scans of a device, the last of them with a progress page                *)
(* (internal/app/run.go, cmd/sopdet/main.go): what the run does emits the  *)
(* events that the page shows.                                             *)
(***************************************************************************)
EXTENDS Collection, ProgressPage

CONSTANT Watched    \* the systems and parts whose last scan is run with the page

\* A stream holds the events of a run: its start, its plan, an event for each
\* collector, and at most three after the collection.  (That a plan is a
\* sequence of collectors is said because no prover expands SelectSeq.)
ASSUME EventsAssumption ==
    /\ MaxScans \in Nat \ {0}
    /\ \A watched \in Watched : \A session \in Sessions :
          LET plan == Planned(watched[1], session, watched[2]) IN
          plan \in Seq(Range(All(watched[1]))) /\ Len(plan) + 5 <= EventBuffer

pageRunVars == <<vars, pageVars>>

PageRunInit == Init /\ PageInit

\* The scan at hand is the one with the page.
OnPage == <<os, part>> \in Watched /\ Len(reports) = MaxScans - 1

\* What a step of the run emits, if there is a page.
Shown(e) == IF OnPage THEN Emit(e) ELSE UNCHANGED pageVars

\* main.go: the page before the run.
OpenPage == OnPage /\ ~scanning /\ Open /\ UNCHANGED vars

\* Run begins, or it has no identity and is over.
BeginRun ==
    /\ OnPage /\ ~scanning /\ history = <<>>
    /\ \E e \in {"start", "error"} : Emit(e)
    /\ UNCHANGED vars

StartShown ==
    /\ OnPage => history = <<"start">>
    /\ \E session \in Sessions : Start(session)
    /\ Shown("plan")

RunShown == (RunCollector \/ Panics) /\ Shown("entity")

\* The end of the collection: nothing is shown of it.
FinishRun == Finish /\ UNCHANGED pageVars

\* What may follow once the collection is over: the budget may trim entities;
\* a file or the state may be unreadable, or the delivery fail, which is shown
\* twice.
Follow(e) ==
    CASE e = "plan" -> {"budget", "deliver", "undelivered", "error"}
      [] e = "entity" -> {"budget", "deliver", "undelivered", "error"}
      [] e = "budget" -> {"deliver", "undelivered", "error"}
      [] e = "deliver" -> {"done", "error"}
      [] e = "undelivered" -> {"error"}
      [] OTHER -> {}

\* Run after the collection, an event at a time.
Conclude ==
    /\ <<os, part>> \in Watched /\ Len(reports) = MaxScans
    /\ \E e \in Follow(history[Len(history)]) : Emit(e)
    /\ UNCHANGED vars

RunNext == OpenPage \/ BeginRun \/ StartShown \/ RunShown \/ FinishRun \/ Conclude
PageRunNext == RunNext \/ (PageNext /\ UNCHANGED vars)

\* Collectors return, deliveries end: the run with the page goes on.
RunOnPage == <<os, part>> \in Watched /\ Len(reports) >= MaxScans - 1 /\ RunNext

PageRunSpec ==
    PageRunInit /\ [][PageRunNext]_pageRunVars /\ WF_pageRunVars(RunOnPage) /\ PageFairness
=============================================================================
