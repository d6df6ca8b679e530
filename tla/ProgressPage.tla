----------------------------- MODULE ProgressPage -----------------------------
(***************************************************************************)
(* The progress page of one inventory run (internal/ui/server.go, linger   *)
(* in cmd/sopdet/main.go): every event goes into the history and to the    *)
(* open event streams; a stream begins with the history; after the run the *)
(* page stays up for its viewers.                                          *)
(*                                                                         *)
(* Time is counted in polls of WaitForViewers.  A browser that lost its    *)
(* stream comes back after Retry polls ("retry: 2000"), a page without     *)
(* streams closes after Idle of them (6 s).                                *)
(***************************************************************************)
EXTENDS Naturals, Sequences, FiniteSets

CONSTANTS
    Viewers,        \* browsers
    EventBuffer,    \* events a stream holds (1024)
    Retry, Idle,    \* in polls
    MaxDrops,       \* bound: streams that are lost
    Never           \* the zero time

ASSUME PageAssumption ==
    /\ IsFiniteSet(Viewers)
    /\ EventBuffer \in Nat \ {0}
    /\ Retry \in Nat /\ Idle \in Nat /\ Retry <= Idle
    /\ MaxDrops \in Nat
    /\ Never \notin Nat

VARIABLES
    page,       \* "down", "up", "closed"
    history,    \* the events of the run
    viewer,     \* "away", "watching", "lost", "gone"
    queue,      \* the events that the viewer's stream holds
    got,        \* the streams the viewer's page was sent: the events of each
    ended,      \* the viewers that were shown the end of the run
    back,       \* polls until a lost viewer comes back
    stale,      \* streams of lost viewers whose handler has not returned
    fresh,      \* viewers that came after the last poll that met a stream
    drops,      \* streams lost so far
    linger,     \* WaitForViewers: "not yet", "waiting", "over"
    seen, quiet, expired  \* its locals: a viewer was there; polls without; deadline

pageVars == <<page, history, viewer, queue, got, ended, back, stale, fresh, drops, linger,
              seen, quiet, expired>>
viewerVars == <<viewer, queue, got, ended, back, stale, fresh, drops>>
lingerVars == <<linger, seen, quiet, expired>>

\* The last events of a run.
Ends == {"done", "error"}

PageInit ==
    /\ page = "down" /\ history = <<>>
    /\ viewer = [v \in Viewers |-> "away"]
    /\ queue = [v \in Viewers |-> <<>>] /\ got = [v \in Viewers |-> <<>>]
    /\ ended = {}
    /\ back = [v \in Viewers |-> 0] /\ stale = 0 /\ fresh = {} /\ drops = 0
    /\ linger = "not yet" /\ seen = FALSE /\ quiet = Never /\ expired = FALSE

-----------------------------------------------------------------------------
(* The server.                                                              *)

\* New and Serve.
Open ==
    /\ page = "down" /\ page' = "up"
    /\ UNCHANGED <<history, viewerVars, lingerVars>>

\* A full stream loses its oldest event.
Push(q, e) == Append(IF Len(q) < EventBuffer THEN q ELSE Tail(q), e)

\* Mutant: who is there already is not sent the event.
EmitToHistory(e) ==
    /\ page = "up"
    /\ history' = Append(history, e)
    /\ UNCHANGED <<page, viewerVars, lingerVars>>

Emit(e) ==
    /\ page = "up"
    /\ history' = Append(history, e)
    /\ queue' = [v \in Viewers |->
                    IF viewer[v] = "watching" THEN Push(queue[v], e) ELSE queue[v]]
    /\ UNCHANGED <<page, viewer, got, ended, back, stale, fresh, drops, lingerVars>>

\* Mutant: a stream that begins late is not given the history.
SubscribeToTheRest(v) ==
    /\ viewer' = [viewer EXCEPT ![v] = "watching"]
    /\ queue' = [queue EXCEPT ![v] = <<>>]
    /\ got' = [got EXCEPT ![v] = Append(@, <<>>)]
    /\ back' = [back EXCEPT ![v] = 0]
    /\ fresh' = fresh \cup {v}
    /\ UNCHANGED <<page, history, ended, stale, drops, lingerVars>>

\* handleEvents: under the lock, the history into a new stream, as far as it
\* holds it, and the stream among the subscribers.  What the page has of
\* earlier streams it keeps: it appends to its rows and never clears them.
Subscribe(v) ==
    /\ viewer' = [viewer EXCEPT ![v] = "watching"]
    /\ queue' = [queue EXCEPT ![v] = SubSeq(history, 1, IF Len(history) < EventBuffer
                                                        THEN Len(history) ELSE EventBuffer)]
    /\ got' = [got EXCEPT ![v] = Append(@, <<>>)]
    /\ back' = [back EXCEPT ![v] = 0]
    /\ fresh' = fresh \cup {v}
    /\ UNCHANGED <<page, history, ended, stale, drops, lingerVars>>

Connect(v) == page = "up" /\ viewer[v] = "away" /\ Subscribe(v)

\* The browser's EventSource connects again.  During the run nobody counts
\* the time it takes.
Reconnect(v) ==
    /\ page = "up" /\ viewer[v] = "lost"
    /\ linger = "waiting" => back[v] = 0
    /\ Subscribe(v)

\* The stream that the viewer's page is sent now.
Stream(v) == got[v][Len(got[v])]

\* The handler writes one event to the browser.
Write(v) ==
    /\ viewer[v] = "watching" /\ queue[v] # <<>>
    /\ queue' = [queue EXCEPT ![v] = Tail(@)]
    /\ got' = [got EXCEPT ![v][Len(got[v])] = Append(@, Head(queue[v]))]
    /\ ended' = IF Head(queue[v]) \in Ends THEN ended \cup {v} ELSE ended
    /\ UNCHANGED <<page, history, viewer, back, stale, fresh, drops, lingerVars>>

\* The connection breaks, or the page is left: the stream is lost with what
\* it holds.  Its handler has not seen it.
Break(v, now) ==
    /\ viewer[v] = "watching"
    /\ viewer' = [viewer EXCEPT ![v] = now]
    /\ queue' = [queue EXCEPT ![v] = <<>>]
    /\ stale' = stale + 1
    /\ UNCHANGED <<page, history, ended, fresh, lingerVars>>

Drop(v) ==
    /\ drops < MaxDrops /\ drops' = drops + 1
    /\ back' = [back EXCEPT ![v] = Retry]
    /\ Break(v, "lost")
    /\ UNCHANGED got

\* ... and the page with what it shows.
Leave(v) ==
    /\ Break(v, "gone")
    /\ got' = [got EXCEPT ![v] = <<>>]
    /\ UNCHANGED <<back, drops>>

\* A handler returns and takes its stream out of the subscribers.
Unsubscribe ==
    /\ stale > 0 /\ stale' = stale - 1
    /\ UNCHANGED <<page, history, viewer, queue, got, ended, back, fresh, drops, lingerVars>>

-----------------------------------------------------------------------------
(* After the run.                                                           *)

\* Mutant: the wait begins without the end of the run.
LingerAtOnce ==
    /\ page = "up" /\ linger = "not yet"
    /\ linger' = "waiting"
    /\ UNCHANGED <<page, history, viewerVars, seen, quiet, expired>>

Linger ==
    /\ page = "up" /\ linger = "not yet"
    /\ history # <<>> /\ history[Len(history)] \in Ends
    /\ linger' = "waiting"
    /\ UNCHANGED <<page, history, viewerVars, seen, quiet, expired>>

\* The subscribers.
Live == stale + Cardinality({v \in Viewers : viewer[v] = "watching"})

\* Mutant: a viewer that comes back does not start the wait anew.
PollKeepsQuiet ==
    /\ linger = "waiting"
    /\ \A v \in Viewers : viewer[v] = "lost" => back[v] > 0
    /\ seen' = (seen \/ Live > 0)
    /\ LET over == (Live = 0 /\ seen /\ quiet # Never /\ quiet + 1 >= Idle) \/ expired IN
       /\ linger' = IF over THEN "over" ELSE linger
       /\ quiet' = CASE Live > 0 -> quiet
                     [] Live = 0 /\ seen /\ ~over -> IF quiet = Never THEN 0 ELSE quiet + 1
                     [] OTHER -> quiet
    /\ back' = [v \in Viewers |-> IF viewer[v] = "lost" THEN back[v] - 1 ELSE back[v]]
    /\ fresh' = IF Live > 0 THEN {} ELSE fresh
    /\ UNCHANGED <<page, history, viewer, queue, got, ended, stale, drops, expired>>

\* One round of WaitForViewers, and half a second.  Who is due to come back
\* comes first.
Poll ==
    /\ linger = "waiting"
    /\ \A v \in Viewers : viewer[v] = "lost" => back[v] > 0
    /\ seen' = (seen \/ Live > 0)
    /\ LET over == (Live = 0 /\ seen /\ quiet # Never /\ quiet + 1 >= Idle) \/ expired IN
       /\ linger' = IF over THEN "over" ELSE linger
       /\ quiet' = CASE Live > 0 -> Never
                     [] Live = 0 /\ seen /\ ~over -> IF quiet = Never THEN 0 ELSE quiet + 1
                     [] OTHER -> quiet
    /\ back' = [v \in Viewers |-> IF viewer[v] = "lost" THEN back[v] - 1 ELSE back[v]]
    /\ fresh' = IF Live > 0 THEN {} ELSE fresh
    /\ UNCHANGED <<page, history, viewer, queue, got, ended, stale, drops, expired>>

\* Fifteen minutes.
Expire ==
    /\ linger = "waiting" /\ ~expired /\ expired' = TRUE
    /\ UNCHANGED <<page, history, viewerVars, linger, seen, quiet>>

\* Close breaks the streams that are left, with what they hold.
Close ==
    /\ linger = "over" /\ page = "up" /\ page' = "closed"
    /\ viewer' = [v \in Viewers |-> IF viewer[v] = "watching" THEN "gone" ELSE viewer[v]]
    /\ queue' = [v \in Viewers |-> <<>>]
    /\ UNCHANGED <<history, got, ended, back, stale, fresh, drops, lingerVars>>

ViewerNext == \E v \in Viewers : Connect(v) \/ Reconnect(v) \/ Write(v) \/ Drop(v) \/ Leave(v)
PageNext == ViewerNext \/ Unsubscribe \/ Linger \/ Poll \/ Expire \/ Close

\* Handlers write what their streams hold.  Nobody has to open the page or to
\* come back to it, and the wait may be over at any time or never.
PageFairness == \A v \in Viewers : WF_pageVars(Write(v))

-----------------------------------------------------------------------------
(* Properties.                                                              *)

\* Every part of the state has its type; the wait for the viewers begins with
\* the end of the run (main.go:164-171).
PageTypeOK ==
    /\ page \in {"down", "up", "closed"}
    /\ viewer \in [Viewers -> {"away", "watching", "lost", "gone"}]
    /\ \A v \in Viewers : Len(queue[v]) <= EventBuffer
    /\ ended \subseteq Viewers /\ fresh \subseteq Viewers
    /\ back \in [Viewers -> 0..Retry] /\ drops \in 0..MaxDrops /\ stale \in Nat
    /\ seen \in BOOLEAN /\ quiet \in Nat \cup {Never} /\ expired \in BOOLEAN
    /\ linger \in {"not yet", "waiting", "over"}
    /\ linger # "not yet" => history # <<>> /\ history[Len(history)] \in Ends

\* These are the first events of a run, in their order.
Beginning(events, run) ==
    Len(events) <= Len(run) /\ \A n \in 1..Len(events) : events[n] = run[n]

\* Every stream a page is sent begins with the first event of the run and
\* leaves out and repeats none, whenever the browser came; what the page has of
\* the open stream and what is on the way to it is the run so far.  A page is
\* sent the beginning of the run with each of its streams, and shows it as
\* often (server.go:95-119 and 151-165: the history and the subscription under
\* one lock; README.md:96-98).
StreamFromStart ==
    \A v \in Viewers :
        /\ \A k \in 1..Len(got[v]) : Beginning(got[v][k], history)
        /\ viewer[v] = "watching" => got[v] # <<>> /\ Stream(v) \o queue[v] = history

\* The wait ends for want of viewers only if there is none: a browser whose
\* stream broke is back in time to be counted, unless it came, and its stream
\* broke, after the last poll that met one (server.go:196-222, retry: 2000
\* against six seconds).
FoundAgain ==
    [][(linger = "waiting" /\ linger' = "over" /\ ~expired)
          => \A v \in Viewers : viewer[v] \in {"away", "gone"} \/ v \in fresh]_pageVars

\* A browser that watches is shown the end of the run, unless it leaves, its
\* stream breaks, or fifteen minutes pass after the run (server.go:95-119 and
\* 170-190, main.go:164-187).
EndIsShown ==
    \A v \in Viewers :
        viewer[v] = "watching" ~> (v \in ended \/ viewer[v] # "watching" \/ expired)
=============================================================================
