------------------------------ MODULE PageProofs ------------------------------
(***************************************************************************)
(* Proofs about the progress page of a run (InventoryPage): its streams    *)
(* lose nothing, because the events of a run are bounded by what a stream  *)
(* holds, and its wait counts every viewer that comes back in time.        *)
(***************************************************************************)
EXTENDS InventoryPage, SequenceTheorems, FiniteSetTheorems, TLAPS

\* What a run shows.
Events == {"start", "plan", "entity", "budget", "deliver", "undelivered", "done", "error"}

LastShown == history[Len(history)]

\* Events that may follow one, once the collection is over.
Rank(e) ==
    CASE e \in {"start", "plan", "entity"} -> 3
      [] e = "budget" -> 2
      [] e \in {"deliver", "undelivered"} -> 1
      [] OTHER -> 0

IsWatched == <<os, part>> \in Watched

-----------------------------------------------------------------------------
(* The inductive invariant.                                                 *)

\* The scans, as far as the page depends on them.
ScansInv ==
    /\ reports \in Seq(Range(reports))
    /\ Len(reports) <= MaxScans
    /\ scanning \in BOOLEAN
    /\ scanning => Len(reports) < MaxScans

\* How far the run is, and what of it is in the history: there is always room
\* in a stream for what is still to be shown.
HistoryInv ==
    /\ history \in Seq(Events)
    /\ page = "down" => history = <<>>
    /\ ~IsWatched \/ Len(reports) < MaxScans - 1 => page = "down"
    /\ OnPage /\ ~scanning => todo = <<>> /\ history \in {<<>>, <<"start">>, <<"error">>}
    /\ OnPage /\ scanning =>
          /\ todo \in Seq(Range(All(os)))
          /\ history # <<>> /\ LastShown \in {"plan", "entity"}
          /\ Len(history) + Len(todo) + 3 <= EventBuffer
    /\ IsWatched /\ Len(reports) = MaxScans =>
          /\ history # <<>> /\ LastShown # "start"
          /\ Len(history) + Rank(LastShown) <= EventBuffer

\* The viewers, and their streams.
ViewersInv ==
    /\ page \in {"down", "up", "closed"}
    /\ viewer \in [Viewers -> {"away", "watching", "lost", "gone"}]
    /\ page = "down" => \A v \in Viewers : viewer[v] = "away"
    /\ ended \subseteq Viewers /\ fresh \subseteq Viewers
    /\ back \in [Viewers -> 0..Retry] /\ drops \in 0..MaxDrops /\ stale \in Nat

StreamsInv ==
    /\ queue \in [Viewers -> Seq(Events)] /\ got \in [Viewers -> Seq(Seq(Events))]
    /\ \A v \in Viewers : viewer[v] # "watching" => queue[v] = <<>>
    /\ StreamFromStart

\* The wait: a viewer that the polls know of and that is lost has been without
\* its stream for as long as the page has been without any.
WaitInv ==
    /\ linger \in {"not yet", "waiting", "over"}
    /\ seen \in BOOLEAN /\ expired \in BOOLEAN
    /\ quiet \in Nat \cup {Never}
    /\ linger = "not yet" => quiet = Never
    /\ linger # "not yet" => history # <<>> /\ LastShown \in Ends
    /\ linger = "waiting" =>
          \A v \in Viewers \ fresh :
             /\ viewer[v] = "watching" => quiet = Never
             /\ viewer[v] = "lost" /\ quiet # Never => quiet + back[v] + 1 <= Retry

PageInv == ScansInv /\ HistoryInv /\ ViewersInv /\ StreamsInv /\ WaitInv

-----------------------------------------------------------------------------
(* What the run does to the page.                                           *)

\* The events are shown while the page has not seen the end of the run, and
\* there is room for them.
Shows(e) ==
    /\ Emit(e)
    /\ history = <<>> \/ LastShown \notin Ends
    /\ Len(history) < EventBuffer

PageStep == Open \/ (\E e \in Events : Shows(e)) \/ PageNext

\* Strings of the events, told apart.
LEMMA EventsType ==
    /\ Ends \subseteq Events /\ "start" \in Events \ Ends
    /\ {"plan", "entity"} \subseteq Events \ Ends
    /\ \A e \in Events : Follow(e) \subseteq Events \ {"start", "plan", "entity"}
    /\ \A e \in Ends : Follow(e) = {}
    /\ \A e \in Events : \A f \in Follow(e) : Rank(f) + 1 <= Rank(e)
    /\ \A e \in Events : Rank(e) \in 0..3
  BY DEF Events, Ends, Follow, Rank

\* A sequence with one more element.
LEMMA AppendLast ==
  ASSUME NEW T, NEW s \in Seq(T), NEW e \in T
  PROVE  /\ Append(s, e) \in Seq(T) /\ Append(s, e) # <<>>
         /\ Len(Append(s, e)) = Len(s) + 1
         /\ Append(s, e)[Len(Append(s, e))] = e
  OBVIOUS

\* A sequence is one of its own elements.
LEMMA OwnRange ==
  ASSUME NEW T, NEW t \in Seq(T)
  PROVE  t \in Seq(Range(t))
<1>1. Len(t) \in Nat /\ DOMAIN t = 1 .. Len(t)
  OBVIOUS
<1>2. \A i \in 1 .. Len(t) : t[i] \in Range(t)
  BY <1>1 DEF Range
<1>3. t \in [1 .. Len(t) -> Range(t)]
  BY <1>2
<1> QED BY <1>1, <1>3, SeqDef

LEMMA AppendOwnRange ==
  ASSUME NEW s, s \in Seq(Range(s)), NEW e
  PROVE  Append(s, e) \in Seq(Range(Append(s, e)))
<1> DEFINE T == Range(s) \cup {e}
<1>1. Append(s, e) \in Seq(T)
  <2>1. s \in Seq(T)
    <3> HIDE DEF T
    <3>1. Range(s) \subseteq T
      BY DEF T
    <3> QED BY <3>1
  <2> HIDE DEF T
  <2>2. e \in T
    BY DEF T
  <2> QED BY <2>1, <2>2
<1> HIDE DEF T
<1> QED BY <1>1, OwnRange

\* The scans go on whatever the page does.
LEMMA ScansStep ==
  ASSUME ScansInv, [PageRunNext]_pageRunVars
  PROVE  ScansInv' /\ <<os, part>>' = <<os, part>>
<1>1. CASE (\E session \in Sessions : Start(session))
  BY <1>1 DEF Start, ScansInv, given
<1>2. CASE RunCollector \/ Panics
  BY <1>2 DEF RunCollector, Panics, Report, ScansInv, given
<1>3. CASE Finish
  <2>1. /\ Len(reports) < MaxScans /\ reports \in Seq(Range(reports))
    BY <1>3 DEF Finish, ScansInv
  <2>2. PICK r : reports' = Append(reports, r)
    BY <1>3 DEF Finish
  <2>3. reports' \in Seq(Range(reports'))
    BY <2>1, <2>2, AppendOwnRange
  <2>4. Len(reports') = Len(reports) + 1
    BY <2>1, <2>2
  <2>5. Len(reports') <= MaxScans
    BY <2>1, <2>4, EventsAssumption
  <2> QED BY <1>3, <2>3, <2>5 DEF Finish, ScansInv, given
<1>4. CASE UNCHANGED vars
  BY <1>4 DEF vars, ScansInv
<1> QED
  BY <1>1, <1>2, <1>3, <1>4
     DEF PageRunNext, RunNext, OpenPage, BeginRun, StartShown, RunShown, FinishRun, Conclude,
         pageRunVars

-----------------------------------------------------------------------------
(* The run.  Before its last scan it leaves the page alone; the last scan   *)
(* shows an event with every step but the end of the collection.            *)

\* An event is appended.
LEMMA ShownIsLast ==
  ASSUME HistoryInv, NEW e \in Events, Emit(e)
  PROVE  /\ history' \in Seq(Events) /\ history' # <<>> /\ LastShown' = e
         /\ Len(history') = Len(history) + 1 /\ Len(history) \in Nat
         /\ page = "up" /\ page' = "up"
<1>1. history' = Append(history, e) /\ history \in Seq(Events)
  BY DEF Emit, HistoryInv
<1>2. history' \in Seq(Events) /\ history' # <<>> /\ LastShown' = e
  BY <1>1, AppendLast DEF LastShown
<1> QED BY <1>1, <1>2 DEF Emit

LEMMA OpenHistory ==
  ASSUME ScansInv, HistoryInv, OpenPage
  PROVE  HistoryInv' /\ Open
<1>1. /\ OnPage /\ ~scanning /\ page' = "up"
      /\ UNCHANGED <<os, part, reports, scanning, todo, history>> /\ todo = <<>>
  BY DEF OpenPage, Open, vars, HistoryInv
<1>2. OnPage' /\ Len(reports) # MaxScans /\ ~(Len(reports) < MaxScans - 1) /\ IsWatched
  BY <1>1, EventsAssumption DEF OnPage, IsWatched
<1> QED BY <1>1, <1>2 DEF HistoryInv, IsWatched, OnPage, OpenPage

LEMMA BeginHistory ==
  ASSUME ScansInv, HistoryInv, BeginRun
  PROVE  HistoryInv' /\ \E e \in Events : Shows(e)
<1>1. PICK e \in {"start", "error"} : Emit(e)
  BY DEF BeginRun
<1>2. /\ OnPage /\ ~scanning /\ history = <<>> /\ todo = <<>>
      /\ UNCHANGED <<os, part, reports, scanning, todo>>
  BY DEF BeginRun, vars, HistoryInv
<1>3. e \in Events
  BY DEF Events
<1>4. history' = <<e>> /\ page' = "up"
  BY <1>1, <1>2 DEF Emit
<1>5. Len(history) < EventBuffer
  BY <1>2, PageAssumption
<1>6. Shows(e)
  BY <1>1, <1>2, <1>5 DEF Shows
<1>7. OnPage' /\ Len(reports) # MaxScans /\ ~(Len(reports) < MaxScans - 1)
  BY <1>2, EventsAssumption DEF OnPage
<1>8. history' \in Seq(Events) /\ history' \in {<<>>, <<"start">>, <<"error">>}
  BY <1>3, <1>4
<1> QED BY <1>2, <1>3, <1>4, <1>6, <1>7, <1>8 DEF HistoryInv, OnPage, IsWatched

LEMMA StartHistory ==
  ASSUME ScansInv, HistoryInv, StartShown
  PROVE  HistoryInv' /\ (UNCHANGED pageVars \/ \E e \in Events : Shows(e))
<1>1. PICK session \in Sessions : Start(session)
  BY DEF StartShown
<1>2. /\ ~scanning /\ scanning' /\ UNCHANGED <<os, part, reports>>
      /\ todo' = Planned(os, session, part)
  BY <1>1 DEF Start, given
<1>3. OnPage' = OnPage /\ IsWatched' = IsWatched
  BY <1>2 DEF OnPage, IsWatched
<1>4. Len(reports) < MaxScans
  BY <1>1 DEF Start
<1>5. CASE ~OnPage
  <2>1. UNCHANGED pageVars
    BY <1>5 DEF StartShown, Shown
  <2>2. UNCHANGED <<page, history>> /\ Len(reports) # MaxScans
    BY <1>4, <2>1, EventsAssumption DEF pageVars
  <2> QED BY <1>2, <1>3, <1>5, <2>1, <2>2 DEF HistoryInv, IsWatched, OnPage
<1>6. CASE OnPage
  <2>1. Emit("plan") /\ "plan" \in Events
    BY <1>6 DEF StartShown, Shown, Events
  <2>2. history = <<"start">>
    BY <1>6 DEF StartShown
  <2>3. todo' \in Seq(Range(All(os))) /\ Len(todo') + 5 <= EventBuffer /\ Len(todo') \in Nat
    <3>1. <<os, part>> \in Watched
      BY <1>6 DEF OnPage
    <3>2. /\ Planned(os, session, part) \in Seq(Range(All(os)))
          /\ Len(Planned(os, session, part)) + 5 <= EventBuffer
      BY <3>1, EventsAssumption
    <3> QED BY <1>2, <3>2
  <2>4. Len(history) <= 1 /\ LastShown \notin Ends
    BY <2>2 DEF LastShown, Ends
  <2>5. EventBuffer \in Nat
    BY PageAssumption
  <2>6. /\ history' \in Seq(Events) /\ history' # <<>> /\ LastShown' = "plan"
        /\ Len(history') = Len(history) + 1 /\ Len(history) \in Nat /\ page' = "up"
    BY <2>1, ShownIsLast
  <2>7. Shows("plan")
    BY <2>1, <2>3, <2>4, <2>5, <2>6 DEF Shows
  <2>8. Len(history') + Len(todo') + 3 <= EventBuffer
    BY <2>3, <2>4, <2>5, <2>6
  <2>9. IsWatched /\ Len(reports) = MaxScans - 1 /\ MaxScans \in Nat
    BY <1>6, EventsAssumption DEF OnPage, IsWatched
  <2>10. HistoryInv'
    BY <1>2, <1>3, <2>3, <2>6, <2>8, <2>9 DEF HistoryInv
  <2> QED BY <2>1, <2>7, <2>10
<1> QED BY <1>5, <1>6

LEMMA CollectorHistory ==
  ASSUME ScansInv, HistoryInv, RunShown
  PROVE  HistoryInv' /\ (UNCHANGED pageVars \/ \E e \in Events : Shows(e))
<1>1. /\ todo # <<>> /\ todo' = Tail(todo) /\ UNCHANGED <<os, part, reports, scanning>>
  BY DEF RunShown, RunCollector, Panics, Report, given
<1>2. OnPage' = OnPage /\ IsWatched' = IsWatched
  BY <1>1 DEF OnPage, IsWatched
<1>3. CASE ~OnPage
  <2>1. UNCHANGED pageVars
    BY <1>3 DEF RunShown, Shown
  <2>2. UNCHANGED <<page, history, LastShown>>
    BY <2>1 DEF pageVars, LastShown
  <2> QED BY <1>1, <1>2, <1>3, <2>1, <2>2 DEF HistoryInv
<1>4. CASE OnPage
  <2>1. Emit("entity") /\ "entity" \in Events
    BY <1>4 DEF RunShown, Shown, Events
  <2>2. /\ scanning /\ todo \in Seq(Range(All(os)))
        /\ history # <<>> /\ LastShown \in {"plan", "entity"}
        /\ Len(history) + Len(todo) + 3 <= EventBuffer
    BY <1>1, <1>4 DEF HistoryInv, ScansInv
  <2>3. todo' \in Seq(Range(All(os))) /\ Len(todo') = Len(todo) - 1 /\ Len(todo') \in Nat
    <3> DEFINE T == Range(All(os))
    <3>1. todo \in Seq(T) /\ todo # <<>> /\ todo' = Tail(todo)
      BY <1>1, <2>2
    <3> HIDE DEF T
    <3>2. Tail(todo) \in Seq(T) /\ Len(Tail(todo)) = Len(todo) - 1 /\ Len(Tail(todo)) \in Nat
      BY <3>1
    <3>3. Tail(todo) \in Seq(Range(All(os)))
      BY <3>2 DEF T
    <3> QED BY <3>1, <3>2, <3>3
  <2>4. EventBuffer \in Nat
    BY PageAssumption
  <2>5. /\ history' \in Seq(Events) /\ history' # <<>> /\ LastShown' = "entity"
        /\ Len(history') = Len(history) + 1 /\ Len(history) \in Nat /\ page' = "up"
    BY <2>1, ShownIsLast
  <2>6. Shows("entity")
    <3>1. LastShown \notin Ends
      BY <2>2 DEF Ends
    <3>2. Len(history) < EventBuffer
      BY <2>2, <2>3, <2>4, <2>5
    <3> QED BY <2>1, <3>1, <3>2 DEF Shows
  <2>7. Len(history') + Len(todo') + 3 <= EventBuffer
    BY <2>2, <2>3, <2>4, <2>5
  <2>8. IsWatched /\ Len(reports) = MaxScans - 1 /\ MaxScans \in Nat
    BY <1>4, EventsAssumption DEF OnPage, IsWatched
  <2>9. todo' \in Seq(Range(All(os)))'
    BY <1>1, <2>3
  <2>10. HistoryInv'
    BY <1>1, <1>2, <2>2, <2>5, <2>7, <2>8, <2>9 DEF HistoryInv
  <2> QED BY <2>1, <2>6, <2>10
<1> QED BY <1>3, <1>4

LEMMA FinishHistory ==
  ASSUME ScansInv, HistoryInv, FinishRun
  PROVE  HistoryInv' /\ UNCHANGED pageVars
<1>1. /\ scanning /\ ~scanning' /\ todo = <<>> /\ todo' = <<>> /\ UNCHANGED <<os, part>>
      /\ UNCHANGED pageVars
  BY DEF FinishRun, Finish, given
<1>2. UNCHANGED <<page, history, LastShown>> /\ IsWatched' = IsWatched
  BY <1>1 DEF pageVars, LastShown, IsWatched
<1>3. Len(reports') = Len(reports) + 1 /\ Len(reports) \in Nat /\ Len(reports) < MaxScans
  <2>1. PICK r : reports' = Append(reports, r)
    BY DEF FinishRun, Finish
  <2> QED BY <1>1, <2>1 DEF ScansInv
<1>4. MaxScans \in Nat /\ EventBuffer \in Nat
  BY EventsAssumption, PageAssumption
<1>5. CASE IsWatched /\ Len(reports) = MaxScans - 1
  <2>1. OnPage /\ ~OnPage' /\ Len(reports') = MaxScans
    BY <1>1, <1>3, <1>4, <1>5 DEF OnPage, IsWatched
  <2>2. /\ history # <<>> /\ LastShown \in {"plan", "entity"}
        /\ Len(history) + 3 <= EventBuffer
    BY <1>1, <1>4, <2>1 DEF HistoryInv
  <2>3. Rank(LastShown) = 3 /\ LastShown # "start"
    BY <2>2 DEF Rank
  <2>4. page # "down"
    BY <2>2 DEF HistoryInv
  <2>5. (Len(history) + Rank(LastShown) <= EventBuffer)'
    BY <1>2, <2>2, <2>3
  <2> HIDE DEF Rank, LastShown
  <2>6. ~(Len(reports') < MaxScans - 1)
    BY <1>4, <2>1
  <2> QED BY <1>1, <1>2, <1>5, <2>1, <2>2, <2>3, <2>4, <2>5, <2>6 DEF HistoryInv
<1>6. CASE ~(IsWatched /\ Len(reports) = MaxScans - 1)
  <2>1. page = "down" /\ history = <<>>
    <3>1. ~IsWatched \/ Len(reports) < MaxScans - 1
      BY <1>3, <1>4, <1>6
    <3> QED BY <3>1 DEF HistoryInv
  <2>2. ~(IsWatched' /\ Len(reports') = MaxScans)
    BY <1>2, <1>3, <1>4, <1>6
  <2> QED BY <1>1, <1>2, <2>1, <2>2 DEF HistoryInv
<1> QED BY <1>1, <1>5, <1>6

LEMMA ConcludeHistory ==
  ASSUME ScansInv, HistoryInv, Conclude
  PROVE  HistoryInv' /\ \E e \in Events : Shows(e)
<1>1. /\ IsWatched /\ Len(reports) = MaxScans
      /\ UNCHANGED <<os, part, scanning, todo, reports>>
  BY DEF Conclude, vars, IsWatched
<1>2. PICK e \in Follow(LastShown) : Emit(e)
  BY DEF Conclude, LastShown
<1>3. /\ history \in Seq(Events) /\ history # <<>>
      /\ Len(history) + Rank(LastShown) <= EventBuffer
  BY <1>1 DEF HistoryInv
<1>4. LastShown \in Events
  BY <1>3 DEF LastShown
<1>5. e \in Events /\ LastShown \notin Ends /\ e # "start"
  BY <1>2, <1>4, EventsType
<1>6. Rank(e) + 1 <= Rank(LastShown) /\ Rank(e) \in 0..3 /\ Rank(LastShown) \in 0..3
  BY <1>2, <1>4, <1>5, EventsType
<1>7. /\ history' \in Seq(Events) /\ history' # <<>> /\ LastShown' = e
      /\ Len(history') = Len(history) + 1 /\ Len(history) \in Nat /\ page' = "up"
  BY <1>2, <1>5, ShownIsLast
<1>8. EventBuffer \in Nat /\ MaxScans \in Nat
  BY EventsAssumption, PageAssumption
<1>9. Shows(e)
  BY <1>2, <1>3, <1>5, <1>6, <1>7, <1>8 DEF Shows
<1>10. Len(history') + Rank(e) <= EventBuffer
  BY <1>3, <1>6, <1>7, <1>8
<1>11. Rank(LastShown)' = Rank(e)
  BY <1>7 DEF Rank
<1>12. IsWatched' /\ ~OnPage' /\ Len(reports') = MaxScans
  BY <1>1, <1>8 DEF IsWatched, OnPage
<1>13. ~(Len(reports') < MaxScans - 1)
  BY <1>8, <1>12
<1>14. HistoryInv'
  BY <1>5, <1>7, <1>10, <1>11, <1>12, <1>13 DEF HistoryInv
<1> QED BY <1>5, <1>9, <1>14

\* What the page and its viewers do adds nothing to the history.
LEMMA PageHistory ==
  ASSUME HistoryInv, PageNext, UNCHANGED vars
  PROVE  HistoryInv'
<1>1. history' = history
  BY DEF PageNext, ViewerNext, Connect, Reconnect, Subscribe, Write, Drop, Leave, Break,
         Unsubscribe, Linger, Poll, Expire, Close
<1>2. page' = page \/ (page = "up" /\ page' = "closed")
  BY DEF PageNext, ViewerNext, Connect, Reconnect, Subscribe, Write, Drop, Leave, Break,
         Unsubscribe, Linger, Poll, Expire, Close
<1>3. UNCHANGED <<os, part, scanning, todo, reports>>
  BY DEF vars
<1>4. UNCHANGED <<IsWatched, OnPage, LastShown, Rank(LastShown), Range(All(os))>>
  BY <1>1, <1>3 DEF IsWatched, OnPage, LastShown
<1> QED BY <1>1, <1>2, <1>3, <1>4 DEF HistoryInv

\* Of the page, a step is one of its own, or shows an event there is room for.
LEMMA PageSteps ==
  ASSUME ScansInv, HistoryInv, [PageRunNext]_pageRunVars
  PROVE  HistoryInv' /\ [PageStep]_pageVars
<1>1. CASE OpenPage
  BY <1>1, OpenHistory DEF PageStep
<1>2. CASE StartShown
  BY <1>2, StartHistory DEF PageStep
<1>3. CASE RunShown
  BY <1>3, CollectorHistory DEF PageStep
<1>4. CASE FinishRun
  BY <1>4, FinishHistory DEF PageStep
<1>5. CASE Conclude
  BY <1>5, ConcludeHistory DEF PageStep
<1>6. CASE PageNext /\ UNCHANGED vars
  BY <1>6, PageHistory DEF PageStep
<1>7. CASE BeginRun
  BY <1>7, BeginHistory DEF PageStep
<1>8. CASE UNCHANGED pageRunVars
  <2>1. UNCHANGED <<os, part, scanning, todo, reports, page, history>> /\ UNCHANGED pageVars
    BY <1>8 DEF pageRunVars, vars, pageVars
  <2>2. UNCHANGED <<IsWatched, OnPage, LastShown, Rank(LastShown), Range(All(os))>>
    BY <2>1 DEF IsWatched, OnPage, LastShown
  <2> QED BY <2>1, <2>2 DEF HistoryInv
<1> QED
  BY <1>1, <1>2, <1>3, <1>4, <1>5, <1>6, <1>7, <1>8 DEF PageRunNext, RunNext

\* A stream holds every event of the run.
LEMMA HistoryFits ==
  ASSUME ScansInv, HistoryInv
  PROVE  history \in Seq(Events) /\ Len(history) <= EventBuffer
<1>1. /\ EventBuffer \in Nat \ {0} /\ MaxScans \in Nat
      /\ Len(reports) \in Nat /\ Len(reports) <= MaxScans /\ scanning \in BOOLEAN
      /\ history \in Seq(Events) /\ Len(history) \in Nat
  BY EventsAssumption, PageAssumption DEF ScansInv, HistoryInv
<1>2. CASE ~IsWatched \/ Len(reports) < MaxScans - 1
  BY <1>1, <1>2 DEF HistoryInv
<1>3. CASE OnPage /\ ~scanning
  <2>1. history = <<>> \/ history = <<"start">> \/ history = <<"error">>
    BY <1>3 DEF HistoryInv
  <2>2. Len(<<>>) = 0 /\ Len(<<"start">>) = 1 /\ Len(<<"error">>) = 1
    OBVIOUS
  <2>3. Len(history) <= 1
    <3>1. Len(history) = 0 \/ Len(history) = 1
      BY <2>1, <2>2
    <3> QED BY <3>1
  <2> QED BY <1>1, <2>3
<1>4. CASE OnPage /\ scanning
  <2>1. todo \in Seq(Range(All(os))) /\ Len(history) + Len(todo) + 3 <= EventBuffer
    BY <1>4 DEF HistoryInv
  <2>2. Len(todo) \in Nat
    BY <2>1
  <2> QED BY <1>1, <2>1, <2>2
<1>5. CASE IsWatched /\ Len(reports) = MaxScans
  <2>1. Len(history) + Rank(LastShown) <= EventBuffer /\ history # <<>>
    BY <1>5 DEF HistoryInv
  <2>2. LastShown \in Events
    BY <1>1, <2>1 DEF LastShown
  <2>3. Rank(LastShown) \in 0..3
    BY <2>2, EventsType
  <2> QED BY <1>1, <2>1, <2>3
<1> QED BY <1>1, <1>2, <1>3, <1>4, <1>5 DEF OnPage, IsWatched

-----------------------------------------------------------------------------
(* The viewers.                                                             *)

LEMMA ViewersStep ==
  ASSUME ViewersInv, [PageStep]_pageVars
  PROVE  ViewersInv'
<1> USE PageAssumption
<1>1. CASE Open
  BY <1>1 DEF Open, viewerVars, ViewersInv
<1>2. ASSUME NEW e \in Events, Shows(e) PROVE ViewersInv'
  BY <1>2 DEF Shows, Emit, ViewersInv
<1>3. ASSUME NEW v \in Viewers, page = "up", Subscribe(v) PROVE ViewersInv'
  BY <1>3 DEF Subscribe, ViewersInv
<1>4. ASSUME NEW v \in Viewers, Write(v) PROVE ViewersInv'
  BY <1>4 DEF Write, ViewersInv
<1>5. ASSUME NEW v \in Viewers, NEW now \in {"lost", "gone"}, Break(v, now),
             drops' \in 0..MaxDrops, back' \in [Viewers -> 0..Retry]
      PROVE  ViewersInv'
  BY <1>5 DEF Break, ViewersInv
<1>6. ASSUME NEW v \in Viewers, Drop(v) \/ Leave(v) PROVE ViewersInv'
  <2>1. drops' \in 0..MaxDrops /\ back' \in [Viewers -> 0..Retry]
    BY <1>6 DEF Drop, Leave, ViewersInv
  <2> QED BY <1>5, <1>6, <2>1 DEF Drop, Leave
<1>7. CASE Unsubscribe
  BY <1>7 DEF Unsubscribe, ViewersInv
<1>8. CASE Linger \/ Expire
  BY <1>8 DEF Linger, Expire, viewerVars, ViewersInv
<1>9. CASE Poll
  <2>1. back' \in [Viewers -> 0..Retry]
    BY <1>9 DEF Poll, ViewersInv
  <2>2. fresh' \subseteq Viewers
    BY <1>9 DEF Poll, ViewersInv
  <2>3. UNCHANGED <<page, viewer, ended, drops, stale>>
    BY <1>9 DEF Poll
  <2> QED BY <2>1, <2>2, <2>3 DEF ViewersInv
<1>10. CASE Close
  BY <1>10 DEF Close, ViewersInv
<1>11. CASE UNCHANGED pageVars
  BY <1>11 DEF pageVars, ViewersInv
<1> QED
  BY <1>1, <1>2, <1>3, <1>4, <1>6, <1>7, <1>8, <1>9, <1>10, <1>11
     DEF PageStep, PageNext, ViewerNext, Connect, Reconnect

\* Open streams are counted.
LEMMA LiveType ==
  ASSUME ViewersInv
  PROVE  /\ Live \in Nat
         /\ Live = 0 => \A v \in Viewers : viewer[v] # "watching"
<1> DEFINE W == {v \in Viewers : viewer[v] = "watching"}
<1>1. IsFiniteSet(W)
  BY PageAssumption, FS_Subset
<1>2. Cardinality(W) \in Nat /\ (Cardinality(W) = 0 => W = {})
  BY <1>1, FS_CardinalityType, FS_EmptySet
<1>3. stale \in Nat /\ Live = stale + Cardinality(W)
  BY DEF ViewersInv, Live
<1>4. Live \in Nat /\ (Live = 0 => Cardinality(W) = 0)
  <2> DEFINE c == Cardinality(W)
  <2>1. c \in Nat /\ Live = stale + c
    BY <1>2, <1>3
  <2> HIDE DEF c, W
  <2> QED BY <1>3, <2>1 DEF c
<1> QED BY <1>2, <1>4

-----------------------------------------------------------------------------
(* The streams.                                                             *)

\* The streams hold what the browsers have not got of the history, and what
\* they hold is no more than the history is long.
LEMMA StreamFits ==
  ASSUME NEW h \in Seq(Events), NEW g \in Seq(Events), NEW q \in Seq(Events), g \o q = h
  PROVE  Len(q) <= Len(h)
<1>1. Len(h) = Len(g) + Len(q) /\ Len(g) \in Nat /\ Len(q) \in Nat
  OBVIOUS
<1> DEFINE m == Len(h) n == Len(g) k == Len(q)
<1>2. m = n + k /\ n \in Nat /\ k \in Nat
  BY <1>1
<1> HIDE DEF m, n, k
<1> QED BY <1>2 DEF m, k

LEMMA StreamShows ==
  ASSUME NEW g \in Seq(Events), NEW q \in Seq(Events), NEW e \in Events
  PROVE  g \o Append(q, e) = Append(g \o q, e)
<1>1. Append(q, e) = q \o <<e>> /\ Append(g \o q, e) = (g \o q) \o <<e>>
  OBVIOUS
<1>2. g \in Seq(Events) /\ q \in Seq(Events) /\ <<e>> \in Seq(Events)
  OBVIOUS
<1>3. (g \o q) \o <<e>> = g \o (q \o <<e>>)
  BY ONLY <1>2, ConcatAssociative
<1> QED BY <1>1, <1>3

LEMMA StreamWrites ==
  ASSUME NEW g \in Seq(Events), NEW q \in Seq(Events), q # <<>>
  PROVE  Append(g, Head(q)) \o Tail(q) = g \o q
<1>1. Append(g, Head(q)) = g \o <<Head(q)>> /\ q = <<Head(q)>> \o Tail(q)
  OBVIOUS
<1>2. <<Head(q)>> \in Seq(Events) /\ Tail(q) \in Seq(Events)
  OBVIOUS
<1>3. (g \o <<Head(q)>>) \o Tail(q) = g \o (<<Head(q)>> \o Tail(q))
  BY <1>2
<1> QED BY <1>1, <1>3

\* What a browser has of a stream is a beginning of the run, also of a longer
\* one.
LEMMA StreamBegins ==
  ASSUME NEW g \in Seq(Events), NEW q \in Seq(Events)
  PROVE  Beginning(g, g \o q)
<1>1. Len(g \o q) = Len(g) + Len(q) /\ Len(g) \in Nat /\ Len(q) \in Nat
  OBVIOUS
<1>2. \A n \in 1..Len(g) : (g \o q)[n] = g[n]
  OBVIOUS
<1>3. Len(g) <= Len(g \o q)
  <2> DEFINE m == Len(g \o q) n == Len(g) k == Len(q)
  <2>1. m = n + k /\ n \in Nat /\ k \in Nat
    BY <1>1
  <2> HIDE DEF m, n, k
  <2> QED BY <2>1 DEF m, n
<1> QED BY <1>2, <1>3 DEF Beginning

LEMMA BeginningGrows ==
  ASSUME NEW s \in Seq(Events), NEW h \in Seq(Events), NEW e \in Events, Beginning(s, h)
  PROVE  Beginning(s, Append(h, e))
<1>1. /\ Len(s) \in Nat /\ Len(h) \in Nat /\ Len(Append(h, e)) = Len(h) + 1
      /\ Len(s) <= Len(h) /\ \A n \in 1..Len(s) : s[n] = h[n]
  BY DEF Beginning
<1>2. \A n \in 1..Len(h) : Append(h, e)[n] = h[n]
  OBVIOUS
<1>3. \A n \in 1..Len(s) : n \in 1..Len(h)
  BY <1>1
<1> QED BY <1>1, <1>2, <1>3 DEF Beginning

\* The event goes into every open stream: none is full.
LEMMA ShowsStreams ==
  ASSUME ScansInv, HistoryInv, ViewersInv, StreamsInv, NEW e \in Events, Shows(e)
  PROVE  StreamsInv'
<1>1. history \in Seq(Events) /\ Len(history) \in Nat /\ EventBuffer \in Nat
  BY HistoryFits, PageAssumption
<1>2. UNCHANGED <<viewer, got>> /\ history' = Append(history, e)
  BY DEF Shows, Emit
<1>3. queue \in [Viewers -> Seq(Events)] /\ got \in [Viewers -> Seq(Seq(Events))]
  BY DEF StreamsInv
<1>4. ASSUME NEW v \in Viewers
      PROVE  /\ queue'[v] \in Seq(Events)
             /\ viewer'[v] # "watching" => queue'[v] = <<>>
             /\ viewer'[v] = "watching" =>
                   got'[v] # <<>> /\ Stream(v)' \o queue'[v] = history'
  <2>1. CASE viewer[v] # "watching"
    <3>1. queue'[v] = queue[v] /\ queue[v] = <<>>
      BY <1>4, <2>1 DEF Shows, Emit, StreamsInv
    <3> QED BY <1>2, <1>3, <2>1, <3>1
  <2>2. CASE viewer[v] = "watching"
    <3>1. got[v] # <<>> /\ Stream(v) \o queue[v] = history
      BY <2>2 DEF StreamsInv, StreamFromStart
    <3>2. queue[v] \in Seq(Events) /\ Stream(v) \in Seq(Events)
      BY <1>3, <3>1 DEF Stream
    <3>3. Stream(v) \o Append(queue[v], e) = Append(history, e)
      BY <3>1, <3>2, StreamShows
    <3>4. Len(queue[v]) < EventBuffer
      <4>1. Len(queue[v]) <= Len(history) /\ Len(history) < EventBuffer
        BY <1>1, <3>1, <3>2, StreamFits, Zenon DEF Shows
      <4>2. Len(queue[v]) \in Nat
        BY <3>2
      <4> QED BY <1>1, <4>1, <4>2
    <3>5. queue'[v] = Append(queue[v], e)
      BY <2>2, <3>4 DEF Shows, Emit, Push
    <3>6. queue'[v] \in Seq(Events)
      BY <3>2, <3>5, AppendProperties
    <3>7. Stream(v)' = Stream(v) /\ got'[v] = got[v] /\ viewer'[v] = "watching"
      BY <1>2, <2>2 DEF Stream
    <3>8. Stream(v)' \o queue'[v] = history'
      BY <1>2, <3>3, <3>5, <3>7
    <3> QED BY <3>1, <3>6, <3>7, <3>8
  <2> QED BY <2>1, <2>2
<1>5. ASSUME NEW v \in Viewers, NEW k \in 1..Len(got'[v])
      PROVE  Beginning(got'[v][k], history')
  <2>1. got[v][k] \in Seq(Events) /\ Beginning(got[v][k], history)
    BY <1>2, <1>3, <1>5 DEF StreamsInv, StreamFromStart
  <2>2. Beginning(got[v][k], Append(history, e))
    BY <1>1, <2>1, BeginningGrows
  <2> QED BY <1>2, <2>2
<1>6. queue' = [v \in Viewers |-> queue'[v]]
  BY DEF Shows, Emit
<1>7. queue' \in [Viewers -> Seq(Events)]
  BY <1>4, <1>6
<1> QED BY <1>2, <1>3, <1>4, <1>5, <1>7 DEF StreamsInv, StreamFromStart

\* A stream begins: what the page was sent before stays.
LEMMA SubscribeStreams ==
  ASSUME ScansInv, HistoryInv, ViewersInv, StreamsInv, NEW v \in Viewers, Subscribe(v)
  PROVE  StreamsInv'
<1>1. /\ history \in Seq(Events) /\ Len(history) \in Nat /\ EventBuffer \in Nat
      /\ Len(history) <= EventBuffer
  BY HistoryFits, PageAssumption
<1>2. SubSeq(history, 1, IF Len(history) < EventBuffer THEN Len(history) ELSE EventBuffer)
        = history
  <2>1. (IF Len(history) < EventBuffer THEN Len(history) ELSE EventBuffer) = Len(history)
    BY <1>1
  <2>2. SubSeq(history, 1, Len(history)) = history
    BY <1>1
  <2> QED BY <2>1, <2>2
<1>3. /\ viewer' = [viewer EXCEPT ![v] = "watching"] /\ queue' = [queue EXCEPT ![v] = history]
      /\ got' = [got EXCEPT ![v] = Append(@, <<>>)] /\ history' = history
  BY <1>2 DEF Subscribe
<1>4. /\ queue \in [Viewers -> Seq(Events)] /\ got \in [Viewers -> Seq(Seq(Events))]
      /\ viewer \in [Viewers -> {"away", "watching", "lost", "gone"}]
  BY DEF StreamsInv, ViewersInv
<1>5. PICK g \in Seq(Seq(Events)) : g = got[v]
  BY <1>4
<1>6. <<>> \in Seq(Events)
  OBVIOUS
<1>7. /\ Append(g, <<>>) \in Seq(Seq(Events)) /\ Append(g, <<>>) # <<>>
      /\ Len(Append(g, <<>>)) = Len(g) + 1 /\ Len(g) \in Nat
      /\ Append(g, <<>>)[Len(Append(g, <<>>))] = <<>>
      /\ \A k \in 1..Len(g) : Append(g, <<>>)[k] = g[k]
  BY <1>6
<1>8. queue' \in [Viewers -> Seq(Events)] /\ got' \in [Viewers -> Seq(Seq(Events))]
  BY <1>1, <1>3, <1>4, <1>5, <1>7
<1>9. got'[v] = Append(g, <<>>) /\ queue'[v] = history /\ viewer'[v] = "watching"
  BY <1>3, <1>4, <1>5
<1>10. got'[v] # <<>> /\ Stream(v)' \o queue'[v] = history'
  <2>1. Stream(v)' = <<>>
    BY <1>7, <1>9 DEF Stream
  <2>2. <<>> \o history = history
    BY <1>1
  <2> QED BY <1>3, <1>7, <1>9, <2>1, <2>2
<1>11. ASSUME NEW k \in 1..Len(got'[v])
       PROVE  Beginning(got'[v][k], history')
  <2>1. CASE k \in 1..Len(g)
    <3>1. got'[v][k] = got[v][k] /\ k \in 1..Len(got[v])
      BY <1>5, <1>7, <1>9, <2>1
    <3>2. Beginning(got[v][k], history)
      BY <3>1 DEF StreamsInv, StreamFromStart
    <3> QED BY <1>3, <3>1, <3>2
  <2>2. CASE k = Len(g) + 1
    <3>1. got'[v][k] = <<>>
      BY <1>7, <1>9, <2>2
    <3>2. Beginning(<<>>, history)
      BY <1>1 DEF Beginning
    <3> QED BY <1>3, <3>1, <3>2
  <2> QED BY <1>7, <1>9, <2>1, <2>2
<1>12. ASSUME NEW w \in Viewers \ {v}
       PROVE  viewer'[w] = viewer[w] /\ queue'[w] = queue[w] /\ got'[w] = got[w]
  BY <1>3, <1>4
<1>13. ASSUME NEW w \in Viewers \ {v}
       PROVE  Stream(w)' = Stream(w)
  BY <1>12 DEF Stream
<1>14. ASSUME NEW w \in Viewers, viewer'[w] # "watching"
       PROVE  queue'[w] = <<>>
  BY <1>9, <1>12, <1>14 DEF StreamsInv
<1>15. StreamFromStart'
  <2>1. ASSUME NEW w \in Viewers, NEW k \in 1..Len(got'[w])
        PROVE  Beginning(got'[w][k], history')
    <3>1. CASE w = v
      <4>1. k \in 1..Len(got'[v]) /\ got'[w][k] = got'[v][k]
        BY <2>1, <3>1
      <4> QED BY <1>11, <4>1
    <3>2. CASE w # v
      <4>1. got'[w] = got[w]
        BY <1>12, <3>2
      <4>2. Beginning(got[w][k], history)
        BY <4>1 DEF StreamsInv, StreamFromStart
      <4> QED BY <1>3, <4>1, <4>2
    <3> QED BY <3>1, <3>2
  <2>2. ASSUME NEW w \in Viewers, viewer'[w] = "watching"
        PROVE  got'[w] # <<>> /\ Stream(w)' \o queue'[w] = history'
    <3>1. CASE w = v
      <4>1. Stream(w)' = Stream(v)' /\ got'[w] = got'[v] /\ queue'[w] = queue'[v]
        BY <3>1 DEF Stream
      <4> QED BY <1>10, <4>1
    <3>2. CASE w # v
      <4>1. viewer[w] = "watching" /\ got'[w] = got[w] /\ queue'[w] = queue[w]
        BY <1>12, <2>2, <3>2
      <4>2. got[w] # <<>> /\ Stream(w) \o queue[w] = history
        BY <4>1 DEF StreamsInv, StreamFromStart
      <4>3. Stream(w)' = Stream(w)
        BY <1>13, <3>2
      <4> QED BY <1>3, <4>1, <4>2, <4>3
    <3> QED BY <3>1, <3>2
  <2> QED BY <2>1, <2>2 DEF StreamFromStart
<1> QED BY <1>8, <1>14, <1>15 DEF StreamsInv

\* An event goes from a stream to its browser.
LEMMA WriteStreams ==
  ASSUME HistoryInv, StreamsInv, NEW v \in Viewers, Write(v)
  PROVE  StreamsInv'
<1>1. /\ queue' = [queue EXCEPT ![v] = Tail(@)] /\ queue[v] # <<>>
      /\ got' = [got EXCEPT ![v][Len(got[v])] = Append(@, Head(queue[v]))]
      /\ viewer[v] = "watching" /\ UNCHANGED <<viewer, history>>
  BY DEF Write
<1>2. queue \in [Viewers -> Seq(Events)] /\ got \in [Viewers -> Seq(Seq(Events))]
  BY DEF StreamsInv
<1>3. got[v] # <<>> /\ Stream(v) \o queue[v] = history
  BY <1>1 DEF StreamsInv, StreamFromStart
<1>4. PICK g \in Seq(Seq(Events)) : g = got[v]
  BY <1>2
<1>5. PICK n \in 1..Len(g) : n = Len(g)
  <2>1. g # <<>> /\ g \in Seq(Seq(Events))
    BY <1>3, <1>4
  <2>2. Len(g) \in 1..Len(g)
    BY <2>1
  <2> QED BY <2>2
<1>6. PICK s \in Seq(Events) : s = Append(g[n], Head(queue[v]))
  <2>1. queue[v] \in Seq(Events) /\ queue[v] # <<>> /\ g[n] \in Seq(Events)
    BY <1>1, <1>2
  <2>2. Head(queue[v]) \in Events
    BY <2>1
  <2>3. Append(g[n], Head(queue[v])) \in Seq(Events)
    BY <2>1, <2>2, AppendProperties
  <2> QED BY <2>3
<1>7. got'[v] = [g EXCEPT ![n] = s]
  BY <1>1, <1>2, <1>4, <1>5, <1>6
<1>8. /\ got'[v] \in Seq(Seq(Events)) /\ Len(got'[v]) = Len(g)
      /\ got'[v][n] = s /\ \A k \in 1..Len(g) : k # n => got'[v][k] = g[k]
  <2>1. [g EXCEPT ![n] = s] \in Seq(Seq(Events)) /\ Len([g EXCEPT ![n] = s]) = Len(g)
    BY ExceptSeq
  <2> QED BY <1>7, <2>1
<1>9. queue' \in [Viewers -> Seq(Events)] /\ got' \in [Viewers -> Seq(Seq(Events))]
  <2>1. ASSUME NEW w \in Viewers \ {v} PROVE got'[w] = got[w]
    BY <1>1, <1>2
  <2>2. got' = [w \in Viewers |-> got'[w]]
    BY <1>1, <1>2
  <2>3. queue' \in [Viewers -> Seq(Events)]
    BY <1>1, <1>2
  <2> QED BY <1>2, <1>8, <2>1, <2>2, <2>3
<1>10. Stream(v) = g[n] /\ Stream(v)' = s /\ got'[v] # <<>> /\ queue'[v] = Tail(queue[v])
  <2>1. Stream(v) = g[n] /\ queue'[v] = Tail(queue[v])
    BY <1>1, <1>2, <1>4, <1>5 DEF Stream
  <2>2. Stream(v)' = s /\ got'[v] # <<>>
    BY <1>5, <1>8 DEF Stream
  <2> QED BY <2>1, <2>2
<1>11. Stream(v)' \o queue'[v] = history'
  <2>1. g[n] \in Seq(Events) /\ queue[v] \in Seq(Events) /\ queue[v] # <<>>
    BY <1>1, <1>2, <1>4, <1>5
  <2>2. Append(g[n], Head(queue[v])) \o Tail(queue[v]) = g[n] \o queue[v]
    BY <2>1, StreamWrites
  <2> QED BY <1>1, <1>3, <1>6, <1>10, <2>2
<1>12. ASSUME NEW k \in 1..Len(got'[v])
       PROVE  Beginning(got'[v][k], history')
  <2>1. CASE k = n
    <3>1. s \in Seq(Events) /\ Tail(queue[v]) \in Seq(Events)
      BY <1>1, <1>2
    <3>2. Beginning(s, s \o Tail(queue[v]))
      BY <3>1, StreamBegins
    <3> QED BY <1>8, <1>10, <1>11, <2>1, <3>2
  <2>2. CASE k # n
    <3>1. got'[v][k] = got[v][k] /\ k \in 1..Len(got[v])
      BY <1>4, <1>8, <1>12, <2>2
    <3>2. Beginning(got[v][k], history)
      BY <3>1 DEF StreamsInv, StreamFromStart
    <3> QED BY <1>1, <3>1, <3>2
  <2> QED BY <2>1, <2>2
<1>13. ASSUME NEW w \in Viewers \ {v}
       PROVE  queue'[w] = queue[w] /\ got'[w] = got[w] /\ Stream(w)' = Stream(w)
  <2>1. queue'[w] = queue[w] /\ got'[w] = got[w]
    BY <1>1, <1>2
  <2> QED BY <2>1 DEF Stream
<1>14. StreamFromStart'
  <2>1. ASSUME NEW w \in Viewers, NEW k \in 1..Len(got'[w])
        PROVE  Beginning(got'[w][k], history')
    BY <1>1, <1>12, <1>13, <2>1 DEF StreamsInv, StreamFromStart
  <2>2. ASSUME NEW w \in Viewers, viewer'[w] = "watching"
        PROVE  got'[w] # <<>> /\ Stream(w)' \o queue'[w] = history'
    BY <1>1, <1>10, <1>11, <1>13, <2>2 DEF StreamsInv, StreamFromStart
  <2> QED BY <2>1, <2>2 DEF StreamFromStart
<1>15. ASSUME NEW w \in Viewers, viewer'[w] # "watching"
       PROVE  queue'[w] = <<>>
  BY <1>1, <1>13, <1>15 DEF StreamsInv
<1> QED BY <1>9, <1>14, <1>15 DEF StreamsInv

\* A stream breaks: the page keeps what it was sent, or is left.
LEMMA BreakStreams ==
  ASSUME ViewersInv, StreamsInv, NEW v \in Viewers, Drop(v) \/ Leave(v)
  PROVE  StreamsInv'
<1>1. PICK now \in {"lost", "gone"} : Break(v, now)
  BY DEF Drop, Leave
<1>2. /\ viewer' = [viewer EXCEPT ![v] = now] /\ queue' = [queue EXCEPT ![v] = <<>>]
      /\ UNCHANGED history
      /\ got' = got \/ got' = [got EXCEPT ![v] = <<>>]
  BY <1>1 DEF Break, Drop, Leave
<1>3. /\ queue \in [Viewers -> Seq(Events)] /\ got \in [Viewers -> Seq(Seq(Events))]
      /\ viewer \in [Viewers -> {"away", "watching", "lost", "gone"}]
  BY DEF StreamsInv, ViewersInv
<1>4. <<>> \in Seq(Events) /\ <<>> \in Seq(Seq(Events))
  OBVIOUS
<1>5. queue' \in [Viewers -> Seq(Events)] /\ got' \in [Viewers -> Seq(Seq(Events))]
  BY <1>2, <1>3, <1>4
<1>6. viewer'[v] # "watching" /\ queue'[v] = <<>>
  BY <1>2, <1>3
<1>7. ASSUME NEW k \in 1..Len(got'[v])
      PROVE  Beginning(got'[v][k], history')
  <2>1. got'[v] = got[v]
    <3>1. got'[v] # <<>>
      BY <1>7
    <3> QED BY <1>2, <1>3, <3>1
  <2> QED BY <1>2, <1>7, <2>1 DEF StreamsInv, StreamFromStart
<1>8. ASSUME NEW w \in Viewers \ {v}
      PROVE  /\ viewer'[w] = viewer[w] /\ queue'[w] = queue[w] /\ got'[w] = got[w]
             /\ Stream(w)' = Stream(w)
  <2>1. viewer'[w] = viewer[w] /\ queue'[w] = queue[w] /\ got'[w] = got[w]
    BY <1>2, <1>3
  <2> QED BY <2>1 DEF Stream
<1> QED BY <1>2, <1>5, <1>6, <1>7, <1>8 DEF StreamsInv, StreamFromStart

LEMMA StreamsStep ==
  ASSUME ScansInv, HistoryInv, ViewersInv, StreamsInv, [PageStep]_pageVars
  PROVE  StreamsInv'
<1>1. CASE \E e \in Events : Shows(e)
  BY <1>1, ShowsStreams
<1>2. CASE \E v \in Viewers : Connect(v) \/ Reconnect(v)
  BY <1>2, SubscribeStreams DEF Connect, Reconnect
<1>3. CASE \E v \in Viewers : Write(v)
  BY <1>3, WriteStreams
<1>4. CASE \E v \in Viewers : Drop(v) \/ Leave(v)
  BY <1>4, BreakStreams
<1>5. CASE Open \/ Unsubscribe \/ Linger \/ Poll \/ Expire \/ UNCHANGED pageVars
  <2>1. UNCHANGED <<viewer, queue, got, history>>
    BY <1>5 DEF Open, Unsubscribe, Linger, Poll, Expire, pageVars, viewerVars
  <2> QED BY <2>1 DEF StreamsInv, StreamFromStart, Stream
<1>6. CASE Close
  <2>1. /\ \A v \in Viewers : viewer'[v] # "watching" /\ queue'[v] = <<>>
        /\ queue' \in [Viewers -> Seq(Events)] /\ UNCHANGED <<got, history>>
    BY <1>6 DEF Close, ViewersInv
  <2> QED BY <2>1 DEF StreamsInv, StreamFromStart
<1> QED BY <1>1, <1>2, <1>3, <1>4, <1>5, <1>6 DEF PageStep, PageNext, ViewerNext

-----------------------------------------------------------------------------
(* The wait.                                                                *)

\* Steps of the viewers that leave the wait's own state alone.
LEMMA ViewersWait ==
  ASSUME ViewersInv, WaitInv, HistoryInv,
         UNCHANGED <<lingerVars, history>>,
         \A v \in Viewers \ fresh' : v \notin fresh,
         linger = "waiting" =>
            \A v \in Viewers \ fresh' :
               /\ viewer'[v] = "watching" => viewer[v] = "watching"
               /\ viewer'[v] = "lost" => \/ viewer[v] = "lost" /\ back'[v] = back[v]
                                         \/ viewer[v] = "watching"
  PROVE  WaitInv'
<1>1. UNCHANGED <<linger, seen, quiet, expired, history, LastShown>>
  BY DEF lingerVars, LastShown
<1>2. CASE linger # "waiting"
  BY <1>1, <1>2 DEF WaitInv
<1>3. CASE linger = "waiting"
  <2>1. ASSUME NEW v \in Viewers \ fresh'
        PROVE  /\ viewer'[v] = "watching" => quiet' = Never
               /\ viewer'[v] = "lost" /\ quiet' # Never => quiet' + back'[v] + 1 <= Retry
    <3>1. /\ viewer[v] = "watching" => quiet = Never
          /\ viewer[v] = "lost" /\ quiet # Never => quiet + back[v] + 1 <= Retry
      BY <1>3 DEF WaitInv
    <3> QED BY <1>1, <1>3, <3>1
  <2> QED BY <1>1, <2>1 DEF WaitInv
<1> QED BY <1>2, <1>3

LEMMA PollWait ==
  ASSUME ViewersInv, WaitInv, Poll
  PROVE  WaitInv'
<1> USE PageAssumption
<1> DEFINE over == (Live = 0 /\ seen /\ quiet # Never /\ quiet + 1 >= Idle) \/ expired
<1>1. /\ linger = "waiting" /\ linger' = IF over THEN "over" ELSE linger
      /\ seen' = (seen \/ Live > 0) /\ expired' = expired
      /\ quiet' = CASE Live > 0 -> Never
                    [] Live = 0 /\ seen /\ ~over -> IF quiet = Never THEN 0 ELSE quiet + 1
                    [] OTHER -> quiet
      /\ fresh' = IF Live > 0 THEN {} ELSE fresh
      /\ UNCHANGED <<viewer, history>>
  BY DEF Poll
<1>2. UNCHANGED LastShown
  BY <1>1 DEF LastShown
<1>3. Live \in Nat /\ (Live = 0 => \A v \in Viewers : viewer[v] # "watching")
  BY LiveType
<1>4. \A v \in Viewers : viewer[v] = "lost" =>
         back[v] \in Nat /\ back[v] > 0 /\ back[v] <= Retry /\ back'[v] = back[v] - 1
  <2>1. ASSUME NEW v \in Viewers, viewer[v] = "lost"
        PROVE  back[v] \in Nat /\ back[v] > 0 /\ back[v] <= Retry /\ back'[v] = back[v] - 1
    BY <2>1 DEF Poll, ViewersInv
  <2> QED BY <2>1
<1>5. quiet \in Nat \cup {Never} /\ seen \in BOOLEAN /\ expired \in BOOLEAN
  BY DEF WaitInv
<1> HIDE DEF over
<1>6. quiet' \in Nat \cup {Never}
  <2>1. Live > 0 \/ Live = 0
    BY <1>3
  <2>2. quiet # Never => quiet + 1 \in Nat
    BY <1>5
  <2> QED BY <1>1, <1>5, <2>1, <2>2
<1>7. seen' \in BOOLEAN /\ expired' \in BOOLEAN
  BY <1>1, <1>5
<1>8. linger' \in {"waiting", "over"}
  BY <1>1
<1>9. ASSUME linger' = "waiting", NEW v \in Viewers \ fresh'
      PROVE  /\ viewer'[v] = "watching" => quiet' = Never
             /\ viewer'[v] = "lost" /\ quiet' # Never => quiet' + back'[v] + 1 <= Retry
  <2>1. CASE Live > 0
    BY <1>1, <2>1
  <2>2. CASE Live = 0
    <3>1. v \notin fresh /\ viewer'[v] # "watching"
      BY <1>1, <1>3, <1>9, <2>2
    <3>2. ASSUME viewer[v] = "lost", quiet' # Never PROVE quiet' + back'[v] + 1 <= Retry
      <4>1. quiet # Never => quiet + back[v] + 1 <= Retry
        BY <1>1, <3>1, <3>2 DEF WaitInv
      <4>2. back[v] \in Nat /\ back[v] > 0 /\ back[v] <= Retry /\ back'[v] = back[v] - 1
        BY <1>4, <3>2
      <4>3. quiet' = quiet \/ (quiet = Never /\ quiet' = 0)
               \/ (quiet # Never /\ quiet' = quiet + 1)
        BY <1>1, <2>2
      <4>4. CASE quiet = Never
        BY <3>2, <4>2, <4>3, <4>4
      <4>5. CASE quiet # Never
        <5>1. quiet \in Nat
          BY <1>5, <4>5
        <5> QED BY <4>1, <4>2, <4>3, <4>5, <5>1
      <4> QED BY <4>4, <4>5
    <3> QED BY <1>1, <3>1, <3>2
  <2> QED BY <1>3, <2>1, <2>2
<1> QED BY <1>1, <1>2, <1>6, <1>7, <1>8, <1>9 DEF WaitInv

LEMMA WaitStep ==
  ASSUME ScansInv, HistoryInv, ViewersInv, WaitInv, [PageStep]_pageVars
  PROVE  WaitInv'
<1>1. CASE Open
  <2>1. history = <<>> /\ linger = "not yet" /\ UNCHANGED lingerVars
    BY <1>1 DEF Open, HistoryInv, WaitInv
  <2> QED BY <2>1 DEF WaitInv, lingerVars
<1>2. CASE \E e \in Events : Shows(e)
  <2>1. PICK e \in Events : Shows(e)
    BY <1>2
  <2>2. linger = "not yet" /\ UNCHANGED lingerVars
    BY <2>1 DEF Shows, Emit, WaitInv
  <2> QED BY <2>2 DEF WaitInv, lingerVars
<1>3. CASE \E v \in Viewers : Connect(v) \/ Reconnect(v)
  <2>1. PICK v \in Viewers : Subscribe(v)
    BY <1>3 DEF Connect, Reconnect
  <2>2. UNCHANGED <<lingerVars, history>> /\ fresh' = fresh \cup {v}
    BY <2>1 DEF Subscribe
  <2>3. \A w \in Viewers \ {v} : viewer'[w] = viewer[w] /\ back'[w] = back[w]
    BY <2>1 DEF Subscribe, ViewersInv
  <2> QED BY <2>2, <2>3, ViewersWait
<1>4. CASE \E v \in Viewers : Write(v)
  <2>1. UNCHANGED <<lingerVars, history, viewer, back, fresh>>
    BY <1>4 DEF Write
  <2> QED BY <2>1, ViewersWait
<1>5. CASE \E v \in Viewers : Drop(v) \/ Leave(v)
  <2>1. PICK v \in Viewers : Drop(v) \/ Leave(v)
    BY <1>5
  <2>2. UNCHANGED <<lingerVars, history, fresh>> /\ viewer[v] = "watching"
    BY <2>1 DEF Drop, Leave, Break
  <2>3. \A w \in Viewers \ {v} : viewer'[w] = viewer[w] /\ back'[w] = back[w]
    BY <2>1 DEF Drop, Leave, Break, ViewersInv
  <2>4. viewer'[v] # "watching"
    BY <2>1 DEF Drop, Leave, Break, ViewersInv
  <2> QED BY <2>2, <2>3, <2>4, ViewersWait
<1>6. CASE Unsubscribe
  <2>1. UNCHANGED <<lingerVars, history, viewer, back, fresh>>
    BY <1>6 DEF Unsubscribe
  <2> QED BY <2>1, ViewersWait
<1>7. CASE Linger
  <2>1. /\ linger = "not yet" /\ linger' = "waiting" /\ history # <<>> /\ LastShown \in Ends
        /\ UNCHANGED <<history, seen, quiet, expired>>
    BY <1>7 DEF Linger, LastShown
  <2>2. quiet' = Never
    BY <2>1 DEF WaitInv
  <2>3. UNCHANGED LastShown
    BY <2>1 DEF LastShown
  <2> QED BY <2>1, <2>2, <2>3 DEF WaitInv
<1>8. CASE Poll
  BY <1>8, PollWait
<1>9. CASE Expire
  <2>1. UNCHANGED <<linger, seen, quiet, history, LastShown, viewer, back, fresh>> /\ expired' = TRUE
    BY <1>9 DEF Expire, viewerVars, LastShown
  <2> QED BY <2>1 DEF WaitInv
<1>10. CASE Close
  <2>1. UNCHANGED <<linger, seen, quiet, expired, history, LastShown>> /\ linger = "over"
    BY <1>10 DEF Close, lingerVars, LastShown
  <2> QED BY <2>1 DEF WaitInv
<1>11. CASE UNCHANGED pageVars
  <2>1. UNCHANGED <<lingerVars, history, viewer, back, fresh>>
    BY <1>11 DEF pageVars, lingerVars
  <2> QED BY <2>1, ViewersWait
<1> QED
  BY <1>1, <1>2, <1>3, <1>4, <1>5, <1>6, <1>7, <1>8, <1>9, <1>10, <1>11
     DEF PageStep, PageNext, ViewerNext

\* When the wait is over for want of viewers, a lost viewer the polls know of
\* would have been back before.
LEMMA FoundAgainStep ==
  ASSUME PageInv, [PageRunNext]_pageRunVars
  PROVE  [(linger = "waiting" /\ linger' = "over" /\ ~expired)
            => \A v \in Viewers : viewer[v] \in {"away", "gone"} \/ v \in fresh]_pageVars
<1> USE PageAssumption
<1>1. SUFFICES ASSUME linger = "waiting", linger' = "over", ~expired,
                      NEW v \in Viewers \ fresh, viewer[v] \notin {"away", "gone"}
               PROVE  FALSE
  OBVIOUS
<1>2. [PageStep]_pageVars
  BY PageSteps DEF PageInv
<1>3. history # <<>> /\ LastShown \in Ends
  BY <1>1 DEF PageInv, WaitInv
<1>4. Poll
  <2>1. \A e \in Events : ~Shows(e)
    BY <1>3 DEF Shows
  <2>2. ~Open
    BY <1>1 DEF Open, lingerVars
  <2> QED
    BY <1>1, <1>2, <2>1, <2>2
       DEF PageStep, PageNext, ViewerNext, Connect, Reconnect, Subscribe, Write, Drop, Leave,
           Break, Unsubscribe, Linger, Expire, Close, lingerVars, pageVars
<1>5. Live = 0 /\ quiet # Never /\ quiet + 1 >= Idle
  BY <1>1, <1>4 DEF Poll
<1>6. viewer[v] = "lost"
  <2>1. viewer[v] # "watching"
    BY <1>5, LiveType DEF PageInv
  <2> QED BY <1>1, <2>1 DEF PageInv, ViewersInv
<1>7. back[v] > 0 /\ back[v] \in Nat /\ quiet \in Nat
  BY <1>4, <1>5, <1>6 DEF Poll, PageInv, ViewersInv, WaitInv
<1>8. quiet + back[v] + 1 <= Retry
  BY <1>1, <1>5, <1>6 DEF PageInv, WaitInv
<1> QED BY <1>5, <1>7, <1>8

-----------------------------------------------------------------------------
(* Theorems.                                                                *)

LEMMA PageInvStart == PageRunInit => PageInv
<1> SUFFICES ASSUME PageRunInit PROVE PageInv
  OBVIOUS
<1> USE EventsAssumption, PageAssumption
<1>1. ScansInv
  <2>1. reports = <<>> /\ scanning = FALSE
    BY DEF PageRunInit, Init
  <2>2. <<>> \in Seq(Range(<<>>)) /\ Len(<<>>) = 0
    OBVIOUS
  <2>3. reports \in Seq(Range(reports)) /\ Len(reports) = 0
    BY <2>1, <2>2
  <2>4. Len(reports) <= MaxScans
    BY <2>3
  <2>5. scanning \in BOOLEAN /\ ~scanning
    BY <2>1, Zenon
  <2> QED BY <2>3, <2>4, <2>5, Zenon DEF ScansInv
<1>2. HistoryInv
  <2>1. reports = <<>> /\ ~scanning /\ todo = <<>> /\ page = "down" /\ history = <<>>
    BY DEF PageRunInit, Init, PageInit
  <2>2. Len(reports) = 0
    BY <2>1
  <2> QED BY <2>1, <2>2 DEF HistoryInv
<1>3. ViewersInv
  <2>1. /\ page = "down" /\ viewer = [v \in Viewers |-> "away"] /\ ended = {} /\ fresh = {}
        /\ back = [v \in Viewers |-> 0] /\ drops = 0 /\ stale = 0
    BY DEF PageRunInit, PageInit
  <2>2. 0 \in 0..Retry /\ 0 \in 0..MaxDrops
    OBVIOUS
  <2>3. back \in [Viewers -> 0..Retry] /\ drops \in 0..MaxDrops
    BY <2>1, <2>2
  <2>4. viewer \in [Viewers -> {"away", "watching", "lost", "gone"}]
    BY <2>1
  <2> QED BY <2>1, <2>3, <2>4 DEF ViewersInv
<1>4. StreamsInv
  <2>1. /\ viewer = [v \in Viewers |-> "away"]
        /\ queue = [v \in Viewers |-> <<>>] /\ got = [v \in Viewers |-> <<>>]
    BY DEF PageRunInit, PageInit
  <2>2. <<>> \in Seq(Events) /\ <<>> \in Seq(Seq(Events)) /\ 1..Len(<<>>) = {}
    OBVIOUS
  <2>3. queue \in [Viewers -> Seq(Events)] /\ got \in [Viewers -> Seq(Seq(Events))]
    BY <2>1, <2>2
  <2>4. \A v \in Viewers : 1..Len(got[v]) = {}
    BY <2>1, <2>2
  <2> QED BY <2>1, <2>3, <2>4 DEF StreamsInv, StreamFromStart
<1>5. WaitInv
  BY DEF PageRunInit, PageInit, WaitInv
<1> QED BY <1>1, <1>2, <1>3, <1>4, <1>5 DEF PageInv

\* The run shows no more events than a stream holds, a stream holds what its
\* browser has not been sent of the history since it connected, and the wait's
\* count without streams is never ahead of a lost viewer that was counted
\* (server.go:95-119, 151-222).
THEOREM PageInvariance == PageRunSpec => []PageInv
<1>1. PageRunInit => PageInv
  BY PageInvStart
<1>2. PageInv /\ [PageRunNext]_pageRunVars => PageInv'
  <2> SUFFICES ASSUME PageInv, [PageRunNext]_pageRunVars PROVE PageInv'
    OBVIOUS
  <2>1. ScansInv /\ HistoryInv /\ ViewersInv /\ StreamsInv /\ WaitInv
    BY DEF PageInv
  <2>2. ScansInv'
    BY <2>1, ScansStep
  <2>3. HistoryInv' /\ [PageStep]_pageVars
    BY <2>1, PageSteps
  <2>4. ViewersInv'
    BY <2>1, <2>3, ViewersStep
  <2>5. StreamsInv'
    BY <2>1, <2>3, StreamsStep
  <2>6. WaitInv'
    BY <2>1, <2>3, WaitStep
  <2> QED BY <2>2, <2>3, <2>4, <2>5, <2>6 DEF PageInv
<1> QED BY <1>1, <1>2, PTL DEF PageRunSpec

\* Every part of the page's state has its type: no stream holds more than it
\* may, and the wait begins with the end of the run (main.go:164-171).
THEOREM PageTypeCorrect == PageRunSpec => []PageTypeOK
<1>1. PageInv => PageTypeOK
  <2> SUFFICES ASSUME PageInv PROVE PageTypeOK
    OBVIOUS
  <2>1. ASSUME NEW v \in Viewers PROVE Len(queue[v]) <= EventBuffer
    <3>1. /\ history \in Seq(Events) /\ Len(history) \in Nat
          /\ EventBuffer \in Nat /\ Len(history) <= EventBuffer
      BY HistoryFits, PageAssumption DEF PageInv
    <3>2. queue[v] \in Seq(Events) /\ got[v] \in Seq(Seq(Events))
      BY DEF PageInv, StreamsInv
    <3>3. CASE viewer[v] = "watching"
      <4>1. got[v] # <<>> /\ Stream(v) \o queue[v] = history
        BY <3>3 DEF PageInv, StreamsInv, StreamFromStart
      <4>2. Stream(v) \in Seq(Events) /\ Len(queue[v]) \in Nat
        BY <3>2, <4>1 DEF Stream
      <4>3. Len(queue[v]) <= Len(history)
        BY <3>1, <3>2, <4>1, <4>2, StreamFits
      <4> QED BY <3>1, <4>2, <4>3
    <3>4. CASE viewer[v] # "watching"
      <4>1. queue[v] = <<>>
        BY <3>4 DEF PageInv, StreamsInv
      <4> QED BY <3>1, <4>1
    <3> QED BY <3>3, <3>4
  <2> QED BY <2>1 DEF PageInv, ViewersInv, WaitInv, LastShown, PageTypeOK
<1> QED BY <1>1, PageInvariance, PTL

\* Every stream that a page is sent begins with the first event of the run and
\* leaves out and repeats none, and what the page has of the open one and what
\* is on the way to it is the run so far: however late the browser came, and
\* however many there are of the browsers, their streams, the scans and the
\* collectors (server.go:95-119 and 151-165).
THEOREM StreamsFromStart == PageRunSpec => []StreamFromStart
<1>1. PageInv => StreamFromStart
  BY DEF PageInv, StreamsInv
<1> QED BY <1>1, PageInvariance, PTL

\* The wait ends for want of viewers only if every one the polls counted has
\* left, for every retry that is no longer than the wait (server.go:196-222).
THEOREM ViewersFoundAgain == PageRunSpec => FoundAgain
<1>1. PageInv /\ [PageRunNext]_pageRunVars =>
        [(linger = "waiting" /\ linger' = "over" /\ ~expired)
            => \A v \in Viewers : viewer[v] \in {"away", "gone"} \/ v \in fresh]_pageVars
  BY FoundAgainStep
<1> QED BY <1>1, PageInvariance, PTL DEF PageRunSpec, FoundAgain
===============================================================================
