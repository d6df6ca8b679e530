----------------------------- MODULE RunnerProofs -----------------------------
(***************************************************************************)
(* Theorems about Runner for every output, budget and batch size.          *)
(*                                                                         *)
(* A stream is followed unit by unit: what was accepted of it is a run of  *)
(* consecutive units from the first, what the reader holds and what is in  *)
(* the pipe are the last ones written.                                     *)
(***************************************************************************)
EXTENDS Runner, DataLemmas, FiniteSetTheorems

\* The n units after unit a.
Units(a, n) == [k \in 1 .. n |-> a + k]

LEMMA UnitsType ==
  ASSUME NEW a \in Nat, NEW n \in Nat, NEW m \in Nat, a + n <= m
  PROVE  Units(a, n) \in Seq(1 .. m) /\ Len(Units(a, n)) = n
         /\ \A k \in 1 .. n : Units(a, n)[k] = a + k
<1>1. Units(a, n) \in [1 .. n -> 1 .. m]
  BY DEF Units
<1>2. Units(a, n) \in Seq(1 .. m)
  BY <1>1, SeqDef
<1>3. DOMAIN Units(a, n) = 1 .. n
  BY DEF Units
<1>4. Len(Units(a, n)) = n
  BY <1>2, <1>3, LenProperties
<1> QED BY <1>2, <1>4 DEF Units

\* A sequence of consecutive units is known by its first and its length.
LEMMA UnitsEqual ==
  ASSUME NEW a \in Nat, NEW n \in Nat, NEW m \in Nat, a + n <= m,
         NEW s \in Seq(1 .. m), Len(s) = n, \A k \in 1 .. n : s[k] = a + k
  PROVE  s = Units(a, n)
BY UnitsType, SeqEqual

LEMMA UnitsConcat ==
  ASSUME NEW a \in Nat, NEW n \in Nat, NEW p \in Nat, NEW m \in Nat, a + n + p <= m
  PROVE  Units(a, n) \o Units(a + n, p) = Units(a, n + p)
<1> DEFINE s == Units(a, n)
           t == Units(a + n, p)
<1>1. /\ s \in Seq(1 .. m) /\ Len(s) = n /\ \A k \in 1 .. n : s[k] = a + k
      /\ t \in Seq(1 .. m) /\ Len(t) = p /\ \A k \in 1 .. p : t[k] = a + n + k
  <2>1. a + n \in Nat /\ a + n <= m /\ (a + n) + p <= m
    OBVIOUS
  <2>2. s \in Seq(1 .. m) /\ Len(s) = n /\ \A k \in 1 .. n : s[k] = a + k
    BY <2>1, UnitsType
  <2>3. t \in Seq(1 .. m) /\ Len(t) = p /\ \A k \in 1 .. p : t[k] = (a + n) + k
    <3> DEFINE b == a + n
    <3>1. b \in Nat /\ b + p <= m
      BY <2>1
    <3> HIDE DEF b
    <3>2. Units(b, p) \in Seq(1 .. m) /\ Len(Units(b, p)) = p
          /\ \A k \in 1 .. p : Units(b, p)[k] = b + k
      BY <3>1, UnitsType
    <3> QED BY <3>2 DEF b
  <2> QED BY <2>2, <2>3
<1> HIDE DEF s, t
<1>2. /\ s \o t \in Seq(1 .. m) /\ Len(s \o t) = n + p
      /\ \A i \in 1 .. n + p : (s \o t)[i] = IF i <= n THEN s[i] ELSE t[i - n]
  <2>1. s \in Seq(1 .. m) /\ t \in Seq(1 .. m)
    BY <1>1
  <2>2. /\ s \o t \in Seq(1 .. m) /\ Len(s \o t) = Len(s) + Len(t)
        /\ \A i \in 1 .. Len(s) + Len(t) :
              (s \o t)[i] = IF i <= Len(s) THEN s[i] ELSE t[i - Len(s)]
    BY <2>1, ConcatProperties
  <2> QED BY <1>1, <2>2, Zenon
<1>3. \A i \in 1 .. n + p : (s \o t)[i] = a + i
  BY <1>1, <1>2
<1>4. n + p \in Nat /\ a + (n + p) <= m
  OBVIOUS
<1>5. s \o t = Units(a, n + p)
  BY <1>2, <1>3, <1>4, UnitsEqual
<1> QED BY <1>5 DEF s, t

\* SubSeq under a name the provers leave alone.
Part(s, i, j) == SubSeq(s, i, j)

LEMMA UnitsSubSeq ==
  ASSUME NEW a \in Nat, NEW n \in Nat,
         NEW i \in Nat \ {0}, NEW j \in Nat, i <= j + 1, j <= n,
         NEW b, NEW p, b = a + i - 1, p = j - i + 1
  PROVE  Part(Units(a, n), i, j) = Units(b, p)
<1> DEFINE s == Units(a, n)
           t == SubSeq(s, i, j)
           m == a + n
<1>0. m \in Nat /\ a + n <= m /\ (a + i - 1) \in Nat /\ (j - i + 1) \in Nat
      /\ (a + i - 1) + (j - i + 1) <= m
  OBVIOUS
<1> HIDE DEF m
<1>1. s \in Seq(1 .. m) /\ Len(s) = n /\ \A k \in 1 .. n : s[k] = a + k
  BY <1>0, UnitsType
<1>2. \A k \in i .. j : s[k] \in 1 .. m
  <2>1. \A k \in i .. j : k \in 1 .. n /\ a + k \in 1 .. m
    BY DEF m
  <2> HIDE DEF s
  <2> QED BY <1>1, <2>1
<1>3. /\ t \in Seq(1 .. m) /\ Len(t) = j - i + 1
      /\ \A k \in 1 .. j - i + 1 : t[k] = s[i + k - 1]
  <2>1. i \in 1 .. n + 1 /\ j \in i - 1 .. n
    OBVIOUS
  <2> HIDE DEF s
  <2> QED BY <1>2, <2>1, SubSeqProperties
<1>4. \A k \in 1 .. j - i + 1 : t[k] = (a + i - 1) + k
  BY <1>1, <1>3
<1> HIDE DEF t
<1>5. t = Units(a + i - 1, j - i + 1)
  BY <1>0, <1>3, <1>4, UnitsEqual
<1> QED BY <1>5, Zenon DEF t, s, Part

\* What a read takes of a run of units, and what it leaves.
LEMMA UnitsSplit ==
  ASSUME NEW a \in Nat, NEW n \in Nat, NEW k \in Nat, k <= n
  PROVE  /\ SubSeq(Units(a, n), 1, k) = Units(a, k)
         /\ SubSeq(Units(a, n), k + 1, n) = Units(a + k, n - k)
<1>1. SubSeq(Units(a, n), 1, k) = Units(a, k)
  <2> DEFINE i == 1
  <2>1. i \in Nat \ {0} /\ i <= k + 1 /\ k <= n
    OBVIOUS
  <2>2. a = a + i - 1 /\ k = k - i + 1
    OBVIOUS
  <2> HIDE DEF i
  <2>3. Part(Units(a, n), i, k) = Units(a, k)
    BY <2>1, <2>2, UnitsSubSeq
  <2> QED BY <2>3, Zenon DEF i, Part
<1>2. SubSeq(Units(a, n), k + 1, n) = Units(a + k, n - k)
  <2> DEFINE i == k + 1  b == a + k  p == n - k
  <2>1. i \in Nat \ {0} /\ i <= n + 1 /\ n <= n
    OBVIOUS
  <2>2. b = a + i - 1 /\ p = n - i + 1
    OBVIOUS
  <2> HIDE DEF i, b, p
  <2>3. Part(Units(a, n), i, n) = Units(b, p)
    BY <2>1, <2>2, UnitsSubSeq
  <2> QED BY <2>3, Zenon DEF i, b, p, Part
<1> QED BY <1>1, <1>2

LEMMA UnitsAppend ==
  ASSUME NEW a \in Nat, NEW n \in Nat, NEW m \in Nat, a + n + 1 <= m
  PROVE  Append(Units(a, n), a + n + 1) = Units(a, n + 1)
<1> DEFINE s == Units(a, n)
           t == Append(s, a + n + 1)
<1>1. s \in Seq(1 .. m) /\ Len(s) = n /\ \A k \in 1 .. n : s[k] = a + k
  <2>1. a + n <= m
    OBVIOUS
  <2> QED BY <2>1, UnitsType
<1>2. /\ t \in Seq(1 .. m) /\ Len(t) = n + 1 /\ t[n + 1] = a + n + 1
      /\ \A k \in 1 .. n : t[k] = s[k]
  <2> HIDE DEF s
  <2> QED BY <1>1, AppendProperties
<1>3. \A k \in 1 .. n + 1 : t[k] = a + k
  BY <1>1, <1>2
<1> HIDE DEF t
<1>4. t = Units(a, n + 1)
  BY <1>2, <1>3, UnitsEqual
<1> QED BY <1>4 DEF t

-----------------------------------------------------------------------------
(* Entries and the text of a stream.                                        *)

Entry == [seq : Nat, stream : Streams, text : Seq(1 .. MaxUnits)]

\* A batch that holds a pump's mutex is not the empty sequence that stands
\* for a free one.
LEMMA EntryNotEmpty == ASSUME NEW e \in Entry PROVE e # <<>>
<1>1. DOMAIN e = {"seq", "stream", "text"} /\ "seq" \in DOMAIN e
  BY DEF Entry
<1>2. DOMAIN <<>> = {}
  OBVIOUS
<1> QED BY <1>1, <1>2

\* What an entry adds to the text of stream s.
TextOf(e, s) == IF e.stream = s THEN e.text ELSE <<>>

Texts(d, s) == [k \in 1 .. Len(d) |-> TextOf(d[k], s)]

LEMMA TextOfType ==
  ASSUME NEW e \in Entry, NEW s \in Streams
  PROVE  TextOf(e, s) \in Seq(1 .. MaxUnits)
<1>1. e.text \in Seq(1 .. MaxUnits) /\ <<>> \in Seq(1 .. MaxUnits)
  BY EmptySeq DEF Entry
<1> QED BY <1>1 DEF TextOf

LEMMA TextsType ==
  ASSUME NEW d \in Seq(Entry), NEW s \in Streams
  PROVE  Texts(d, s) \in Seq(Seq(1 .. MaxUnits)) /\ Len(Texts(d, s)) = Len(d)
<1>1. Len(d) \in Nat /\ \A k \in 1 .. Len(d) : d[k] \in Entry
  BY ElementOfSeq, LenProperties
<1>2. Texts(d, s) \in [1 .. Len(d) -> Seq(1 .. MaxUnits)]
  BY <1>1, TextOfType DEF Texts
<1>3. Texts(d, s) \in Seq(Seq(1 .. MaxUnits)) /\ DOMAIN Texts(d, s) = 1 .. Len(d)
  BY <1>1, <1>2, SeqDef DEF Texts
<1> QED BY <1>1, <1>3, LenProperties

\* The entry delivered last adds its text to its own stream's.
LEMMA TextsAppend ==
  ASSUME NEW d \in Seq(Entry), NEW e \in Entry, NEW s \in Streams
  PROVE  Texts(Append(d, e), s) = Append(Texts(d, s), TextOf(e, s))
<1> DEFINE a == Append(d, e)
           l == Texts(a, s)
           t == Texts(d, s)
           r == Append(t, TextOf(e, s))
<1>1. /\ a \in Seq(Entry) /\ Len(a) = Len(d) + 1 /\ a[Len(d) + 1] = e
      /\ \A k \in 1 .. Len(d) : a[k] = d[k]
  BY AppendProperties
<1>2. Len(d) \in Nat
  BY LenProperties
<1> HIDE DEF a
<1>3. l \in Seq(Seq(1 .. MaxUnits)) /\ Len(l) = Len(d) + 1
  BY <1>1, TextsType
<1>4. t \in Seq(Seq(1 .. MaxUnits)) /\ Len(t) = Len(d)
  BY TextsType
<1>5. TextOf(e, s) \in Seq(1 .. MaxUnits)
  BY TextOfType
<1>6. /\ \A k \in 1 .. Len(d) : t[k] = TextOf(d[k], s)
      /\ \A k \in 1 .. Len(d) + 1 : l[k] = TextOf(a[k], s)
  BY <1>1 DEF Texts
<1> HIDE DEF l, t
<1>7. /\ r \in Seq(Seq(1 .. MaxUnits)) /\ Len(r) = Len(d) + 1 /\ r[Len(d) + 1] = TextOf(e, s)
      /\ \A k \in 1 .. Len(d) : r[k] = t[k]
  BY <1>4, <1>5, AppendProperties
<1> HIDE DEF r
<1>8. \A k \in 1 .. Len(d) + 1 : l[k] = r[k]
  <2> SUFFICES ASSUME NEW k \in 1 .. Len(d) + 1 PROVE l[k] = r[k]
    OBVIOUS
  <2>1. l[k] = TextOf(a[k], s)
    BY <1>6
  <2>2. CASE k = Len(d) + 1
    BY <1>1, <1>7, <2>1, <2>2
  <2>3. CASE k # Len(d) + 1
    <3>1. k \in 1 .. Len(d)
      BY <1>2, <2>3
    <3> QED BY <1>1, <1>6, <1>7, <2>1, <3>1
  <2> QED BY <2>2, <2>3
<1>9. l = r
  BY <1>3, <1>7, <1>8, SeqEqual
<1> QED BY <1>9 DEF l, r, t, a

LEMMA TextIs == ASSUME NEW s \in Streams PROVE Text(s) = FlattenSeq(Texts(delivered, s))
BY DEF Text, Texts, TextOf

\* How the text of a stream grows.
LEMMA TextGrows ==
  ASSUME delivered \in Seq(Entry), NEW e \in Entry, delivered' = Append(delivered, e),
         NEW s \in Streams
  PROVE  Text(s)' = Text(s) \o TextOf(e, s)
<1> DEFINE t == Texts(delivered, s)
           x == TextOf(e, s)
<1>1. Text(s)' = FlattenSeq(Append(t, x))
  <2>1. Text(s)' = FlattenSeq(Texts(delivered', s))
    BY DEF Text, Texts, TextOf
  <2> QED BY <2>1, TextsAppend
<1>2. t \in Seq(Seq(1 .. MaxUnits)) /\ x \in Seq(1 .. MaxUnits)
  BY TextsType, TextOfType
<1>3. Text(s) = FlattenSeq(t)
  BY TextIs
<1>4. FlattenSeq(Append(t, x)) = FlattenSeq(t) \o x
  <2> HIDE DEF t, x
  <2> QED BY <1>2, FlattenAppend
<1> QED BY <1>1, <1>3, <1>4

LEMMA TextType ==
  ASSUME delivered \in Seq(Entry), NEW s \in Streams
  PROVE  Text(s) \in Seq(1 .. MaxUnits)
<1> DEFINE t == Texts(delivered, s)
<1>1. t \in Seq(Seq(1 .. MaxUnits))
  BY TextsType
<1>2. FlattenSeq(t) \in Seq(1 .. MaxUnits)
  <2> HIDE DEF t
  <2> QED BY <1>1, FlattenType
<1> QED BY <1>2, TextIs

-----------------------------------------------------------------------------
(* Where Run is.                                                            *)

Flushing == {"flush stdout", "flushing stdout", "flush stderr", "flushing stderr",
             "judge", "returned"}

Ended == {"sweep", "drain", "close"} \cup Flushing

\* The child while Run goes on: it lives from Spawn on, is killed only with a
\* reason, and has ended by itself when Run goes past the wait without one.
ChildInv ==
    /\ pc = "prepare" => child = "none" /\ \A s \in Streams : reader[s] = "off"
    /\ pc \in {"notify", "wait"} => child \in {"alive", "zero", "nonzero"}
    /\ pc = "grace" => runErr # "none"
    /\ pc \in Ended /\ runErr = "none" => child \in {"zero", "nonzero"}

\* Why killTree was used, and what is reported.
KilledInv ==
    /\ killed \in {"deadline", "cancel"} => runErr = killed
    /\ killed = "rejected" => pc \in {"reap", "rejected"}
    /\ pc = "returned" => outcome = Outcome

\* The readers: one that has ended holds nothing and has seen EOF or a closed
\* read end; only those are flushed after, or Run has given the others up.
ReaderInv ==
    /\ pc = "close" => closed
    /\ abandoned => closed
    /\ pc \in Flushing => abandoned \/ ReadersDone
    /\ \A s \in Streams : reader[s] = "eof" =>
          hand[s] = <<>> /\ (closed \/ (child # "alive" /\ ~heir /\ pipe[s] = <<>>))

\* What the flushes of Run have emptied stays empty.
FlushInv ==
    ~abandoned =>
      /\ pc = "flushing stdout" => pending["stdout"] = <<>>
      /\ pc \in {"flush stderr", "flushing stderr", "judge", "returned"} =>
            pending["stdout"] = <<>> /\ locked["stdout"] = <<>>
      /\ pc = "flushing stderr" => pending["stderr"] = <<>>
      /\ pc \in {"judge", "returned"} =>
            pending["stderr"] = <<>> /\ locked["stderr"] = <<>>

PlaceInv == ChildInv /\ KilledInv /\ ReaderInv /\ FlushInv

-----------------------------------------------------------------------------
(* Types.                                                                   *)

\* Every variable keeps its type, for every output, budget and batch size.
LEMMA InitTypeOK == Init => TypeOK
<1> SUFFICES ASSUME Init PROVE TypeOK
  OBVIOUS
<1>1. <<>> \in Seq(1 .. MaxUnits)
      /\ <<>> \in Seq([seq : Nat, stream : Streams, text : Seq(1 .. MaxUnits)])
  BY EmptySeq
<1>2. /\ written \in [Streams -> 0 .. MaxUnits] /\ pipe \in [Streams -> Seq(1 .. MaxUnits)]
      /\ hand \in [Streams -> Seq(1 .. MaxUnits)] /\ pending \in [Streams -> Seq(1 .. MaxUnits)]
      /\ seq \in Nat /\ observed \in 0 .. MaxOutput
  BY <1>1, RunnerAssumption DEF Init
<1>3. locked \in [Streams -> {<<>>} \cup [seq : Nat, stream : Streams, text : Seq(1 .. MaxUnits)]]
  BY DEF Init
<1>4. /\ pc \in PCs /\ child \in {"none", "alive", "zero", "nonzero", "killed"}
      /\ reader \in [Streams -> {"off", "on", "eof"}]
  BY DEF Init, PCs
<1> QED BY <1>1, <1>2, <1>3, <1>4, Zenon DEF Init, TypeOK

\* The types by the groups of the variables.
MainTypes ==
    /\ pc \in PCs /\ runErr \in {"none", "deadline", "cancel"}
    /\ closed \in BOOLEAN /\ stopped \in BOOLEAN /\ abandoned \in BOOLEAN
    /\ killed \in {"no", "deadline", "cancel", "rejected"}
    /\ outcome \in {"none", "timeout", "cancelled", "zero", "nonzero", "rejected", "failed"}

TreeTypes ==
    /\ child \in {"none", "alive", "zero", "nonzero", "killed"}
    /\ heir \in BOOLEAN
    /\ written \in [Streams -> 0 .. MaxUnits]

PipeTypes == pipe \in [Streams -> Seq(1 .. MaxUnits)]

ReaderTypes ==
    /\ reader \in [Streams -> {"off", "on", "eof"}] /\ ticker \subseteq Streams
    /\ hand \in [Streams -> Seq(1 .. MaxUnits)]

BatchTypes ==
    /\ pending \in [Streams -> Seq(1 .. MaxUnits)]
    /\ locked \in [Streams -> {<<>>} \cup Entry]
    /\ seq \in Nat /\ delivered \in Seq(Entry)

BudgetTypes == observed \in 0 .. MaxOutput /\ truncated \in BOOLEAN

LEMMA TypeParts ==
  /\ TypeOK <=> MainTypes /\ TreeTypes /\ PipeTypes /\ ReaderTypes /\ BatchTypes /\ BudgetTypes
  /\ TypeOK' <=> MainTypes' /\ TreeTypes' /\ PipeTypes' /\ ReaderTypes' /\ BatchTypes'
                   /\ BudgetTypes'
BY Zenon DEF TypeOK, MainTypes, TreeTypes, PipeTypes, ReaderTypes, BatchTypes, BudgetTypes, Entry

LEMMA TypesKept ==
  ASSUME TypeOK
  PROVE  /\ UNCHANGED main => MainTypes'
         /\ UNCHANGED tree => TreeTypes'
         /\ UNCHANGED pipe => PipeTypes'
         /\ UNCHANGED <<reader, ticker, hand>> => ReaderTypes'
         /\ UNCHANGED <<pending, locked, emitted>> => BatchTypes'
         /\ UNCHANGED budget => BudgetTypes'
<1>1. MainTypes /\ TreeTypes /\ PipeTypes /\ ReaderTypes /\ BatchTypes /\ BudgetTypes
  BY TypeParts
<1>2. UNCHANGED main => MainTypes'
  BY <1>1, Zenon DEF main, MainTypes
<1>3. UNCHANGED tree => TreeTypes'
  BY <1>1, Zenon DEF tree, TreeTypes
<1>4. UNCHANGED pipe => PipeTypes'
  BY <1>1, Zenon DEF PipeTypes
<1>5. UNCHANGED <<reader, ticker, hand>> => ReaderTypes'
  BY <1>1, Zenon DEF ReaderTypes
<1>6. UNCHANGED <<pending, locked, emitted>> => BatchTypes'
  BY <1>1, Zenon DEF emitted, BatchTypes
<1>7. UNCHANGED budget => BudgetTypes'
  BY <1>1, Zenon DEF budget, BudgetTypes
<1> QED BY <1>2, <1>3, <1>4, <1>5, <1>6, <1>7

LEMMA TreeTypeOK == TypeOK /\ TreeStep => TypeOK'
<1> SUFFICES ASSUME TypeOK, TreeStep PROVE TypeOK'
  OBVIOUS
<1> USE RunnerAssumption DEF main, tree, pumps, budget, emitted
<1>1. ASSUME NEW s \in Streams, Write(s) PROVE TypeOK'
  <2>1. written' \in [Streams -> 0 .. MaxUnits] /\ written[s] + 1 \in 1 .. MaxUnits
    BY <1>1 DEF TypeOK, Write
  <2>2. pipe' \in [Streams -> Seq(1 .. MaxUnits)]
    <3>1. Append(pipe[s], written[s] + 1) \in Seq(1 .. MaxUnits)
      BY <2>1, AppendProperties DEF TypeOK
    <3> QED BY <1>1, <3>1 DEF TypeOK, Write
  <2>3. UNCHANGED <<main, child, heir, pumps, budget, emitted>>
    BY <1>1, Zenon DEF Write
  <2>4. TreeTypes' /\ PipeTypes'
    BY <2>1, <2>2, <2>3, TypeParts, Zenon DEF TreeTypes, PipeTypes
  <2>5. UNCHANGED <<main, reader, ticker, hand, pending, locked, emitted, budget>>
    BY <2>3, Zenon
  <2> QED BY <2>4, <2>5, TypeParts, TypesKept
<1>2. CASE Fork
  BY <1>2 DEF TypeOK, Fork
<1>3. CASE ChildExits
  BY <1>3 DEF TypeOK, ChildExits
<1>4. CASE HeirExits
  <2>1. heir' \in BOOLEAN
    BY <1>4 DEF HeirExits
  <2>2. UNCHANGED <<main, child, written, pipe, pumps, budget, emitted>>
    BY <1>4 DEF HeirExits
  <2> QED BY <2>1, <2>2 DEF TypeOK
<1> QED BY <1>1, <1>2, <1>3, <1>4 DEF TreeStep

\* The step of Run that calls flushLocked, and the pumps', build an entry.
LEMMA EmitTypeOK ==
  ASSUME TypeOK, NEW s \in Streams, NEW text \in Seq(1 .. MaxUnits), Emit(s, text)
  PROVE  /\ seq' \in Nat /\ delivered' = delivered
         /\ pending' \in [Streams -> Seq(1 .. MaxUnits)]
         /\ locked' \in [Streams -> {<<>>} \cup Entry]
         /\ locked'[s] \in Entry /\ locked'[s].text = text /\ locked'[s].stream = s
         /\ locked'[s].seq = seq'
         /\ pending'[s] = <<>>
         /\ \A r \in Streams : r # s => locked'[r] = locked[r] /\ pending'[r] = pending[r]
<1> DEFINE e == [seq |-> seq + 1, stream |-> s, text |-> text]
<1>1. /\ seq' = seq + 1 /\ delivered' = delivered
      /\ locked' = [locked EXCEPT ![s] = e]
      /\ pending' = [pending EXCEPT ![s] = <<>>]
  BY DEF Emit
<1>2. /\ seq' \in Nat /\ e \in Entry /\ e.text = text /\ e.stream = s /\ e.seq = seq'
  BY <1>1 DEF TypeOK, Entry
<1>3. locked \in [Streams -> {<<>>} \cup Entry] /\ pending \in [Streams -> Seq(1 .. MaxUnits)]
  BY DEF TypeOK, Entry
<1> HIDE DEF e
<1>4. /\ locked' \in [Streams -> {<<>>} \cup Entry] /\ locked'[s] = e
      /\ \A r \in Streams : r # s => locked'[r] = locked[r]
  BY <1>1, <1>2, <1>3, Zenon
<1>5. <<>> \in Seq(1 .. MaxUnits)
  BY EmptySeq
<1>6. /\ pending' \in [Streams -> Seq(1 .. MaxUnits)] /\ pending'[s] = <<>>
      /\ \A r \in Streams : r # s => pending'[r] = pending[r]
  BY <1>1, <1>3, <1>5, Zenon
<1> QED BY <1>1, <1>2, <1>4, <1>6, Zenon

LEMMA KillTreeTypes ==
  ASSUME TypeOK, KillTree
  PROVE  child' \in {"none", "alive", "zero", "nonzero", "killed"} /\ heir' \in BOOLEAN
         /\ written' = written
<1>1. child' \in {"none", "alive", "zero", "nonzero", "killed"}
  BY DEF TypeOK, KillTree
<1>2. heir' \in BOOLEAN /\ written' = written
  BY Zenon DEF TypeOK, KillTree
<1> QED BY <1>1, <1>2

LEMMA MainTypeOK == TypeOK /\ ChildInv /\ MainStep => TypeOK'
<1> SUFFICES ASSUME TypeOK, ChildInv, MainStep PROVE TypeOK'
  OBVIOUS
<1> USE RunnerAssumption DEF main, tree, pumps, budget, emitted, PCs
<1>1. CASE PrepareFails
  <2>1. pc' \in PCs /\ outcome' = "failed"
    BY <1>1 DEF PrepareFails
  <2>2. UNCHANGED <<runErr, closed, stopped, abandoned, killed>>
    BY <1>1, Zenon DEF PrepareFails
  <2>3. UNCHANGED <<tree, pipe, reader, ticker, hand, pending, locked, budget, emitted>>
    BY <1>1, Zenon DEF PrepareFails
  <2>4. MainTypes'
    BY <2>1, <2>2, TypeParts, Zenon DEF MainTypes
  <2> QED BY <2>3, <2>4, TypeParts, TypesKept
<1>2. CASE Spawn
  BY <1>2 DEF TypeOK, Spawn
<1>3. CASE Started
  BY <1>3 DEF TypeOK, Started
<1>4. CASE Refused
  <2>1. killed' \in {"no", "deadline", "cancel", "rejected"} /\ pc' \in PCs
    BY <1>4 DEF TypeOK, Refused
  <2>2. child' \in {"none", "alive", "zero", "nonzero", "killed"} /\ heir' \in BOOLEAN
        /\ written' = written
    BY <1>4, KillTreeTypes DEF Refused
  <2>3. UNCHANGED <<runErr, closed, stopped, abandoned, outcome>>
    BY <1>4, Zenon DEF Refused
  <2>4. UNCHANGED <<pipe, reader, ticker, hand, pending, locked, budget, emitted>>
    BY <1>4, Zenon DEF Refused
  <2>5. MainTypes' /\ TreeTypes'
    BY <2>1, <2>2, <2>3, TypeParts, Zenon DEF MainTypes, TreeTypes
  <2> QED BY <2>4, <2>5, TypeParts, TypesKept
<1>5. CASE Reaped
  <2>1. pc' \in PCs /\ outcome' = "rejected"
    BY <1>5 DEF Reaped
  <2>2. UNCHANGED <<runErr, closed, stopped, abandoned, killed>>
    BY <1>5, Zenon DEF Reaped
  <2>3. UNCHANGED <<tree, pipe, reader, ticker, hand, pending, locked, budget, emitted>>
    BY <1>5, Zenon DEF Reaped
  <2>4. MainTypes'
    BY <2>1, <2>2, TypeParts, Zenon DEF MainTypes
  <2> QED BY <2>3, <2>4, TypeParts, TypesKept
<1>6. CASE ChildWaited
  <2>1. pc' \in PCs
    BY <1>6 DEF ChildWaited
  <2>2. UNCHANGED <<runErr, closed, stopped, abandoned, killed, outcome>>
    BY <1>6, Zenon DEF ChildWaited
  <2>3. UNCHANGED <<tree, pipe, reader, ticker, hand, pending, locked, budget, emitted>>
    BY <1>6, Zenon DEF ChildWaited
  <2>4. MainTypes'
    BY <2>1, <2>2, TypeParts, Zenon DEF MainTypes
  <2> QED BY <2>3, <2>4, TypeParts, TypesKept
<1>7. CASE RunCtxDone
  <2>1. killed' \in {"no", "deadline", "cancel", "rejected"} /\ pc' \in PCs
    BY <1>7 DEF TypeOK, RunCtxDone
  <2>2. child' \in {"none", "alive", "zero", "nonzero", "killed"} /\ heir' \in BOOLEAN
        /\ written' = written
    BY <1>7, KillTreeTypes DEF RunCtxDone
  <2>3. UNCHANGED <<runErr, closed, stopped, abandoned, outcome>>
    BY <1>7, Zenon DEF RunCtxDone
  <2>4. UNCHANGED <<pipe, reader, ticker, hand, pending, locked, budget, emitted>>
    BY <1>7, Zenon DEF RunCtxDone
  <2>5. MainTypes' /\ TreeTypes'
    BY <2>1, <2>2, <2>3, TypeParts, Zenon DEF MainTypes, TreeTypes
  <2> QED BY <2>4, <2>5, TypeParts, TypesKept
<1>8. CASE GraceOver
  <2>1. pc' \in PCs
    BY <1>8 DEF GraceOver
  <2>2. UNCHANGED <<runErr, closed, stopped, abandoned, killed, outcome>>
    BY <1>8, Zenon DEF GraceOver
  <2>3. UNCHANGED <<tree, pipe, reader, ticker, hand, pending, locked, budget, emitted>>
    BY <1>8, Zenon DEF GraceOver
  <2>4. MainTypes'
    BY <2>1, <2>2, TypeParts, Zenon DEF MainTypes
  <2> QED BY <2>3, <2>4, TypeParts, TypesKept
<1>9. CASE Sweep
  <2>1. pc' \in PCs
    BY <1>9 DEF Sweep
  <2>2. child' \in {"none", "alive", "zero", "nonzero", "killed"} /\ heir' \in BOOLEAN
        /\ written' = written
    BY <1>9, KillTreeTypes DEF Sweep
  <2>3. UNCHANGED <<runErr, closed, stopped, abandoned, killed, outcome>>
    BY <1>9, Zenon DEF Sweep
  <2>4. UNCHANGED <<pipe, reader, ticker, hand, pending, locked, budget, emitted>>
    BY <1>9, Zenon DEF Sweep
  <2>5. MainTypes' /\ TreeTypes'
    BY <2>1, <2>2, <2>3, TypeParts, Zenon DEF MainTypes, TreeTypes
  <2> QED BY <2>4, <2>5, TypeParts, TypesKept
<1>10. CASE PipesDrained
  <2>1. pc' \in PCs /\ stopped' \in BOOLEAN
    BY <1>10 DEF PipesDrained
  <2>2. UNCHANGED <<runErr, closed, abandoned, killed, outcome>>
    BY <1>10 DEF PipesDrained
  <2>3. UNCHANGED <<tree, pipe, pumps, budget, emitted>>
    BY <1>10 DEF PipesDrained
  <2>4. MainTypes'
    BY <2>1, <2>2, TypeParts, Zenon DEF MainTypes
  <2> QED BY <2>3, <2>4, TypeParts, TypesKept
<1>11. CASE CloseReaders
  <2>1. pc' \in PCs /\ closed' \in BOOLEAN
    BY <1>11 DEF CloseReaders
  <2>2. UNCHANGED <<runErr, stopped, abandoned, killed, outcome>>
    BY <1>11, Zenon DEF CloseReaders
  <2>3. UNCHANGED <<tree, pipe, reader, ticker, hand, pending, locked, budget, emitted>>
    BY <1>11, Zenon DEF CloseReaders
  <2>4. MainTypes'
    BY <2>1, <2>2, TypeParts, Zenon DEF MainTypes
  <2> QED BY <2>3, <2>4, TypeParts, TypesKept
<1>12. CASE Abandon
  <2>1. pc' \in PCs /\ stopped' \in BOOLEAN /\ abandoned' \in BOOLEAN
    BY <1>12 DEF Abandon
  <2>2. UNCHANGED <<runErr, closed, killed, outcome>>
    BY <1>12, Zenon DEF Abandon
  <2>3. UNCHANGED <<tree, pipe, reader, ticker, hand, pending, locked, budget, emitted>>
    BY <1>12, Zenon DEF Abandon
  <2>4. MainTypes'
    BY <2>1, <2>2, TypeParts, Zenon DEF MainTypes
  <2> QED BY <2>3, <2>4, TypeParts, TypesKept
<1>13. CASE Judge
  <2>1. outcome' \in {"none", "timeout", "cancelled", "zero", "nonzero", "rejected", "failed"}
    BY <1>13 DEF TypeOK, Judge, Outcome, ChildInv, Ended, Flushing
  <2>2. pc' \in PCs /\ UNCHANGED <<runErr, closed, stopped, abandoned, killed>>
    BY <1>13 DEF Judge
  <2>3. UNCHANGED <<tree, pipe, reader, ticker, hand, pending, locked, budget, emitted>>
    BY <1>13, Zenon DEF Judge
  <2>4. MainTypes'
    BY <2>1, <2>2, TypeParts, Zenon DEF MainTypes
  <2> QED BY <2>3, <2>4, TypeParts, TypesKept
<1>14. ASSUME NEW s \in Streams, NEW at, NEW calling \in PCs, NEW next \in PCs,
              Flush(s, at, calling, next)
       PROVE  TypeOK'
  <2>1. /\ pc' \in PCs /\ UNCHANGED <<runErr, closed, stopped, abandoned, killed, outcome>>
        /\ UNCHANGED <<tree, pipe, reader, ticker, hand, budget>>
    BY <1>14, Zenon DEF Flush
  <2>2. MainTypes'
    <3>1. MainTypes
      BY TypeParts
    <3> HIDE DEF PCs
    <3> QED BY <2>1, <3>1, Zenon DEF MainTypes
  <2>3. CASE UNCHANGED <<pending, locked, emitted>>
    BY <2>1, <2>2, <2>3, TypeParts, TypesKept
  <2>4. CASE Emit(s, pending[s])
    <3>1. pending[s] \in Seq(1 .. MaxUnits)
      BY DEF TypeOK
    <3>2. seq' \in Nat /\ delivered' = delivered /\ pending' \in [Streams -> Seq(1 .. MaxUnits)]
          /\ locked' \in [Streams -> {<<>>} \cup Entry]
      BY <2>4, <3>1, EmitTypeOK
    <3>3. BatchTypes'
      BY <3>2, TypeParts, Zenon DEF BatchTypes
    <3> QED BY <2>1, <2>2, <3>3, TypeParts, TypesKept
  <2> QED BY <1>14, <2>3, <2>4, Zenon DEF Flush
<1>15. CASE FlushStdout \/ FlushStderr
  <2>1. /\ "stdout" \in Streams /\ "stderr" \in Streams
        /\ {"flush stderr", "flushing stdout", "flushing stderr", "judge"} \subseteq PCs
    BY DEF Streams, PCs
  <2> QED BY <1>14, <1>15, <2>1, Zenon DEF FlushStdout, FlushStderr
<1> QED BY <1>1, <1>2, <1>3, <1>4, <1>5, <1>6, <1>7, <1>8, <1>9, <1>10, <1>11, <1>12, <1>13,
           <1>15 DEF MainStep

\* What the budget lets through: a prefix of the chunk that fits, and all of
\* the chunk or all the room there was.
LEMMA AllowedFits ==
  ASSUME TypeOK, NEW chunk \in Seq(1 .. MaxUnits)
  PROVE  \E n \in 0 .. Len(chunk) :
            /\ Allowed(chunk) = SubSeq(chunk, 1, n)
            /\ Allowed(chunk) \in Seq(1 .. MaxUnits)
            /\ Len(Allowed(chunk)) = n
            /\ observed + n <= MaxOutput
            /\ n < Len(chunk) => observed + n = MaxOutput
<1> DEFINE room == MaxOutput - observed
           P(n) == /\ Allowed(chunk) = SubSeq(chunk, 1, n)
                   /\ Allowed(chunk) \in Seq(1 .. MaxUnits)
                   /\ Len(Allowed(chunk)) = n
                   /\ observed + n <= MaxOutput
                   /\ n < Len(chunk) => observed + n = MaxOutput
<1>1. /\ Len(chunk) \in Nat /\ \A k \in 1 .. Len(chunk) : chunk[k] \in 1 .. MaxUnits
      /\ observed \in 0 .. MaxOutput /\ MaxOutput \in Nat /\ room \in Nat
  BY RunnerAssumption, ElementOfSeq, LenProperties DEF TypeOK
<1>2. ASSUME NEW n \in 0 .. Len(chunk)
      PROVE  SubSeq(chunk, 1, n) \in Seq(1 .. MaxUnits) /\ Len(SubSeq(chunk, 1, n)) = n
             /\ \A k \in 1 .. n : SubSeq(chunk, 1, n)[k] = chunk[k]
  <2>1. \A k \in 1 .. n : chunk[k] \in 1 .. MaxUnits
    BY <1>1
  <2>2. n \in 1 - 1 .. n
    OBVIOUS
  <2> DEFINE t == SubSeq(chunk, 1, n)
  <2>3. t \in Seq(1 .. MaxUnits) /\ Len(t) = n - 1 + 1
        /\ \A k \in 1 .. n - 1 + 1 : t[k] = chunk[1 + k - 1]
    BY <2>1, <2>2, SubSeqProperties
  <2> HIDE DEF t
  <2>4. n - 1 + 1 = n /\ \A k \in 1 .. n : 1 + k - 1 = k
    OBVIOUS
  <2>5. t \in Seq(1 .. MaxUnits) /\ Len(t) = n /\ \A k \in 1 .. n : t[k] = chunk[k]
    BY <2>3, <2>4
  <2> QED BY <2>5 DEF t
<1>3. CASE Len(chunk) > MaxOutput - observed
  <2>1. room \in 0 .. Len(chunk) /\ Allowed(chunk) = SubSeq(chunk, 1, room)
    BY <1>1, <1>3 DEF Allowed, Take
  <2>2. observed + room = MaxOutput
    BY <1>1
  <2>3. P(room)
    BY <1>1, <1>2, <2>1, <2>2
  <2> HIDE DEF P, room
  <2>4. \E n \in 0 .. Len(chunk) : P(n)
    BY <2>1, <2>3, Zenon
  <2> QED BY <2>4 DEF P
<1>4. CASE ~(Len(chunk) > MaxOutput - observed)
  <2>1. Allowed(chunk) = chunk /\ Len(chunk) \in 0 .. Len(chunk)
    BY <1>1, <1>4 DEF Allowed
  <2>2. chunk = SubSeq(chunk, 1, Len(chunk))
    <3> DEFINE t == SubSeq(chunk, 1, Len(chunk))
    <3>1. t \in Seq(1 .. MaxUnits) /\ Len(t) = Len(chunk)
          /\ \A k \in 1 .. Len(chunk) : t[k] = chunk[k]
      BY <1>2, <2>1
    <3> HIDE DEF t
    <3>2. t = chunk
      BY <3>1, SeqEqual
    <3> QED BY <3>2 DEF t
  <2>3. observed + Len(chunk) <= MaxOutput
    BY <1>1, <1>4
  <2> DEFINE n == Len(chunk)
  <2>4. P(n)
    BY <1>1, <1>2, <2>1, <2>2, <2>3
  <2> HIDE DEF P, n
  <2>5. \E k \in 0 .. n : P(k)
    BY <2>1, <2>4, Zenon DEF n
  <2> QED BY <2>5 DEF P, n
<1> QED BY <1>3, <1>4

LEMMA PumpTypeOK == ASSUME NEW s \in Streams PROVE TypeOK /\ PumpStep(s) => TypeOK'
<1> SUFFICES ASSUME TypeOK, PumpStep(s) PROVE TypeOK'
  OBVIOUS
<1>1. CASE Read(s)
  <2>1. /\ UNCHANGED <<main, tree, pending, locked, emitted, budget>>
        /\ reader' = reader /\ ticker' = ticker
    BY <1>1 DEF Read
  <2>2. PICK n \in 1 .. Len(pipe[s]) :
           /\ hand' = [hand EXCEPT ![s] = SubSeq(pipe[s], 1, n)]
           /\ pipe' = [pipe EXCEPT ![s] = SubSeq(@, n + 1, Len(@))]
    BY <1>1, Zenon DEF Read
  <2>3. pipe[s] \in Seq(1 .. MaxUnits) /\ Len(pipe[s]) \in Nat
    BY LenProperties DEF TypeOK
  <2>4. SubSeq(pipe[s], 1, n) \in Seq(1 .. MaxUnits)
        /\ SubSeq(pipe[s], n + 1, Len(pipe[s])) \in Seq(1 .. MaxUnits)
    <3>1. \A k \in 1 .. Len(pipe[s]) : pipe[s][k] \in 1 .. MaxUnits
      BY <2>3, ElementOfSeq
    <3> QED BY <2>3, <3>1, SubSeqProperties
  <2>5. PipeTypes' /\ ReaderTypes'
    BY <2>1, <2>2, <2>4 DEF TypeOK, PipeTypes, ReaderTypes
  <2> QED BY <2>1, <2>5, TypeParts, TypesKept
<1>2. CASE ReadEnds(s)
  <2>1. /\ UNCHANGED <<main, tree, pipe, pending, locked, emitted, budget>>
        /\ reader' = [reader EXCEPT ![s] = "eof"] /\ ticker' = ticker /\ hand' = hand
    BY <1>2 DEF ReadEnds
  <2>2. ReaderTypes'
    BY <2>1 DEF TypeOK, ReaderTypes
  <2> QED BY <2>1, <2>2, TypeParts, TypesKept
<1>3. CASE Add(s)
  <2> DEFINE allowed == Allowed(hand[s])
             buffer == pending[s] \o allowed
  <2>1. hand[s] \in Seq(1 .. MaxUnits) /\ pending[s] \in Seq(1 .. MaxUnits)
    BY DEF TypeOK
  <2>2. PICK n \in 0 .. Len(hand[s]) :
           allowed \in Seq(1 .. MaxUnits) /\ Len(allowed) = n /\ observed + n <= MaxOutput
    BY <2>1, AllowedFits
  <2>3. buffer \in Seq(1 .. MaxUnits)
    <3> HIDE DEF allowed
    <3> QED BY <2>1, <2>2, ConcatProperties
  <2>4. /\ observed' = observed + Len(allowed)
        /\ truncated' = (truncated \/ Len(allowed) < Len(hand[s]))
        /\ hand' = [hand EXCEPT ![s] = <<>>]
        /\ UNCHANGED <<main, tree, pipe, reader, ticker>>
        /\ \/ Emit(s, buffer)
           \/ pending' = [pending EXCEPT ![s] = buffer] /\ UNCHANGED <<locked, emitted>>
    BY <1>3 DEF Add
  <2> HIDE DEF buffer, allowed
  <2>5. observed' \in 0 .. MaxOutput
    BY <2>2, <2>4, LenProperties, RunnerAssumption DEF TypeOK
  <2>6. BudgetTypes'
    BY <2>4, <2>5, Zenon DEF BudgetTypes
  <2>7. ReaderTypes'
    BY <2>4, EmptySeq DEF TypeOK, ReaderTypes
  <2>8. BatchTypes'
    <3>1. CASE Emit(s, buffer)
      BY <2>3, <3>1, EmitTypeOK, TypeParts, Zenon DEF BatchTypes
    <3>2. CASE pending' = [pending EXCEPT ![s] = buffer] /\ UNCHANGED <<locked, emitted>>
      BY <2>3, <3>2, TypeParts, Zenon DEF BatchTypes, emitted
    <3> QED BY <2>4, <3>1, <3>2
  <2> QED BY <2>4, <2>6, <2>7, <2>8, TypeParts, TypesKept
<1>4. CASE Tick(s)
  <2>1. Emit(s, pending[s]) /\ pending[s] \in Seq(1 .. MaxUnits)
        /\ UNCHANGED <<main, tree, pipe, reader, ticker, hand, budget>>
    BY <1>4 DEF Tick, TypeOK
  <2>2. BatchTypes'
    BY <2>1, EmitTypeOK, TypeParts, Zenon DEF BatchTypes
  <2> QED BY <2>1, <2>2, TypeParts, TypesKept
<1>5. CASE TickerStops(s)
  <2>1. /\ UNCHANGED <<main, tree, pipe, pending, locked, emitted, budget>>
        /\ ticker' = ticker \ {s} /\ UNCHANGED <<reader, hand>>
    BY <1>5 DEF TickerStops
  <2>2. ReaderTypes'
    BY <2>1, TypeParts, Zenon DEF ReaderTypes
  <2> QED BY <2>1, <2>2, TypeParts, TypesKept
<1>6. CASE Deliver(s)
  <2>0. MainTypes'
    <3>1. /\ pc' \in {pc, "flush stderr", "judge"}
          /\ UNCHANGED <<runErr, closed, stopped, abandoned, killed, outcome>>
      BY <1>6 DEF Deliver, AfterDelivery
    <3>2. MainTypes /\ {"flush stderr", "judge"} \subseteq PCs
      BY TypeParts DEF PCs
    <3> QED BY <3>1, <3>2 DEF MainTypes
  <2>1. /\ UNCHANGED <<tree, pipe, reader, ticker, hand, budget>>
        /\ pending' = pending /\ seq' = seq
        /\ delivered' = Append(delivered, locked[s])
        /\ locked' = [locked EXCEPT ![s] = <<>>] /\ locked[s] # <<>>
    BY <1>6 DEF Deliver
  <2>2. BatchTypes
    BY TypeParts
  <2>3. locked[s] \in Entry
    BY <2>1, <2>2, Zenon DEF BatchTypes
  <2>4. delivered' \in Seq(Entry)
    BY <2>1, <2>2, <2>3, AppendProperties DEF BatchTypes
  <2>5. BatchTypes'
    BY <2>1, <2>2, <2>4, Zenon DEF BatchTypes
  <2> QED BY <2>0, <2>1, <2>5, TypeParts, TypesKept
<1> QED BY <1>1, <1>2, <1>3, <1>4, <1>5, <1>6 DEF PumpStep

LEMMA StepTypeOK == TypeOK /\ ChildInv /\ [Next]_vars => TypeOK'
<1> SUFFICES ASSUME TypeOK, ChildInv, [Next]_vars PROVE TypeOK'
  OBVIOUS
<1>1. ASSUME NEW why \in {"deadline", "cancel"}, CtxEnds(why) PROVE TypeOK'
  <2>1. runErr' \in {"none", "deadline", "cancel"}
        /\ UNCHANGED <<pc, closed, stopped, abandoned, killed, outcome>>
    BY <1>1 DEF CtxEnds
  <2>2. UNCHANGED <<tree, pipe, pumps, budget, emitted>>
    BY <1>1 DEF CtxEnds
  <2>3. MainTypes'
    BY <2>1, TypeParts, Zenon DEF MainTypes
  <2> QED BY <2>2, <2>3, TypeParts, TypesKept DEF pumps
<1>2. CASE UNCHANGED vars
  BY <1>2, TypeParts, TypesKept DEF vars, pumps
<1> QED BY <1>1, <1>2, TreeTypeOK, MainTypeOK, PumpTypeOK DEF Next

-----------------------------------------------------------------------------
(* The places are invariant.                                                *)

LEMMA InitPlaceInv == Init => PlaceInv
BY DEF Init, PlaceInv, ChildInv, KilledInv, ReaderInv, FlushInv, Ended, Flushing

\* Steps of the pumps and of the context leave Run where it is.
LEMMA ChildStep == TypeOK /\ ChildInv /\ [Next]_vars => ChildInv'
<1> SUFFICES ASSUME TypeOK, ChildInv, [Next]_vars PROVE ChildInv'
  OBVIOUS
<1> USE DEF ChildInv, Ended, Flushing, main, tree, pumps
<1>1. CASE TreeStep
  <2>1. UNCHANGED <<pc, runErr, reader>>
        /\ (child' = child \/ (child = "alive" /\ child' \in {"zero", "nonzero"}))
    <3>1. CASE \E s \in Streams : Write(s)
      <4>1. UNCHANGED <<pc, runErr, reader, child>>
        BY <3>1, Zenon DEF Write
      <4> QED BY <4>1
    <3>2. CASE Fork \/ HeirExits
      <4>1. UNCHANGED <<pc, runErr, reader, child>>
        BY <3>2, Zenon DEF Fork, HeirExits
      <4> QED BY <4>1
    <3>3. CASE ChildExits
      BY <3>3 DEF ChildExits
    <3> QED BY <1>1, <3>1, <3>2, <3>3 DEF TreeStep
  <2> QED BY <2>1
<1>2. CASE MainStep
  <2>1. CASE PrepareFails \/ Spawn
    BY <2>1 DEF PrepareFails, Spawn
  <2>2. CASE Started \/ Refused \/ Reaped
    BY <2>2 DEF Started, Refused, Reaped
  <2>3. CASE ChildWaited \/ GraceOver
    BY <2>3 DEF ChildWaited, GraceOver
  <2>4. CASE RunCtxDone
    BY <2>4 DEF RunCtxDone
  <2>5. CASE Sweep
    BY <2>5 DEF Sweep, KillTree
  <2>6. CASE PipesDrained \/ CloseReaders \/ Abandon \/ Judge
    BY <2>6 DEF PipesDrained, CloseReaders, Abandon, Judge
  <2>7. CASE FlushStdout \/ FlushStderr
    BY <2>7 DEF FlushStdout, FlushStderr, Flush
  <2> QED BY <1>2, <2>1, <2>2, <2>3, <2>4, <2>5, <2>6, <2>7 DEF MainStep
<1>3. ASSUME NEW why \in {"deadline", "cancel"}, CtxEnds(why) PROVE ChildInv'
  BY <1>3 DEF CtxEnds
<1>4. ASSUME NEW s \in Streams, PumpStep(s) PROVE ChildInv'
  <2>1. CASE Deliver(s)
    <3>1. /\ pc' = pc \/ (pc \in Flushing /\ pc' \in {"flush stderr", "judge"})
          /\ UNCHANGED <<runErr, child, reader>>
      BY <2>1 DEF Deliver, AfterDelivery
    <3> QED BY <3>1
  <2>2. CASE ~Deliver(s)
    <3>1. UNCHANGED <<pc, runErr, child>> /\ (reader' = reader \/ ReadEnds(s))
      BY <1>4, <2>2 DEF PumpStep, Read, ReadEnds, Add, Tick, TickerStops
    <3>2. ReadEnds(s) => pc # "prepare"
      BY DEF ReadEnds
    <3> QED BY <3>1, <3>2
  <2> QED BY <2>1, <2>2
<1>5. CASE UNCHANGED vars
  BY <1>5 DEF vars
<1> QED BY <1>1, <1>2, <1>3, <1>4, <1>5 DEF Next

LEMMA OutcomeIs ==
  /\ runErr = "deadline" => Outcome = "timeout"
  /\ runErr = "cancel" => Outcome = "cancelled"
  /\ runErr \notin {"deadline", "cancel"} => Outcome = child
BY DEF Outcome

LEMMA KilledStep == TypeOK /\ ChildInv /\ KilledInv /\ [Next]_vars => KilledInv'
<1> SUFFICES ASSUME TypeOK, ChildInv, KilledInv, [Next]_vars PROVE KilledInv'
  OBVIOUS
<1> USE DEF KilledInv, main, tree, pumps
<1>0. pc = "returned" => runErr # "none" \/ child # "alive"
  BY DEF ChildInv, Ended, Flushing
<1>1. CASE TreeStep
  <2>1. UNCHANGED main /\ (child' = child \/ child = "alive")
    BY <1>1 DEF TreeStep, Write, Fork, ChildExits, HeirExits
  <2> QED BY <1>0, <2>1 DEF Outcome, TypeOK
<1>2. CASE MainStep
  <2>1. CASE PrepareFails \/ Spawn \/ Started \/ Reaped
    BY <2>1 DEF PrepareFails, Spawn, Started, Reaped
  <2>2. CASE Refused
    BY <2>2 DEF Refused
  <2>3. CASE ChildWaited \/ GraceOver \/ PipesDrained \/ CloseReaders \/ Abandon
    BY <2>3 DEF ChildWaited, GraceOver, PipesDrained, CloseReaders, Abandon
  <2>4. CASE RunCtxDone
    BY <2>4 DEF RunCtxDone, TypeOK
  <2>5. CASE Sweep
    BY <2>5 DEF Sweep
  <2>6. CASE Judge
    BY <2>6 DEF Judge, Outcome
  <2>7. CASE FlushStdout \/ FlushStderr
    BY <2>7 DEF FlushStdout, FlushStderr, Flush
  <2> QED BY <1>2, <2>1, <2>2, <2>3, <2>4, <2>5, <2>6, <2>7 DEF MainStep
<1>3. ASSUME NEW why \in {"deadline", "cancel"}, CtxEnds(why) PROVE KilledInv'
  BY <1>3 DEF CtxEnds
<1>4. ASSUME NEW s \in Streams, PumpStep(s) PROVE KilledInv'
  <2>1. /\ pc' = pc \/ pc' \in {"flush stderr", "judge"}
        /\ killed # "rejected" \/ pc' = pc
        /\ UNCHANGED <<runErr, killed, outcome, child>>
    BY <1>4 DEF PumpStep, Read, ReadEnds, Add, Tick, TickerStops, Deliver, AfterDelivery
  <2> QED BY <2>1 DEF Outcome
<1>5. CASE UNCHANGED vars
  BY <1>5 DEF vars, Outcome
<1> QED BY <1>1, <1>2, <1>3, <1>4, <1>5 DEF Next

LEMMA ReaderStep == TypeOK /\ ChildInv /\ ReaderInv /\ [Next]_vars => ReaderInv'
<1> SUFFICES ASSUME TypeOK, ChildInv, ReaderInv, [Next]_vars PROVE ReaderInv'
  OBVIOUS
<1> USE DEF ReaderInv, ReadersDone, Flushing, main, tree, pumps
<1> DEFINE Idle == child # "alive" /\ ~heir
<1>1. CASE TreeStep
  <2>1. UNCHANGED <<pc, closed, abandoned, reader, hand>>
    BY <1>1 DEF TreeStep, Write, Fork, ChildExits, HeirExits
  <2>2. ASSUME NEW s \in Streams, reader[s] = "eof" PROVE closed \/ (Idle' /\ pipe'[s] = <<>>)
    <3>1. CASE closed
      BY <3>1
    <3>2. CASE Idle /\ pipe[s] = <<>>
      <4>1. ~(\E r \in Streams : Write(r)) /\ ~Fork /\ ~ChildExits /\ ~HeirExits
        BY <3>2, Zenon DEF Write, Writing, Fork, ChildExits, HeirExits
      <4> QED BY <1>1, <4>1 DEF TreeStep
    <3> QED BY <2>2, <3>1, <3>2
  <2> QED BY <2>1, <2>2, Zenon
<1>2. CASE MainStep
  <2>1. CASE Spawn \/ Started \/ PrepareFails
    <3>1. pc \in {"prepare", "notify"} /\ pc' \in {"notify", "wait", "failed"}
          /\ UNCHANGED <<closed, abandoned, hand>>
      BY <2>1 DEF Spawn, Started, PrepareFails
    <3>2. \A s \in Streams : reader'[s] = "eof" => reader[s] = "eof" /\ UNCHANGED <<tree, pipe>>
      BY <2>1, <3>1 DEF Spawn, Started, PrepareFails, ChildInv
    <3> QED BY <3>1, <3>2
  <2>2. CASE Refused \/ RunCtxDone \/ Sweep
    <3>1. pc' \in {"reap", "grace", "drain"} /\ UNCHANGED <<closed, abandoned, reader, hand, pipe>>
      BY <2>2 DEF Refused, RunCtxDone, Sweep
    <3>2. KillTree
      BY <2>2 DEF Refused, RunCtxDone, Sweep
    <3>3. Idle => Idle'
      BY <3>2, Zenon DEF KillTree
    <3> QED BY <3>1, <3>3
  <2>3. CASE Reaped \/ ChildWaited \/ GraceOver
    <3>1. pc' \in {"rejected", "sweep"}
          /\ UNCHANGED <<closed, abandoned, reader, hand, pipe, tree>>
      BY <2>3 DEF Reaped, ChildWaited, GraceOver
    <3> QED BY <3>1
  <2>4. CASE PipesDrained
    <3>1. ReadersDone /\ pc' = "flush stdout"
          /\ UNCHANGED <<closed, abandoned, reader, hand, pipe, tree>>
      BY <2>4 DEF PipesDrained
    <3> QED BY <3>1
  <2>5. CASE CloseReaders
    <3>1. closed' /\ pc' = "close" /\ UNCHANGED <<abandoned, reader, hand, pipe, tree>>
      BY <2>5 DEF CloseReaders
    <3> QED BY <3>1
  <2>6. CASE Abandon
    <3>1. closed /\ abandoned' /\ pc' = "flush stdout"
          /\ UNCHANGED <<closed, reader, hand, pipe, tree>>
      BY <2>6 DEF Abandon
    <3> QED BY <3>1
  <2>7. CASE Judge \/ FlushStdout \/ FlushStderr
    <3>1. pc \in Flushing /\ pc' \in Flushing /\ pc' # "close"
          /\ UNCHANGED <<closed, abandoned, reader, hand, pipe, tree>>
      BY <2>7 DEF Judge, FlushStdout, FlushStderr, Flush
    <3> QED BY <3>1
  <2> QED BY <1>2, <2>1, <2>2, <2>3, <2>4, <2>5, <2>6, <2>7 DEF MainStep
<1>3. ASSUME NEW why \in {"deadline", "cancel"}, CtxEnds(why) PROVE ReaderInv'
  <2>1. UNCHANGED <<pc, closed, abandoned, reader, hand, pipe, tree>>
    BY <1>3 DEF CtxEnds
  <2> QED BY <2>1
<1>4. ASSUME NEW s \in Streams, PumpStep(s) PROVE ReaderInv'
  <2>1. CASE Read(s)
    <3>1. reader[s] = "on" /\ UNCHANGED <<main, tree, reader>>
          /\ \A r \in Streams : r # s => hand'[r] = hand[r] /\ pipe'[r] = pipe[r]
      BY <2>1 DEF Read, TypeOK
    <3> QED BY <3>1, Zenon
  <2>2. CASE ReadEnds(s)
    <3>1. /\ UNCHANGED <<main, tree, hand, pipe>> /\ hand[s] = <<>>
          /\ \A r \in Streams : reader'[r] = IF r = s THEN "eof" ELSE reader[r]
      BY <2>2 DEF ReadEnds, TypeOK
    <3>2. closed \/ (Idle /\ pipe[s] = <<>>)
      BY <2>2, Zenon DEF ReadEnds, Writing
    <3> QED BY <3>1, <3>2
  <2>3. CASE Add(s)
    <3>1. UNCHANGED <<main, tree, reader, pipe>>
          /\ \A r \in Streams : hand'[r] = IF r = s THEN <<>> ELSE hand[r]
      BY <2>3 DEF Add, TypeOK
    <3> QED BY <3>1
  <2>4. CASE Tick(s) \/ TickerStops(s) \/ Deliver(s)
    <3>1. /\ pc' = pc \/ (pc \in Flushing /\ pc' \in Flushing /\ pc' # "close")
          /\ UNCHANGED <<closed, abandoned, tree, reader, hand, pipe>>
      BY <2>4 DEF Tick, TickerStops, Deliver, AfterDelivery
    <3> QED BY <3>1
  <2> QED BY <1>4, <2>1, <2>2, <2>3, <2>4 DEF PumpStep
<1>5. CASE UNCHANGED vars
  BY <1>5 DEF vars
<1> QED BY <1>1, <1>2, <1>3, <1>4, <1>5 DEF Next

LEMMA FlushStep == TypeOK /\ ReaderInv /\ FlushInv /\ [Next]_vars => FlushInv'
<1> SUFFICES ASSUME TypeOK, ReaderInv, FlushInv, [Next]_vars PROVE FlushInv'
  OBVIOUS
<1> USE DEF FlushInv, main, tree, pumps, emitted
<1>1. CASE TreeStep
  <2>1. UNCHANGED <<main, pending, locked>>
    BY <1>1, Zenon DEF TreeStep, Write, Fork, ChildExits, HeirExits
  <2> QED BY <2>1
<1>2. CASE MainStep
  <2>1. CASE PrepareFails \/ Spawn \/ Started \/ Refused \/ Reaped \/ ChildWaited \/ RunCtxDone
             \/ GraceOver \/ Sweep \/ PipesDrained \/ CloseReaders \/ Abandon
    <3>1. pc' \notin {"flushing stdout", "flush stderr", "flushing stderr", "judge", "returned"}
      BY <2>1 DEF PrepareFails, Spawn, Started, Refused, Reaped, ChildWaited, RunCtxDone,
                  GraceOver, Sweep, PipesDrained, CloseReaders, Abandon
    <3> QED BY <3>1
  <2>2. CASE Judge
    <3>1. pc = "judge" /\ UNCHANGED <<abandoned, pending, locked>>
      BY <2>2 DEF Judge
    <3> QED BY <3>1
  <2>3. CASE FlushStdout
    <3>1. CASE pending["stdout"] = <<>>
      <4>1. pc' = "flush stderr" /\ locked["stdout"] = <<>>
            /\ UNCHANGED <<abandoned, pending, locked>>
        BY <2>3, <3>1, Zenon DEF FlushStdout, Flush
      <4> QED BY <3>1, <4>1
    <3>2. CASE pending["stdout"] # <<>>
      <4>1. pc' = "flushing stdout" /\ Emit("stdout", pending["stdout"])
        BY <2>3, <3>2, Zenon DEF FlushStdout, Flush
      <4>2. pending'["stdout"] = <<>>
        BY <4>1 DEF Emit, TypeOK, Streams
      <4> QED BY <4>1, <4>2
    <3> QED BY <3>1, <3>2
  <2>4. CASE FlushStderr
    <3>1. CASE pending["stderr"] = <<>>
      <4>1. pc = "flush stderr" /\ pc' = "judge" /\ locked["stderr"] = <<>>
            /\ UNCHANGED <<abandoned, pending, locked>>
        BY <2>4, <3>1, Zenon DEF FlushStderr, Flush
      <4> QED BY <3>1, <4>1
    <3>2. CASE pending["stderr"] # <<>>
      <4>1. /\ pc = "flush stderr" /\ pc' = "flushing stderr" /\ abandoned' = abandoned
            /\ Emit("stderr", pending["stderr"])
        BY <2>4, <3>2, Zenon DEF FlushStderr, Flush
      <4>2. /\ pending'["stdout"] = pending["stdout"] /\ locked'["stdout"] = locked["stdout"]
            /\ pending'["stderr"] = <<>>
        BY <4>1 DEF Emit, TypeOK, Streams
      <4> QED BY <4>1, <4>2
    <3> QED BY <3>1, <3>2
  <2> QED BY <1>2, <2>1, <2>2, <2>3, <2>4 DEF MainStep
<1>3. ASSUME NEW why \in {"deadline", "cancel"}, CtxEnds(why) PROVE FlushInv'
  <2>1. UNCHANGED <<pc, abandoned, pending, locked>>
    BY <1>3 DEF CtxEnds
  <2> QED BY <2>1
<1>4. ASSUME NEW s \in Streams, PumpStep(s) PROVE FlushInv'
  <2>0. abandoned' = abandoned /\ (pc' = pc \/ Deliver(s))
    BY <1>4, Zenon DEF PumpStep, Read, ReadEnds, Add, Tick, TickerStops, Deliver
  <2>1. CASE Read(s) \/ ReadEnds(s) \/ TickerStops(s)
    <3>1. UNCHANGED <<pc, pending, locked>>
      BY <2>1, Zenon DEF Read, ReadEnds, TickerStops
    <3> QED BY <2>0, <3>1
  <2>2. CASE Add(s)
    <3>1. hand[s] # <<>> /\ pc' = pc
      BY <2>2 DEF Add
    <3>2. pc \in Flushing => abandoned
      BY <3>1 DEF ReaderInv, ReadersDone
    <3> QED BY <2>0, <3>1, <3>2 DEF Flushing
  <2>3. CASE Tick(s)
    <3>1. pending[s] # <<>> /\ Emit(s, pending[s]) /\ pending[s] \in Seq(1 .. MaxUnits)
          /\ pc' = pc
      BY <2>3 DEF Tick, TypeOK
    <3>2. \A r \in Streams : r # s => locked'[r] = locked[r] /\ pending'[r] = pending[r]
      BY <3>1, EmitTypeOK
    <3> QED BY <2>0, <3>1, <3>2 DEF Streams
  <2>4. CASE Deliver(s)
    <3>1. pending' = pending /\ \A r \in Streams : locked'[r] = locked[r] \/ locked'[r] = <<>>
      <4>1. pending' = pending /\ locked' = [locked EXCEPT ![s] = <<>>]
        BY <2>4 DEF Deliver
      <4>2. locked \in [Streams -> {<<>>} \cup Entry]
        BY TypeParts DEF BatchTypes
      <4> QED BY <4>1, <4>2, Zenon
    <3>2. "stdout" \in Streams /\ "stderr" \in Streams
      BY DEF Streams
    <3>3. CASE pc' = pc
      BY <2>0, <3>1, <3>2, <3>3, Zenon
    <3>4. CASE pc' # pc
      <4>1. /\ locked'[s] = <<>>
            /\ \/ s = "stdout" /\ pc = "flushing stdout" /\ pc' = "flush stderr"
               \/ s = "stderr" /\ pc = "flushing stderr" /\ pc' = "judge"
        BY <2>4, <3>4 DEF Deliver, AfterDelivery, TypeOK
      <4> QED BY <2>0, <3>1, <3>2, <4>1
    <3> QED BY <3>3, <3>4
  <2> QED BY <1>4, <2>1, <2>2, <2>3, <2>4 DEF PumpStep
<1>5. CASE UNCHANGED vars
  BY <1>5 DEF vars
<1> QED BY <1>1, <1>2, <1>3, <1>4, <1>5 DEF Next

-----------------------------------------------------------------------------
(* What is accepted of a stream.                                            *)

\* The units accepted of stream s: delivered, in a call, or buffered.
Got(s) == Text(s) \o Held(s) \o pending[s]

LEMMA GotType ==
  ASSUME TypeOK, NEW s \in Streams
  PROVE  /\ Text(s) \in Seq(1 .. MaxUnits) /\ Held(s) \in Seq(1 .. MaxUnits)
         /\ pending[s] \in Seq(1 .. MaxUnits) /\ Got(s) \in Seq(1 .. MaxUnits)
         /\ Len(Got(s)) \in Nat
<1>1. Text(s) \in Seq(1 .. MaxUnits)
  BY TypeParts, TextType DEF BatchTypes
<1>2. pending[s] \in Seq(1 .. MaxUnits)
  BY DEF TypeOK
<1>3. Held(s) \in Seq(1 .. MaxUnits)
  <2>1. CASE locked[s] = <<>>
    BY <2>1, EmptySeq DEF Held
  <2>2. CASE locked[s] # <<>>
    <3>1. locked[s] \in Entry
      BY <2>2, TypeParts, Zenon DEF BatchTypes
    <3> QED BY <2>2, <3>1 DEF Held, Entry
  <2> QED BY <2>1, <2>2
<1>4. Got(s) \in Seq(1 .. MaxUnits)
  BY <1>1, <1>2, <1>3, ConcatProperties DEF Got
<1> QED BY <1>1, <1>2, <1>3, <1>4, LenProperties

LEMMA GotKept ==
  ASSUME NEW s \in Streams, delivered' = delivered, locked'[s] = locked[s],
         pending'[s] = pending[s]
  PROVE  Got(s)' = Got(s)
<1>1. Text(s)' = Text(s)
  BY Zenon DEF Text
<1>2. Held(s)' = Held(s)
  BY Zenon DEF Held
<1> QED BY <1>1, <1>2, Zenon DEF Got

\* A flush moves the buffer into the call.
LEMMA GotOfEmit ==
  ASSUME TypeOK, NEW s \in Streams, NEW text \in Seq(1 .. MaxUnits), Emit(s, text),
         locked[s] = <<>>
  PROVE  /\ Got(s)' = Text(s) \o text
         /\ \A r \in Streams \ {s} : Got(r)' = Got(r)
<1>1. /\ delivered' = delivered /\ locked'[s] \in Entry /\ locked'[s].text = text
      /\ pending'[s] = <<>>
      /\ \A r \in Streams : r # s => locked'[r] = locked[r] /\ pending'[r] = pending[r]
  BY EmitTypeOK
<1>2. Text(s)' = Text(s)
  BY <1>1, Zenon DEF Text
<1>3. Held(s)' = text
  BY <1>1, EntryNotEmpty DEF Held
<1>4. Got(s)' = (Text(s) \o text) \o <<>>
  BY <1>1, <1>2, <1>3 DEF Got
<1>5. Text(s) \o text \in Seq(1 .. MaxUnits)
  BY GotType, ConcatProperties
<1>6. (Text(s) \o text) \o <<>> = Text(s) \o text
  <2> DEFINE u == Text(s) \o text
  <2> HIDE DEF u
  <2> QED BY <1>5, ConcatEmptySeq DEF u
<1> QED BY <1>1, <1>4, <1>6, GotKept

\* The buffer alone goes into the call: nothing is accepted or lost by it.
LEMMA GotOfFlush ==
  ASSUME TypeOK, NEW s \in Streams, Emit(s, pending[s]), locked[s] = <<>>
  PROVE  \A r \in Streams : Got(r)' = Got(r)
<1>1. Got(s) = Text(s) \o pending[s]
  <2>1. Text(s) \o <<>> = Text(s)
    BY GotType, ConcatEmptySeq
  <2> QED BY <2>1 DEF Got, Held
<1> QED BY <1>1, GotType, GotOfEmit

\* A batch in a call is of the pump whose mutex the call holds.
LockInv == \A s \in Streams : locked[s] # <<>> => locked[s].stream = s

\* The call's return moves its batch into the text.
LEMMA GotOfDeliver ==
  ASSUME TypeOK, LockInv, NEW s \in Streams, Deliver(s)
  PROVE  \A r \in Streams : Got(r)' = Got(r)
<1> DEFINE e == locked[s]
<1>1. /\ delivered' = Append(delivered, e) /\ locked' = [locked EXCEPT ![s] = <<>>]
      /\ pending' = pending /\ e # <<>>
  BY DEF Deliver, pumps, emitted
<1>2. locked \in [Streams -> {<<>>} \cup Entry] /\ delivered \in Seq(Entry)
  BY TypeParts DEF BatchTypes
<1>3. e \in Entry /\ e.stream = s
  BY <1>1, <1>2, Zenon DEF LockInv
<1>4. \A r \in Streams : Text(r)' = Text(r) \o TextOf(e, r)
  BY <1>1, <1>2, <1>3, TextGrows
<1>5. locked'[s] = <<>> /\ \A r \in Streams \ {s} : locked'[r] = locked[r]
  BY <1>1, <1>2, Zenon
<1>6. Got(s)' = Got(s)
  <2>1. Text(s)' = Text(s) \o e.text /\ Held(s) = e.text /\ Held(s)' = <<>>
    BY <1>1, <1>3, <1>4, <1>5 DEF TextOf, Held
  <2>2. Text(s) \o e.text \in Seq(1 .. MaxUnits)
    <3>1. e.text \in Seq(1 .. MaxUnits)
      BY <2>1, GotType
    <3> QED BY <3>1, GotType, ConcatProperties
  <2>3. (Text(s) \o e.text) \o <<>> = Text(s) \o e.text
    <3> DEFINE u == Text(s) \o e.text
    <3> HIDE DEF u
    <3> QED BY <2>2, ConcatEmptySeq DEF u
  <2> HIDE DEF e
  <2> QED BY <1>1, <2>1, <2>3 DEF Got
<1>7. ASSUME NEW r \in Streams \ {s} PROVE Got(r)' = Got(r)
  <2>1. Text(r)' = Text(r) \o <<>> /\ Held(r)' = Held(r)
    BY <1>3, <1>4, <1>5 DEF TextOf, Held
  <2>2. Text(r) \o <<>> = Text(r)
    BY GotType, ConcatEmptySeq
  <2> QED BY <1>1, <2>1, <2>2 DEF Got
<1> QED BY <1>6, <1>7

\* What the reader adds goes behind all that was accepted.
LEMMA GotOfAdd ==
  ASSUME TypeOK, NEW s \in Streams, Add(s)
  PROVE  /\ Got(s)' = Got(s) \o Allowed(hand[s])
         /\ \A r \in Streams \ {s} : Got(r)' = Got(r)
<1> DEFINE allowed == Allowed(hand[s])
           buffer == pending[s] \o allowed
<1>1. locked[s] = <<>>
  BY DEF Add
<1>2. allowed \in Seq(1 .. MaxUnits)
  <2>1. hand[s] \in Seq(1 .. MaxUnits)
    BY DEF TypeOK
  <2> QED BY <2>1, AllowedFits
<1>3. /\ Text(s) \in Seq(1 .. MaxUnits) /\ pending[s] \in Seq(1 .. MaxUnits)
      /\ pending \in [Streams -> Seq(1 .. MaxUnits)]
  BY GotType DEF TypeOK
<1>4. \/ Emit(s, buffer)
      \/ pending' = [pending EXCEPT ![s] = buffer] /\ UNCHANGED <<locked, emitted>>
  BY DEF Add
<1> HIDE DEF allowed
<1>5. buffer \in Seq(1 .. MaxUnits)
  BY <1>2, <1>3, ConcatProperties
<1>6. Got(s) = Text(s) \o pending[s]
  <2>1. Text(s) \o <<>> = Text(s)
    BY <1>3, ConcatEmptySeq
  <2> QED BY <1>1, <2>1 DEF Got, Held
<1>7. Got(s) \o allowed = Text(s) \o buffer
  <2> DEFINE t == Text(s)
             p == pending[s]
  <2>1. t \in Seq(1 .. MaxUnits) /\ p \in Seq(1 .. MaxUnits)
    BY <1>3
  <2> HIDE DEF t, p
  <2>2. (t \o p) \o allowed = t \o (p \o allowed)
    BY <1>2, <2>1, ConcatAssociative
  <2> QED BY <1>6, <2>2 DEF t, p
<1>8. CASE Emit(s, buffer)
  <2> HIDE DEF buffer
  <2> QED BY <1>1, <1>5, <1>7, <1>8, GotOfEmit DEF allowed
<1>9. CASE pending' = [pending EXCEPT ![s] = buffer] /\ UNCHANGED <<locked, emitted>>
  <2>1. pending'[s] = buffer /\ \A r \in Streams \ {s} : pending'[r] = pending[r]
    BY <1>3, <1>9
  <2>2. UNCHANGED <<locked, delivered>>
    BY <1>9 DEF emitted
  <2>3. Text(s)' = Text(s) /\ Held(s)' = Held(s) /\ Held(s) = <<>>
    BY <1>1, <2>2, Zenon DEF Text, Held
  <2>4. Got(s)' = Text(s) \o buffer
    <3>1. Text(s) \o <<>> = Text(s)
      BY <1>3, ConcatEmptySeq
    <3> HIDE DEF buffer
    <3> QED BY <2>1, <2>3, <3>1 DEF Got
  <2> QED BY <1>7, <2>1, <2>2, <2>4, GotKept DEF allowed
<1> QED BY <1>4, <1>8, <1>9

\* Steps that neither write, read nor add move no unit in or out of a stream.
Moves == \E s \in Streams : Write(s) \/ Read(s) \/ Add(s)

LEMMA QuietSteps ==
  ASSUME TypeOK, LockInv, [Next]_vars, ~Moves
  PROVE  /\ UNCHANGED <<hand, pipe, written, observed, truncated>>
         /\ \A r \in Streams : Got(r)' = Got(r)
<1> USE DEF Moves, main, tree, pumps, budget, emitted
<1> DEFINE Same == \A r \in Streams : Got(r)' = Got(r)
<1>0. UNCHANGED <<locked, pending, delivered>> => Same
  <2> SUFFICES ASSUME UNCHANGED <<locked, pending, delivered>>, NEW r \in Streams
               PROVE  Got(r)' = Got(r)
    BY Zenon
  <2> QED BY GotKept
<1> HIDE DEF Same
<1>1. CASE TreeStep
  <2>1. UNCHANGED <<hand, pipe, written, observed, truncated, locked, pending, delivered>>
    BY <1>1, Zenon DEF TreeStep, Fork, ChildExits, HeirExits
  <2> QED BY <1>0, <2>1 DEF Same
<1>2. CASE MainStep
  <2>1. CASE PrepareFails \/ Spawn \/ Started \/ Reaped \/ ChildWaited \/ GraceOver
             \/ PipesDrained \/ CloseReaders \/ Abandon \/ Judge
    <3>1. UNCHANGED <<hand, pipe, written, observed, truncated, locked, pending, delivered>>
      BY <2>1, Zenon DEF PrepareFails, Spawn, Started, Reaped, ChildWaited, GraceOver,
                         PipesDrained, CloseReaders, Abandon, Judge
    <3> QED BY <1>0, <3>1 DEF Same
  <2>2. CASE Refused \/ RunCtxDone \/ Sweep
    <3>1. UNCHANGED <<hand, pipe, written, observed, truncated, locked, pending, delivered>>
      BY <2>2, Zenon DEF Refused, RunCtxDone, Sweep, KillTree
    <3> QED BY <1>0, <3>1 DEF Same
  <2>3. ASSUME NEW s \in Streams, NEW at, NEW calling, NEW next, Flush(s, at, calling, next)
        PROVE  UNCHANGED <<hand, pipe, written, observed, truncated>> /\ Same
    <3>1. UNCHANGED <<hand, pipe, written, observed, truncated>> /\ locked[s] = <<>>
      BY <2>3, Zenon DEF Flush
    <3>2. CASE pending[s] = <<>>
      <4>1. UNCHANGED <<locked, pending, delivered>>
        BY <2>3, <3>2, Zenon DEF Flush
      <4> QED BY <1>0, <3>1, <4>1
    <3>3. CASE pending[s] # <<>>
      <4>1. Emit(s, pending[s])
        BY <2>3, <3>3, Zenon DEF Flush
      <4> QED BY <3>1, <4>1, GotOfFlush DEF Same
    <3> QED BY <3>2, <3>3
  <2>4. CASE FlushStdout \/ FlushStderr
    BY <2>3, <2>4 DEF FlushStdout, FlushStderr, Streams, Same
  <2> QED BY <1>2, <2>1, <2>2, <2>4 DEF MainStep
<1>3. ASSUME NEW why \in {"deadline", "cancel"}, CtxEnds(why)
      PROVE  UNCHANGED <<hand, pipe, written, observed, truncated>> /\ Same
  <2>1. UNCHANGED <<hand, pipe, written, observed, truncated, locked, pending, delivered>>
    BY <1>3, Zenon DEF CtxEnds
  <2> QED BY <1>0, <2>1
<1>4. ASSUME NEW s \in Streams, PumpStep(s)
      PROVE  UNCHANGED <<hand, pipe, written, observed, truncated>> /\ Same
  <2>1. CASE ReadEnds(s) \/ TickerStops(s)
    <3>1. UNCHANGED <<hand, pipe, written, observed, truncated, locked, pending, delivered>>
      BY <2>1, Zenon DEF ReadEnds, TickerStops
    <3> QED BY <1>0, <3>1
  <2>2. CASE Tick(s)
    <3>1. UNCHANGED <<hand, pipe, written, observed, truncated>> /\ locked[s] = <<>>
          /\ Emit(s, pending[s])
      BY <2>2, Zenon DEF Tick
    <3> QED BY <3>1, GotOfFlush DEF Same
  <2>3. CASE Deliver(s)
    <3>1. UNCHANGED <<hand, pipe, written, observed, truncated>>
      BY <2>3, Zenon DEF Deliver
    <3> QED BY <2>3, <3>1, GotOfDeliver DEF Same
  <2> QED BY <1>4, <2>1, <2>2, <2>3 DEF PumpStep
<1>5. CASE UNCHANGED vars
  <2>1. UNCHANGED <<hand, pipe, written, observed, truncated, locked, pending, delivered>>
    BY <1>5, Zenon DEF vars
  <2> QED BY <1>0, <2>1 DEF Same
<1> QED BY <1>1, <1>2, <1>3, <1>4, <1>5 DEF Next, Same

-----------------------------------------------------------------------------
(* The line of a stream.                                                    *)

Left(s) == Len(hand[s]) + Len(pipe[s])

\* Accepted units are the first ones, those on their way the last; between
\* them lies what the budget cut off, and nothing while it has room.
Line(s) ==
    /\ Got(s) = Units(0, Len(Got(s)))
    /\ hand[s] = Units(written[s] - Left(s), Len(hand[s]))
    /\ pipe[s] = Units(written[s] - Len(pipe[s]), Len(pipe[s]))
    /\ Len(Got(s)) + Left(s) <= written[s]
    /\ observed < MaxOutput => Len(Got(s)) + Left(s) = written[s]

LineInv == \A s \in Streams : Line(s)

BudgetInv ==
    /\ observed = Len(Got("stdout")) + Len(Got("stderr"))
    /\ truncated <=> \E s \in Streams : Len(Got(s)) + Left(s) < written[s]

LEMMA LineTypes ==
  ASSUME TypeOK, NEW s \in Streams
  PROVE  /\ Len(Got(s)) \in Nat /\ Len(hand[s]) \in Nat /\ Len(pipe[s]) \in Nat
         /\ written[s] \in 0 .. MaxUnits /\ observed \in 0 .. MaxOutput
         /\ MaxUnits \in Nat /\ MaxOutput \in Nat
         /\ hand[s] \in Seq(1 .. MaxUnits) /\ pipe[s] \in Seq(1 .. MaxUnits)
BY GotType, LenProperties, RunnerAssumption DEF TypeOK

LEMMA InitLine == Init => LineInv /\ BudgetInv
<1> SUFFICES ASSUME Init PROVE LineInv /\ BudgetInv
  OBVIOUS
<1>1. ASSUME NEW s \in Streams PROVE Got(s) = <<>>
  <2>1. Text(s) = <<>>
    <3>1. Texts(delivered, s) = <<>>
      <4>1. Len(<<>>) = 0 /\ 1 .. 0 = {}
        BY EmptySeq
      <4> QED BY <4>1 DEF Init, Texts
    <3> QED BY <3>1, TextIs, FlattenEmpty
  <2>2. Held(s) = <<>> /\ pending[s] = <<>>
    BY DEF Init, Held
  <2>3. <<>> \o <<>> = <<>>
    OBVIOUS
  <2> QED BY <2>1, <2>2, <2>3 DEF Got
<1>2. Len(<<>>) = 0 /\ \A a : Units(a, 0) = <<>>
  BY EmptySeq DEF Units
<1>3. \A s \in Streams : hand[s] = <<>> /\ pipe[s] = <<>> /\ written[s] = 0
  BY DEF Init
<1>4. \A s \in Streams : Line(s)
  BY <1>1, <1>2, <1>3, RunnerAssumption DEF Line, Left, Init
<1>5. BudgetInv
  <2>1. observed = 0 /\ ~truncated
    BY Zenon DEF Init
  <2>2. \A s \in Streams : ~(Len(Got(s)) + Left(s) < written[s])
    <3> SUFFICES ASSUME NEW s \in Streams PROVE ~(Len(Got(s)) + Left(s) < written[s])
      OBVIOUS
    <3>1. Len(Got(s)) = 0 /\ Len(hand[s]) = 0 /\ Len(pipe[s]) = 0
      BY <1>1, <1>2, <1>3, Zenon
    <3>2. written[s] = 0
      BY <1>3
    <3> QED BY <3>1, <3>2 DEF Left
  <2>3. Len(Got("stdout")) + Len(Got("stderr")) = 0
    BY <1>1, <1>2 DEF Streams
  <2> QED BY <2>1, <2>2, <2>3, Zenon DEF BudgetInv
<1> QED BY <1>4, <1>5 DEF LineInv

LEMMA QuietLine ==
  ASSUME LineInv, BudgetInv, UNCHANGED <<hand, pipe, written, observed, truncated>>,
         \A r \in Streams : Got(r)' = Got(r)
  PROVE  LineInv' /\ BudgetInv'
<1>1. \A r \in Streams : Line(r)' <=> Line(r)
  BY Zenon DEF Line, Left
<1>2. BudgetInv'
  <2>1. "stdout" \in Streams /\ "stderr" \in Streams
    BY DEF Streams
  <2> QED BY <2>1, Zenon DEF BudgetInv, Left
<1> QED BY <1>1, <1>2, Zenon DEF LineInv

LEMMA WriteLine ==
  ASSUME TypeOK, LineInv, BudgetInv, NEW s \in Streams, Write(s)
  PROVE  LineInv' /\ BudgetInv'
<1> DEFINE w == written[s]
           l == Len(pipe[s])
           g == Len(Got(s))
           h == Len(hand[s])
<1>1. /\ w < MaxUnits /\ written' = [written EXCEPT ![s] = @ + 1]
      /\ pipe' = [pipe EXCEPT ![s] = Append(@, w + 1)]
      /\ UNCHANGED <<hand, observed, truncated, locked, pending, delivered>>
  BY DEF Write, pumps, budget, emitted
<1>2. \A r \in Streams : Got(r)' = Got(r)
  BY <1>1, GotKept
<1>3. /\ written'[s] = w + 1 /\ pipe'[s] = Append(pipe[s], w + 1)
      /\ \A r \in Streams \ {s} : written'[r] = written[r] /\ pipe'[r] = pipe[r]
  BY <1>1 DEF TypeOK
<1>4. /\ w \in Nat /\ l \in Nat /\ Len(hand[s]) \in Nat /\ Len(Got(s)) \in Nat
      /\ MaxUnits \in Nat /\ pipe[s] \in Seq(1 .. MaxUnits)
  BY LineTypes
<1>5. /\ pipe[s] = Units(w - l, l) /\ Len(Got(s)) + (Len(hand[s]) + l) <= w
      /\ observed < MaxOutput => Len(Got(s)) + (Len(hand[s]) + l) = w
      /\ hand[s] = Units(w - (Len(hand[s]) + l), Len(hand[s]))
      /\ Got(s) = Units(0, Len(Got(s)))
  BY DEF LineInv, Line, Left
<1>6. pipe'[s] = Units(w - l, l + 1)
  <2> DEFINE a == w - l
  <2>1. a \in Nat /\ w = a + l /\ a + l + 1 <= MaxUnits
    <3>1. /\ w \in Nat /\ l \in Nat /\ h \in Nat /\ g \in Nat /\ MaxUnits \in Nat
          /\ g + (h + l) <= w /\ w < MaxUnits
      BY <1>1, <1>4, <1>5
    <3> HIDE DEF w, l, g, h
    <3> QED BY <3>1
  <2> HIDE DEF a
  <2>2. Append(Units(a, l), a + l + 1) = Units(a, l + 1)
    BY <1>4, <2>1, UnitsAppend
  <2> QED BY <1>3, <1>5, <2>1, <2>2 DEF a
<1>7. Len(pipe'[s]) = l + 1
  <2>1. w + 1 \in 1 .. MaxUnits
    BY <1>1, <1>4
  <2> QED BY <1>3, <1>4, <2>1, AppendProperties
<1>8. w - l = written'[s] - Len(pipe'[s])
      /\ w - (Len(hand[s]) + l) = written'[s] - (Len(hand[s]) + Len(pipe'[s]))
      /\ Len(Got(s)) + (Len(hand[s]) + Len(pipe'[s])) <= written'[s]
      /\ (observed < MaxOutput => Len(Got(s)) + (Len(hand[s]) + Len(pipe'[s])) = written'[s])
      /\ (Len(Got(s)) + (Len(hand[s]) + Len(pipe'[s])) < written'[s]
          <=> Len(Got(s)) + (Len(hand[s]) + l) < w)
  <2> DEFINE x == written'[s]
             y == Len(pipe'[s])
  <2>1. /\ x = w + 1 /\ y = l + 1 /\ g + (h + l) <= w
        /\ observed < MaxOutput => g + (h + l) = w
        /\ w \in Nat /\ l \in Nat /\ h \in Nat /\ g \in Nat
    BY <1>3, <1>4, <1>5, <1>7
  <2> HIDE DEF w, l, g, h, x, y
  <2>2. /\ w - l = x - y /\ w - (h + l) = x - (h + y) /\ g + (h + y) <= x
        /\ observed < MaxOutput => g + (h + y) = x
        /\ (g + (h + y) < x <=> g + (h + l) < w)
    BY <2>1
  <2> QED BY <2>2 DEF w, l, g, h, x, y
<1>9. Line(s)'
  BY <1>1, <1>2, <1>5, <1>6, <1>7, <1>8, Zenon DEF Line, Left
<1>10. \A r \in Streams \ {s} : Line(r)'
  BY <1>1, <1>2, <1>3, Zenon DEF Line, Left, LineInv
<1>11. BudgetInv'
  <2>1. \A r \in Streams : Len(Got(r)') + Left(r)' < written'[r]
                             <=> Len(Got(r)) + Left(r) < written[r]
    <3>2. ASSUME NEW r \in Streams \ {s}
          PROVE  Len(Got(r)') + Left(r)' < written'[r] <=> Len(Got(r)) + Left(r) < written[r]
      BY <1>1, <1>2, <1>3, Zenon DEF Left
    <3>3. Len(Got(s)') + Left(s)' < written'[s] <=> Len(Got(s)) + Left(s) < written[s]
      BY <1>1, <1>2, <1>8, Zenon DEF Left
    <3> QED BY <3>2, <3>3
  <2>2. "stdout" \in Streams /\ "stderr" \in Streams
    BY DEF Streams
  <2> QED BY <1>1, <1>2, <2>1, <2>2, Zenon DEF BudgetInv
<1> QED BY <1>9, <1>10, <1>11, Zenon DEF LineInv

LEMMA ReadLine ==
  ASSUME TypeOK, LineInv, BudgetInv, NEW s \in Streams, Read(s)
  PROVE  LineInv' /\ BudgetInv'
<1> DEFINE w == written[s]
           l == Len(pipe[s])
           g == Len(Got(s))
<1>1. /\ hand[s] = <<>>
      /\ UNCHANGED <<written, observed, truncated, locked, pending, delivered>>
  BY DEF Read, main, tree, budget, emitted
<1>2. PICK n \in 1 .. l :
         /\ hand' = [hand EXCEPT ![s] = SubSeq(pipe[s], 1, n)]
         /\ pipe' = [pipe EXCEPT ![s] = SubSeq(@, n + 1, Len(@))]
  BY Zenon DEF Read
<1>3. \A r \in Streams : Got(r)' = Got(r)
  BY <1>1, GotKept
<1>4. /\ hand'[s] = SubSeq(pipe[s], 1, n) /\ pipe'[s] = SubSeq(pipe[s], n + 1, l)
      /\ \A r \in Streams \ {s} : hand'[r] = hand[r] /\ pipe'[r] = pipe[r]
  BY <1>2 DEF TypeOK
<1>5. /\ w \in 0 .. MaxUnits /\ l \in Nat /\ g \in Nat /\ MaxUnits \in Nat
      /\ Len(hand[s]) = 0
  BY <1>1, LineTypes, EmptySeq
<1>6. /\ pipe[s] = Units(w - l, l) /\ g + (0 + l) <= w
      /\ observed < MaxOutput => g + (0 + l) = w
      /\ Got(s) = Units(0, g)
  BY <1>5 DEF LineInv, Line, Left
<1> DEFINE a == w - l
<1>7. /\ a \in Nat /\ a + l <= MaxUnits /\ a + n <= MaxUnits /\ l - n \in Nat
      /\ (a + n) \in Nat /\ (a + n) + (l - n) <= MaxUnits /\ n \in Nat
  <2>1. /\ g + (0 + l) <= w /\ g \in Nat /\ w \in 0 .. MaxUnits /\ l \in Nat
        /\ MaxUnits \in Nat /\ n \in 1 .. l
    BY <1>5, <1>6
  <2> HIDE DEF g, w, l
  <2> QED BY <2>1
<1>8. hand'[s] = Units(a, n) /\ Len(hand'[s]) = n
  <2> HIDE DEF l, a
  <2>1. a \in Nat /\ l \in Nat /\ n \in Nat /\ n <= l
    BY <1>5, <1>7
  <2>2. SubSeq(Units(a, l), 1, n) = Units(a, n)
    BY ONLY <2>1, UnitsSplit
  <2>3. Len(Units(a, n)) = n
    BY <1>5, <1>7, UnitsType
  <2>4. pipe[s] = Units(a, l)
    BY <1>6 DEF a
  <2> QED BY <1>4, <2>2, <2>3, <2>4, Zenon
<1>9. pipe'[s] = Units(a + n, l - n) /\ Len(pipe'[s]) = l - n
  <2> HIDE DEF l, a
  <2>1. a \in Nat /\ l \in Nat /\ n \in Nat /\ n <= l
    BY <1>5, <1>7
  <2>2. SubSeq(Units(a, l), n + 1, l) = Units(a + n, l - n)
    BY ONLY <2>1, UnitsSplit
  <2>3. Len(Units(a + n, l - n)) = l - n
    BY <1>5, <1>7, UnitsType
  <2>4. pipe[s] = Units(a, l)
    BY <1>6 DEF a
  <2> QED BY <1>4, <2>2, <2>3, <2>4, Zenon
<1>10. /\ a = w - (n + (l - n)) /\ a + n = w - (l - n)
       /\ g + (n + (l - n)) <= w /\ (observed < MaxOutput => g + (n + (l - n)) = w)
       /\ (g + (n + (l - n)) < w <=> g + (0 + l) < w)
  <2>1. /\ g + (0 + l) <= w /\ g \in Nat /\ w \in 0 .. MaxUnits /\ l \in Nat
        /\ MaxUnits \in Nat /\ n \in 1 .. l
        /\ observed < MaxOutput => g + (0 + l) = w
    BY <1>5, <1>6
  <2> HIDE DEF g, w, l
  <2> QED BY <2>1 DEF a
<1>11. Line(s)'
  BY <1>1, <1>3, <1>6, <1>8, <1>9, <1>10, Zenon DEF Line, Left
<1>12. \A r \in Streams \ {s} : Line(r)'
  BY <1>1, <1>3, <1>4, Zenon DEF Line, Left, LineInv
<1>13. BudgetInv'
  <2>1. \A r \in Streams : Len(Got(r)') + Left(r)' < written'[r]
                             <=> Len(Got(r)) + Left(r) < written[r]
    <3>1. ASSUME NEW r \in Streams \ {s}
          PROVE  Len(Got(r)') + Left(r)' < written'[r] <=> Len(Got(r)) + Left(r) < written[r]
      BY <1>1, <1>3, <1>4, Zenon DEF Left
    <3>2. Len(Got(s)') + Left(s)' < written'[s] <=> Len(Got(s)) + Left(s) < written[s]
      BY <1>1, <1>3, <1>5, <1>8, <1>9, <1>10, Zenon DEF Left
    <3> QED BY <3>1, <3>2
  <2>2. "stdout" \in Streams /\ "stderr" \in Streams
    BY DEF Streams
  <2> QED BY <1>1, <1>3, <2>1, <2>2, Zenon DEF BudgetInv
<1> QED BY <1>11, <1>12, <1>13, Zenon DEF LineInv

LEMMA AddLine ==
  ASSUME TypeOK, LineInv, BudgetInv, NEW s \in Streams, Add(s)
  PROVE  LineInv' /\ BudgetInv'
<1> DEFINE w == written[s]
           l == Len(pipe[s])
           g == Len(Got(s))
           h == Len(hand[s])
           allowed == Allowed(hand[s])
<1>1. /\ hand[s] # <<>> /\ hand' = [hand EXCEPT ![s] = <<>>]
      /\ observed' = observed + Len(allowed)
      /\ truncated' = (truncated \/ Len(allowed) < h)
      /\ UNCHANGED <<written, pipe>>
  BY DEF Add, tree
<1>2. /\ Got(s)' = Got(s) \o allowed
      /\ \A r \in Streams \ {s} : Got(r)' = Got(r)
  BY GotOfAdd
<1>3. /\ w \in 0 .. MaxUnits /\ l \in Nat /\ g \in Nat /\ h \in Nat /\ MaxUnits \in Nat
      /\ observed \in 0 .. MaxOutput /\ MaxOutput \in Nat
      /\ hand[s] \in Seq(1 .. MaxUnits) /\ Got(s) \in Seq(1 .. MaxUnits)
  BY LineTypes, GotType
<1>4. PICK n \in 0 .. h :
         /\ allowed = SubSeq(hand[s], 1, n) /\ allowed \in Seq(1 .. MaxUnits)
         /\ Len(allowed) = n /\ observed + n <= MaxOutput
         /\ n < h => observed + n = MaxOutput
  BY <1>3, AllowedFits
<1>5. /\ Got(s) = Units(0, g) /\ hand[s] = Units(w - (h + l), h)
      /\ pipe[s] = Units(w - l, l) /\ g + (h + l) <= w
      /\ observed < MaxOutput => g + (h + l) = w
  BY DEF LineInv, Line, Left
<1>6. /\ hand'[s] = <<>> /\ \A r \in Streams \ {s} : hand'[r] = hand[r]
  BY <1>1 DEF TypeOK
<1>7. n # 0 => observed < MaxOutput
  <2> HIDE DEF h
  <2> QED BY <1>3, <1>4
<1>8. /\ n \in Nat /\ g + n \in Nat /\ g + n + l <= w
      /\ observed + n < MaxOutput => n = h /\ g + n + l = w
      /\ n # 0 => w - (h + l) = g /\ g + h <= MaxUnits
      /\ (g + n) + (0 + l) <= w
      /\ ((g + n) + (0 + l) < w <=> g + (h + l) < w \/ n < h)
  <2>1. /\ w \in 0 .. MaxUnits /\ l \in Nat /\ g \in Nat /\ h \in Nat /\ n \in 0 .. h
        /\ observed \in 0 .. MaxOutput /\ MaxOutput \in Nat /\ MaxUnits \in Nat
        /\ n < h => observed + n = MaxOutput
        /\ n # 0 => observed < MaxOutput
        /\ observed < MaxOutput => g + (h + l) = w
        /\ g + (h + l) <= w
    BY <1>3, <1>4, <1>5, <1>7
  <2> HIDE DEF w, l, g, h
  <2> QED BY <2>1
<1>9. Got(s)' = Units(0, g + n) /\ Len(Got(s)') = g + n
  <2>1. Len(Got(s)') = g + n
    <3> HIDE DEF allowed
    <3> QED BY <1>2, <1>3, <1>4, ConcatProperties
  <2>2. CASE n = 0
    <3>1. allowed = <<>>
      BY <1>4, <2>2, EmptySeq
    <3>2. Got(s) \o <<>> = Got(s)
      BY <1>3, ConcatEmptySeq
    <3>3. g + n = g
      BY <1>3, <2>2
    <3> QED BY <1>2, <1>5, <2>1, <3>1, <3>2, <3>3
  <2>3. CASE n # 0
    <3>1. hand[s] = Units(g, h)
      BY <1>5, <1>8, <2>3
    <3>2. g \in Nat /\ h \in Nat
      BY <1>3
    <3>3. n \in Nat /\ n <= h
      BY <1>4, <1>8, <3>2
    <3>4. g + 0 + n <= MaxUnits /\ 0 + g = g
      <4>1. g \in Nat /\ h \in Nat /\ n \in 0 .. h /\ g + h <= MaxUnits /\ MaxUnits \in Nat
        BY <1>3, <1>8, <2>3
      <4> HIDE DEF g, h
      <4> QED BY <4>1
    <3> HIDE DEF g, h
    <3>5. SubSeq(Units(g, h), 1, n) = Units(g, n)
      BY ONLY <3>2, <3>3, UnitsSplit
    <3>6. allowed = Units(0 + g, n)
      BY <1>4, <3>1, <3>4, <3>5
    <3>7. Units(0, g) \o Units(0 + g, n) = Units(0, g + n)
      <4>1. 0 \in Nat /\ g \in Nat /\ n \in Nat /\ MaxUnits \in Nat /\ 0 + g + n <= MaxUnits
        BY <1>3, <3>2, <3>3, <3>4
      <4> QED BY <4>1, UnitsConcat
    <3> HIDE DEF allowed
    <3> QED BY <1>2, <1>5, <2>1, <3>6, <3>7
  <2> QED BY <2>2, <2>3
<1>10. Len(hand'[s]) = 0 /\ Len(pipe'[s]) = l /\ pipe'[s] = Units(w - l, l) /\ written'[s] = w
       /\ hand'[s] = Units(w - (0 + l), 0) /\ observed' = observed + n
  BY <1>1, <1>4, <1>5, <1>6, EmptySeq DEF Units
<1>11. Line(s)'
  <2>1. Left(s)' = 0 + l
    BY <1>10 DEF Left
  <2>2. observed + n < MaxOutput => (g + n) + (0 + l) = w
    <3> HIDE DEF g, w, l
    <3> QED BY <1>3, <1>8
  <2>3. Len(Got(s)') + Left(s)' <= written'[s]
        /\ (observed' < MaxOutput => Len(Got(s)') + Left(s)' = written'[s])
    BY <1>8, <1>9, <1>10, <2>1, <2>2, Zenon
  <2> QED BY <1>9, <1>10, <2>1, <2>3, Zenon DEF Line
<1>12. ASSUME NEW r \in Streams \ {s} PROVE Line(r)'
  <2>1. Line(r) /\ (observed' < MaxOutput => observed < MaxOutput)
    BY <1>1, <1>3, <1>4 DEF LineInv
  <2> QED BY <1>1, <1>2, <1>6, <2>1, Zenon DEF Line, Left
<1>13. observed' = Len(Got("stdout")') + Len(Got("stderr")')
  <2>1. s \in {"stdout", "stderr"} /\ observed = Len(Got("stdout")) + Len(Got("stderr"))
        /\ Len(Got("stdout")) \in Nat /\ Len(Got("stderr")) \in Nat
    BY GotType DEF Streams, BudgetInv
  <2> QED BY <1>2, <1>8, <1>9, <1>10, <2>1 DEF Streams
<1>14. truncated' <=> \E r \in Streams : Len(Got(r)') + Left(r)' < written'[r]
  <2>1. Len(Got(s)') + Left(s)' < written'[s] <=> Len(Got(s)) + Left(s) < written[s] \/ n < h
    BY <1>8, <1>9, <1>10 DEF Left
  <2>2. ASSUME NEW r \in Streams \ {s}
        PROVE  Len(Got(r)') + Left(r)' < written'[r] <=> Len(Got(r)) + Left(r) < written[r]
    BY <1>1, <1>2, <1>6, Zenon DEF Left
  <2>3. truncated' <=> truncated \/ n < h
    BY <1>1, <1>4, Zenon
  <2>4. truncated <=> \E r \in Streams : Len(Got(r)) + Left(r) < written[r]
    BY DEF BudgetInv
  <2> QED BY <2>1, <2>2, <2>3, <2>4, Zenon
<1>15. BudgetInv'
  BY <1>13, <1>14 DEF BudgetInv
<1> QED BY <1>11, <1>12, <1>15, Zenon DEF LineInv

LEMMA LineStep == TypeOK /\ LockInv /\ LineInv /\ BudgetInv /\ [Next]_vars => LineInv' /\ BudgetInv'
<1> SUFFICES ASSUME TypeOK, LockInv, LineInv, BudgetInv, [Next]_vars
             PROVE  LineInv' /\ BudgetInv'
  OBVIOUS
<1>1. CASE Moves
  BY <1>1, WriteLine, ReadLine, AddLine DEF Moves
<1>2. CASE ~Moves
  BY <1>2, QuietSteps, QuietLine
<1> QED BY <1>1, <1>2

-----------------------------------------------------------------------------
(* The entries and their numbers.                                           *)

\* Every step leaves the entries alone, makes one or delivers one.
LEMMA EntryCases ==
  ASSUME TypeOK, [Next]_vars
  PROVE  \/ UNCHANGED <<locked, seq, delivered>>
         \/ \E s \in Streams : \E text \in Seq(1 .. MaxUnits) : locked[s] = <<>> /\ Emit(s, text)
         \/ \E s \in Streams : Deliver(s)
<1> USE DEF main, tree, pumps, budget, emitted
<1> DEFINE Made == \E s \in Streams : \E text \in Seq(1 .. MaxUnits) :
                      locked[s] = <<>> /\ Emit(s, text)
           Same == UNCHANGED <<locked, seq, delivered>>
<1>1. CASE TreeStep
  BY <1>1, Zenon DEF TreeStep, Write, Fork, ChildExits, HeirExits
<1>2. CASE MainStep
  <2>1. CASE PrepareFails \/ Spawn \/ Started \/ Reaped \/ ChildWaited \/ GraceOver
             \/ PipesDrained \/ CloseReaders \/ Abandon \/ Judge
    BY <2>1, Zenon DEF PrepareFails, Spawn, Started, Reaped, ChildWaited, GraceOver,
                       PipesDrained, CloseReaders, Abandon, Judge
  <2>2. CASE Refused \/ RunCtxDone \/ Sweep
    BY <2>2, Zenon DEF Refused, RunCtxDone, Sweep
  <2>3. ASSUME NEW s \in Streams, NEW at, NEW calling, NEW next, Flush(s, at, calling, next)
        PROVE  Same \/ Made
    <3>1. pending[s] \in Seq(1 .. MaxUnits)
      BY DEF TypeOK
    <3> QED BY <2>3, <3>1, Zenon DEF Flush
  <2>4. CASE FlushStdout \/ FlushStderr
    <3>1. "stdout" \in Streams /\ "stderr" \in Streams
      BY DEF Streams
    <3> HIDE DEF Same, Made
    <3>2. Same \/ Made
      BY <2>3, <2>4, <3>1, Zenon DEF FlushStdout, FlushStderr
    <3> QED BY <3>2 DEF Same, Made
  <2> QED BY <1>2, <2>1, <2>2, <2>4 DEF MainStep
<1>3. ASSUME NEW why \in {"deadline", "cancel"}, CtxEnds(why) PROVE Same
  BY <1>3, Zenon DEF CtxEnds
<1>4. ASSUME NEW s \in Streams, PumpStep(s) PROVE Same \/ Made \/ Deliver(s)
  <2>1. CASE Read(s) \/ ReadEnds(s) \/ TickerStops(s)
    BY <2>1, Zenon DEF Read, ReadEnds, TickerStops
  <2>2. CASE Add(s)
    <3> DEFINE allowed == Allowed(hand[s])
               buffer == pending[s] \o allowed
    <3>1. hand[s] \in Seq(1 .. MaxUnits) /\ pending[s] \in Seq(1 .. MaxUnits)
      BY DEF TypeOK
    <3>2. allowed \in Seq(1 .. MaxUnits)
      BY <3>1, AllowedFits
    <3>3. buffer \in Seq(1 .. MaxUnits)
      <4> HIDE DEF allowed
      <4> QED BY <3>1, <3>2, ConcatProperties
    <3>4. locked[s] = <<>> /\ (Emit(s, buffer) \/ UNCHANGED <<locked, emitted>>)
      BY <2>2 DEF Add
    <3> HIDE DEF buffer
    <3> QED BY <3>3, <3>4, Zenon
  <2>3. CASE Tick(s)
    <3>1. pending[s] \in Seq(1 .. MaxUnits)
      BY DEF TypeOK
    <3> QED BY <2>3, <3>1, Zenon DEF Tick
  <2> QED BY <1>4, <2>1, <2>2, <2>3 DEF PumpStep
<1>5. CASE UNCHANGED vars
  BY <1>5, Zenon DEF vars
<1> HIDE DEF Same, Made
<1>6. Same \/ Made \/ \E s \in Streams : Deliver(s)
  BY <1>1, <1>2, <1>3, <1>4, <1>5, Zenon DEF Next, Same, Made
<1> QED BY <1>6 DEF Same, Made

LEMMA LockStep == TypeOK /\ LockInv /\ [Next]_vars => LockInv'
<1> SUFFICES ASSUME TypeOK, LockInv, [Next]_vars, NEW r \in Streams, locked'[r] # <<>>
             PROVE  locked'[r].stream = r
  BY Zenon DEF LockInv
<1>1. CASE UNCHANGED <<locked, seq, delivered>>
  BY <1>1, Zenon DEF LockInv
<1>2. CASE \E s \in Streams : \E text \in Seq(1 .. MaxUnits) : locked[s] = <<>> /\ Emit(s, text)
  <2>1. PICK s \in Streams, text \in Seq(1 .. MaxUnits) : Emit(s, text)
    BY <1>2, Zenon
  <2>2. locked'[s].stream = s /\ (r # s => locked'[r] = locked[r])
    BY <2>1, EmitTypeOK
  <2> QED BY <2>2, Zenon DEF LockInv
<1>3. CASE \E s \in Streams : Deliver(s)
  <2>1. PICK s \in Streams : Deliver(s)
    BY <1>3, Zenon
  <2>2. locked' = [locked EXCEPT ![s] = <<>>] /\ locked \in [Streams -> {<<>>} \cup Entry]
    BY <2>1, TypeParts DEF Deliver, BatchTypes
  <2>3. r # s /\ locked'[r] = locked[r]
    BY <2>2, Zenon
  <2> QED BY <2>3, Zenon DEF LockInv
<1> QED BY <1>1, <1>2, <1>3, EntryCases

Locks == {s \in Streams : locked[s] # <<>>}

SeqsDelivered == {delivered[k].seq : k \in 1 .. Len(delivered)}

LEMMA SeqsAre ==
  SeqsUsedOnce <=> /\ SeqsDelivered \cup {locked[s].seq : s \in Locks} = 1 .. seq
                   /\ Len(delivered) + Cardinality(Locks) = seq
BY DEF SeqsUsedOnce, Locks, SeqsDelivered

LEMMA LocksFinite == IsFiniteSet(Locks)
<1>1. Streams = ({} \cup {"stdout"}) \cup {"stderr"}
  BY DEF Streams
<1>2. IsFiniteSet(Streams)
  BY <1>1, FS_EmptySet, FS_AddElement
<1>3. Locks \subseteq Streams
  BY DEF Locks
<1> QED BY <1>2, <1>3, FS_Subset

LEMMA SeqsStep == TypeOK /\ SeqsUsedOnce /\ [Next]_vars => SeqsUsedOnce'
<1> SUFFICES ASSUME TypeOK, SeqsUsedOnce, [Next]_vars PROVE SeqsUsedOnce'
  OBVIOUS
<1>1. /\ SeqsDelivered \cup {locked[s].seq : s \in Locks} = 1 .. seq
      /\ Len(delivered) + Cardinality(Locks) = seq
  BY SeqsAre
<1>2. /\ delivered \in Seq(Entry) /\ Len(delivered) \in Nat /\ seq \in Nat
      /\ locked \in [Streams -> {<<>>} \cup Entry]
  BY TypeParts, LenProperties DEF BatchTypes
<1>3. Cardinality(Locks) \in Nat /\ IsFiniteSet(Locks)
  BY LocksFinite, FS_CardinalityType
<1> SUFFICES /\ (SeqsDelivered \cup {locked[s].seq : s \in Locks})' = 1 .. seq'
             /\ Len(delivered') + Cardinality(Locks)' = seq'
  BY DEF SeqsUsedOnce, Locks, SeqsDelivered
<1>4. CASE UNCHANGED <<locked, seq, delivered>>
  BY <1>1, <1>4, Zenon DEF Locks, SeqsDelivered
<1>5. CASE \E s \in Streams : \E text \in Seq(1 .. MaxUnits) : locked[s] = <<>> /\ Emit(s, text)
  <2>1. PICK s \in Streams, text \in Seq(1 .. MaxUnits) : locked[s] = <<>> /\ Emit(s, text)
    BY <1>5, Zenon
  <2>2. /\ delivered' = delivered /\ locked'[s] \in Entry /\ locked'[s].seq = seq'
        /\ \A r \in Streams : r # s => locked'[r] = locked[r]
    BY <2>1, EmitTypeOK
  <2>3. seq' = seq + 1
    BY <2>1 DEF Emit
  <2>4. locked'[s] # <<>>
    BY <2>2, EntryNotEmpty
  <2>5. Locks' = Locks \cup {s} /\ s \notin Locks
    BY <2>1, <2>2, <2>4, Zenon DEF Locks
  <2>6. Cardinality(Locks)' = Cardinality(Locks) + 1
    BY <1>3, <2>5, FS_AddElement
  <2>7. {locked'[r].seq : r \in Locks'} = {locked[r].seq : r \in Locks} \cup {seq + 1}
    <3>1. \A r \in Locks : r \in Streams /\ r # s /\ locked'[r].seq = locked[r].seq
      BY <2>1, <2>2, Zenon DEF Locks
    <3>2. locked'[s].seq = seq + 1
      BY <2>2, <2>3
    <3> QED BY <2>5, <3>1, <3>2
  <2>8. 1 .. seq + 1 = (1 .. seq) \cup {seq + 1}
    BY <1>2
  <2>9. SeqsDelivered' = SeqsDelivered
    BY <2>2 DEF SeqsDelivered
  <2>10. Len(delivered') + Cardinality(Locks)' = seq'
    BY <1>1, <1>2, <1>3, <2>2, <2>3, <2>6
  <2> QED BY <1>1, <2>3, <2>7, <2>8, <2>9, <2>10
<1>6. CASE \E s \in Streams : Deliver(s)
  <2>1. PICK s \in Streams : Deliver(s)
    BY <1>6, Zenon
  <2> DEFINE e == locked[s]
  <2>2. /\ locked' = [locked EXCEPT ![s] = <<>>] /\ delivered' = Append(delivered, e)
        /\ seq' = seq /\ e # <<>>
    BY <2>1 DEF Deliver
  <2>3. e \in Entry
    BY <1>2, <2>2, Zenon
  <2>4. /\ Len(delivered') = Len(delivered) + 1 /\ delivered'[Len(delivered) + 1] = e
        /\ \A k \in 1 .. Len(delivered) : delivered'[k] = delivered[k]
    <3> HIDE DEF e
    <3> QED BY <1>2, <2>2, <2>3, AppendProperties
  <2>5. locked'[s] = <<>> /\ \A r \in Streams : r # s => locked'[r] = locked[r]
    BY <1>2, <2>2, Zenon
  <2>6. Locks' = Locks \ {s} /\ s \in Locks
    BY <2>2, <2>5, Zenon DEF Locks
  <2>7. Cardinality(Locks)' = Cardinality(Locks) - 1
    BY <1>3, <2>6, FS_RemoveElement
  <2>8. SeqsDelivered' = SeqsDelivered \cup {e.seq}
    <3> DEFINE n == Len(delivered)
    <3>1. SeqsDelivered' = {delivered'[k].seq : k \in 1 .. n + 1}
      BY <2>4 DEF SeqsDelivered
    <3>2. \A k : k \in 1 .. n + 1 <=> k \in 1 .. n \/ k = n + 1
      BY <1>2
    <3>3. SeqsDelivered = {delivered[k].seq : k \in 1 .. n}
      BY Zenon DEF SeqsDelivered
    <3>4. \A k \in 1 .. n : delivered'[k].seq = delivered[k].seq
      BY <2>4
    <3>5. delivered'[n + 1].seq = e.seq
      BY <2>4
    <3> HIDE DEF e, n
    <3>6. SeqsDelivered' \subseteq SeqsDelivered \cup {e.seq}
      BY <3>1, <3>2, <3>3, <3>4, <3>5
    <3>7. SeqsDelivered \subseteq SeqsDelivered'
      BY <3>1, <3>2, <3>3, <3>4
    <3>8. e.seq \in SeqsDelivered'
      BY <3>1, <3>2, <3>5
    <3> QED BY <3>6, <3>7, <3>8
  <2>9. {locked'[r].seq : r \in Locks'} \cup {e.seq} = {locked[r].seq : r \in Locks}
    <3>1. \A r \in Locks' : r \in Locks /\ locked'[r].seq = locked[r].seq
      BY <2>5, <2>6, Zenon DEF Locks
    <3>2. \A r \in Locks : r \in Locks' \/ r = s
      BY <2>6
    <3> QED BY <2>6, <3>1, <3>2
  <2>10. Len(delivered') + Cardinality(Locks)' = seq'
    BY <1>1, <1>2, <1>3, <2>2, <2>4, <2>7
  <2> QED BY <1>1, <2>2, <2>8, <2>9, <2>10
<1> QED BY <1>4, <1>5, <1>6, EntryCases

-----------------------------------------------------------------------------
(* The inductive invariant and the theorems.                                *)

RunnerInv == TypeOK /\ PlaceInv /\ LockInv /\ LineInv /\ BudgetInv /\ SeqsUsedOnce

LEMMA InitRunnerInv == Init => RunnerInv
<1> SUFFICES ASSUME Init PROVE RunnerInv
  OBVIOUS
<1>1. LockInv
  BY DEF LockInv, Init
<1>2. SeqsUsedOnce
  <2>1. /\ delivered = <<>> /\ Len(delivered) = 0 /\ seq = 0
        /\ \A s \in Streams : locked[s] = <<>>
    BY EmptySeq DEF Init
  <2>2. Locks = {} /\ SeqsDelivered = {}
    BY <2>1 DEF Locks, SeqsDelivered
  <2>3. Cardinality({}) = 0
    BY FS_EmptySet
  <2>4. {locked[s].seq : s \in {}} = {}
    OBVIOUS
  <2>5. 1 .. 0 = {}
    OBVIOUS
  <2> QED BY <2>1, <2>2, <2>3, <2>4, <2>5, SeqsAre
<1> QED BY <1>1, <1>2, InitTypeOK, InitPlaceInv, InitLine DEF RunnerInv

\* The invariant holds of every reachable state.
THEOREM RunnerInvariance == Spec => []RunnerInv
<1>1. RunnerInv /\ [Next]_vars => RunnerInv'
  BY StepTypeOK, ChildStep, KilledStep, ReaderStep, FlushStep, LockStep, LineStep, SeqsStep
     DEF RunnerInv, PlaceInv
<1> QED BY <1>1, InitRunnerInv, PTL DEF Spec

\* Run's state keeps its types: among them the budget never above its limit
\* and an outcome the switch names, for every output, budget and batch size.
THEOREM RunnerTypeCorrect == Spec => []TypeOK
<1>1. RunnerInv => TypeOK
  BY DEF RunnerInv
<1> QED BY <1>1, RunnerInvariance, PTL

\* flushLocked, the ticker and the final flush lose, repeat or reorder no
\* unit of a stream: what was accepted is a gapless prefix of what the tree
\* wrote.
THEOREM StreamsKeepOrder == Spec => []StreamsInOrder
<1>1. RunnerInv => StreamsInOrder
  <2> SUFFICES ASSUME RunnerInv, NEW s \in Streams
               PROVE  \E n \in 0 .. written[s] :
                         Text(s) \o Held(s) \o pending[s] = [k \in 1 .. n |-> k]
    BY DEF StreamsInOrder
  <2> DEFINE n == Len(Got(s))
             h == Len(hand[s])
             l == Len(pipe[s])
             w == written[s]
  <2>1. TypeOK /\ Line(s)
    BY DEF RunnerInv, LineInv
  <2>2. n \in Nat /\ Got(s) = Units(0, n) /\ n + Left(s) <= written[s]
    BY <2>1, LineTypes DEF Line
  <2>3. n \in 0 .. written[s]
    <3>1. /\ n \in Nat /\ h \in Nat /\ l \in Nat /\ w \in 0 .. MaxUnits /\ MaxUnits \in Nat
          /\ n + (h + l) <= w
      BY <2>1, <2>2, LineTypes DEF Left
    <3> HIDE DEF n, h, l, w
    <3>2. n \in 0 .. w
      BY <3>1
    <3> QED BY <3>2 DEF w
  <2>4. Units(0, n) = [k \in 1 .. n |-> k]
    <3> HIDE DEF n
    <3> QED BY <2>2 DEF Units
  <2>5. Text(s) \o Held(s) \o pending[s] = [k \in 1 .. n |-> k]
    BY <2>2, <2>4 DEF Got
  <2> HIDE DEF n
  <2> QED BY <2>3, <2>5
<1> QED BY <1>1, RunnerInvariance, PTL

\* outputBudget.take: what both streams accepted is what observed counts,
\* never above MaxOutputBytes, and Truncated is set exactly when a unit was
\* dropped.
THEOREM BudgetIsExact == Spec => []BudgetExact
<1>1. RunnerInv => BudgetExact
  <2> SUFFICES ASSUME RunnerInv PROVE BudgetExact
    OBVIOUS
  <2>1. observed <= MaxOutput
    <3>1. observed \in 0 .. MaxOutput /\ MaxOutput \in Nat
      BY RunnerAssumption DEF RunnerInv, TypeOK
    <3> QED BY <3>1
  <2>2. BudgetInv
    BY DEF RunnerInv
  <2> QED BY <2>1, <2>2, Zenon DEF BudgetInv, BudgetExact, Got, Left
<1> QED BY <1>1, RunnerInvariance, PTL

\* runState.nextSeq: the two pumps, under their own mutexes, use every number
\* once and skip none.
THEOREM NumbersUsedOnce == Spec => []SeqsUsedOnce
<1>1. RunnerInv => SeqsUsedOnce
  BY DEF RunnerInv
<1> QED BY <1>1, RunnerInvariance, PTL

\* A run that returns with both pipes at EOF and nothing dropped has handed
\* all that the tree wrote to onLogs.
THEOREM NothingIsLeftBehind == Spec => []NothingLeftBehind
<1>1. RunnerInv => NothingLeftBehind
  <2> SUFFICES ASSUME RunnerInv, pc = "returned", ~closed, ~truncated, NEW s \in Streams
               PROVE  Len(Text(s)) = written[s]
    BY Zenon DEF NothingLeftBehind
  <2>1. TypeOK /\ ReaderInv /\ FlushInv /\ Line(s) /\ BudgetInv
    BY DEF RunnerInv, PlaceInv, LineInv
  <2>2. ~abandoned /\ reader[s] = "eof"
    BY <2>1 DEF ReaderInv, Flushing, ReadersDone
  <2>3. hand[s] = <<>> /\ pipe[s] = <<>>
    BY <2>1, <2>2, Zenon DEF ReaderInv
  <2>4. pending[s] = <<>> /\ locked[s] = <<>>
    BY <2>1, <2>2 DEF FlushInv, Streams
  <2>5. Got(s) = Text(s)
    <3>1. Text(s) \in Seq(1 .. MaxUnits)
      BY <2>1, GotType
    <3>2. Text(s) \o <<>> = Text(s)
      BY <3>1, ConcatEmptySeq
    <3> QED BY <2>4, <3>2 DEF Got, Held
  <2>6. ~(Len(Got(s)) + Left(s) < written[s]) /\ Len(Got(s)) + Left(s) <= written[s]
    BY <2>1, Zenon DEF BudgetInv, Line
  <2>7. Left(s) = 0
    BY <2>3, EmptySeq DEF Left
  <2>8. Len(Got(s)) \in Nat /\ written[s] \in 0 .. MaxUnits /\ MaxUnits \in Nat
    BY <2>1, LineTypes
  <2> DEFINE g == Len(Got(s))
             w == written[s]
  <2>9. g = w
    <3>1. /\ g \in Nat /\ w \in 0 .. MaxUnits /\ MaxUnits \in Nat
          /\ ~(g + 0 < w) /\ g + 0 <= w
      BY <2>6, <2>7, <2>8
    <3> HIDE DEF g, w
    <3> QED BY <3>1
  <2> QED BY <2>5, <2>9
<1> QED BY <1>1, RunnerInvariance, PTL

\* The switch that ends Run: an exit code is the script's own and nothing was
\* killed for it, and a run whose child was killed reports the reason it was
\* killed for.  A script that ended by itself may still be reported as timed
\* out or cancelled (runner.go:362-368).
THEOREM OutcomeIsTheScripts == Spec => []OutcomeOfTheScript
<1>1. RunnerInv => OutcomeOfTheScript
  <2> SUFFICES ASSUME RunnerInv, pc = "returned"
               PROVE  /\ outcome \in {"zero", "nonzero"} => child = outcome /\ killed = "no"
                      /\ killed # "no" => (killed = "deadline" <=> outcome = "timeout")
    BY DEF OutcomeOfTheScript
  <2>1. /\ runErr \in {"none", "deadline", "cancel"}
        /\ killed \in {"no", "deadline", "cancel", "rejected"}
    BY DEF RunnerInv, TypeOK
  <2>2. killed # "rejected" /\ outcome = Outcome
        /\ (killed \in {"deadline", "cancel"} => runErr = killed)
    BY DEF RunnerInv, PlaceInv, KilledInv
  <2> QED BY <2>1, <2>2, OutcomeIs
<1> QED BY <1>1, RunnerInvariance, PTL

\* Once Run has returned, only the reader it gave up can still call onLogs.
THEOREM LateLogs == Spec => LateLogsFromAbandoned
<1>1. RunnerInv /\ [Next]_vars =>
         [pc = "returned" /\ delivered' # delivered => abandoned]_vars
  <2> SUFFICES ASSUME RunnerInv, [Next]_vars, pc = "returned", delivered' # delivered
               PROVE  abandoned
    BY Zenon
  <2>1. TypeOK
    BY DEF RunnerInv
  <2>2. ASSUME NEW s \in Streams, NEW text, Emit(s, text) PROVE FALSE
    BY <2>2 DEF Emit
  <2>3. PICK s \in Streams : Deliver(s)
    BY <2>1, <2>2, EntryCases, Zenon
  <2>4. locked[s] # <<>>
    BY <2>3 DEF Deliver
  <2> QED BY <2>4 DEF RunnerInv, PlaceInv, FlushInv, Streams
<1> QED BY <1>1, RunnerInvariance, PTL DEF Spec, LateLogsFromAbandoned
===============================================================================
