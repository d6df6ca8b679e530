-------------------------- MODULE InventoryRunProofs --------------------------
(***************************************************************************)
(* Theorems about InventoryRun and the deltas it sends, for all entities,  *)
(* keys and fingerprints, whatever the scans find, any number of them, and *)
(* any budget.                                                             *)
(*                                                                         *)
(* A chain of deltas is as good as the scan it began with only while each  *)
(* of them builds on one the server has, and is built from what the server *)
(* makes of that one.  The invariant follows this through the run: what is *)
(* sent, what came of each chunk so far, and what is then saved.           *)
(***************************************************************************)
EXTENDS InventoryRun, DataLemmas, FiniteSetTheorems

-----------------------------------------------------------------------------
(* Deltas.                                                                  *)

\* BuildDelta: added, changed and removed together turn the collection of the
\* baseline into that of this scan, whatever the two collections are.
THEOREM DeltaRestores ==
  ASSUME NEW now \in Collections, NEW old \in Collections
  PROVE  Applied(old, DeltaOf(now, old)) = now
<1> DEFINE part == DeltaOf(now, old)
           got  == Applied(old, part)
<1>1. /\ part.removed = DOMAIN old \ DOMAIN now
      /\ DOMAIN part.records = NewKeys(now, old) \cup ChangedKeys(now, old)
      /\ \A k \in DOMAIN part.records : part.records[k] = now[k]
  BY DEF DeltaOf
<1>2. DOMAIN got = DOMAIN now
  BY <1>1 DEF Applied, NewKeys, ChangedKeys
<1>3. ASSUME NEW k \in DOMAIN now PROVE got[k] = now[k]
  <2>1. CASE k \in DOMAIN part.records
    BY <1>1, <2>1 DEF Applied
  <2>2. CASE k \notin DOMAIN part.records
    <3>1. k \in DOMAIN old /\ old[k] = now[k]
      BY <1>1, <2>2 DEF NewKeys, ChangedKeys
    <3> QED BY <1>1, <2>2, <3>1 DEF Applied
  <2> QED BY <2>1, <2>2
<1>4. now = [k \in DOMAIN now |-> now[k]] /\ got = [k \in DOMAIN got |-> got[k]]
  BY DEF Collections, Applied
<1>5. got = now
  <2> HIDE DEF got
  <2> QED BY <1>2, <1>3, <1>4
<1> QED BY <1>5

\* A whole scan: a receiver that holds the baseline's inventory and applies the
\* delta of every entity has this scan's inventory, also where an entity is new
\* or was missing from the baseline.
THEOREM ScanRestored ==
  ASSUME NEW entities \in Inventories, NEW prev \in Inventories
  PROVE  entities =
           [e \in DOMAIN BuildDelta(entities, prev) |->
              Applied(Of(prev, e), BuildDelta(entities, prev)[e])]
<1>1. ASSUME NEW e \in DOMAIN entities
      PROVE  entities[e] \in Collections /\ Of(prev, e) \in Collections
  <2>1. entities[e] \in Collections
    BY DEF Inventories
  <2>2. CASE e \in DOMAIN prev
    BY <2>2 DEF Inventories, Of
  <2>3. CASE e \notin DOMAIN prev
    <3>1. NoRecords \in [{} -> Fingerprints]
      BY DEF NoRecords
    <3> QED BY <2>1, <2>3, <3>1 DEF Of, Collections
  <2> QED BY <2>1, <2>2, <2>3
<1>2. entities = [e \in DOMAIN entities |-> entities[e]]
  BY DEF Inventories
<1>3. \A e \in DOMAIN entities :
         Applied(Of(prev, e), BuildDelta(entities, prev)[e]) = entities[e]
  BY <1>1, DeltaRestores DEF BuildDelta
<1>4. DOMAIN BuildDelta(entities, prev) = DOMAIN entities
  BY DEF BuildDelta
<1> QED BY <1>2, <1>3, <1>4

-----------------------------------------------------------------------------
(* The invariant.                                                           *)

IsSeq(s) == \E S : s \in Seq(S)

\* Every scan so far was sent, or was to be.
AllSent == \A n \in 1 .. Scan : ~sent[n].dry

\* An envelope builds on an earlier one; it has a chunk for each entity at most.
EnvelopeInv ==
    /\ IsSeq(sent) /\ IsSeq(seen)
    /\ \A n \in 1 .. Scan :
          /\ sent[n].base \in 0 .. n - 1
          /\ \E c \in 0 .. Cardinality(Entities) : DOMAIN sent[n].groups = 1 .. c

\* The envelope of the run is the last one; unless a collection was trimmed it
\* holds what was collected.
RunInv ==
    /\ pc = "idle" => ~trimmed
    /\ pc \in {"budget", "build"} => Scan < MaxScans
    /\ pc = "build" /\ ~trimmed => seen[Scan + 1] = cur
    /\ pc \in {"drain", "send", "save"} =>
          /\ Scan > 0 /\ Scan \notin finished
          /\ sent[Scan].dry = dry
          /\ ~trimmed => cur = seen[Scan]
    /\ pc \in {"drain", "send"} => ~dry /\ \A f \in torn : f.scan # Scan

\* The server knows what it builds on, and can make the run's entities of it.
MessageInv ==
    pc \in {"drain", "send", "save"} /\ AllSent =>
       Known[sent[Scan].base] /\ Rebuilt[Scan] = cur

\* The chunks that were sent are at the server or in the spool, and all at the
\* server if nothing failed.
SendInv ==
    /\ pc \notin {"send", "save"} => next = 1
    /\ pc = "send" => \A i \in 1 .. next - 1 :
          /\ i \in DOMAIN sent[Scan].groups
          /\ [scan |-> Scan, index |-> i] \in received \cup (files \ torn)
          /\ ~failed => [scan |-> Scan, index |-> i] \in received
    /\ pc = "save" /\ ~dry =>
          /\ Chunks(Scan) \subseteq received \cup (files \ torn)
          /\ ~failed => Chunks(Scan) \subseteq received

InventoryInv ==
    /\ TypeOK /\ EnvelopeInv /\ RunInv /\ MessageInv /\ SendInv
    /\ ChunksKept /\ BaselineRebuildable

-----------------------------------------------------------------------------
(* Sequences of envelopes and of inventories.                               *)

LEMMA SeqLength ==
  ASSUME NEW s, IsSeq(s)
  PROVE  Len(s) \in Nat /\ DOMAIN s = 1 .. Len(s)
BY LenProperties DEF IsSeq

LEMMA SeqAppend ==
  ASSUME NEW s, IsSeq(s), NEW x
  PROVE  /\ IsSeq(Append(s, x)) /\ Len(Append(s, x)) = Len(s) + 1
         /\ Append(s, x)[Len(s) + 1] = x
         /\ \A n \in 1 .. Len(s) : Append(s, x)[n] = s[n]
<1>1. PICK S : s \in Seq(S)
  BY DEF IsSeq
<1> DEFINE T == S \cup {x}
<1>2. s \in Seq(T) /\ x \in T
  BY <1>1, LenProperties
<1> HIDE DEF T
<1>3. Append(s, x) \in Seq(T) /\ Len(Append(s, x)) = Len(s) + 1
      /\ Append(s, x)[Len(s) + 1] = x
      /\ \A n \in 1 .. Len(s) : Append(s, x)[n] = s[n]
  BY <1>2, AppendProperties
<1> QED BY <1>3 DEF IsSeq

LEMMA SeqCut ==
  ASSUME NEW s, IsSeq(s), NEW m \in 0 .. Len(s)
  PROVE  /\ IsSeq(SubSeq(s, 1, m)) /\ Len(SubSeq(s, 1, m)) = m
         /\ \A n \in 1 .. m : SubSeq(s, 1, m)[n] = s[n]
<1>1. PICK S : s \in Seq(S)
  BY DEF IsSeq
<1>2. Len(s) \in Nat /\ m \in Nat
  BY <1>1, LenProperties
<1>3. SubSeq(s, 1, m) \in Seq(S) /\ Len(SubSeq(s, 1, m)) = m
  BY <1>1, <1>2
<1>4. \A n \in 1 .. m : SubSeq(s, 1, m)[n] = s[n]
  BY <1>1, <1>2
<1> QED BY <1>3, <1>4 DEF IsSeq

-----------------------------------------------------------------------------
(* What a receiver knows and rebuilds: the equations of Known and Rebuilt.  *)

\* Every envelope of s builds on an earlier one.
Based(s) == Len(s) \in Nat /\ \A n \in 1 .. Len(s) : s[n].base \in 0 .. n - 1

Rebuilds(r, s) ==
    r = [n \in 0 .. Len(s) |->
           IF n = 0 THEN [e \in {} |-> NoRecords]
           ELSE [e \in DOMAIN s[n].parts |-> Applied(Of(r[s[n].base], e), s[n].parts[e])]]

Knows(k, s, rcv) ==
    k = [n \in 0 .. Len(s) |->
           n = 0 \/ ({[scan |-> n, index |-> i] : i \in DOMAIN s[n].groups} \subseteq rcv
                       /\ k[s[n].base])]

\* Each equation has a solution.
LEMMA RebuildsExists ==
  ASSUME NEW s, Based(s)
  PROVE  \E r : Rebuilds(r, s)
<1> DEFINE Body(r, n) == IF n = 0 THEN [e \in {} |-> NoRecords]
                         ELSE [e \in DOMAIN s[n].parts |->
                                 Applied(Of(r[s[n].base], e), s[n].parts[e])]
           P(n) == \E r : r = [m \in 0 .. n |-> Body(r, m)]
           T == {n \in Nat : n <= Len(s) => P(n)}
<1>1. 0 \in T
  <2> DEFINE r == [m \in 0 .. 0 |-> [e \in {} |-> NoRecords]]
  <2>1. r = [m \in 0 .. 0 |-> Body(r, m)]
    OBVIOUS
  <2> HIDE DEF r, Body
  <2>2. P(0)
    BY <2>1, Zenon
  <2> HIDE DEF P
  <2> QED BY <2>2
<1>2. ASSUME NEW n \in Nat, n \in T PROVE n + 1 \in T
  <2> HIDE DEF Body
  <2> SUFFICES ASSUME n + 1 <= Len(s) PROVE P(n + 1)
    BY DEF T
  <2>1. n + 1 \in 1 .. Len(s) /\ n <= Len(s) /\ Len(s) \in Nat
    BY DEF Based
  <2>2. PICK r : r = [m \in 0 .. n |-> Body(r, m)]
    BY <1>2, <2>1
  <2> DEFINE q == [m \in 0 .. n + 1 |-> IF m = n + 1 THEN Body(r, n + 1) ELSE r[m]]
  <2>3. \A m \in 0 .. n : q[m] = r[m]
    OBVIOUS
  <2>4. \A m \in 0 .. n + 1 : Body(q, m) = Body(r, m)
    <3> SUFFICES ASSUME NEW m \in 0 .. n + 1 PROVE Body(q, m) = Body(r, m)
      OBVIOUS
    <3>1. CASE m = 0
      BY <3>1 DEF Body
    <3>2. CASE m # 0
      <4>1. s[m].base \in 0 .. m - 1
        BY <2>1, <3>2 DEF Based
      <4>2. s[m].base \in 0 .. n
        BY <4>1
      <4>3. q[s[m].base] = r[s[m].base]
        BY <2>3, <4>2
      <4> HIDE DEF q
      <4> QED BY <4>3 DEF Body
    <3> QED BY <3>1, <3>2
  <2>5. q = [m \in 0 .. n + 1 |-> Body(r, m)]
    <3>1. \A m \in 0 .. n + 1 : (IF m = n + 1 THEN Body(r, n + 1) ELSE r[m]) = Body(r, m)
      <4> SUFFICES ASSUME NEW m \in 0 .. n + 1, m # n + 1 PROVE r[m] = Body(r, m)
        OBVIOUS
      <4>1. m \in 0 .. n
        OBVIOUS
      <4> QED BY <2>2, <4>1
    <3> QED BY <3>1
  <2>6. q = [m \in 0 .. n + 1 |-> Body(q, m)]
    <3> HIDE DEF q
    <3> QED BY <2>4, <2>5
  <2> HIDE DEF q
  <2> QED BY <2>6, Zenon
<1>3. P(Len(s))
  <2>1. Nat \subseteq T
    <3> HIDE DEF T
    <3> QED BY <1>1, <1>2, SetInduction
  <2> HIDE DEF P
  <2> QED BY <2>1 DEF Based
<1> QED BY <1>3, Zenon DEF Rebuilds

LEMMA KnowsExists ==
  ASSUME NEW s, NEW rcv, Based(s)
  PROVE  \E k : Knows(k, s, rcv)
<1> DEFINE Body(k, n) == n = 0 \/ ({[scan |-> n, index |-> i] : i \in DOMAIN s[n].groups}
                                     \subseteq rcv /\ k[s[n].base])
           P(n) == \E k : k = [m \in 0 .. n |-> Body(k, m)]
           T == {n \in Nat : n <= Len(s) => P(n)}
<1>1. 0 \in T
  <2> DEFINE k == [m \in 0 .. 0 |-> TRUE]
  <2>1. k = [m \in 0 .. 0 |-> Body(k, m)]
    <3>1. \A m \in 0 .. 0 : m = 0
      OBVIOUS
    <3>2. \A m \in 0 .. 0 : Body(k, m) = TRUE
      BY <3>1, Zenon
    <3> HIDE DEF Body
    <3> QED BY <3>2, Zenon
  <2> HIDE DEF k, Body
  <2>2. P(0)
    BY <2>1, Zenon
  <2> HIDE DEF P
  <2> QED BY <2>2
<1>2. ASSUME NEW n \in Nat, n \in T PROVE n + 1 \in T
  <2> HIDE DEF Body
  <2> SUFFICES ASSUME n + 1 <= Len(s) PROVE P(n + 1)
    BY DEF T
  <2>1. n + 1 \in 1 .. Len(s) /\ n <= Len(s) /\ Len(s) \in Nat
    BY DEF Based
  <2>2. PICK k : k = [m \in 0 .. n |-> Body(k, m)]
    BY <1>2, <2>1
  <2> DEFINE q == [m \in 0 .. n + 1 |-> IF m = n + 1 THEN Body(k, n + 1) ELSE k[m]]
  <2>3. \A m \in 0 .. n : q[m] = k[m]
    OBVIOUS
  <2>4. \A m \in 0 .. n + 1 : Body(q, m) = Body(k, m)
    <3> SUFFICES ASSUME NEW m \in 0 .. n + 1 PROVE Body(q, m) = Body(k, m)
      OBVIOUS
    <3>1. CASE m = 0
      BY <3>1, Zenon DEF Body
    <3>2. CASE m # 0
      <4>1. s[m].base \in 0 .. m - 1
        BY <2>1, <3>2 DEF Based
      <4>2. s[m].base \in 0 .. n
        BY <4>1
      <4>3. q[s[m].base] = k[s[m].base]
        BY <2>3, <4>2
      <4> HIDE DEF q
      <4> QED BY <4>3, Zenon DEF Body
    <3> QED BY <3>1, <3>2
  <2>5. q = [m \in 0 .. n + 1 |-> Body(k, m)]
    <3>1. \A m \in 0 .. n + 1 : (IF m = n + 1 THEN Body(k, n + 1) ELSE k[m]) = Body(k, m)
      <4> SUFFICES ASSUME NEW m \in 0 .. n + 1, m # n + 1 PROVE k[m] = Body(k, m)
        OBVIOUS
      <4>1. m \in 0 .. n
        OBVIOUS
      <4> QED BY <2>2, <4>1
    <3> QED BY <3>1
  <2>6. q = [m \in 0 .. n + 1 |-> Body(q, m)]
    <3> HIDE DEF q
    <3> QED BY <2>4, <2>5
  <2> HIDE DEF q
  <2> QED BY <2>6, Zenon
<1>3. P(Len(s))
  <2>1. Nat \subseteq T
    <3> HIDE DEF T
    <3> QED BY <1>1, <1>2, SetInduction
  <2> HIDE DEF P
  <2> QED BY <2>1 DEF Based
<1> QED BY <1>3, Zenon DEF Knows

\* What Rebuilt and Known choose are solutions, in this state and the next.
LEMMA RebuiltIs ==
  /\ Based(sent) => Rebuilds(Rebuilt, sent)
  /\ Based(sent') => Rebuilds(Rebuilt', sent')
<1> DEFINE R(s) == CHOOSE r : Rebuilds(r, s)
<1>1. Rebuilt = R(sent) /\ Rebuilt' = R(sent')
  BY Zenon DEF Rebuilt, Rebuilds, Scan
<1>2. ASSUME NEW s, Based(s) PROVE Rebuilds(R(s), s)
  BY <1>2, RebuildsExists, Zenon
<1> QED BY <1>1, <1>2

LEMMA KnownIs ==
  /\ Based(sent) => Knows(Known, sent, received)
  /\ Based(sent') => Knows(Known', sent', received')
<1> DEFINE K(s, rcv) == CHOOSE k : Knows(k, s, rcv)
<1>1. Known = K(sent, received) /\ Known' = K(sent', received')
  BY Zenon DEF Known, Knows, Scan, Chunks
<1>2. ASSUME NEW s, NEW rcv, Based(s) PROVE Knows(K(s, rcv), s, rcv)
  BY <1>2, KnowsExists, Zenon
<1> QED BY <1>1, <1>2

\* t begins with s.
Begins(s, t) == Len(s) <= Len(t) /\ \A n \in 1 .. Len(s) : t[n] = s[n]

\* What is rebuilt of a scan does not change when more are sent.
LEMMA RebuildsSame ==
  ASSUME NEW s, NEW t, NEW r, NEW q, Based(s), Based(t), Begins(s, t),
         Rebuilds(r, s), Rebuilds(q, t)
  PROVE  \A n \in 0 .. Len(s) : r[n] = q[n]
<1> DEFINE T == {n \in Nat : \A m \in 0 .. n : m <= Len(s) => r[m] = q[m]}
           Empty == [e \in {} |-> NoRecords]
<1>0. Len(s) \in Nat /\ Len(t) \in Nat /\ Len(s) <= Len(t)
  BY DEF Based, Begins
<1>a. r[0] = Empty /\ q[0] = Empty
  <2>1. 0 \in 0 .. Len(s) /\ 0 \in 0 .. Len(t)
    BY <1>0
  <2> QED BY <2>1, Zenon DEF Rebuilds
<1>1. 0 \in T
  BY <1>a
<1>2. ASSUME NEW n \in Nat, n \in T PROVE n + 1 \in T
  <2> SUFFICES ASSUME n + 1 <= Len(s) PROVE r[n + 1] = q[n + 1]
    BY <1>2
  <2> DEFINE m == n + 1
  <2>1. m \in 1 .. Len(s) /\ m \in 0 .. Len(s) /\ m \in 0 .. Len(t) /\ m # 0
    BY <1>0
  <2>2. t[m] = s[m] /\ s[m].base \in 0 .. m - 1
    BY <2>1 DEF Begins, Based
  <2>3. s[m].base \in 0 .. n /\ s[m].base <= Len(s)
    BY <1>0, <2>2
  <2>4. r[s[m].base] = q[s[m].base]
    BY <1>2, <2>3
  <2> HIDE DEF m
  <2>5. /\ r[m] = [e \in DOMAIN s[m].parts |-> Applied(Of(r[s[m].base], e), s[m].parts[e])]
        /\ q[m] = [e \in DOMAIN t[m].parts |-> Applied(Of(q[t[m].base], e), t[m].parts[e])]
    BY <2>1, Zenon DEF Rebuilds
  <2>6. r[m] = q[m]
    BY <2>2, <2>4, <2>5
  <2> QED BY <2>6 DEF m
<1>3. Nat \subseteq T
  <2> HIDE DEF T
  <2> QED BY <1>1, <1>2, SetInduction
<1> QED BY <1>0, <1>3

\* What the server knows it goes on to know.
LEMMA KnowsGrows ==
  ASSUME NEW s, NEW t, NEW rcv, NEW rcvd, NEW k, NEW l, Based(s), Based(t), Begins(s, t),
         rcv \subseteq rcvd, Knows(k, s, rcv), Knows(l, t, rcvd)
  PROVE  \A n \in 0 .. Len(s) : k[n] => l[n]
<1> DEFINE T == {n \in Nat : \A m \in 0 .. n : m <= Len(s) => (k[m] => l[m])}
           Sent(u, n) == {[scan |-> n, index |-> i] : i \in DOMAIN u[n].groups}
<1>0. Len(s) \in Nat /\ Len(t) \in Nat /\ Len(s) <= Len(t)
  BY DEF Based, Begins
<1>a. l[0]
  <2>1. 0 \in 0 .. Len(t)
    BY <1>0
  <2> QED BY <2>1, Zenon DEF Knows
<1>1. 0 \in T
  BY <1>a
<1>2. ASSUME NEW n \in Nat, n \in T PROVE n + 1 \in T
  <2> SUFFICES ASSUME n + 1 <= Len(s), k[n + 1] PROVE l[n + 1]
    BY <1>2
  <2> DEFINE m == n + 1
  <2>1. m \in 1 .. Len(s) /\ m \in 0 .. Len(s) /\ m \in 0 .. Len(t) /\ m # 0
    BY <1>0
  <2>2. t[m] = s[m] /\ s[m].base \in 0 .. m - 1
    BY <2>1 DEF Begins, Based
  <2>3. s[m].base \in 0 .. n /\ s[m].base <= Len(s)
    BY <1>0, <2>2
  <2>4. k[s[m].base] => l[s[m].base]
    BY <1>2, <2>3
  <2>5. k[m]
    OBVIOUS
  <2> HIDE DEF m
  <2>6. /\ k[m] = (m = 0 \/ (Sent(s, m) \subseteq rcv /\ k[s[m].base]))
        /\ l[m] = (m = 0 \/ (Sent(t, m) \subseteq rcvd /\ l[t[m].base]))
    BY <2>1, Zenon DEF Knows
  <2>7. Sent(t, m) = Sent(s, m)
    BY <2>2
  <2> HIDE DEF Sent
  <2>8. Sent(s, m) \subseteq rcv /\ k[s[m].base]
    BY <2>1, <2>5, <2>6, Zenon
  <2>9. Sent(t, m) \subseteq rcvd /\ l[t[m].base]
    BY <2>2, <2>4, <2>7, <2>8
  <2>10. l[m]
    BY <2>6, <2>9, Zenon
  <2> QED BY <2>10 DEF m
<1>3. Nat \subseteq T
  <2> HIDE DEF T
  <2> QED BY <1>1, <1>2, SetInduction
<1> QED BY <1>0, <1>3

\* The same of Known and Rebuilt, from one state to the next.
LEMMA ServerKeeps ==
  ASSUME Based(sent), Based(sent'), Begins(sent, sent'), received \subseteq received',
         NEW n \in 0 .. Scan
  PROVE  Rebuilt'[n] = Rebuilt[n] /\ (Known[n] => Known'[n])
<1>1. Rebuilds(Rebuilt, sent) /\ Rebuilds(Rebuilt', sent')
      /\ Knows(Known, sent, received) /\ Knows(Known', sent', received')
  BY RebuiltIs, KnownIs
<1>2. n \in 0 .. Len(sent)
  BY DEF Scan
<1>3. Rebuilt'[n] = Rebuilt[n]
  <2>1. \A m \in 0 .. Len(sent) : Rebuilt[m] = Rebuilt'[m]
    BY <1>1, RebuildsSame
  <2> QED BY <1>2, <2>1
<1>4. Known[n] => Known'[n]
  BY <1>1, <1>2, KnowsGrows, Zenon
<1> QED BY <1>3, <1>4

-----------------------------------------------------------------------------
(* Steps that send no envelope.                                             *)

LEMMA NoRecordsIs == [e \in {} |-> NoRecords] \in Inventories
<1>1. [e \in {} |-> NoRecords] \in [{} -> Collections] /\ {} \in SUBSET Entities
  OBVIOUS
<1> QED BY <1>1 DEF Inventories

LEMMA BasedIs ==
  /\ EnvelopeInv => Based(sent)
  /\ EnvelopeInv' => Based(sent')
BY SeqLength DEF EnvelopeInv, Based, Scan

\* What is typed, in parts.
RunTypes   == /\ pc \in {"idle", "budget", "build", "drain", "send", "save"}
              /\ cur \in Inventories
Flags      == {dry, trimmed, failed} \subseteq BOOLEAN /\ guard \in 0 .. MaxRounds
IsChunk(f) == f.scan \in 1 .. Scan /\ f \in Chunks(f.scan)
ChunkTypes == (\A f \in files \cup todo \cup received : IsChunk(f)) /\ torn \subseteq files
NextTypes  == next \in 1 .. Cardinality(Entities) + 1
FileTypes  == /\ baseline = NoBaseline \/ (baseline.scan \in 1 .. Scan /\ baseline.maps \in Inventories)
              /\ finished \subseteq 1 .. Scan
SeqTypes   == /\ Scan <= MaxScans
              /\ Len(seen) = IF pc = "build" \/ (pc = "budget" /\ trimmed) THEN Scan + 1 ELSE Scan

LEMMA TypeParts ==
  /\ TypeOK <=> RunTypes /\ Flags /\ ChunkTypes /\ NextTypes /\ FileTypes /\ SeqTypes
  /\ TypeOK' <=> RunTypes' /\ Flags' /\ ChunkTypes' /\ NextTypes' /\ FileTypes' /\ SeqTypes'
BY DEF TypeOK, RunTypes, Flags, ChunkTypes, NextTypes, FileTypes, SeqTypes, IsChunk

\* Parts that a step leaves alone.
LEMMA TypesKept ==
  /\ UNCHANGED <<pc, cur>> => (RunTypes => RunTypes')
  /\ UNCHANGED <<dry, trimmed, guard, failed>> => (Flags => Flags')
  /\ UNCHANGED sent /\ files' \cup todo' \cup received' \subseteq files \cup todo \cup received
        /\ torn' \subseteq files' => (ChunkTypes => ChunkTypes')
  /\ UNCHANGED next => (NextTypes => NextTypes')
  /\ UNCHANGED <<baseline, sent, finished>> => (FileTypes => FileTypes')
  /\ UNCHANGED <<pc, trimmed, sent, seen>> => (SeqTypes => SeqTypes')
BY DEF RunTypes, Flags, ChunkTypes, NextTypes, FileTypes, SeqTypes, Scan, Chunks, IsChunk

LEMMA ScanIs ==
  ASSUME EnvelopeInv
  PROVE  Scan \in Nat /\ Len(seen) \in Nat
BY SeqLength DEF EnvelopeInv, Scan

LEMMA EndRunTypes ==
  ASSUME EnvelopeInv, EndRun, UNCHANGED sent, Len(seen') = Scan, SeqTypes
  PROVE  RunTypes' /\ Flags' /\ NextTypes' /\ SeqTypes' /\ todo' = {}
<1>1. RunTypes'
  BY NoRecordsIs DEF EndRun, RunTypes
<1>2. Flags'
  <2>1. 0 \in 0 .. MaxRounds
    BY InventoryAssumption
  <2> QED BY <2>1 DEF EndRun, Flags
<1>3. Cardinality(Entities) \in Nat
  BY InventoryAssumption, FS_CardinalityType
<1>4. NextTypes'
  BY <1>3 DEF EndRun, NextTypes
<1>5. SeqTypes' /\ todo' = {}
  BY DEF EndRun, SeqTypes, Scan
<1> QED BY <1>1, <1>2, <1>4, <1>5

LEMMA MoreIs ==
  ASSUME TypeOK, EnvelopeInv, RunInv, pc = "send", MoreChunks
  PROVE  /\ Scan \in 1 .. Scan /\ Chunk.scan = Scan /\ Chunk \in Chunks(Scan)
         /\ next \in 1 .. Cardinality(Entities)
<1>1. Scan \in 1 .. Scan
  BY ScanIs DEF RunInv
<1>2. PICK c \in 0 .. Cardinality(Entities) : DOMAIN sent[Scan].groups = 1 .. c
  BY <1>1 DEF EnvelopeInv
<1>3. next \in 1 .. c
  BY <1>2 DEF MoreChunks
<1>4. Cardinality(Entities) \in Nat
  BY InventoryAssumption, FS_CardinalityType
<1>5. next \in 1 .. Cardinality(Entities)
  BY <1>2, <1>3, <1>4
<1>6. Chunk.scan = Scan /\ Chunk \in Chunks(Scan)
  BY DEF Chunk, Chunks, MoreChunks
<1> QED BY <1>1, <1>5, <1>6

LEMMA CollectTypes ==
  ASSUME TypeOK, EnvelopeInv, RunInv, Collect \/ Trim \/ WithinBudget
  PROVE  TypeOK'
<1> USE DEF sending, durable, history
<1>0. /\ RunTypes /\ Flags /\ ChunkTypes /\ NextTypes /\ FileTypes /\ SeqTypes
      /\ Scan \in Nat /\ Len(seen) \in Nat
  BY TypeParts, ScanIs
<1>1. /\ UNCHANGED <<sending, durable, received, sent, finished>>
  BY DEF Collect, Trim, WithinBudget
<1>2. ChunkTypes' /\ NextTypes' /\ FileTypes'
  <2>1. files' \cup todo' \cup received' \subseteq files \cup todo \cup received /\ torn' \subseteq files'
    BY <1>0, <1>1 DEF ChunkTypes
  <2> QED BY <1>0, <1>1, <2>1, TypesKept
<1>3. CASE Collect
  <2>1. RunTypes'
    BY <1>3, InventoryAssumption DEF Collect, RunTypes
  <2>2. Flags'
    BY <1>0, <1>3, InventoryAssumption DEF Collect, Flags
  <2>3. SeqTypes'
    BY <1>0, <1>3 DEF Collect, SeqTypes, RunInv, Scan
  <2> QED BY <1>2, <2>1, <2>2, <2>3, TypeParts
<1>4. CASE Trim
  <2>1. pc = "budget" /\ pc' = pc /\ trimmed' = TRUE /\ dry' = dry
        /\ seen' = IF trimmed THEN seen ELSE Append(seen, cur)
    BY <1>4 DEF Trim
  <2>a. PICK e \in Largest : \E K \in kSubset(Records(e) \div 2, DOMAIN cur[e]) :
          cur' = [cur EXCEPT ![e] = [k \in K |-> @[k]]]
    BY <1>4, Zenon DEF Trim
  <2>2. PICK K \in kSubset(Records(e) \div 2, DOMAIN cur[e]) :
          cur' = [cur EXCEPT ![e] = [k \in K |-> @[k]]]
    BY <2>a
  <2>3. K \subseteq DOMAIN cur[e] /\ e \in DOMAIN cur
    BY DEF kSubset, Largest
  <2>4. PICK E \in SUBSET Entities : cur \in [E -> Collections]
    BY <1>0 DEF RunTypes, Inventories
  <2>5. PICK D \in SUBSET Keys : cur[e] \in [D -> Fingerprints]
    BY <2>3, <2>4 DEF Collections
  <2>6. [k \in K |-> cur[e][k]] \in Collections
    <3>1. [k \in K |-> cur[e][k]] \in [K -> Fingerprints] /\ K \in SUBSET Keys
      BY <2>3, <2>5
    <3> QED BY <3>1 DEF Collections
  <2>7. cur' \in Inventories
    <3>1. cur' \in [E -> Collections]
      BY <2>2, <2>4, <2>6
    <3> QED BY <3>1 DEF Inventories
  <2>8. Flags'
    <3>1. guard < MaxRounds /\ guard' = guard + 1
      BY <1>4, Zenon DEF Trim, OverBudget
    <3> QED BY <1>0, <1>1, <2>1, <3>1, InventoryAssumption DEF Flags
  <2>9. SeqTypes'
    <3>1. Len(Append(seen, cur)) = Len(seen) + 1
      BY SeqAppend DEF EnvelopeInv
    <3>2. Len(seen) = IF trimmed THEN Scan + 1 ELSE Scan
      BY <1>0, <2>1 DEF SeqTypes
    <3>3. Len(seen') = Scan + 1
      BY <2>1, <3>1, <3>2
    <3> QED BY <1>0, <1>1, <2>1, <3>3 DEF SeqTypes, Scan
  <2>10. RunTypes'
    BY <1>0, <2>1, <2>7 DEF RunTypes
  <2> QED BY <1>2, <2>8, <2>9, <2>10, TypeParts
<1>5. CASE WithinBudget
  <2>1. pc = "budget" /\ pc' = "build" /\ UNCHANGED <<cur, dry, trimmed>>
        /\ guard' = 0 /\ seen' = IF trimmed THEN seen ELSE Append(seen, cur)
    BY <1>5 DEF WithinBudget
  <2>2. SeqTypes'
    <3>1. Len(Append(seen, cur)) = Len(seen) + 1
      BY SeqAppend DEF EnvelopeInv
    <3>2. Len(seen) = IF trimmed THEN Scan + 1 ELSE Scan
      BY <1>0, <2>1 DEF SeqTypes
    <3>3. Len(seen') = Scan + 1
      BY <2>1, <3>1, <3>2
    <3> QED BY <1>0, <1>1, <2>1, <3>3 DEF SeqTypes, Scan
  <2>3. RunTypes'
    BY <1>0, <2>1 DEF RunTypes
  <2>4. Flags'
    BY <1>0, <1>1, <2>1, InventoryAssumption DEF Flags
  <2> QED BY <1>2, <2>2, <2>3, <2>4, TypeParts
<1> QED BY <1>3, <1>4, <1>5

LEMMA SendTypes ==
  ASSUME TypeOK, EnvelopeInv, RunInv,
         DrainAnswered \/ DrainFailed \/ DrainEnds \/ ChunkAnswered \/ ChunkSpooled \/ SendEnds
  PROVE  TypeOK'
<1> USE DEF run, sending, durable, history
<1>0. /\ RunTypes /\ Flags /\ ChunkTypes /\ NextTypes /\ FileTypes /\ SeqTypes
      /\ Scan \in Nat /\ Len(seen) \in Nat
  BY TypeParts, ScanIs
<1>1. UNCHANGED <<cur, dry, trimmed, guard, baseline, history>>
      /\ pc \in {"drain", "send"} /\ pc' \in {"drain", "send", "save"}
  BY DEF DrainAnswered, DrainFailed, DrainEnds, ChunkAnswered, ChunkSpooled, SendEnds
<1>2. RunTypes' /\ FileTypes' /\ SeqTypes'
  <2>1. RunTypes'
    BY <1>0, <1>1 DEF RunTypes
  <2>2. FileTypes'
    BY <1>0, <1>1, TypesKept
  <2>3. SeqTypes'
    BY <1>0, <1>1 DEF SeqTypes, Scan
  <2> QED BY <2>1, <2>2, <2>3
<1>3. CASE DrainAnswered \/ DrainFailed \/ DrainEnds \/ SendEnds
  <2>1. UNCHANGED <<next, torn>> /\ failed' \in {failed, TRUE}
    BY <1>3 DEF DrainAnswered, DrainFailed, DrainEnds, SendEnds
  <2>2. files' \cup todo' \cup received' \subseteq files \cup todo \cup received
    BY <1>3 DEF DrainAnswered, DrainFailed, DrainEnds, SendEnds
  <2>3. torn' \subseteq files'
    BY <1>0, <1>3 DEF DrainAnswered, DrainFailed, DrainEnds, SendEnds, ChunkTypes
  <2>4. Flags'
    BY <1>0, <1>1, <2>1 DEF Flags
  <2>5. ChunkTypes' /\ NextTypes'
    BY <1>0, <1>1, <2>1, <2>2, <2>3, TypesKept
  <2> QED BY <1>2, <2>4, <2>5, TypeParts
<1>4. CASE ChunkAnswered \/ ChunkSpooled
  <2>1. /\ next' = next + 1 /\ UNCHANGED <<torn, todo>> /\ failed' \in {failed, TRUE}
        /\ pc = "send" /\ MoreChunks /\ files \subseteq files'
        /\ files' \cup received' \subseteq files \cup received \cup {Chunk}
    BY <1>4 DEF ChunkAnswered, ChunkSpooled
  <2>2. Chunk.scan \in 1 .. Scan /\ Chunk \in Chunks(Chunk.scan) /\ next \in 1 .. Cardinality(Entities)
    BY <2>1, MoreIs
  <2>3. Flags'
    BY <1>0, <1>1, <2>1 DEF Flags
  <2>4. NextTypes'
    BY <2>1, <2>2, InventoryAssumption, FS_CardinalityType DEF NextTypes
  <2>5. ChunkTypes'
    <3>1. IsChunk(Chunk) /\ \A f : IsChunk(f)' <=> IsChunk(f)
      BY <1>1, <2>2 DEF IsChunk, Scan, Chunks
    <3>2. \A f \in files' \cup todo' \cup received' : IsChunk(f)
      BY <1>0, <2>1, <3>1 DEF ChunkTypes
    <3> QED BY <1>0, <2>1, <3>1, <3>2 DEF ChunkTypes
  <2> QED BY <1>2, <2>3, <2>4, <2>5, TypeParts
<1> QED BY <1>3, <1>4

LEMMA EndTypes ==
  ASSUME TypeOK, EnvelopeInv, RunInv, SpoolFails \/ Save \/ Die
  PROVE  TypeOK'
<1> USE DEF run, sending, durable, history
<1>0. /\ RunTypes /\ Flags /\ ChunkTypes /\ NextTypes /\ FileTypes /\ SeqTypes
      /\ Scan \in Nat /\ Len(seen) \in Nat
  BY TypeParts, ScanIs
<1>1. UNCHANGED sent /\ EndRun
  BY DEF SpoolFails, Save, Die
<1>2. Len(seen') = Scan
  <2>1. CASE SpoolFails \/ Save
    BY <1>0, <2>1 DEF SpoolFails, Save, SeqTypes
  <2>2. CASE Die
    <3>1. Scan \in 0 .. Len(seen)
      BY <1>0 DEF SeqTypes
    <3> QED BY <2>2, <3>1, SeqCut DEF Die, EnvelopeInv
  <2> QED BY <2>1, <2>2
<1>3. RunTypes' /\ Flags' /\ NextTypes' /\ SeqTypes' /\ todo' = {}
  BY <1>0, <1>1, <1>2, EndRunTypes
<1>4. FileTypes'
  <2>1. CASE SpoolFails \/ Die
    BY <1>0, <1>1, <2>1, TypesKept DEF SpoolFails, Die
  <2>2. CASE Save
    <3>1. Scan \in 1 .. Scan
      BY <1>0, <2>2 DEF Save, RunInv
    <3> QED BY <1>0, <1>1, <2>2, <3>1 DEF Save, FileTypes, RunTypes, Scan
  <2> QED BY <2>1, <2>2
<1>5. ChunkTypes'
  <2>1. \/ UNCHANGED <<files, torn, received>>
        \/ /\ IsChunk(Chunk) /\ files \subseteq files' /\ torn' \subseteq torn \cup (files' \cap {Chunk})
           /\ files' \cup received' \subseteq files \cup received \cup {Chunk}
    <3>1. CASE Save
      BY <3>1 DEF Save
    <3>2. CASE SpoolFails \/ (Die /\ pc = "send" /\ MoreChunks)
      <4>1. IsChunk(Chunk)
        BY <3>2, MoreIs DEF SpoolFails, IsChunk
      <4> QED BY <3>2, <4>1 DEF SpoolFails, Die, HalfFile
    <3>3. CASE Die /\ ~(pc = "send" /\ MoreChunks)
      BY <3>3 DEF Die
    <3> QED BY <3>1, <3>2, <3>3
  <2>2. \A f : IsChunk(f)' <=> IsChunk(f)
    BY <1>1 DEF IsChunk, Scan, Chunks
  <2>3. \A f \in files' \cup todo' \cup received' : IsChunk(f)
    BY <1>0, <1>3, <2>1 DEF ChunkTypes
  <2> QED BY <1>0, <2>1, <2>2, <2>3 DEF ChunkTypes
<1> QED BY <1>3, <1>4, <1>5, TypeParts

-----------------------------------------------------------------------------
(* The step that makes an envelope.                                         *)

\* An envelope has a chunk, or one for each of its entities.
LEMMA GroupsOf ==
  ASSUME cur \in Inventories, NEW groups \in Groupings
  PROVE  \E c \in 0 .. Cardinality(Entities) : DOMAIN groups = 1 .. c
<1>1. DOMAIN cur \subseteq Entities
  BY DEF Inventories
<1>2. /\ Cardinality(DOMAIN cur) \in Nat /\ Cardinality(DOMAIN cur) <= Cardinality(Entities)
      /\ Cardinality(Entities) \in Nat
  BY <1>1, InventoryAssumption, FS_Subset, FS_CardinalityType
<1>3. Cardinality(Entities) # 0
  BY InventoryAssumption, FS_EmptySet
<1>4. DOMAIN <<DOMAIN cur>> = 1 .. 1
  OBVIOUS
<1>5. CASE groups = <<DOMAIN cur>>
  BY <1>2, <1>3, <1>4, <1>5
<1>6. CASE groups # <<DOMAIN cur>>
  <2>1. groups = [i \in 1 .. Cardinality(DOMAIN cur) |-> {SetToSeq(DOMAIN cur)[i]}]
    BY <1>6, Zenon DEF Groupings
  <2>2. DOMAIN groups = 1 .. Cardinality(DOMAIN cur)
    BY <2>1
  <2> QED BY <1>2, <2>2
<1> QED BY <1>5, <1>6

LEMMA BuildIs ==
  ASSUME TypeOK, EnvelopeInv, RunInv, Build
  PROVE  /\ Scan' = Scan + 1 /\ IsSeq(sent') /\ Begins(sent, sent')
         /\ sent'[Scan + 1].dry = dry
         /\ \E c \in 0 .. Cardinality(Entities) : DOMAIN sent'[Scan + 1].groups = 1 .. c
         /\ \/ sent'[Scan + 1].base = Snapshot.base /\ sent'[Scan + 1].parts = Snapshot.parts
            \/ /\ baseline # NoBaseline
               /\ sent'[Scan + 1].base = DeltaMsg.base /\ sent'[Scan + 1].parts = DeltaMsg.parts
         /\ sent'[Scan + 1].base \in 0 .. Scan
<1>0. Scan \in Nat /\ IsSeq(sent) /\ cur \in Inventories
      /\ (baseline # NoBaseline => baseline.scan \in 1 .. Scan)
  BY ScanIs DEF EnvelopeInv, TypeOK
<1>1. PICK groups \in Groupings :
        \E msg \in {Snapshot} \cup
              (IF baseline # NoBaseline /\ DOMAIN baseline.maps # {} THEN {DeltaMsg} ELSE {}) :
           sent' = Append(sent, [base |-> msg.base, parts |-> msg.parts, groups |-> groups,
                                 dry |-> dry])
  BY Zenon DEF Build
<1>2. PICK msg \in {Snapshot} \cup
              (IF baseline # NoBaseline /\ DOMAIN baseline.maps # {} THEN {DeltaMsg} ELSE {}) :
           sent' = Append(sent, [base |-> msg.base, parts |-> msg.parts, groups |-> groups,
                                 dry |-> dry])
  BY <1>1
<1> DEFINE env == [base |-> msg.base, parts |-> msg.parts, groups |-> groups, dry |-> dry]
<1>3. env.dry = dry /\ env.base = msg.base /\ env.parts = msg.parts /\ env.groups = groups
  OBVIOUS
<1>4. sent' = Append(sent, env)
  BY <1>2
<1> HIDE DEF env
<1>5. /\ IsSeq(sent') /\ Len(sent') = Scan + 1 /\ sent'[Scan + 1] = env
      /\ \A n \in 1 .. Scan : sent'[n] = sent[n]
  BY <1>0, <1>4, SeqAppend DEF Scan
<1>6. Scan' = Scan + 1 /\ Begins(sent, sent')
  BY <1>0, <1>5 DEF Scan, Begins
<1>7. \E c \in 0 .. Cardinality(Entities) : DOMAIN env.groups = 1 .. c
  BY <1>0, <1>3, GroupsOf
<1>8. msg = Snapshot \/ (msg = DeltaMsg /\ baseline # NoBaseline)
  BY <1>2, Zenon
<1>9. msg.base \in 0 .. Scan
  <2>1. CASE msg = Snapshot
    BY <1>0, <2>1 DEF Snapshot
  <2>2. CASE msg = DeltaMsg /\ baseline # NoBaseline
    <3>1. msg.base = baseline.scan
      BY <2>2 DEF DeltaMsg
    <3> QED BY <1>0, <2>2, <3>1
  <2> QED BY <1>8, <2>1, <2>2
<1> QED BY <1>3, <1>5, <1>6, <1>7, <1>8, <1>9

LEMMA BuildTypes ==
  ASSUME TypeOK, EnvelopeInv, RunInv, Build
  PROVE  TypeOK'
<1> USE DEF durable
<1>0. /\ RunTypes /\ Flags /\ ChunkTypes /\ NextTypes /\ FileTypes /\ SeqTypes
      /\ Scan \in Nat /\ Len(seen) \in Nat /\ Scan' = Scan + 1 /\ Begins(sent, sent')
  BY TypeParts, ScanIs, BuildIs
<1>1. /\ pc = "build" /\ pc' \in {"save", "drain"} /\ todo' \subseteq files \cup todo
      /\ UNCHANGED <<cur, dry, trimmed, guard, next, failed, durable, received, seen, finished>>
  BY DEF Build
<1>2. RunTypes' /\ Flags' /\ NextTypes'
  BY <1>0, <1>1, TypesKept DEF RunTypes
<1>3. SeqTypes'
  BY <1>0, <1>1, InventoryAssumption DEF SeqTypes, RunInv
<1>4. FileTypes'
  BY <1>0, <1>1 DEF FileTypes
<1>5. \A f : IsChunk(f) => IsChunk(f)'
  BY <1>0 DEF IsChunk, Chunks, Begins, Scan
<1>6. ChunkTypes'
  BY <1>0, <1>1, <1>5 DEF ChunkTypes
<1> QED BY <1>2, <1>3, <1>4, <1>6, TypeParts

LEMMA TypeStep == TypeOK /\ EnvelopeInv /\ RunInv /\ [Next]_vars => TypeOK'
<1> SUFFICES ASSUME TypeOK, EnvelopeInv, RunInv, [Next]_vars PROVE TypeOK'
  OBVIOUS
<1>1. CASE UNCHANGED vars
  <2>1. RunTypes /\ Flags /\ ChunkTypes /\ NextTypes /\ FileTypes /\ SeqTypes
    BY TypeParts
  <2>2. RunTypes' /\ Flags' /\ ChunkTypes' /\ NextTypes' /\ FileTypes' /\ SeqTypes'
    <3>1. files' \cup todo' \cup received' \subseteq files \cup todo \cup received
          /\ torn' \subseteq files'
      BY <1>1, <2>1 DEF vars, sending, durable, ChunkTypes
    <3> QED BY <1>1, <2>1, <3>1, TypesKept DEF vars, run, sending, durable, history
  <2> QED BY <2>2, TypeParts
<1> QED BY <1>1, CollectTypes, SendTypes, EndTypes, BuildTypes DEF Next

-----------------------------------------------------------------------------
(* The envelopes.                                                           *)

\* A step sends an envelope or leaves them alone; it never forgets a chunk the
\* server has.
LEMMA SentGrows ==
  ASSUME TypeOK, EnvelopeInv, RunInv, [Next]_vars
  PROVE  /\ Begins(sent, sent') /\ received \subseteq received'
         /\ UNCHANGED sent \/ Build
<1> USE DEF run, sending, durable, history
<1>1. UNCHANGED sent \/ Build
  BY DEF Next, vars, Collect, Trim, WithinBudget, DrainAnswered, DrainFailed, DrainEnds,
         ChunkAnswered, ChunkSpooled, SpoolFails, SendEnds, Save, Die
<1>2. received \subseteq received'
  BY DEF Next, vars, Collect, Trim, WithinBudget, Build, DrainAnswered, DrainFailed, DrainEnds,
         ChunkAnswered, ChunkSpooled, SpoolFails, SendEnds, Save, Die
<1>3. UNCHANGED sent => Begins(sent, sent')
  BY ScanIs DEF Begins, Scan
<1> QED BY <1>1, <1>2, <1>3, BuildIs

LEMMA EnvelopeStep == TypeOK /\ EnvelopeInv /\ RunInv /\ [Next]_vars => EnvelopeInv'
<1> SUFFICES ASSUME TypeOK, EnvelopeInv, RunInv, [Next]_vars PROVE EnvelopeInv'
  OBVIOUS
<1> USE DEF run, sending, durable, history
<1>1. IsSeq(seen')
  <2>1. IsSeq(seen) /\ IsSeq(Append(seen, cur))
    BY SeqAppend DEF EnvelopeInv
  <2>2. Scan \in 0 .. Len(seen)
    BY ScanIs, TypeParts DEF SeqTypes
  <2>3. IsSeq(SubSeq(seen, 1, Scan))
    BY <2>1, <2>2, SeqCut
  <2>4. seen' \in {seen, Append(seen, cur), SubSeq(seen, 1, Scan)}
    BY DEF Next, vars, Collect, Trim, WithinBudget, Build, DrainAnswered, DrainFailed, DrainEnds,
           ChunkAnswered, ChunkSpooled, SpoolFails, SendEnds, Save, Die
  <2> QED BY <2>1, <2>3, <2>4
<1>2. CASE UNCHANGED sent
  BY <1>1, <1>2 DEF EnvelopeInv, Scan
<1>3. CASE Build
  <2>1. /\ Scan' = Scan + 1 /\ IsSeq(sent') /\ Begins(sent, sent') /\ Scan \in Nat
        /\ \E c \in 0 .. Cardinality(Entities) : DOMAIN sent'[Scan + 1].groups = 1 .. c
        /\ sent'[Scan + 1].base \in 0 .. Scan
    BY <1>3, BuildIs, ScanIs
  <2>2. ASSUME NEW n \in 1 .. Scan'
        PROVE  /\ sent'[n].base \in 0 .. n - 1
               /\ \E c \in 0 .. Cardinality(Entities) : DOMAIN sent'[n].groups = 1 .. c
    <3>1. CASE n \in 1 .. Scan
      <4>1. sent'[n] = sent[n]
        BY <2>1, <3>1 DEF Begins, Scan
      <4> QED BY <3>1, <4>1 DEF EnvelopeInv
    <3>2. CASE n \notin 1 .. Scan
      <4>1. n = Scan + 1 /\ n - 1 = Scan
        BY <2>1, <3>2
      <4> QED BY <2>1, <4>1
    <3> QED BY <3>1, <3>2
  <2> QED BY <1>1, <2>1, <2>2 DEF EnvelopeInv
<1> QED BY <1>2, <1>3, SentGrows

-----------------------------------------------------------------------------
(* The run.                                                                 *)

LEMMA RunStep == TypeOK /\ EnvelopeInv /\ RunInv /\ [Next]_vars => RunInv'
<1> SUFFICES ASSUME TypeOK, EnvelopeInv, RunInv, [Next]_vars PROVE RunInv'
  OBVIOUS
<1> USE DEF run, sending, durable, history
<1>0. SeqTypes /\ FileTypes /\ ChunkTypes /\ Scan \in Nat /\ Len(seen) \in Nat
  BY TypeParts, ScanIs
<1>1. CASE EndRun /\ UNCHANGED sent
  BY <1>1 DEF EndRun, RunInv
<1>2. CASE Collect
  BY <1>2 DEF Collect, RunInv, Scan
<1>3. CASE Trim
  <2>1. pc = "budget" /\ pc' = pc /\ UNCHANGED sent
    BY <1>3 DEF Trim
  <2> QED BY <2>1 DEF RunInv, Scan
<1>4. CASE WithinBudget
  <2>1. pc = "budget" /\ pc' = "build" /\ UNCHANGED <<cur, trimmed, sent>>
        /\ seen' = IF trimmed THEN seen ELSE Append(seen, cur)
    BY <1>4 DEF WithinBudget
  <2>2. ~trimmed => seen'[Scan + 1] = cur
    <3> SUFFICES ASSUME ~trimmed PROVE seen'[Scan + 1] = cur
      OBVIOUS
    <3>1. Len(seen) = Scan /\ IsSeq(seen)
      BY <1>0, <2>1 DEF SeqTypes, EnvelopeInv
    <3> QED BY <2>1, <3>1, SeqAppend
  <2> QED BY <2>1, <2>2 DEF RunInv, Scan
<1>5. CASE Build
  <2>1. /\ pc = "build" /\ pc' \in {"save", "drain"} /\ (pc' = "drain" => ~dry)
        /\ UNCHANGED <<cur, dry, trimmed, torn, files, seen, finished>>
    BY <1>5 DEF Build
  <2>2. Scan' = Scan + 1 /\ sent'[Scan + 1].dry = dry
    BY <1>5, BuildIs
  <2>3. Scan' \notin finished' /\ Scan' > 0
    BY <1>0, <2>1, <2>2 DEF FileTypes
  <2>4. \A f \in torn' : f.scan # Scan'
    BY <1>0, <2>1, <2>2 DEF ChunkTypes, IsChunk
  <2>5. ~trimmed' => cur' = seen'[Scan']
    BY <2>1, <2>2 DEF RunInv
  <2>6. sent'[Scan'].dry = dry'
    BY <2>1, <2>2
  <2>7. /\ pc' \notin {"idle", "budget", "build"}
        /\ pc' \in {"drain", "send"} => ~dry'
    BY <2>1
  <2> QED BY <2>3, <2>4, <2>5, <2>6, <2>7 DEF RunInv
<1>6. CASE /\ pc \in {"drain", "send"} /\ pc' \in {"drain", "send", "save"}
           /\ UNCHANGED <<cur, dry, trimmed, torn, history>>
  BY <1>6 DEF RunInv, Scan
<1>7. CASE DrainAnswered \/ DrainFailed \/ DrainEnds \/ ChunkAnswered \/ ChunkSpooled \/ SendEnds
  BY <1>6, <1>7 DEF DrainAnswered, DrainFailed, DrainEnds, ChunkAnswered, ChunkSpooled, SendEnds
<1>8. CASE SpoolFails \/ Save \/ Die
  BY <1>1, <1>8 DEF SpoolFails, Save, Die
<1>9. CASE UNCHANGED vars
  BY <1>9 DEF vars, RunInv, Scan
<1> QED BY <1>2, <1>3, <1>4, <1>5, <1>7, <1>8, <1>9 DEF Next

-----------------------------------------------------------------------------
(* The chunks.                                                              *)

\* A chunk at the server, or complete in the spool.
Safe == received \cup (files \ torn)

\* A safe chunk stays safe; only a file of the run's own envelope is torn.
LEMMA SafeKept ==
  ASSUME TypeOK, EnvelopeInv, RunInv, [Next]_vars,
         NEW c \in Safe, c.scan # Scan \/ pc # "send" \/ pc' # "idle"
  PROVE  c \in Safe'
<1> USE DEF run, sending, durable, history
<1>1. CASE c \in received
  BY <1>1, SentGrows DEF Safe
<1>2. CASE c \in files \ torn
  <2>1. CASE DrainAnswered
    <3>1. PICK f \in todo \ torn : received' = received \cup {f} /\ files' \in {files \ {f}, files}
      BY <2>1 DEF DrainAnswered
    <3>2. torn' = torn
      BY <2>1 DEF DrainAnswered
    <3> QED BY <1>2, <3>1, <3>2 DEF Safe
  <2>2. CASE SpoolFails \/ (Die /\ pc = "send" /\ MoreChunks)
    <3>1. c # Chunk
      BY <2>2, MoreIs DEF SpoolFails, EndRun, Die
    <3> QED BY <1>2, <2>2, <3>1 DEF SpoolFails, Die, HalfFile, Safe
  <2>3. CASE Die /\ ~(pc = "send" /\ MoreChunks)
    BY <1>2, <2>3 DEF Die, Safe
  <2>4. CASE Collect \/ Trim \/ WithinBudget \/ Build \/ DrainFailed \/ DrainEnds
             \/ ChunkAnswered \/ ChunkSpooled \/ SendEnds \/ Save \/ UNCHANGED vars
    BY <1>2, <2>4 DEF Collect, Trim, WithinBudget, Build, DrainFailed, DrainEnds, ChunkAnswered,
                      ChunkSpooled, SendEnds, Save, vars, Safe
  <2> QED BY <2>1, <2>2, <2>3, <2>4 DEF Next
<1> QED BY <1>1, <1>2 DEF Safe

LEMMA SendStep == TypeOK /\ EnvelopeInv /\ RunInv /\ SendInv /\ [Next]_vars => SendInv'
<1> SUFFICES ASSUME TypeOK, EnvelopeInv, RunInv, SendInv, [Next]_vars PROVE SendInv'
  OBVIOUS
<1> USE DEF run, sending, durable, history
<1>0. Scan \in Nat /\ next \in Nat \ {0} /\ Begins(sent, sent') /\ received \subseteq received'
      /\ (pc \notin {"send", "save"} => next = 1)
  BY ScanIs, SentGrows DEF TypeOK, SendInv
<1>1. CASE pc' \notin {"send", "save"}
  <2>1. next' = 1
    <3>1. CASE pc \in {"send", "save"}
      BY <1>1, <3>1 DEF Next, vars, Collect, Trim, WithinBudget, Build, DrainAnswered, DrainFailed,
                        DrainEnds, ChunkAnswered, ChunkSpooled, SpoolFails, SendEnds, Save, Die, EndRun
    <3>2. CASE pc \notin {"send", "save"}
      BY <1>0, <3>2 DEF Next, vars, Collect, Trim, WithinBudget, Build, DrainAnswered, DrainFailed,
                        DrainEnds, ChunkAnswered, ChunkSpooled, SpoolFails, SendEnds, Save, Die, EndRun
    <3> QED BY <3>1, <3>2
  <2> QED BY <1>1, <2>1 DEF SendInv
<1>2. CASE DrainEnds
  <2>1. pc' = "send" /\ next' = 1
    BY <1>0, <1>2 DEF DrainEnds
  <2>2. 1 .. next' - 1 = {}
    BY <2>1
  <2> QED BY <2>1, <2>2 DEF SendInv
<1>3. CASE ChunkAnswered \/ ChunkSpooled
  <2>1. /\ pc = "send" /\ pc' = "send" /\ MoreChunks /\ next' = next + 1 /\ UNCHANGED <<sent, torn>>
        /\ (~failed' => ~failed /\ Chunk \in received')
    BY <1>3 DEF ChunkAnswered, ChunkSpooled
  <2>2. Scan' = Scan
    BY <2>1 DEF Scan
  <2>3. Chunk \in Safe'
    <3>1. CASE ChunkAnswered
      BY <3>1 DEF ChunkAnswered, Safe
    <3>2. CASE ChunkSpooled
      <4>1. Chunk \notin torn
        BY <2>1, MoreIs DEF RunInv
      <4> QED BY <3>2, <4>1 DEF ChunkSpooled, Safe
    <3> QED BY <1>3, <3>1, <3>2
  <2>4. ASSUME NEW i \in 1 .. next' - 1
        PROVE  /\ i \in DOMAIN sent[Scan].groups
               /\ [scan |-> Scan, index |-> i] \in Safe'
               /\ ~failed' => [scan |-> Scan, index |-> i] \in received'
    <3>1. CASE i = next
      BY <2>1, <2>3, <3>1 DEF Chunk, MoreChunks
    <3>2. CASE i # next
      <4>1. i \in 1 .. next - 1
        BY <1>0, <2>1, <3>2
      <4>2. /\ i \in DOMAIN sent[Scan].groups
            /\ [scan |-> Scan, index |-> i] \in Safe
            /\ ~failed => [scan |-> Scan, index |-> i] \in received
        BY <2>1, <4>1 DEF SendInv, Safe
      <4>3. [scan |-> Scan, index |-> i] \in Safe'
        BY <2>1, <4>2, SafeKept
      <4> QED BY <1>0, <2>1, <4>2, <4>3
    <3> QED BY <3>1, <3>2
  <2> QED BY <2>1, <2>2, <2>4 DEF SendInv, Safe
<1>4. CASE SendEnds
  <2>1. pc = "send" /\ pc' = "save" /\ ~MoreChunks /\ UNCHANGED <<sent, received, files, torn, failed>>
    BY <1>4 DEF SendEnds
  <2>2. PICK c \in 0 .. Cardinality(Entities) : DOMAIN sent[Scan].groups = 1 .. c
    <3>1. Scan \in 1 .. Scan
      BY <1>0, <2>1 DEF RunInv
    <3> QED BY <3>1 DEF EnvelopeInv
  <2>3. c < next /\ c \in Nat
    BY <1>0, <2>1, <2>2, InventoryAssumption, FS_CardinalityType DEF MoreChunks
  <2>4. \A i \in DOMAIN sent[Scan].groups :
           /\ [scan |-> Scan, index |-> i] \in Safe
           /\ ~failed => [scan |-> Scan, index |-> i] \in received
    <3>1. \A i \in DOMAIN sent[Scan].groups : i \in 1 .. next - 1
      BY <1>0, <2>2, <2>3
    <3> QED BY <2>1, <3>1 DEF SendInv, Safe
  <2>5. Chunks(Scan) \subseteq Safe /\ (~failed => Chunks(Scan) \subseteq received)
    BY <2>4 DEF Chunks
  <2>6. Chunks(Scan)' = Chunks(Scan) /\ Safe' = Safe /\ failed' = failed /\ received' = received
    BY <2>1 DEF Chunks, Scan, Safe
  <2> QED BY <2>1, <2>5, <2>6 DEF SendInv, Safe
<1>5. CASE Build
  <2>1. pc = "build" /\ (pc' = "save" => dry) /\ dry' = dry /\ pc' \in {"save", "drain"} /\ next' = next
    BY <1>5 DEF Build
  <2> QED BY <1>0, <2>1 DEF SendInv
<1>6. CASE UNCHANGED vars
  BY <1>6 DEF vars, SendInv, Scan, Chunks
<1>7. CASE Collect \/ Trim \/ WithinBudget \/ DrainAnswered \/ DrainFailed \/ SpoolFails \/ Save \/ Die
  BY <1>1, <1>7 DEF Collect, Trim, WithinBudget, DrainAnswered, DrainFailed, SpoolFails, Save, Die,
                    EndRun
<1> QED BY <1>2, <1>3, <1>4, <1>5, <1>6, <1>7 DEF Next

LEMMA KeptStep ==
  TypeOK /\ EnvelopeInv /\ RunInv /\ SendInv /\ ChunksKept /\ [Next]_vars => ChunksKept'
<1> SUFFICES ASSUME TypeOK, EnvelopeInv, RunInv, SendInv, ChunksKept, [Next]_vars,
                    NEW n \in finished'
             PROVE  Chunks(n)' \subseteq Safe'
  BY DEF ChunksKept, Safe
<1> USE DEF run, sending, durable, history
<1>0. finished \subseteq 1 .. Scan /\ Scan \in Nat /\ Begins(sent, sent')
  BY ScanIs, SentGrows DEF TypeOK
<1>1. CASE n \in finished
  <2>1. Chunks(n)' = Chunks(n)
    BY <1>0, <1>1 DEF Chunks, Begins, Scan
  <2>2. Chunks(n) \subseteq Safe /\ \A c \in Chunks(n) : c.scan = n
    BY <1>1 DEF ChunksKept, Safe, Chunks
  <2>3. n # Scan \/ pc # "send"
    BY <1>1 DEF RunInv
  <2> QED BY <2>1, <2>2, <2>3, SafeKept
<1>2. CASE n \notin finished
  <2>1. CASE Save
    <3>1. n = Scan /\ pc = "save" /\ ~dry /\ UNCHANGED <<sent, files, torn, received>>
      BY <1>2, <2>1 DEF Save
    <3>2. Chunks(n) \subseteq Safe
      BY <3>1 DEF SendInv, Safe
    <3> QED BY <3>1, <3>2 DEF Chunks, Safe
  <2>2. CASE ~Save
    BY <1>2, <2>2 DEF Next, vars, Collect, Trim, WithinBudget, Build, DrainAnswered, DrainFailed,
                      DrainEnds, ChunkAnswered, ChunkSpooled, SpoolFails, SendEnds, Die
  <2> QED BY <2>1, <2>2
<1> QED BY <1>1, <1>2

-----------------------------------------------------------------------------
(* What the server can make of the envelope and of the baseline.            *)

\* A snapshot stands for itself.
LEMMA SnapshotRestored ==
  ASSUME NEW entities \in Inventories
  PROVE  entities = [e \in DOMAIN AsRecords(entities) |->
                       Applied(Of([d \in {} |-> NoRecords], e), AsRecords(entities)[e])]
<1>1. ASSUME NEW e \in DOMAIN entities
      PROVE  Applied(Of([d \in {} |-> NoRecords], e), AsRecords(entities)[e]) = entities[e]
  <2> DEFINE c == entities[e]
             got == Applied(NoRecords, [records |-> c, removed |-> {}])
  <2>1. Of([d \in {} |-> NoRecords], e) = NoRecords
    BY DEF Of
  <2>2. AsRecords(entities)[e] = [records |-> c, removed |-> {}]
    BY DEF AsRecords
  <2>3. c \in Collections
    BY DEF Inventories
  <2>4. DOMAIN got = DOMAIN c /\ \A k \in DOMAIN c : got[k] = c[k]
    BY DEF Applied, NoRecords
  <2>5. c = [k \in DOMAIN c |-> c[k]] /\ got = [k \in DOMAIN got |-> got[k]]
    BY <2>3 DEF Collections, Applied
  <2>6. got = c
    <3> HIDE DEF got, c
    <3> QED BY <2>4, <2>5
  <2> HIDE DEF got
  <2> QED BY <2>1, <2>2, <2>6 DEF got
<1>2. entities = [e \in DOMAIN entities |-> entities[e]]
  BY DEF Inventories
<1>3. DOMAIN AsRecords(entities) = DOMAIN entities
  BY DEF AsRecords
<1> QED BY <1>1, <1>2, <1>3

\* The next state's server, at one envelope.
LEMMA ServerNext ==
  ASSUME Based(sent'), NEW n \in 1 .. Scan'
  PROVE  /\ Rebuilt'[n] = [e \in DOMAIN sent'[n].parts |->
                             Applied(Of(Rebuilt'[sent'[n].base], e), sent'[n].parts[e])]
         /\ Chunks(n)' \subseteq received' /\ Known'[sent'[n].base] => Known'[n]
         /\ Rebuilt'[0] = [e \in {} |-> NoRecords] /\ Known'[0]
<1>1. /\ Rebuilds(Rebuilt', sent') /\ Knows(Known', sent', received')
      /\ n \in 0 .. Len(sent') /\ 0 \in 0 .. Len(sent') /\ n # 0
  BY RebuiltIs, KnownIs DEF Scan, Based
<1>2. /\ Rebuilt'[n] = [e \in DOMAIN sent'[n].parts |->
                          Applied(Of(Rebuilt'[sent'[n].base], e), sent'[n].parts[e])]
      /\ Rebuilt'[0] = [e \in {} |-> NoRecords]
  BY <1>1, Zenon DEF Rebuilds
<1>3. Chunks(n)' \subseteq received' /\ Known'[sent'[n].base] => Known'[n]
  BY <1>1, Zenon DEF Knows, Chunks
<1>4. Known'[0]
  BY <1>1, Zenon DEF Knows
<1> QED BY <1>2, <1>3, <1>4

LEMMA AllSentBefore ==
  ASSUME Begins(sent, sent'), Scan \in Nat, Scan' \in Nat, AllSent'
  PROVE  AllSent
BY DEF AllSent, Begins, Scan

LEMMA SeenKept ==
  ASSUME TypeOK, EnvelopeInv, RunInv, [Next]_vars
  PROVE  \A n \in 1 .. Scan : seen'[n] = seen[n]
<1>1. Scan \in 0 .. Len(seen) /\ Len(seen) \in Nat /\ IsSeq(seen)
  BY ScanIs, TypeParts DEF SeqTypes, EnvelopeInv
<1>2. seen' \in {seen, Append(seen, cur), SubSeq(seen, 1, Scan)}
  BY DEF Next, vars, Collect, Trim, WithinBudget, Build, DrainAnswered, DrainFailed, DrainEnds,
         ChunkAnswered, ChunkSpooled, SpoolFails, SendEnds, Save, Die, run, sending, durable, history
<1>3. \A n \in 1 .. Scan : n \in 1 .. Len(seen)
  BY <1>1
<1>4. /\ \A n \in 1 .. Len(seen) : Append(seen, cur)[n] = seen[n]
      /\ \A n \in 1 .. Scan : SubSeq(seen, 1, Scan)[n] = seen[n]
  BY <1>1, SeqAppend, SeqCut
<1> QED BY <1>2, <1>3, <1>4

LEMMA MessageStep ==
  /\ TypeOK /\ EnvelopeInv /\ RunInv /\ MessageInv /\ BaselineRebuildable
  /\ [Next]_vars /\ EnvelopeInv'
  => MessageInv'
<1> SUFFICES ASSUME TypeOK, EnvelopeInv, RunInv, MessageInv, BaselineRebuildable,
                    [Next]_vars, EnvelopeInv', pc' \in {"drain", "send", "save"}, AllSent'
             PROVE  Known'[sent'[Scan'].base] /\ Rebuilt'[Scan'] = cur'
  BY DEF MessageInv
<1> USE DEF run, sending, durable, history
<1>0. /\ Scan \in Nat /\ Scan' \in Nat /\ Begins(sent, sent') /\ received \subseteq received'
      /\ Based(sent) /\ Based(sent')
  BY BasedIs, SentGrows DEF Based, Scan
<1>1. AllSent
  BY <1>0, AllSentBefore
<1>2. CASE Build
  <2> DEFINE n == Scan + 1
  <2>1. Scan' = n /\ n \in 1 .. Scan' /\ cur' = cur /\ cur \in Inventories
    BY <1>0, <1>2, BuildIs DEF Build, TypeOK
  <2>2. /\ Rebuilt'[n] = [e \in DOMAIN sent'[n].parts |->
                            Applied(Of(Rebuilt'[sent'[n].base], e), sent'[n].parts[e])]
        /\ Rebuilt'[0] = [e \in {} |-> NoRecords] /\ Known'[0]
    BY <1>0, <2>1, ServerNext
  <2>3. CASE sent'[n].base = Snapshot.base /\ sent'[n].parts = Snapshot.parts
    <3>1. sent'[n].base = 0 /\ sent'[n].parts = AsRecords(cur)
      BY <2>3 DEF Snapshot
    <3>2. Rebuilt'[n] = cur
      BY <2>1, <2>2, <3>1, SnapshotRestored
    <3> QED BY <2>1, <2>2, <3>1, <3>2
  <2>4. CASE /\ baseline # NoBaseline
             /\ sent'[n].base = DeltaMsg.base /\ sent'[n].parts = DeltaMsg.parts
    <3> DEFINE b == baseline.scan
    <3>1. sent'[n].base = b /\ sent'[n].parts = BuildDelta(cur, baseline.maps)
      BY <2>4 DEF DeltaMsg
    <3>2. b \in 0 .. Scan /\ baseline.maps \in Inventories
      BY <1>0, <2>4 DEF TypeOK
    <3>3. Known[b] /\ Rebuilt[b] = baseline.maps
      BY <1>1, <2>4 DEF BaselineRebuildable, AllSent
    <3>4. Rebuilt'[b] = baseline.maps /\ Known'[b]
      BY <1>0, <3>2, <3>3, ServerKeeps
    <3>5. Rebuilt'[n] = [e \in DOMAIN BuildDelta(cur, baseline.maps) |->
                           Applied(Of(baseline.maps, e), BuildDelta(cur, baseline.maps)[e])]
      BY <2>2, <3>1, <3>4
    <3>6. Rebuilt'[n] = cur
      BY <2>1, <3>2, <3>5, ScanRestored
    <3> QED BY <2>1, <3>1, <3>4, <3>6
  <2> QED BY <1>2, <2>3, <2>4, BuildIs
<1>3. CASE ~Build
  <2>1. /\ pc \in {"drain", "send", "save"} /\ cur' = cur /\ sent' = sent
    BY <1>3 DEF Next, vars, Collect, Trim, WithinBudget, DrainAnswered, DrainFailed, DrainEnds,
                ChunkAnswered, ChunkSpooled, SpoolFails, SendEnds, Save, Die, EndRun
  <2>2. Scan' = Scan /\ Scan \in 1 .. Scan /\ Scan \in 0 .. Scan /\ sent[Scan].base \in 0 .. Scan
    <3>1. Scan' = Scan /\ Scan \in 1 .. Scan /\ Scan \in 0 .. Scan
      BY <1>0, <2>1 DEF Scan, RunInv
    <3>2. sent[Scan].base \in 0 .. Scan - 1
      BY <3>1 DEF EnvelopeInv
    <3> QED BY <1>0, <3>1, <3>2
  <2>3. Known[sent[Scan].base] /\ Rebuilt[Scan] = cur
    BY <1>1, <2>1 DEF MessageInv
  <2>4. Known'[sent[Scan].base] /\ Rebuilt'[Scan] = Rebuilt[Scan]
    BY <1>0, <2>2, <2>3, ServerKeeps
  <2> QED BY <2>1, <2>2, <2>3, <2>4
<1> QED BY <1>2, <1>3

LEMMA BaselineStep ==
  /\ TypeOK /\ EnvelopeInv /\ RunInv /\ MessageInv /\ SendInv /\ BaselineRebuildable
  /\ [Next]_vars /\ EnvelopeInv'
  => BaselineRebuildable'
<1> SUFFICES ASSUME TypeOK, EnvelopeInv, RunInv, MessageInv, SendInv, BaselineRebuildable,
                    [Next]_vars, EnvelopeInv', baseline' # NoBaseline, AllSent'
             PROVE  /\ Known'[baseline'.scan]
                    /\ Rebuilt'[baseline'.scan] = seen'[baseline'.scan]
                    /\ baseline'.maps = seen'[baseline'.scan]
  BY DEF BaselineRebuildable, AllSent
<1> USE DEF run, sending, durable, history
<1>0. /\ Scan \in Nat /\ Scan' \in Nat /\ Begins(sent, sent') /\ received \subseteq received'
      /\ Based(sent) /\ Based(sent')
  BY BasedIs, SentGrows DEF Based, Scan
<1>1. AllSent
  BY <1>0, AllSentBefore
<1>2. CASE baseline' = baseline
  <2> DEFINE b == baseline.scan
  <2>1. b \in 1 .. Scan /\ b \in 0 .. Scan
    BY <1>0, <1>2 DEF TypeOK
  <2>2. Known[b] /\ Rebuilt[b] = seen[b] /\ baseline.maps = seen[b]
    BY <1>1, <1>2 DEF BaselineRebuildable, AllSent
  <2>3. Rebuilt'[b] = Rebuilt[b] /\ Known'[b]
    BY <1>0, <2>1, <2>2, ServerKeeps
  <2>4. seen'[b] = seen[b]
    BY <2>1, SeenKept
  <2> QED BY <1>2, <2>2, <2>3, <2>4
<1>3. CASE baseline' # baseline
  <2>1. /\ pc = "save" /\ ~failed /\ ~trimmed /\ baseline' = [scan |-> Scan, maps |-> cur]
        /\ UNCHANGED <<sent, received, seen>>
    BY <1>3 DEF Next, vars, Collect, Trim, WithinBudget, Build, DrainAnswered, DrainFailed, DrainEnds,
                ChunkAnswered, ChunkSpooled, SpoolFails, SendEnds, Save, Die
  <2>2. Scan' = Scan /\ Scan \in 1 .. Scan /\ Scan \in 0 .. Scan /\ cur = seen[Scan]
    BY <1>0, <2>1 DEF Scan, RunInv
  <2>3. Known[sent[Scan].base] /\ Rebuilt[Scan] = cur
    BY <1>1, <2>1 DEF MessageInv
  <2>4. Chunks(Scan) \subseteq received
    <3>1. ~dry
      <4>1. ~sent[Scan].dry
        BY <1>1, <2>2 DEF AllSent
      <4>2. sent[Scan].dry = dry
        BY <2>1 DEF RunInv
      <4> QED BY <4>1, <4>2
    <3> QED BY <2>1, <3>1 DEF SendInv
  <2>5. sent[Scan].base \in 0 .. Scan
    <3>1. sent[Scan].base \in 0 .. Scan - 1
      BY <2>2 DEF EnvelopeInv
    <3> QED BY <1>0, <3>1
  <2>6. Known'[sent[Scan].base] /\ Rebuilt'[Scan] = Rebuilt[Scan]
    BY <1>0, <2>2, <2>3, <2>5, ServerKeeps
  <2>7. Known'[Scan]
    <3> DEFINE n == Scan'
    <3>1. /\ n \in 1 .. Scan' /\ Known'[sent'[n].base]
          /\ {[scan |-> n, index |-> i] : i \in DOMAIN sent'[n].groups} \subseteq received'
      BY <2>1, <2>2, <2>4, <2>6 DEF Chunks
    <3> HIDE DEF n
    <3>2. Known'[n]
      BY <1>0, <3>1, ServerNext DEF Chunks
    <3> QED BY <2>2, <3>2 DEF n
  <2> QED BY <2>1, <2>2, <2>3, <2>6, <2>7
<1> QED BY <1>2, <1>3

-----------------------------------------------------------------------------
(* The theorems.                                                            *)

LEMMA InitInventoryInv == Init => InventoryInv
<1> SUFFICES ASSUME Init PROVE InventoryInv
  OBVIOUS
<1>1. Len(<<>>) = 0 /\ <<>> \in Seq({}) /\ 1 .. 0 = {}
  OBVIOUS
<1>2. Scan = 0 /\ sent = <<>> /\ seen = <<>>
  BY <1>1 DEF Init, Scan
<1>3. Cardinality(Entities) \in Nat
  BY InventoryAssumption, FS_CardinalityType
<1>4. TypeOK
  <2>1. RunTypes /\ NextTypes
    BY <1>3, NoRecordsIs DEF Init, RunTypes, NextTypes
  <2>2. Flags
    <3>1. 0 \in 0 .. MaxRounds
      BY InventoryAssumption
    <3> QED BY <3>1 DEF Init, Flags
  <2>3. ChunkTypes /\ FileTypes
    BY DEF Init, ChunkTypes, FileTypes
  <2>4. SeqTypes
    BY <1>1, <1>2, InventoryAssumption DEF Init, SeqTypes
  <2> QED BY <2>1, <2>2, <2>3, <2>4, TypeParts
<1>5. EnvelopeInv
  BY <1>1, <1>2 DEF EnvelopeInv, IsSeq
<1>6. RunInv /\ MessageInv /\ SendInv /\ ChunksKept /\ BaselineRebuildable
  BY <1>2, InventoryAssumption DEF Init, RunInv, MessageInv, SendInv, ChunksKept, BaselineRebuildable
<1> QED BY <1>4, <1>5, <1>6 DEF InventoryInv

\* Every run, with its envelope, its chunks and the baseline, fits what the
\* server has.
THEOREM InventoryInvariance == Spec => []InventoryInv
<1>1. InventoryInv /\ [Next]_vars => InventoryInv'
  BY TypeStep, EnvelopeStep, RunStep, MessageStep, SendStep, KeptStep, BaselineStep, Zenon
     DEF InventoryInv
<1> QED BY <1>1, InitInventoryInv, PTL DEF Spec

\* Every variable of an inventory run keeps its type.
THEOREM InventoryTypeCorrect == Spec => []TypeOK
<1>1. InventoryInv => TypeOK
  BY DEF InventoryInv
<1> QED BY <1>1, InventoryInvariance, PTL

\* A run that ended without an error has left no chunk behind: however many
\* runs, answers, replays, half written files and kills came after it
\* (ingest.go, Send and drain; run.go).
THEOREM FinishedChunksKept == Spec => []ChunksKept
<1>1. InventoryInv => ChunksKept
  BY DEF InventoryInv
<1> QED BY <1>1, InventoryInvariance, PTL

\* Where nothing was a dry run, the state file names a scan that the server can
\* rebuild through all its bases to what was collected: no chain of deltas,
\* however long, loses a record (run.go, state.go BuildDelta).
THEOREM BaselineIsRebuildable == Spec => []BaselineRebuildable
<1>1. InventoryInv => BaselineRebuildable
  BY DEF InventoryInv
<1> QED BY <1>1, InventoryInvariance, PTL
===============================================================================
