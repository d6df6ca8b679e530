------------------------------ MODULE DataLemmas ------------------------------
(***************************************************************************)
(* Lemmas about numbers and sequences on which the proofs about the        *)
(* components rest: induction, stated of a set of numbers so that it can   *)
(* be used wherever a set comprehension can name what is proved, and the   *)
(* flattening of a sequence of sequences.                                  *)
(***************************************************************************)
EXTENDS SequencesExt, SequenceTheorems, WellFoundedInduction, TLAPS

\* Induction: a set that has zero, and the successor of each number it has,
\* has every number.
LEMMA SetInduction ==
  ASSUME NEW S, 0 \in S, \A n \in Nat : n \in S => n + 1 \in S
  PROVE  Nat \subseteq S
<1> DEFINE T == Nat \ S
           R == OpToRel(<, Nat)
<1>1. SUFFICES ASSUME T # {} PROVE FALSE
  OBVIOUS
<1>2. PICK x \in T : \A y \in T : ~ (<<y, x>> \in R)
  <2>1. IsWellFoundedOn(R, Nat)
    BY NatLessThanWellFounded
  <2> HIDE DEF R
  <2> QED BY <1>1, <2>1, WFMin
<1>3. x \in Nat \ {0} /\ x - 1 \in Nat /\ x = (x - 1) + 1
  OBVIOUS
<1>4. x - 1 \in T
  <2> SUFFICES ASSUME x - 1 \in S PROVE FALSE
    BY <1>3
  <2> QED BY <1>3
<1>5. <<x - 1, x>> \in R
  BY <1>3 DEF OpToRel
<1> QED BY <1>2, <1>4, <1>5

-----------------------------------------------------------------------------
(* Flattening.                                                              *)

\* The equation of FlattenSeq's recursive function.
Flattens(f, seqs) ==
    f = [i \in 1 .. Len(seqs) |-> IF i = 1 THEN seqs[i] ELSE f[i - 1] \o seqs[i]]

\* The equation has a solution, whose values are sequences.
LEMMA FlattensExists ==
  ASSUME NEW T, NEW seqs \in Seq(Seq(T))
  PROVE  \E f \in [1 .. Len(seqs) -> Seq(T)] : Flattens(f, seqs)
<1> DEFINE Eq(f, i) == f[i] = IF i = 1 THEN seqs[i] ELSE f[i - 1] \o seqs[i]
           P(n) == \E f \in [1 .. n -> Seq(T)] : \A i \in 1 .. n : Eq(f, i)
           S == {n \in Nat : n <= Len(seqs) => P(n)}
<1>1. P(0)
  <2>1. [i \in 1 .. 0 |-> <<>>] \in [1 .. 0 -> Seq(T)]
    OBVIOUS
  <2>2. \A i \in 1 .. 0 : FALSE
    OBVIOUS
  <2> QED BY <2>1, <2>2, Zenon
<1>2. ASSUME NEW n \in Nat, P(n), n + 1 <= Len(seqs) PROVE P(n + 1)
  <2>1. PICK f \in [1 .. n -> Seq(T)] : \A i \in 1 .. n : Eq(f, i)
    BY <1>2, Zenon
  <2> DEFINE x == IF n + 1 = 1 THEN seqs[n + 1] ELSE f[n] \o seqs[n + 1]
             g == [i \in 1 .. n + 1 |-> IF i = n + 1 THEN x ELSE f[i]]
  <2>2. x \in Seq(T)
    <3>1. seqs[n + 1] \in Seq(T)
      BY <1>2, ElementOfSeq
    <3> QED BY <3>1, ConcatProperties
  <2>3. g \in [1 .. n + 1 -> Seq(T)]
    BY <2>2
  <2>4. \A i \in 1 .. n + 1 : Eq(g, i)
    <3> SUFFICES ASSUME NEW i \in 1 .. n + 1 PROVE Eq(g, i)
      OBVIOUS
    <3>1. CASE i = n + 1
      BY <3>1
    <3>2. CASE i # n + 1
      <4>1. i \in 1 .. n /\ g[i] = f[i] /\ (i # 1 => g[i - 1] = f[i - 1])
        BY <3>2
      <4> HIDE DEF g
      <4> QED BY <2>1, <4>1
    <3> QED BY <3>1, <3>2
  <2> HIDE DEF g
  <2> QED BY <2>3, <2>4, Zenon
<1>3. P(Len(seqs))
  <2> HIDE DEF P
  <2>1. Nat \subseteq S
    <3>1. 0 \in S
      BY <1>1
    <3>2. \A n \in Nat : n \in S => n + 1 \in S
      BY <1>2, LenProperties
    <3> HIDE DEF S
    <3> QED BY <3>1, <3>2, SetInduction
  <2> QED BY <2>1, LenProperties
<1>4. PICK f \in [1 .. Len(seqs) -> Seq(T)] : \A i \in 1 .. Len(seqs) : Eq(f, i)
  BY <1>3, Zenon
<1>5. Flattens(f, seqs)
  BY <1>4 DEF Flattens
<1> QED BY <1>5

\* Two solutions agree as far as their sequences do.
LEMMA FlattensUnique ==
  ASSUME NEW s, NEW t, NEW f, NEW g, Flattens(f, s), Flattens(g, t),
         Len(s) \in Nat, Len(t) \in Nat, Len(s) <= Len(t),
         \A i \in 1 .. Len(s) : s[i] = t[i]
  PROVE  \A i \in 1 .. Len(s) : f[i] = g[i]
<1> DEFINE S == {n \in Nat : n \in 1 .. Len(s) => f[n] = g[n]}
<1>1. 0 \in S
  OBVIOUS
<1>2. ASSUME NEW n \in Nat, n \in S PROVE n + 1 \in S
  <2> SUFFICES ASSUME n + 1 \in 1 .. Len(s) PROVE f[n + 1] = g[n + 1]
    OBVIOUS
  <2>1. /\ f[n + 1] = IF n + 1 = 1 THEN s[n + 1] ELSE f[n] \o s[n + 1]
        /\ g[n + 1] = IF n + 1 = 1 THEN t[n + 1] ELSE g[n] \o t[n + 1]
    <3>1. n + 1 \in 1 .. Len(t) /\ (n + 1) - 1 = n
      OBVIOUS
    <3> DEFINE i == n + 1
    <3>2. i \in 1 .. Len(s) /\ i \in 1 .. Len(t) /\ i - 1 = n
      BY <3>1
    <3> HIDE DEF i
    <3>3. f[i] = IF i = 1 THEN s[i] ELSE f[i - 1] \o s[i]
      BY <3>2, Zenon DEF Flattens
    <3>4. g[i] = IF i = 1 THEN t[i] ELSE g[i - 1] \o t[i]
      BY <3>2, Zenon DEF Flattens
    <3> QED BY <3>2, <3>3, <3>4, Zenon DEF i
  <2>2. s[n + 1] = t[n + 1]
    OBVIOUS
  <2>3. CASE n = 0
    BY <2>1, <2>2, <2>3
  <2>4. CASE n # 0
    <3>1. n \in 1 .. Len(s)
      BY <2>4
    <3>2. f[n] = g[n]
      BY <1>2, <3>1
    <3>3. n + 1 # 1
      BY <2>4
    <3> QED BY <2>1, <2>2, <3>2, <3>3, Zenon
  <2> QED BY <2>3, <2>4
<1>3. Nat \subseteq S
  <2> HIDE DEF S
  <2> QED BY <1>1, <1>2, SetInduction
<1> QED BY <1>3

LEMMA FlattensAgree ==
  ASSUME NEW s, NEW f, NEW g, Flattens(f, s), Flattens(g, s), Len(s) \in Nat
  PROVE  f = g
<1>1. Len(s) <= Len(s) /\ \A i \in 1 .. Len(s) : s[i] = s[i]
  OBVIOUS
<1>2. \A i \in 1 .. Len(s) : f[i] = g[i]
  BY ONLY <1>1, Flattens(f, s), Flattens(g, s), Len(s) \in Nat, FlattensUnique
<1>3. f = [i \in 1 .. Len(s) |-> f[i]]
  BY Zenon DEF Flattens
<1>4. g = [i \in 1 .. Len(s) |-> g[i]]
  BY Zenon DEF Flattens
<1> QED BY ONLY <1>2, <1>3, <1>4

\* What FlattenSeq gives for a sequence that is not empty.
LEMMA FlattenSeqIs ==
  ASSUME NEW T, NEW seqs \in Seq(Seq(T)), seqs # <<>>
  PROVE  \E f \in [1 .. Len(seqs) -> Seq(T)] :
            Flattens(f, seqs) /\ FlattenSeq(seqs) = f[Len(seqs)]
<1> DEFINE h == CHOOSE f : Flattens(f, seqs)
<1>1. PICK f \in [1 .. Len(seqs) -> Seq(T)] : Flattens(f, seqs)
  BY FlattensExists
<1>2. Flattens(h, seqs)
  BY <1>1, Zenon
<1>3. Len(seqs) \in Nat \ {0}
  BY EmptySeq
<1>4. h = f
  <2>1. Len(seqs) \in Nat
    BY <1>3
  <2> HIDE DEF h
  <2> QED BY <1>1, <1>2, <2>1, FlattensAgree, Zenon
<1>5. FlattenSeq(seqs) = h[Len(seqs)]
  BY <1>3, Zenon DEF FlattenSeq, Flattens
<1> QED BY <1>1, <1>4, <1>5

\* Nothing flattens to nothing; sequences of sequences of T to one of T.
LEMMA FlattenEmpty == FlattenSeq(<<>>) = <<>>
BY DEF FlattenSeq

LEMMA FlattenType ==
  ASSUME NEW T, NEW seqs \in Seq(Seq(T))
  PROVE  FlattenSeq(seqs) \in Seq(T)
<1>1. CASE seqs = <<>>
  BY <1>1, FlattenEmpty, EmptySeq
<1>2. CASE seqs # <<>>
  <2>1. PICK f \in [1 .. Len(seqs) -> Seq(T)] : FlattenSeq(seqs) = f[Len(seqs)]
    BY <1>2, FlattenSeqIs
  <2>2. Len(seqs) \in 1 .. Len(seqs)
    BY <1>2, EmptySeq
  <2> QED BY <2>1, <2>2
<1> QED BY <1>1, <1>2

\* What is appended comes last.
LEMMA FlattenAppend ==
  ASSUME NEW T, NEW seqs \in Seq(Seq(T)), NEW x \in Seq(T)
  PROVE  FlattenSeq(Append(seqs, x)) = FlattenSeq(seqs) \o x
<1> DEFINE t == Append(seqs, x)
           n == Len(seqs)
<1>1. /\ t \in Seq(Seq(T)) /\ t # <<>> /\ Len(t) = n + 1 /\ t[n + 1] = x
      /\ \A i \in 1 .. n : t[i] = seqs[i]
  BY AppendProperties
<1>2. n \in Nat
  BY LenProperties
<1> HIDE DEF t
<1>3. PICK g \in [1 .. n + 1 -> Seq(T)] : Flattens(g, t) /\ FlattenSeq(t) = g[n + 1]
  <2>1. PICK g \in [1 .. Len(t) -> Seq(T)] : Flattens(g, t) /\ FlattenSeq(t) = g[Len(t)]
    BY <1>1, FlattenSeqIs
  <2> QED BY <1>1, <2>1
<1>4. g[n + 1] = IF n + 1 = 1 THEN x ELSE g[n] \o x
  <2>1. n + 1 \in 1 .. Len(t) /\ (n + 1) - 1 = n
    BY <1>1, <1>2
  <2>2. g[n + 1] = IF n + 1 = 1 THEN t[n + 1] ELSE g[(n + 1) - 1] \o t[n + 1]
    BY <1>3, <2>1, Zenon DEF Flattens
  <2> QED BY <1>1, <2>1, <2>2
<1>5. CASE seqs = <<>>
  <2>1. n = 0 /\ FlattenSeq(seqs) = <<>>
    BY <1>5, FlattenEmpty, EmptySeq
  <2> QED BY <1>3, <1>4, <2>1, ConcatEmptySeq DEF t
<1>6. CASE seqs # <<>>
  <2>1. PICK f \in [1 .. n -> Seq(T)] : Flattens(f, seqs) /\ FlattenSeq(seqs) = f[n]
    BY <1>6, FlattenSeqIs
  <2>2. n \in 1 .. n /\ n + 1 # 1
    BY <1>6, EmptySeq
  <2>3. f[n] = g[n]
    <3>1. /\ Len(seqs) \in Nat /\ Len(t) \in Nat /\ Len(seqs) <= Len(t)
          /\ \A i \in 1 .. Len(seqs) : seqs[i] = t[i]
      BY <1>1, <1>2
    <3> DEFINE u == seqs
    <3>2. \A i \in 1 .. Len(u) : f[i] = g[i]
      <4>1. /\ Len(u) \in Nat /\ Len(t) \in Nat /\ Len(u) <= Len(t)
            /\ \A i \in 1 .. Len(u) : u[i] = t[i]
            /\ Flattens(f, u) /\ Flattens(g, t)
        BY <1>3, <2>1, <3>1
      <4> HIDE DEF u
      <4> QED BY <4>1, FlattensUnique
    <3> QED BY <2>2, <3>2
  <2> QED BY <1>3, <1>4, <2>1, <2>2, <2>3 DEF t
<1> QED BY <1>5, <1>6
=============================================================================
