------------------------------- MODULE FoldRun -------------------------------
(***************************************************************************)
(* What FoldLeft computes: for any operator there is a run over the        *)
(* sequence, from the first element to the last, that ends with its        *)
(* result.  A module that folds with an operator of its own instantiates   *)
(* this one with that operator.                                            *)
(***************************************************************************)
EXTENDS Integers, SequencesExt, NaturalsInduction, WellFoundedInduction, TLAPS

CONSTANT Op(_, _)

\* A run: the state before the first element, and after each one.
Run(f, base, seq) ==
    /\ f[0] = base
    /\ \A i \in 1 .. Len(seq) : f[i] = Op(f[i - 1], seq[i])

\* Induction up to a bound, for a set of numbers.
LEMMA UpTo ==
    ASSUME NEW n \in Nat, NEW S, 0 \in S,
           \A i \in 1 .. n : i - 1 \in S => i \in S
    PROVE  \A i \in 0 .. n : i \in S
<1> DEFINE T == (0 .. n) \ S
           R == {p \in Nat \X Nat : p[1] < p[2]}
<1> SUFFICES ASSUME T # {} PROVE FALSE
  OBVIOUS
<1>0. IsWellFoundedOn(R, Nat)
  BY NatLessThanWellFounded DEF OpToRel
<1>1. PICK m \in T : \A y \in T : ~(<<y, m>> \in R)
  <2> T \subseteq Nat
    OBVIOUS
  <2> HIDE DEF T, R
  <2> QED BY <1>0, WFMin
<1>2. m \in 1 .. n
  OBVIOUS
<1>3. m - 1 \notin T
  <2>1. m - 1 \in Nat /\ m \in Nat /\ m - 1 < m
    BY <1>2
  <2>2. <<m - 1, m>> \in R
    BY <2>1
  <2> QED BY <1>1, <2>2
<1>4. m - 1 \in 0 .. n
  BY <1>2
<1> QED
  BY <1>2, <1>3, <1>4

\* The largest of some places is one of them, and none is larger.
LEMMA MaxOfPlaces ==
    ASSUME NEW k \in Nat, NEW s \in SUBSET (1 .. k), s # {}
    PROVE  Max(s) \in s /\ \A i \in s : i =< Max(s)
<1> DEFINE S == {n \in Nat : \A t \in SUBSET (1 .. n) :
                     t # {} => \E x \in t : \A y \in t : x >= y}
<1>1. 0 \in S
  <2>1. 1 .. 0 = {}
    OBVIOUS
  <2> QED
    BY <2>1
<1>2. ASSUME NEW i \in 1 .. k, i - 1 \in S PROVE i \in S
  <2> SUFFICES ASSUME NEW t \in SUBSET (1 .. i), t # {}
               PROVE  \E x \in t : \A y \in t : x >= y
    OBVIOUS
  <2>1. CASE i \in t
    BY <2>1
  <2>2. CASE i \notin t
    <3>1. t \in SUBSET (1 .. (i - 1))
      BY <2>2
    <3> QED
      BY <1>2, <3>1
  <2> QED
    BY <2>1, <2>2
<1>3. k \in S
  <2> HIDE DEF S
  <2> QED
    BY <1>1, <1>2, UpTo
<1> QED
  BY <1>3 DEF Max

\* The function that FoldLeft is computed with, over the sets of places up to k.
Folding(g, base, seq, k) ==
    g = [s \in SUBSET (1 .. k) |->
            IF s = {} THEN base
            ELSE Op(g[s \ {Max(s)}], seq[Max(s)])]

\* There is such a function, for sequences of any length.
LEMMA FoldingExists ==
    ASSUME NEW base, NEW seq, NEW n \in Nat
    PROVE  \E g : Folding(g, base, seq, n)
<1> DEFINE S == {k \in Nat : \E g : Folding(g, base, seq, k)}
<1>1. 0 \in S
  <2> DEFINE g == [s \in SUBSET (1 .. 0) |-> base]
  <2>1. \A s \in SUBSET (1 .. 0) : s = {}
    OBVIOUS
  <2>2. Folding(g, base, seq, 0)
    BY <2>1 DEF Folding
  <2> QED
    BY <2>2
<1>2. ASSUME NEW k \in 1 .. n, k - 1 \in S PROVE k \in S
  <2>1. PICK h : Folding(h, base, seq, k - 1)
    BY <1>2
  <2> DEFINE g == [s \in SUBSET (1 .. k) |->
                      IF k \in s THEN Op(h[s \ {k}], seq[k]) ELSE h[s]]
  <2>2. ASSUME NEW s \in SUBSET (1 .. k)
        PROVE  g[s] = IF s = {} THEN base
                      ELSE Op(g[s \ {Max(s)}], seq[Max(s)])
    <3>1. CASE k \in s
      <4>1. Max(s) = k
        <5>1. s # {} /\ k \in Nat
          BY <3>1
        <5>2. Max(s) \in s /\ \A i \in s : i =< Max(s)
          BY <5>1, MaxOfPlaces
        <5>3. Max(s) \in 1 .. k
          BY <5>2
        <5> QED
          BY <3>1, <5>2, <5>3
      <4>2. s \ {k} \in SUBSET (1 .. k)
        OBVIOUS
      <4> QED
        BY <3>1, <4>1, <4>2
    <3>2. CASE k \notin s
      <4>1. s \in SUBSET (1 .. (k - 1))
        BY <3>2
      <4>2. g[s] = h[s]
        BY <3>2
      <4>3. g[s \ {Max(s)}] = h[s \ {Max(s)}]
        BY <3>2
      <4> HIDE DEF g
      <4> QED
        BY <2>1, <4>1, <4>2, <4>3 DEF Folding
    <3> QED
      BY <3>1, <3>2
  <2>3. Folding(g, base, seq, k)
    BY <2>2 DEF Folding
  <2> QED
    BY <2>3
<1> QED
  <2> HIDE DEF S
  <2>1. n \in S
    BY <1>1, <1>2, UpTo
  <2> QED
    BY <2>1 DEF S

\* FoldLeft, with which the model writes NewServerConfig, DecodeObject and
\* DecodeDetails, returns what some run over the sequence ends with.
THEOREM FoldLeftRuns ==
    ASSUME NEW base, NEW seq, Len(seq) \in Nat, DOMAIN seq = 1 .. Len(seq)
    PROVE  \E f : Run(f, base, seq) /\ FoldLeft(Op, base, seq) = f[Len(seq)]
<1> DEFINE n == Len(seq)
           g == CHOOSE h : Folding(h, base, seq, n)
<1>1. Folding(g, base, seq, n)
  BY FoldingExists
<1>2. FoldLeft(Op, base, seq) = g[1 .. n]
  BY DEF FoldLeft, MapThenFoldSet, Folding
<1> HIDE DEF g
<1>3. g[{}] = base
  BY <1>1 DEF Folding
<1>4. ASSUME NEW i \in 1 .. n PROVE g[1 .. i] = Op(g[1 .. (i - 1)], seq[i])
  <2>1. 1 .. i \in SUBSET (1 .. n)
    BY i =< n
  <2>2. 1 .. i # {} /\ i \in 1 .. i
    <3>1. i \in Nat /\ 1 =< i
      BY i \in 1 .. n
    <3> QED
      BY <3>1
  <2>3. Max(1 .. i) = i
    <3>1. Max(1 .. i) \in 1 .. i /\ \A j \in 1 .. i : j =< Max(1 .. i)
      BY <2>1, <2>2, MaxOfPlaces
    <3> QED
      BY <2>2, <3>1
  <2>4. (1 .. i) \ {i} = 1 .. (i - 1)
    OBVIOUS
  <2> QED
    BY <1>1, <2>1, <2>2, <2>3, <2>4 DEF Folding
<1> DEFINE f == [i \in 0 .. n |-> g[1 .. i]]
<1>5. f[0] = base /\ f[n] = g[1 .. n]
  BY <1>3, 1 .. 0 = {}
<1>6. \A i \in 1 .. n : f[i] = Op(f[i - 1], seq[i])
  BY <1>4
<1> HIDE DEF f
<1> QED
  BY <1>2, <1>5, <1>6 DEF Run
=============================================================================
