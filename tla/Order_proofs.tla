---------------------------- MODULE Order_proofs ----------------------------
(***************************************************************************)
(* Least and greatest elements of sets of numbers, for the proofs about    *)
(* the latest of several records and the last of several places; and what  *)
(* follows from them: induction up to a number, stated with a set instead  *)
(* of a predicate, and the existence of folds.                             *)
(***************************************************************************)
EXTENDS Naturals, FiniteSetsExt, WellFoundedInduction, TLAPS

(* A set of naturals that is not empty has a least element.                *)
LEMMA HasLeast ==
  ASSUME NEW T \in SUBSET Nat, T # {}
  PROVE  \E x \in T : \A y \in T : x <= y
<1> DEFINE R == {ss \in Nat \X Nat : ss[1] < ss[2]}
<1>1. IsWellFoundedOn(R, Nat)
  BY NatLessThanWellFounded DEF OpToRel
<1>2. PICK x \in T : \A y \in T : ~(<<y, x>> \in R)
  <2> HIDE DEF R
  <2>1. QED
    BY <1>1, WFMin
<1>3. ASSUME NEW y \in T
      PROVE  x <= y
  <2>1. x \in Nat /\ y \in Nat
    OBVIOUS
  <2>2. ~(y < x)
    BY <1>2, <2>1
  <2>3. QED
    BY <2>1, <2>2
<1>4. QED
  BY <1>3

(* A set of places of a sequence has a last one.                           *)
LEMMA HasGreatest ==
  ASSUME NEW n \in Nat, NEW T \in SUBSET (1..n), T # {}
  PROVE  \E x \in T : \A y \in T : y <= x
<1> DEFINE R == {ss \in Nat \X Nat : ss[1] < ss[2]}
           D == {n - x : x \in T}
<1>1. IsWellFoundedOn(R, Nat)
  BY NatLessThanWellFounded DEF OpToRel
<1>2. D \subseteq Nat /\ D # {}
  <2>1. \A x \in T : n - x \in Nat
    OBVIOUS
  <2>2. PICK x \in T : TRUE
    OBVIOUS
  <2>3. n - x \in D
    OBVIOUS
  <2>4. QED
    BY <2>1, <2>3
<1>3. PICK d \in D : \A e \in D : ~(<<e, d>> \in R)
  <2> HIDE DEF R, D
  <2>1. QED
    BY <1>1, <1>2, WFMin
<1>4. PICK x \in T : d = n - x
  OBVIOUS
<1>5. ASSUME NEW y \in T
      PROVE  y <= x
  <2>1. n - y \in D /\ n - y \in Nat /\ d \in Nat
    BY <1>2
  <2>2. ~(n - y < d)
    BY <1>3, <2>1
  <2>3. QED
    BY <1>4, <2>1, <2>2
<1>6. QED
  BY <1>5

(* Induction: what a step up to n keeps, from 0 on, holds of all up to n.  *)
LEMMA UpTo ==
  ASSUME NEW n \in Nat, NEW T, 0 \in T, \A k \in 0..n - 1 : k \in T => k + 1 \in T
  PROVE  \A k \in 0..n : k \in T
<1> DEFINE Bad == {k \in 0..n : k \notin T}
<1>1. SUFFICES ASSUME Bad # {} PROVE FALSE
  OBVIOUS
<1>2. PICK k \in Bad : \A j \in Bad : k <= j
  <2>1. Bad \in SUBSET Nat
    OBVIOUS
  <2>2. QED
    BY <1>1, <2>1, HasLeast
<1>3. k # 0 /\ k \in 0..n /\ k \notin T
  BY <1>2
<1>4. k - 1 \in 0..n - 1 /\ k - 1 \in 0..n /\ (k - 1) + 1 = k
  BY <1>3
<1>5. k - 1 \in T
  BY <1>2, <1>4
<1>6. QED
  BY <1>3, <1>4, <1>5

(* The greatest element of a set of places.                                *)
LEMMA MaxIn ==
  ASSUME NEW n \in Nat, NEW S \in SUBSET (1..n), S # {}
  PROVE  Max(S) \in S
<1>1. PICK x \in S : \A y \in S : y <= x
  BY HasGreatest
<1>2. \A y \in S : x >= y
  BY <1>1
<1>3. QED
  BY <1>2 DEF Max

LEMMA MaxUpTo ==
  ASSUME NEW k \in Nat \ {0}
  PROVE  Max(1..k) = k /\ (1..k) \ {k} = 1..k - 1
<1>1. \A x \in 1..k : (\A y \in 1..k : x >= y) => x = k
  <2>1. k \in 1..k
    OBVIOUS
  <2>2. QED
    BY <2>1
<1>2. k \in 1..k /\ \A y \in 1..k : k >= y
  OBVIOUS
<1>3. Max(1..k) = k
  BY <1>1, <1>2 DEF Max
<1>4. QED
  BY <1>3

\* h takes a set of places to what g makes of b, place by place.
IsFold(h, g, b, n) ==
  /\ h[{}] = b
  /\ \A S \in SUBSET (1..n) : S # {} => h[S] = g[<<h[S \ {Max(S)}], Max(S)>>]

(* One more place.                                                         *)
LEMMA FoldOneMore ==
  ASSUME NEW n \in Nat, NEW D, NEW b \in D, NEW g \in [D \X (1..n) -> D],
         NEW k \in 0..n - 1, NEW f \in [SUBSET (1..k) -> D], IsFold(f, g, b, k)
  PROVE  \E h \in [SUBSET (1..k + 1) -> D] : IsFold(h, g, b, k + 1)
<1> DEFINE h == [S \in SUBSET (1..k + 1) |->
                   IF k + 1 \in S THEN g[<<f[S \ {k + 1}], k + 1>>] ELSE f[S]]
<1>1. \A S \in SUBSET (1..k + 1) :
        S \ {k + 1} \in SUBSET (1..k) /\ S \ {k + 1} \in SUBSET (1..k + 1)
  OBVIOUS
<1>2. k + 1 \in 1..n /\ k + 1 \notin 1..k
  OBVIOUS
<1>3. h \in [SUBSET (1..k + 1) -> D]
  <2>1. ASSUME NEW S \in SUBSET (1..k + 1)
        PROVE  (IF k + 1 \in S THEN g[<<f[S \ {k + 1}], k + 1>>] ELSE f[S]) \in D
    <3>1. CASE k + 1 \in S
      <4>1. f[S \ {k + 1}] \in D
        BY <1>1
      <4>2. <<f[S \ {k + 1}], k + 1>> \in D \X (1..n)
        BY <4>1, <1>2
      <4>3. g[<<f[S \ {k + 1}], k + 1>>] \in D
        BY <4>2, Zenon
      <4>4. QED
        BY <4>3, <3>1
    <3>2. CASE k + 1 \notin S
      <4>1. S \in SUBSET (1..k)
        BY <1>1, <3>2
      <4>2. QED
        BY <4>1, <3>2
    <3>3. QED
      BY <3>1, <3>2
  <2>2. QED
    BY <2>1, Zenon
<1>4. h[{}] = b
  <2>1. f[{}] = b
    BY DEF IsFold
  <2>2. {} \in SUBSET (1..k + 1)
    OBVIOUS
  <2>3. QED
    BY <2>1, <2>2
<1>5. ASSUME NEW S \in SUBSET (1..k + 1), S # {}
      PROVE  h[S] = g[<<h[S \ {Max(S)}], Max(S)>>]
  <2>1. CASE k + 1 \in S
    <3>1. Max(S) = k + 1
      <4>1. k + 1 \in S /\ \A y \in S : k + 1 >= y
        BY <2>1
      <4>2. \A x \in S : (\A y \in S : x >= y) => x = k + 1
        BY <2>1
      <4>3. QED
        BY <4>1, <4>2 DEF Max
    <3>2. h[S \ {k + 1}] = f[S \ {k + 1}]
      BY <1>1
    <3>3. h[S] = g[<<f[S \ {k + 1}], k + 1>>]
      BY <2>1
    <3>4. QED
      BY <3>1, <3>2, <3>3
  <2>2. CASE k + 1 \notin S
    <3>1. S \in SUBSET (1..k) /\ S \ {Max(S)} \in SUBSET (1..k + 1)
      BY <1>1, <2>2
    <3>2. h[S] = f[S] /\ h[S \ {Max(S)}] = f[S \ {Max(S)}]
      BY <3>1, <2>2
    <3>3. f[S] = g[<<f[S \ {Max(S)}], Max(S)>>]
      BY <3>1, <1>5 DEF IsFold
    <3>4. QED
      BY <3>2, <3>3
  <2>3. QED
    BY <2>1, <2>2
<1> HIDE DEF h
<1>6. IsFold(h, g, b, k + 1)
  BY <1>4, <1>5 DEF IsFold
<1>7. QED
  BY <1>3, <1>6

(* A fold exists, so that the choice in the definition of FoldLeft is one. *)
LEMMA FoldExists ==
  ASSUME NEW n \in Nat, NEW D, NEW b \in D, NEW g \in [D \X (1..n) -> D]
  PROVE  \E h \in [SUBSET (1..n) -> D] : IsFold(h, g, b, n)
<1> DEFINE T == {k \in 0..n : \E h \in [SUBSET (1..k) -> D] : IsFold(h, g, b, k)}
<1>1. 0 \in T
  <2> DEFINE h == [S \in SUBSET (1..0) |-> b]
  <2>1. SUBSET (1..0) = {{}}
    OBVIOUS
  <2>2. h \in [SUBSET (1..0) -> D] /\ IsFold(h, g, b, 0)
    BY <2>1 DEF IsFold
  <2> HIDE DEF h
  <2>3. 0 \in 0..n /\ \E q \in [SUBSET (1..0) -> D] : IsFold(q, g, b, 0)
    BY <2>2
  <2>4. QED
    BY <2>3
<1>2. ASSUME NEW k \in 0..n - 1, k \in T
      PROVE  k + 1 \in T
  <2>1. PICK f \in [SUBSET (1..k) -> D] : IsFold(f, g, b, k)
    BY <1>2
  <2>2. \E h \in [SUBSET (1..k + 1) -> D] : IsFold(h, g, b, k + 1)
    BY <2>1, FoldOneMore
  <2>3. QED
    BY <2>2
<1>3. n \in T
  <2> HIDE DEF T
  <2>1. \A k \in 0..n : k \in T
    BY <1>1, <1>2, UpTo
  <2>2. QED
    BY <2>1
<1>4. QED
  BY <1>3
=============================================================================
