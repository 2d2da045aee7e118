---------------------------- MODULE SequenceLemmas ----------------------------
(***************************************************************************)
(* Lemmas about numbers, finite sets and sequences that the proofs about   *)
(* the menus rest on.  They start from the well-foundedness of < on the    *)
(* natural numbers, stated by module WellFoundedInduction for sets rather  *)
(* than predicates: a set of numbers that is not empty has a least one.    *)
(* Induction over a set follows from it, and with it what is needed of     *)
(* definitions by recursion.                                               *)
(***************************************************************************)
EXTENDS Integers, SequencesExt, FiniteSetsExt,
        TLAPS, WellFoundedInduction, FiniteSetTheorems, SequenceTheorems

-----------------------------------------------------------------------------
(* Numbers.                                                                *)

\* A set of natural numbers that is not empty has a least element.
LEMMA LeastNumber ==
  ASSUME NEW T \in SUBSET Nat, T # {}
  PROVE  \E n \in T : \A m \in T : n <= m
<1>1. \E R : IsWellFoundedOn(R, Nat) /\ \A x, y \in Nat : y < x => <<y, x>> \in R
  <2>1. \A x, y \in Nat : y < x => <<y, x>> \in OpToRel(<, Nat)
    BY DEF OpToRel
  <2>2. QED
    BY <2>1, NatLessThanWellFounded
<1>2. PICK R : IsWellFoundedOn(R, Nat) /\ \A x, y \in Nat : y < x => <<y, x>> \in R
  BY <1>1
<1>3. PICK x \in T : \A y \in T : ~(<<y, x>> \in R)
  BY <1>2, WFMin
<1>4. x \in Nat /\ \A y \in T : y \in Nat
  OBVIOUS
<1>5. \A y \in T : ~(y < x)
  BY <1>2, <1>3, <1>4, Zenon
<1>6. QED
  BY <1>4, <1>5

\* Induction over a set of natural numbers.
LEMMA Induction ==
  ASSUME NEW T, 0 \in T, \A n \in Nat : n \in T => n + 1 \in T
  PROVE  Nat \subseteq T
<1>1. SUFFICES ASSUME NEW k \in Nat, k \notin T PROVE FALSE
  OBVIOUS
<1> DEFINE B == {n \in Nat : n \notin T}
<1>2. PICK n \in B : \A m \in B : n <= m
  BY <1>1, LeastNumber
<1>3. n # 0 /\ n - 1 \in Nat /\ n - 1 \notin B
  BY <1>2
<1>4. QED
  BY <1>2, <1>3

\* The minimum of a set of natural numbers.
LEMMA MinFacts ==
  ASSUME NEW T \in SUBSET Nat, T # {}
  PROVE  Min(T) \in T /\ \A m \in T : Min(T) <= m
BY LeastNumber DEF Min

\* A number in a set that no other one exceeds is its maximum.
LEMMA MaxFacts ==
  ASSUME NEW T \in SUBSET Nat, NEW n \in T, \A m \in T : m <= n
  PROVE  Max(T) = n
<1>1. \A m \in T : n >= m
  OBVIOUS
<1>2. Max(T) \in T /\ \A m \in T : Max(T) >= m
  BY <1>1 DEF Max
<1>3. Max(T) \in Nat /\ n \in Nat /\ Max(T) >= n /\ Max(T) <= n
  BY <1>2
<1>4. QED
  BY <1>3

\* The maximum of a set of positions is in it.
LEMMA MaxInSet ==
  ASSUME NEW n \in Nat, NEW T \in SUBSET (1..n), T # {}
  PROVE  Max(T) \in T
<1> DEFINE Bounds == {m \in Nat : \A x \in T : x <= m}
<1>1. \A x \in T : x \in Nat /\ x >= 1 /\ x <= n
  OBVIOUS
<1>2. n \in Bounds /\ Bounds \in SUBSET Nat
  BY <1>1
<1>3. PICK m \in Bounds : \A k \in Bounds : m <= k
  BY <1>2, LeastNumber
<1>4. m \in T
  <2>1. SUFFICES ASSUME m \notin T PROVE FALSE
    OBVIOUS
  <2>2. m \in Nat /\ \A x \in T : x \in Nat /\ x <= m /\ x # m /\ x >= 1
    BY <1>1, <1>3, <2>1
  <2>3. m - 1 \in Nat /\ \A x \in T : x <= m - 1
    <3>1. m >= 1
      <4>1. PICK x \in T : TRUE
        OBVIOUS
      <4>2. QED
        BY <2>2, <4>1
    <3>2. \A x \in T : x <= m - 1
      BY <2>2
    <3>3. QED
      BY <2>2, <3>1, <3>2
  <2>4. QED
    BY <1>3, <2>2, <2>3
<1>5. T \in SUBSET Nat /\ \A x \in T : x <= m
  BY <1>1
<1>6. QED
  BY <1>4, <1>5, MaxFacts

\* A set of positions that holds with each one all before it is an interval.
LEMMA PrefixFacts ==
  ASSUME NEW n \in Nat, NEW P \in SUBSET (1..n),
         \A p \in P : 1..p \subseteq P
  PROVE  Cardinality(P) \in 0..n /\ P = 1..Cardinality(P)
<1> DEFINE Out == {p \in 1..(n + 1) : p \notin P}
<1>1. Out \in SUBSET Nat /\ n + 1 \in Out
  OBVIOUS
<1>2. PICK c \in Out : \A p \in Out : c <= p
  BY <1>1, LeastNumber
<1>3. c - 1 \in 0..n /\ P = 1..(c - 1)
  <2>1. c \in 1..(n + 1) /\ c \notin P
    OBVIOUS
  <2>2. \A p \in 1..(c - 1) : p \in P
    BY <1>2, <2>1
  <2>3. \A p \in P : p \in 1..(c - 1)
    <3>1. SUFFICES ASSUME NEW p \in P, ~(p < c) PROVE FALSE
      BY <2>1
    <3>2. c \in 1..p
      BY <2>1, <3>1
    <3>3. QED
      BY <2>1, <3>2
  <2>4. c - 1 \in 0..n
    BY <2>1
  <2>5. QED
    BY <2>2, <2>3, <2>4
<1>4. Cardinality(1..(c - 1)) = c - 1
  BY <1>3, FS_Interval
<1>5. QED
  BY <1>3, <1>4

-----------------------------------------------------------------------------
(* The elements of a finite set of numbers in their order.                 *)

\* How many elements of P there are up to p.
Rank(P, p) == Cardinality({q \in P : q <= p})

\* Finite sets of positions: every rank is taken.
LEMMA RankOnto ==
  ASSUME NEW n \in Nat, NEW P \in SUBSET (1..n), NEW i \in 1..Cardinality(P)
  PROVE  \E p \in P : Rank(P, p) = i
<1> DEFINE T == {m \in Nat : \A Q \in SUBSET (1..m) :
                   \A j \in 1..Cardinality(Q) : \E p \in Q : Rank(Q, p) = j}
<1>1. 0 \in T
  <2>1. ASSUME NEW Q \in SUBSET (1..0) PROVE 1..Cardinality(Q) = {}
    <3>1. Q = {}
      OBVIOUS
    <3>2. QED
      BY <3>1, FS_EmptySet
  <2>2. QED
    BY <2>1
<1>2. ASSUME NEW m \in Nat, m \in T PROVE m + 1 \in T
  <2>1. SUFFICES ASSUME NEW Q \in SUBSET (1..(m + 1)), NEW j \in 1..Cardinality(Q)
                 PROVE  \E p \in Q : Rank(Q, p) = j
    OBVIOUS
  <2>2. CASE m + 1 \notin Q
    <3>1. Q \in SUBSET (1..m)
      BY <2>2
    <3>2. QED
      BY <1>2, <2>1, <3>1
  <2>3. CASE m + 1 \in Q
    <3> DEFINE R == Q \ {m + 1}
    <3>0. \A q \in Q : q \in Nat /\ 1 <= q /\ q <= m + 1
      OBVIOUS
    <3>1. R \in SUBSET (1..m) /\ IsFiniteSet(Q) /\ IsFiniteSet(R)
      <4>1. IsFiniteSet(1..(m + 1))
        BY FS_Interval
      <4>2. IsFiniteSet(Q)
        BY <4>1, FS_Subset
      <4>3. R \in SUBSET (1..m)
        BY <3>0
      <4>4. R \subseteq Q
        OBVIOUS
      <4>5. QED
        BY <4>2, <4>3, <4>4, FS_Subset
    <3>2. Cardinality(R) \in Nat /\ Cardinality(Q) = Cardinality(R) + 1
      BY <2>3, <3>1, FS_RemoveElement, FS_CardinalityType
    <3>3. CASE j = Cardinality(Q)
      <4>1. {q \in Q : q <= m + 1} = Q
        BY <3>0
      <4>2. QED
        BY <2>3, <3>3, <4>1 DEF Rank
    <3>4. CASE j # Cardinality(Q)
      <4>1. j \in 1..Cardinality(R)
        BY <3>2, <3>4
      <4>2. PICK p \in R : Rank(R, p) = j
        BY <1>2, <3>1, <4>1
      <4>3. {q \in Q : q <= p} = {q \in R : q <= p}
        BY <3>1
      <4>4. QED
        BY <4>2, <4>3 DEF Rank
    <3>5. QED
      BY <3>3, <3>4
  <2>4. QED
    BY <2>2, <2>3
<1> HIDE DEF T
<1>3. n \in T
  BY <1>1, <1>2, Induction
<1>4. QED
  BY <1>3 DEF T

\* Ranks follow the order of the elements.
LEMMA RankIncreases ==
  ASSUME NEW n \in Nat, NEW P \in SUBSET (1..n), NEW p \in P, NEW q \in P
  PROVE  /\ Rank(P, p) \in 1..Cardinality(P)
         /\ p < q => Rank(P, p) < Rank(P, q)
<1> DEFINE U(x) == {y \in P : y <= x}
<1>1. IsFiniteSet(P) /\ IsFiniteSet(U(p)) /\ IsFiniteSet(U(q))
  <2>1. IsFiniteSet(1..n)
    BY FS_Interval
  <2>2. IsFiniteSet(P)
    BY <2>1, FS_Subset
  <2>3. U(p) \subseteq P /\ U(q) \subseteq P
    OBVIOUS
  <2>4. QED
    BY <2>2, <2>3, FS_Subset
<1>2. Rank(P, p) = Cardinality(U(p)) /\ Rank(P, q) = Cardinality(U(q))
  BY DEF Rank
<1>3. p \in U(p) /\ U(p) \subseteq P
  OBVIOUS
<1>4. p < q => U(p) \subseteq U(q) /\ q \in U(q) /\ q \notin U(p)
  <2>1. p \in Nat /\ q \in Nat /\ \A y \in P : y \in Nat
    OBVIOUS
  <2>2. p < q => \A y \in P : y <= p => y <= q
    BY <2>1
  <2>3. q <= q /\ (p < q => ~(q <= p))
    BY <2>1
  <2>4. QED
    BY <2>2, <2>3, Zenon
<1> HIDE DEF U
<1>5. Cardinality(U(p)) \in Nat /\ Cardinality(P) \in Nat /\ Cardinality(U(q)) \in Nat
  BY <1>1, FS_CardinalityType
<1>6. Cardinality(U(p)) # 0
  BY <1>1, <1>3, FS_EmptySet
<1>7. Cardinality(U(p)) <= Cardinality(P)
  BY <1>1, <1>3, FS_Subset
<1>8. ASSUME p < q PROVE Cardinality(U(p)) < Cardinality(U(q))
  <2>1. U(p) \subseteq U(q) /\ U(p) # U(q)
    BY <1>4, <1>8
  <2>2. QED
    BY <1>1, <1>5, <2>1, FS_Subset
<1>9. QED
  BY <1>2, <1>5, <1>6, <1>7, <1>8

(***************************************************************************)
(* The elements of a finite set of positions, each at its rank: in their   *)
(* order, and each of them.                                                *)
(***************************************************************************)
InOrder(P) == [i \in 1..Cardinality(P) |-> CHOOSE p \in P : Rank(P, p) = i]

\* They increase, and none is missing.
LEMMA InOrderFacts ==
  ASSUME NEW n \in Nat, NEW P \in SUBSET (1..n)
  PROVE  /\ Cardinality(P) \in Nat
         /\ InOrder(P) \in [1..Cardinality(P) -> P]
         /\ \A i, j \in 1..Cardinality(P) : i < j => InOrder(P)[i] < InOrder(P)[j]
         /\ \A p \in P : \E i \in 1..Cardinality(P) : InOrder(P)[i] = p
<1> DEFINE C == Cardinality(P)
<1>1. C \in Nat
  <2>1. IsFiniteSet(P)
    <3>1. IsFiniteSet(1..n)
      BY FS_Interval
    <3>2. QED
      BY <3>1, FS_Subset
  <2>2. QED
    BY <2>1, FS_CardinalityType
<1>2. \A i \in 1..C : InOrder(P)[i] \in P /\ Rank(P, InOrder(P)[i]) = i
  BY RankOnto DEF InOrder
<1>3. InOrder(P) \in [1..C -> P]
  BY <1>2 DEF InOrder
<1>4. ASSUME NEW i \in 1..C, NEW j \in 1..C, i < j
      PROVE  InOrder(P)[i] < InOrder(P)[j]
  <2>1. PICK p \in P, q \in P : /\ InOrder(P)[i] = p /\ Rank(P, p) = i
                                /\ InOrder(P)[j] = q /\ Rank(P, q) = j
    BY <1>2
  <2>2. p \in Nat /\ q \in Nat
    OBVIOUS
  <2>3. p # q
    BY <1>1, <1>4, <2>1
  <2>4. ~(q < p)
    <3>1. q < p => Rank(P, q) < Rank(P, p)
      BY RankIncreases
    <3>2. ~(j < i)
      BY <1>1, <1>4
    <3>3. QED
      BY <2>1, <3>1, <3>2
  <2>5. QED
    BY <2>1, <2>2, <2>3, <2>4
<1>5. ASSUME NEW p \in P PROVE \E i \in 1..C : InOrder(P)[i] = p
  <2>1. Rank(P, p) \in 1..C
    BY RankIncreases
  <2>2. PICK q \in P : q = InOrder(P)[Rank(P, p)] /\ Rank(P, q) = Rank(P, p)
    BY <1>2, <2>1
  <2>3. p \in Nat /\ q \in Nat /\ Rank(P, p) \in Nat
    BY <1>1, <2>1
  <2>4. ~(p < q) /\ ~(q < p)
    <3>1. /\ p < q => Rank(P, p) < Rank(P, q)
          /\ q < p => Rank(P, q) < Rank(P, p)
      BY RankIncreases
    <3>2. QED
      BY <2>2, <2>3, <3>1
  <2>5. p = q
    BY <2>3, <2>4
  <2>6. QED
    BY <2>1, <2>2, <2>5
<1>6. QED
  BY <1>1, <1>3, <1>4, <1>5

-----------------------------------------------------------------------------
(* Sequences.                                                              *)

\* Inserting an element: the type, the length and the elements.
LEMMA InsertAtFacts ==
  ASSUME NEW T, NEW s \in Seq(T), NEW i \in 1..(Len(s) + 1), NEW e \in T
  PROVE  /\ InsertAt(s, i, e) \in Seq(T)
         /\ Len(InsertAt(s, i, e)) = Len(s) + 1
         /\ \A j \in 1..(Len(s) + 1) :
              InsertAt(s, i, e)[j] = IF j < i THEN s[j] ELSE IF j = i THEN e ELSE s[j - 1]
<1> DEFINE head == SubSeq(s, 1, i - 1)
           tail == SubSeq(s, i, Len(s))
           one == <<e>>
<1>0. Len(s) \in Nat /\ i \in Nat /\ i >= 1 /\ i <= Len(s) + 1
  BY LenProperties
<1>1. /\ head \in Seq(T) /\ Len(head) = i - 1
      /\ \A j \in 1..(i - 1) : head[j] = s[j]
  <2>1. \A j \in 1..(i - 1) : s[j] \in T
    BY <1>0, ElementOfSeq
  <2>2. QED
    BY <1>0, <2>1, SubSeqProperties
<1>2. /\ tail \in Seq(T) /\ Len(tail) = Len(s) - i + 1
      /\ \A j \in 1..(Len(s) - i + 1) : tail[j] = s[i + j - 1]
  <2>1. \A j \in i..Len(s) : s[j] \in T
    BY <1>0, ElementOfSeq
  <2>2. QED
    BY <1>0, <2>1, SubSeqProperties
<1>3. one \in Seq(T) /\ Len(one) = 1 /\ one[1] = e
  OBVIOUS
<1>4. InsertAt(s, i, e) = (head \o one) \o tail
  BY DEF InsertAt
<1> HIDE DEF head, tail, one
<1>5. /\ head \o one \in Seq(T)
      /\ Len(head \o one) = i
      /\ \A j \in 1..i : (head \o one)[j] = IF j < i THEN s[j] ELSE e
  <2>1. /\ head \o one \in Seq(T)
        /\ Len(head \o one) = Len(head) + Len(one)
        /\ \A j \in 1..(Len(head) + Len(one)) :
             (head \o one)[j] = IF j <= Len(head) THEN head[j] ELSE one[j - Len(head)]
    BY <1>1, <1>3, ConcatProperties
  <2>2. QED
    BY <1>0, <1>1, <1>3, <2>1
<1> DEFINE first == head \o one
<1>6. /\ first \o tail \in Seq(T)
      /\ Len(first \o tail) = Len(first) + Len(tail)
      /\ \A j \in 1..(Len(first) + Len(tail)) :
           (first \o tail)[j] = IF j <= Len(first) THEN first[j]
                                ELSE tail[j - Len(first)]
  <2>1. first \in Seq(T)
    BY <1>5
  <2> HIDE DEF first
  <2>2. QED
    BY <1>2, <2>1, ConcatProperties
<1>7. ASSUME NEW j \in 1..(Len(s) + 1)
      PROVE  InsertAt(s, i, e)[j] = IF j < i THEN s[j] ELSE IF j = i THEN e ELSE s[j - 1]
  <2>1. InsertAt(s, i, e)[j] = IF j <= i THEN (head \o one)[j] ELSE tail[j - i]
    BY <1>0, <1>2, <1>4, <1>5, <1>6
  <2>2. CASE j <= i
    BY <1>0, <1>5, <2>1, <2>2
  <2>3. CASE ~(j <= i)
    <3>1. j - i \in 1..(Len(s) - i + 1) /\ i + (j - i) - 1 = j - 1
      BY <1>0, <2>3
    <3>2. QED
      BY <1>0, <1>2, <2>1, <2>3, <3>1
  <2>4. QED
    BY <2>2, <2>3
<1>8. InsertAt(s, i, e) \in Seq(T) /\ Len(InsertAt(s, i, e)) = Len(s) + 1
  BY <1>0, <1>2, <1>4, <1>5, <1>6
<1>9. QED
  BY <1>7, <1>8

\* The sequences that list each element of a finite set once.
LEMMA SetToSeqsFacts ==
  ASSUME NEW S, IsFiniteSet(S), NEW f \in SetToSeqs(S)
  PROVE  /\ f \in Seq(S)
         /\ Len(f) = Cardinality(S)
         /\ \A i, j \in 1..Len(f) : i # j => f[i] # f[j]
         /\ \A x \in S : \E i \in 1..Len(f) : f[i] = x
<1> DEFINE n == Cardinality(S)
<1>1. n \in Nat
  BY FS_CardinalityType
<1>2. f \in [1..n -> S] /\ \A i, j \in 1..n : i # j => f[i] # f[j]
  BY DEF SetToSeqs
<1> HIDE DEF n
<1>3. f \in Seq(S) /\ Len(f) = n
  BY <1>1, <1>2
<1>4. ASSUME NEW x \in S, \A i \in 1..n : f[i] # x PROVE FALSE
  <2> DEFINE R == S \ {x}
  <2>1. f \in [1..n -> R]
    BY <1>2, <1>4
  <2>2. IsFiniteSet(R) /\ Cardinality(R) = n - 1
    BY FS_RemoveElement DEF n
  <2>3. IsFiniteSet(1..n) /\ Cardinality(1..n) = n
    BY <1>1, FS_Interval
  <2> HIDE DEF R
  <2>4. \E i, j \in 1..n : i # j /\ f[i] = f[j]
    BY <1>1, <2>1, <2>2, <2>3, FS_PigeonHole
  <2>5. QED
    BY <1>2, <2>4
<1>5. QED
  BY <1>2, <1>3, <1>4 DEF n

-----------------------------------------------------------------------------
(* Folds.                                                                  *)

(***************************************************************************)
(* The library defines a fold by recursion over sets of positions, largest *)
(* first.  A function that satisfies such a definition exists: here with   *)
(* the step at position i as a function F[i] of the value before.          *)
(***************************************************************************)
FoldsBy(g, n, base, F) ==
  \A s \in SUBSET (1..n) : g[s] = IF s = {} THEN base ELSE F[Max(s)][g[s \ {Max(s)}]]

\* By induction on the largest position.
LEMMA FoldExists ==
  ASSUME NEW n \in Nat, NEW B, NEW base \in B, NEW F \in [1..n -> [B -> B]]
  PROVE  \E g \in [SUBSET (1..n) -> B] : FoldsBy(g, n, base, F)
<1> DEFINE Good(g, m) == \A s \in SUBSET (1..m) :
             g[s] = IF s = {} THEN base ELSE F[Max(s)][g[s \ {Max(s)}]]
           Exists(m) == \E g \in [SUBSET (1..m) -> B] : Good(g, m)
           T == {m \in Nat : m <= n => Exists(m)}
<1>1. 0 \in T
  <2> DEFINE g == [s \in SUBSET (1..0) |-> base]
  <2>1. g \in [SUBSET (1..0) -> B]
    OBVIOUS
  <2>2. \A s \in SUBSET (1..0) : s = {}
    OBVIOUS
  <2>3. Good(g, 0)
    BY <2>2
  <2> HIDE DEF g, Good
  <2>4. Exists(0)
    BY <2>1, <2>3
  <2> HIDE DEF Exists
  <2>5. QED
    BY <2>4
<1>2. ASSUME NEW m \in Nat, m \in T PROVE m + 1 \in T
  <2> HIDE DEF Exists
  <2>1. SUFFICES ASSUME m + 1 <= n PROVE Exists(m + 1)
    OBVIOUS
  <2>1a. Exists(m)
    BY <1>2, <2>1
  <2> USE DEF Exists
  <2>2. PICK g \in [SUBSET (1..m) -> B] : Good(g, m)
    BY <2>1a
  <2> DEFINE h == [s \in SUBSET (1..(m + 1)) |->
                     IF m + 1 \in s THEN F[m + 1][g[s \ {m + 1}]] ELSE g[s]]
  <2>3. \A s \in SUBSET (1..(m + 1)) : \A p \in s : p \in Nat /\ 1 <= p /\ p <= m + 1
    OBVIOUS
  <2>4. \A s \in SUBSET (1..(m + 1)) : s \ {m + 1} \in SUBSET (1..m)
    BY <2>3
  <2>5. F[m + 1] \in [B -> B]
    BY <2>1
  <2>6. h \in [SUBSET (1..(m + 1)) -> B]
    <3>1. ASSUME NEW s \in SUBSET (1..(m + 1)) PROVE h[s] \in B
      <4>1. CASE m + 1 \in s
        BY <2>2, <2>4, <2>5, <4>1
      <4>2. CASE m + 1 \notin s
        <5>1. s \in SUBSET (1..m)
          BY <2>3, <4>2
        <5>2. QED
          BY <2>2, <4>2, <5>1
      <4>3. QED
        BY <4>1, <4>2
    <3>2. QED
      BY <3>1
  <2>7. ASSUME NEW s \in SUBSET (1..(m + 1))
        PROVE  h[s] = IF s = {} THEN base ELSE F[Max(s)][h[s \ {Max(s)}]]
    <3>1. CASE m + 1 \in s
      <4>1. s \in SUBSET Nat /\ \A p \in s : p <= m + 1
        BY <2>3
      <4>2. Max(s) = m + 1
        BY <3>1, <4>1, MaxFacts
      <4>3. s \ {m + 1} \in SUBSET (1..(m + 1)) /\ m + 1 \notin s \ {m + 1}
        OBVIOUS
      <4>4. h[s \ {m + 1}] = g[s \ {m + 1}]
        BY <4>3
      <4>5. QED
        BY <3>1, <4>2, <4>4
    <3>2. CASE m + 1 \notin s
      <4>1. s \in SUBSET (1..m)
        BY <2>3, <3>2
      <4>2. h[s] = g[s] /\ h[s \ {Max(s)}] = g[s \ {Max(s)}]
        BY <3>2
      <4>3. QED
        BY <2>2, <4>1, <4>2
    <3>3. QED
      BY <3>1, <3>2
  <2> HIDE DEF h
  <2>8. Good(h, m + 1)
    BY <2>7
  <2> HIDE DEF Good
  <2>9. QED
    BY <2>6, <2>8
<1> HIDE DEF T
<1>3. n \in T
  BY <1>1, <1>2, Induction
<1>4. Exists(n)
  <2> HIDE DEF Exists
  <2>1. QED
    BY <1>3 DEF T
<1>5. QED
  BY <1>4 DEF FoldsBy

\* The positions of such a recursion, from the last one down.
LEMMA LastPosition ==
  ASSUME NEW i \in Nat
  PROVE  Max(1..(i + 1)) = i + 1 /\ 1..(i + 1) \ {i + 1} = 1..i /\ 1..(i + 1) # {}
<1> DEFINE S == 1..(i + 1)
<1>1. S \in SUBSET Nat /\ i + 1 \in S /\ \A m \in S : m <= i + 1
  OBVIOUS
<1>2. 1..(i + 1) \ {i + 1} = 1..i
  OBVIOUS
<1> HIDE DEF S
<1>3. Max(S) = i + 1
  BY <1>1, MaxFacts
<1>4. QED
  BY <1>1, <1>2, <1>3 DEF S

=============================================================================
