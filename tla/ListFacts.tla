----------------------------- MODULE ListFacts -----------------------------
(***************************************************************************)
(* What the proofs of several components need to know about lists: the     *)
(* least and greatest of a set of places, which is what a search from the  *)
(* head, or from the tail, comes upon; the list with one element taken     *)
(* out; and the ranks of a set of places, by which the elements kept move  *)
(* up when the others are taken out.                                       *)
(***************************************************************************)
EXTENDS Integers, Sequences, FiniteSets, SequencesExt, SequenceTheorems,
        FiniteSetTheorems, WellFoundedInduction, TLAPS

(* A set of naturals that is not empty has a least element. *)
LEMMA LeastElement ==
  ASSUME NEW T \in SUBSET Nat, T # {}
  PROVE  \E x \in T : \A y \in T : x <= y
<1> DEFINE R == OpToRel(<, Nat)
<1>1. IsWellFoundedOn(R, Nat)
  BY NatLessThanWellFounded
<1>2. R = {ss \in Nat \X Nat : ss[1] < ss[2]}
  BY DEF OpToRel
<1> HIDE DEF R
<1>3. PICK x \in T : \A y \in T : ~(<<y, x>> \in R)
  BY <1>1, WFMin
<1>4. ASSUME NEW y \in T, y < x
      PROVE  FALSE
  <2>1. y \in Nat /\ x \in Nat /\ <<y, x>> \in Nat \X Nat
    OBVIOUS
  <2>2. <<y, x>>[1] < <<y, x>>[2]
    BY <1>4
  <2>3. <<y, x>> \in R
    BY <1>2, <2>1, <2>2
  <2> QED
    BY <1>3, <2>3
<1> QED
  BY <1>4

(* A bounded set of naturals that is not empty has a greatest element. *)
LEMMA GreatestElement ==
  ASSUME NEW n \in Nat, NEW T \in SUBSET (0..n), T # {}
  PROVE  \E x \in T : \A y \in T : y <= x
<1> DEFINE U == {n - x : x \in T}
<1>0. \A x \in T : x \in Int /\ 0 <= x /\ x <= n
  OBVIOUS
<1>1. U \in SUBSET Nat /\ U # {}
  <2>1. \A x \in T : n - x \in Nat
    BY <1>0
  <2>2. \A u \in U : u \in Nat
    BY <2>1
  <2> QED
    BY <2>2
<1>2. PICK u \in U : \A v \in U : u <= v
  BY <1>1, LeastElement
<1>3. PICK x \in T : u = n - x
  BY <1>2
<1>4. ASSUME NEW y \in T PROVE y <= x
  <2>1. n - y \in U
    OBVIOUS
  <2>2. n - x <= n - y
    BY <1>2, <1>3, <2>1
  <2> QED
    BY <1>0, <2>2
<1> QED
  BY <1>4

(* One element is taken out of a list: the others keep their order. *)
LEMMA RemoveAtProperties ==
  ASSUME NEW S, NEW s \in Seq(S), NEW i \in 1..Len(s)
  PROVE  /\ RemoveAt(s, i) \in Seq(S)
         /\ Len(RemoveAt(s, i)) = Len(s) - 1
         /\ \A j \in 1..(Len(s) - 1) :
              RemoveAt(s, i)[j] = IF j < i THEN s[j] ELSE s[j + 1]
<1> DEFINE before == SubSeq(s, 1, i-1)
           behind == SubSeq(s, i+1, Len(s))
<1>1. Len(s) \in Nat /\ i \in Nat /\ i >= 1 /\ i <= Len(s)
  BY LenProperties
<1>2. \A j \in 1..Len(s) : s[j] \in S
  BY ElementOfSeq
<1>3. /\ before \in Seq(S) /\ Len(before) = i - 1
      /\ \A j \in 1..(i-1) : before[j] = s[j]
  <2>1. \A j \in 1..(i-1) : s[j] \in S
    BY <1>1, <1>2
  <2>2. 1 \in Int /\ i - 1 \in Int
    BY <1>1
  <2>3. /\ before \in Seq(S)
        /\ Len(before) = IF 1 <= i-1 THEN (i-1)-1+1 ELSE 0
        /\ \A j \in 1..((i-1)-1+1) : before[j] = s[1+j-1]
    BY <2>1, <2>2, SubSeqProperties
  <2> QED
    BY <1>1, <2>3
<1>4. /\ behind \in Seq(S) /\ Len(behind) = Len(s) - i
      /\ \A j \in 1..(Len(s)-i) : behind[j] = s[i+j]
  <2>1. \A j \in (i+1)..Len(s) : s[j] \in S
    BY <1>1, <1>2
  <2>2. i + 1 \in Int /\ Len(s) \in Int
    BY <1>1
  <2>3. /\ behind \in Seq(S)
        /\ Len(behind) = IF i+1 <= Len(s) THEN Len(s)-(i+1)+1 ELSE 0
        /\ \A j \in 1..(Len(s)-(i+1)+1) : behind[j] = s[(i+1)+j-1]
    BY <2>1, <2>2, SubSeqProperties
  <2> QED
    BY <1>1, <2>3
<1>5. RemoveAt(s, i) = before \o behind
  BY DEF RemoveAt
<1> HIDE DEF before, behind
<1>6. /\ before \o behind \in Seq(S)
      /\ Len(before \o behind) = Len(before) + Len(behind)
      /\ \A j \in 1..(Len(before) + Len(behind)) : (before \o behind)[j] =
           IF j <= Len(before) THEN before[j] ELSE behind[j - Len(before)]
  BY <1>3, <1>4, ConcatProperties
<1>7. ASSUME NEW j \in 1..(Len(s) - 1)
      PROVE  RemoveAt(s, i)[j] = IF j < i THEN s[j] ELSE s[j + 1]
  <2>1. CASE j < i
    BY <1>1, <1>3, <1>4, <1>5, <1>6, <2>1
  <2>2. CASE ~(j < i)
    <3>1. j - (i-1) \in 1..(Len(s)-i) /\ i + (j - (i-1)) = j + 1
      BY <1>1, <2>2
    <3>2. behind[j - (i-1)] = s[j + 1]
      BY <1>4, <3>1
    <3> QED
      BY <1>1, <1>3, <1>4, <1>5, <1>6, <2>2, <3>2
  <2> QED
    BY <2>1, <2>2
<1> QED
  BY <1>1, <1>3, <1>4, <1>5, <1>6, <1>7

(* The places of a list that are kept, and how many of them are not        *)
(* further on than j: a place kept is ahead of those after it.             *)
LEMMA RankIncreases ==
  ASSUME NEW N \in Nat, NEW K \in SUBSET (1..N)
  PROVE  /\ IsFiniteSet(K) /\ Cardinality(K) \in Nat
         /\ \A j \in Int : /\ Cardinality({x \in K : x <= j}) \in Nat
                           /\ Cardinality({x \in K : x <= j}) <= Cardinality(K)
         /\ \A j, l \in Int :
              j <= l => Cardinality({x \in K : x <= j}) <= Cardinality({x \in K : x <= l})
         /\ \A j \in Int, l \in K :
              j < l => Cardinality({x \in K : x <= j}) < Cardinality({x \in K : x <= l})
<1> DEFINE B(j) == {x \in K : x <= j}
<1>1. IsFiniteSet(K)
  <2>1. IsFiniteSet(1..N)
    BY FS_Interval
  <2> QED
    BY <2>1, FS_Subset
<1>2. Cardinality(K) \in Nat
  BY <1>1, FS_CardinalityType
<1>3. ASSUME NEW j \in Int
      PROVE  IsFiniteSet(B(j)) /\ Cardinality(B(j)) \in Nat /\ Cardinality(B(j)) <= Cardinality(K)
  <2>1. B(j) \in SUBSET K
    OBVIOUS
  <2>2. IsFiniteSet(B(j)) /\ Cardinality(B(j)) <= Cardinality(K)
    BY <1>1, <2>1, FS_Subset
  <2> QED
    BY <2>2, FS_CardinalityType
<1>4. ASSUME NEW j \in Int, NEW l \in Int, j <= l
      PROVE  Cardinality(B(j)) <= Cardinality(B(l))
  <2>1. B(j) \in SUBSET B(l)
    <3>1. \A x \in K : x \in Int
      OBVIOUS
    <3>2. \A x \in K : x <= j => x <= l
      BY <1>4, <3>1
    <3> QED
      BY <3>2, Zenon
  <2>2. IsFiniteSet(B(l))
    BY <1>3
  <2> HIDE DEF B
  <2> QED
    BY <2>1, <2>2, FS_Subset
<1>5. ASSUME NEW j \in Int, NEW l \in K, j < l
      PROVE  Cardinality(B(j)) < Cardinality(B(l))
  <2>1. l \in Int /\ \A x \in K : x \in Int
    OBVIOUS
  <2>2. B(j) \in SUBSET B(l) /\ l \in B(l) /\ l \notin B(j)
    <3>1. \A x \in K : x <= j => x <= l
      BY <1>5, <2>1
    <3>2. l <= l /\ ~(l <= j)
      BY <1>5, <2>1
    <3> QED
      BY <3>1, <3>2, Zenon
  <2>3. IsFiniteSet(B(l)) /\ IsFiniteSet(B(j)) /\ Cardinality(B(j)) \in Nat
    BY <1>3, <2>1
  <2>4. Cardinality(B(l)) \in Nat
    BY <1>3, <2>1
  <2> HIDE DEF B
  <2>5. Cardinality(B(j) \cup {l}) = Cardinality(B(j)) + 1
    BY <2>2, <2>3, FS_AddElement
  <2>6. B(j) \cup {l} \in SUBSET B(l)
    BY <2>2
  <2>7. Cardinality(B(j) \cup {l}) <= Cardinality(B(l))
    BY <2>3, <2>6, FS_Subset
  <2> QED
    BY <2>3, <2>4, <2>5, <2>7
<1> QED
  BY <1>1, <1>2, <1>3, <1>4, <1>5

(* Every rank is taken. *)
LEMMA RankIsTaken ==
  ASSUME NEW N \in Nat, NEW K \in SUBSET (1..N), NEW r \in 1..Cardinality(K)
  PROVE  \E j \in K : Cardinality({x \in K : x <= j}) = r
<1> DEFINE B(j) == {x \in K : x <= j}
           T == {j \in 0..N : Cardinality(B(j)) >= r}
<1>1. /\ IsFiniteSet(K) /\ Cardinality(K) \in Nat
      /\ \A j \in Int : Cardinality(B(j)) \in Nat
      /\ \A j \in Int, l \in K : j < l => Cardinality(B(j)) < Cardinality(B(l))
  BY RankIncreases
<1>2. \A x \in K : x \in Int /\ 1 <= x /\ x <= N
  OBVIOUS
<1>3. B(N) = K /\ B(0) = {}
  <2>1. (\A x \in K : x <= N) /\ (\A x \in K : ~(x <= 0))
    BY <1>2
  <2> QED
    BY <2>1, Zenon
<1>4. N \in T
  BY <1>1, <1>3
<1>5. T \in SUBSET Nat
  OBVIOUS
<1>6. PICK j \in T : \A y \in T : j <= y
  BY <1>4, <1>5, LeastElement
<1>7. j \in Int /\ j <= N /\ j >= 1 /\ Cardinality(B(j)) >= r
  <2>1. Cardinality(B(0)) = 0
    BY <1>3, FS_EmptySet
  <2>2. j # 0
    BY <1>1, <1>6, <2>1
  <2> QED
    BY <1>6, <2>2
<1>8. j - 1 \in Int /\ Cardinality(B(j - 1)) < r
  <2> HIDE DEF B
  <2>1. j - 1 \notin T /\ j - 1 \in 0..N /\ j - 1 \in Int
    BY <1>6, <1>7
  <2>2. Cardinality(B(j - 1)) \in Nat
    BY <1>1, <2>1
  <2> QED
    BY <1>1, <1>7, <2>1, <2>2
<1>9. IsFiniteSet(B(j - 1))
  <2>1. B(j - 1) \in SUBSET K
    OBVIOUS
  <2> QED
    BY <1>1, <2>1, FS_Subset
<1>10. CASE j \notin K
  <2>1. B(j) = B(j - 1)
    <3>1. \A x \in K : x <= j <=> x <= j - 1
      BY <1>2, <1>7, <1>10
    <3> QED
      BY <3>1, Zenon
  <2> HIDE DEF B
  <2> QED
    BY <1>1, <1>7, <1>8, <2>1
<1>11. CASE j \in K
  <2>1. B(j) = B(j - 1) \cup {j} /\ j \notin B(j - 1)
    <3>1. \A x \in K : x <= j <=> x <= j - 1 \/ x = j
      BY <1>2, <1>7
    <3>2. ~(j <= j - 1)
      BY <1>7
    <3> QED
      BY <1>11, <3>1, <3>2, Zenon
  <2>2. Cardinality(B(j)) \in Nat /\ Cardinality(B(j - 1)) \in Nat
    BY <1>1, <1>7, <1>8
  <2> HIDE DEF B
  <2>3. Cardinality(B(j - 1) \cup {j}) = Cardinality(B(j - 1)) + 1
    BY <1>9, <2>1, FS_AddElement
  <2>4. Cardinality(B(j)) = r
    BY <1>7, <1>8, <2>1, <2>2, <2>3
  <2> QED
    BY <1>11, <2>4 DEF B
<1> QED
  BY <1>10, <1>11
=============================================================================
