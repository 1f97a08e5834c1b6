------------------------- MODULE PartitionProofs --------------------------
(***************************************************************************)
(* Proofs about the attribute partition (TestData.getBlinded and           *)
(* getNonBlinded) for arrays of every length and every blinded index list. *)
(* The centre is what .filter returns: Filtered lists the pairs of the     *)
(* kept indices in index order, because Rank numbers the kept indices      *)
(* 1, 2, ... in increasing order without gaps.                             *)
(***************************************************************************)
EXTENDS MCPartition, FiniteSetTheorems, SequenceTheorems, TLAPS

\* The kept index of rank k: the one .filter puts in position k.
FIdx(kept, k) == CHOOSE i \in kept : Rank(kept, i) = k

\* Filtered, with the chosen index named.
LEMMA FilteredDef ==
  ASSUME NEW vals0, NEW kept
  PROVE  Filtered(vals0, kept) =
           [k \in 1..Cardinality(kept) |->
              mkPair(FIdx(kept, k), vals0[FIdx(kept, k)])]
BY DEF Filtered, FIdx

\* The rank of a kept index lies between 1 and the number of kept indices.
LEMMA RankBounds ==
  ASSUME NEW kept \in SUBSET Nat, IsFiniteSet(kept), NEW i \in kept
  PROVE  Rank(kept, i) \in 1..Cardinality(kept)
<1> DEFINE Upto == {j \in kept : j <= i}
<1>1. /\ IsFiniteSet(Upto)
      /\ Cardinality(Upto) <= Cardinality(kept)
  BY FS_Subset DEF Upto
<1>2. Cardinality(Upto) # 0
  BY <1>1, FS_EmptySet DEF Upto
<1>3. Cardinality(Upto) \in Nat /\ Cardinality(kept) \in Nat
  BY <1>1, FS_CardinalityType
<1>4. QED
  BY <1>1, <1>2, <1>3 DEF Rank, Upto

\* A larger kept index has a larger rank.
LEMMA RankIncreasing ==
  ASSUME NEW kept \in SUBSET Nat, IsFiniteSet(kept),
         NEW i \in kept, NEW i2 \in kept, i < i2
  PROVE  Rank(kept, i) < Rank(kept, i2)
<1>1. /\ {j \in kept : j <= i} \subseteq {j \in kept : j <= i2}
      /\ i2 \in {j \in kept : j <= i2}
      /\ i2 \notin {j \in kept : j <= i}
  <2>1. i \in Nat /\ i2 \in Nat /\ \A j \in kept : j \in Nat
    OBVIOUS
  <2>2. \A j \in kept : j <= i => j <= i2
    BY <2>1
  <2>3. ~(i2 <= i)
    BY <2>1
  <2>4. {j \in kept : j <= i} \subseteq {j \in kept : j <= i2}
    BY <2>2
  <2>5. i2 \in {j \in kept : j <= i2}
    BY <2>1
  <2>6. i2 \notin {j \in kept : j <= i}
    BY <2>3
  <2>7. QED
    BY <2>4, <2>5, <2>6
<1>2. /\ IsFiniteSet({j \in kept : j <= i2})
      /\ Cardinality({j \in kept : j <= i2}) \in Nat
  BY FS_Subset, FS_CardinalityType
<1>3. /\ IsFiniteSet({j \in kept : j <= i})
      /\ Cardinality({j \in kept : j <= i}) <= Cardinality({j \in kept : j <= i2})
      /\ Cardinality({j \in kept : j <= i2}) = Cardinality({j \in kept : j <= i})
           => {j \in kept : j <= i2} = {j \in kept : j <= i}
  BY <1>1, <1>2, FS_Subset
<1>4. Cardinality({j \in kept : j <= i}) \in Nat
  BY <1>3, FS_CardinalityType
<1>5. QED
  BY <1>1, <1>2, <1>3, <1>4 DEF Rank

\* Every position 1..Cardinality(kept) is the rank of exactly one kept index.
LEMMA RankBijective ==
  ASSUME NEW kept \in SUBSET Nat, IsFiniteSet(kept)
  PROVE  /\ \A i, i2 \in kept : Rank(kept, i) = Rank(kept, i2) => i = i2
         /\ \A k \in 1..Cardinality(kept) : \E i \in kept : Rank(kept, i) = k
<1> DEFINE R == [i \in kept |-> Rank(kept, i)]
           N == Cardinality(kept)
<1>1. \A i, i2 \in kept : Rank(kept, i) = Rank(kept, i2) => i = i2
  <2> SUFFICES ASSUME NEW i \in kept, NEW i2 \in kept, i # i2
               PROVE  Rank(kept, i) # Rank(kept, i2)
    OBVIOUS
  <2>1. Rank(kept, i) \in Nat /\ Rank(kept, i2) \in Nat
    BY RankBounds
  <2>2. CASE i < i2
    BY <2>1, <2>2, RankIncreasing
  <2>3. CASE i2 < i
    BY <2>1, <2>3, RankIncreasing
  <2>4. QED
    BY <2>2, <2>3
<1>2. N \in Nat
  BY FS_CardinalityType DEF N
<1>3. R \in Injection(kept, 1..N)
  BY <1>1, RankBounds DEF Injection, IsInjective, R, N
<1>4. IsFiniteSet(1..N) /\ Cardinality(1..N) = N
  BY <1>2, FS_Interval
<1>5. R \in Surjection(kept, 1..N)
  BY <1>3, <1>4, FS_Injection DEF N
<1>6. QED
  BY <1>1, <1>5 DEF Surjection, R, N
\* The index .filter puts in position k is kept and has rank k.
LEMMA FIdxRank ==
  ASSUME NEW kept \in SUBSET Nat, IsFiniteSet(kept),
         NEW k \in 1..Cardinality(kept)
  PROVE  FIdx(kept, k) \in kept /\ Rank(kept, FIdx(kept, k)) = k
BY RankBijective DEF FIdx

\* What .filter returns: for a finite set of kept indices of an array, the
\* pairs of exactly the kept indices, each with its value, in index order.
LEMMA FilteredSorted ==
  ASSUME NEW vals0, NEW kept \in SUBSET Nat, IsFiniteSet(kept)
  PROVE  LET s == Filtered(vals0, kept)
         IN  /\ DOMAIN s = 1..Cardinality(kept)
             /\ {s[k].index : k \in DOMAIN s} = kept
             /\ \A k \in DOMAIN s : s[k].value = vals0[s[k].index]
             /\ \A j, k \in DOMAIN s : j < k => s[j].index < s[k].index
<1>1. Cardinality(kept) \in Nat
  BY FS_CardinalityType
<1>2. /\ DOMAIN Filtered(vals0, kept) = 1..Cardinality(kept)
      /\ \A k \in 1..Cardinality(kept) : Filtered(vals0, kept)[k].index = FIdx(kept, k)
      /\ \A k \in 1..Cardinality(kept) : Filtered(vals0, kept)[k].value = vals0[FIdx(kept, k)]
  BY FilteredDef DEF mkPair
<1>3. {FIdx(kept, k) : k \in 1..Cardinality(kept)} = kept
  <2>1. \A k \in 1..Cardinality(kept) : FIdx(kept, k) \in kept
    BY FIdxRank
  <2>2. ASSUME NEW i \in kept PROVE \E k \in 1..Cardinality(kept) : FIdx(kept, k) = i
    <3>1. Rank(kept, i) \in 1..Cardinality(kept)
      BY RankBounds
    <3>2. Rank(kept, FIdx(kept, Rank(kept, i))) = Rank(kept, i)
          /\ FIdx(kept, Rank(kept, i)) \in kept
      BY <3>1, FIdxRank
    <3>3. FIdx(kept, Rank(kept, i)) = i
      <4>1. \A x, y \in kept : Rank(kept, x) = Rank(kept, y) => x = y
        BY RankBijective
      <4>2. QED
        BY <3>2, <4>1
    <3>4. QED
      BY <3>1, <3>3
  <2>3. QED
    BY <2>1, <2>2
<1>4. ASSUME NEW j \in 1..Cardinality(kept), NEW k \in 1..Cardinality(kept), j < k
      PROVE  FIdx(kept, j) < FIdx(kept, k)
  <2>1. /\ FIdx(kept, j) \in kept /\ Rank(kept, FIdx(kept, j)) = j
        /\ FIdx(kept, k) \in kept /\ Rank(kept, FIdx(kept, k)) = k
    BY FIdxRank
  <2>2. FIdx(kept, j) # FIdx(kept, k)
    BY <1>4, <2>1
  <2>3. ~(FIdx(kept, k) < FIdx(kept, j))
    <3>1. FIdx(kept, k) < FIdx(kept, j) => k < j
      BY <2>1, RankIncreasing
    <3>2. QED
      BY <1>4, <3>1
  <2>4. FIdx(kept, j) \in Nat /\ FIdx(kept, k) \in Nat
    BY <2>1
  <2>5. QED
    BY <2>2, <2>3, <2>4
<1>5. QED
  BY <1>2, <1>3, <1>4
-----------------------------------------------------------------------------
(* The partitioning rule for every array and every blinded index list in   *)
(* ascending order without repetition, as the fixture lists are.           *)

\* getBlinded and getNonBlinded split an array of any length n by any
\* ascending blinded index list exactly as the rule says: each side holds
\* the pairs of its indices, with their values, in the array's order.
THEOREM PartitionRule ==
  ASSUME NEW n \in Nat, DOMAIN vals = 0..(n - 1), blinded \in AscendingLists(n)
  PROVE  PartitionMatchesRule
<1>1. PICK m \in 0..n : /\ blinded \in [1..m -> 0..(n - 1)]
                        /\ \A i, j \in 1..m : i < j => blinded[i] < blinded[j]
  BY DEF AscendingLists
<1>2. blinded \in Seq(0..(n - 1))
  BY <1>1, SeqDef
<1>3. DOMAIN blinded = 1..Len(blinded)
  BY <1>2, LenProperties
<1>4. PICK B : B = {blinded[k] : k \in DOMAIN blinded}
  OBVIOUS
<1>5. IsPartitionOf(getBlinded(vals, blinded), B)
  <2>1. getBlinded(vals, blinded) =
          [k \in DOMAIN blinded |-> mkPair(blinded[k], vals[blinded[k]])]
    BY <1>1, <1>3 DEF getBlinded, ArrayGet
  <2>2. QED
    BY <1>1, <1>4, <2>1 DEF IsPartitionOf, mkPair
<1>6. IsPartitionOf(getNonBlinded(vals, blinded), DOMAIN vals \ B)
  <2>1. getNonBlinded(vals, blinded) = Filtered(vals, DOMAIN vals \ B)
    <3>1. {i \in DOMAIN vals : i \notin B} = DOMAIN vals \ B
      OBVIOUS
    <3>2. QED
      BY <1>4, <3>1 DEF getNonBlinded
  <2>2. /\ DOMAIN vals \ B \in SUBSET Nat
        /\ IsFiniteSet(DOMAIN vals \ B)
    <3>1. IsFiniteSet(0..(n - 1))
      BY FS_Interval
    <3>2. QED
      BY <3>1, FS_Subset
  <2>3. /\ DOMAIN Filtered(vals, DOMAIN vals \ B) = 1..Cardinality(DOMAIN vals \ B)
        /\ {Filtered(vals, DOMAIN vals \ B)[k].index :
              k \in DOMAIN Filtered(vals, DOMAIN vals \ B)} = DOMAIN vals \ B
        /\ \A k \in DOMAIN Filtered(vals, DOMAIN vals \ B) :
             Filtered(vals, DOMAIN vals \ B)[k].value
               = vals[Filtered(vals, DOMAIN vals \ B)[k].index]
        /\ \A j, k \in DOMAIN Filtered(vals, DOMAIN vals \ B) :
             j < k => Filtered(vals, DOMAIN vals \ B)[j].index
                        < Filtered(vals, DOMAIN vals \ B)[k].index
    BY <2>2, FilteredSorted
  <2>4. IsPartitionOf(Filtered(vals, DOMAIN vals \ B), DOMAIN vals \ B)
    BY <2>3 DEF IsPartitionOf
  <2>5. QED
    BY <2>1, <2>4
<1>7. QED
  BY <1>4, <1>5, <1>6 DEF PartitionMatchesRule

\* The inputs MCPartition enumerates: an array of up to MaxLen attributes
\* and an ascending list of its indices; no step changes them.
InputsOK ==
  /\ vals \in Arrays
  /\ blinded \in AscendingLists(Cardinality(DOMAIN vals))

\* Every array and blinded index list the model enumerates is partitioned
\* by getBlinded and getNonBlinded as spec section 4.1 requires.
THEOREM PartitionRuleHolds == Spec => []PartitionMatchesRule
<1>1. Init => InputsOK
  BY DEF Init, InputsOK
<1>2. InputsOK /\ [Next]_<<vals, blinded>> => InputsOK'
  BY DEF InputsOK, Next
<1>3. InputsOK => PartitionMatchesRule
  <2> SUFFICES ASSUME InputsOK PROVE PartitionMatchesRule
    OBVIOUS
  <2>1. PICK n \in 0..MaxLen :
          vals = [i \in 0..(n - 1) |-> [tag |-> "DV_INT", contents |-> 10 * i]]
    BY DEF InputsOK, Arrays
  <2>2. Cardinality(DOMAIN vals) = n
    <3>1. DOMAIN vals = 0..(n - 1)
      BY <2>1
    <3>2. n \in Nat /\ n - 1 \in Int
      BY DEF MaxLen
    <3>3. Cardinality(0..(n - 1)) = IF 0 > n - 1 THEN 0 ELSE (n - 1) - 0 + 1
      BY <3>2, FS_Interval
    <3>4. QED
      BY <3>1, <3>2, <3>3
  <2>3. QED
    BY <2>1, <2>2, PartitionRule DEF InputsOK, MaxLen
<1>4. QED
  BY <1>1, <1>2, <1>3, PTL DEF Spec
====
