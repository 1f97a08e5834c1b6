---------------------------- MODULE MCPartition ----------------------------
(***************************************************************************)
(* getBlinded and getNonBlinded checked against the partitioning rule of  *)
(* the signing orchestrator, for every array of up to MaxLen attributes   *)
(* and every blinded index set, listed in ascending order as the fixture  *)
(* lists DL_BLINDED_INDICES and SUB_BLINDED_INDICES are.                  *)
(***************************************************************************)
EXTENDS Partition

MaxLen == 6

VARIABLES vals, blinded

\* Distinct attribute values, so that a pair carrying the wrong value shows.
Arrays == {[i \in 0..(n - 1) |-> [tag |-> "DV_INT", contents |-> 10 * i]] :
             n \in 0..MaxLen}
\* Index lists in ascending order without repetition, over 0..n-1.
AscendingLists(n) ==
  UNION {{s \in [1..k -> 0..(n - 1)] : \A i, j \in 1..k : i < j => s[i] < s[j]} :
           k \in 0..n}

Init ==
  /\ vals \in Arrays
  /\ blinded \in AscendingLists(Cardinality(DOMAIN vals))

Next == UNCHANGED <<vals, blinded>>

Spec == Init /\ [][Next]_<<vals, blinded>>

\* One side of the partition per the rule: the pairs of exactly the indices
\* in S, each with its value, in the order of the original value sequence.
IsPartitionOf(s, S) ==
  /\ {s[k].index : k \in DOMAIN s} = S
  /\ \A k \in DOMAIN s : s[k].value = vals[s[k].index]
  /\ \A j, k \in DOMAIN s : j < k => s[j].index < s[k].index

\* Spec section 4.1 and 'partition completeness' (section 8): index i is in
\* the blinded partition iff i is a blinded index, both partitions follow
\* the original order, and together they cover every index exactly once.
PartitionMatchesRule ==
  LET B == {blinded[k] : k \in DOMAIN blinded}
  IN  /\ IsPartitionOf(getBlinded(vals, blinded), B)
      /\ IsPartitionOf(getNonBlinded(vals, blinded), DOMAIN vals \ B)
=============================================================================
