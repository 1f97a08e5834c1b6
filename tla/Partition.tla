----------------------------- MODULE Partition -----------------------------
(***************************************************************************)
(* The attribute partition of blind signing (TestData.getBlinded,          *)
(* getNonBlinded and mkPair in vcp/test/TestData.ts).  A JavaScript array  *)
(* is a function on 0..n-1; reading past its end gives undefined.          *)
(***************************************************************************)
EXTENDS Naturals, Sequences, FiniteSets

Undefined == [tag |-> "undefined", contents |-> "undefined"]

\* vals[i] of a JavaScript array.
ArrayGet(vals, i) == IF i \in DOMAIN vals THEN vals[i] ELSE Undefined

\* mkPair: a CredAttrIndexAndDataValue.
mkPair(index, value) == [index |-> index, value |-> value]

\* getBlinded: blinded.map((i) => mkPair(i, vals[i])), in the list's order.
getBlinded(vals, blinded) ==
  [k \in 1..Len(blinded) |-> mkPair(blinded[k], ArrayGet(vals, blinded[k]))]

\* vals.map((v, i) => mkPair(i, v)): the array's pairs in index order.
IndexedPairs(vals) ==
  [k \in 1..Cardinality(DOMAIN vals) |-> mkPair(k - 1, vals[k - 1])]

\* The indices whose pair passes .filter, and the rank of such an index:
\* how many passing indices there are up to it.  .filter keeps the
\* passing elements in their order, so the k-th element it returns is the
\* pair of the index of rank k.
Rank(kept, i) == Cardinality({j \in kept : j <= i})
Filtered(vals, kept) ==
  [k \in 1..Cardinality(kept) |->
     LET i == CHOOSE i \in kept : Rank(kept, i) = k IN mkPair(i, vals[i])]

\* Mutant: the filter keeps the blinded pairs instead of dropping them.
getNonBlindedKeepsBlinded(vals, blinded) ==
  LET excludedIndices == {blinded[k] : k \in DOMAIN blinded}
  IN  Filtered(vals, {i \in DOMAIN vals : i \in excludedIndices})

\* getNonBlinded: vals.map((v, i) => mkPair(i, v)) filtered by
\* !excludedIndices.has(p.index), with excludedIndices = new Set(blinded).
getNonBlinded(vals, blinded) ==
  LET excludedIndices == {blinded[k] : k \in DOMAIN blinded}
  IN  Filtered(vals, {i \in DOMAIN vals : i \notin excludedIndices})
=============================================================================
