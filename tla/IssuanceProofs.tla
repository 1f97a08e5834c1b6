--------------------------- MODULE IssuanceProofs ---------------------------
(***************************************************************************)
(* Proofs about Issuance: every reachable state is well typed, and the    *)
(* code's issuance implements the abstract one (round-trip signing), for  *)
(* every set of launches.                                                 *)
(***************************************************************************)
EXTENDS Issuance, FiniteSetTheorems, TLAPS

Statuses == {"running", "resolved", "rejected"}

\* The position of the call <<op, c>> in Calls(l), 0 if l never makes it.
Pos(l, op, c) ==
  LET i == IF c = DL THEN 1 ELSE 2
  IN  IF SigTypeOf(l) = "NonBlinded"
      THEN IF op = "createSignerData" THEN i
           ELSE IF op = "sign" THEN 2 + i
           ELSE 0
      ELSE IF op = "createSignerData" THEN i
           ELSE IF op = "createBlindSigningInfo" THEN 2 + i
           ELSE IF op = "signWithBlindedAttributes" THEN 4 + i
           ELSE IF op = "unblindBlindedSignature" THEN 6 + i
           ELSE 0

\* The call <<op, c>> of launch l has returned.
Done(l, op, c) ==
  /\ Pos(l, op, c) # 0
  /\ Pos(l, op, c) < pc[l] \/ status[l] = "resolved"

\* What a correct engine answers to each call of launch l.
SD(l, c) ==
  SignerDataResp(LibOf(l), SIGNER_RNG[c], CTs[c],
                 IF SigTypeOf(l) = "NonBlinded" THEN <<>> ELSE BLINDED_INDICES[c])
BSI(l, c) ==
  BlindSigningInfoResp(SD(l, c).signerPublicData,
                       getBlinded(Vals[c], BLINDED_INDICES[c]))
BSIG(l, c) ==
  SignWithBlindedResp(SD(l, c), getNonBlinded(Vals[c], BLINDED_INDICES[c]),
                      BSI(l, c).blindInfoForSigner)
\* The signature both modes must end with: by c's signer, over c's values.
SIG(l, c) == Abs!Signature(SD(l, c).signerPublicData, Vals[c])

SDs   == [l \in Launches |-> [c \in Creds |-> SD(l, c)]]
BSIs  == [l \in Launches |-> [c \in Creds |-> BSI(l, c)]]
BSIGs == [l \in Launches |-> [c \in Creds |-> BSIG(l, c)]]
SIGs  == [l \in Launches |-> [c \in Creds |-> SIG(l, c)]]

\* A per-launch, per-credential variable set by the calls of operations
\* ops: it holds resp[l][c] once one of them returned, undefined before.
ExpOf(ops, resp) ==
  [l \in Launches |-> [c \in Creds |->
     IF \E op \in ops : Done(l, op, c) THEN resp[l][c] ELSE Undefined]]

ExpSd   == ExpOf({"createSignerData"}, SDs)
ExpBsi  == ExpOf({"createBlindSigningInfo"}, BSIs)
ExpBsig == ExpOf({"signWithBlindedAttributes"}, BSIGs)
ExpSig  == ExpOf({"sign", "unblindBlindedSignature"}, SIGs)
CorrectSards(l) == [c \in Creds |-> [signature |-> SIG(l, c), values |-> Vals[c]]]
CorrectShared(l) == SharedOf(SD(l, DL).signerPublicData, SD(l, SUB).signerPublicData)
ExpSards  == [l \in Launches |->
               IF status[l] = "resolved" THEN CorrectSards(l)
                                         ELSE [c \in Creds |-> EmptySard]]
ExpShared == [l \in Launches |->
               IF status[l] = "resolved" THEN CorrectShared(l) ELSE EmptyShared]

\* The inductive invariant: each launch holds exactly the answers of the
\* calls it has made, a resolved launch has made them all, and only a
\* rejected launch holds an error, one of the call it awaited.
IInv ==
  /\ pc \in [Launches -> Nat]
  /\ status \in [Launches -> Statuses]
  /\ \A l \in Launches :
       /\ pc[l] \in 1..Len(Calls(l))
       /\ status[l] = "resolved" => pc[l] = Len(Calls(l))
  /\ sd = ExpSd
  /\ bsi = ExpBsi
  /\ bsig = ExpBsig
  /\ sig = ExpSig
  /\ sards = ExpSards
  /\ shared = ExpShared
  /\ err \in [Launches -> {NoError} \cup UNION {ErrorsOf(op) : op \in IssueOps}]
  /\ \A l \in Launches :
       IF status[l] = "rejected" THEN err[l] \in ErrorsOf(Calls(l)[pc[l]][1])
                                 ELSE err[l] = NoError

\* A step of launch l in which exactly the call <<op, c>> returns.
DoneStep(l, op, c) ==
  \A l2 \in Launches : \A op2 : \A c2 \in Creds :
    Done(l2, op2, c2)' <=> Done(l2, op2, c2) \/ (l2 = l /\ op2 = op /\ c2 = c)

\* The registry Resolve builds for the signers pub, and the credential
\* whose signer-public label it files each signer under.
CredOf(lbl) == CHOOSE c \in Creds : SIGNER_PUBLIC[c] = lbl
AbsShared(pub) ==
  [lbl \in {SIGNER_PUBLIC[c] : c \in Creds} |-> MkSPVOneText(JSONStringify(pub[CredOf(lbl)]))]

-----------------------------------------------------------------------------
(***************************************************************************)
(* Lemmas about the partition operators and the engine's answers.         *)
(***************************************************************************)

\* .filter keeping a single index returns the one pair of that index.
LEMMA FilteredSingleton ==
  ASSUME NEW vals, NEW x \in Nat
  PROVE  Filtered(vals, {x}) = <<mkPair(x, vals[x])>>
<1>1. Cardinality({x}) = 1
  BY FS_Singleton
<1>2. Rank({x}, x) = 1
  <2>1. {j \in {x} : j <= x} = {x}
    OBVIOUS
  <2>2. QED
    BY <1>1, <2>1 DEF Rank
<1>3. (CHOOSE y \in {x} : Rank({x}, y) = 1) = x
  BY <1>2
<1>4. \A k \in 1..Cardinality({x}) : (CHOOSE y \in {x} : Rank({x}, y) = k) = x
  BY <1>1, <1>3
<1>5. Filtered(vals, {x}) = [k \in 1..1 |-> mkPair(x, vals[x])]
  <2>1. DOMAIN Filtered(vals, {x}) = 1..1
    BY <1>1 DEF Filtered
  <2>2. \A k \in 1..1 : Filtered(vals, {x})[k] = mkPair(x, vals[x])
    BY <1>1, <1>4 DEF Filtered
  <2>3. Filtered(vals, {x}) = [k \in DOMAIN Filtered(vals, {x}) |-> Filtered(vals, {x})[k]]
    BY DEF Filtered
  <2>4. QED
    BY <2>1, <2>2, <2>3
<1>6. QED
  BY <1>5

\* The array's pairs in index order are the pairs of its indices.
LEMMA IndexedPairsSet ==
  ASSUME NEW vals, NEW n \in Nat, DOMAIN vals = 0..(n - 1)
  PROVE  PairSet(IndexedPairs(vals)) = Abs!SignedPairs(vals)
<1>1. Cardinality(DOMAIN vals) = n
  BY FS_Interval
<1>2. QED
  <2>1. ASSUME NEW k \in 1..n PROVE k - 1 \in DOMAIN vals
    OBVIOUS
  <2>2. ASSUME NEW i \in DOMAIN vals PROVE i + 1 \in 1..n /\ (i + 1) - 1 = i
    OBVIOUS
  <2>3. QED
    BY <1>1, <2>1, <2>2 DEF PairSet, IndexedPairs, Abs!SignedPairs, mkPair

\* The fixtures: each credential's value array and its blinded indices.
LEMMA FixtureShape ==
  ASSUME NEW c \in Creds
  PROVE  \E n \in Nat :
           /\ DOMAIN Vals[c] = 0..n
           /\ BLINDED_INDICES[c] \in Seq(Nat)
           /\ {BLINDED_INDICES[c][k] : k \in DOMAIN BLINDED_INDICES[c]} = 1..n
<1>1. CASE c = DL
  <2>1. DOMAIN Vals[c] = 0..4 /\ BLINDED_INDICES[c] = <<1, 2, 3, 4>>
    BY <1>1 DEF Vals, PerCred, DVals, BLINDED_INDICES, Creds
  <2>2. {<<1, 2, 3, 4>>[k] : k \in DOMAIN <<1, 2, 3, 4>>} = 1..4
    OBVIOUS
  <2>3. QED
    BY <2>1, <2>2
<1>2. CASE c = SUB
  <2>1. DOMAIN Vals[c] = 0..3 /\ BLINDED_INDICES[c] = <<1, 2, 3>>
    BY <1>2 DEF Vals, PerCred, SVals, BLINDED_INDICES, Creds, DL, SUB
  <2>2. {<<1, 2, 3>>[k] : k \in DOMAIN <<1, 2, 3>>} = 1..3
    OBVIOUS
  <2>3. QED
    BY <2>1, <2>2
<1>3. QED
  BY <1>1, <1>2 DEF Creds

\* Partition completeness for an array whose blinded indices are all but
\* index 0, as in both fixtures: the two partitions together hold every
\* pair of the array.
LEMMA PartitionCovers ==
  ASSUME NEW vals, NEW n \in Nat, DOMAIN vals = 0..n,
         NEW blinded \in Seq(Nat), {blinded[k] : k \in DOMAIN blinded} = 1..n
  PROVE  PairSet(getNonBlinded(vals, blinded)) \cup PairSet(getBlinded(vals, blinded))
           = Abs!SignedPairs(vals)
<1>1. {i \in DOMAIN vals : i \notin {blinded[k] : k \in DOMAIN blinded}} = {0}
  OBVIOUS
<1>2. PairSet(getNonBlinded(vals, blinded)) = {mkPair(0, vals[0])}
  <2>1. getNonBlinded(vals, blinded) = <<mkPair(0, vals[0])>>
    BY <1>1, FilteredSingleton DEF getNonBlinded
  <2>2. QED
    BY <2>1 DEF PairSet
<1>3. PairSet(getBlinded(vals, blinded)) = {mkPair(i, vals[i]) : i \in 1..n}
  <2>1. \A k \in DOMAIN blinded : blinded[k] \in DOMAIN vals
    OBVIOUS
  <2>2. PairSet(getBlinded(vals, blinded))
          = {mkPair(blinded[k], vals[blinded[k]]) : k \in DOMAIN blinded}
    <3>1. DOMAIN getBlinded(vals, blinded) = DOMAIN blinded
      BY DEF getBlinded
    <3>2. \A k \in DOMAIN blinded :
            getBlinded(vals, blinded)[k] = mkPair(blinded[k], vals[blinded[k]])
      BY <2>1 DEF getBlinded, ArrayGet
    <3>3. QED
      BY <3>1, <3>2 DEF PairSet
  <2>3. {mkPair(blinded[k], vals[blinded[k]]) : k \in DOMAIN blinded}
          = {mkPair(i, vals[i]) : i \in {blinded[k] : k \in DOMAIN blinded}}
    OBVIOUS
  <2>4. QED
    BY <2>2, <2>3
<1>4. QED
  BY <1>2, <1>3 DEF Abs!SignedPairs, mkPair

(***************************************************************************)
(* Lemmas about the call list of a launch and the positions in it.        *)
(***************************************************************************)

\* Calls(l) lists each of its calls once, at the position Pos gives it,
\* and Pos gives 0 to every call a launch never makes.
LEMMA CallsShape ==
  ASSUME NEW l
  PROVE  /\ Len(Calls(l)) \in {4, 8}
         /\ \A k \in 1..Len(Calls(l)) :
              /\ Calls(l)[k][1] \in IssueOps
              /\ Calls(l)[k][2] \in Creds
              /\ Pos(l, Calls(l)[k][1], Calls(l)[k][2]) = k
         /\ \A op : \A c \in Creds : Pos(l, op, c) \in 0..Len(Calls(l))
         /\ \A op1, op2 : \A c1, c2 \in Creds :
              Pos(l, op1, c1) # 0 /\ Pos(l, op1, c1) = Pos(l, op2, c2)
                => op1 = op2 /\ c1 = c2
<1>1. CASE SigTypeOf(l) = "NonBlinded"
  <2>1. Len(Calls(l)) = 4
    BY <1>1 DEF Calls
  <2>2. \A k \in 1..4 :
          /\ Calls(l)[k][1] \in IssueOps
          /\ Calls(l)[k][2] \in Creds
          /\ Pos(l, Calls(l)[k][1], Calls(l)[k][2]) = k
    BY <1>1 DEF Calls, IssueOps, Creds, Pos, DL, SUB
  <2>3. \A op : \A c \in Creds : Pos(l, op, c) \in 0..4
    BY <1>1 DEF Pos
  <2>4. \A op1, op2 : \A c1, c2 \in Creds :
          Pos(l, op1, c1) # 0 /\ Pos(l, op1, c1) = Pos(l, op2, c2)
            => op1 = op2 /\ c1 = c2
    BY <1>1 DEF Pos, Creds, DL, SUB
  <2>5. QED
    BY <2>1, <2>2, <2>3, <2>4
<1>2. CASE SigTypeOf(l) # "NonBlinded"
  <2>1. Len(Calls(l)) = 8
    BY <1>2 DEF Calls
  <2>2. \A k \in 1..8 :
          /\ Calls(l)[k][1] \in IssueOps
          /\ Calls(l)[k][2] \in Creds
          /\ Pos(l, Calls(l)[k][1], Calls(l)[k][2]) = k
    BY <1>2 DEF Calls, IssueOps, Creds, Pos, DL, SUB
  <2>3. \A op : \A c \in Creds : Pos(l, op, c) \in 0..8
    BY <1>2 DEF Pos
  <2>4. \A op1, op2 : \A c1, c2 \in Creds :
          Pos(l, op1, c1) # 0 /\ Pos(l, op1, c1) = Pos(l, op2, c2)
            => op1 = op2 /\ c1 = c2
    BY <1>2 DEF Pos, Creds, DL, SUB
  <2>5. QED
    BY <2>1, <2>2, <2>3, <2>4
<1>3. QED
  BY <1>1, <1>2


\* The call a running launch awaits sits at its pc.
LEMMA AwaitsPos ==
  ASSUME IInv, NEW l \in Launches, NEW op, NEW c, Awaits(l, op, c)
  PROVE  /\ Pos(l, op, c) = pc[l]
         /\ op \in IssueOps
         /\ c \in Creds
         /\ status[l] = "running"
<1>1. pc[l] \in 1..Len(Calls(l))
  BY DEF IInv
<1>2. Calls(l)[pc[l]] = <<op, c>> /\ status[l] = "running"
  BY DEF Awaits
<1>3. QED
  BY <1>1, <1>2, CallsShape

\* When the awaited call returns, exactly that call becomes done: the
\* launch moves to its next call, or resolves after its last one.
LEMMA ReturnedStep ==
  ASSUME IInv, NEW l \in Launches, NEW op, NEW c, Awaits(l, op, c), Returned(l)
  PROVE  /\ pc' \in [Launches -> Nat]
         /\ status' \in [Launches -> Statuses]
         /\ \A l2 \in Launches :
              /\ pc'[l2] \in 1..Len(Calls(l2))
              /\ status'[l2] = "resolved" => pc'[l2] = Len(Calls(l2))
         /\ \A l2 \in Launches \ {l} : pc'[l2] = pc[l2] /\ status'[l2] = status[l2]
         /\ status'[l] \in {"running", "resolved"}
         /\ DoneStep(l, op, c)
<1>1. /\ Pos(l, op, c) = pc[l]
      /\ c \in Creds
      /\ status[l] = "running"
      /\ pc[l] \in 1..Len(Calls(l))
  BY AwaitsPos DEF IInv
<1>2. \A op2 : \A c2 \in Creds :
        /\ Pos(l, op2, c2) \in 0..Len(Calls(l))
        /\ Pos(l, op2, c2) = pc[l] <=> op2 = op /\ c2 = c
  BY <1>1, CallsShape
<1>3. CASE pc[l] = Len(Calls(l))
  <2>1. /\ pc' = pc
        /\ status' = [status EXCEPT ![l] = "resolved"]
    BY <1>3 DEF Returned, Joined
  <2>2. ASSUME NEW l2 \in Launches, NEW op2, NEW c2 \in Creds
        PROVE  Done(l2, op2, c2)' <=> Done(l2, op2, c2) \/ (l2 = l /\ op2 = op /\ c2 = c)
    <3>1. CASE l2 # l
      BY <3>1, <2>1 DEF Done, IInv
    <3>2. CASE l2 = l
      <4>1. Done(l2, op2, c2)' <=> Pos(l, op2, c2) # 0
        BY <3>2, <2>1 DEF Done, IInv
      <4>2. Done(l2, op2, c2) <=> Pos(l, op2, c2) # 0 /\ Pos(l, op2, c2) < pc[l]
        BY <3>2, <1>1 DEF Done
      <4>3. QED
        BY <4>1, <4>2, <3>2, <1>1, <1>2, <1>3
    <3>3. QED
      BY <3>1, <3>2
  <2>3. QED
    BY <2>1, <2>2, <1>1, <1>3 DEF IInv, Statuses, DoneStep
<1>4. CASE pc[l] # Len(Calls(l))
  <2>1. /\ pc' = [pc EXCEPT ![l] = @ + 1]
        /\ status' = status
    BY <1>4 DEF Returned
  <2>2. ASSUME NEW l2 \in Launches, NEW op2, NEW c2 \in Creds
        PROVE  Done(l2, op2, c2)' <=> Done(l2, op2, c2) \/ (l2 = l /\ op2 = op /\ c2 = c)
    <3>1. CASE l2 # l
      BY <3>1, <2>1 DEF Done, IInv
    <3>2. CASE l2 = l
      <4>1. Done(l2, op2, c2)' <=> Pos(l, op2, c2) # 0 /\ Pos(l, op2, c2) < pc[l] + 1
        BY <3>2, <2>1, <1>1 DEF Done, IInv
      <4>2. Done(l2, op2, c2) <=> Pos(l, op2, c2) # 0 /\ Pos(l, op2, c2) < pc[l]
        BY <3>2, <1>1 DEF Done
      <4>3. QED
        BY <4>1, <4>2, <3>2, <1>1, <1>2
    <3>3. QED
      BY <3>1, <3>2
  <2>3. QED
    BY <2>1, <2>2, <1>1, <1>4 DEF IInv, Statuses, DoneStep
<1>5. QED
  BY <1>3, <1>4


\* A variable set by other operations than the returning call's keeps
\* what the invariant expects of it.
LEMMA ExpUnchanged ==
  ASSUME NEW l, NEW op, NEW c, DoneStep(l, op, c), NEW ops, op \notin ops, NEW resp
  PROVE  ExpOf(ops, resp)' = ExpOf(ops, resp)
<1>1. \A l2 \in Launches : \A c2 \in Creds :
        (\E op2 \in ops : Done(l2, op2, c2)') <=> (\E op2 \in ops : Done(l2, op2, c2))
  BY DEF DoneStep
<1>2. QED
  BY <1>1 DEF ExpOf

\* The variable the returning call sets, set to the expected answer, is
\* what the invariant expects of it after the step.
LEMMA ExpUpdated ==
  ASSUME NEW l \in Launches, NEW op, NEW c \in Creds, DoneStep(l, op, c),
         NEW ops, op \in ops, NEW resp, NEW x, x = ExpOf(ops, resp)
  PROVE  [x EXCEPT ![l][c] = resp[l][c]] = ExpOf(ops, resp)'
<1>1. \A l2 \in Launches : \A c2 \in Creds :
        (\E op2 \in ops : Done(l2, op2, c2)') <=>
          (\E op2 \in ops : Done(l2, op2, c2)) \/ (l2 = l /\ c2 = c)
  BY DEF DoneStep
<1>2. QED
  BY <1>1 DEF ExpOf

\* After the last call, sards and shared hold the signatures and the
\* signers' public data; before it they keep their initial values.
LEMMA ReturnedSards ==
  ASSUME IInv, NEW l \in Launches, NEW op, NEW c, Awaits(l, op, c), Returned(l),
         sig' = ExpSig'
  PROVE  sards' = ExpSards' /\ shared' = ExpShared'
<1>1. \A l2 \in Launches \ {l} : status'[l2] = status[l2]
  BY ReturnedStep
<1>0. pc[l] \in 1..Len(Calls(l)) /\ Len(Calls(l)) \in {4, 8}
  BY CallsShape DEF IInv
<1>2. CASE pc[l] = Len(Calls(l))
  <2>1. /\ status' = [status EXCEPT ![l] = "resolved"]
        /\ sards' = [sards EXCEPT ![l] =
                      [c2 \in Creds |-> [signature |-> sig'[l][c2], values |-> Vals[c2]]]]
        /\ shared' = [shared EXCEPT ![l] = SharedOf(sd[l][DL].signerPublicData,
                                                    sd[l][SUB].signerPublicData)]
    BY <1>2 DEF Returned, Joined
  <2>2. \A c2 \in Creds : Done(l, "sign", c2)' \/ Done(l, "unblindBlindedSignature", c2)'
    BY <2>1 DEF Done, Pos, IInv
  <2>3. \A c2 \in Creds : sig'[l][c2] = SIG(l, c2)
    BY <2>2 DEF ExpSig, ExpOf, SIGs
  <2>4. \A c2 \in Creds : Done(l, "createSignerData", c2)
    <3>1. \A c2 \in Creds : Pos(l, "createSignerData", c2) \in {1, 2}
      BY DEF Pos
    <3>2. pc[l] \in {4, 8}
      BY <1>0, <1>2
    <3>3. QED
      BY <3>1, <3>2 DEF Done
  <2>5. sd[l][DL] = SD(l, DL) /\ sd[l][SUB] = SD(l, SUB)
    BY <2>4 DEF IInv, ExpSd, ExpOf, SDs, Creds
  <2>6. sards' = ExpSards'
    <3>1. [c2 \in Creds |-> [signature |-> sig'[l][c2], values |-> Vals[c2]]]
            = CorrectSards(l)
      BY <2>3 DEF CorrectSards
    <3>2. status'[l] = "resolved" /\ status \in [Launches -> Statuses]
      BY <2>1 DEF IInv
    <3>3. sards = ExpSards
      BY DEF IInv
    <3>4. QED
      BY <1>1, <2>1, <3>1, <3>2, <3>3 DEF ExpSards
  <2>7. shared' = ExpShared'
    BY <1>1, <2>1, <2>5 DEF IInv, ExpShared, CorrectShared
  <2>8. QED
    BY <2>6, <2>7
<1>3. CASE pc[l] # Len(Calls(l))
  <2>1. UNCHANGED <<status, sards, shared>>
    BY <1>3 DEF Returned
  <2>2. QED
    BY <2>1 DEF IInv, ExpSards, ExpShared
<1>4. QED
  BY <1>2, <1>3


(***************************************************************************)
(* Round-trip signing: the engine's answers, chained the way              *)
(* createSignerDataAndSignatures chains them, give in both modes the      *)
(* signature by the credential's signer over exactly its values.          *)
(***************************************************************************)

\* NonBlinded: sign over vals.map((v, i) => mkPair(i, v)).
LEMMA SignRoundTrip ==
  ASSUME NEW l, NEW c \in Creds
  PROVE  SignResp(SD(l, c), Vals[c]) = SIG(l, c)
<1>1. PICK n \in Nat : DOMAIN Vals[c] = 0..n
  BY FixtureShape
<1>2. PairSet(IndexedPairs(Vals[c])) = Abs!SignedPairs(Vals[c])
  <2>1. n + 1 \in Nat /\ DOMAIN Vals[c] = 0..((n + 1) - 1)
    BY <1>1
  <2>2. QED
    BY <2>1, IndexedPairsSet
<1>3. QED
  BY <1>2 DEF SignResp, SIG, Abs!Signature

\* Blinded: the blind signature over the commitment and the non-blinded
\* pairs, unblinded with the blinded pairs, is the signature over all of
\* them.
LEMMA UnblindRoundTrip ==
  ASSUME NEW l, NEW c \in Creds
  PROVE  /\ BSIG(l, c) = SIG(l, c)
         /\ UnblindResp(CTs[c], getBlinded(Vals[c], BLINDED_INDICES[c]),
                        BSI(l, c).infoForUnblinding, BSIG(l, c)) = SIG(l, c)
<1>1. PICK n \in Nat :
        /\ DOMAIN Vals[c] = 0..n
        /\ BLINDED_INDICES[c] \in Seq(Nat)
        /\ {BLINDED_INDICES[c][k] : k \in DOMAIN BLINDED_INDICES[c]} = 1..n
  BY FixtureShape
<1>2. PairSet(getNonBlinded(Vals[c], BLINDED_INDICES[c]))
        \cup PairSet(getBlinded(Vals[c], BLINDED_INDICES[c]))
        = Abs!SignedPairs(Vals[c])
  BY <1>1, PartitionCovers
<1>3. BSIG(l, c) = SIG(l, c)
  BY <1>2 DEF BSIG, SignWithBlindedResp, BSI, BlindSigningInfoResp, SIG, Abs!Signature
<1>4. SIG(l, c) # Invalid
  <2>1. DOMAIN SIG(l, c) = {"signer", "pairs"} /\ DOMAIN Invalid = {"invalid"}
    BY DEF SIG, Abs!Signature, Invalid
  <2>2. QED
    BY <2>1
<1>5. SD(l, c).signerPublicData.cts = CTs[c]
  BY DEF SD, SignerDataResp
<1>6. QED
  BY <1>3, <1>4, <1>5 DEF UnblindResp, BSI, BlindSigningInfoResp, SIG, Abs!Signature


(***************************************************************************)
(* The invariant holds initially and every step preserves it.             *)
(***************************************************************************)

\* Before any call returned, the invariant expects every variable
\* undefined.
LEMMA ExpOfInit ==
  ASSUME NEW ops, NEW resp, \A l \in Launches : \A op : \A c \in Creds : ~Done(l, op, c)
  PROVE  ExpOf(ops, resp) = [l \in Launches |-> [c \in Creds |-> Undefined]]
BY DEF ExpOf

LEMMA InitIInv == Init => IInv
<1> SUFFICES ASSUME Init PROVE IInv
  OBVIOUS
<1>1. \A l \in Launches : 1 \in 1..Len(Calls(l))
  BY CallsShape
<1>2. \A l \in Launches : \A op : \A c \in Creds : ~Done(l, op, c)
  <2>1. \A l \in Launches : \A op : \A c \in Creds : Pos(l, op, c) \in Nat
    BY DEF Pos
  <2>2. \A l \in Launches : pc[l] = 1 /\ status[l] = "running"
    BY DEF Init
  <2>3. QED
    BY <2>1, <2>2 DEF Done
<1>3. /\ sd = ExpSd
      /\ bsi = ExpBsi
      /\ bsig = ExpBsig
      /\ sig = ExpSig
  BY <1>2, ExpOfInit DEF Init, ExpSd, ExpBsi, ExpBsig, ExpSig
<1>4. sards = ExpSards /\ shared = ExpShared
  BY DEF Init, ExpSards, ExpShared
<1>5. QED
  BY <1>1, <1>3, <1>4 DEF Init, IInv, Statuses

\* A call returning with the variables it set as the invariant expects
\* them preserves the invariant.
LEMMA CallStepIInv ==
  ASSUME IInv, NEW l \in Launches, NEW op, NEW c, Awaits(l, op, c), Returned(l),
         UNCHANGED err,
         sd' = ExpSd', bsi' = ExpBsi', bsig' = ExpBsig', sig' = ExpSig'
  PROVE  IInv'
<1>1. /\ pc' \in [Launches -> Nat]
      /\ status' \in [Launches -> Statuses]
      /\ \A l2 \in Launches :
           /\ pc'[l2] \in 1..Len(Calls(l2))
           /\ status'[l2] = "resolved" => pc'[l2] = Len(Calls(l2))
      /\ \A l2 \in Launches \ {l} : pc'[l2] = pc[l2] /\ status'[l2] = status[l2]
      /\ status'[l] \in {"running", "resolved"}
  BY ReturnedStep
<1>2. sards' = ExpSards' /\ shared' = ExpShared'
  BY ReturnedSards
<1>3. err[l] = NoError
  BY AwaitsPos DEF IInv
<1>4. \A l2 \in Launches :
        IF status'[l2] = "rejected" THEN err'[l2] \in ErrorsOf(Calls(l2)[pc'[l2]][1])
                                    ELSE err'[l2] = NoError
  BY <1>1, <1>3 DEF IInv
<1>5. QED
  BY <1>1, <1>2, <1>4 DEF IInv


\* A call of credential c that comes before the awaited one has returned.
LEMMA EarlierDone ==
  ASSUME IInv, NEW l \in Launches, NEW op, NEW c, Awaits(l, op, c),
         NEW op2, Pos(l, op2, c) # 0, Pos(l, op2, c) < Pos(l, op, c)
  PROVE  Done(l, op2, c)
BY AwaitsPos DEF Done

\* createSignerData returns the signer data of the launch's library, the
\* credential's seed and claim types, and the mode's blinded indices.
LEMMA CreateSignerDataIInv ==
  ASSUME IInv, NEW l \in Launches, NEW c \in Creds, CreateSignerData(l, c)
  PROVE  IInv'
<1>1. /\ Awaits(l, "createSignerData", c)
      /\ Returned(l)
      /\ UNCHANGED <<bsi, bsig, sig, err>>
  BY DEF CreateSignerData
<1>2. DoneStep(l, "createSignerData", c)
  BY <1>1, ReturnedStep
<1>3. sd' = ExpSd'
  <2>1. sd' = [sd EXCEPT ![l][c] = SDs[l][c]]
    BY DEF CreateSignerData, SDs, SD
  <2>2. [sd EXCEPT ![l][c] = SDs[l][c]] = ExpOf({"createSignerData"}, SDs)'
    <3>1. sd = ExpOf({"createSignerData"}, SDs) /\ "createSignerData" \in {"createSignerData"}
      BY DEF IInv, ExpSd
    <3>2. QED
      BY <1>2, <3>1, ExpUpdated
  <2>3. QED
    BY <2>1, <2>2 DEF ExpSd
<1>4. bsi' = ExpBsi'
  <2>1. ExpOf({"createBlindSigningInfo"}, BSIs)' = ExpOf({"createBlindSigningInfo"}, BSIs)
    BY <1>2, ExpUnchanged
  <2>2. QED
    BY <1>1, <2>1 DEF IInv, ExpBsi
<1>5. bsig' = ExpBsig'
  <2>1. ExpOf({"signWithBlindedAttributes"}, BSIGs)' = ExpOf({"signWithBlindedAttributes"}, BSIGs)
    BY <1>2, ExpUnchanged
  <2>2. QED
    BY <1>1, <2>1 DEF IInv, ExpBsig
<1>6. sig' = ExpSig'
  <2>1. ExpOf({"sign", "unblindBlindedSignature"}, SIGs)'
          = ExpOf({"sign", "unblindBlindedSignature"}, SIGs)
    BY <1>2, ExpUnchanged
  <2>2. QED
    BY <1>1, <2>1 DEF IInv, ExpSig
<1>7. QED
  BY <1>1, <1>3, <1>4, <1>5, <1>6, CallStepIInv


\* The answers of a credential's earlier calls, which later calls pass
\* back to the engine, are the expected ones.
LEMMA EarlierAnswers ==
  ASSUME IInv, NEW l \in Launches, NEW op, NEW c \in Creds, Awaits(l, op, c)
  PROVE  /\ op # "createSignerData" => sd[l][c] = SD(l, c)
         /\ op \in {"signWithBlindedAttributes", "unblindBlindedSignature"}
              => bsi[l][c] = BSI(l, c)
         /\ op = "unblindBlindedSignature" => bsig[l][c] = BSIG(l, c)
<1>1. Pos(l, op, c) # 0
  BY AwaitsPos DEF IInv
<1>2. op # "createSignerData" => sd[l][c] = SD(l, c)
  <2>1. op # "createSignerData" =>
          Pos(l, "createSignerData", c) # 0 /\ Pos(l, "createSignerData", c) < Pos(l, op, c)
    BY <1>1 DEF Pos
  <2>2. op # "createSignerData" => Done(l, "createSignerData", c)
    BY <2>1, EarlierDone
  <2>3. QED
    BY <2>2 DEF IInv, ExpSd, ExpOf, SDs
<1>3. op \in {"signWithBlindedAttributes", "unblindBlindedSignature"} => bsi[l][c] = BSI(l, c)
  <2>1. op \in {"signWithBlindedAttributes", "unblindBlindedSignature"} =>
          /\ Pos(l, "createBlindSigningInfo", c) # 0
          /\ Pos(l, "createBlindSigningInfo", c) < Pos(l, op, c)
    BY <1>1 DEF Pos
  <2>2. op \in {"signWithBlindedAttributes", "unblindBlindedSignature"} =>
          Done(l, "createBlindSigningInfo", c)
    BY <2>1, EarlierDone
  <2>3. QED
    BY <2>2 DEF IInv, ExpBsi, ExpOf, BSIs
<1>4. op = "unblindBlindedSignature" => bsig[l][c] = BSIG(l, c)
  <2>1. op = "unblindBlindedSignature" =>
          /\ Pos(l, "signWithBlindedAttributes", c) # 0
          /\ Pos(l, "signWithBlindedAttributes", c) < Pos(l, op, c)
    BY <1>1 DEF Pos
  <2>2. op = "unblindBlindedSignature" => Done(l, "signWithBlindedAttributes", c)
    BY <2>1, EarlierDone
  <2>3. QED
    BY <2>2 DEF IInv, ExpBsig, ExpOf, BSIGs
<1>5. QED
  BY <1>2, <1>3, <1>4

\* sign, given the signer data, returns the signature over the values.
LEMMA SignIInv ==
  ASSUME IInv, NEW l \in Launches, NEW c \in Creds, Sign(l, c)
  PROVE  IInv'
<1>1. /\ Awaits(l, "sign", c)
      /\ Returned(l)
      /\ UNCHANGED <<sd, bsi, bsig, err>>
  BY DEF Sign
<1>2. DoneStep(l, "sign", c)
  BY <1>1, ReturnedStep
<1>3. sig' = ExpSig'
  <2>1. sig' = [sig EXCEPT ![l][c] = SIGs[l][c]]
    <3>1. sd[l][c] = SD(l, c)
      BY <1>1, EarlierAnswers
    <3>2. QED
      BY <3>1, SignRoundTrip DEF Sign, SIGs
  <2>2. [sig EXCEPT ![l][c] = SIGs[l][c]] = ExpOf({"sign", "unblindBlindedSignature"}, SIGs)'
    <3>1. sig = ExpOf({"sign", "unblindBlindedSignature"}, SIGs) /\ "sign" \in {"sign", "unblindBlindedSignature"}
      BY DEF IInv, ExpSig
    <3>2. QED
      BY <1>2, <3>1, ExpUpdated
  <2>3. QED
    BY <2>1, <2>2 DEF ExpSig
<1>4. sd' = ExpSd'
  <2>1. ExpOf({"createSignerData"}, SDs)' = ExpOf({"createSignerData"}, SDs)
    BY <1>2, ExpUnchanged
  <2>2. QED
    BY <1>1, <2>1 DEF IInv, ExpSd
<1>5. bsi' = ExpBsi'
  <2>1. ExpOf({"createBlindSigningInfo"}, BSIs)' = ExpOf({"createBlindSigningInfo"}, BSIs)
    BY <1>2, ExpUnchanged
  <2>2. QED
    BY <1>1, <2>1 DEF IInv, ExpBsi
<1>6. bsig' = ExpBsig'
  <2>1. ExpOf({"signWithBlindedAttributes"}, BSIGs)' = ExpOf({"signWithBlindedAttributes"}, BSIGs)
    BY <1>2, ExpUnchanged
  <2>2. QED
    BY <1>1, <2>1 DEF IInv, ExpBsig
<1>7. QED
  BY <1>1, <1>3, <1>4, <1>5, <1>6, CallStepIInv

\* createBlindSigningInfo commits to the blinded pairs for the signer.
LEMMA CreateBlindSigningInfoIInv ==
  ASSUME IInv, NEW l \in Launches, NEW c \in Creds, CreateBlindSigningInfo(l, c)
  PROVE  IInv'
<1>1. /\ Awaits(l, "createBlindSigningInfo", c)
      /\ Returned(l)
      /\ UNCHANGED <<sd, bsig, sig, err>>
  BY DEF CreateBlindSigningInfo
<1>2. DoneStep(l, "createBlindSigningInfo", c)
  BY <1>1, ReturnedStep
<1>3. bsi' = ExpBsi'
  <2>1. bsi' = [bsi EXCEPT ![l][c] = BSIs[l][c]]
    <3>1. sd[l][c] = SD(l, c)
      BY <1>1, EarlierAnswers
    <3>2. QED
      BY <3>1 DEF CreateBlindSigningInfo, BSIs, BSI
  <2>2. [bsi EXCEPT ![l][c] = BSIs[l][c]] = ExpOf({"createBlindSigningInfo"}, BSIs)'
    <3>1. bsi = ExpOf({"createBlindSigningInfo"}, BSIs) /\ "createBlindSigningInfo" \in {"createBlindSigningInfo"}
      BY DEF IInv, ExpBsi
    <3>2. QED
      BY <1>2, <3>1, ExpUpdated
  <2>3. QED
    BY <2>1, <2>2 DEF ExpBsi
<1>4. sd' = ExpSd'
  <2>1. ExpOf({"createSignerData"}, SDs)' = ExpOf({"createSignerData"}, SDs)
    BY <1>2, ExpUnchanged
  <2>2. QED
    BY <1>1, <2>1 DEF IInv, ExpSd
<1>5. bsig' = ExpBsig'
  <2>1. ExpOf({"signWithBlindedAttributes"}, BSIGs)' = ExpOf({"signWithBlindedAttributes"}, BSIGs)
    BY <1>2, ExpUnchanged
  <2>2. QED
    BY <1>1, <2>1 DEF IInv, ExpBsig
<1>6. sig' = ExpSig'
  <2>1. ExpOf({"sign", "unblindBlindedSignature"}, SIGs)' = ExpOf({"sign", "unblindBlindedSignature"}, SIGs)
    BY <1>2, ExpUnchanged
  <2>2. QED
    BY <1>1, <2>1 DEF IInv, ExpSig
<1>7. QED
  BY <1>1, <1>3, <1>4, <1>5, <1>6, CallStepIInv

\* signWithBlindedAttributes signs the commitment and the non-blinded pairs.
LEMMA SignWithBlindedAttributesIInv ==
  ASSUME IInv, NEW l \in Launches, NEW c \in Creds, SignWithBlindedAttributes(l, c)
  PROVE  IInv'
<1>1. /\ Awaits(l, "signWithBlindedAttributes", c)
      /\ Returned(l)
      /\ UNCHANGED <<sd, bsi, sig, err>>
  BY DEF SignWithBlindedAttributes
<1>2. DoneStep(l, "signWithBlindedAttributes", c)
  BY <1>1, ReturnedStep
<1>3. bsig' = ExpBsig'
  <2>1. bsig' = [bsig EXCEPT ![l][c] = BSIGs[l][c]]
    <3>1. sd[l][c] = SD(l, c) /\ bsi[l][c] = BSI(l, c)
      BY <1>1, EarlierAnswers
    <3>2. QED
      BY <3>1 DEF SignWithBlindedAttributes, BSIGs, BSIG
  <2>2. [bsig EXCEPT ![l][c] = BSIGs[l][c]] = ExpOf({"signWithBlindedAttributes"}, BSIGs)'
    <3>1. bsig = ExpOf({"signWithBlindedAttributes"}, BSIGs) /\ "signWithBlindedAttributes" \in {"signWithBlindedAttributes"}
      BY DEF IInv, ExpBsig
    <3>2. QED
      BY <1>2, <3>1, ExpUpdated
  <2>3. QED
    BY <2>1, <2>2 DEF ExpBsig
<1>4. sd' = ExpSd'
  <2>1. ExpOf({"createSignerData"}, SDs)' = ExpOf({"createSignerData"}, SDs)
    BY <1>2, ExpUnchanged
  <2>2. QED
    BY <1>1, <2>1 DEF IInv, ExpSd
<1>5. bsi' = ExpBsi'
  <2>1. ExpOf({"createBlindSigningInfo"}, BSIs)' = ExpOf({"createBlindSigningInfo"}, BSIs)
    BY <1>2, ExpUnchanged
  <2>2. QED
    BY <1>1, <2>1 DEF IInv, ExpBsi
<1>6. sig' = ExpSig'
  <2>1. ExpOf({"sign", "unblindBlindedSignature"}, SIGs)' = ExpOf({"sign", "unblindBlindedSignature"}, SIGs)
    BY <1>2, ExpUnchanged
  <2>2. QED
    BY <1>1, <2>1 DEF IInv, ExpSig
<1>7. QED
  BY <1>1, <1>3, <1>4, <1>5, <1>6, CallStepIInv

\* unblindBlindedSignature returns the signature over all the values.
LEMMA UnblindBlindedSignatureIInv ==
  ASSUME IInv, NEW l \in Launches, NEW c \in Creds, UnblindBlindedSignature(l, c)
  PROVE  IInv'
<1>1. /\ Awaits(l, "unblindBlindedSignature", c)
      /\ Returned(l)
      /\ UNCHANGED <<sd, bsi, bsig, err>>
  BY DEF UnblindBlindedSignature
<1>2. DoneStep(l, "unblindBlindedSignature", c)
  BY <1>1, ReturnedStep
<1>3. sig' = ExpSig'
  <2>1. sig' = [sig EXCEPT ![l][c] = SIGs[l][c]]
    <3>1. bsi[l][c] = BSI(l, c) /\ bsig[l][c] = BSIG(l, c)
      BY <1>1, EarlierAnswers
    <3>2. QED
      BY <3>1, UnblindRoundTrip DEF UnblindBlindedSignature, SIGs
  <2>2. [sig EXCEPT ![l][c] = SIGs[l][c]] = ExpOf({"sign", "unblindBlindedSignature"}, SIGs)'
    <3>1. sig = ExpOf({"sign", "unblindBlindedSignature"}, SIGs) /\ "unblindBlindedSignature" \in {"sign", "unblindBlindedSignature"}
      BY DEF IInv, ExpSig
    <3>2. QED
      BY <1>2, <3>1, ExpUpdated
  <2>3. QED
    BY <2>1, <2>2 DEF ExpSig
<1>4. sd' = ExpSd'
  <2>1. ExpOf({"createSignerData"}, SDs)' = ExpOf({"createSignerData"}, SDs)
    BY <1>2, ExpUnchanged
  <2>2. QED
    BY <1>1, <2>1 DEF IInv, ExpSd
<1>5. bsi' = ExpBsi'
  <2>1. ExpOf({"createBlindSigningInfo"}, BSIs)' = ExpOf({"createBlindSigningInfo"}, BSIs)
    BY <1>2, ExpUnchanged
  <2>2. QED
    BY <1>1, <2>1 DEF IInv, ExpBsi
<1>6. bsig' = ExpBsig'
  <2>1. ExpOf({"signWithBlindedAttributes"}, BSIGs)' = ExpOf({"signWithBlindedAttributes"}, BSIGs)
    BY <1>2, ExpUnchanged
  <2>2. QED
    BY <1>1, <2>1 DEF IInv, ExpBsig
<1>7. QED
  BY <1>1, <1>3, <1>4, <1>5, <1>6, CallStepIInv


\* A rejection changes no call's status of returned, and the launch holds
\* an error of the operation it awaited.
LEMMA CallFailedIInv ==
  ASSUME IInv, NEW l \in Launches, CallFailed(l)
  PROVE  IInv'
<1>1. PICK e \in ErrorsOf(Calls(l)[pc[l]][1]) : err' = [err EXCEPT ![l] = e]
  BY DEF CallFailed
<1>2. /\ status[l] = "running"
      /\ status' = [status EXCEPT ![l] = "rejected"]
      /\ UNCHANGED <<pc, sd, bsi, bsig, sig, sards, shared>>
  BY DEF CallFailed
<1>3. \A l2 \in Launches : \A op : \A c \in Creds : Done(l2, op, c)' <=> Done(l2, op, c)
  BY <1>2 DEF Done, IInv
<1>4. \A ops, resp : ExpOf(ops, resp)' = ExpOf(ops, resp)
  BY <1>3 DEF ExpOf
<1>5. /\ sd' = ExpSd'
      /\ bsi' = ExpBsi'
      /\ bsig' = ExpBsig'
      /\ sig' = ExpSig'
  BY <1>2, <1>4 DEF IInv, ExpSd, ExpBsi, ExpBsig, ExpSig
<1>6. sards' = ExpSards' /\ shared' = ExpShared'
  BY <1>2 DEF IInv, ExpSards, ExpShared
<1>7. \E op \in IssueOps : e \in ErrorsOf(op)
  <2>1. Calls(l)[pc[l]][1] \in IssueOps
    BY CallsShape DEF IInv
  <2>2. QED
    BY <2>1
<1>8. err' \in [Launches -> {NoError} \cup UNION {ErrorsOf(op) : op \in IssueOps}]
  BY <1>1, <1>7 DEF IInv
<1>9. \A l2 \in Launches :
        IF status'[l2] = "rejected" THEN err'[l2] \in ErrorsOf(Calls(l2)[pc'[l2]][1])
                                    ELSE err'[l2] = NoError
  BY <1>1, <1>2 DEF IInv
<1>10. QED
  BY <1>2, <1>5, <1>6, <1>8, <1>9 DEF IInv, Statuses

\* IInv is inductive.
LEMMA IInvInductive == IInv /\ [Next]_vars => IInv'
<1> SUFFICES ASSUME IInv, [Next]_vars PROVE IInv'
  OBVIOUS
<1>1. ASSUME NEW l \in Launches, NEW c \in Creds,
             \/ CreateSignerData(l, c)
             \/ Sign(l, c)
             \/ CreateBlindSigningInfo(l, c)
             \/ SignWithBlindedAttributes(l, c)
             \/ UnblindBlindedSignature(l, c)
      PROVE  IInv'
  BY <1>1, CreateSignerDataIInv, SignIInv, CreateBlindSigningInfoIInv,
     SignWithBlindedAttributesIInv, UnblindBlindedSignatureIInv
<1>2. ASSUME NEW l \in Launches, CallFailed(l) PROVE IInv'
  BY <1>2, CallFailedIInv
<1>3. CASE UNCHANGED vars
  BY <1>3 DEF vars, IInv, ExpSd, ExpBsi, ExpBsig, ExpSig, ExpOf, Done, ExpSards, ExpShared
<1>4. QED
  BY <1>1, <1>2, <1>3 DEF Next


(***************************************************************************)
(* Type correctness.                                                      *)
(***************************************************************************)

\* The signer data a launch expects is signer data of PublicData.
LEMMA SDPublic ==
  ASSUME NEW la \in Launches, NEW ca \in Creds
  PROVE  /\ SD(la, ca).signerPublicData \in PublicData
         /\ SD(la, ca) = [signerPublicData |-> SD(la, ca).signerPublicData]
<1>1. (IF SigTypeOf(la) = "NonBlinded" THEN <<>> ELSE BLINDED_INDICES[ca])
        \in {<<>>, BLINDED_INDICES[DL], BLINDED_INDICES[SUB]}
  BY DEF Creds
<1>2. SD(la, ca) = SignerDataResp(LibOf(la), SIGNER_RNG[ca], CTs[ca],
                     IF SigTypeOf(la) = "NonBlinded" THEN <<>> ELSE BLINDED_INDICES[ca])
  BY DEF SD
<1>3. SD(la, ca).signerPublicData \in PublicData
  BY <1>1, <1>2 DEF PublicData
<1>4. QED
  BY <1>2, <1>3 DEF SignerDataResp

\* The signature a launch expects is a signature value.
LEMMA SIGTyped ==
  ASSUME NEW l \in Launches, NEW c \in Creds
  PROVE  SIG(l, c) \in SignatureValues
<1>1. Abs!SignedPairs(Vals[c]) \in SUBSET UNION {PairSet(IndexedPairs(Vals[x])) : x \in Creds}
  <2>1. Abs!SignedPairs(Vals[c]) = PairSet(IndexedPairs(Vals[c]))
    BY SignRoundTrip DEF SignResp, SIG, Abs!Signature
  <2>2. QED
    BY <2>1
<1>2. QED
  BY <1>1, SDPublic DEF SIG, Abs!Signature, SignatureValues

\* Every state the invariant allows is well typed.
LEMMA IInvTypeOK == IInv => TypeOK
<1> SUFFICES ASSUME IInv PROVE TypeOK
  OBVIOUS
<1>1. pc \in [Launches -> 1..8] /\ \A l \in Launches : pc[l] \in DOMAIN Calls(l)
  <2>1. \A l \in Launches : DOMAIN Calls(l) = 1..Len(Calls(l))
    <3> TAKE l \in Launches
    <3>1. CASE SigTypeOf(l) = "NonBlinded"
      BY <3>1 DEF Calls
    <3>2. CASE SigTypeOf(l) # "NonBlinded"
      BY <3>2 DEF Calls
    <3>3. QED
      BY <3>1, <3>2
  <2>2. QED
    BY <2>1, CallsShape DEF IInv
<1>2. sig \in [Launches -> [Creds -> SignatureValues]]
  <2>1. Undefined \in SignatureValues
    BY DEF SignatureValues
  <2>2. QED
    BY <2>1, SIGTyped DEF IInv, ExpSig, ExpOf, SIGs
<1>3. sd \in [Launches -> [Creds -> {Undefined} \cup {[signerPublicData |-> p] : p \in PublicData}]]
  <2>1. \A l \in Launches : \A c \in Creds :
          SD(l, c) \in {[signerPublicData |-> p] : p \in PublicData}
    BY SDPublic
  <2>2. QED
    BY <2>1 DEF IInv, ExpSd, ExpOf, SDs
<1>4. \A l \in Launches : DOMAIN shared[l] \in {{}, InitShared}
  BY DEF IInv, ExpShared, EmptyShared, CorrectShared, SharedOf
<1>5. QED
  BY <1>1, <1>2, <1>3, <1>4 DEF IInv, TypeOK, Statuses

\* Type correctness of issuance for every set of launches: pc always
\* names a call of the launch's list, and signer data, signatures, errors
\* and the shared registry only ever hold values of their types.
THEOREM IssuanceTypeCorrect == Spec => []TypeOK
<1>1. Init => IInv
  BY InitIInv
<1>2. IInv /\ [Next]_vars => IInv'
  BY IInvInductive
<1>3. IInv => TypeOK
  BY IInvTypeOK
<1>4. QED
  BY <1>1, <1>2, <1>3, PTL DEF Spec


(***************************************************************************)
(* Refinement: issuance as the code does it implements the abstract      *)
(* issuance.  A call that is not the last of its launch is a stutter of  *)
(* the abstraction; the last call is Resolve, with the signers the       *)
(* engine created as the witness; a rejected call is Reject.             *)
(***************************************************************************)

\* The abstraction's fixtures and errors are those of the code.
LEMMA AbsSame ==
  /\ Abs!Creds = Creds
  /\ Abs!DL = DL /\ Abs!SUB = SUB
  /\ Abs!Vals = Vals
  /\ Abs!SIGNER_PUBLIC = SIGNER_PUBLIC
  /\ Abs!NoError = NoError
  /\ \A x : Abs!MkSPVOneText(x) = MkSPVOneText(x)
  /\ \A x : Abs!JSONStringify(x) = JSONStringify(x)
  /\ \A op : Abs!ErrorsOf(op) = ErrorsOf(op)
BY DEF Abs!Creds, Creds, Abs!DL, DL, Abs!SUB, SUB, Abs!Vals, Vals, Abs!PerCred, PerCred,
       Abs!DVals, DVals, Abs!SVals, SVals, Abs!DVText, DVText, Abs!DVInt, DVInt,
       Abs!DL_ACC_MEM_VALUE, DL_ACC_MEM_VALUE, Abs!SUB_ACC_MEM_VALUE, SUB_ACC_MEM_VALUE,
       Abs!SIGNER_PUBLIC, SIGNER_PUBLIC, Abs!NoError, NoError,
       Abs!MkSPVOneText, MkSPVOneText, Abs!JSONStringify, JSONStringify,
       Abs!ErrorsOf, ErrorsOf, Abs!HandleError, HandleError, Abs!GatewayFailures,
       GatewayFailures, Abs!ServerReasons, ServerReasons, Abs!AC2C_UNIMPLEMENTED,
       AC2C_UNIMPLEMENTED, Abs!Location, Location, Abs!Ops, Ops

\* Each credential's signer-public label names that credential.
LEMMA ChooseSigner ==
  \A c \in Creds : CredOf(SIGNER_PUBLIC[c]) = c
<1>1. \A x, c \in Creds : SIGNER_PUBLIC[x] = SIGNER_PUBLIC[c] => x = c
  BY DEF SIGNER_PUBLIC, PerCred, Creds, DL, SUB
<1>2. QED
  BY <1>1 DEF CredOf

\* The registry the last call builds is the abstract one for the signers
\* the engine created.
LEMMA SharedRefines ==
  ASSUME NEW l \in Launches, NEW pub, pub = [x \in Creds |-> SD(l, x).signerPublicData]
  PROVE  CorrectShared(l) = AbsShared(pub)
<1>1. ASSUME NEW c \in Creds
      PROVE  (IF SIGNER_PUBLIC[c] = SIGNER_PUBLIC[DL] THEN pub[DL] ELSE pub[SUB])
               = pub[CredOf(SIGNER_PUBLIC[c])]
  <2>1. CredOf(SIGNER_PUBLIC[c]) = c
    BY ChooseSigner
  <2>2. SIGNER_PUBLIC[c] = SIGNER_PUBLIC[DL] <=> c = DL
    BY DEF SIGNER_PUBLIC, PerCred, Creds, DL, SUB
  <2>3. QED
    BY <2>1, <2>2 DEF Creds
<1>2. \A lbl \in InitShared :
        (IF lbl = SIGNER_PUBLIC[DL] THEN pub[DL] ELSE pub[SUB])
          = pub[CredOf(lbl)]
  BY <1>1 DEF InitShared
<1>3. CorrectShared(l) =
        [lbl \in InitShared |->
           MkSPVOneText(JSONStringify(IF lbl = SIGNER_PUBLIC[DL] THEN pub[DL] ELSE pub[SUB]))]
  BY DEF CorrectShared, SharedOf, Creds
<1>4. \A lbl \in InitShared :
        MkSPVOneText(JSONStringify(IF lbl = SIGNER_PUBLIC[DL] THEN pub[DL] ELSE pub[SUB]))
          = MkSPVOneText(JSONStringify(pub[CredOf(lbl)]))
  BY <1>2
<1>5. QED
  <2>1. DOMAIN AbsShared(pub) = InitShared
    BY DEF InitShared, AbsShared
  <2>2. \A lbl \in InitShared : AbsShared(pub)[lbl] = CorrectShared(l)[lbl]
    BY <1>3, <1>4 DEF InitShared, AbsShared
  <2>3. AbsShared(pub) = [lbl \in DOMAIN AbsShared(pub) |-> AbsShared(pub)[lbl]]
    BY DEF AbsShared
  <2>4. QED
    BY <1>3, <2>1, <2>2, <2>3

\* The last call of a launch resolves it the way the abstraction does.
LEMMA JoinedRefines ==
  ASSUME IInv, IInv', NEW l \in Launches, NEW op, NEW c0, Awaits(l, op, c0),
         Joined(l), UNCHANGED err
  PROVE  Abs!Resolve(l)
<1>0. PICK pub : pub = [x \in Creds |-> SD(l, x).signerPublicData]
  OBVIOUS
<1>1. status[l] = "running"
  BY AwaitsPos
<1>2. status' = [status EXCEPT ![l] = "resolved"]
  BY DEF Joined
<1>3. pub \in [Creds -> PublicData]
  BY <1>0, SDPublic
<1>4. pub[DL] # pub[SUB]
  BY <1>0 DEF SD, SignerDataResp, SIGNER_RNG, PerCred, Creds, DL, SUB
<1>5. sards' = [sards EXCEPT ![l] =
                  [c \in Creds |-> [signature |-> Abs!Signature(pub[c], Vals[c]),
                                    values    |-> Vals[c]]]]
  <2>1. sards'[l] = CorrectSards(l)
    BY <1>2 DEF IInv, ExpSards, Statuses
  <2>2. sards' = [sards EXCEPT ![l] = sards'[l]]
    BY DEF Joined, IInv, ExpSards
  <2>3. QED
    BY <1>0, <2>1, <2>2 DEF CorrectSards, SIG
<1>6. shared' = [shared EXCEPT ![l] =
                   [lbl \in {SIGNER_PUBLIC[c] : c \in Creds} |->
                      MkSPVOneText(JSONStringify(pub[CHOOSE c \in Creds : SIGNER_PUBLIC[c] = lbl]))]]
  <2>1. shared'[l] = CorrectShared(l)
    BY <1>2 DEF IInv, ExpShared, Statuses
  <2>2. shared' = [shared EXCEPT ![l] = shared'[l]]
    BY DEF Joined, IInv, ExpShared
  <2>3. QED
    <3>1. CorrectShared(l) = AbsShared(pub)
      BY <1>0, SharedRefines
    <3>2. QED
      BY <2>1, <2>2, <3>1 DEF AbsShared, CredOf
<1>7. pub \in [Abs!Creds -> PublicData] /\ pub[Abs!DL] # pub[Abs!SUB]
  BY <1>3, <1>4, AbsSame
<1>8. sards' = [sards EXCEPT ![l] =
                  [c \in Abs!Creds |-> [signature |-> Abs!Signature(pub[c], Abs!Vals[c]),
                                        values    |-> Abs!Vals[c]]]]
  BY <1>5, AbsSame
<1>9. shared' = [shared EXCEPT ![l] =
                   [lbl \in {Abs!SIGNER_PUBLIC[c] : c \in Abs!Creds} |->
                      Abs!MkSPVOneText(Abs!JSONStringify(
                        pub[CHOOSE c \in Abs!Creds : Abs!SIGNER_PUBLIC[c] = lbl]))]]
  BY <1>6
  DEF Abs!Creds, Creds, Abs!DL, DL, Abs!SUB, SUB, Abs!PerCred, PerCred,
      Abs!SIGNER_PUBLIC, SIGNER_PUBLIC, Abs!MkSPVOneText, MkSPVOneText,
      Abs!JSONStringify, JSONStringify, Abs!DVText, DVText
<1>10. \E q \in [Abs!Creds -> PublicData] :
         /\ q[Abs!DL] # q[Abs!SUB]
         /\ sards' = [sards EXCEPT ![l] =
                        [c \in Abs!Creds |-> [signature |-> Abs!Signature(q[c], Abs!Vals[c]),
                                              values    |-> Abs!Vals[c]]]]
         /\ shared' = [shared EXCEPT ![l] =
                         [lbl \in {Abs!SIGNER_PUBLIC[c] : c \in Abs!Creds} |->
                            Abs!MkSPVOneText(Abs!JSONStringify(
                              q[CHOOSE c \in Abs!Creds : Abs!SIGNER_PUBLIC[c] = lbl]))]]
  BY <1>7, <1>8, <1>9
<1>11. QED
  BY <1>1, <1>2, <1>10 DEF Abs!Resolve

\* A call that returns is a stutter of the abstraction, or its Resolve.
LEMMA CallRefines ==
  ASSUME IInv, IInv', NEW l \in Launches, NEW op, NEW c, Awaits(l, op, c),
         Returned(l), UNCHANGED err
  PROVE  [Abs!Next]_<<status, sards, shared, err>>
<1>1. CASE pc[l] = Len(Calls(l))
  <2>1. Abs!Resolve(l)
    BY <1>1, JoinedRefines DEF Returned
  <2>2. QED
    BY <2>1 DEF Abs!Next
<1>2. CASE pc[l] # Len(Calls(l))
  BY <1>2 DEF Returned
<1>3. QED
  BY <1>1, <1>2

\* A rejected call is the abstraction's Reject.
LEMMA FailedRefines ==
  ASSUME IInv, NEW l \in Launches, CallFailed(l)
  PROVE  Abs!Reject(l)
<1>1. Calls(l)[pc[l]][1] \in IssueOps
  BY CallsShape DEF IInv
<1>2. QED
  BY <1>1, AbsSame DEF CallFailed, Abs!Reject

\* Every step of issuance is a step or a stutter of the abstraction.
LEMMA StepRefines ==
  IInv /\ IInv' /\ [Next]_vars => [Abs!Next]_<<status, sards, shared, err>>
<1> SUFFICES ASSUME IInv, IInv', [Next]_vars
             PROVE  [Abs!Next]_<<status, sards, shared, err>>
  OBVIOUS
<1>1. ASSUME NEW l \in Launches, NEW c \in Creds,
             \/ CreateSignerData(l, c)
             \/ Sign(l, c)
             \/ CreateBlindSigningInfo(l, c)
             \/ SignWithBlindedAttributes(l, c)
             \/ UnblindBlindedSignature(l, c)
      PROVE  [Abs!Next]_<<status, sards, shared, err>>
  <2>1. \E op : Awaits(l, op, c) /\ Returned(l) /\ UNCHANGED err
    BY <1>1 DEF CreateSignerData, Sign, CreateBlindSigningInfo,
                SignWithBlindedAttributes, UnblindBlindedSignature
  <2>2. QED
    BY <2>1, CallRefines
<1>2. ASSUME NEW l \in Launches, CallFailed(l)
      PROVE  [Abs!Next]_<<status, sards, shared, err>>
  BY <1>2, FailedRefines DEF Abs!Next
<1>3. CASE UNCHANGED vars
  BY <1>3 DEF vars
<1>4. QED
  BY <1>1, <1>2, <1>3 DEF Next

\* Round-trip signing for every set of launches (IssuanceRefines): every
\* X.create either resolves with, per credential, the signature of that
\* credential's signer over exactly its values, the two signers distinct
\* and registered in x.shared, or rejects with an error of one of its
\* engine operations and no signature.
THEOREM IssuanceRefinement == Spec => IssuanceRefines
<1>1. Init => Abs!Init
  BY AbsSame DEF Init, Abs!Init, EmptySard, Abs!EmptySard, EmptyShared, Abs!EmptyShared
<1>2. Init => IInv
  BY InitIInv
<1>3. IInv /\ [Next]_vars => IInv'
  BY IInvInductive
<1>4. IInv /\ IInv' /\ [Next]_vars => [Abs!Next]_<<status, sards, shared, err>>
  BY StepRefines
<1>5. QED
  BY <1>1, <1>2, <1>3, <1>4, PTL DEF Spec, IssuanceRefines, Abs!Spec

=============================================================================
