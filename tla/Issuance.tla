------------------------------ MODULE Issuance ------------------------------
(***************************************************************************)
(* Issuance as the code does it (X.create, doCreateSharedAndSigs and       *)
(* createSignerDataAndSignatures in vcp/test/X.ts) for the X.create calls *)
(* a launcher starts without awaiting them.  Each launch is a sequential  *)
(* chain of awaited engine calls; an action is the resolution of one call *)
(* with the code that runs up to the next await, and the last resolution  *)
(* runs on through the .then of doCreateSharedAndSigs and the rest of     *)
(* create.  Launches share nothing but the engine, which is modelled as   *)
(* correct: its answers are what the cryptography guarantees of them.     *)
(***************************************************************************)
EXTENDS Sequences, FiniteSets, TestData, Gateway, Partition

CONSTANTS Launches   \* the X.create calls: pairs <<zkpLib, sigType>>

LibOf(l)     == l[1]
SigTypeOf(l) == l[2]

VARIABLES
  pc,      \* per launch: the index of the awaited call in Calls(l)
  status,  \* per launch: "running", "resolved" or "rejected"
  sd,      \* per launch and credential: dSignerData / sSignerData
  bsi,     \* per launch and credential: the blind signing info
  bsig,    \* per launch and credential: the blind signature
  sig,     \* per launch and credential: dSig / sSig
  sards,   \* per launch: x.dSard and x.sSard
  shared,  \* per launch: x.shared
  err      \* per launch: the error the launch rejected with

vars == <<pc, status, sd, bsi, bsig, sig, sards, shared, err>>

\* The awaited calls of createSignerDataAndSignatures, in order, by
\* operation and credential.
Calls(l) ==
  IF SigTypeOf(l) = "NonBlinded"
  THEN << <<"createSignerData", DL>>, <<"createSignerData", SUB>>,
          <<"sign", DL>>, <<"sign", SUB>> >>
  ELSE << <<"createSignerData", DL>>, <<"createSignerData", SUB>>,
          <<"createBlindSigningInfo", DL>>, <<"createBlindSigningInfo", SUB>>,
          <<"signWithBlindedAttributes", DL>>, <<"signWithBlindedAttributes", SUB>>,
          <<"unblindBlindedSignature", DL>>, <<"unblindBlindedSignature", SUB>> >>

IssueOps == {"createSignerData", "sign", "createBlindSigningInfo",
             "signWithBlindedAttributes", "unblindBlindedSignature"}

\* The rngSeed each createSignerData call passes.
SIGNER_RNG == PerCred(0, 1)

(***************************************************************************)
(* The engine.  Signer data names the key the engine generated from the   *)
(* library, seed, claim types and blinded indices.  A signature covers a  *)
(* set of index/value pairs.  Blind signing info commits to the blinded   *)
(* pairs; the signer signs the commitment with the non-blinded pairs, and *)
(* unblinding with the matching info, claim types and blinded pairs gives *)
(* a signature over all of them.  Anything else gives a signature no      *)
(* verifier accepts.                                                      *)
(***************************************************************************)
Invalid == [invalid |-> "signature"]

PairSet(ps) == {ps[k] : k \in DOMAIN ps}

SignerDataResp(lib, rng, cts, bcs) ==
  [signerPublicData |-> [lib |-> lib, rng |-> rng, cts |-> cts, blinded |-> bcs]]

SignResp(s, vs) == [signer |-> s.signerPublicData, pairs |-> PairSet(IndexedPairs(vs))]

BlindSigningInfoResp(spd, blinded) ==
  [blindInfoForSigner |-> [spd |-> spd, committed |-> PairSet(blinded)],
   infoForUnblinding  |-> [spd |-> spd, committed |-> PairSet(blinded)]]

SignWithBlindedResp(s, nonblinded, forSigner) ==
  IF forSigner.spd = s.signerPublicData
  THEN [signer |-> s.signerPublicData,
        pairs  |-> PairSet(nonblinded) \cup forSigner.committed]
  ELSE Invalid

UnblindResp(cts, blinded, forUnblinding, blindSig) ==
  IF /\ blindSig # Invalid
     /\ forUnblinding.spd = blindSig.signer
     /\ forUnblinding.committed = PairSet(blinded)
     /\ cts = blindSig.signer.cts
  THEN blindSig
  ELSE Invalid

EmptySard == [signature |-> [text |-> ""], values |-> <<>>]
EmptyShared == [lbl \in {} |-> ""]

Init ==
  /\ pc     = [l \in Launches |-> 1]
  /\ status = [l \in Launches |-> "running"]
  /\ sd     = [l \in Launches |-> [c \in Creds |-> Undefined]]
  /\ bsi    = [l \in Launches |-> [c \in Creds |-> Undefined]]
  /\ bsig   = [l \in Launches |-> [c \in Creds |-> Undefined]]
  /\ sig    = [l \in Launches |-> [c \in Creds |-> Undefined]]
  /\ sards  = [l \in Launches |-> [c \in Creds |-> EmptySard]]
  /\ shared = [l \in Launches |-> EmptyShared]
  /\ err    = [l \in Launches |-> NoError]

\* Launch l awaits the call of operation op for credential c.
Awaits(l, op, c) ==
  /\ status[l] = "running"
  /\ Calls(l)[pc[l]] = <<op, c>>

\* TestData.shared(dPub, sPub).
SharedOf(dPub, sPub) ==
  [lbl \in InitShared |->
     MkSPVOneText(JSONStringify(IF lbl = SIGNER_PUBLIC[DL] THEN dPub ELSE sPub))]

\* The .then of doCreateSharedAndSigs and the rest of X.create: the sards
\* pair each signature with the credential's values, shared registers
\* the signers' public data, and the launch resolves.
Joined(l) ==
  /\ sards' = [sards EXCEPT ![l] =
                 [c \in Creds |-> [signature |-> sig'[l][c], values |-> Vals[c]]]]
  /\ shared' = [shared EXCEPT ![l] = SharedOf(sd[l][DL].signerPublicData,
                                              sd[l][SUB].signerPublicData)]
  /\ status' = [status EXCEPT ![l] = "resolved"]
  /\ UNCHANGED pc

\* Mutant: the end of the call list is tested one call too late.
ReturnedOffByOne(l) ==
  IF pc[l] = Len(Calls(l)) + 1
  THEN Joined(l)
  ELSE /\ pc' = [pc EXCEPT ![l] = @ + 1]
       /\ UNCHANGED <<status, sards, shared>>

\* The awaited call returned: await the next one, or run to the end.
Returned(l) ==
  IF pc[l] = Len(Calls(l))
  THEN Joined(l)
  ELSE /\ pc' = [pc EXCEPT ![l] = @ + 1]
       /\ UNCHANGED <<status, sards, shared>>

\* createSignerData(rng, cts, bcs): no blinded indices in NonBlinded mode.
CreateSignerData(l, c) ==
  /\ Awaits(l, "createSignerData", c)
  /\ sd' = [sd EXCEPT ![l][c] =
              SignerDataResp(LibOf(l), SIGNER_RNG[c], CTs[c],
                             IF SigTypeOf(l) = "NonBlinded" THEN <<>>
                                                         ELSE BLINDED_INDICES[c])]
  /\ UNCHANGED <<bsi, bsig, sig, err>>
  /\ Returned(l)

\* Mutant: every credential is signed with dSignerData.
SignWithDSignerData(l, c) ==
  /\ Awaits(l, "sign", c)
  /\ sig' = [sig EXCEPT ![l][c] = SignResp(sd[l][DL], Vals[c])]
  /\ UNCHANGED <<sd, bsi, bsig, err>>
  /\ Returned(l)

\* sign(0, signerData, vals).
Sign(l, c) ==
  /\ Awaits(l, "sign", c)
  /\ sig' = [sig EXCEPT ![l][c] = SignResp(sd[l][c], Vals[c])]
  /\ UNCHANGED <<sd, bsi, bsig, err>>
  /\ Returned(l)

\* createBlindSigningInfo(0, signerPublicData, blinded pairs).
CreateBlindSigningInfo(l, c) ==
  /\ Awaits(l, "createBlindSigningInfo", c)
  /\ bsi' = [bsi EXCEPT ![l][c] =
               BlindSigningInfoResp(sd[l][c].signerPublicData,
                                    getBlinded(Vals[c], BLINDED_INDICES[c]))]
  /\ UNCHANGED <<sd, bsig, sig, err>>
  /\ Returned(l)

\* signWithBlindedAttributes(0, signerData, non-blinded pairs, blindInfoForSigner).
SignWithBlindedAttributes(l, c) ==
  /\ Awaits(l, "signWithBlindedAttributes", c)
  /\ bsig' = [bsig EXCEPT ![l][c] =
                SignWithBlindedResp(sd[l][c],
                                    getNonBlinded(Vals[c], BLINDED_INDICES[c]),
                                    bsi[l][c].blindInfoForSigner)]
  /\ UNCHANGED <<sd, bsi, sig, err>>
  /\ Returned(l)

\* unblindBlindedSignature(cts, blinded pairs, infoForUnblinding, blindSig).
UnblindBlindedSignature(l, c) ==
  /\ Awaits(l, "unblindBlindedSignature", c)
  /\ sig' = [sig EXCEPT ![l][c] =
               UnblindResp(CTs[c], getBlinded(Vals[c], BLINDED_INDICES[c]),
                           bsi[l][c].infoForUnblinding, bsig[l][c])]
  /\ UNCHANGED <<sd, bsi, bsig, err>>
  /\ Returned(l)

\* Mutant: a rejection is caught and issuance starts over from its first call.
CallRetried(l) ==
  /\ status[l] = "running"
  /\ pc' = [pc EXCEPT ![l] = 1]
  /\ UNCHANGED <<status, sd, bsi, bsig, sig, sards, shared, err>>

\* The awaited call rejects: handleError's error propagates out of
\* createSignerDataAndSignatures and X.create before any field of x is set.
CallFailed(l) ==
  /\ status[l] = "running"
  /\ \E e \in ErrorsOf(Calls(l)[pc[l]][1]) : err' = [err EXCEPT ![l] = e]
  /\ status' = [status EXCEPT ![l] = "rejected"]
  /\ UNCHANGED <<pc, sd, bsi, bsig, sig, sards, shared>>

Next ==
  \E l \in Launches :
    \/ \E c \in Creds :
         \/ CreateSignerData(l, c)
         \/ Sign(l, c)
         \/ CreateBlindSigningInfo(l, c)
         \/ SignWithBlindedAttributes(l, c)
         \/ UnblindBlindedSignature(l, c)
    \/ CallFailed(l)

\* Every pending call eventually resolves or rejects: undici's 10 minute
\* header and body timeouts (api.ts:141-145).
Spec == Init /\ [][Next]_vars /\ WF_vars(Next)

-----------------------------------------------------------------------------
\* The public data of every signer an engine may create for the launches.
PublicData ==
  {SignerDataResp(LibOf(l), SIGNER_RNG[c], CTs[c], b).signerPublicData :
     l \in Launches, c \in Creds, b \in {<<>>, BLINDED_INDICES[DL], BLINDED_INDICES[SUB]}}

SignatureValues == {Undefined, Invalid} \cup
  [signer : PublicData, pairs : SUBSET UNION {PairSet(IndexedPairs(Vals[c])) : c \in Creds}]

TypeOK ==
  /\ pc \in [Launches -> 1..8]
  /\ \A l \in Launches : pc[l] \in DOMAIN Calls(l)
  /\ status \in [Launches -> {"running", "resolved", "rejected"}]
  /\ sig \in [Launches -> [Creds -> SignatureValues]]
  /\ sd \in [Launches -> [Creds -> {Undefined} \cup {[signerPublicData |-> p] : p \in PublicData}]]
  /\ err \in [Launches -> {NoError} \cup UNION {ErrorsOf(op) : op \in IssueOps}]
  /\ \A l \in Launches : DOMAIN shared[l] \in {{}, InitShared}

Abs == INSTANCE IssuanceAbstract WITH Signers <- PublicData

\* Round-trip signing (spec sections 4.1 and 8) for every launch, both modes:
\* X.create either resolves with each credential's values and a signature
\* by that credential's signer covering exactly those values, the signers'
\* public data registered in x.shared, or it rejects with no signature.
IssuanceRefines == Abs!Spec

\* Every X.create a launcher starts resolves or rejects: each awaited call
\* is answered or times out and nothing is retried.
IssuanceSettles == \A l \in Launches : <>(status[l] # "running")

\* Spec section 7: the location of a rejected issuance's ApiError names the
\* engine operation that failed (handleError's location argument).
RejectionNamesOperation ==
  \A l \in Launches :
    (status[l] = "rejected" /\ err[l].api) => err[l].location = Calls(l)[pc[l]][1]
=============================================================================
