---------------------------- MODULE ProofSession ----------------------------
(***************************************************************************)
(* One test session of the VCP example client: X.create (vcp/test/X.ts)   *)
(* issues the DL and SUB credentials, the .then callback of a scenario's   *)
(* ...Aux function (vcp/test/AppTest.ts) builds the proof requirements and *)
(* shared parameters, possibly after more remote calls, and expect() runs  *)
(* createProof -> verifyProof -> verifyDecryption against the remote       *)
(* engine (vcp/api.ts).                                                    *)
(*                                                                         *)
(* Each action is one resolution of a pending promise together with the   *)
(* synchronous code of its callback, up to the next remote call.  The      *)
(* main chain of a session is sequential; the accumulator scenario forks   *)
(* a second chain, the witness check, that nobody joins.  The engine is    *)
(* the environment: every answer is a nondeterministic choice among right  *)
(* and wrong answers, and the ghost variable honest records whether all    *)
(* answers so far were the ones a correct engine gives.  Issuance (the     *)
(* signer-data and signature calls of X.create) is the one step "create".  *)
(***************************************************************************)
EXTENDS TestData, Gateway

CONSTANTS
  Libs,        \* zkpLib identifiers (api.ts: AC2C_BBS, AC2C_PS, DNC)
  AC2CLibs,    \* the libraries whose verify_decryption is unimplemented
  Sessions,    \* the <<zkpLib, scenario>> pairs the test functions launch
  EncIdx,      \* attribute indices an engine may put in a decrypt response
  RevealIdx,   \* attribute indices an engine may reveal in a proof
  Garbage      \* a decrypted value that is no attribute value

Scenarios == {"revealed", "equalities", "range", "ve", "accumulators"}
Auths == {AUTH_LABEL}

ASSUME SessionAssumption ==
  /\ AC2CLibs \subseteq Libs
  /\ Sessions \subseteq Libs \X Scenarios
  /\ Sessions # {}
  /\ EncIdx \subseteq Nat /\ RevealIdx \subseteq Nat
  /\ \A c \in Creds : EncIdx \subseteq DOMAIN Vals[c]
  /\ {2, 3} \subseteq EncIdx
  /\ \A c \in Creds : REVEALED[c] \subseteq RevealIdx

VARIABLES
  lib,       \* x.zkpLib
  scen,      \* the scenario whose Aux function runs
  pc,        \* the pending remote call of the main chain, or "done"
  outcome,   \* verdict of the main chain: "running", "passed", "failed"
  wit,       \* the unjoined witness check: "none", "pending", "ok", "failed"
  subWit,    \* does SUB's addRemove witness equal its getAccumulatorWitness?
  reqs,      \* x.reqs: per credential, disclosed, enc and referenced labels
  shared,    \* x.shared: the labels registered as shared parameters
  drs,       \* the decrypt requests passed to expect(): paths <<c, i, a>>
  revealed,  \* revealedIdxsAndVals of createProof's answer, per credential
  resp,      \* decryptResponses of verifyProof's answer: path -> value
  caught,    \* the error verifyDecryption's .catch received, and its source
  honest     \* ghost: every engine answer so far was the correct one

vars == <<lib, scen, pc, outcome, wit, subWit, reqs, shared, drs, revealed,
          resp, caught, honest>>

-----------------------------------------------------------------------------
(* Data of the scenarios (AppTest.ts) and of the engine's answers.         *)

PathUniverse == Creds \X EncIdx \X Auths
\* The plaintext at a decrypt path: vals[attrIndex] in checkDecryption.
Plain(p) == Vals[p[1]][p[2]]
\* vals[attrIndex].contents === decoded: a decoded value is text, so an
\* integer attribute never equals it.
DecodesTo(dv, decoded) == dv.tag = "DV_TEXT" /\ dv.contents = decoded
\* A decrypted value is text: the text plaintexts, or garbage.
DecryptedVals ==
  {Plain(p).contents : p \in {q \in PathUniverse : Plain(q).tag = "DV_TEXT"}}
    \cup {Garbage}
NoResp == [p \in {} |-> Garbage]
RespType == UNION {[D -> DecryptedVals] : D \in SUBSET PathUniverse}
ReqType == [disclosed : SUBSET RevealIdx,
            enc : SUBSET (EncIdx \X Auths),
            refs : SUBSET (Labels \cup Creds)]
Calls == {"create", "rangeKey", "authData", "accSetup", "accAddRm",
          "prove", "verify", "decrypt"}

\* equalTo: DL's index 2 equals SUB's index 3 and back; toLabel names a credential.
EqualToLabel == PerCred(SUB, DL)
\* inRange of both credentials; SUB's rangeProvingKeyLabel is DL_RPPK.
InRangeRefs == [c \in Creds |-> {RANGE_MIN[c], RANGE_MAX[c], RPPK[DL]}]
RangeShared ==
  {RPPK[c] : c \in Creds} \cup {RANGE_MIN[c] : c \in Creds} \cup {RANGE_MAX[c] : c \in Creds}
\* encryptedFor and the decrypt-request tree built for it.
\* Mutant: SUB's encrypted attribute one past its last index.
VEIndexOffByOne == PerCred(2, 4)
VEIndex == PerCred(2, 3)
VEDecryptRequests == {<<DL, 2, AUTH_LABEL>>, <<SUB, 3, AUTH_LABEL>>}
\* inAccum of both credentials and the labels set for it.
InAccumRefs == [c \in Creds |-> {MPK[c], APD[c], ACC[c], ACC_SEQ_NUM_LABEL[c]}]
\* Mutant: the two accumulator sequence-number labels are never set.
AccSharedNoSeqNum ==
  {MPK[c] : c \in Creds} \cup {APD[c] : c \in Creds} \cup {ACC[c] : c \in Creds}
AccShared ==
  {MPK[c] : c \in Creds} \cup {APD[c] : c \in Creds} \cup {ACC[c] : c \in Creds}
    \cup {ACC_SEQ_NUM_LABEL[c] : c \in Creds}

AddRefs(r, f) == [c \in Creds |-> [r[c] EXCEPT !.refs = @ \cup f[c]]]
InitReqs == [c \in Creds |-> InitCred(c)]

\* What the .catch of verifyDecryption received: nothing yet, the
\* AssertionError of its own .then, or an error of the gateway.
AssertionError == [api |-> FALSE, reason |-> "AssertionError", location |-> "none"]
CaughtType == [src : {"none", "assert", "gateway"},
               err : {NoError, AssertionError} \cup ErrorsOf("verifyDecryption")]

\* checkAC2CVerifiableEncryptionException: reading apiErrorMessage.reason of
\* an error that is no ApiError throws a TypeError, so only an ApiError passes.
CheckAC2CException(e) == e.api /\ e.reason = AC2C_UNIMPLEMENTED

\* assert.strictEqual(w, []) compares two array objects with ===: the array
\* decoded from the response is never the fresh literal [].
StrictEqualEmpty(w) == FALSE

\* checkDisclosed: only emptiness of the two revealed maps is checked.
CheckDisclosed(rv) ==
  IF \A c \in Creds : reqs[c].disclosed = {}
  THEN \A c \in Creds : rv[c] = {}
  ELSE \E c \in Creds : rv[c] # {}

\* checkDecryption: every requested path is answered with its plaintext;
\* a missing path makes decryptResponses[c][i][a].value throw.
\* Mutant: checkDecryption only looks the path up, never compares the value.
CheckDecryptionPathsOnly(rs) == \A p \in drs : p \in DOMAIN rs
CheckDecryption(rs) ==
  \A p \in drs : p \in DOMAIN rs /\ DecodesTo(Plain(p), rs[p])

\* The answer of a correct engine: exactly the requested paths, decrypted.
CorrectResp(rs) ==
  DOMAIN rs = drs /\ \A p \in drs : DecodesTo(Plain(p), rs[p])

-----------------------------------------------------------------------------
Init ==
  /\ \E s \in Sessions : lib = s[1] /\ scen = s[2]
  /\ pc = "create"
  /\ outcome = "running"
  /\ wit = "none"
  /\ subWit = TRUE
  /\ reqs = [c \in Creds |-> [disclosed |-> {}, enc |-> {}, refs |-> {}]]
  /\ shared = {}
  /\ drs = {}
  /\ revealed = [c \in Creds |-> {}]
  /\ resp = NoResp
  /\ caught = [src |-> "none", err |-> NoError]
  /\ honest = TRUE

\* expect(x, decryptRequests) up to its first call: createProof is issued
\* with the requirements and shared parameters as they are now.
Expect(r, s, d) ==
  /\ reqs' = r /\ shared' = s /\ drs' = d
  /\ pc' = "prove"

Running(call) == pc = call /\ outcome = "running"

\* X.create resolves; the scenario's callback runs up to its next call.
CreatedRevealed ==
  /\ Running("create") /\ scen = "revealed"
  /\ Expect([c \in Creds |-> [InitReqs[c] EXCEPT !.disclosed = REVEALED[c]]],
            InitShared, {})
  /\ UNCHANGED <<lib, scen, outcome, wit, subWit, revealed, resp, caught, honest>>

CreatedEqualities ==
  /\ Running("create") /\ scen = "equalities"
  /\ Expect(AddRefs(InitReqs, [c \in Creds |-> {EqualToLabel[c]}]),
            InitShared, {})
  /\ UNCHANGED <<lib, scen, outcome, wit, subWit, revealed, resp, caught, honest>>

CreatedAwaiting(s, call) ==
  /\ Running("create") /\ scen = s
  /\ pc' = call /\ reqs' = InitReqs /\ shared' = InitShared
  /\ UNCHANGED <<lib, scen, outcome, wit, subWit, drs, revealed, resp, caught, honest>>

\* The test launchers (testRevealedAC2C_BBS ...) run X.create(...).then(Aux);
\* the try/catch of the AC2C verifiable-encryption launchers wraps a call
\* that returns before any remote call resolves, so it catches nothing.
Created ==
  \/ CreatedRevealed
  \/ CreatedEqualities
  \/ CreatedAwaiting("range", "rangeKey")
  \/ CreatedAwaiting("ve", "authData")
  \/ CreatedAwaiting("accumulators", "accSetup")

\* createRangeProofProvingKey resolves (testRangeAux).
RangeKeyCreated ==
  /\ Running("rangeKey")
  /\ Expect(AddRefs(reqs, InRangeRefs), shared \cup RangeShared, {})
  /\ UNCHANGED <<lib, scen, outcome, wit, subWit, revealed, resp, caught, honest>>

\* createAuthorityData resolves (testVerifiableEncryptionAux).
AuthDataCreated ==
  /\ Running("authData")
  /\ Expect([c \in Creds |-> [reqs[c] EXCEPT
                                !.enc = {<<VEIndex[c], AUTH_LABEL>>},
                                !.refs = @ \cup {AUTH_LABEL}]],
            shared \cup {AUTH_LABEL}, VEDecryptRequests)
  /\ UNCHANGED <<lib, scen, outcome, wit, subWit, revealed, resp, caught, honest>>

\* The first Promise.all of testAccumulatorsAux resolves: issue both addRemoves.
AccSetupDone ==
  /\ Running("accSetup")
  /\ pc' = "accAddRm"
  /\ UNCHANGED <<lib, scen, outcome, wit, subWit, reqs, shared, drs, revealed,
                 resp, caught, honest>>

\* Both accumulatorAddRemove calls resolve: the DL witness check is forked
\* and not awaited, witnesses, labels and inAccum are set, expect() runs.
AccAddRemoved ==
  /\ Running("accAddRm")
  /\ \E sAgree \in BOOLEAN :
       /\ subWit' = sAgree
       /\ honest' = (honest /\ sAgree)
  /\ wit' = "pending"
  /\ Expect(AddRefs(reqs, InAccumRefs), shared \cup AccShared, {})
  /\ UNCHANGED <<lib, scen, outcome, revealed, resp, caught>>

\* Mutant: warnings make the client call createProof again instead of failing.
ProofCreatedRetry ==
  /\ Running("prove")
  /\ \E w \in BOOLEAN, rv \in [Creds -> SUBSET RevealIdx] :
       /\ revealed' = rv
       /\ honest' = (honest /\ ~w /\ rv = [c \in Creds |-> reqs[c].disclosed])
       /\ IF ~w /\ CheckDisclosed(rv)
            THEN pc' = "verify" /\ outcome' = outcome
            ELSE pc' = pc /\ outcome' = outcome
  /\ UNCHANGED <<lib, scen, wit, subWit, reqs, shared, drs, resp, caught>>

\* createProof resolves: assert no warnings, checkDisclosed, call verifyProof.
ProofCreated ==
  /\ Running("prove")
  /\ \E w \in BOOLEAN, rv \in [Creds -> SUBSET RevealIdx] :
       /\ revealed' = rv
       /\ honest' = (honest /\ ~w /\ rv = [c \in Creds |-> reqs[c].disclosed])
       /\ IF ~w /\ CheckDisclosed(rv)
            THEN pc' = "verify" /\ outcome' = outcome
            ELSE pc' = pc /\ outcome' = "failed"
  /\ UNCHANGED <<lib, scen, wit, subWit, reqs, shared, drs, resp, caught>>

\* Mutant: the '!' of 'if (! isEmpty(wadr.decryptResponses))' is lost.
ProofVerifiedNegated ==
  /\ Running("verify")
  /\ \E w \in BOOLEAN, rs \in RespType :
       /\ resp' = rs
       /\ honest' = (honest /\ ~w /\ CorrectResp(rs))
       /\ IF w \/ ~CheckDecryption(rs)
            THEN pc' = pc /\ outcome' = "failed"
          ELSE IF DOMAIN rs # {}
            THEN pc' = "done" /\ outcome' = "passed"
          ELSE pc' = "decrypt" /\ outcome' = outcome
  /\ UNCHANGED <<lib, scen, wit, subWit, reqs, shared, drs, revealed, caught>>

\* verifyProof resolves: assert no warnings, checkDecryption, and call
\* verifyDecryption only if the response tree is not empty.
ProofVerified ==
  /\ Running("verify")
  /\ \E w \in BOOLEAN, rs \in RespType :
       /\ resp' = rs
       /\ honest' = (honest /\ ~w /\ CorrectResp(rs))
       /\ IF w \/ ~CheckDecryption(rs)
            THEN pc' = pc /\ outcome' = "failed"
          ELSE IF DOMAIN rs = {}
            THEN pc' = "done" /\ outcome' = "passed"
          ELSE pc' = "decrypt" /\ outcome' = outcome
  /\ UNCHANGED <<lib, scen, wit, subWit, reqs, shared, drs, revealed, caught>>

\* verifyDecryption resolves with a warning list w (w: it is non-empty).
DecryptionVerified ==
  /\ Running("decrypt")
  /\ \E w \in BOOLEAN :
       /\ honest' = (honest /\ lib \notin AC2CLibs /\ ~w)
       /\ IF StrictEqualEmpty(w)
            THEN outcome' = "passed" /\ caught' = caught
            ELSE /\ caught' = [src |-> "assert", err |-> AssertionError]
                 /\ outcome' = IF CheckAC2CException(AssertionError)
                               THEN "passed" ELSE "failed"
  /\ pc' = "done"
  /\ UNCHANGED <<lib, scen, wit, subWit, reqs, shared, drs, revealed, resp>>

\* verifyDecryption rejects; its .catch accepts only the AC2C exception.
DecryptionFailed ==
  /\ Running("decrypt")
  /\ \E k \in GatewayFailures, r \in ServerReasons :
       /\ honest' = (honest /\ lib \in AC2CLibs
                            /\ k = "ResponseError" /\ r = AC2C_UNIMPLEMENTED)
       /\ caught' = [src |-> "gateway",
                     err |-> HandleError(k, r, "verifyDecryption")]
       /\ outcome' = IF CheckAC2CException(caught'.err)
                     THEN "passed" ELSE "failed"
  /\ pc' = "done"
  /\ UNCHANGED <<lib, scen, wit, subWit, reqs, shared, drs, revealed, resp>>

\* Any other pending call of the main chain rejects: nothing catches it.
CallFailed ==
  /\ pc \in Calls \ {"decrypt"} /\ outcome = "running"
  /\ outcome' = "failed"
  /\ honest' = FALSE
  /\ UNCHANGED <<lib, scen, pc, wit, subWit, reqs, shared, drs, revealed, resp,
                 caught>>

\* The forked getAccumulatorWitness resolves (eq: it equals dWit) or rejects;
\* a failed assert.equal or a rejection is unhandled.
WitnessChecked ==
  /\ wit = "pending"
  /\ \E eq \in BOOLEAN :
       /\ wit' = IF eq THEN "ok" ELSE "failed"
       /\ honest' = (honest /\ eq)
  /\ UNCHANGED <<lib, scen, pc, outcome, subWit, reqs, shared, drs, revealed, resp,
                 caught>>

MainStep ==
  \/ Created \/ RangeKeyCreated \/ AuthDataCreated \/ AccSetupDone
  \/ AccAddRemoved \/ ProofCreated \/ ProofVerified
  \/ DecryptionVerified \/ DecryptionFailed \/ CallFailed

Next == MainStep \/ WitnessChecked

\* Every remote call is answered or times out (undici headersTimeout and
\* bodyTimeout of 10 minutes in defineCryptoInterfaceWith).
Spec == Init /\ [][Next]_vars /\ WF_vars(MainStep) /\ WF_vars(WitnessChecked)

-----------------------------------------------------------------------------
(* Verdicts.  A rejection that nothing handles fails the test process.     *)

Failed == outcome = "failed" \/ wit = "failed"
Passed == outcome = "passed" /\ wit \in {"none", "ok"}
Settled == outcome # "running" /\ wit # "pending"

TypeOK ==
  /\ <<lib, scen>> \in Sessions
  /\ pc \in Calls \cup {"done"}
  /\ outcome \in {"running", "passed", "failed"}
  /\ wit \in {"none", "pending", "ok", "failed"}
  /\ subWit \in BOOLEAN
  /\ reqs \in [Creds -> ReqType]
  /\ shared \in SUBSET Labels
  /\ drs \in SUBSET PathUniverse
  /\ revealed \in [Creds -> SUBSET RevealIdx]
  /\ resp \in RespType
  /\ caught \in CaughtType
  /\ honest \in BOOLEAN

-----------------------------------------------------------------------------
(* Properties.                                                             *)

\* A session that passes has checked every decrypt request of its tree: the
\* response tree answers each requested <<credential, index, authority>>
\* path with that credential's plaintext attribute (checkDecryption, spec
\* 'decrypt correlation closure'), whichever way verifyDecryption ended.
DecryptCorrelation ==
  outcome = "passed" =>
    \A p \in drs : p \in DOMAIN resp /\ DecodesTo(Plain(p), resp[p])

\* When createProof is issued, every label the requirements reference is a
\* registered shared parameter or a credential label: the scenario
\* callbacks registered all they use before calling expect().
LabelsResolved ==
  pc = "prove" => \A c \in Creds : reqs[c].refs \subseteq shared \cup Creds

\* If every engine answer was the correct one, the session does not fail:
\* the client's own assertions accept a correct run.
HonestNeverFails == honest => ~Failed

\* Every session ends: both the main chain and the forked witness check
\* settle, since no call is retried and every call is answered or times out.
Settles == <>Settled

\* Spec section 8: the revealed map of each credential holds exactly the
\* indices its requirement discloses (checkDisclosed only tests emptiness).
DisclosureExact ==
  Passed => \A c \in Creds : revealed[c] = reqs[c].disclosed

\* Spec section 3: a response tree reproduces exactly the request tree's
\* paths, no missing and no extra keys.
ResponsesClosed == Passed => DOMAIN resp = drs

\* Spec sections 4.2 and 5: the add/remove witness is checked against
\* getAccumulatorWitness before the session advances to createProof.
WitnessJoinedBeforeProof ==
  (scen = "accumulators" /\ pc \in {"prove", "verify", "decrypt", "done"})
    => wit = "ok"

\* Spec section 8: a passing accumulator session has checked the witness
\* of every added element, SUB's as well as DL's.
AllWitnessesChecked == (Passed /\ scen = "accumulators") => subWit

\* Spec section 5: the core wraps every gateway error into the uniform
\* {reason, location} error before propagating it (handleError's contract,
\* Promise<ApiError>), so what reaches a caller from the gateway is an ApiError.
GatewayErrorsWrapped == caught.src = "gateway" => caught.err.api
=============================================================================
