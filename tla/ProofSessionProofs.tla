------------------------- MODULE ProofSessionProofs -------------------------
(***************************************************************************)
(* Proofs about ProofSession for every value of its constants.             *)
(***************************************************************************)
EXTENDS ProofSession, TLAPS

\* Every label the scenarios reference or register is a fixture label.
LEMMA LabelsTyped ==
  /\ \A c \in Creds : /\ SIGNER_PUBLIC[c] \in Labels
                      /\ EqualToLabel[c] \in Creds
                      /\ InRangeRefs[c] \subseteq Labels
                      /\ InAccumRefs[c] \subseteq Labels
  /\ InitShared \subseteq Labels
  /\ RangeShared \subseteq Labels
  /\ AccShared \subseteq Labels
  /\ AUTH_LABEL \in Labels
<1>1. \A c \in Creds : /\ SIGNER_PUBLIC[c] \in Labels
                      /\ EqualToLabel[c] \in Creds
                      /\ InRangeRefs[c] \subseteq Labels
                      /\ InAccumRefs[c] \subseteq Labels
  BY DEF Labels, Creds, DL, SUB, PerCred, SIGNER_PUBLIC, EqualToLabel,
         InRangeRefs, InAccumRefs, RANGE_MIN, RANGE_MAX, RPPK, MPK, APD, ACC,
         ACC_SEQ_NUM_LABEL, AUTH_LABEL
<1>2. InitShared \subseteq Labels
  BY <1>1 DEF InitShared
<1>3. RangeShared \subseteq Labels
  <2>1. {RPPK[c] : c \in Creds} \subseteq Labels
    BY DEF Labels, Creds, DL, SUB, PerCred, RPPK
  <2>2. {RANGE_MIN[c] : c \in Creds} \subseteq Labels
    BY DEF Labels, Creds, DL, SUB, PerCred, RANGE_MIN
  <2>3. {RANGE_MAX[c] : c \in Creds} \subseteq Labels
    BY DEF Labels, Creds, DL, SUB, PerCred, RANGE_MAX
  <2>4. QED
    BY <2>1, <2>2, <2>3 DEF RangeShared
<1>4. AccShared \subseteq Labels
  <2>1. \A c \in Creds : {MPK[c], APD[c], ACC[c], ACC_SEQ_NUM_LABEL[c]} \subseteq Labels
    BY <1>1 DEF InAccumRefs
  <2>2. QED
    BY <2>1 DEF AccShared
<1>5. AUTH_LABEL \in Labels
  BY DEF Labels
<1>6. QED
  BY <1>1, <1>2, <1>3, <1>4, <1>5
\* The requirements every scenario starts from are well typed.
LEMMA InitReqsType == InitReqs \in [Creds -> ReqType]
BY LabelsTyped DEF InitReqs, InitCred, ReqType

\* Adding labels of the fixtures to every requirement keeps it well typed.
LEMMA AddRefsType ==
  ASSUME NEW r \in [Creds -> ReqType], NEW f,
         \A c \in Creds : f[c] \subseteq Labels \cup Creds
  PROVE  AddRefs(r, f) \in [Creds -> ReqType]
BY DEF AddRefs, ReqType

\* What adding labels does to the labels of a requirement.
LEMMA AddRefsRefs ==
  ASSUME NEW r \in [Creds -> ReqType], NEW f, NEW c \in Creds
  PROVE  AddRefs(r, f)[c].refs = r[c].refs \cup f[c]
BY DEF AddRefs, ReqType

\* Each requirement X.create leaves references only its signer's data.
LEMMA InitReqsRefs == \A c \in Creds : InitReqs[c].refs = {SIGNER_PUBLIC[c]}
BY DEF InitReqs, InitCred

\* Setting the encrypted-for pairs and the labels of a requirement keeps
\* it well typed.
LEMMA ReqUpdateType ==
  ASSUME NEW q \in ReqType, NEW E \in SUBSET (EncIdx \X Auths),
         NEW R \in SUBSET (Labels \cup Creds)
  PROVE  [q EXCEPT !.enc = E, !.refs = R] \in ReqType
BY DEF ReqType

\* The empty decrypt-response tree is a response tree.
LEMMA NoRespType == NoResp \in RespType
<1>1. NoResp \in [{} -> DecryptedVals]
  BY DEF NoResp
<1>2. {} \in SUBSET PathUniverse
  OBVIOUS
<1>3. QED
  BY <1>1, <1>2 DEF RespType

\* Every initial state is well typed.
LEMMA InitTypeOK == Init => TypeOK
<1> SUFFICES ASSUME Init PROVE TypeOK
  OBVIOUS
<1>1. <<lib, scen>> \in Sessions
  <2>1. PICK s \in Sessions : lib = s[1] /\ scen = s[2]
    BY DEF Init
  <2>2. s = <<s[1], s[2]>>
    BY SessionAssumption
  <2>3. QED
    BY <2>1, <2>2
<1>2. reqs \in [Creds -> ReqType]
  BY DEF Init, ReqType
<1>3. resp \in RespType
  BY NoRespType DEF Init
<1>4. caught \in CaughtType
  BY DEF Init, CaughtType
<1>5. QED
  BY <1>1, <1>2, <1>3, <1>4 DEF Init, TypeOK, Calls

\* Every step keeps the state well typed.
LEMMA NextTypeOK == TypeOK /\ [Next]_vars => TypeOK'
<1> SUFFICES ASSUME TypeOK, [Next]_vars PROVE TypeOK'
  OBVIOUS
<1>1. CASE CreatedRevealed
  <2>1. reqs' \in [Creds -> ReqType]
    BY <1>1, InitReqsType, SessionAssumption
    DEF CreatedRevealed, Expect, InitReqs, InitCred, ReqType
  <2>2. QED
    BY <1>1, <2>1, LabelsTyped DEF CreatedRevealed, Expect, Running, TypeOK, Calls
<1>2. CASE CreatedEqualities
  <2>1. reqs' \in [Creds -> ReqType]
    BY <1>2, InitReqsType, LabelsTyped, AddRefsType
    DEF CreatedEqualities, Expect
  <2>2. QED
    BY <1>2, <2>1, LabelsTyped DEF CreatedEqualities, Expect, Running, TypeOK, Calls
<1>3. CASE \E s \in Scenarios, call \in Calls : CreatedAwaiting(s, call)
  BY <1>3, InitReqsType, LabelsTyped
  DEF CreatedAwaiting, Running, TypeOK, Calls
<1>4. CASE RangeKeyCreated
  <2>1. reqs' \in [Creds -> ReqType]
    BY <1>4, LabelsTyped, AddRefsType DEF RangeKeyCreated, Expect, TypeOK
  <2>2. QED
    BY <1>4, <2>1, LabelsTyped DEF RangeKeyCreated, Expect, Running, TypeOK, Calls
<1>5. CASE AuthDataCreated
  <2>1. reqs' \in [Creds -> ReqType]
    <3>1. \A c \in Creds : <<VEIndex[c], AUTH_LABEL>> \in EncIdx \X Auths
      BY SessionAssumption DEF VEIndex, PerCred, Auths
    <3>2. \A c \in Creds : reqs[c].refs \cup {AUTH_LABEL} \subseteq Labels \cup Creds
      BY LabelsTyped DEF TypeOK, ReqType
    <3>3. \A c \in Creds : [reqs[c] EXCEPT !.enc = {<<VEIndex[c], AUTH_LABEL>>},
                                          !.refs = @ \cup {AUTH_LABEL}]
                           \in ReqType
      BY <3>1, <3>2, ReqUpdateType DEF TypeOK
    <3>4. QED
      BY <1>5, <3>3 DEF AuthDataCreated, Expect
  <2>2. drs' \in SUBSET PathUniverse
    BY <1>5, SessionAssumption
    DEF AuthDataCreated, Expect, VEDecryptRequests, PathUniverse, Auths, Creds
  <2>3. QED
    BY <1>5, <2>1, <2>2, LabelsTyped
    DEF AuthDataCreated, Expect, Running, TypeOK, Calls
<1>6. CASE AccSetupDone
  BY <1>6 DEF AccSetupDone, Running, TypeOK, Calls
<1>7. CASE AccAddRemoved
  <2>1. reqs' \in [Creds -> ReqType]
    BY <1>7, LabelsTyped, AddRefsType DEF AccAddRemoved, Expect, TypeOK
  <2>2. QED
    BY <1>7, <2>1, LabelsTyped DEF AccAddRemoved, Expect, Running, TypeOK, Calls
<1>8. CASE ProofCreated
  BY <1>8 DEF ProofCreated, Running, TypeOK, Calls
<1>9. CASE ProofVerified
  BY <1>9 DEF ProofVerified, Running, TypeOK, Calls
<1>10. CASE DecryptionVerified
  <2>1. caught' \in CaughtType
    BY <1>10 DEF DecryptionVerified, StrictEqualEmpty, CaughtType, TypeOK
  <2>2. QED
    BY <1>10, <2>1 DEF DecryptionVerified, Running, TypeOK, Calls
<1>11. CASE DecryptionFailed
  <2>1. caught' \in CaughtType
    <3>1. PICK k \in GatewayFailures, r \in ServerReasons :
            caught' = [src |-> "gateway",
                       err |-> HandleError(k, r, "verifyDecryption")]
      BY <1>11 DEF DecryptionFailed
    <3>2. HandleError(k, r, "verifyDecryption") \in ErrorsOf("verifyDecryption")
      BY DEF ErrorsOf
    <3>3. QED
      BY <3>1, <3>2 DEF CaughtType
  <2>2. QED
    BY <1>11, <2>1 DEF DecryptionFailed, Running, TypeOK, Calls
<1>12. CASE CallFailed
  BY <1>12 DEF CallFailed, TypeOK
<1>13. CASE WitnessChecked
  BY <1>13 DEF WitnessChecked, TypeOK
<1>14. CASE UNCHANGED vars
  BY <1>14 DEF vars, TypeOK
<1>15. QED
  BY <1>1, <1>2, <1>3, <1>4, <1>5, <1>6, <1>7, <1>8, <1>9, <1>10, <1>11,
     <1>12, <1>13, <1>14 DEF Next, MainStep, Created, Scenarios, Calls

\* The session's state is well typed in every reachable state.
THEOREM TypeCorrect == Spec => []TypeOK
BY InitTypeOK, NextTypeOK, PTL DEF Spec


-----------------------------------------------------------------------------
(* DecryptCorrelation.  It is not inductive as it stands: a session passes *)
(* in verifyDecryption's callback, which checks nothing about the tree.   *)
(* The strengthening says the correlation already holds while the call    *)
(* to verifyDecryption is pending, i.e. checkDecryption ran before it.    *)

Correlated == \A p \in drs : p \in DOMAIN resp /\ DecodesTo(Plain(p), resp[p])

IInv ==
  /\ TypeOK
  /\ (pc = "decrypt" \/ outcome = "passed") => Correlated

\* A session that passes has every requested decrypt path answered with
\* the credential's plaintext attribute (checkDecryption in AppTest.ts),
\* for every zkpLib, scenario and engine behaviour.
THEOREM DecryptCorrelationHolds == Spec => []DecryptCorrelation
<1>1. Init => IInv
  BY InitTypeOK DEF Init, IInv
<1>2. IInv /\ [Next]_vars => IInv'
  <2> SUFFICES ASSUME IInv, [Next]_vars PROVE IInv'
    OBVIOUS
  <2>1. TypeOK'
    BY NextTypeOK DEF IInv
  <2>2. CASE ProofVerified
    <3>1. PICK w \in BOOLEAN, rs \in RespType :
            /\ resp' = rs
            /\ IF w \/ ~CheckDecryption(rs)
                 THEN pc' = pc /\ outcome' = "failed"
               ELSE IF DOMAIN rs = {}
                 THEN pc' = "done" /\ outcome' = "passed"
               ELSE pc' = "decrypt" /\ outcome' = outcome
      BY <2>2 DEF ProofVerified
    <3>2. (pc' = "decrypt" \/ outcome' = "passed") => CheckDecryption(rs)
      <4>1. CASE CheckDecryption(rs)
        BY <4>1
      <4>2. CASE ~CheckDecryption(rs)
        <5>1. pc' = pc /\ outcome' = "failed"
          BY <3>1, <4>2
        <5>2. pc = "verify"
          BY <2>2 DEF ProofVerified, Running
        <5>3. QED
          BY <5>1, <5>2
      <4>3. QED
        BY <4>1, <4>2
    <3>3. QED
      BY <2>1, <2>2, <3>1, <3>2 DEF ProofVerified, CheckDecryption, Correlated, IInv
  <2>3. CASE DecryptionVerified \/ DecryptionFailed
    BY <2>1, <2>3 DEF DecryptionVerified, DecryptionFailed, Running, Correlated, IInv
  <2>4. CASE WitnessChecked \/ UNCHANGED vars
    BY <2>1, <2>4 DEF WitnessChecked, vars, Correlated, IInv
  <2>5. CASE CallFailed
    BY <2>1, <2>5 DEF CallFailed, Calls, IInv
  <2>6. CASE ProofCreated
    BY <2>1, <2>6 DEF ProofCreated, Running, IInv
  <2>7. CASE Created \/ RangeKeyCreated \/ AuthDataCreated \/ AccSetupDone
                    \/ AccAddRemoved
    BY <2>1, <2>7 DEF Created, CreatedRevealed, CreatedEqualities,
       CreatedAwaiting, RangeKeyCreated, AuthDataCreated, AccSetupDone,
       AccAddRemoved, Expect, Running, IInv
  <2>8. QED
    BY <2>2, <2>3, <2>4, <2>5, <2>6, <2>7 DEF Next, MainStep
<1>3. IInv => DecryptCorrelation
  BY DEF IInv, Correlated, DecryptCorrelation
<1>4. QED
  BY <1>1, <1>2, <1>3, PTL DEF Spec
-----------------------------------------------------------------------------
(* LabelsResolved is not inductive either: a scenario that awaits a call  *)
(* before expect() (range, verifiable encryption, accumulators) must still *)
(* hold the registry and requirements X.create left, so that what its      *)
(* callback adds is all that createProof sees.                             *)

AwaitingCalls == {"rangeKey", "authData", "accSetup", "accAddRm"}

LInv ==
  /\ TypeOK
  /\ pc \in AwaitingCalls => reqs = InitReqs /\ shared = InitShared
  /\ LabelsResolved

\* When createProof is issued, every label the requirements reference is
\* registered in the shared parameters or names a credential, whatever the
\* scenario and whatever the engine answered before.
THEOREM LabelsResolvedHolds == Spec => []LabelsResolved
<1>1. Init => LInv
  BY InitTypeOK DEF Init, LInv, AwaitingCalls, LabelsResolved
<1>2. LInv /\ [Next]_vars => LInv'
  <2> SUFFICES ASSUME LInv, [Next]_vars PROVE LInv'
    OBVIOUS
  <2> USE DEF LInv, LabelsResolved, AwaitingCalls
  <2>1. TypeOK'
    BY NextTypeOK
  <2>2. CASE CreatedRevealed
    <3>1. \A c \in Creds : reqs'[c].refs = {SIGNER_PUBLIC[c]}
      BY <2>2, InitReqsRefs DEF CreatedRevealed, Expect, InitReqs, InitCred
    <3>2. shared' = InitShared /\ pc' = "prove"
      BY <2>2 DEF CreatedRevealed, Expect
    <3>3. QED
      BY <2>1, <3>1, <3>2 DEF InitShared
  <2>3. CASE CreatedEqualities
    <3>1. \A c \in Creds : reqs'[c].refs = {SIGNER_PUBLIC[c], EqualToLabel[c]}
      BY <2>3, InitReqsType, InitReqsRefs, AddRefsRefs
      DEF CreatedEqualities, Expect
    <3>2. shared' = InitShared /\ pc' = "prove"
      BY <2>3 DEF CreatedEqualities, Expect
    <3>3. \A c \in Creds : EqualToLabel[c] \in Creds
      BY LabelsTyped
    <3>4. QED
      BY <2>1, <3>1, <3>2, <3>3 DEF InitShared
  <2>4. CASE \E s \in Scenarios, call \in AwaitingCalls : CreatedAwaiting(s, call)
    BY <2>1, <2>4 DEF CreatedAwaiting
  <2>5. CASE RangeKeyCreated
    <3>1. reqs = InitReqs /\ shared = InitShared
      BY <2>5 DEF RangeKeyCreated, Running
    <3>2. \A c \in Creds : InRangeRefs[c] \subseteq RangeShared
      BY DEF InRangeRefs, RangeShared, Creds
    <3>3. \A c \in Creds : reqs'[c].refs = {SIGNER_PUBLIC[c]} \cup InRangeRefs[c]
      BY <2>5, <3>1, InitReqsType, InitReqsRefs, AddRefsRefs
      DEF RangeKeyCreated, Expect
    <3>4. shared' = InitShared \cup RangeShared /\ pc' = "prove"
      BY <2>5, <3>1 DEF RangeKeyCreated, Expect
    <3>5. QED
      BY <2>1, <3>2, <3>3, <3>4 DEF InitShared
  <2>6. CASE AuthDataCreated
    <3>1. reqs = InitReqs /\ shared = InitShared
      BY <2>6 DEF AuthDataCreated, Running
    <3>2. \A c \in Creds : reqs'[c].refs = {SIGNER_PUBLIC[c], AUTH_LABEL}
      BY <2>6, <3>1, InitReqsRefs DEF AuthDataCreated, Expect, InitReqs, InitCred
    <3>3. shared' = InitShared \cup {AUTH_LABEL} /\ pc' = "prove"
      BY <2>6, <3>1 DEF AuthDataCreated, Expect
    <3>4. QED
      BY <2>1, <3>2, <3>3 DEF InitShared
  <2>7. CASE AccSetupDone
    BY <2>1, <2>7 DEF AccSetupDone, Running
  <2>8. CASE AccAddRemoved
    <3>1. reqs = InitReqs /\ shared = InitShared
      BY <2>8 DEF AccAddRemoved, Running
    <3>2. \A c \in Creds : InAccumRefs[c] \subseteq AccShared
      BY DEF InAccumRefs, AccShared
    <3>3. \A c \in Creds : reqs'[c].refs = {SIGNER_PUBLIC[c]} \cup InAccumRefs[c]
      BY <2>8, <3>1, InitReqsType, InitReqsRefs, AddRefsRefs
      DEF AccAddRemoved, Expect
    <3>4. shared' = InitShared \cup AccShared /\ pc' = "prove"
      BY <2>8, <3>1 DEF AccAddRemoved, Expect
    <3>5. QED
      BY <2>1, <3>2, <3>3, <3>4 DEF InitShared
  <2>9. CASE ProofCreated
    BY <2>1, <2>9 DEF ProofCreated, Running
  <2>10. CASE ProofVerified \/ DecryptionVerified \/ DecryptionFailed
    BY <2>1, <2>10 DEF ProofVerified, DecryptionVerified, DecryptionFailed, Running
  <2>11. CASE CallFailed \/ WitnessChecked \/ UNCHANGED vars
    BY <2>1, <2>11 DEF CallFailed, WitnessChecked, vars
  <2>12. QED
    BY <2>2, <2>3, <2>4, <2>5, <2>6, <2>7, <2>8, <2>9, <2>10, <2>11
    DEF Next, MainStep, Created, Scenarios
<1>3. LInv => LabelsResolved
  BY DEF LInv
<1>4. QED
  BY <1>1, <1>2, <1>3, PTL DEF Spec

-----------------------------------------------------------------------------
(* HonestNeverFails.  A correct engine lets every session pass except the  *)
(* verifiable-encryption test on a library that implements                 *)
(* verify_decryption: its answer is an empty warning list, which the      *)
(* client's assert.strictEqual(w, []) rejects (run dncve).  The theorem    *)
(* therefore assumes that every "ve" session uses an AC2C library.  It is  *)
(* not inductive as it stands: an honest session reaches verifyDecryption  *)
(* only if it has decrypt requests, that is only in the "ve" scenario,     *)
(* which the strengthening records along the chain that leads there.      *)

\* Every verifiable-encryption session runs on an AC2C library.
VEOnAC2C == \A s \in Sessions : s[2] = "ve" => s[1] \in AC2CLibs

HInv ==
  /\ TypeOK
  /\ pc = "authData" => scen = "ve"
  /\ drs # {} => scen = "ve"
  /\ (honest /\ pc = "decrypt") => scen = "ve"
  /\ HonestNeverFails

\* With a correct engine no session fails, neither its main chain nor the
\* forked witness check, provided every verifiable-encryption session runs
\* on an AC2C library: every assertion and check of the client accepts the
\* correct answers, and verifyDecryption is only called in the "ve" scenario.
THEOREM HonestNeverFailsHolds ==
  ASSUME VEOnAC2C
  PROVE  Spec => []HonestNeverFails
<1>1. Init => HInv
  BY InitTypeOK DEF Init, HInv, HonestNeverFails, Failed
<1>2. HInv /\ [Next]_vars => HInv'
  <2> SUFFICES ASSUME HInv, [Next]_vars PROVE HInv'
    OBVIOUS
  <2> USE DEF HInv, HonestNeverFails, Failed
  <2>1. TypeOK'
    BY NextTypeOK
  <2>2. CASE Created
    BY <2>1, <2>2 DEF Created, CreatedRevealed, CreatedEqualities,
       CreatedAwaiting, Expect, Running
  <2>3. CASE RangeKeyCreated \/ AccSetupDone \/ AccAddRemoved
    BY <2>1, <2>3 DEF RangeKeyCreated, AccSetupDone, AccAddRemoved, Expect,
       Running
  <2>4. CASE AuthDataCreated
    BY <2>1, <2>4 DEF AuthDataCreated, Expect, Running
  <2>5. CASE ProofCreated
    <3>1. PICK w \in BOOLEAN, rv \in [Creds -> SUBSET RevealIdx] :
            /\ revealed' = rv
            /\ honest' = (honest /\ ~w /\ rv = [c \in Creds |-> reqs[c].disclosed])
            /\ IF ~w /\ CheckDisclosed(rv)
                 THEN pc' = "verify" /\ outcome' = outcome
                 ELSE pc' = pc /\ outcome' = "failed"
      BY <2>5 DEF ProofCreated
    <3>2. honest' => CheckDisclosed(rv)
      BY <3>1 DEF CheckDisclosed
    <3>3. QED
      BY <2>1, <2>5, <3>1, <3>2 DEF ProofCreated, Running
  <2>6. CASE ProofVerified
    <3>1. PICK w \in BOOLEAN, rs \in RespType :
            /\ resp' = rs
            /\ honest' = (honest /\ ~w /\ CorrectResp(rs))
            /\ IF w \/ ~CheckDecryption(rs)
                 THEN pc' = pc /\ outcome' = "failed"
               ELSE IF DOMAIN rs = {}
                 THEN pc' = "done" /\ outcome' = "passed"
               ELSE pc' = "decrypt" /\ outcome' = outcome
      BY <2>6 DEF ProofVerified
    <3>2. honest' => CheckDecryption(rs)
      BY <3>1 DEF CorrectResp, CheckDecryption
    <3>3. (honest' /\ pc' = "decrypt") => drs # {}
      BY <3>1, <2>6 DEF CorrectResp, ProofVerified, Running
    <3>4. QED
      BY <2>1, <2>6, <3>1, <3>2, <3>3 DEF ProofVerified, Running
  <2>7. CASE DecryptionVerified
    <3>1. honest => lib \in AC2CLibs
      BY <2>7 DEF DecryptionVerified, Running, TypeOK, VEOnAC2C
    <3>2. ~honest'
      BY <2>7, <3>1 DEF DecryptionVerified
    <3>3. QED
      BY <2>1, <2>7, <3>2 DEF DecryptionVerified
  <2>8. CASE DecryptionFailed
    <3>1. PICK k \in GatewayFailures, r \in ServerReasons :
            /\ honest' = (honest /\ lib \in AC2CLibs
                            /\ k = "ResponseError" /\ r = AC2C_UNIMPLEMENTED)
            /\ caught' = [src |-> "gateway",
                          err |-> HandleError(k, r, "verifyDecryption")]
            /\ outcome' = IF CheckAC2CException(caught'.err)
                          THEN "passed" ELSE "failed"
      BY <2>8 DEF DecryptionFailed
    <3>2. honest' => CheckAC2CException(caught'.err)
      BY <3>1 DEF HandleError, CheckAC2CException
    <3>3. QED
      BY <2>1, <2>8, <3>1, <3>2 DEF DecryptionFailed
  <2>9. CASE CallFailed
    BY <2>1, <2>9 DEF CallFailed
  <2>10. CASE WitnessChecked
    <3>1. PICK eq \in BOOLEAN :
            /\ wit' = IF eq THEN "ok" ELSE "failed"
            /\ honest' = (honest /\ eq)
      BY <2>10 DEF WitnessChecked
    <3>2. honest' => wit' = "ok"
      BY <3>1
    <3>3. QED
      BY <2>1, <2>10, <3>2 DEF WitnessChecked
  <2>11. CASE UNCHANGED vars
    BY <2>1, <2>11 DEF vars
  <2>12. QED
    BY <2>2, <2>3, <2>4, <2>5, <2>6, <2>7, <2>8, <2>9, <2>10, <2>11
    DEF Next, MainStep
<1>3. HInv => HonestNeverFails
  BY DEF HInv
<1>4. QED
  BY <1>1, <1>2, <1>3, PTL DEF Spec

====
