------------------------------ MODULE Gateway ------------------------------
(***************************************************************************)
(* The engine gateway of vcp/api.ts as the client sees it: every wrapper   *)
(* of defineCryptoInterfaceWith awaits its network call and, on failure,   *)
(* awaits handleError(zkpLib, location, error), which throws the error the *)
(* wrapper's caller receives.  An error is a record: api says whether it   *)
(* is an ApiError (the only kind that carries apiErrorMessage), reason and *)
(* location are the fields of its apiErrorMessage.                         *)
(***************************************************************************)

\* The engine operations, by the name of their wrapper in interface VCP.
Ops == {"createSignerData", "sign", "createBlindSigningInfo",
        "signWithBlindedAttributes", "unblindBlindedSignature", "createProof",
        "verifyProof", "verifyDecryption", "createRangeProofProvingKey",
        "createAuthorityData", "createMembershipProvingKey",
        "createAccumulatorData", "createAccumulatorElement",
        "accumulatorAddRemove", "getAccumulatorWitness"}

\* The location string each wrapper passes to handleError.
Location == [op \in Ops |->
               CASE op = "createBlindSigningInfo"  -> "createBlindeSigningInfo"
                 [] op = "unblindBlindedSignature" -> "unblindBlinedSignature"
                 [] OTHER                          -> op]

\* How a failed network call ends, as handleError tells the cases apart
\* with isErrorA: a ResponseError whose body is JSON, a ResponseError whose
\* body is not JSON, a FetchError (no answer, or an undici timeout), or
\* anything else.
GatewayFailures == {"ResponseError", "ResponseErrorNotJson", "FetchError", "Other"}

AC2C_UNIMPLEMENTED == "General(\"specific_verify_decryption_ac2c : UNIMPLEMENTED\")"
\* The reasons an engine puts in a JSON error body.
ServerReasons == {AC2C_UNIMPLEMENTED, "General(other)"}

\* handleError: a JSON body is the engine's apiErrorMessage, whose location
\* names the engine's failing operation; awaiting json() of any other body
\* rejects with a SyntaxError, which escapes instead of an ApiError.
HandleError(kind, reason, op) ==
  CASE kind = "ResponseError" ->
         [api |-> TRUE, reason |-> reason, location |-> op]
    [] kind = "ResponseErrorNotJson" ->
         [api |-> FALSE, reason |-> "SyntaxError", location |-> "none"]
    [] kind = "FetchError" ->
         [api |-> TRUE, reason |-> "FetchError", location |-> Location[op]]
    [] OTHER ->
         [api |-> TRUE, reason |-> "UNKNOWN", location |-> Location[op]]

\* The error field of a client object while no call has failed.
NoError == [api |-> FALSE, reason |-> "none", location |-> "none"]

\* Every error a wrapper can throw for operation op.
ErrorsOf(op) == {HandleError(k, r, op) : k \in GatewayFailures, r \in ServerReasons}
=============================================================================
