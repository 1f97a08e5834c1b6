------------------------------ MODULE TestData ------------------------------
(***************************************************************************)
(* The fixture data of the example client (vcp/test/TestData.ts): the two  *)
(* credential labels, the shared-parameter labels each scenario registers  *)
(* and references, and the attribute values the credentials are signed     *)
(* over.  Only the data the session's control depends on is kept: labels  *)
(* are the strings of TestData.ts, the two long CredentialMetadata texts   *)
(* are shortened to distinct tags.  Arrays of the code are 0-based, so a   *)
(* value list is a function on 0..n-1.                                     *)
(***************************************************************************)
EXTENDS Naturals

DL  == "DL"
SUB == "sub"
Creds == {DL, SUB}

AUTH_LABEL == "authorityPublic"

\* A per-credential constant of TestData.ts: d for DL, s for SUB.
PerCred(d, s) == [c \in Creds |-> IF c = DL THEN d ELSE s]

SIGNER_PUBLIC     == PerCred("dlSignerPublic", "subSignerPublic")
REVEALED          == PerCred({0}, {0})
ACC               == PerCred("dlAcc", "subAcc")
MPK               == PerCred("dlMpk", "subMpk")
APD               == PerCred("dlAccPublicData", "subAccPublicData")
ACC_SEQ_NUM_LABEL == PerCred("DL_ACC_SEQ_NUM_LABEL", "SUB_ACC_SEQ_NUM_LABEL")
RPPK              == PerCred("dlRppk", "subRppk")
RANGE_MIN         == PerCred("dlMinBDdays", "subMinValiddays")
RANGE_MAX         == PerCred("dlMaxBDdays", "subMaxValiddays")

\* Every shared-parameter label of the fixtures.
Labels == {"dlSignerPublic", "subSignerPublic", "dlAcc", "subAcc", "dlMpk",
           "subMpk", "dlAccPublicData", "subAccPublicData",
           "DL_ACC_SEQ_NUM_LABEL", "SUB_ACC_SEQ_NUM_LABEL", "dlRppk", "subRppk",
           "dlMinBDdays", "subMinValiddays", "dlMaxBDdays", "subMaxValiddays",
           AUTH_LABEL}

DL_ACC_MEM_VALUE  == "abcdef0123456789abcdef0123456789"
SUB_ACC_MEM_VALUE == "aaaabcdef0123456789abcdef0123456"

\* Util.mkDVText and Util.mkDVInt: a DataValue is a tagged value.
DVText(x) == [tag |-> "DV_TEXT", contents |-> x]
DVInt(x)  == [tag |-> "DV_INT",  contents |-> x]

\* dVals() and sVals(): the attribute values, indexed from 0.
DVals == [i \in 0..4 |-> CASE i = 0 -> DVText("DLMetadata")
                           [] i = 1 -> DVInt(37852)
                           [] i = 2 -> DVText("123-45-6789")
                           [] i = 3 -> DVInt(180)
                           [] i = 4 -> DVText(DL_ACC_MEM_VALUE)]
SVals == [i \in 0..3 |-> CASE i = 0 -> DVText("SUBMetadata")
                           [] i = 1 -> DVText(SUB_ACC_MEM_VALUE)
                           [] i = 2 -> DVInt(49997)
                           [] i = 3 -> DVText("123-45-6789")]
Vals == PerCred(DVals, SVals)

\* initCred(signerLabel) as registered by proofReqs(): no constraint yet,
\* only the reference to the signer's public data.  A requirement keeps
\* the disclosed indices, the encrypted-for pairs <<index, authority>>
\* and every shared-parameter or credential label it references.
InitCred(c) == [disclosed |-> {}, enc |-> {}, refs |-> {SIGNER_PUBLIC[c]}]

\* dCTs() and sCTs(): the claim types of each credential's attributes.
CTs == PerCred(<<"CtText", "CtInt", "CtEncryptableText", "CtInt", "CtAccumulatorMember">>,
               <<"CtText", "CtAccumulatorMember", "CtInt", "CtEncryptableText">>)

\* DL_BLINDED_INDICES and SUB_BLINDED_INDICES.
BLINDED_INDICES == PerCred(<<1, 2, 3, 4>>, <<1, 2, 3>>)

\* Util.mkSPVOneText; JSON.stringify is kept as an injective encoding.
JSONStringify(x) == [json |-> x]
MkSPVOneText(x) == [tag |-> "SPV_ONE", contents |-> DVText(x)]

\* shared(dPub, sPub): the registry holds the two signers' public data.
InitShared == {SIGNER_PUBLIC[c] : c \in Creds}
=============================================================================
