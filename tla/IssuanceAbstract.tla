-------------------------- MODULE IssuanceAbstract --------------------------
(***************************************************************************)
(* What issuance (X.create) promises each of the sessions a launcher       *)
(* starts, after spec sections 4.1, 4.3 and 8: it either resolves, holding *)
(* for each credential a signature by that credential's signer over all    *)
(* the credential's values in their original order, with each signer's    *)
(* public data registered in the shared parameters, or it rejects with an *)
(* engine error and returns no signature at all.                           *)
(***************************************************************************)
EXTENDS TestData, Gateway

CONSTANTS Launches,   \* the X.create calls of a launcher
          Signers,    \* the signer public data an engine can create
          IssueOps    \* the engine operations issuance calls

VARIABLES status, sards, shared, err

\* The pairs <<index, value>> a signature over the value list vals covers.
SignedPairs(vals) == {[index |-> i, value |-> vals[i]] : i \in DOMAIN vals}

\* A signature: the signer's public data and the pairs it covers.
Signature(pub, vals) == [signer |-> pub, pairs |-> SignedPairs(vals)]

\* The field values of X before create has run.
EmptySard == [signature |-> [text |-> ""], values |-> <<>>]
EmptyShared == [lbl \in {} |-> ""]

Init ==
  /\ status = [l \in Launches |-> "running"]
  /\ sards  = [l \in Launches |-> [c \in Creds |-> EmptySard]]
  /\ shared = [l \in Launches |-> EmptyShared]
  /\ err    = [l \in Launches |-> NoError]

\* Launch l resolves with a correct signature per credential, the two
\* credentials having different signers.
Resolve(l) ==
  /\ status[l] = "running"
  /\ \E pub \in [Creds -> Signers] :
       /\ pub[DL] # pub[SUB]
       /\ sards' = [sards EXCEPT ![l] =
                      [c \in Creds |-> [signature |-> Signature(pub[c], Vals[c]),
                                        values    |-> Vals[c]]]]
       /\ shared' = [shared EXCEPT ![l] =
                       [lbl \in {SIGNER_PUBLIC[c] : c \in Creds} |->
                          MkSPVOneText(JSONStringify(pub[CHOOSE c \in Creds : SIGNER_PUBLIC[c] = lbl]))]]
  /\ status' = [status EXCEPT ![l] = "resolved"]
  /\ UNCHANGED err

\* Launch l rejects with an error of one of its engine operations and
\* returns nothing.
Reject(l) ==
  /\ status[l] = "running"
  /\ \E op \in IssueOps : \E e \in ErrorsOf(op) : err' = [err EXCEPT ![l] = e]
  /\ status' = [status EXCEPT ![l] = "rejected"]
  /\ UNCHANGED <<sards, shared>>

Next == \E l \in Launches : Resolve(l) \/ Reject(l)

Spec == Init /\ [][Next]_<<status, sards, shared, err>>
=============================================================================
