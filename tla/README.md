# TLA+ models of the VCP TypeScript example client

The code under `src/server/example-client/typescript/src/` is a test client for a
remote "VCP" credential engine (an HTTP server with three zero-knowledge
libraries: `AC2C_BBS`, `AC2C_PS`, `DNC`). Each test session does the following:

1. It issues two credentials, `DL` and `sub`.
2. It builds proof requirements and a registry of shared parameters.
3. It asks the engine to create a proof, verify it and verify decryptions.
4. It checks each answer with chai assertions.

This directory models that client in TLA+. The models are model-checked with TLC and
the main invariants are proved with TLAPS.

## The system

| Part | Source | What it does |
|---|---|---|
| Fixtures | `vcp/test/TestData.ts`, `vcp/test/Util.ts` | Labels, attribute values (tagged `DataValue`s), `initCred`, `proofReqs`, `shared` |
| Session object | `vcp/test/X.ts` | `X.create` issues both credentials (blinded or not) and fills `reqs` and `shared`. `credD` and `credS` alias the entries of `reqs` |
| Scenarios | `vcp/test/AppTest.ts` `test*Aux` | Revealed, equalities, range, verifiable encryption (ve), accumulators. Each adds requirements and shared labels, possibly after more remote calls, then calls `expect` |
| Proof pipeline | `AppTest.ts` `expect`, `checkDisclosed`, `checkDecryption`, `verifyDecryption` | createProof → verifyProof → (if the response tree is non-empty) verifyDecryption, with the client's assertions between them |
| Engine gateway | `vcp/api.ts` | One async wrapper per engine call. On failure `handleError` classifies the error and throws an `ApiError`. Uses undici with 10-minute header and body timeouts |
| Issuance | `vcp/test/X.ts` `create`, `doCreateSharedAndSigs`, `createSignerDataAndSignatures`; `TestData.getBlinded`/`getNonBlinded` | Four awaited engine calls (NonBlinded) or eight (Blinded: signer data, blind signing info, blind signature, unblinding, per credential), then the sards and `shared` |
| Launchers / CLI | `AppTest.ts` `test*`, `cli.ts` | Start sessions for every library, without awaiting them |
| Diagnostics, greeting | `vcp/util.ts`, `index.ts` | Formatting only |

Sessions interact only through the engine and the process. An unhandled rejection,
which is what a failed chai assertion inside a `.then` becomes, fails the run.

Within one session, concurrency comes from promise chains:
- The main chain is sequential.
- The accumulator scenario forks a witness check (`getAccumulatorWitness(...).then(assert.equal)`, AppTest.ts:240) that nothing joins.

## Modules

- **TestData**: the fixture constants of `TestData.ts`.
  - Labels are the code's strings.
  - `DataValue` is a record `[tag, contents]`, as `mkDVText` and `mkDVInt` build it.
  - `dVals` and `sVals` are functions on `0..n-1`.
- **Gateway**: the engine operations, the location string each api.ts wrapper passes to `handleError`, and `handleError`'s classification of a failure. `ErrorsOf(op)` is every error a wrapper can throw.
- **Partition**: `mkPair`, `getBlinded`, `getNonBlinded` as operators on 0-based arrays; `MCPartition` checks them against the spec's partitioning rule. `.filter` is modelled by what it returns, not by recursion: `Filtered(vals, kept)` puts at position k the pair of the kept index of rank k (`Rank` counts the kept indices up to an index). This is the order `.filter` keeps, and it leaves the operators open to TLAPS.
- **IssuanceAbstract**: what X.create promises (spec 4.1, 8): each launch resolves with, per credential, a signature by its signer over all its values and the signers' public data in `shared`, or rejects with an engine error and no signature.
- **Issuance**: X.create as the code does it, for a set of launches `<<zkpLib, sigType>>`. One action per engine call and credential (`CreateSignerData`, `Sign`, `CreateBlindSigningInfo`, `SignWithBlindedAttributes`, `UnblindBlindedSignature`), each guarded by being the call the launch awaits (`Calls(l)[pc[l]]`); the last resolution also runs the `.then` of `doCreateSharedAndSigs` and the rest of `create` (`Joined`). `CallFailed` rejects at any call. The engine is correct: a signature covers a set of index/value pairs; blind signing info commits to the blinded pairs; unblinding yields the signature only with the matching info, claim types and blinded pairs, and an invalid signature otherwise. `IssuanceRefines` is `INSTANCE IssuanceAbstract` with the identity mapping on `status`, `sards`, `shared`, `err`.
- **ProofSession**: one session. Each action is the resolution of one pending promise together with the synchronous code of its callback, up to the next remote call.
- **MCProofSession**: the instance for TLC.
  - The three libraries, with AC2C as the libraries whose `verify_decryption` is unimplemented.
  - Encryptable indices `{2,3}` and revealable indices `{0,1}`.
  - Session sets for each run.
- **ProofSessionProofs**, **IssuanceProofs**, **PartitionProofs**: TLAPS proofs.

### ProofSession: state

| Variable | Code |
|---|---|
| `lib`, `scen` | `x.zkpLib`, the `test*Aux` that runs |
| `pc` | the pending call of the main chain (`create`, `rangeKey`, `authData`, `accSetup`, `accAddRm`, `prove`, `verify`, `decrypt`), or `done` |
| `outcome` | `running`, `passed`, or `failed` (an assertion or an unhandled rejection) |
| `wit` | the forked witness check: `none`, `pending`, `ok`, `failed` |
| `subWit` | whether SUB's add/remove witness equals what `getAccumulatorWitness` would return |
| `reqs` | `x.reqs` per credential: disclosed indices, encryptedFor pairs, and every label referenced (signer, equalTo, inRange, inAccum) |
| `shared` | the labels registered in `x.shared` |
| `drs` | the decrypt request tree passed to `expect`, as `<<cred, index, authority>>` paths |
| `revealed`, `resp` | `revealedIdxsAndVals` from createProof, and `decryptResponses` from verifyProof (path → decoded value) |
| `honest` | ghost: every engine answer so far was the correct one |

### ProofSession: actions

| Action | Code |
|---|---|
| `Created*` | X.create resolves; `testRevealedAux` and `testEqualitiesAux` run to `expect`; the other scenarios issue their first call |
| `RangeKeyCreated` | testRangeAux `.then` (AppTest.ts:87-109). SUB's inRange references `DL_RPPK` |
| `AuthDataCreated` | testVerifiableEncryptionAux `.then` (139-167) |
| `AccSetupDone`, `AccAddRemoved` | the two `Promise.all` stages (219-283). `AccAddRemoved` forks the witness check |
| `ProofCreated` | createProof resolves: `assert.isEmpty(warnings)`, `checkDisclosed` |
| `ProofVerified` | verifyProof resolves: assertion, `checkDecryption`, the `isEmpty(decryptResponses)` branch |
| `DecryptionVerified`, `DecryptionFailed` | verifyDecryption resolves or rejects into the `.catch` (396-400) |
| `CallFailed` | any other call rejects (api.ts wrappers → `handleError`); nothing catches it |
| `WitnessChecked` | the forked check resolves equal, unequal, or rejects |

The engine is the environment: every answer is chosen from right and wrong answers
(warnings or none, any revealed sets, any response tree over the index set with
right or garbage values, any error kind), and `honest` records which answers were
right.

JavaScript semantics that matter are modelled by what they do:
- `===` between an int attribute and a decoded string is false (`DecodesTo`).
- `assert.strictEqual(w, [])` compares references, so it is always false (`StrictEqualEmpty`).
- Reading `.apiErrorMessage.reason` of an error that is not an `ApiError` throws (`CheckAC2CException`).
- `handleError` sorts failures into four kinds:
  - a JSON `ResponseError` becomes an `ApiError` with the server's reason;
  - a non-JSON body throws a `SyntaxError`;
  - a `FetchError` and any other error become `ApiError`s with a fixed reason.

## Runs

| Run | Sessions | Checks | Result |
|---|---|---|---|
| `session` | all 15 library × scenario pairs | `TypeOK`, `DecryptCorrelation`, `LabelsResolved`, `Settles` | pass |
| `honest` | all but DNC/ve | `HonestNeverFails` | pass |
| `dncve` | DNC/ve | `HonestNeverFails` | **violated** |
| `disclosure` | the revealed scenario | `DisclosureExact` | **violated** |
| `closed` | AC2C_BBS/ve | `ResponsesClosed` | **violated** |
| `witjoin` | DNC/accumulators | `WitnessJoinedBeforeProof` | **violated** |
| `subwit` | DNC/accumulators | `AllWitnessesChecked` | **violated** |
| `wrapped` | DNC/ve | `GatewayErrorsWrapped` | **violated** |
| `partition` (MCPartition) | arrays of 0..6 values, every ascending blinded list | `PartitionMatchesRule` | pass, 127 states |
| `issuance` (MCIssuance) | AC2C_BBS NonBlinded + Blinded | `TypeOK`, `IssuanceRefines`, `IssuanceSettles` | pass, 1,225 states |
| `location` (MCIssuance) | same | `RejectionNamesOperation` | **violated** |

What the properties say:
- `DecryptCorrelation`: a passing session had every requested decrypt path answered with the plaintext of that credential's attribute.
- `LabelsResolved`: when createProof is issued, every referenced label is registered.
- `Settles`: both chains of a session end.
- `HonestNeverFails`: with a correct engine the client's assertions accept.
- `PartitionMatchesRule`: both partitions hold exactly the pairs of their index sets, with the array's values, in the array's order (spec 4.1, 8).
- `IssuanceRefines`: round-trip signing. Whatever call fails, and in both modes, a resolved launch holds correct signatures by distinct signers over all values, and a rejected one holds none.
- `IssuanceSettles`: every X.create settles.

What the violations show (see `findings` in PROJECT.json):
- **dncve** (a code bug): DNC verifiable encryption always fails. `strictEqual(w, [])` throws, and the `.catch` turns the `AssertionError` into a `TypeError`.
- **disclosure**: `checkDisclosed` checks only emptiness (its own TODO at AppTest.ts:346). A proof that reveals the wrong indices passes.
- **closed**: `checkDecryption` ignores extra response paths. With AC2C, verifyDecryption's UNIMPLEMENTED is accepted, so such a session passes.
- **witjoin**: the witness check is not joined. createProof runs before it resolves.
- **subwit**: only DL's witness is ever compared. SUB's is used unchecked.
- **wrapped**: a non-JSON error body makes `handleError` throw a `SyntaxError` (api.ts:409), not a wrapped error.
- **location** (a code bug): api.ts:202 and 240 pass `"createBlindeSigningInfo"` and `"unblindBlinedSignature"` to `handleError`, so a `FetchError` names no existing operation.

Why the bounds are enough:
- The scenarios, labels and values are the code's own finite fixtures.
- The only free choices are the engine's answers, and each run covers all of them: each Boolean, every subset of the revealed indices `{0,1}`, every response tree over the encryptable paths with each value right, wrong (`Garbage`) or another attribute's text, every error kind and reason.
- The session run reaches 45,367 distinct states.
- Issuance: the library only names the signer, so one library with both signature types covers every call sequence; each call may fail with every error kind.
- Partition: every array length up to 6 (the fixtures have 5 and 4) with every ascending index list, including the empty one and the full one.
- Nothing is unbounded: no call is retried and no loop repeats.

Fairness:
- `WF` on the main chain and on the witness check.
- It is justified by api.ts:141-145. Every request has 10-minute header and body timeouts, so every pending call eventually resolves or rejects.
- The witness check may still settle after the main chain has failed. In Node, that failure is an unhandled rejection that would already have ended the process. This only adds behaviours: the witness check reads nothing of the main chain, and no property needs it to be cut short.
- Deadlock checking is off because a session is a finite chain that really stops at `done`, and an issuance stops when every launch has settled.
- Issuance assumes `WF` on the whole next-state relation, for the same reason: every awaited call is answered or times out.

## Proofs

### ProofSessionProofs

- `TypeCorrect`: `Spec => []TypeOK`.
  - Built from the lemmas `InitTypeOK` and `NextTypeOK`.
  - The Next lemma has one case per action, and a sub-step for each action that updates `reqs`.
  - The helper lemmas cover the fixtures' label set and the record updates.
- `DecryptCorrelationHolds`: `Spec => []DecryptCorrelation`.
  - `DecryptCorrelation` is not inductive. A step from `decrypt` to `passed` (DecryptionVerified or DecryptionFailed) does not look at the responses.
  - The strengthening is `IInv == TypeOK /\ ((pc = "decrypt" \/ outcome = "passed") => Correlated)`. It records that `checkDecryption` already held when verifyProof resolved, and that `drs` and `resp` do not change after that.
  - TLC checks `IInv` on the session instance.
  - The proof shows `Init => IInv`, `IInv /\ [Next]_vars => IInv'` (one case per action), and `IInv => DecryptCorrelation`.
- `LabelsResolvedHolds`: `Spec => []LabelsResolved`. The strengthening `LInv` adds that while the main chain awaits one of the scenario's setup calls (`rangeKey`, `authData`, `accSetup`, `accAddRm`), `reqs` and `shared` still hold their initial values; each setup action then adds its references and their labels together. TLC checks `LInv` on the session instance. Lemmas `AddRefsRefs` and `InitReqsRefs` give the references after a record update.
- The only assumption is `SessionAssumption`:
  - AC2C libraries are libraries;
  - sessions are library × scenario pairs, and there is at least one;
  - the encryptable indices contain 2 and 3 and lie in both value lists;
  - the fixtures' disclosed indices are revealable.

- `HonestNeverFailsHolds`: `ASSUME VEOnAC2C PROVE Spec => []HonestNeverFails`, where `VEOnAC2C` says that every `ve` session runs on an AC2C library.
  - The hypothesis is needed: the `dncve` run shows that DNC/ve fails even with a correct engine. The `honest` run's session set satisfies it.
  - `HonestNeverFails` is not inductive. A correct engine makes verifyProof return a response tree only when there are decrypt requests, and so leads to `decrypt` only in the `ve` scenario. The strengthening `HInv` adds that `authData` is awaited only in `ve`, that decrypt requests exist only in `ve`, and that an honest session at `decrypt` runs `ve`. TLC checks `HInv` on the `honest` session set (45,200 states).
  - Under `HInv`, `DecryptionVerified` cannot keep `honest`, because the library is AC2C. An honest `DecryptionFailed` carries `AC2C_UNIMPLEMENTED` as an ApiError, which the `.catch` accepts. An honest `ProofCreated` passes `checkDisclosed`, an honest `ProofVerified` passes `checkDecryption`, and an honest witness check ends `ok`.

Only model-checked, and out of TLAPS's reach:
- the liveness property `Settles`, which needs fairness and ENABLED;
- the violation runs.

### PartitionProofs

- `PartitionRule`: for every `n`, every array with domain `0..n-1` and every ascending list of its indices (`AscendingLists(n)`), `PartitionMatchesRule` holds. This is the spec's partitioning rule for arrays of any length, not only up to `MaxLen`.
- `PartitionRuleHolds`: `Spec => []PartitionMatchesRule` for the model of MCPartition. Its inputs never change, and `PartitionRule` covers each of them.

The argument is about `.filter`, that is, `Filtered(vals, kept)` for a finite set `kept` of naturals (`FilteredSorted`):
- `RankBounds`: a kept index has a rank in `1..Cardinality(kept)`.
- `RankIncreasing`: a larger kept index has a larger rank, because it counts one more index.
- `RankBijective`: rank is therefore an injection from `kept` into `1..Cardinality(kept)`, two finite sets of the same size, so it is a bijection (`FS_Injection`). Position k of `Filtered` holds the pair of the kept index of rank k, and the positions list the kept indices in increasing order.
- `getBlinded` keeps the blinded list's order, which is ascending.

No induction is needed. `AscendingLists` states the order for every pair of positions, not just neighbouring ones. This describes the same lists, and TLC enumerates the same 127 inputs.


### IssuanceProofs

Both theorems hold for every set `Launches` of launches `<<zkpLib, sigType>>`. There is no assumption on the constants: any `sigType` other than `"NonBlinded"` takes the Blinded path, as in `createSignerDataAndSignatures`.

- `IssuanceTypeCorrect`: `Spec => []TypeOK`.
- `IssuanceRefinement`: `Spec => IssuanceRefines`, that is, `Spec => Abs!Spec`. This is round-trip signing, in both modes and for every failure point.

Both rest on the inductive invariant `IInv`, which TLC checks on the issuance instance before it is proved. `TypeOK` is not inductive: it does not say which signature `sig` holds, and the refinement needs exactly that. `IInv` describes each launch completely through `Done(l, op, c)`, which holds when the call `<<op, c>>` lies before `pc[l]`, or when the launch has resolved:
- `sd`, `bsi`, `bsig` and `sig` hold, for each call that has returned, the answer a correct engine gives (`SD`, `BSI`, `BSIG`, `SIG`), and `Undefined` otherwise. This is stated once as `ExpOf(ops, resp)`.
- A resolved launch has made all its calls and holds `CorrectSards` and `CorrectShared`; any other launch still holds the initial values.
- Only a rejected launch holds an error, and that error belongs to the operation at its `pc`.

The argument:
- `CallsShape` gives each call list its length (4 or 8) and shows that `Pos` is its inverse.
- `ReturnedStep` shows that when the awaited call returns, exactly that call becomes `Done`. `ExpUnchanged` and `ExpUpdated` turn this into the new values of the variables.
- `EarlierAnswers` shows that the signer data, blind signing info and blind signature a call passes back to the engine are the expected ones.
- The round-trip lemmas show that chaining the engine's answers gives `SIG(l, c)`:
  - `SignRoundTrip`: the `vals.map` pairs are all the pairs of the values.
  - `UnblindRoundTrip`: the non-blinded pairs plus the committed blinded pairs are all the pairs (`PartitionCovers`, `FilteredSingleton`). This uses both fixtures' shape: the blinded indices are every index but 0 (`FixtureShape`).
- For the refinement, a call that is not a launch's last maps to a stutter. The last call maps to `Resolve`, with the signers the engine created as witness: they are distinct because their rng seeds are 0 and 1, and `ChooseSigner` shows each is filed under its own credential's label. `CallFailed` maps to `Reject`, with the awaited operation.

Only model-checked, and why:
- `IssuanceSettles` is a liveness property, out of TLAPS's reach.
- The violation run `location`, which shows a counterexample.

Every safety property of a passing run has a theorem: `HonestNeverFails` in ProofSessionProofs, and `PartitionMatchesRule` in PartitionProofs. `PartitionCovers` is the fixture instance that issuance uses, and it is proved here directly.

## Not modelled (yet)

- **The launchers.** A launcher (testRevealedAC2C_BBS and its siblings, AppTest.ts:27-30) starts X.create for both signature types in one process without a `.catch`, so either rejection ends the process. The two launches share no state, so composing them shows nothing beyond what `IssuanceSettles` shows for each launch. The scenario each resolved launch runs is checked one session at a time in ProofSession, where issuance is the one step `create` (Issuance details that step).
- **The global undici dispatcher** (api.ts:145). Every `defineCryptoInterfaceWith` replaces it, but all dispatchers have the same timeouts, so no behaviour depends on which one is installed.
- **Dead code.** The `try/catch` around `testVerifiableEncryptionAux` (AppTest.ts:177-188) catches nothing, because the function returns before any promise settles. Its effect is covered: a rejection there is `CallFailed`.
- **Out of scope.** HTTP encoding and the generated OpenAPI client; `describeValue` and `mapToObject` (formatting); `index.ts`; CLI option parsing (the `-v` flag is declared three times in cli.ts:14-16).
