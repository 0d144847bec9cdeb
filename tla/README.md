# A TLA+ verification of private-payment-auth

The repository proves, without revealing credentials, that a payment satisfies an
authorization policy. A policy is compiled into an arithmetic circuit, the circuit is
evaluated "in the head" by three virtual parties, their views are committed, a challenge
derived from a hash chooses the two views to open, and a verifier replays them. This
directory models that stack in TLA+, model-checks it with TLC and proves the central
facts about it with TLAPS.

## The system

A Rust workspace of sequential libraries: no threads, no network, no persistent state.
What is hard is therefore neither concurrency nor crashes. It is two sides (prover and
verifier, compiler and input filler, policy evaluator and circuit) that must walk the same
structure in step; long call sequences with state carried across them; one of several
steps failing; limits; and what may have happened to a proof on its way.

| Component (crate) | State | Operations | Interacts with | Correct when |
|---|---|---|---|---|
| `crypto-core` | none | hash, commit, expand, random | everything above | idealised here |
| `secret-sharing` | none | split, reconstruct, encode and decode a share | nothing above uses it | enough shares give the secret back, fewer say nothing |
| `mpc` | shared values, triple identifiers | input, add, mul, reveal | triple provider | what is revealed is what was computed; no triple twice |
| `circuit` | node vector, counters, outputs | builder calls, validate, evaluate, encode | mpc, mpcith, policy | topological order; the evaluators agree; a decoded circuit is a valid one |
| `mpcith` | three party states, partial repetitions; the verifier's cursors | prove, verify, encode | circuit; challenge source | shares reconstruct; honest proofs accepted; damage caught |
| `proof` | joint transcript | prove, derive challenges, verify, encode | mpcith, the hash | nothing opened before all is committed; both sides derive the same challenges |
| `policy` | policy tree, compiler state, input vectors | validate, normalize, encode, identify, evaluate, compile, solve | circuit | every form of a policy decides alike |
| `payment` | payment record, statement, witness | check the relation, bind the payment to the circuit, authorize, verify | policy, proof | relation, bound circuit and verifier's expectation agree |
| `sdk` | configuration, artifact | authorize (two entry points), verify (two), serialize, identify | payment | an artifact verifies for its payment and policy, and for nothing else |
| `verifier` | none | none (a stub) | | |

PROJECT.json lists each component with its status, and every hazard at its line with the
properties that watch it.

## Modules

| Module | Models | Notes |
|---|---|---|
| `Field` | the field, as any commutative ring with 1 # 0; sharings among three parties | constants with assumptions |
| `Circuit` | nodes, `validate`, identity, dependence on secrets | positions count from 1 |
| `CircuitBuilder` | `builder.rs`: one action per call, with any id | a full builder panics |
| `DependencyWalk` | `node_depends_on_secrets` of `mpcith`: the walk with a stack and a cache by which the verifier classifies an output, one action per branch of its loop | on every circuit `CircuitBuilder` can build |
| `MpcSharing`, `MpcSimulator` | `arithmetic.rs`, `sharing.rs`, `triples.rs`, `simulator.rs` | several simulators, values of one given to another |
| `MpcEvaluation` | `eval_mpc.rs`, `transcript.rs`, on top of `MpcSimulator` | one action per node kind; the simulator may have been used before; triples may run out |
| `MpcithTypes` | views, operations, commitments, repetitions | a commitment is what it commits to |
| `MpcithReplay` | when a view records an evaluation, and a repetition presents the views of one | what prover and verifier have to agree on; models no code |
| `MpcithProver` | `prover.rs`: sharing, one action per gate case, commit, challenge, open | random draws and challenges are choices |
| `MpcithVerifier` | `verifier.rs`: checks, replay node by node, outputs | |
| `Mpcith` | prover and verifier composed; one fault before, or one damage after, the commitments | |
| `NonInteractive` | the `proof` crate: joint commitments, Fiat-Shamir, verification | the hash answers each new input with any challenge, the same input with the same one |
| `CommitOpen` | abstract: commit to all, then be asked, then open | implemented by `NonInteractive` |
| `Policy` | the policy operations, as recursive operators | a secret is named by its commitment |
| `PolicyStore` | a policy that is normalized, encoded and decoded over its life | |
| `PolicyCompiler` | `compiler.rs`, `range_check.rs`: gate by gate emission and slot layout | |
| `PolicyInputs` | how a witness fills the slots, what a circuit evaluates to | used by the next two |
| `CompiledPolicy` | filling the slots, solving the auxiliary inputs in rounds, evaluating | |
| `Payment` | the `payment` crate: identity, witness checks, relation, wiring, `authorize`, `verify` | a proof is what `NonInteractive` shows of one |
| `SdkPipeline` | what the calls of the SDK return, check by check | |
| `Sdk` | an artifact that is made, sent, perhaps changed, received and verified | |
| `IdealAuthorization` | abstract: "Valid" is answered only for a payment that was granted under the policy | implemented by `Sdk` |
| `Wire` | the cursor every decoder reads with | a field of fixed width is one number |
| `Encodings` | encoders and decoders of circuit, mpcith, proof, payment and sdk | |
| `SecretSharing` | the `secret-sharing` crate | digits of a small base for bytes |
| `Delivery` | artifacts and shares that are sent, damaged, lost, repeated and reordered | the channel is the environment |
| `CircuitTheorems`, `MpcithReplayTheorems` | lemmas about the operators | sharings, Beaver multiplication, leaves, operands and dependence on secrets; positions in a view |
| `MpcithVerifierProofs` | lemmas about the verifier, whoever made the proof it is given | used for `Mpcith` and for `NonInteractive` |
| `CircuitBuilderProofs`, `MpcProofs`, `MpcithHonestProofs`, `MpcithProofs`, `NonInteractiveProofs` | the proofs of the theorems below | |
| `MCField`, `MCMpcithJobs`, `MC*` | the instances TLC checks | |

`MpcithProver` keeps, beside the code's state, the plain value of every node
(`reference`), computed as `evaluate_reference` does; the simulator model keeps the plain
value beside each shared one in the same way. The "slips to guard against" in the modules
are not used by any specification; each is a plausible bug that some property must notice.

Idealisations. Hash functions are injective; in `NonInteractive` the challenge hash is a
random oracle, and a digest becomes a field element by reduction modulo p, which is not
injective and is modelled. A commitment hides nothing from the model and binds perfectly.
The field is a parameter: proofs hold for every commutative ring with 1 # 0, runs use the integers
modulo 2, 3, 5, 11 or 101. `Payment` takes a proof to be accepted for the statement it was
made for and no other when none of it was changed, which is what `HonestOutcome` and
`AlterationNeedsFreshChallenges` say of `NonInteractive`. Zeroization, formatting,
statistics and allocation are left out.

## Runs

| Run | Question | Instance and why it is enough |
|---|---|---|
| `circuit_builder` | can any sequence of calls break the order or `build`; does the verifier's walk over a built circuit end, with the right answer for each output? | 4 nodes, 2 outputs, ids up to one past the limit: every kind of call meets every kind of bad id, and the panic is reached; gates over gates, with shared and repeated operands, under the walk; liveness |
| `mpcith_prover` | do shares, operations and broadcasts stay in step? | 4 circuits that reach every gate case and operand order, one and two repetitions, refused jobs, a source that runs dry |
| `mpcith` | is an honest proof accepted exactly when its secret outputs are right, and is a fault or damage outside the hidden view caught? | right and wrong expectations, one and two repetitions, one of 6 kinds of fault or 11 kinds of damage per execution, every challenge |
| `mpcith_outputs` (violation) | is an accepted output always the expected one? | finding below |
| `non_interactive` | order, agreement and freshness of challenges; is it a `CommitOpen`? | up to 3 repetitions, every answer of the hash, 15 alterations; refinement |
| `mpc` | does any sequence of calls, a circuit evaluation among them, reveal a wrong value, reuse a triple or record a wrong transcript? | 2 simulators called directly and a third for evaluations only, 2 and 3 parties, 4 values, 4 circuits, the last triple identifier reached in direct calls and within a circuit, a provider for another number of parties |
| `mpc_contexts` (violation) | are values of two executions kept apart? | finding below |
| `policy_store` | do decision, identity, encoding and validity survive rewriting, and when does normalization have a valid policy refused? | some 13,000 trees, limits lowered to 2-6; each is reached exactly, and exceeded by a tree that breaks no other, the credential limit included |
| `compiled_policy` | does the circuit decide as the policy, does the solver settle, are the auxiliaries harmless? | modulo 11 with 2-bit amounts (the code: 64 bits; what is needed is 2 * 2^bits < p, an assumption TLC checks), thresholds nested three deep |
| `authorization` | does the SDK keep its promise, for every entry point, configuration and witness, and for artifacts changed on the way? | 11 policies (two spellings of one, caps on and off a satisfied branch, two caps, policies refused at each stage), 7 payments that differ in one field each, two of them congruent modulo p, 5 configurations, 12 fields to change; refinement |
| `relation_limits` (violation) | does the relation accept what the compiled circuit authorizes? | finding below |
| `delivery` | do decoders stop early, run on or accept a second form; does a secret come back from enough shares and from nothing less? | 10 artifacts of 7 kinds with up to two places damaged, small enough that every position is; 24 sharings at and around every limit, up to 4 deliveries of 4 shares with repetition, one share damaged |

Deadlock checking is off where a run models one call that ends, or a bounded number of
calls.

Fairness. Only `WalkReturns` (run `circuit_builder`) needs it: weak fairness of the
verifier's walk over the operands (`Call \/ WalkStep`). The walk is a `while` loop inside a
synchronous call that waits for nobody; that it ends is not evident, because it revisits
nodes and pushes more than it pops. Nothing is assumed of the builder's caller. The other
loops of the code run over vectors of fixed length, and nothing is claimed of their ending.

Refinement. `PromiseKept` maps a granted payment of `IdealAuthorization` to an artifact
that was issued, and policies to their normal forms: `authorize` must not issue an artifact
to a witness that does not meet the policy, and whatever happens to the artifact between the
two calls, `verify` must not say "Valid" of another payment or policy.
`ImplementsCommitOpen` maps the joint prover of `NonInteractive` to `CommitOpen`, with the
number of repetitions as the number of commitments.

About soundness. The damage properties speak of true statements: the verifier cannot see
whether a multiplication triple is consistent, and the protocol's guarantee against a
prover of a false statement is probabilistic in the number of repetitions, which is out of
scope. `AuxiliariesAuthorizeNothing` lets the auxiliary inputs vary and keeps the digits
of an amount honest.

## Theorems

All are proved for every commutative ring with 1 # 0, circuit, statement, witness, random
draw, challenge and number of repetitions, parties or calls.

**Builder** (`CircuitBuilderProofs`).
* `BuilderOrder`, `BuilderBuilds`: `TopologicalOrder` and `BuildFailsOnlyWithoutOutput`.
  The inductive invariant `BuilderInv` adds the type invariant and `CountersMatchLeaves`:
  `build` validates the counters against the leaves, so the order alone says nothing about
  why it fails. `TopologicalOrder` includes that ids never pass the limit.
* `WalkCorrect`: `WalkAgrees`, of every circuit that is built and at every point of the walk:
  it meets no operand that was not resolved, and neither its cache nor an answer is wrong.
  `WalkInv` adds to `BuilderInv` that the operands of a node whose operands were pushed are
  resolved or further up the stack (`OperandsAbove`, so that they are resolved when the node
  is back on top), and that the node asked for is resolved or on the stack (`AskedOnStack`,
  so that `unwrap_or(false)` never answers for a node that was not visited).

**Secure computation** (`MpcProofs`, over `CircuitTheorems`).
* `RevealsPlain`, `TriplesFresh`: `RevealsPlainValue` and `TriplesUsedOnce` for any number
  of simulators, parties and calls. `SimulatorInv` adds that the
  shares of every value sum to its plain value (`HeapSound`) and that a provider has issued
  no identifier before its turn (`IdsInOrder`).
* `EvaluationCorrect`, `EvaluationRevealsReference`, `TranscriptDeterministic`:
  `evaluate_mpc` computes what `evaluate_reference` computes, whatever the simulator was
  used for before, and its transcript depends on the circuit only. `EvaluationInv` adds that
  the stages follow one another, that the input cursors count the leaves passed
  (`CursorsCountLeaves`), and that each evaluated node holds the reference value
  (`ValuesAreReference`).

**MPC-in-the-head, proofs as the prover makes them** (`MpcithHonestProofs`, over
`MpcithVerifierProofs`).
* `ProverTypes`, `ProverSharesReconstruct`, `ProverOperations`: the prover stays within its
  vectors, shares reconstruct to `evaluate_reference`, and recorded operations carry the
  shares and the masks that were broadcast. `ProverInv` adds that the job was validated,
  that the input sharings reconstruct to the witness, that the cursors count the input nodes
  passed (so that the n-th secret input gets the n-th sharing), and that broadcasts and
  shared multiplications are in step.
* `ProverSecrecy`: a node is shared exactly when `node_depends_on_secrets`, by which the
  verifier decides, says so.
* `ProverHonest`: each repetition handed out consists of three views of one evaluation, in
  the sense of `MpcithReplay!RepetitionFrom`. `HonestInv` adds to `ProverInv` that the trace
  of each party recorded so far replays (`TraceInv`), that the commitments are to the
  current views (`ViewsCommitted`), and that every finished repetition is honest. The
  positions at which a replay looks for the record of a node are stated as cardinalities
  (how many earlier nodes record an operation, or multiply shares); `MpcithReplayTheorems`
  proves that recording one more node disturbs none of the earlier ones.
* `MpcithHonestVerdict`: `HonestVerdict`, the completeness of the protocol. The verifier's
  code is not the prover's, so the proof is a lock-step argument: the replay of an honest
  view has at each node the value, the cursors and the masks of the evaluation the view
  presents (`Follows`), and therefore meets no error; the two replays and the hidden
  party's output shares then add up to the reference (`Sum3Others`). `UndamagedInv` joins
  this with `HonestInv` of the prover.

**MPC-in-the-head, all other proofs** (`MpcithProofs`).
* `MpcithTransitDamageCaught`: `TransitDamageCaught`. A damaged proof is `Doomed`: one of its
  repetitions is `Spoiled`, which means that it fails the checks before the replay, or states
  other masks or output shares for the hidden party than the evaluation of its views has
  (`Misstates`). There is one lemma per kind of damage (`TransitDooms` collects them).
  `Unaccepted` carries the doom through the verification until it is refused
  (`UnacceptedStep`): nothing is left of earlier replays when the spoiled repetition is
  reached (`Quiet`), and its replay is in lock-step with the evaluation until the first mask
  that differs makes a recorded operation differ, or an output does not add up.
* `MpcithAcceptedProofShows`: what `Ok(Valid)` means, of a faulty or damaged proof as of an
  honest one. The statement was validated, there is a repetition, and of each repetition two committed views
  were opened that each record, with nothing left over, an evaluation of the whole circuit
  under the same masks, whose output shares and those stated for the hidden party add up to
  the expected outputs (`Convinces`). `ShownSoFar` says what the verifier has been shown at
  each point of its loops; that every step keeps it (`VerifierInvStep`) assumes of the proof
  only that it is one.
* `MpcithRecordFaultsCaught`: a view in which one operation, triple component or broadcast is
  wrong, or one operation is missing or too many, is accepted only if it is the hidden one.
  `FaultRecorded` follows the faulty view to where it is opened; by `MpcithAcceptedProofShows`
  an accepted one replays; and two views of one party with the same inputs cannot both
  replay when one misrecords what the other records (`MisrecordShows`).
* `MpcithTypeOK`: `TypeOK`, for faulty and damaged proofs too. `AnyInv` joins the invariants
  above with `Typed` (a fault leaves views, a damage a proof) and `VerifierTypes`.

**The non-interactive proof** (`NonInteractiveProofs`).
* `JointOrder`: nothing is opened before every repetition is committed, and each challenge is
  the hash of the full transcript. `JointInv` relates the phase of the prover to the number
  of commitments, challenges and openings, and each opened repetition to what was committed.
* `JointImplements`: the joint prover implements `CommitOpen`, step by step, from `JointInv`.
* `JointHonestOutcome`: `HonestOutcome`, the completeness of the non-interactive proof. The
  joint prover asks for its challenges late, but is otherwise a prover of `Mpcith`:
  `NonInteractiveProofs` instantiates `MpcithHonestProofs` with the repetitions committed so far,
  each opened for its challenge or, until it has one, for party 0 (`ShownProof`). Steps of a
  repetition and of the inner verifier are steps of the instance (`InnerSimulate`,
  `SameVerifier`); `commit_phase` finishes a repetition; a challenge derived later opens it
  for another party, which is harmless because what was committed is honest for all three
  (`PartialsHonest`, `RechallengedStep`). `HonestRun` adds what was handed out (`Handed`) and
  how far the verifier is (`Checking`): the questions it asks of the hash are the prover's, so
  that the challenges agree and the proof it replays is the `ShownProof`.
* `JointAlterationNeedsFresh`: `AlterationNeedsFreshChallenges`, the transcript binding of the
  non-interactive proof. The property itself is far from inductive; `AlteredInv` says that a
  proof that changed on its way goes one of four ways through the verification, and each of
  them is preserved by every step of it:
  - `Rederived`: backend, statement or commitments are not those of the prover's transcript,
    so that no question the verifier still has to ask was asked before, and `fresh` counts
    the challenges derived so far;
  - `Misfit`: `StructureError` refuses the proof;
  - `Rechallenged`: the hash has already answered one of the questions with another challenge
    than the proof carries, so that the comparison fails;
  - `Refuted`: the transcript is the prover's, and the repetitions as the inner verifier gets
    them are `Doomed`, as above, if the statement is true.

  Which way a proof goes is decided where it changes (`AlterEnters`, a lemma per group of
  alterations). That needs `OracleAsked` (until the verifier is called the hash has answered
  the prover's questions only), `InputInjective` (nothing absorbed for a challenge gets lost),
  and that each repetition of the proof presents an evaluation of the circuit, which is
  `HonestRun` carried over from the instance (`SameRepetitions`, `DepartingSent`).

Assumptions: those on the constants, which TLC evaluates on every instance. The field is a
commutative ring with 1 # 0 (`FieldClosed`, `PlusGroup`, `TimesMonoid`, `Distributive`,
`OneNotZero`); jobs, limits and seeds are of their types (`JobsAssumption`,
`BuilderConstants`, `CoinsAssumption`, `SimulatorAssumption`); the circuits given to
`evaluate_mpc` validate (`RunsAssumption`), which `Circuit::new` asks of its callers.

Sums over n parties and values of recursive functions need induction over data. It is done
here by taking a least counterexample among the naturals, which needs no induction
principle with an operator as its parameter.

Only model-checked:
* liveness (`WalkReturns`), which is out of the prover's reach;
* everything about the policy modules, `Payment`, `SdkPipeline`, `Sdk` (`PromiseKept`
  included), `Wire`, `Encodings`, `SecretSharing` and with them `Delivery`, whose operators
  are recursive;
* `FaultyViewCaughtWhenOpened`, which is not a theorem for every circuit: a share of an input
  that no gate uses, or that is only multiplied by a public zero, can be changed before the
  view is committed and nothing that is replayed depends on it. It holds of the circuits of
  the run, which have no such input. For the other kinds of fault it is the theorem
  `MpcithRecordFaultsCaught`.

The fault, damage and alteration theorems are about a proof that was made as the code makes
it and then changed in one respect. Of a proof that was made up as a whole there is only
`MpcithAcceptedProofShows`: what the verifier was shown, not that a witness exists.

## Findings

Each is a line of the documentation that the code does not follow, shown by a run.

* `mpcith_outputs`: outputs that do not depend on secrets are not compared with the
  statement's expected outputs.
* `mpc_contexts`: inputs shared in different executions are added without an error.
* `relation_limits`: the relation checks one set of digits against every amount cap of the
  policy, so it refuses payments that the compiled circuit it specifies authorizes.

Remarks that are part of the models and need no run of their own:

* Policies. `policy_id` identifies policies up to normalization: equal ids imply equal
  decisions, but `A` and the 1-of-1 threshold over `A` have different ids. The credential
  limit of `validation.rs` counts credential leaves, repeated ones included, where
  `validation.rs:17` and `docs/architecture/policy-model.md:45` speak of distinct ones; the
  same page (line 49) has duplicate ids rejected within a policy, where the code compares the
  direct members of one threshold only. `decode` accepts shapes that `validate` refuses, such
  as a threshold of zero, although `encoding.rs:90-94` and `ast.rs:190-193` list errors for
  them; `EncodingExact` leaves open whether they decode. A valid policy
  is refused by compilation when normalization brings twin credentials together in a
  threshold, or splices children past the limit, and `RewritingRefusals` says in no other
  case. The compiled circuit takes an absent amount as zero (`CircuitDecides`).
* Payments. A zero amount makes the bound root zero for every witness: the circuit no longer
  tells, and only the relation refuses (`BoundCircuitDecides` excludes the case,
  `MetRequestsAuthorized` and `PromiseKept` include it). Recipients congruent modulo p are
  one public input; the payment's hash tells them apart. The credential secrets of a witness
  must come in the order of the normal form.
* SDK. The nonce is a hash of three ids, the same for every attempt. The configured number
  of repetitions is not used. A policy that is not satisfied is reported as
  `AuthorizationGenerationFailed`.
* Encodings. `decode_view` reads a view from the front of what it is given and returns how
  much it took, so a lone view may be followed by anything, and `SelfDelimiting` and
  `Canonical` are about what it took. `decode_proof` of `mpcith` does not look at what is
  left of a view's block; that of `proof` does. `decode_share` accepts a threshold of one or above the share
  count. Shares of two splits with the same parameters are combined without an error.

## Plan

Done: every crate with logic of its own, with encodings, the end-to-end composition, two
refinements, and the theorems about builder, secure computation, prover and verifier of
MPC-in-the-head (every invariant of run `mpcith` but the one named above), the verifier's walk, and order,
completeness and transcript binding of the non-interactive proof. Left: what of the policy
modules, the encodings and secret sharing can be stated without recursion, and proved.

## Not modelled

* The primitives of `crypto-core`: what SHA-256 and SHAKE256 compute is out of TLC's
  reach, and the modules above need of them only what is listed under idealisations.
* `proof_id`, a hash of an encoding that is modelled; compilation statistics; error texts.
* The stub `verifier`, benches, fuzz targets, test vectors and examples.
* `MalformedCommitment` of `mpcith` (`commitment.rs:51-52, 72-73`): randomness of a wrong
  length. The prover draws all of it itself, and the decoders read a fixed width.
* The size of a policy's encoding (`MAX_ENCODED_SIZE`) and how deep the policy decoder
  recurses: what is decoded in `PolicyStore` is an encoding, whole, cut short or lengthened by
  one symbol, of a tree of bounded depth.
