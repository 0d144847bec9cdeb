--------------------------- MODULE NonInteractive ---------------------------
(***************************************************************************)
(* The non-interactive proof (crates/proof): the prover commits every      *)
(* repetition first, derives all challenges from the statement and the     *)
(* whole transcript of commitments, and only then opens views; the         *)
(* verifier derives the challenges again and hands the repetitions to the  *)
(* MPC-in-the-head verifier.                                               *)
(*                                                                         *)
(* The hash (backend expand) is a random oracle: an answer is chosen when  *)
(* an input is first asked for and stays the same from then on.            *)
(*                                                                         *)
(* Between prover and verifier the proof may change once, see Alter.       *)
(***************************************************************************)
EXTENDS MpcithVerifier

CONSTANT AlterationKinds   \* the ways a proof may change between prover and verifier

ASSUME AlterationAssumption == "none" \notin AlterationKinds

VARIABLES
  phase, error, supply, input_shares, local_operations, triple_shares, opened_values,
  values, next_secret, next_public, reference, commitments,   \* see MpcithProver
  partials,        \* the repetitions committed and not yet opened (PartialRepetition)
  challenges,      \* what the prover derived so far
  oracle,          \* the answers of the hash so far
  sent,            \* the NonInteractiveProof
  backend,         \* the backend the verifier is pinned to
  derived,         \* what the verifier derived so far
  outcome,         \* "none", then what Verifier::verify returned
  step,            \* where Verifier::verify is
  alteration,      \* history: how the proof was changed, or "none"
  fresh            \* history: verifier's questions the prover had not asked

\* The prover's side of one repetition, numbered by the repetitions committed so far.
Rep == INSTANCE MpcithProver WITH proof <- partials

repetitionVars == <<input_shares, local_operations, triple_shares, opened_values, values,
                    next_secret, next_public, reference, commitments>>
innerVars == <<phase, error, supply, repetitionVars, partials>>
jointVars == <<challenges, sent>>
checkVars == <<backend, derived, outcome, step>>
historyVars == <<alteration, fresh>>
vars == <<job, proof, innerVars, jointVars, oracle, checkVars, historyVars, verifierVars>>

Backends == {"sha256", "shake256"}
ProverBackend == "sha256"
PROTOCOL_VERSION == 2

\* Statement::validate of the proof crate.
proof_statement_validate(statement, c) ==
  IF validate(c) # "Ok" THEN "InvalidCircuit"
  ELSE IF statement.circuit_id # compute_id(c) THEN "CircuitIdMismatch"
  ELSE IF \/ Len(statement.public_inputs) # c.num_public_inputs
          \/ Len(statement.expected_outputs) # Len(c.outputs)
  THEN "InvalidStatement"
  ELSE "Ok"

Init ==
  /\ Rep!ProverInit
  /\ proof = << >>
  /\ challenges = << >>
  /\ oracle = << >>
  /\ sent = [version |-> PROTOCOL_VERSION, backend_id |-> ProverBackend,
             statement |-> job.statement, repetitions |-> << >>]
  /\ backend \in Backends
  /\ derived = << >>
  /\ outcome = "none"
  /\ step = "new"
  /\ alteration = "none"
  /\ fresh = 0
  /\ VerifierInit
-----------------------------------------------------------------------------
(* Challenges.                                                             *)

\* A slip to guard against: a challenge depends on its own repetition only.
fs_input_separate(b, statement, sessions, selector) ==
  <<b, statement, selector - 1, sessions[selector]>>

\* Everything that is absorbed for the challenge of one repetition: backend, version,
\* statement, and the index and commitments of every repetition, then the index asked for.
fs_input(b, statement, sessions, selector) ==
  <<b, PROTOCOL_VERSION, statement, Len(sessions),
    [i \in DOMAIN sessions |-> <<i - 1, sessions[i]>>], selector - 1>>

\* The answer to a question becomes fixed with the first time it is asked.
Ask(input, answer) ==
  /\ input \in DOMAIN oracle => answer = oracle[input]
  /\ oracle' = [q \in DOMAIN oracle \cup {input} |->
                  IF q \in DOMAIN oracle THEN oracle[q] ELSE answer]

Sessions(repetitions) == [i \in DOMAIN repetitions |-> repetitions[i].commitments]
-----------------------------------------------------------------------------
(* Prover::new and Prover::prove.                                          *)

proverUnchanged == UNCHANGED <<proof, oracle, jointVars, checkVars, historyVars, verifierVars>>

Refuse(e) ==
  /\ phase' = "failed"
  /\ error' = e
  /\ UNCHANGED <<job, supply, repetitionVars, partials, step>>

WitnessFits == Len(job.witness) = job.circuit.num_secret_inputs

prover_new ==
  /\ phase = "new" /\ step = "new"
  /\ LET e == proof_statement_validate(job.statement, job.circuit)
     IN  IF e # "Ok" THEN Refuse(e)
         ELSE IF ~WitnessFits THEN Refuse("InvalidWitness")
         ELSE step' = "ready" /\ UNCHANGED <<job, innerVars>>
  /\ UNCHANGED <<proof, oracle, jointVars, backend, derived, outcome, historyVars, verifierVars>>

prover_prove ==
  /\ phase = "new" /\ step = "ready"
  /\ IF job.repetition_count = 0 THEN Refuse("InvalidStatement")
     ELSE step' = "proving" /\ UNCHANGED <<job, innerVars>>
  /\ UNCHANGED <<proof, oracle, jointVars, backend, derived, outcome, historyVars, verifierVars>>

\* MpcithProver::new_backend and prove_joint_fs check once more.
InnerNew ==
  /\ step = "proving"
  /\ Rep!new_backend \/ Rep!prove
  /\ proverUnchanged

\* commit_repetition, up to its commitments.
Simulate ==
  /\ Rep!ShareInput \/ Rep!InputsShared \/ Rep!EvaluateNode \/ Rep!CommitViews
  /\ proverUnchanged

Partial ==
  [id |-> Rep!id,
   commitments |-> <<commitments[0], commitments[1], commitments[2]>>,
   views |-> [p \in Party |-> Rep!build_view(p)],
   randomness |-> [p \in Party |-> fresh_randomness(Rep!id, p)],
   output_vals |-> [k \in DOMAIN job.circuit.outputs |-> values[job.circuit.outputs[k]]],
   broadcasts |-> opened_values]

\* A slip to guard against: the last repetition is left out of the commitment phase.
CommitsLeft_short == Len(partials) + 2 < job.repetition_count

\* More repetitions follow the one that has just been committed.
CommitsLeft == Len(partials) + 1 < job.repetition_count

\* commit_phase keeps the repetition and starts the next one from fresh party state.
commit_phase ==
  /\ phase = "committed"
  /\ partials' = Append(partials, Partial)
  /\ IF CommitsLeft
     THEN /\ phase' = "sharing"
          /\ input_shares' = Rep!Empty
          /\ local_operations' = Rep!Empty
          /\ triple_shares' = Rep!Empty
          /\ opened_values' = Rep!Empty
          /\ values' = << >>
          /\ next_secret' = 0
          /\ next_public' = 0
          /\ reference' = << >>
          /\ commitments' = << >>
     ELSE /\ phase' = "deriving"
          /\ UNCHANGED repetitionVars
  /\ UNCHANGED <<job, error, supply>>
  /\ proverUnchanged

\* A slip to guard against: every challenge is asked for the first repetition.
ProverInput_first(i) == fs_input(ProverBackend, job.statement, Sessions(partials), 1)

ProverInput(i) == fs_input(ProverBackend, job.statement, Sessions(partials), i)

derive_all ==
  /\ phase = "deriving"
  /\ Len(challenges) < Len(partials)
  /\ \E h \in Party :
       /\ Ask(ProverInput(Len(challenges) + 1), h)
       /\ challenges' = Append(challenges, h)
  /\ UNCHANGED <<job, proof, innerVars, sent, checkVars, historyVars, verifierVars>>

\* One challenge per repetition, or nothing is opened.
ChallengesDerived ==
  /\ phase = "deriving"
  /\ Len(challenges) = Len(partials)
  /\ phase' = "opening"
  /\ UNCHANGED <<job, error, supply, repetitionVars, partials>>
  /\ proverUnchanged

\* finish_repetition and the conversion to a ProofRepetition, views in party order.
Finish(partial, hidden) ==
  [commitments |-> partial.commitments,
   challenge |-> hidden,
   opened_views |-> [i \in 1 .. 2 |-> partial.views[others(hidden)[i]]],
   opening_randomness |-> [i \in 1 .. 2 |-> partial.randomness[others(hidden)[i]]],
   hidden_broadcasts |-> partial.broadcasts[hidden],
   hidden_output_shares |->
     [k \in DOMAIN partial.output_vals |->
        IF partial.output_vals[k].shared THEN partial.output_vals[k].share[hidden] ELSE Zero]]

Opened == Len(sent.repetitions)

finish_repetition ==
  /\ phase = "opening"
  /\ Opened < Len(partials)
  /\ sent' = [sent EXCEPT !.repetitions =
                Append(@, Finish(partials[Opened + 1], challenges[Opened + 1]))]
  /\ phase' = IF Opened + 1 = Len(partials) THEN "done" ELSE phase
  /\ UNCHANGED <<job, proof, error, supply, repetitionVars, partials, challenges, oracle,
                 checkVars, historyVars, verifierVars>>
-----------------------------------------------------------------------------
(* Between prover and verifier.                                            *)

Bumped(s) == {[s EXCEPT ![k] = Plus(s[k], One)] : k \in DOMAIN s}

\* A proof with repetition i changed to one of rs.
WithRepetition(i, rs) == {[sent EXCEPT !.repetitions[i] = r] : r \in rs}

\* The proofs that differ from the one sent in one respect.
AlteredProofs(kind) ==
  LET reps == sent.repetitions
      In(Change(_)) == UNION {WithRepetition(i, Change(reps[i])) : i \in DOMAIN reps}
      Challenge(r) == {[r EXCEPT !.challenge = h] : h \in Party \ {r.challenge}}
      Commitment(r) == {[r EXCEPT !.commitments[c].randomness.repetition = @ + 1] : c \in 1 .. 3}
      MissingCommitment(r) == {[r EXCEPT !.commitments = Tail(@)]}
      Views(r) == UNION {{[r EXCEPT !.opened_views[v].input_shares = s] :
                            s \in Bumped(r.opened_views[v].input_shares)} : v \in 1 .. 2}
      Opening(r) == {[r EXCEPT !.opening_randomness = <<@[2], @[1]>>]}
      OutputShare(r) == {[r EXCEPT !.hidden_output_shares = s] :
                          s \in Bumped(r.hidden_output_shares)}
      Broadcast(r) == {[r EXCEPT !.hidden_broadcasts = s] :
                        s \in Bumped(r.hidden_broadcasts)}
  IN  CASE kind = "backend" -> {[sent EXCEPT !.backend_id = "shake256"]}
        [] kind = "version" -> {[sent EXCEPT !.version = @ + 1]}
        [] kind = "statement" ->
             {[sent EXCEPT !.statement.expected_outputs = s] :
                s \in Bumped(sent.statement.expected_outputs)}
        [] kind = "challenge" -> In(Challenge)
        [] kind = "commitment" -> In(Commitment)
        [] kind = "missing_commitment" -> In(MissingCommitment)
        [] kind = "view" -> In(Views)
        [] kind = "opening" -> In(Opening)
        [] kind = "output_share" -> In(OutputShare)
        [] kind = "broadcast" -> In(Broadcast)
        [] kind = "empty" -> {[sent EXCEPT !.repetitions = << >>]}
        [] kind = "shorter" -> {[sent EXCEPT !.repetitions = Tail(@)],
                                [sent EXCEPT !.repetitions = SubSeq(@, 1, Len(@) - 1)]}
        [] kind = "longer" -> {[sent EXCEPT !.repetitions = Append(@, @[1])]}
        [] kind = "reordered" ->
             {[sent EXCEPT !.repetitions = Append(Tail(@), @[1])]} \ {sent}
        [] OTHER -> {}

InTransit == phase = "done" /\ step = "proving" /\ alteration = "none"

transitUnchanged == UNCHANGED <<proof, innerVars, challenges, oracle, checkVars, fresh,
                                verifierVars>>

Alter(kind) ==
  /\ InTransit
  /\ \E n \in AlteredProofs(kind) : sent' = n
  /\ alteration' = kind
  /\ UNCHANGED job
  /\ transitUnchanged

\* The proof is relabelled for, and presented with, another statement.
Restate ==
  /\ InTransit
  /\ "restated" \in AlterationKinds
  /\ \E s \in {[job.statement EXCEPT !.circuit_id = <<"circuit/v1", << >>, << >> >>]}
               \cup {[job.statement EXCEPT !.expected_outputs = o] :
                         o \in Bumped(job.statement.expected_outputs)}
               \cup {[job.statement EXCEPT !.public_inputs = p] :
                         p \in Bumped(job.statement.public_inputs)} :
       /\ job' = [job EXCEPT !.statement = s]
       /\ sent' = [sent EXCEPT !.statement = s]
  /\ alteration' = "restated"
  /\ transitUnchanged
-----------------------------------------------------------------------------
(* Verifier::verify.                                                       *)

checkUnchanged == UNCHANGED <<job, innerVars, jointVars, backend, alteration>>

Answer(v) ==
  /\ outcome' = v
  /\ step' = "answered"

StructureError ==
  IF sent.backend_id # backend THEN "UnsupportedBackend"
  ELSE IF sent.version # PROTOCOL_VERSION THEN "InvalidVersion"
  ELSE IF sent.repetitions = << >> THEN "VerificationFailed"
  ELSE IF proof_statement_validate(job.statement, job.circuit) # "Ok"
  THEN proof_statement_validate(job.statement, job.circuit)
  ELSE IF sent.statement # job.statement THEN "InvalidStatement"
  ELSE IF \E i \in DOMAIN sent.repetitions : Len(sent.repetitions[i].commitments) # 3
  THEN "InvalidStatement"
  ELSE "none"

verify_structure ==
  /\ phase = "done" /\ step = "proving"
  /\ IF StructureError # "none" THEN Answer(StructureError)
     ELSE step' = "deriving" /\ UNCHANGED outcome
  /\ UNCHANGED <<proof, oracle, derived, fresh, verifierVars>>
  /\ checkUnchanged

\* The challenges once more, from public data only.
derive_again ==
  /\ step = "deriving"
  /\ Len(derived) < Len(sent.repetitions)
  /\ LET input == fs_input(backend, job.statement, Sessions(sent.repetitions), Len(derived) + 1)
     IN  /\ \E h \in Party : Ask(input, h) /\ derived' = Append(derived, h)
         /\ fresh' = IF input \in DOMAIN oracle THEN fresh ELSE fresh + 1
  /\ UNCHANGED <<proof, outcome, step, verifierVars>>
  /\ checkUnchanged

\* A slip to guard against: repetitions are numbered from one.
to_inner_repetition_from_one(r, index) ==
  [id |-> index + 1, commitments |-> r.commitments, challenge |-> r.challenge,
   opened_views |-> [i \in DOMAIN r.opened_views |->
                       [view |-> r.opened_views[i], randomness |-> r.opening_randomness[i]]],
   hidden_output_shares |-> r.hidden_output_shares,
   hidden_broadcasts |-> r.hidden_broadcasts]

\* A proof repetition as the MPC-in-the-head verifier takes it; its number is its index.
to_inner_repetition(r, index) ==
  [id |-> index, commitments |-> r.commitments, challenge |-> r.challenge,
   opened_views |-> [i \in DOMAIN r.opened_views |->
                       [view |-> r.opened_views[i], randomness |-> r.opening_randomness[i]]],
   hidden_output_shares |-> r.hidden_output_shares,
   hidden_broadcasts |-> r.hidden_broadcasts]

ChallengesAgree == \A i \in DOMAIN derived : sent.repetitions[i].challenge = derived[i]

compare_challenges ==
  /\ step = "deriving"
  /\ Len(derived) = Len(sent.repetitions)
  /\ IF ~ChallengesAgree THEN Answer("ChallengeMismatch") /\ UNCHANGED proof
     ELSE /\ step' = "replaying"
          /\ proof' = [i \in DOMAIN sent.repetitions |->
                         to_inner_repetition(sent.repetitions[i], i - 1)]
          /\ UNCHANGED outcome
  /\ UNCHANGED <<oracle, derived, fresh, verifierVars>>
  /\ checkUnchanged

verify_inner ==
  /\ step = "replaying"
  /\ VerifierNext
  /\ UNCHANGED <<proof, oracle, derived, outcome, step, fresh>>
  /\ checkUnchanged

conclude ==
  /\ step = "replaying" /\ stage = "done"
  /\ Answer(CASE verdict = "Valid" -> "Valid"
              [] verdict = "Invalid" -> "OutputMismatch"
              [] OTHER -> "VerificationFailed")
  /\ UNCHANGED <<proof, oracle, derived, fresh, verifierVars>>
  /\ checkUnchanged
-----------------------------------------------------------------------------
Next ==
  \/ prover_new \/ prover_prove \/ InnerNew \/ Simulate \/ commit_phase
  \/ derive_all \/ ChallengesDerived \/ finish_repetition
  \/ (\E kind \in AlterationKinds : Alter(kind)) \/ Restate
  \/ verify_structure \/ derive_again \/ compare_challenges \/ verify_inner \/ conclude

Spec == Init /\ [][Next]_vars
-----------------------------------------------------------------------------
(* Fiat-Shamir order: when the first view is opened, every repetition has been  *)
(* committed, and every challenge is the hash of the statement and of all       *)
(* commitments the proof carries ("only afterwards are views opened", prover.rs *)
(* of the proof crate).                                                         *)
OpenedAfterAllCommitted ==
  alteration = "none" /\ sent.repetitions # << >> =>
    /\ Len(partials) = job.repetition_count
    /\ \A i \in DOMAIN sent.repetitions :
         LET asked == fs_input(ProverBackend, job.statement, Sessions(partials), i)
         IN  /\ sent.repetitions[i].commitments = partials[i].commitments
             /\ asked \in DOMAIN oracle
             /\ sent.repetitions[i].challenge = oracle[asked]

(* What makes the above inductive, as long as the proof has not been changed:   *)
(* how far the three vectors have got in each phase, and that the challenges    *)
(* derived so far are the hash of a transcript that no longer grows.            *)
Committing == {"new", "ready", "sharing", "evaluating", "committed", "failed"}

PhasesInOrder ==
  /\ phase \in Committing \cup {"deriving", "opening", "done"}
  /\ phase \in Committing => challenges = << >> /\ sent.repetitions = << >>
  /\ phase \in {"new", "ready"} => partials = << >>
  /\ phase \in {"sharing", "evaluating", "committed"} => Len(partials) < job.repetition_count
  /\ phase \notin Committing => Len(partials) = job.repetition_count
  /\ phase = "deriving" => sent.repetitions = << >>
  /\ phase \in {"opening", "done"} => Len(challenges) = Len(partials)
  /\ Len(challenges) <= Len(partials)
  /\ Opened <= Len(partials)
  /\ phase = "done" => Opened = Len(partials)

ChallengesFromTranscript ==
  \A i \in DOMAIN challenges :
    LET asked == fs_input(ProverBackend, job.statement, Sessions(partials), i)
    IN  asked \in DOMAIN oracle /\ challenges[i] = oracle[asked]

OpenedAsCommitted ==
  \A i \in DOMAIN sent.repetitions :
    /\ sent.repetitions[i].commitments = partials[i].commitments
    /\ sent.repetitions[i].challenge = challenges[i]

VectorsAreSequences ==
  /\ \E S : partials \in Seq(S)
  /\ challenges \in Seq(Party)
  /\ "repetitions" \in DOMAIN sent
  /\ \E S : sent.repetitions \in Seq(S)

JointInv ==
  alteration = "none" =>
    /\ job \in Jobs
    /\ VectorsAreSequences
    /\ PhasesInOrder
    /\ ChallengesFromTranscript
    /\ OpenedAsCommitted

\* Only a finished proof is on its way, and can change there.
AlteredWhenDone == alteration # "none" => phase = "done"

\* The prover's vectors as an abstract commit-challenge-open protocol.
Order ==
  INSTANCE CommitOpen WITH
    count <- job.repetition_count,
    committed <- Sessions(partials),
    asked <- challenges,
    opened <- [i \in DOMAIN sent.repetitions |->
                 <<sent.repetitions[i].commitments, sent.repetitions[i].challenge>>]

(* prover.rs prove_joint_fs implements commit-challenge-open over all           *)
(* repetitions at once: step by step, no commitment is made or replaced after a *)
(* challenge is known, no view is opened while a challenge is missing, and each *)
(* opening belongs to its own commitment and challenge.                         *)
ImplementsCommitOpen == Order!Spec

\* Outputs that differ from what the statement expects.
WrongOutputs ==
  {k \in DOMAIN job.circuit.outputs :
     reference[job.circuit.outputs[k]] # job.statement.expected_outputs[k]}

(* An unchanged proof checked under the prover's backend is Valid exactly when  *)
(* the secret-dependent outputs are the expected ones and OutputMismatch        *)
(* otherwise: prover and verifier derive the same challenges and number the     *)
(* repetitions alike.                                                           *)
HonestOutcome ==
  alteration = "none" /\ backend = ProverBackend /\ outcome # "none" =>
    outcome = IF WrongOutputs \cap SecretOutputs = {} THEN "Valid" ELSE "OutputMismatch"

(* Transcript binding: a changed proof of a true statement is only ever         *)
(* accepted when the hash, asked new questions for ALL of its repetitions,      *)
(* happens to answer with the challenges the proof carries.  No answer given    *)
(* for one transcript counts for another, and what the transcript does not      *)
(* contain (views, openings, responses) cannot be changed at all.               *)
AlterationNeedsFreshChallenges ==
  alteration # "none" /\ outcome = "Valid" /\ WrongOutputs = {} =>
    fresh = Len(sent.repetitions)
=============================================================================
