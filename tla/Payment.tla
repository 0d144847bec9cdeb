------------------------------ MODULE Payment ------------------------------
(***************************************************************************)
(* Payments and their authorization (crates/payment): the plaintext        *)
(* relation between statement, witness and policy, the wiring of the       *)
(* payment into the policy's circuit, proving and verifying.               *)
(*                                                                         *)
(* Digests are numbers.  SHA-256 is an injective numbering, reduced modulo *)
(* p where the code turns a digest into a field element.  A proof is       *)
(* idealised to what NonInteractive shows of one: it is accepted for the   *)
(* statement it was made for when nothing of it was changed.  Amounts have *)
(* one unit, which is left out.                                            *)
(***************************************************************************)
EXTENDS PolicyInputs

CONSTANTS
  Policies,          \* the policies in use
  PaymentHash(_),    \* SHA-256 of an encoded payment
  AUTHORIZATION_REPETITIONS

ASSUME RepetitionsAssumption == AUTHORIZATION_REPETITIONS \in Nat \ {0}

PROTOCOL_VERSION == 2
Sha256 == "sha256"

\* One check of several, and the first error of two.
Require(condition, error) == IF condition THEN "Ok" ELSE error
e ?? f == IF e = "Ok" THEN f ELSE e
-----------------------------------------------------------------------------
(* The payment record: version, payment_id (the caller's), amount,         *)
(* recipient_commitment, nonce.  Its identity is the hash of all of them.  *)

encode_payment(p) == <<p.version, p.payment_id, 1, p.amount, 1, p.recipient_commitment, p.nonce>>

PaymentId(p) == PaymentHash(encode_payment(p))
-----------------------------------------------------------------------------
(* Normal forms, identities and circuits, worked out once for each policy. *)

Forms == Policies \cup {normalize(p) : p \in Policies}

NormalForms == [p \in Forms |-> normalize(p)]
PolicyIds == [p \in Forms |-> policy_id(p)]
CompiledForms == [p \in Forms |-> compile_with_layout(p)]

Normal(p) == NormalForms[p]
IdOf(p) == PolicyIds[p]

compile(p) == CompiledForms[p]

Compiles(p) == compile(p).error = "Ok"

\* A slip to guard against: the binding product replaces the root.
bind_statement_alone(c) ==
  LET n == Len(c.nodes)
      leaf == [op |-> "PublicInput"]
  IN  [nodes |-> c.nodes \o <<leaf, leaf, leaf, leaf,
                              Mul(n + 1, n + 2), Mul(n + 5, n + 3), Mul(n + 6, n + 4),
                              Mul(n + 7, n + 7)>>,
       outputs |-> [c.outputs EXCEPT ![Len(c.outputs)] = n + 7]]

\* Four public leaves, their product, and the product of that with the root.
bind_statement(c) ==
  LET n == Len(c.nodes)
      leaf == [op |-> "PublicInput"]
  IN  [nodes |-> c.nodes \o <<leaf, leaf, leaf, leaf,
                              Mul(n + 1, n + 2), Mul(n + 5, n + 3), Mul(n + 6, n + 4),
                              Mul(Last(c.outputs), n + 7)>>,
       outputs |-> [c.outputs EXCEPT ![Len(c.outputs)] = n + 8]]

\* The id of the bound circuit is the hash of its encoding, taken as injective: a
\* circuit is named by one of the policies that compile to it.
NamesOf(compiled) ==
  LET good == {p \in DOMAIN compiled : compiled[p].error = "Ok"}
  IN  [p \in good |-> CHOOSE q \in good : bind_statement(compiled[q]) = bind_statement(compiled[p])]

CircuitNames == NamesOf(CompiledForms)

payment_circuit_id(p) == CircuitNames[p]
-----------------------------------------------------------------------------
(* The witness: secrets in the order of the policy's credential leaves.    *)

RECURSIVE policy_credential_ids(_), limits(_)
policy_credential_ids(p) ==
  IF IsLeaf(p) THEN IF p.op = "Credential" THEN <<p.id>> ELSE << >>
  ELSE FlattenSeq([i \in DOMAIN p.members |-> policy_credential_ids(p.members[i])])
limits(p) ==
  IF IsLeaf(p) THEN IF p.op = "AmountAtMost" THEN <<p.limit>> ELSE << >>
  ELSE FlattenSeq([i \in DOMAIN p.members |-> limits(p.members[i])])

NewWitness(credentials, amount, limit) ==
  [credential_secrets |-> credentials, amount |-> amount,
   amount_bits |-> decompose(amount), difference_bits |-> decompose(Difference(limit, amount))]

\* A secret of no or of too great length; well-formed secrets are their commitments.
MalformedSecret == -1

validate_witness(w, p) ==
  Require(Len(w.credential_secrets) = Len(policy_credential_ids(p)), "WitnessCountMismatch")
  ?? Require(MalformedSecret \notin ToSet(w.credential_secrets), "MalformedCredentialSecret")

\* The ids of the leaves zipped with the secrets.
to_policy_witness(w, p) ==
  LET ids == policy_credential_ids(p)
  IN  [secrets |-> [i \in DOMAIN ids |-> <<ids[i], w.credential_secrets[i]>>], amount |-> w.amount]
-----------------------------------------------------------------------------
(* The plaintext relation.                                                 *)

\* A slip to guard against: the bound itself is refused.
WithinLimit_strict(amount, limit) == amount < limit

WithinLimit(amount, limit) == amount <= limit

\* The first limit, in order, that the amount or the digits do not meet.
LimitError(w, p) ==
  LET LimitMet(limit) ==
        Require(WithinLimit(w.amount, limit), "AmountExceedsLimit")
        ?? Require(/\ w.amount_bits = decompose(w.amount)
                   /\ w.difference_bits = decompose(Difference(limit, w.amount)), "InvalidBitWitness")
      Check(e, limit) == e ?? LimitMet(limit)
  IN  FoldLeft(Check, "Ok", limits(p))

DecisionOf(c, p, pw) == Decision(c, build_inputs(c, p, pw))

\* The compiled circuit's decision.
reference_evaluate(p, pw) == DecisionOf(compile(p), p, pw)

\* AuthorizationRelation::validate.
relation(statement, w, p) ==
  Require(validate(p) = "Ok", "InvalidPolicy")
  ?? Require(IdOf(p) = statement.policy_id, "PolicyIdMismatch")
  ?? validate_witness(w, p)
  ?? Require(w.amount = statement.amount, "AmountMismatch")
  ?? LimitError(w, p)
  ?? Require(evaluate(p, to_policy_witness(w, p)) # "WitnessMismatch", "InvalidPolicy")
  ?? Require(evaluate(p, to_policy_witness(w, p)) = "authorized", "PolicyNotSatisfied")
  ?? Require(Compiles(p), "InvalidPolicy")
  ?? Require(reference_evaluate(p, to_policy_witness(w, p)) = "authorized", "InvalidPolicy")
-----------------------------------------------------------------------------
(* Wiring.                                                                 *)

\* A slip to guard against: the caller's identifier is bound, not the payment's hash.
binding_values_unhashed(s) ==
  <<FieldFrom(s.amount), FieldFrom(s.recipient_commitment), FieldFrom(s.nonce), FieldFrom(s.nonce)>>

binding_values(s) ==
  <<FieldFrom(s.amount), FieldFrom(s.recipient_commitment), FieldFrom(s.nonce), FieldFrom(s.payment_id)>>

\* A slip to guard against: limits before credentials, not in the order of the slots.
policy_public_inputs_grouped(c, p) ==
  LET n == Normal(p)
      values == limits(n) \o policy_credential_ids(n)
  IN  [i \in DOMAIN values |-> FieldFrom(values[i])]

\* The verifier's public inputs: the n-th credential slot takes the n-th id, the
\* n-th limit slot the n-th limit.
policy_public_inputs(c, p) ==
  LET n == Normal(p)
      Nth(i) == Cardinality({j \in 1 .. i : c.public_slots[j] = c.public_slots[i]})
  IN  [i \in DOMAIN c.public_slots |->
         FieldFrom(IF c.public_slots[i] = "AmountLimit" THEN limits(n)[Nth(i)]
                   ELSE policy_credential_ids(n)[Nth(i)])]

reference_outputs(circuit, secrets, publics) ==
  LET values == eval_all_nodes(circuit, [secrets |-> secrets, publics |-> publics])
  IN  [i \in DOMAIN circuit.outputs |-> values[circuit.outputs[i]]]

Product(values) == FoldLeft(Times, One, values)

\* A statement with the outputs the bound circuit has.
Evaluated(c, circuitId, secrets, publics) ==
  [circuit_id |-> circuitId, public_inputs |-> publics,
   expected_outputs |-> reference_outputs(bind_statement(c), secrets, publics)]

BoundTo(c, circuitId, s, inputs) ==
  Evaluated(c, circuitId, inputs.secrets, inputs.publics \o binding_values(s))

\* What the prover states.
ProverStatement(s, w, p) ==
  BoundTo(compile(p), payment_circuit_id(p), s, build_inputs(compile(p), p, to_policy_witness(w, p)))

Expected(c, p, circuitId, binding) ==
  [circuit_id |-> circuitId, public_inputs |-> policy_public_inputs(c, p) \o binding,
   expected_outputs |-> Append([i \in 1 .. c.range_check_outputs |-> Zero], Product(binding))]

\* What the verifier expects, without a witness.
VerifierStatement(s, p) == Expected(compile(p), p, payment_circuit_id(p), binding_values(s))
-----------------------------------------------------------------------------
(* Authorizing and verifying.                                              *)

check_statement_binding(s, p) ==
  Require(s.protocol_version = PROTOCOL_VERSION, "StatementMismatch")
  ?? Require(IdOf(p) = s.policy_id, "PolicyIdMismatch")
  ?? Require(Compiles(p), "InvalidPolicy")
  ?? Require(payment_circuit_id(p) = s.circuit_id, "StatementMismatch")

\* The error, if the proof is not made; random says whether the generator answers.
authorize_error(s, w, p, random) ==
  check_statement_binding(s, p) ?? relation(s, w, p) ?? Require(random, "ProofGenerationFailed")

\* The proof, if there is no error.
authorize_payment(s, w, p) ==
  [version |-> PROTOCOL_VERSION, backend_id |-> Sha256, statement |-> ProverStatement(s, w, p),
   repetitions |-> AUTHORIZATION_REPETITIONS, intact |-> TRUE]

\* The generic verifier.
verify_proof(statement, proof) ==
  Require(proof.backend_id = Sha256, "UnsupportedBackend")
  ?? Require(proof.version = PROTOCOL_VERSION, "InvalidVersion")
  ?? Require(proof.repetitions > 0, "VerificationFailed")
  ?? Require(proof.statement = statement, "InvalidStatement")
  ?? Require(proof.intact, "VerificationFailed")

\* Ok(true) is "Ok".
verify_payment_authorization(s, proof, p) ==
  check_statement_binding(s, p)
  ?? Require(proof.statement.circuit_id = payment_circuit_id(p), "StatementMismatch")
  ?? LET verdict == verify_proof(VerifierStatement(s, p), proof)
     IN  CASE verdict = "Ok" -> "Ok"
           [] verdict = "InvalidStatement" -> "StatementMismatch"
           [] OTHER -> "ProofRejected"
-----------------------------------------------------------------------------
(* The range check on its own.                                             *)

reference_range_check(value, limit) == Require(value <= limit, "ValueAboveLimit")

circuit_range_check_outputs(value, limit) ==
  LET Slots == [i \in 1 .. 2 * AMOUNT_BIT_LEN |-> "Bit"]
      Ids(from) == [i \in 1 .. AMOUNT_BIT_LEN |-> from + i]
      declared == secret_inputs(Emit(secret_inputs(NewCompiler, <<"Amount">>),
                                     <<Const(FieldFrom(limit))>>), Slots)
      gadget == prove_bounded_difference(declared, 1, 2, Ids(2), Ids(2 + AMOUNT_BIT_LEN))
      digits == decompose(value) \o decompose(Difference(limit, value))
      secrets == <<value>> \o digits
  IN  reference_outputs([nodes |-> gadget.nodes, outputs |-> RangeCheckOutputs(gadget.wire)],
                        [i \in DOMAIN secrets |-> FieldFrom(secrets[i])], << >>)
=============================================================================
