-------------------------------- MODULE Sdk --------------------------------
(***************************************************************************)
(* The SDK (crates/sdk): an authorization artifact is produced for a       *)
(* payment, handed on as bytes, perhaps changed on the way, and verified   *)
(* by someone with a configuration of their own who holds a payment and a  *)
(* policy.                                                                 *)
(***************************************************************************)
EXTENDS SdkPipeline

CONSTANTS
  Payments,           \* payment records
  Witnesses,          \* private witnesses
  Configs,            \* SDK configurations of those who authorize,
  Verifiers,          \* and of those who verify
  NoQuestion          \* nothing was verified yet

VARIABLES
  payment, policy,    \* what authorize is called for
  call,               \* the rest of the call, << >> once the artifact was sent
  artifact,           \* the artifact as it is now, << >> if there is none
  altered,            \* the field that was changed on the way, or "none"
  question,           \* the call of verify: entry, payment, policy, config
  result              \* what the last call returned

vars == <<payment, policy, call, artifact, altered, question, result>>
-----------------------------------------------------------------------------
\* The artifact with one field changed.
Alteration(a, field) ==
  CASE field \in {"version", "protocol_version"} -> [a EXCEPT ![field] = @ - 1]
    [] field = "backend_id" -> [a EXCEPT ![field] = "shake256"]
    [] field = "payment_id" -> [a EXCEPT ![field] = @ + 1]
    [] field = "policy_id" -> [a EXCEPT ![field] = CHOOSE id \in {IdOf(p) : p \in Forms} : id # @]
    [] field = "circuit_id" -> [a EXCEPT ![field] = CHOOSE id \in Range(CircuitNames) : id # @]
    [] field = "proof.version" -> [a EXCEPT !.proof.version = @ - 1]
    [] field = "proof.backend_id" -> [a EXCEPT !.proof.backend_id = "shake256"]
    [] field = "proof.publics" -> [a EXCEPT !.proof.statement.public_inputs = Front(@)]
    [] field = "proof.outputs" -> [a EXCEPT !.proof.statement.expected_outputs[1] = Plus(@, One)]
    [] field = "proof.repetitions" -> [a EXCEPT !.proof.repetitions = @ - 1, !.proof.intact = FALSE]
    [] field = "proof.views" -> [a EXCEPT !.proof.intact = FALSE]

Fields ==
  {"version", "protocol_version", "backend_id", "payment_id", "policy_id", "circuit_id",
   "proof.version", "proof.backend_id", "proof.publics", "proof.outputs", "proof.repetitions",
   "proof.views"}
-----------------------------------------------------------------------------
\* random: whether the random number generator answers.
Calls ==
  [entry: {"authorize", "authorize_sha256"}, witness: Witnesses, config: Configs, random: BOOLEAN]

Questions ==
  [entry: {"verify", "verify_sha256"}, payment: Payments, policy: Policies, config: Verifiers]

Init ==
  /\ payment \in Payments
  /\ policy \in Policies
  /\ call \in Calls
  /\ artifact = << >>
  /\ altered = "none"
  /\ question = NoQuestion
  /\ result = "none"

Authorize ==
  /\ result = "none"
  /\ result' = authorize(call.entry, call.config, payment, policy, call.witness, call.random)
  /\ artifact' = IF result' # "Ok" THEN << >>
                 ELSE NewAuthorization(call.config, payment, call.witness, Normal(policy),
                                       StatementFor(call.config, payment, Normal(policy)))
  /\ UNCHANGED <<payment, policy, call, altered, question>>

\* The artifact leaves its issuer.
Send ==
  /\ result = "Ok"
  /\ result' = "sent"
  /\ call' = << >>
  /\ UNCHANGED <<payment, policy, artifact, altered, question>>

\* One field is changed on the way.
Alter(field) ==
  /\ result = "sent" /\ altered = "none"
  /\ artifact' = Alteration(artifact, field)
  /\ altered' = field
  /\ UNCHANGED <<payment, policy, call, question, result>>

\* It arrives as a value, or as bytes that are decoded.
Receive(bytes) ==
  /\ result = "sent"
  /\ result' = (IF bytes THEN deserialize_error(artifact) ELSE "Ok") ?? "received"
  /\ UNCHANGED <<payment, policy, call, artifact, altered, question>>

Verify(q) ==
  /\ result = "received"
  /\ question' = q
  /\ result' = verify(q.entry, q.config, q.payment, q.policy, artifact)
  /\ UNCHANGED <<payment, policy, call, artifact, altered>>

Next ==
  \/ Authorize
  \/ Send
  \/ \E field \in Fields : Alter(field)
  \/ \E bytes \in BOOLEAN : Receive(bytes)
  \/ \E q \in Questions : Verify(q)

Spec == Init /\ [][Next]_vars
-----------------------------------------------------------------------------
(* The properties.                                                         *)

Issued == artifact # << >>
Decided == result # "none" /\ call # << >>
Refused == Decided /\ ~Issued

\* The secrets, in the order of the policy's normal form, and the amount meet the policy.
MeetsForm(c) ==
  /\ validate_witness(c.witness, c.form) = "Ok"
  /\ c.witness.amount = c.payment.amount
  /\ evaluate(c.form, to_policy_witness(c.witness, c.form)) = "authorized"

Claim == [payment |-> payment, form |-> Normal(policy), witness |-> call.witness]

(* authorize.rs, payment and policy bindings: the SDK keeps the promise of       *)
(* IdealAuthorization.  An artifact is issued only for a witness that meets the  *)
(* policy, and verification answers Valid only for the payment the artifact was  *)
(* issued for, whole record included, and a policy of the same normal form, with *)
(* any changed artifact, any entry point and any two configurations.             *)
Ideal == INSTANCE IdealAuthorization WITH
  Claims <- [payment: Payments, form: Forms, witness: Witnesses],
  Meets <- MeetsForm,
  claim <- IF call = << >> THEN << >> ELSE Claim,
  granted <- IF Issued THEN {<<payment, Normal(policy)>>} ELSE {},
  answer <- IF question = NoQuestion THEN << >>
            ELSE [payment |-> question.payment, form |-> Normal(question.policy), verdict |-> result]

PromiseKept == Ideal!Spec

(* authorize.rs "Determinism keeps authorize -> verify round-trips reproducible": *)
(* an artifact that arrives as it was issued is valid for its payment under every *)
(* way to write its policy and for every verifier with its backend, whatever the  *)
(* repetitions and the self-verification either side configured.                  *)
HonestVerifies ==
  /\ altered = "none" /\ question # NoQuestion
  /\ question.payment = payment
  /\ Normal(question.policy) = Normal(policy)
  /\ question.config.backend_id = Sha256
  => result = "Valid"

(* types.rs, encoding.rs: every field of an artifact is checked against what the  *)
(* verifier knows or against the proof.  No single field can be changed such that *)
(* the artifact is still valid for anything.                                      *)
AlteredRefused == altered # "none" => result # "Valid"

(* authorize.rs step 9: self-verification repeats the pipeline from the public    *)
(* side.  It fails no artifact, save one made by authorize_sha256 with another    *)
(* backend configured.                                                            *)
SelfVerificationHarmless ==
  result = "SelfVerificationFailed" =>
    call.entry = "authorize_sha256" /\ call.config.backend_id # Sha256

\* The witness has the shape the wiring needs, under a policy that compiles.
Wired ==
  /\ Decided
  /\ Compiles(Normal(policy))
  /\ validate_witness(call.witness, Normal(policy)) = "Ok"
  /\ call.witness.amount = payment.amount

(* wiring.rs bind_statement: the bound circuit has the outputs the verifier       *)
(* expects exactly when the policy authorizes, for refused requests too.  The     *)
(* amount must not be zero: a zero factor makes the root zero for every witness.  *)
BoundCircuitDecides ==
  Wired /\ payment.amount # 0 =>
    LET form == Normal(policy)
        statement == StatementFor(call.config, payment, form)
    IN  (ProverStatement(statement, call.witness, form) = VerifierStatement(statement, form))
          <=> MeetsForm(Claim)

(* relation.rs: the relation refuses nothing it should accept.  A request for a   *)
(* valid policy, a payment of this version and a witness that meets the policy    *)
(* and whose digits are those of every limit is authorized, for an amount of zero *)
(* and an amount at the limit too.                                                *)
MetRequestsAuthorized ==
  Refused /\ call.random /\ call.config.backend_id = Sha256 =>
    LET form == Normal(policy)
    IN  ~ /\ payment.version = PAYMENT_ENCODING_VERSION
          /\ call.config.protocol_version = PROTOCOL_VERSION
          /\ validate(policy) = "Ok" /\ validate(form) = "Ok"
          /\ MeetsForm(Claim)
          /\ \A limit \in ToSet(limits(form)) :
               /\ payment.amount <= limit
               /\ call.witness = NewWitness(call.witness.credential_secrets, payment.amount, limit)

(* relation.rs:6-7: the relation "doubles as the executable specification the     *)
(* compiled circuit must agree with": what the compiled circuit authorizes, with  *)
(* a witness made for the policy's first amount cap, the relation accepts.        *)
RelationAgreesWithCircuit ==
  LET form == Normal(policy)
      caps == limits(form)
      statement == StatementFor(call.config, payment, form)
      MadeForFirstCap ==
        caps # << >> =>
          call.witness = NewWitness(call.witness.credential_secrets, call.witness.amount, caps[1])
  IN  /\ Wired /\ MadeForFirstCap
      /\ reference_evaluate(form, to_policy_witness(call.witness, form)) = "authorized"
      => relation(statement, call.witness, form) = "Ok"

\* The gadget's outputs, once for each value and limit.
RangeChecks ==
  [value, limit \in 0 .. 2 ^ AMOUNT_BIT_LEN - 1 |-> circuit_range_check_outputs(value, limit)]

(* range_check.rs "The two must agree on every input": with honest digits the     *)
(* four outputs of the gadget are zero exactly for the pairs the plaintext check  *)
(* accepts, the wrapped difference of an amount above the limit included.         *)
RangeCheckAgrees ==
  \A limit \in 0 .. 2 ^ AMOUNT_BIT_LEN - 1 :
    (RangeChecks[payment.amount, limit] = <<Zero, Zero, Zero, Zero>>)
      <=> reference_range_check(payment.amount, limit) = "Ok"
=============================================================================
