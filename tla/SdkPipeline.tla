---------------------------- MODULE SdkPipeline ----------------------------
(***************************************************************************)
(* What the calls of the SDK return (crates/sdk: authorize.rs, backend.rs, *)
(* types.rs, encoding.rs): the pipelines of authorize and verify, and the  *)
(* checks on an artifact that is read back from bytes.                     *)
(***************************************************************************)
EXTENDS Payment

CONSTANT NonceHash(_, _, _)   \* SHA-256 of payment id, policy id and circuit id

PAYMENT_ENCODING_VERSION == 1
AUTHORIZATION_VERSION == 1
SUPPORTED_PROTOCOL_VERSIONS == {1, 2}
SUPPORTED_BACKEND_IDS == {"sha256", "shake256"}
-----------------------------------------------------------------------------
(* Verification.                                                           *)

\* backend_from_id and the match on its result: the one backend carried out.
dispatch(backend) == Require(backend = Sha256, "BackendUnsupported")

build_statement(payment, policyId, circuitId, version, nonce) ==
  [payment_id |-> PaymentId(payment), amount |-> payment.amount,
   recipient_commitment |-> payment.recipient_commitment, policy_id |-> policyId,
   circuit_id |-> circuitId, protocol_version |-> version, nonce |-> nonce]

\* The nonce is not part of the artifact: both sides derive it from three ids.
deterministic_nonce(payment_id, policyId, circuitId) == NonceHash(payment_id, policyId, circuitId)

\* A slip to guard against: the artifact's version is not looked at.
VersionError_skipped(a) == "Ok"

VersionError(a) == Require(a.version = AUTHORIZATION_VERSION, "VersionMismatch")

\* The checks, for the policy's normal form, its id and its circuit's id.
verify_checks(config, payment, normalized, policyId, circuitId, a) ==
  VersionError(a)
  ?? Require(a.backend_id = config.backend_id /\ a.backend_id = Sha256, "BackendMismatch")
  ?? Require(a.policy_id = policyId, "PolicyMismatch")
  ?? Require(Compiles(normalized), "InvalidPolicy")
  ?? Require(a.circuit_id = circuitId, "CircuitMismatch")
  ?? Require(a.payment_id = payment.payment_id, "PaymentMismatch")
  ?? Require(verify_payment_authorization(
               build_statement(payment, policyId, circuitId, a.protocol_version,
                               deterministic_nonce(a.payment_id, a.policy_id, a.circuit_id)),
               a.proof, normalized) = "Ok", "ProofInvalid")

\* "Valid", the reason for "Invalid", or the error.
verify_normalized(config, payment, normalized, a) ==
  verify_checks(config, payment, normalized, IdOf(normalized), payment_circuit_id(normalized), a)
  ?? "Valid"

verify_with(config, payment, policy, a) == verify_normalized(config, payment, Normal(policy), a)

\* A slip to guard against: the proof is expected to have the configured repetitions.
verify_configured(entry, config, payment, policy, a) ==
  Require(a.proof.repetitions = config.repetitions, "ProofInvalid")
  ?? verify_with(config, payment, policy, a)

\* The two entry points: verify_sha256 goes straight to verify_with.
verify(entry, config, payment, policy, a) ==
  Require(entry = "verify" => a.backend_id = config.backend_id, "BackendMismatch")
  ?? (IF entry = "verify" THEN dispatch(a.backend_id) ELSE "Ok")
  ?? verify_with(config, payment, policy, a)
-----------------------------------------------------------------------------
(* Authorization.                                                          *)

relation_to_sdk_error(e) ==
  CASE e = "Ok" -> "Ok"
    [] e = "InvalidPolicy" -> "InvalidPolicy"
    [] e = "PolicyIdMismatch" -> "PolicyMismatch"
    [] e \in {"WitnessCountMismatch", "MalformedCredentialSecret", "AmountMismatch",
              "AmountExceedsLimit", "InvalidBitWitness"} -> "InvalidWitness"
    [] OTHER -> "AuthorizationGenerationFailed"

StatementWith(config, payment, policyId, circuitId) ==
  build_statement(payment, policyId, circuitId, config.protocol_version,
                  deterministic_nonce(payment.payment_id, policyId, circuitId))

StatementFor(config, payment, normalized) ==
  StatementWith(config, payment, IdOf(normalized), payment_circuit_id(normalized))

\* The artifact, for a statement without errors.
NewAuthorization(config, payment, witness, normalized, statement) ==
  [version |-> AUTHORIZATION_VERSION, protocol_version |-> config.protocol_version,
   backend_id |-> Sha256, payment_id |-> payment.payment_id,
   policy_id |-> statement.policy_id, circuit_id |-> statement.circuit_id,
   proof |-> authorize_payment(statement, witness, normalized)]

\* The error, with the self-verification of what would be returned.
authorize_normalized(config, payment, policy, normalized, statement, witness, random) ==
  Require(payment.version = PAYMENT_ENCODING_VERSION, "InvalidPayment")
  ?? Require(validate(policy) = "Ok" /\ Compiles(normalized), "InvalidPolicy")
  ?? relation_to_sdk_error(relation(statement, witness, normalized))
  ?? Require(authorize_error(statement, witness, normalized, random) = "Ok",
             "AuthorizationGenerationFailed")
  ?? Require(config.self_verify =>
               verify_with(config, payment, policy,
                           NewAuthorization(config, payment, witness, normalized, statement)) = "Valid",
             "SelfVerificationFailed")

authorize_with(config, payment, policy, witness, random) ==
  authorize_normalized(config, payment, policy, Normal(policy),
                       StatementFor(config, payment, Normal(policy)), witness, random)

\* The two entry points: authorize_sha256 goes straight to authorize_with.
authorize(entry, config, payment, policy, witness, random) ==
  (IF entry = "authorize" THEN dispatch(config.backend_id) ELSE "Ok")
  ?? authorize_with(config, payment, policy, witness, random)
-----------------------------------------------------------------------------
(* Handing on: serialize and deserialize keep every field (Encodings) and  *)
(* refuse the versions and backends they do not know.                      *)

deserialize_error(a) ==
  Require(a.version = AUTHORIZATION_VERSION, "VersionUnsupported")
  ?? Require(a.protocol_version \in SUPPORTED_PROTOCOL_VERSIONS, "VersionUnsupported")
  ?? Require(a.backend_id \in SUPPORTED_BACKEND_IDS, "BackendUnsupported")
  ?? Require(a.proof.version = PROTOCOL_VERSION, "VersionUnsupported")
  ?? Require(a.proof.backend_id \in SUPPORTED_BACKEND_IDS, "BackendUnsupported")
=============================================================================
