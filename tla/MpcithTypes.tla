----------------------------- MODULE MpcithTypes -----------------------------
(***************************************************************************)
(* What the MPC-in-the-head prover and verifier (crates/mpcith) share: the *)
(* statement, party views and their commitments, and the proof that passes *)
(* from one to the other.                                                  *)
(***************************************************************************)
EXTENDS Circuit

CONSTANT Jobs   \* the executions considered

(***************************************************************************)
(* An execution proves and verifies one statement:                         *)
(*   circuit, statement, witness   the arguments of MpcithProver::new      *)
(*   repetition_count              the argument of prove                   *)
(*   coins      the field elements the RNG may return                      *)
(*   challenges the parties the challenge source may hide                  *)
(*   supply     how many challenges the source can still give              *)
(***************************************************************************)
Statement == [circuit_id : CircuitId, public_inputs : Seq(F), expected_outputs : Seq(F)]

Job == [circuit : Circuit, statement : Statement, witness : Seq(F), repetition_count : Nat,
        coins : SUBSET F, challenges : SUBSET Party, supply : Nat]

ASSUME JobsAssumption == Jobs \subseteq Job

VARIABLES
  job,     \* the execution under way; never changes
  proof    \* the repetitions finished so far (MpcithProof)

\* statement.validate(circuit)
statement_validate(statement, c) ==
  IF validate(c) # "Ok" \/ statement.circuit_id # compute_id(c) THEN "InvalidCircuit"
  ELSE IF \/ Len(statement.public_inputs) # c.num_public_inputs
          \/ Len(statement.expected_outputs) # Len(c.outputs)
  THEN "InvalidStatement"
  ELSE "Ok"

\* The two parties that are not p, in ascending order.
others(p) == CASE p = 0 -> <<1, 2>> [] p = 1 -> <<0, 2>> [] OTHER -> <<0, 1>>
-----------------------------------------------------------------------------
TripleShare == [a : F, b : F, c : F]

LocalOperation ==
  [kind : {"Add"}, output : NodeId, share : F]
    \cup [kind : {"MulPublic"}, output : NodeId, public : F, share : F]
    \cup [kind : {"BeaverMul"}, output : NodeId, triple_index : NodeId, d : F, e : F, share : F]

AddOp(output, share) == [kind |-> "Add", output |-> output, share |-> share]

MulPublicOp(output, public, share) ==
  [kind |-> "MulPublic", output |-> output, public |-> public, share |-> share]

BeaverMulOp(output, triple_index, d, e, share) ==
  [kind |-> "BeaverMul", output |-> output, triple_index |-> triple_index,
   d |-> d, e |-> e, share |-> share]

PartyView ==
  [repetition_id : Nat, party_id : Party, input_shares : Seq(F),
   local_operations : Seq(LocalOperation), triple_shares : Seq(TripleShare),
   opened_values : Seq(F)]

Randomness == [repetition : Nat, party : Party]

ViewCommitment == [view : PartyView, randomness : Randomness]

OpenedView == [view : PartyView, randomness : Randomness]

Repetition ==
  [id : Nat, commitments : Seq(ViewCommitment), challenge : Party,
   opened_views : Seq(OpenedView), hidden_output_shares : Seq(F), hidden_broadcasts : Seq(F)]

\* A Beaver product share: c + d*b + e*a, with d*e absorbed by party 0.
beaver_share(p, a, b, c, d, e) ==
  Absorb(p, Plus(Plus(c, Times(d, b)), Times(e, a)), Times(d, e))

\* 32 bytes from the RNG, fresh for every view of every repetition.
fresh_randomness(id, p) == [repetition |-> id, party |-> p]

\* The backend's hash commitment, taken as binding: equal commitments have equal
\* views and randomness.
commit_view(view, randomness) == [view |-> view, randomness |-> randomness]

\* A slip to guard against: the randomness is not checked.
verify_commitment_view_only(commitment, view, randomness) ==
  commitment.view = view

verify_commitment(commitment, view, randomness) ==
  commitment = commit_view(view, randomness)
=============================================================================
