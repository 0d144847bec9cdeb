---------------------------- MODULE MpcithProver ----------------------------
(***************************************************************************)
(* The prover (crates/mpcith/src/prover.rs).  Each repetition shares the   *)
(* witness among three virtual parties, evaluates the circuit node by node *)
(* on shares, commits to the three views, asks for a challenge and opens   *)
(* the two views the challenge does not hide.                              *)
(*                                                                         *)
(* reference is a history variable: the node values of                     *)
(* circuit::evaluate_reference on the same inputs, whose loop visits the   *)
(* same nodes in the same order.                                           *)
(***************************************************************************)
EXTENDS MpcithReplay

VARIABLES
  phase,             \* where prove() is; "failed" once it returned an error
  error,             \* the error returned, or "none"
  supply,            \* challenges left in the challenge source
  input_shares,      \* per party: PartyState.input_shares
  local_operations,  \* per party: PartyState.local_operations
  triple_shares,     \* per party: PartyState.triple_shares
  opened_values,     \* per party: PartyState.opened_values
  values,            \* the NodeVals computed so far
  next_secret, next_public,
  reference,         \* history: evaluate_reference's values so far
  commitments        \* PartialRepetition.commitments once committed

inputVars == <<input_shares>>
partyVars == <<local_operations, triple_shares, opened_values>>
cursorVars == <<next_secret, next_public>>
proverVars == <<job, proof, phase, error, supply, inputVars, partyVars, cursorVars,
                values, reference, commitments>>

\* A NodeVal: a plaintext every party knows, or three additive shares.
NodeVal == [shared : BOOLEAN, share : Sharing]

Public(v) == [shared |-> FALSE, share |-> [p \in Party |-> v]]

Shared(s) == [shared |-> TRUE, share |-> s]

operand(val, p) == val.share[p]

public_part(val) == IF val.shared THEN Zero ELSE val.share[0]

\* What a node's value is, once its shares are put together.
Reveal(val) == IF val.shared THEN Sum3(val.share) ELSE val.share[0]
-----------------------------------------------------------------------------
Empty == [p \in Party |-> << >>]

ProverInit ==
  /\ job \in Jobs
  /\ proof = << >>
  /\ phase = "new"
  /\ error = "none"
  /\ supply = job.supply
  /\ input_shares = Empty
  /\ local_operations = Empty
  /\ triple_shares = Empty
  /\ opened_values = Empty
  /\ values = << >>
  /\ next_secret = 0
  /\ next_public = 0
  /\ reference = << >>
  /\ commitments = << >>

\* prove returns an error: nothing of the run so far is handed out.
Fail(e) ==
  /\ phase' = "failed"
  /\ error' = e
  /\ UNCHANGED <<job, proof, supply, inputVars, partyVars, cursorVars, values, reference,
                 commitments>>

NewError ==
  IF statement_validate(job.statement, job.circuit) # "Ok"
  THEN statement_validate(job.statement, job.circuit)
  ELSE IF Len(job.witness) # job.circuit.num_secret_inputs THEN "InvalidStatement"
  ELSE "none"

new_backend ==
  /\ phase = "new"
  /\ IF NewError = "none"
     THEN /\ phase' = "ready"
          /\ UNCHANGED <<job, proof, error, supply, inputVars, partyVars, cursorVars, values,
                         reference, commitments>>
     ELSE Fail(NewError)

prove ==
  /\ phase = "ready"
  /\ IF job.repetition_count > 0
     THEN /\ phase' = "sharing"
          /\ UNCHANGED <<job, proof, error, supply, inputVars, partyVars, cursorVars, values,
                         reference, commitments>>
     ELSE Fail("InvalidRepetitionCount")

\* Two random shares and the one that makes the sum come out.
share3(v) ==
  {[p \in Party |-> IF p = 0 THEN s0 ELSE IF p = 1 THEN s1 ELSE Minus(Minus(v, s0), s1)] :
     s0 \in job.coins, s1 \in job.coins}

ShareInput ==
  /\ phase = "sharing"
  /\ Len(input_shares[0]) < Len(job.witness)
  /\ \E s \in share3(job.witness[Len(input_shares[0]) + 1]) :
       input_shares' = [p \in Party |-> Append(input_shares[p], s[p])]
  /\ UNCHANGED <<job, proof, phase, error, supply, partyVars, cursorVars, values, reference,
                 commitments>>

InputsShared ==
  /\ phase = "sharing"
  /\ Len(input_shares[0]) = Len(job.witness)
  /\ phase' = "evaluating"
  /\ UNCHANGED <<job, proof, error, supply, inputVars, partyVars, cursorVars, values,
                 reference, commitments>>
-----------------------------------------------------------------------------
(* The node loop.  Each step evaluates the node at position out.           *)

out == Len(values) + 1

node == job.circuit.nodes[out]

AtNode(op) ==
  /\ phase = "evaluating"
  /\ out <= Len(job.circuit.nodes)
  /\ node.op = op

va == values[node.a]
vb == values[node.b]

\* The node's value is val; evaluate_reference computes ref for it.
Push(val, ref) ==
  /\ values' = Append(values, val)
  /\ reference' = Append(reference, ref)
  /\ UNCHANGED <<job, proof, phase, error, supply, inputVars, commitments>>

RecordOps(Op(_)) ==
  local_operations' = [p \in Party |-> Append(local_operations[p], Op(p))]

SecretInputNode ==
  /\ AtNode("SecretInput")
  /\ Push(Shared([p \in Party |-> input_shares[p][next_secret + 1]]),
          job.witness[next_secret + 1])
  /\ next_secret' = next_secret + 1
  /\ UNCHANGED <<next_public, partyVars>>

PublicInputNode ==
  /\ AtNode("PublicInput")
  /\ Push(Public(job.statement.public_inputs[next_public + 1]),
          job.statement.public_inputs[next_public + 1])
  /\ next_public' = next_public + 1
  /\ UNCHANGED <<next_secret, partyVars>>

ConstantNode ==
  /\ AtNode("Constant")
  /\ Push(Public(node.value), node.value)
  /\ UNCHANGED <<cursorVars, partyVars>>

RefAdd == Plus(reference[node.a], reference[node.b])

AddPublic ==
  /\ AtNode("Add")
  /\ ~va.shared /\ ~vb.shared
  /\ Push(Public(Plus(public_part(va), public_part(vb))), RefAdd)
  /\ UNCHANGED <<cursorVars, partyVars>>

AddShared ==
  /\ AtNode("Add")
  /\ va.shared /\ vb.shared
  /\ LET sum == [p \in Party |-> Plus(operand(va, p), operand(vb, p))]
         Op(p) == AddOp(out, sum[p])
     IN  /\ Push(Shared(sum), RefAdd)
         /\ RecordOps(Op)
  /\ UNCHANGED <<cursorVars, triple_shares, opened_values>>

\* One shared operand: party 0 absorbs the public value and records the operation,
\* the others keep their shares and record nothing.
AddMixed ==
  /\ AtNode("Add")
  /\ va.shared # vb.shared
  /\ LET s == IF va.shared THEN va ELSE vb
         v == IF va.shared THEN public_part(vb) ELSE public_part(va)
         sum == [p \in Party |-> Absorb(p, operand(s, p), v)]
     IN  /\ Push(Shared(sum), RefAdd)
         /\ local_operations' =
              [local_operations EXCEPT ![0] = Append(local_operations[0], AddOp(out, sum[0]))]
  /\ UNCHANGED <<cursorVars, triple_shares, opened_values>>

RefMul == Times(reference[node.a], reference[node.b])

MulPublic ==
  /\ AtNode("Mul")
  /\ ~va.shared /\ ~vb.shared
  /\ Push(Public(Times(public_part(va), public_part(vb))), RefMul)
  /\ UNCHANGED <<cursorVars, partyVars>>

MulMixed ==
  /\ AtNode("Mul")
  /\ va.shared # vb.shared
  /\ LET s == IF va.shared THEN va ELSE vb
         scalar == IF va.shared THEN public_part(vb) ELSE public_part(va)
         product == [p \in Party |-> Times(operand(s, p), scalar)]
         Op(p) == MulPublicOp(out, scalar, product[p])
     IN  /\ Push(Shared(product), RefMul)
         /\ RecordOps(Op)
  /\ UNCHANGED <<cursorVars, triple_shares, opened_values>>

\* A slip to guard against: the two masks are pushed in the wrong order.
Broadcast_swapped(dp, ep, p) == <<ep[p], dp[p]>>

\* What a party broadcasts for one multiplication.
Broadcast(dp, ep, p) == <<dp[p], ep[p]>>

\* Beaver multiplication with the sharings ta, tb, tc of a fresh triple.
BeaverMul(ta, tb, tc) ==
  /\ AtNode("Mul")
  /\ va.shared /\ vb.shared
  /\ LET dp == [p \in Party |-> Minus(operand(va, p), ta[p])]
         ep == [p \in Party |-> Minus(operand(vb, p), tb[p])]
         d == Sum3(dp)
         e == Sum3(ep)
         z == [p \in Party |-> beaver_share(p, ta[p], tb[p], tc[p], d, e)]
         Op(p) == BeaverMulOp(out, Len(triple_shares[0]) + 1, d, e, z[p])
     IN  /\ Push(Shared(z), RefMul)
         /\ RecordOps(Op)
         /\ triple_shares' =
              [p \in Party |-> Append(triple_shares[p], [a |-> ta[p], b |-> tb[p], c |-> tc[p]])]
         /\ opened_values' = [p \in Party |-> opened_values[p] \o Broadcast(dp, ep, p)]
  /\ UNCHANGED cursorVars

MulShared ==
  \E a, b \in job.coins :
    \E ta \in share3(a), tb \in share3(b), tc \in share3(Times(a, b)) : BeaverMul(ta, tb, tc)
-----------------------------------------------------------------------------
(* Commit, challenge, open.                                                *)

id == Len(proof)

build_view(p) ==
  [repetition_id |-> id, party_id |-> p, input_shares |-> input_shares[p],
   local_operations |-> local_operations[p], triple_shares |-> triple_shares[p],
   opened_values |-> opened_values[p]]

AllEvaluated == phase = "evaluating" /\ Len(values) = Len(job.circuit.nodes)

CommitViews ==
  /\ AllEvaluated
  /\ phase' = "committed"
  /\ commitments' = [p \in Party |-> commit_view(build_view(p), fresh_randomness(id, p))]
  /\ UNCHANGED <<job, proof, error, supply, inputVars, partyVars, cursorVars, values, reference>>

Opening(p) == [view |-> build_view(p), randomness |-> fresh_randomness(id, p)]

\* The hidden party's share of every output, nothing for a public one.
HiddenOutputShares(hidden) ==
  [k \in DOMAIN job.circuit.outputs |->
     LET val == values[job.circuit.outputs[k]]
     IN  IF val.shared THEN val.share[hidden] ELSE Zero]

FinishedRepetition(hidden) ==
  [id |-> id,
   commitments |-> <<commitments[0], commitments[1], commitments[2]>>,
   challenge |-> hidden,
   opened_views |-> <<Opening(others(hidden)[1]), Opening(others(hidden)[2])>>,
   hidden_output_shares |-> HiddenOutputShares(hidden),
   hidden_broadcasts |-> opened_values[hidden]]

\* A slip to guard against: the queue is assumed never to run dry.
next_challenge_unchecked == TRUE

\* Whether the challenge source can answer once more.
next_challenge == supply > 0

\* The challenge arrives only after the commitments; the repetition is finished and
\* the next one, if any, starts from fresh party state.
finish_repetition(hidden) ==
  /\ phase = "committed"
  /\ next_challenge
  /\ supply' = supply - 1
  /\ proof' = Append(proof, FinishedRepetition(hidden))
  /\ IF Len(proof') < job.repetition_count
     THEN /\ phase' = "sharing"
          /\ input_shares' = Empty
          /\ local_operations' = Empty
          /\ triple_shares' = Empty
          /\ opened_values' = Empty
          /\ values' = << >>
          /\ next_secret' = 0
          /\ next_public' = 0
          /\ reference' = << >>
          /\ commitments' = << >>
     ELSE /\ phase' = "done"
          /\ UNCHANGED <<inputVars, partyVars, cursorVars, values, reference, commitments>>
  /\ UNCHANGED <<job, error>>

\* The challenge source is exhausted.
NoChallenge ==
  /\ phase = "committed"
  /\ ~next_challenge
  /\ Fail("InvalidProtocolState")

EvaluateNode ==
  \/ SecretInputNode \/ PublicInputNode \/ ConstantNode
  \/ AddPublic \/ AddShared \/ AddMixed
  \/ MulPublic \/ MulMixed \/ MulShared

ProverNext ==
  \/ new_backend \/ prove
  \/ ShareInput \/ InputsShared
  \/ EvaluateNode
  \/ CommitViews
  \/ \E hidden \in job.challenges : finish_repetition(hidden)
  \/ NoChallenge

ProverSpec == ProverInit /\ [][ProverNext]_proverVars
-----------------------------------------------------------------------------
ProverErrors ==
  {"InvalidCircuit", "InvalidStatement", "InvalidRepetitionCount", "InvalidProtocolState"}

ProverTypeOK ==
  /\ job \in Jobs
  /\ phase \in {"new", "ready", "sharing", "evaluating", "committed", "done", "failed"}
  /\ error \in {"none"} \cup ProverErrors
  /\ supply \in Nat
  /\ input_shares \in [Party -> Seq(F)]
  /\ local_operations \in [Party -> Seq(LocalOperation)]
  /\ triple_shares \in [Party -> Seq(TripleShare)]
  /\ opened_values \in [Party -> Seq(F)]
  /\ values \in Seq(NodeVal)
  /\ next_secret \in Nat
  /\ next_public \in Nat
  /\ reference \in Seq(F)
  /\ commitments \in [Party -> ViewCommitment] \cup {<< >>}
  /\ phase = "committed" => commitments # << >>
  /\ proof \in Seq(Repetition)

(* The sharing commutes with evaluation: whatever the circuit and the random   *)
(* draws, what the three parties hold for a node reconstructs to the value     *)
(* evaluate_reference computes for it (a public value absorbed by more than    *)
(* one party, or d*e counted three times, would break it).                     *)
SharesReconstruct == \A j \in DOMAIN values : Reveal(values[j]) = reference[j]

(* The prover tracks secrecy dynamically, gate by gate; the verifier decides    *)
(* with node_depends_on_secrets which outputs are shared.  They must agree.     *)
SharedMeansSecretDependent ==
  \A j \in DOMAIN values : values[j].shared <=> node_depends_on_secrets(job.circuit)[j]

(* Every party's record of a multiplication names the triple it used and the    *)
(* masks d, e that the three broadcasts add up to, at the triple's own position *)
(* of opened_values; it carries the share the party goes on computing with.     *)
OperationsMatchBroadcasts ==
  \A p \in Party : \A i \in DOMAIN local_operations[p] :
    LET op == local_operations[p][i]
    IN  /\ op.share = values[op.output].share[p]
        /\ op.kind = "BeaverMul" =>
             /\ op.d = Sum3([q \in Party |-> opened_values[q][2 * op.triple_index - 1]])
             /\ op.e = Sum3([q \in Party |-> opened_values[q][2 * op.triple_index]])
(* The strengthening that makes the above inductive: the job was checked, the   *)
(* input shares reconstruct to the witness, the cursors count the leaves passed *)
(* and broadcasts and operations keep step with the triples.                    *)
Validated == phase \notin {"new", "failed"} => NewError = "none"

InputsReconstruct ==
  /\ \A p \in Party : Len(input_shares[p]) = Len(input_shares[0])
  /\ Len(input_shares[0]) <= Len(job.witness)
  /\ phase = "evaluating" => Len(input_shares[0]) = Len(job.witness)
  /\ \A i \in DOMAIN input_shares[0] :
       Sum3([p \in Party |-> input_shares[p][i]]) = job.witness[i]

CursorsCountLeaves ==
  /\ Len(reference) = Len(values)
  /\ Len(values) <= Len(job.circuit.nodes)
  /\ phase \in {"new", "ready", "sharing"} => values = << >>
  /\ phase = "committed" => Len(values) = Len(job.circuit.nodes)
  /\ next_secret = Cardinality(LeavesBefore(job.circuit.nodes, "SecretInput", out))
  /\ next_public = Cardinality(LeavesBefore(job.circuit.nodes, "PublicInput", out))

BroadcastsInStep ==
  /\ \A p \in Party : /\ Len(triple_shares[p]) = Len(triple_shares[0])
                       /\ Len(opened_values[p]) = 2 * Len(triple_shares[0])
  /\ \A p \in Party : \A i \in DOMAIN local_operations[p] :
       LET op == local_operations[p][i]
       IN  /\ op.output <= Len(values)
           /\ op.kind = "BeaverMul" => op.triple_index <= Len(triple_shares[0])

ProverInv ==
  /\ ProverTypeOK
  /\ Validated
  /\ InputsReconstruct
  /\ CursorsCountLeaves
  /\ SharesReconstruct
  /\ BroadcastsInStep
  /\ OperationsMatchBroadcasts

(* What a verifier can rely on: each party's view records its part of the one   *)
(* evaluation, gate by gate, a value that is not shared is known to all three,  *)
(* and evaluate_reference went along.                                           *)
LocalOf(val, p) == [shared |-> val.shared, v |-> val.share[p]]

LocalValues(p) == [i \in DOMAIN values |-> LocalOf(values[i], p)]

Views == [p \in Party |-> build_view(p)]

PublicsKnown ==
  \A i \in DOMAIN values : ~values[i].shared => \A p \in Party : values[i].share[p] = reference[i]

ViewsCommitted ==
  phase = "committed" =>
    /\ Len(input_shares[0]) = Len(job.witness)
    /\ commitments = [p \in Party |-> commit_view(build_view(p), fresh_randomness(id, p))]

TraceInv ==
  /\ \A p \in Party : ViewReplays(job, Views[p], MasksOf(Views), LocalValues(p))
  /\ PublicsKnown
  /\ IsReference(job, reference)
  /\ ViewsCommitted
  /\ phase = "done" => Len(values) = Len(job.circuit.nodes)
=============================================================================
