------------------------- MODULE MpcithHonestProofs -------------------------
(***************************************************************************)
(* For every commutative ring, every circuit, witness and statement, and   *)
(* whatever the random draws and the challenges: the prover never reads    *)
(* outside its vectors, what the three parties hold for a node always      *)
(* reconstructs to the value of evaluate_reference, and the verifier       *)
(* replays what the prover hands out in lock-step with the evaluation that *)
(* it presents, so that it ends with the verdict the reference evaluation  *)
(* calls for.                                                              *)
(***************************************************************************)
EXTENDS Mpcith, MpcithVerifierProofs

\* The components of a job have their types.
LEMMA JobFacts ==
  ASSUME ProverTypeOK
  PROVE  /\ job.circuit \in Circuit
         /\ job.circuit.nodes \in Seq(Node)
         /\ job.circuit.outputs \in Seq(NodeId)
         /\ job.circuit.num_secret_inputs \in Nat
         /\ job.circuit.num_public_inputs \in Nat
         /\ job.statement.public_inputs \in Seq(F)
         /\ job.statement.expected_outputs \in Seq(F)
         /\ job.witness \in Seq(F)
         /\ job.coins \subseteq F
         /\ job.challenges \subseteq Party
         /\ job.supply \in Nat
         /\ job.repetition_count \in Nat
<1>1. job \in Job
  BY JobsAssumption DEF ProverTypeOK
<1>2. job.circuit \in Circuit
  BY <1>1 DEF Job
<1>3. job.statement \in Statement
  BY <1>1 DEF Job
<1> QED BY <1>1, <1>2, <1>3 DEF Job, Circuit, Statement

\* What a checked job guarantees about its circuit, witness and statement.
LEMMA CheckedJob ==
  ASSUME ProverTypeOK, NewError = "none"
  PROVE  /\ \A i \in DOMAIN job.circuit.nodes : \A x \in operands(job.circuit.nodes[i]) : x < i
         /\ Cardinality(Leaves(job.circuit.nodes, "SecretInput")) = Len(job.witness)
         /\ Cardinality(Leaves(job.circuit.nodes, "PublicInput")) = Len(job.statement.public_inputs)
         /\ \A k \in DOMAIN job.circuit.outputs : job.circuit.outputs[k] <= Len(job.circuit.nodes)
<1>1. job.circuit \in Circuit
  BY JobFacts
<1>2. statement_validate(job.statement, job.circuit) = "Ok"
      /\ Len(job.witness) = job.circuit.num_secret_inputs
  BY DEF NewError, statement_validate
<1>3. validate(job.circuit) = "Ok"
      /\ Len(job.statement.public_inputs) = job.circuit.num_public_inputs
  BY <1>2 DEF statement_validate
<1> QED BY <1>1, <1>2, <1>3, ValidCircuit

\* What the loop knows about the node it is at.
LEMMA NodeFacts ==
  ASSUME ProverInv, phase = "evaluating", out <= Len(job.circuit.nodes)
  PROVE  /\ out \in 1 .. Len(job.circuit.nodes)
         /\ node \in Node
         /\ values \in Seq(NodeVal) /\ reference \in Seq(F) /\ Len(reference) = Len(values)
         /\ IsGate(node) =>
              /\ va \in NodeVal /\ vb \in NodeVal
              /\ reference[node.a] \in F /\ reference[node.b] \in F
              /\ Reveal(va) = reference[node.a]
              /\ Reveal(vb) = reference[node.b]
<1>1. ProverTypeOK /\ NewError = "none"
  BY DEF ProverInv, Validated
<1>2. job.circuit.nodes \in Seq(Node)
  BY <1>1, JobFacts
<1>3. values \in Seq(NodeVal) /\ reference \in Seq(F) /\ Len(reference) = Len(values)
  BY DEF ProverInv, ProverTypeOK, CursorsCountLeaves
<1>4. out \in 1 .. Len(job.circuit.nodes)
  BY <1>2, <1>3 DEF out
<1>5. node \in Node
  BY <1>2, <1>4 DEF node
<1>6. ASSUME IsGate(node)
      PROVE  node.a \in DOMAIN values /\ node.b \in DOMAIN values
  <2>1. operands(node) = {node.a, node.b}
    BY <1>6 DEF operands
  <2>2. node.a < out /\ node.b < out
    BY <1>1, <1>2, <1>4, <2>1, CheckedJob DEF node
  <2>3. node.a \in NodeId /\ node.b \in NodeId
    BY <1>5, <1>6 DEF Node, IsGate
  <2> QED BY <1>3, <2>2, <2>3 DEF NodeId, out
<1>7. ASSUME IsGate(node)
      PROVE  /\ va \in NodeVal /\ vb \in NodeVal
             /\ reference[node.a] \in F /\ reference[node.b] \in F
             /\ Reveal(va) = reference[node.a] /\ Reveal(vb) = reference[node.b]
  BY <1>3, <1>6, <1>7 DEF ProverInv, SharesReconstruct, va, vb
<1> QED BY <1>3, <1>4, <1>5, <1>7

\* Pushing a value that reveals the reference value keeps everything reconstructing.
LEMMA PushFacts ==
  ASSUME ProverInv, phase = "evaluating", out <= Len(job.circuit.nodes),
         NEW val \in NodeVal, NEW ref \in F, Reveal(val) = ref, Push(val, ref)
  PROVE  /\ values' \in Seq(NodeVal) /\ reference' \in Seq(F)
         /\ Len(values') = Len(values) + 1
         /\ Len(reference') = Len(values')
         /\ Len(values') <= Len(job.circuit.nodes)
         /\ \A j \in DOMAIN values : values'[j] = values[j]
         /\ values'[out] = val
         /\ SharesReconstruct'
<1>1. /\ values \in Seq(NodeVal) /\ reference \in Seq(F) /\ Len(reference) = Len(values)
      /\ out \in 1 .. Len(job.circuit.nodes)
  BY NodeFacts
<1>2. values' = Append(values, val) /\ reference' = Append(reference, ref)
  BY DEF Push
<1>3. /\ values' \in Seq(NodeVal) /\ reference' \in Seq(F)
      /\ Len(values') = Len(values) + 1 /\ Len(reference') = Len(values')
      /\ \A j \in DOMAIN values : values'[j] = values[j] /\ reference'[j] = reference[j]
      /\ values'[out] = val /\ reference'[out] = ref
  BY <1>1, <1>2 DEF out
<1>4. DOMAIN values' = DOMAIN values \cup {out}
  BY <1>1, <1>2 DEF out
<1>5. SharesReconstruct'
  BY <1>3, <1>4 DEF ProverInv, SharesReconstruct, Reveal
<1> QED BY <1>1, <1>3, <1>5 DEF out

\* The part of the invariant that only speaks of the job and the broadcasts carries
\* over a step of the node loop that records at most one operation per party.
LEMMA SameInputs ==
  ASSUME ProverInv, phase = "evaluating", phase' = phase,
         UNCHANGED <<job, proof, error, supply, input_shares, commitments>>
  PROVE  /\ Validated'
         /\ InputsReconstruct'
<1>1. NewError' = NewError
  BY DEF NewError
<1> QED BY <1>1 DEF ProverInv, Validated, InputsReconstruct

\* An operation of a NodeVal step: same node, same share, a known triple.
LEMMA OpsUnchanged ==
  ASSUME ProverInv, UNCHANGED partyVars,
         values' \in Seq(NodeVal), Len(values') >= Len(values),
         \A j \in DOMAIN values : values'[j] = values[j]
  PROVE  BroadcastsInStep' /\ OperationsMatchBroadcasts'
<1>1. /\ local_operations' = local_operations /\ triple_shares' = triple_shares
      /\ opened_values' = opened_values
  BY DEF partyVars
<1>2. values \in Seq(NodeVal) /\ local_operations \in [Party -> Seq(LocalOperation)]
  BY DEF ProverInv, ProverTypeOK
<1>3. ASSUME NEW p \in Party, NEW i \in DOMAIN local_operations[p]
      PROVE  /\ local_operations[p][i].output \in DOMAIN values
             /\ local_operations[p][i].output <= Len(values')
  <2>1. local_operations[p][i] \in LocalOperation
    BY <1>2
  <2>2. local_operations[p][i].output \in NodeId
    BY <2>1 DEF LocalOperation
  <2>3. local_operations[p][i].output <= Len(values)
    BY DEF ProverInv, BroadcastsInStep
  <2> QED BY <1>2, <2>2, <2>3 DEF NodeId
<1>4. BroadcastsInStep'
  BY <1>1, <1>3 DEF ProverInv, BroadcastsInStep
<1>5. OperationsMatchBroadcasts'
  BY <1>1, <1>3 DEF ProverInv, OperationsMatchBroadcasts
<1> QED BY <1>4, <1>5

\* Appending to some parties an operation on the new node that carries the party's
\* new share and, if it is a Beaver multiplication, the masks the three parties now
\* broadcast for its triple; earlier broadcasts stay where they are.
LEMMA OpsAppended ==
  ASSUME ProverInv, phase = "evaluating",
         values' \in Seq(NodeVal), Len(values') = Len(values) + 1,
         \A j \in DOMAIN values : values'[j] = values[j],
         local_operations' \in [Party -> Seq(LocalOperation)],
         \A p \in Party : /\ Len(triple_shares'[p]) = Len(triple_shares'[0])
                          /\ Len(opened_values'[p]) = 2 * Len(triple_shares'[0]),
         Len(triple_shares'[0]) \in Nat, Len(triple_shares'[0]) >= Len(triple_shares[0]),
         \A p \in Party : \A k \in DOMAIN opened_values[p] :
           opened_values'[p][k] = opened_values[p][k],
         NEW op \in [Party -> LocalOperation],
         \A p \in Party : /\ op[p].output = out
                          /\ op[p].share = values'[out].share[p]
                          /\ op[p].kind = "BeaverMul" =>
                               /\ op[p].triple_index <= Len(triple_shares'[0])
                               /\ op[p].d = Sum3([q \in Party |-> opened_values'[q][2 * op[p].triple_index - 1]])
                               /\ op[p].e = Sum3([q \in Party |-> opened_values'[q][2 * op[p].triple_index]]),
         \A p \in Party : \/ local_operations'[p] = local_operations[p]
                          \/ local_operations'[p] = Append(local_operations[p], op[p])
  PROVE  BroadcastsInStep' /\ OperationsMatchBroadcasts'
<1> DEFINE
      Old(p, i) == /\ i \in DOMAIN local_operations[p]
                   /\ local_operations'[p][i] = local_operations[p][i]
      Faithful(o, p) ==
        /\ o.output <= Len(values')
        /\ o.share = values'[o.output].share[p]
        /\ o.kind = "BeaverMul" =>
             /\ o.triple_index <= Len(triple_shares'[0])
             /\ o.d = Sum3([q \in Party |-> opened_values'[q][2 * o.triple_index - 1]])
             /\ o.e = Sum3([q \in Party |-> opened_values'[q][2 * o.triple_index]])
<1>1. /\ values \in Seq(NodeVal) /\ local_operations \in [Party -> Seq(LocalOperation)]
      /\ triple_shares \in [Party -> Seq(TripleShare)] /\ opened_values \in [Party -> Seq(F)]
  BY DEF ProverInv, ProverTypeOK
<1>2. ASSUME NEW p \in Party, NEW i \in DOMAIN local_operations'[p]
      PROVE  Old(p, i) \/ local_operations'[p][i] = op[p]
  <2>1. local_operations[p] \in Seq(LocalOperation) /\ op[p] \in LocalOperation
    BY <1>1
  <2>2. CASE local_operations'[p] = local_operations[p]
    BY <2>2
  <2>3. CASE local_operations'[p] = Append(local_operations[p], op[p])
    <3>1. i \in 1 .. Len(local_operations[p]) + 1
      BY <2>1, <2>3
    <3>2. CASE i = Len(local_operations[p]) + 1
      BY <2>1, <2>3, <3>2
    <3>3. CASE i \in 1 .. Len(local_operations[p])
      BY <2>1, <2>3, <3>3
    <3>4. Len(local_operations[p]) \in Nat
      BY <2>1
    <3>5. i = Len(local_operations[p]) + 1 \/ i \in 1 .. Len(local_operations[p])
      BY <3>1, <3>4
    <3> QED BY <3>2, <3>3, <3>5
  <2>4. \/ local_operations'[p] = local_operations[p]
        \/ local_operations'[p] = Append(local_operations[p], op[p])
    OBVIOUS
  <2> QED BY <2>2, <2>3, <2>4
<1>3. ASSUME NEW p \in Party, NEW i \in DOMAIN local_operations[p]
      PROVE  Faithful(local_operations[p][i], p)
  <2> DEFINE o == local_operations[p][i]
  <2>1. o \in LocalOperation
    BY <1>1
  <2>2. /\ o.output <= Len(values)
        /\ o.kind = "BeaverMul" => o.triple_index <= Len(triple_shares[0])
    BY DEF ProverInv, BroadcastsInStep
  <2>3. /\ o.share = values[o.output].share[p]
        /\ o.kind = "BeaverMul" =>
             /\ o.d = Sum3([q \in Party |-> opened_values[q][2 * o.triple_index - 1]])
             /\ o.e = Sum3([q \in Party |-> opened_values[q][2 * o.triple_index]])
    BY DEF ProverInv, OperationsMatchBroadcasts
  <2>4. o.output \in NodeId
    BY <2>1 DEF LocalOperation
  <2>5. o.output \in DOMAIN values
    BY <1>1, <2>2, <2>4 DEF NodeId
  <2>6. o.output <= Len(values') /\ o.share = values'[o.output].share[p]
    <3>1. values'[o.output] = values[o.output]
      BY <2>5
    <3>2. Len(values) \in Nat /\ o.output \in Nat
      BY <1>1, <2>4 DEF NodeId
    <3>3. o.share = values'[o.output].share[p]
      BY <2>3, <3>1
    <3>4. o.output <= Len(values')
      <4> HIDE DEF o
      <4> QED BY <2>2, <3>2
    <3> QED BY <3>3, <3>4
  <2>7. ASSUME o.kind = "BeaverMul"
        PROVE  /\ o.triple_index <= Len(triple_shares'[0])
               /\ o.d = Sum3([q \in Party |-> opened_values'[q][2 * o.triple_index - 1]])
               /\ o.e = Sum3([q \in Party |-> opened_values'[q][2 * o.triple_index]])
    <3> DEFINE t == o.triple_index
    <3>1. t \in Nat \ {0}
      BY <2>1, <2>7 DEF LocalOperation, NodeId
    <3>2. t <= Len(triple_shares[0])
      BY <2>2, <2>7
    <3>3. Len(triple_shares[0]) \in Nat
      BY <1>1 DEF Party
    <3>4. ASSUME NEW q \in Party
          PROVE  /\ opened_values'[q][2 * t - 1] = opened_values[q][2 * t - 1]
                 /\ opened_values'[q][2 * t] = opened_values[q][2 * t]
      <4>1. Len(opened_values[q]) = 2 * Len(triple_shares[0])
        BY DEF ProverInv, BroadcastsInStep
      <4>2. opened_values[q] \in Seq(F)
        BY <1>1
      <4>3. 2 * t \in DOMAIN opened_values[q] /\ 2 * t - 1 \in DOMAIN opened_values[q]
        <5> HIDE DEF t
        <5> QED BY <3>1, <3>2, <3>3, <4>1, <4>2
      <4> QED BY <4>3
    <3>5. t <= Len(triple_shares'[0])
      <4> HIDE DEF t
      <4> QED BY <3>1, <3>2, <3>3
    <3> QED BY <2>3, <2>7, <3>4, <3>5
  <2> QED BY <2>6, <2>7
<1>4. ASSUME NEW p \in Party
      PROVE  Faithful(op[p], p)
  <2>1. op[p].output <= Len(values')
    <3>1. op[p].output = Len(values')
      BY DEF out
    <3>2. Len(values') \in Nat
      BY <1>1
    <3> QED BY <3>1, <3>2
  <2>2. op[p].share = values'[op[p].output].share[p]
    OBVIOUS
  <2> QED BY <2>1, <2>2
<1>5. ASSUME NEW p \in Party, NEW i \in DOMAIN local_operations'[p]
      PROVE  Faithful(local_operations'[p][i], p)
  <2>1. CASE Old(p, i)
    <3> HIDE DEF Faithful
    <3> QED BY <1>3, <2>1
  <2>2. CASE local_operations'[p][i] = op[p]
    <3> HIDE DEF Faithful
    <3> QED BY <1>4, <2>2
  <2> QED BY <1>2, <2>1, <2>2
<1>6. BroadcastsInStep'
  BY <1>5 DEF BroadcastsInStep
<1>7. OperationsMatchBroadcasts'
  BY <1>5 DEF OperationsMatchBroadcasts
<1> QED BY <1>6, <1>7

\* A step of the node loop that pushes the right value, moves the right cursor and
\* keeps the records in step preserves the invariant.
LEMMA NodeStep ==
  ASSUME ProverInv, phase = "evaluating", out <= Len(job.circuit.nodes),
         NEW val \in NodeVal, NEW ref \in F, Reveal(val) = ref, Push(val, ref),
         next_secret' = IF node.op = "SecretInput" THEN next_secret + 1 ELSE next_secret,
         next_public' = IF node.op = "PublicInput" THEN next_public + 1 ELSE next_public,
         local_operations' \in [Party -> Seq(LocalOperation)],
         triple_shares' \in [Party -> Seq(TripleShare)],
         opened_values' \in [Party -> Seq(F)],
         BroadcastsInStep' /\ OperationsMatchBroadcasts'
  PROVE  ProverInv'
<1> DEFINE ns == job.circuit.nodes
<1>1. UNCHANGED <<job, proof, phase, error, supply, input_shares, commitments>>
  BY DEF Push, inputVars
<1>2. /\ values' \in Seq(NodeVal) /\ reference' \in Seq(F)
      /\ Len(values') = Len(values) + 1
      /\ Len(reference') = Len(values')
      /\ Len(values') <= Len(job.circuit.nodes)
      /\ SharesReconstruct'
  BY PushFacts
<1>3. ns \in Seq(Node) /\ out \in 1 .. Len(ns)
  BY NodeFacts, JobFacts DEF ProverInv
<1>4. /\ next_secret = Cardinality(LeavesBefore(ns, "SecretInput", out))
      /\ next_public = Cardinality(LeavesBefore(ns, "PublicInput", out))
      /\ next_secret \in Nat /\ next_public \in Nat
  BY DEF ProverInv, CursorsCountLeaves, ProverTypeOK
<1>5. out' = out + 1
  BY <1>2 DEF out
<1>6. /\ next_secret' = Cardinality(LeavesBefore(ns, "SecretInput", out + 1))
      /\ next_secret' \in Nat
  BY <1>3, <1>4, LeavesBeforeStep DEF node
<1>7. /\ next_public' = Cardinality(LeavesBefore(ns, "PublicInput", out + 1))
      /\ next_public' \in Nat
  <2>1. node = ns[out]
    BY DEF node
  <2>2. CASE node.op = "PublicInput"
    <3>1. Cardinality(LeavesBefore(ns, "PublicInput", out + 1))
            = Cardinality(LeavesBefore(ns, "PublicInput", out)) + 1
      BY <1>3, <2>1, <2>2, LeavesBeforeStep
    <3>2. next_public' = next_public + 1
      BY <2>2
    <3> QED BY <1>4, <3>1, <3>2
  <2>3. CASE node.op # "PublicInput"
    BY <1>3, <1>4, <2>1, <2>3, LeavesBeforeStep
  <2> QED BY <2>2, <2>3
<1>8. CursorsCountLeaves'
  BY <1>1, <1>2, <1>5, <1>6, <1>7 DEF CursorsCountLeaves
<1>9. ProverTypeOK'
  BY <1>1, <1>2, <1>6, <1>7 DEF ProverInv, ProverTypeOK
<1>10. Validated' /\ InputsReconstruct'
  BY <1>1, SameInputs
<1> QED BY <1>2, <1>8, <1>9, <1>10 DEF ProverInv

\* A step of the node loop that records nothing.
LEMMA SilentNodeStep ==
  ASSUME ProverInv, phase = "evaluating", out <= Len(job.circuit.nodes),
         NEW val \in NodeVal, NEW ref \in F, Reveal(val) = ref, Push(val, ref),
         next_secret' = IF node.op = "SecretInput" THEN next_secret + 1 ELSE next_secret,
         next_public' = IF node.op = "PublicInput" THEN next_public + 1 ELSE next_public,
         UNCHANGED partyVars
  PROVE  ProverInv'
<1>1. /\ values' \in Seq(NodeVal) /\ Len(values') = Len(values) + 1
      /\ \A j \in DOMAIN values : values'[j] = values[j]
  BY PushFacts
<1>2. values \in Seq(NodeVal)
  BY DEF ProverInv, ProverTypeOK
<1>3. BroadcastsInStep' /\ OperationsMatchBroadcasts'
  BY <1>1, <1>2, OpsUnchanged
<1>4. /\ local_operations' \in [Party -> Seq(LocalOperation)]
      /\ triple_shares' \in [Party -> Seq(TripleShare)]
      /\ opened_values' \in [Party -> Seq(F)]
  BY DEF ProverInv, ProverTypeOK, partyVars
<1> QED BY <1>3, <1>4, NodeStep

\* A secret input node takes its sharing from the inputs (prover.rs commit_repetition).
LEMMA SecretInputStep ==
  ASSUME ProverInv, SecretInputNode
  PROVE  ProverInv'
<1> DEFINE ns == job.circuit.nodes
           k == next_secret + 1
           s == [p \in Party |-> input_shares[p][k]]
<1>1. phase = "evaluating" /\ out <= Len(ns) /\ node.op = "SecretInput"
  BY DEF SecretInputNode, AtNode
<1>2. ProverTypeOK /\ NewError = "none"
  BY <1>1 DEF ProverInv, Validated
<1>3. ns \in Seq(Node) /\ out \in 1 .. Len(ns) /\ job.witness \in Seq(F)
  BY <1>1, <1>2, NodeFacts, JobFacts
<1>4. next_secret \in Nat /\ next_secret < Len(job.witness)
  <2>1. next_secret = Cardinality(LeavesBefore(ns, "SecretInput", out))
    BY <1>1, <1>2 DEF ProverInv, CursorsCountLeaves
  <2>2. ns[out].op = "SecretInput"
    BY <1>1 DEF node
  <2>3. Cardinality(Leaves(ns, "SecretInput")) = Len(job.witness)
    BY <1>2, CheckedJob
  <2> HIDE DEF ns
  <2>4. /\ Cardinality(LeavesBefore(ns, "SecretInput", out)) \in Nat
        /\ Cardinality(LeavesBefore(ns, "SecretInput", out)) < Cardinality(Leaves(ns, "SecretInput"))
    BY <1>3, <2>2, LeavesBeforeStep
  <2> QED BY <2>1, <2>3, <2>4
<1>5. k \in 1 .. Len(job.witness)
  BY <1>3, <1>4
<1>6. /\ input_shares \in [Party -> Seq(F)]
      /\ \A p \in Party : Len(input_shares[p]) = Len(job.witness)
      /\ \A i \in DOMAIN input_shares[0] :
           Sum3([p \in Party |-> input_shares[p][i]]) = job.witness[i]
  BY <1>1 DEF ProverInv, ProverTypeOK, InputsReconstruct
<1> HIDE DEF k
<1>7. \A p \in Party : k \in DOMAIN input_shares[p] /\ input_shares[p][k] \in F
  BY <1>5, <1>6
<1>8. s \in Sharing
  BY <1>7 DEF Sharing
<1>9. Sum3(s) = job.witness[k] /\ job.witness[k] \in F
  <2>1. k \in DOMAIN input_shares[0]
    BY <1>7 DEF Party
  <2>2. Sum3(s) = job.witness[k]
    BY <1>6, <2>1
  <2>3. job.witness[k] \in F
    BY <1>3, <1>5
  <2> QED BY <2>2, <2>3
<1>10. Shared(s) \in NodeVal /\ Reveal(Shared(s)) = job.witness[k]
  <2> HIDE DEF s
  <2> QED BY <1>8, <1>9 DEF Shared, NodeVal, Reveal
<1>11. Push(Shared(s), job.witness[k])
  BY DEF SecretInputNode, k
<1>12. /\ next_secret' = IF node.op = "SecretInput" THEN next_secret + 1 ELSE next_secret
       /\ next_public' = IF node.op = "PublicInput" THEN next_public + 1 ELSE next_public
       /\ UNCHANGED partyVars
  BY <1>1 DEF SecretInputNode
<1> HIDE DEF s
<1> QED BY <1>1, <1>9, <1>10, <1>11, <1>12, SilentNodeStep

\* A value every party knows reveals itself.
LEMMA PublicValue ==
  ASSUME NEW v \in F
  PROVE  Public(v) \in NodeVal /\ Reveal(Public(v)) = v
BY DEF Public, NodeVal, Reveal, Sharing, Party

\* A public input node is public and known to every party.
LEMMA PublicInputStep ==
  ASSUME ProverInv, PublicInputNode
  PROVE  ProverInv'
<1> DEFINE ns == job.circuit.nodes
           v == job.statement.public_inputs[next_public + 1]
<1>1. phase = "evaluating" /\ out <= Len(ns) /\ node.op = "PublicInput"
  BY DEF PublicInputNode, AtNode
<1>2. ProverTypeOK /\ NewError = "none"
  BY <1>1 DEF ProverInv, Validated
<1>3. ns \in Seq(Node) /\ out \in 1 .. Len(ns) /\ job.statement.public_inputs \in Seq(F)
  BY <1>1, <1>2, NodeFacts, JobFacts
<1>4. next_public \in Nat /\ next_public < Len(job.statement.public_inputs)
  <2>1. next_public = Cardinality(LeavesBefore(ns, "PublicInput", out))
    BY <1>1, <1>2 DEF ProverInv, CursorsCountLeaves
  <2>2. ns[out].op = "PublicInput"
    BY <1>1 DEF node
  <2>3. Cardinality(Leaves(ns, "PublicInput")) = Len(job.statement.public_inputs)
    BY <1>2, CheckedJob
  <2> HIDE DEF ns
  <2>4. /\ Cardinality(LeavesBefore(ns, "PublicInput", out)) \in Nat
        /\ Cardinality(LeavesBefore(ns, "PublicInput", out)) < Cardinality(Leaves(ns, "PublicInput"))
    BY <1>3, <2>2, LeavesBeforeStep
  <2> QED BY <2>1, <2>3, <2>4
<1>5. v \in F
  BY <1>3, <1>4
<1>6. /\ Push(Public(v), v)
      /\ next_secret' = IF node.op = "SecretInput" THEN next_secret + 1 ELSE next_secret
      /\ next_public' = IF node.op = "PublicInput" THEN next_public + 1 ELSE next_public
      /\ UNCHANGED partyVars
  BY <1>1 DEF PublicInputNode
<1> HIDE DEF v
<1> QED BY <1>1, <1>5, <1>6, PublicValue, SilentNodeStep

\* A constant node is public and known to every party.
LEMMA ConstantStep ==
  ASSUME ProverInv, ConstantNode
  PROVE  ProverInv'
<1>1. phase = "evaluating" /\ out <= Len(job.circuit.nodes) /\ node.op = "Constant"
  BY DEF ConstantNode, AtNode
<1>2. node.value \in F
  <2>1. node \in Node
    BY <1>1, NodeFacts
  <2> QED BY <1>1, <2>1 DEF Node
<1>3. /\ Push(Public(node.value), node.value)
      /\ next_secret' = IF node.op = "SecretInput" THEN next_secret + 1 ELSE next_secret
      /\ next_public' = IF node.op = "PublicInput" THEN next_public + 1 ELSE next_public
      /\ UNCHANGED partyVars
  BY <1>1 DEF ConstantNode, cursorVars
<1> QED BY <1>1, <1>2, <1>3, PublicValue, SilentNodeStep

\* A step of the node loop at a gate that records an operation with some parties
\* and uses no triple.
LEMMA RecordingNodeStep ==
  ASSUME ProverInv, phase = "evaluating", out <= Len(job.circuit.nodes), IsGate(node),
         NEW val \in NodeVal, NEW ref \in F, Reveal(val) = ref, Push(val, ref),
         UNCHANGED <<cursorVars, triple_shares, opened_values>>,
         NEW op \in [Party -> LocalOperation],
         \A p \in Party : /\ op[p].kind # "BeaverMul"
                          /\ op[p].output = out
                          /\ op[p].share = val.share[p],
         local_operations' \in [Party -> Seq(LocalOperation)],
         \A p \in Party : \/ local_operations'[p] = local_operations[p]
                          \/ local_operations'[p] = Append(local_operations[p], op[p])
  PROVE  ProverInv'
<1>1. /\ values' \in Seq(NodeVal) /\ Len(values') = Len(values) + 1
      /\ \A j \in DOMAIN values : values'[j] = values[j]
      /\ values'[out] = val
  BY PushFacts
<1>2. /\ triple_shares \in [Party -> Seq(TripleShare)] /\ opened_values \in [Party -> Seq(F)]
      /\ triple_shares' = triple_shares /\ opened_values' = opened_values
  BY DEF ProverInv, ProverTypeOK
<1>3. /\ \A p \in Party : /\ Len(triple_shares'[p]) = Len(triple_shares'[0])
                          /\ Len(opened_values'[p]) = 2 * Len(triple_shares'[0])
      /\ \A p \in Party : \A k \in DOMAIN opened_values[p] :
           opened_values'[p][k] = opened_values[p][k]
  BY <1>2 DEF ProverInv, BroadcastsInStep
<1>4. Len(triple_shares'[0]) \in Nat /\ Len(triple_shares'[0]) >= Len(triple_shares[0])
  BY <1>2 DEF Party
<1>5. \A p \in Party : /\ op[p].output = out
                       /\ op[p].share = values'[out].share[p]
                       /\ op[p].kind # "BeaverMul"
  BY <1>1
<1>6. BroadcastsInStep' /\ OperationsMatchBroadcasts'
  BY <1>1, <1>3, <1>4, <1>5, OpsAppended
<1>7. /\ next_secret' = IF node.op = "SecretInput" THEN next_secret + 1 ELSE next_secret
      /\ next_public' = IF node.op = "PublicInput" THEN next_public + 1 ELSE next_public
  BY DEF IsGate, cursorVars
<1> QED BY <1>2, <1>6, <1>7, NodeStep

\* The parts of a NodeVal.
LEMMA NodeValFacts ==
  ASSUME NEW v \in NodeVal
  PROVE  /\ v.shared \in BOOLEAN
         /\ v.share \in Sharing
         /\ public_part(v) \in F
         /\ v.shared => Reveal(v) = Sum3(v.share)
         /\ ~v.shared => Reveal(v) = public_part(v)
<1>1. v.shared \in BOOLEAN /\ v.share \in Sharing
  BY DEF NodeVal
<1>2. v.share[0] \in F
  BY <1>1, Sum3Type
<1> QED BY <1>1, <1>2, FieldClosed DEF public_part, Reveal

\* A shared NodeVal reveals what its shares sum to.
LEMMA SharedVal ==
  ASSUME NEW s \in Sharing
  PROVE  /\ Shared(s) \in NodeVal
         /\ Shared(s).share = s
         /\ Reveal(Shared(s)) = Sum3(s)
BY DEF Shared, NodeVal, Reveal

\* The operands of the gate the loop is at.
LEMMA GateFacts ==
  ASSUME ProverInv, AtNode("Add") \/ AtNode("Mul")
  PROVE  /\ phase = "evaluating" /\ out <= Len(job.circuit.nodes) /\ IsGate(node)
         /\ out \in NodeId
         /\ va \in NodeVal /\ vb \in NodeVal
         /\ RefAdd = Plus(Reveal(va), Reveal(vb)) /\ RefAdd \in F
         /\ RefMul = Times(Reveal(va), Reveal(vb)) /\ RefMul \in F
<1>1. phase = "evaluating" /\ out <= Len(job.circuit.nodes) /\ IsGate(node)
  BY DEF AtNode, IsGate
<1>2. /\ out \in 1 .. Len(job.circuit.nodes)
      /\ va \in NodeVal /\ vb \in NodeVal
      /\ reference[node.a] \in F /\ reference[node.b] \in F
      /\ Reveal(va) = reference[node.a]
      /\ Reveal(vb) = reference[node.b]
  BY <1>1, NodeFacts
<1>3. out \in NodeId
  BY <1>2 DEF NodeId
<1> QED BY <1>1, <1>2, <1>3, FieldClosed DEF RefAdd, RefMul

\* The sum of two public nodes is public; no party records anything.
LEMMA AddPublicStep ==
  ASSUME ProverInv, AddPublic
  PROVE  ProverInv'
<1> DEFINE v == Plus(public_part(va), public_part(vb))
<1>1. AtNode("Add") /\ ~va.shared /\ ~vb.shared
  BY DEF AddPublic
<1>2. v \in F /\ RefAdd = v
  BY <1>1, GateFacts, NodeValFacts
<1>3. Public(v) \in NodeVal /\ Reveal(Public(v)) = RefAdd
  BY <1>2, PublicValue
<1>4. /\ Push(Public(v), RefAdd)
      /\ UNCHANGED partyVars
      /\ next_secret' = IF node.op = "SecretInput" THEN next_secret + 1 ELSE next_secret
      /\ next_public' = IF node.op = "PublicInput" THEN next_public + 1 ELSE next_public
  BY <1>1 DEF AddPublic, cursorVars, AtNode
<1> HIDE DEF v
<1> QED BY <1>1, <1>2, <1>3, <1>4, GateFacts, SilentNodeStep

\* The product of two public nodes is public (prover.rs mul_gate).
LEMMA MulPublicStep ==
  ASSUME ProverInv, MulPublic
  PROVE  ProverInv'
<1> DEFINE v == Times(public_part(va), public_part(vb))
<1>1. AtNode("Mul") /\ ~va.shared /\ ~vb.shared
  BY DEF MulPublic
<1>2. v \in F /\ RefMul = v
  BY <1>1, GateFacts, NodeValFacts
<1>3. Public(v) \in NodeVal /\ Reveal(Public(v)) = RefMul
  BY <1>2, PublicValue
<1>4. /\ Push(Public(v), RefMul)
      /\ UNCHANGED partyVars
      /\ next_secret' = IF node.op = "SecretInput" THEN next_secret + 1 ELSE next_secret
      /\ next_public' = IF node.op = "PublicInput" THEN next_public + 1 ELSE next_public
  BY <1>1 DEF MulPublic, cursorVars, AtNode
<1> HIDE DEF v
<1> QED BY <1>1, <1>2, <1>3, <1>4, GateFacts, SilentNodeStep

\* The sum of two shared nodes is the sum of the sharings, and is recorded.
LEMMA AddSharedStep ==
  ASSUME ProverInv, AddShared
  PROVE  ProverInv'
<1> DEFINE sum == [p \in Party |-> Plus(va.share[p], vb.share[p])]
           op == [p \in Party |-> AddOp(out, sum[p])]
<1>1. AtNode("Add") /\ va.shared /\ vb.shared
  BY DEF AddShared
<1>2. va.share \in Sharing /\ vb.share \in Sharing /\ out \in NodeId
  BY <1>1, GateFacts, NodeValFacts
<1>3. sum \in Sharing
  BY <1>2, FieldClosed DEF Sharing
<1>4. Sum3(sum) = RefAdd
  BY <1>1, <1>2, GateFacts, NodeValFacts, Sum3Plus
<1>5. /\ Push(Shared(sum), RefAdd)
      /\ local_operations' = [p \in Party |-> Append(local_operations[p], op[p])]
      /\ UNCHANGED <<cursorVars, triple_shares, opened_values>>
  BY DEF AddShared, RecordOps, operand
<1> HIDE DEF sum
<1>6. op \in [Party -> LocalOperation]
  BY <1>2, <1>3 DEF AddOp, LocalOperation, Sharing
<1>7. \A p \in Party : op[p].kind # "BeaverMul" /\ op[p].output = out /\ op[p].share = sum[p]
  BY DEF AddOp
<1> HIDE DEF op
<1>8. local_operations' \in [Party -> Seq(LocalOperation)]
  BY <1>5, <1>6 DEF ProverInv, ProverTypeOK
<1>9. \A p \in Party : local_operations'[p] = Append(local_operations[p], op[p])
  BY <1>5
<1> QED BY <1>1, <1>3, <1>4, <1>5, <1>6, <1>7, <1>8, <1>9, GateFacts, SharedVal, RecordingNodeStep

\* With one shared operand s and one public value v, sum and product are those of
\* what s reconstructs to and v.
LEMMA MixedOperands ==
  ASSUME ProverInv, AtNode("Add") \/ AtNode("Mul"), va.shared # vb.shared,
         NEW s, s = IF va.shared THEN va ELSE vb,
         NEW v, v = IF va.shared THEN public_part(vb) ELSE public_part(va)
  PROVE  /\ s.share \in Sharing
         /\ v \in F
         /\ RefAdd = Plus(Sum3(s.share), v)
         /\ RefMul = Times(Sum3(s.share), v)
<1>1. /\ va \in NodeVal /\ vb \in NodeVal
      /\ RefAdd = Plus(Reveal(va), Reveal(vb))
      /\ RefMul = Times(Reveal(va), Reveal(vb))
  BY GateFacts
<1>2. CASE va.shared
  <2>1. ~vb.shared /\ s = va /\ v = public_part(vb)
    BY <1>1, <1>2, NodeValFacts
  <2> QED BY <1>1, <1>2, <2>1, NodeValFacts
<1>3. CASE ~va.shared
  <2>1. vb.shared /\ s = vb /\ v = public_part(va)
    BY <1>1, <1>3, NodeValFacts
  <2>2. /\ s.share \in Sharing /\ v \in F /\ Sum3(s.share) \in F
        /\ Reveal(va) = v /\ Reveal(vb) = Sum3(s.share)
    BY <1>1, <1>3, <2>1, NodeValFacts, Sum3Type
  <2> QED BY <1>1, <2>2, PlusGroup, TimesMonoid
<1> QED BY <1>2, <1>3

\* A public value added to a shared node enters party 0's share only.
LEMMA AddMixedStep ==
  ASSUME ProverInv, AddMixed
  PROVE  ProverInv'
<1> DEFINE s == IF va.shared THEN va ELSE vb
           v == IF va.shared THEN public_part(vb) ELSE public_part(va)
           sum == [p \in Party |-> Absorb(p, s.share[p], v)]
           op == [p \in Party |-> AddOp(out, sum[p])]
<1>1. AtNode("Add") /\ va.shared # vb.shared
  BY DEF AddMixed
<1>2. s.share \in Sharing /\ v \in F /\ RefAdd = Plus(Sum3(s.share), v)
  BY <1>1, MixedOperands
<1>3. /\ Push(Shared(sum), RefAdd)
      /\ local_operations' =
           [local_operations EXCEPT ![0] = Append(local_operations[0], op[0])]
      /\ UNCHANGED <<cursorVars, triple_shares, opened_values>>
  BY DEF AddMixed, operand, Party
<1> HIDE DEF s, v
<1>4. sum \in Sharing /\ Sum3(sum) = RefAdd
  BY <1>2, Sum3Absorb
<1>5. out \in NodeId /\ local_operations \in [Party -> Seq(LocalOperation)]
  BY <1>1, GateFacts DEF ProverInv, ProverTypeOK
<1> HIDE DEF sum
<1>6. op \in [Party -> LocalOperation]
  BY <1>4, <1>5 DEF AddOp, LocalOperation, Sharing
<1>7. \A p \in Party : op[p].kind # "BeaverMul" /\ op[p].output = out /\ op[p].share = sum[p]
  BY DEF AddOp
<1> HIDE DEF op
<1>8. Append(local_operations[0], op[0]) \in Seq(LocalOperation)
  BY <1>5, <1>6 DEF Party
<1>9. local_operations' \in [Party -> Seq(LocalOperation)]
  BY <1>3, <1>5, <1>8
<1>10. \A p \in Party : \/ local_operations'[p] = local_operations[p]
                        \/ local_operations'[p] = Append(local_operations[p], op[p])
  BY <1>3, <1>5
<1> QED BY <1>1, <1>3, <1>4, <1>6, <1>7, <1>9, <1>10, GateFacts, SharedVal, RecordingNodeStep

\* A shared node times a public value is shared, each share multiplied.
LEMMA MulMixedStep ==
  ASSUME ProverInv, MulMixed
  PROVE  ProverInv'
<1> DEFINE s == IF va.shared THEN va ELSE vb
           v == IF va.shared THEN public_part(vb) ELSE public_part(va)
           product == [p \in Party |-> Times(s.share[p], v)]
           op == [p \in Party |-> MulPublicOp(out, v, product[p])]
<1>1. AtNode("Mul") /\ va.shared # vb.shared
  BY DEF MulMixed
<1>2. s.share \in Sharing /\ v \in F /\ RefMul = Times(Sum3(s.share), v)
  BY <1>1, MixedOperands
<1>3. /\ Push(Shared(product), RefMul)
      /\ local_operations' = [p \in Party |-> Append(local_operations[p], op[p])]
      /\ UNCHANGED <<cursorVars, triple_shares, opened_values>>
  BY DEF MulMixed, RecordOps, operand
<1> HIDE DEF s, v
<1>4. Sum3(product) = RefMul
  BY <1>2, Sum3Times
<1>5. product \in Sharing
  BY <1>2, FieldClosed DEF Sharing
<1>6. out \in NodeId /\ local_operations \in [Party -> Seq(LocalOperation)]
  BY <1>1, GateFacts DEF ProverInv, ProverTypeOK
<1> HIDE DEF product
<1>7. op \in [Party -> LocalOperation]
  BY <1>2, <1>5, <1>6 DEF MulPublicOp, LocalOperation, Sharing
<1>8. \A p \in Party : op[p].kind # "BeaverMul" /\ op[p].output = out /\ op[p].share = product[p]
  BY DEF MulPublicOp
<1> HIDE DEF op
<1>9. /\ local_operations' \in [Party -> Seq(LocalOperation)]
      /\ \A p \in Party : local_operations'[p] = Append(local_operations[p], op[p])
  BY <1>3, <1>6, <1>7
<1> QED BY <1>1, <1>3, <1>4, <1>5, <1>7, <1>8, <1>9, GateFacts, SharedVal, RecordingNodeStep

\* What share3 returns sums to the value shared.
LEMMA Share3Facts ==
  ASSUME ProverTypeOK, NEW v \in F, NEW s \in share3(v)
  PROVE  s \in Sharing /\ Sum3(s) = v
<1>1. job.coins \subseteq F
  BY JobFacts
<1>2. PICK s0 \in job.coins, s1 \in job.coins :
        s = [p \in Party |-> IF p = 0 THEN s0 ELSE IF p = 1 THEN s1 ELSE Minus(Minus(v, s0), s1)]
  BY DEF share3
<1>3. s0 \in F /\ s1 \in F
  BY <1>1
<1>4. Minus(Minus(v, s0), s1) \in F
  BY <1>3, MinusPlus
<1>5. s \in Sharing
  BY <1>2, <1>3, <1>4 DEF Sharing
<1>6. s[0] = s0 /\ s[1] = s1 /\ s[2] = Minus(Minus(v, s0), s1)
  BY <1>2 DEF Party
<1>7. Sum3(s) = v
  BY <1>3, <1>5, <1>6, Share3Sound
<1> QED BY <1>5, <1>7

\* Appending a triple share and two broadcasts with every party keeps the broadcasts
\* at the positions of their triple.
LEMMA BroadcastAppended ==
  ASSUME ProverInv, NEW dp \in Sharing, NEW ep \in Sharing,
         NEW triple \in [Party -> TripleShare],
         \A p \in Party : triple_shares'[p] = Append(triple_shares[p], triple[p]),
         \A p \in Party : opened_values'[p] = opened_values[p] \o <<dp[p], ep[p]>>
  PROVE  /\ Len(triple_shares[0]) + 1 \in NodeId
         /\ \A p \in Party : /\ triple_shares'[p] \in Seq(TripleShare)
                             /\ opened_values'[p] \in Seq(F)
         /\ Len(triple_shares'[0]) = Len(triple_shares[0]) + 1
         /\ \A p \in Party : /\ Len(triple_shares'[p]) = Len(triple_shares'[0])
                             /\ Len(opened_values'[p]) = 2 * Len(triple_shares'[0])
         /\ \A p \in Party : \A k \in DOMAIN opened_values[p] :
              opened_values'[p][k] = opened_values[p][k]
         /\ \A q \in Party : opened_values'[q][2 * (Len(triple_shares[0]) + 1) - 1] = dp[q]
         /\ \A q \in Party : opened_values'[q][2 * (Len(triple_shares[0]) + 1)] = ep[q]
<1> DEFINE n == Len(triple_shares[0])
           t == n + 1
<1>1. /\ triple_shares \in [Party -> Seq(TripleShare)] /\ opened_values \in [Party -> Seq(F)]
      /\ 0 \in Party
  BY DEF ProverInv, ProverTypeOK, Party
<1>2. n \in Nat
  BY <1>1
<1>3. \A p \in Party : Len(triple_shares[p]) = n /\ Len(opened_values[p]) = 2 * n
  BY DEF ProverInv, BroadcastsInStep
<1>4. t \in NodeId
  BY <1>2 DEF NodeId
<1>5. ASSUME NEW p \in Party
      PROVE  triple_shares'[p] \in Seq(TripleShare) /\ Len(triple_shares'[p]) = t
  <2>1. triple_shares[p] \in Seq(TripleShare) /\ triple_shares'[p] = Append(triple_shares[p], triple[p])
    BY <1>1
  <2>2. triple_shares'[p] \in Seq(TripleShare) /\ Len(triple_shares'[p]) = Len(triple_shares[p]) + 1
    BY <2>1
  <2> QED BY <1>3, <2>2
<1>6. ASSUME NEW p \in Party
      PROVE  /\ opened_values'[p] \in Seq(F)
             /\ Len(opened_values'[p]) = 2 * t
             /\ \A k \in DOMAIN opened_values[p] : opened_values'[p][k] = opened_values[p][k]
             /\ opened_values'[p][2 * t - 1] = dp[p]
             /\ opened_values'[p][2 * t] = ep[p]
  <2> DEFINE o == opened_values[p]
  <2>1. o \in Seq(F) /\ dp[p] \in F /\ ep[p] \in F
    BY <1>1 DEF Sharing
  <2>2. Len(o) = 2 * n
    BY <1>3
  <2>3. opened_values'[p] = o \o <<dp[p], ep[p]>>
    OBVIOUS
  <2>4. 2 * t = Len(o) + 2 /\ 2 * t - 1 = Len(o) + 1
    BY <1>2, <2>2
  <2> HIDE DEF o
  <2> DEFINE w == o \o <<dp[p], ep[p]>>
  <2>5. /\ w \in Seq(F)
        /\ Len(w) = Len(o) + 2
        /\ \A k \in DOMAIN o : w[k] = o[k]
        /\ w[Len(o) + 1] = dp[p]
        /\ w[Len(o) + 2] = ep[p]
    BY <2>1, ConcatPair
  <2> HIDE DEF w
  <2> QED BY <2>3, <2>4, <2>5 DEF o, w
<1> QED BY <1>1, <1>4, <1>5, <1>6

\* The product of two shared nodes by a Beaver triple reconstructs to the product.
LEMMA BeaverMulStep ==
  ASSUME ProverInv, NEW ta \in Sharing, NEW tb \in Sharing, NEW tc \in Sharing,
         Sum3(tc) = Times(Sum3(ta), Sum3(tb)), BeaverMul(ta, tb, tc)
  PROVE  ProverInv'
<1> DEFINE x == va.share
           y == vb.share
           dp == [p \in Party |-> Minus(x[p], ta[p])]
           ep == [p \in Party |-> Minus(y[p], tb[p])]
           d == Sum3(dp)
           e == Sum3(ep)
           z == [p \in Party |-> beaver_share(p, ta[p], tb[p], tc[p], d, e)]
           t == Len(triple_shares[0]) + 1
           op == [p \in Party |-> BeaverMulOp(out, t, d, e, z[p])]
           triple == [p \in Party |-> [a |-> ta[p], b |-> tb[p], c |-> tc[p]]]
<1>1. AtNode("Mul") /\ va.shared /\ vb.shared
  BY DEF BeaverMul
<1>2. x \in Sharing /\ y \in Sharing /\ out \in NodeId /\ RefMul = Times(Sum3(x), Sum3(y))
  BY <1>1, GateFacts, NodeValFacts
<1>3. /\ Push(Shared(z), RefMul)
      /\ local_operations' = [p \in Party |-> Append(local_operations[p], op[p])]
      /\ triple_shares' = [p \in Party |-> Append(triple_shares[p], triple[p])]
      /\ opened_values' = [p \in Party |-> opened_values[p] \o <<dp[p], ep[p]>>]
      /\ UNCHANGED cursorVars
  BY DEF BeaverMul, RecordOps, operand, Broadcast
<1> HIDE DEF x, y
<1>4. dp \in Sharing /\ ep \in Sharing
  BY <1>2, MinusPlus DEF Sharing
<1>5. d \in F /\ e \in F
  BY <1>4, Sum3Type
<1>6. Sum3(z) = RefMul
  <2>1. z = [p \in Party |->
               Absorb(p, Plus(Plus(tc[p], Times(d, tb[p])), Times(e, ta[p])), Times(d, e))]
    BY DEF beaver_share
  <2>2. ASSUME NEW dd \in F, dd = d, NEW ee \in F, ee = e
        PROVE  Sum3([p \in Party |->
                       Absorb(p, Plus(Plus(tc[p], Times(dd, tb[p])), Times(ee, ta[p])), Times(dd, ee))])
                 = Times(Sum3(x), Sum3(y))
    BY <1>2, <2>2, BeaverSound
  <2> QED BY <1>2, <1>5, <2>1, <2>2
<1> HIDE DEF d, e
<1>7. z \in Sharing
  <2>1. ASSUME NEW p \in Party
        PROVE  beaver_share(p, ta[p], tb[p], tc[p], d, e) \in F
    <3>1. ta[p] \in F /\ tb[p] \in F /\ tc[p] \in F
      BY DEF Sharing
    <3> QED BY <1>5, <3>1, FieldClosed DEF beaver_share, Absorb
  <2> QED BY <2>1 DEF Sharing
<1>8. triple \in [Party -> TripleShare]
  BY DEF Sharing, TripleShare
<1> HIDE DEF dp, ep, triple, z
<1>9. /\ t \in NodeId
      /\ \A p \in Party : triple_shares'[p] \in Seq(TripleShare) /\ opened_values'[p] \in Seq(F)
      /\ Len(triple_shares'[0]) = t
      /\ \A p \in Party : /\ Len(triple_shares'[p]) = Len(triple_shares'[0])
                          /\ Len(opened_values'[p]) = 2 * Len(triple_shares'[0])
      /\ \A p \in Party : \A k \in DOMAIN opened_values[p] :
           opened_values'[p][k] = opened_values[p][k]
      /\ \A q \in Party : opened_values'[q][2 * t - 1] = dp[q]
      /\ \A q \in Party : opened_values'[q][2 * t] = ep[q]
  <2>1. /\ \A p \in Party : triple_shares'[p] = Append(triple_shares[p], triple[p])
        /\ \A p \in Party : opened_values'[p] = opened_values[p] \o <<dp[p], ep[p]>>
    BY <1>3
  <2> QED BY <1>4, <1>8, <2>1, BroadcastAppended
<1>10. op \in [Party -> LocalOperation]
  <2> HIDE DEF t
  <2>1. \A p \in Party : z[p] \in F
    BY <1>7 DEF Sharing
  <2> QED BY <1>2, <1>5, <1>9, <2>1 DEF BeaverMulOp, LocalOperation
<1>11. Len(triple_shares'[0]) \in Nat /\ Len(triple_shares'[0]) >= Len(triple_shares[0])
  <2>1. Len(triple_shares[0]) \in Nat
    BY DEF ProverInv, ProverTypeOK, Party
  <2> QED BY <1>9, <2>1
<1>12. /\ values' \in Seq(NodeVal) /\ Len(values') = Len(values) + 1
       /\ \A j \in DOMAIN values : values'[j] = values[j]
       /\ values'[out] = Shared(z)
  BY <1>1, <1>3, <1>6, <1>7, GateFacts, SharedVal, PushFacts
<1>13. ASSUME NEW p \in Party
       PROVE  /\ op[p].output = out
              /\ op[p].share = values'[out].share[p]
              /\ op[p].triple_index <= Len(triple_shares'[0])
              /\ op[p].d = Sum3([q \in Party |-> opened_values'[q][2 * op[p].triple_index - 1]])
              /\ op[p].e = Sum3([q \in Party |-> opened_values'[q][2 * op[p].triple_index]])
  <2>1. /\ op[p].output = out /\ op[p].share = z[p] /\ op[p].triple_index = t
        /\ op[p].d = d /\ op[p].e = e
    BY DEF BeaverMulOp
  <2>2. values'[out].share[p] = z[p]
    BY <1>7, <1>12, SharedVal
  <2>3. t <= Len(triple_shares'[0])
    BY <1>9, <1>11
  <2> HIDE DEF op, t
  <2>4. /\ op[p].d = Sum3([q \in Party |-> opened_values'[q][2 * op[p].triple_index - 1]])
        /\ op[p].e = Sum3([q \in Party |-> opened_values'[q][2 * op[p].triple_index]])
    BY <1>9, <2>1 DEF d, e, Sum3, Party
  <2> QED BY <2>1, <2>2, <2>3, <2>4
<1> HIDE DEF op, t
<1>14. local_operations' \in [Party -> Seq(LocalOperation)]
  BY <1>3, <1>10 DEF ProverInv, ProverTypeOK
<1>15. \A p \in Party : local_operations'[p] = Append(local_operations[p], op[p])
  BY <1>3
<1>16. /\ triple_shares' \in [Party -> Seq(TripleShare)]
       /\ opened_values' \in [Party -> Seq(F)]
  BY <1>3, <1>9
<1>17. BroadcastsInStep' /\ OperationsMatchBroadcasts'
  BY <1>1, <1>9, <1>10, <1>11, <1>12, <1>13, <1>14, <1>15, GateFacts, OpsAppended, ZenonT(60)
<1>18. /\ next_secret' = IF node.op = "SecretInput" THEN next_secret + 1 ELSE next_secret
       /\ next_public' = IF node.op = "PublicInput" THEN next_public + 1 ELSE next_public
  BY <1>1, <1>3 DEF cursorVars, AtNode
<1> QED BY <1>1, <1>3, <1>6, <1>7, <1>14, <1>16, <1>17, <1>18, GateFacts, SharedVal, NodeStep

\* A multiplication of shared nodes, with the triple drawn for it.
LEMMA MulSharedStep ==
  ASSUME ProverInv, MulShared
  PROVE  ProverInv'
<1>1. ProverTypeOK /\ job.coins \subseteq F
  BY JobFacts DEF ProverInv
<1>2. PICK a \in job.coins, b \in job.coins :
        \E ta \in share3(a), tb \in share3(b), tc \in share3(Times(a, b)) : BeaverMul(ta, tb, tc)
  BY DEF MulShared
<1>3. PICK ta \in share3(a), tb \in share3(b), tc \in share3(Times(a, b)) : BeaverMul(ta, tb, tc)
  BY <1>2
<1>4. a \in F /\ b \in F /\ Times(a, b) \in F
  BY <1>1, FieldClosed
<1>5. /\ ta \in Sharing /\ tb \in Sharing /\ tc \in Sharing
      /\ Sum3(ta) = a /\ Sum3(tb) = b /\ Sum3(tc) = Times(a, b)
  BY <1>1, <1>4, Share3Facts
<1> QED BY <1>3, <1>5, BeaverMulStep

\* The parts of the invariant that do not speak of the phase are kept by a step that
\* only moves the phase.
LEMMA SamePartyState ==
  ASSUME ProverInv,
         UNCHANGED <<job, input_shares, local_operations, triple_shares,
                     opened_values, next_secret, next_public, values, reference>>
  PROVE  SharesReconstruct' /\ BroadcastsInStep' /\ OperationsMatchBroadcasts'
         /\ NewError' = NewError
<1>1. NewError' = NewError
  BY DEF NewError
<1>2. SharesReconstruct'
  BY DEF ProverInv, SharesReconstruct, Reveal
<1>3. BroadcastsInStep'
  BY DEF ProverInv, BroadcastsInStep
<1>4. OperationsMatchBroadcasts'
  BY DEF ProverInv, OperationsMatchBroadcasts
<1> QED BY <1>1, <1>2, <1>3, <1>4

\* A step that only reports an error keeps the invariant.
LEMMA FailStep ==
  ASSUME ProverInv, NEW e \in ProverErrors, Fail(e)
  PROVE  ProverInv'
<1>1. /\ UNCHANGED <<job, proof, supply, input_shares, local_operations, triple_shares,
                     opened_values, next_secret, next_public, values, reference, commitments>>
      /\ phase' = "failed" /\ error' = e
  BY DEF Fail, inputVars, partyVars, cursorVars
<1>2. ProverTypeOK'
  BY <1>1 DEF ProverInv, ProverTypeOK
<1>3. Validated'
  BY <1>1 DEF Validated
<1>4. InputsReconstruct'
  BY <1>1 DEF ProverInv, InputsReconstruct
<1>5. CursorsCountLeaves'
  BY <1>1 DEF ProverInv, CursorsCountLeaves, out
<1> QED BY <1>1, <1>2, <1>3, <1>4, <1>5, SamePartyState DEF ProverInv

\* prove moves on to its next phase: the later phases ask for more.
LEMMA PhaseStep ==
  ASSUME ProverInv,
         UNCHANGED <<job, proof, error, supply, input_shares, local_operations, triple_shares,
                     opened_values, next_secret, next_public, values, reference>>,
         NewError = "none",
         \/ phase \in {"new", "ready"} /\ phase' \in {"ready", "sharing"} /\ commitments' = commitments
         \/ /\ phase' = "evaluating" /\ commitments' = commitments
            /\ Len(input_shares[0]) = Len(job.witness)
         \/ /\ phase' = "committed" /\ Len(values) = Len(job.circuit.nodes)
            /\ commitments' \in [Party -> ViewCommitment] /\ commitments' # << >>
  PROVE  ProverInv'
<1>1. ProverTypeOK'
  BY DEF ProverInv, ProverTypeOK
<1>2. Validated'
  BY SamePartyState DEF Validated
<1>3. InputsReconstruct'
  BY DEF ProverInv, InputsReconstruct
<1>4. CursorsCountLeaves'
  BY DEF ProverInv, CursorsCountLeaves, out
<1> QED BY <1>1, <1>2, <1>3, <1>4, SamePartyState DEF ProverInv

\* new_backend accepts or refuses the job and touches nothing else.
LEMMA NewBackendStep ==
  ASSUME ProverInv, new_backend
  PROVE  ProverInv'
<1>1. CASE NewError = "none"
  BY <1>1, PhaseStep DEF new_backend, inputVars, partyVars, cursorVars
<1>2. CASE NewError # "none"
  <2>1. Fail(NewError)
    BY <1>2 DEF new_backend
  <2>2. NewError \in ProverErrors
    BY <1>2 DEF NewError, statement_validate, ProverErrors
  <2> QED BY <2>1, <2>2, FailStep
<1> QED BY <1>1, <1>2

\* prove refuses a repetition count of zero or starts the first repetition.
LEMMA ProveStep ==
  ASSUME ProverInv, prove
  PROVE  ProverInv'
<1>1. phase = "ready" /\ NewError = "none"
  BY DEF prove, ProverInv, Validated
<1>2. CASE job.repetition_count > 0
  BY <1>1, <1>2, PhaseStep DEF prove, inputVars, partyVars, cursorVars
<1>3. CASE ~(job.repetition_count > 0)
  BY <1>3, FailStep DEF prove, ProverErrors
<1> QED BY <1>2, <1>3

\* share3 draws two shares and sets the third to complete the witness value.
LEMMA ShareInputStep ==
  ASSUME ProverInv, ShareInput
  PROVE  ProverInv'
<1> DEFINE n == Len(input_shares[0])
<1>1. /\ phase = "sharing" /\ n < Len(job.witness)
      /\ UNCHANGED <<job, proof, phase, error, supply, local_operations, triple_shares,
                     opened_values, next_secret, next_public, values, reference, commitments>>
  BY DEF ShareInput, partyVars, cursorVars
<1>2. PICK s \in share3(job.witness[n + 1]) :
        input_shares' = [p \in Party |-> Append(input_shares[p], s[p])]
  BY DEF ShareInput
<1>3. /\ ProverTypeOK /\ input_shares \in [Party -> Seq(F)] /\ job.witness \in Seq(F)
      /\ 0 \in Party
  BY JobFacts DEF ProverInv, ProverTypeOK, Party
<1>4. n \in Nat /\ n + 1 \in 1 .. Len(job.witness)
  BY <1>1, <1>3
<1>5. s \in Sharing /\ Sum3(s) = job.witness[n + 1]
  <2>1. job.witness[n + 1] \in F
    BY <1>3, <1>4
  <2> QED BY <1>2, <1>3, <2>1, Share3Facts
<1>6. \A p \in Party : input_shares[p] \in Seq(F) /\ Len(input_shares[p]) = n
  BY <1>3 DEF ProverInv, InputsReconstruct
<1>7. ASSUME NEW p \in Party
      PROVE  /\ input_shares'[p] \in Seq(F)
             /\ Len(input_shares'[p]) = n + 1
             /\ \A i \in 1 .. n : input_shares'[p][i] = input_shares[p][i]
             /\ input_shares'[p][n + 1] = s[p]
  <2>1. input_shares'[p] = Append(input_shares[p], s[p]) /\ s[p] \in F
    BY <1>2, <1>5 DEF Sharing
  <2> HIDE DEF n
  <2> QED BY <1>4, <1>6, <2>1
<1>8. input_shares' \in [Party -> Seq(F)]
  BY <1>2, <1>7
<1>9. InputsReconstruct'
  <2>1. \A p \in Party : Len(input_shares'[p]) = Len(input_shares'[0])
    BY <1>3, <1>7
  <2>2. Len(input_shares'[0]) <= Len(job.witness)
    BY <1>3, <1>4, <1>7
  <2>3. ASSUME NEW i \in DOMAIN input_shares'[0]
        PROVE  Sum3([p \in Party |-> input_shares'[p][i]]) = job.witness[i]
    <3>1. i \in 1 .. n + 1
      BY <1>3, <1>7
    <3>2. CASE i = n + 1
      <4>1. [p \in Party |-> input_shares'[p][i]] = s
        BY <1>5, <1>7, <3>2 DEF Sharing
      <4> QED BY <1>5, <3>2, <4>1
    <3>3. CASE i \in 1 .. n
      <4>1. [p \in Party |-> input_shares'[p][i]] = [p \in Party |-> input_shares[p][i]]
        BY <1>7, <3>3
      <4>2. i \in DOMAIN input_shares[0]
        BY <1>3, <3>3
      <4> QED BY <4>1, <4>2 DEF ProverInv, InputsReconstruct
    <3> QED BY <1>4, <3>1, <3>2, <3>3
  <2> QED BY <1>1, <2>1, <2>2, <2>3 DEF InputsReconstruct
<1>10. ProverTypeOK'
  BY <1>1, <1>8 DEF ProverInv, ProverTypeOK
<1>11. Validated'
  BY <1>1 DEF ProverInv, Validated, NewError
<1>12. CursorsCountLeaves'
  BY <1>1 DEF ProverInv, CursorsCountLeaves, out
<1>13. SharesReconstruct'
  BY <1>1 DEF ProverInv, SharesReconstruct, Reveal
<1>14. BroadcastsInStep'
  BY <1>1 DEF ProverInv, BroadcastsInStep
<1>15. OperationsMatchBroadcasts'
  BY <1>1 DEF ProverInv, OperationsMatchBroadcasts
<1> QED BY <1>9, <1>10, <1>11, <1>12, <1>13, <1>14, <1>15 DEF ProverInv

\* Once every secret input is shared, the walk over the nodes begins.
LEMMA InputsSharedStep ==
  ASSUME ProverInv, InputsShared
  PROVE  ProverInv'
<1>1. NewError = "none"
  BY DEF InputsShared, ProverInv, Validated
<1> QED BY <1>1, PhaseStep DEF InputsShared, inputVars, partyVars, cursorVars

\* A party's view and the opening of it are well formed.
LEMMA ViewFacts ==
  ASSUME ProverTypeOK, NEW p \in Party
  PROVE  /\ id \in Nat
         /\ build_view(p) \in PartyView
         /\ fresh_randomness(id, p) \in Randomness
         /\ Opening(p) \in OpenedView
         /\ commit_view(build_view(p), fresh_randomness(id, p)) \in ViewCommitment
<1>1. id \in Nat
  BY DEF ProverTypeOK, id
<1>2. build_view(p) \in PartyView
  BY <1>1 DEF ProverTypeOK, build_view, PartyView
<1>3. fresh_randomness(id, p) \in Randomness
  BY <1>1 DEF fresh_randomness, Randomness
<1> QED BY <1>1, <1>2, <1>3 DEF Opening, OpenedView, commit_view, ViewCommitment

\* The three views are built and committed once every node is done.
LEMMA CommitViewsStep ==
  ASSUME ProverInv, CommitViews
  PROVE  ProverInv'
<1>1. NewError = "none" /\ Len(values) = Len(job.circuit.nodes)
  BY DEF CommitViews, AllEvaluated, ProverInv, Validated
<1>2. commitments' \in [Party -> ViewCommitment]
  BY ViewFacts DEF CommitViews, ProverInv
<1>3. commitments' # << >>
  <2>1. DOMAIN commitments' = Party /\ 0 \in Party
    BY <1>2 DEF Party
  <2>2. DOMAIN << >> = {}
    OBVIOUS
  <2> QED BY <2>1, <2>2
<1> QED BY <1>1, <1>2, <1>3, PhaseStep DEF CommitViews, inputVars, partyVars, cursorVars

\* What is known of every evaluation that is over, whatever the views record.
Evaluated == ProverTypeOK /\ Validated /\ Len(values) = Len(job.circuit.nodes)

\* A finished repetition is well formed.
LEMMA FinishedFacts ==
  ASSUME Evaluated, phase = "committed", NEW hidden \in Party
  PROVE  FinishedRepetition(hidden) \in Repetition
<1> DEFINE outs == job.circuit.outputs
<1>1. ProverTypeOK /\ NewError = "none" /\ outs \in Seq(NodeId)
  BY JobFacts DEF Evaluated, Validated
<1>2. commitments \in [Party -> ViewCommitment]
  BY <1>1 DEF ProverTypeOK
<1>3. <<commitments[0], commitments[1], commitments[2]>> \in Seq(ViewCommitment)
  BY <1>2 DEF Party
<1>4. others(hidden)[1] \in Party /\ others(hidden)[2] \in Party
  BY DEF others, Party
<1>5. <<Opening(others(hidden)[1]), Opening(others(hidden)[2])>> \in Seq(OpenedView)
  BY <1>1, <1>4, ViewFacts
<1>6. ASSUME NEW k \in DOMAIN outs
      PROVE  (IF values[outs[k]].shared THEN values[outs[k]].share[hidden] ELSE Zero) \in F
  <2>1. outs[k] \in NodeId /\ outs[k] <= Len(job.circuit.nodes)
    BY <1>1, CheckedJob
  <2>2. values \in Seq(NodeVal) /\ Len(values) = Len(job.circuit.nodes)
    BY DEF Evaluated, ProverTypeOK
  <2>3. outs[k] \in DOMAIN values
    BY <2>1, <2>2 DEF NodeId
  <2>4. values[outs[k]] \in NodeVal
    BY <2>2, <2>3
  <2> QED BY <2>4, FieldClosed DEF NodeVal, Sharing
<1>7. HiddenOutputShares(hidden) \in Seq(F)
  <2>1. HiddenOutputShares(hidden) \in [1 .. Len(outs) -> F]
    BY <1>1, <1>6 DEF HiddenOutputShares
  <2> QED BY <1>1, <2>1, SeqDef
<1>8. opened_values[hidden] \in Seq(F) /\ id \in Nat
  BY <1>1, ViewFacts DEF ProverTypeOK
<1> QED BY <1>3, <1>5, <1>7, <1>8 DEF FinishedRepetition, Repetition

\* Nothing has been proved yet; the challenge source may hold any number of challenges.
Initial ==
  /\ job \in Jobs /\ supply \in Nat
  /\ phase = "new" /\ error = "none" /\ proof = << >>
  /\ input_shares = Empty /\ local_operations = Empty /\ triple_shares = Empty
  /\ opened_values = Empty /\ values = << >> /\ next_secret = 0 /\ next_public = 0
  /\ reference = << >> /\ commitments = << >>

LEMMA InitInitial ==
  ASSUME ProverInit
  PROVE  Initial
BY JobsAssumption DEF ProverInit, Initial, Job

\* The invariant holds before the first call.
LEMMA InitInv ==
  ASSUME Initial
  PROVE  ProverInv
<1>1. job \in Jobs /\ job \in Job
  BY JobsAssumption DEF Initial
<1>2. /\ phase = "new" /\ proof = << >> /\ values = << >> /\ reference = << >>
      /\ input_shares = Empty /\ local_operations = Empty /\ triple_shares = Empty
      /\ opened_values = Empty /\ next_secret = 0 /\ next_public = 0 /\ commitments = << >>
      /\ error = "none" /\ supply \in Nat
  BY DEF Initial
<1>3. job.witness \in Seq(F) /\ job.circuit \in Circuit
  BY <1>1 DEF Job
<1>4. ProverTypeOK
  BY <1>1, <1>2, <1>3 DEF ProverTypeOK, Empty
<1>5. Validated
  BY <1>2 DEF Validated
<1>6. InputsReconstruct
  BY <1>2, <1>3 DEF InputsReconstruct, Empty, Party
<1>7. CursorsCountLeaves
  <2>1. job.circuit.nodes \in Seq(Node)
    BY <1>3 DEF Circuit
  <2>2. out = 0 + 1
    BY <1>2 DEF out
  <2> QED BY <1>2, <2>1, <2>2, NoLeavesBefore DEF CursorsCountLeaves
<1>8. SharesReconstruct
  BY <1>2 DEF SharesReconstruct
<1>9. BroadcastsInStep
  BY <1>2 DEF BroadcastsInStep, Empty, Party
<1>10. OperationsMatchBroadcasts
  BY <1>2 DEF OperationsMatchBroadcasts, Empty
<1> QED BY <1>4, <1>5, <1>6, <1>7, <1>8, <1>9, <1>10 DEF ProverInv

\* After a challenge is answered the next repetition starts afresh.
LEMMA RestartStep ==
  ASSUME Evaluated, NEW hidden \in Party, finish_repetition(hidden),
         Len(proof') < job.repetition_count
  PROVE  ProverInv'
<1>1. /\ phase = "committed" /\ supply > 0 /\ supply' = supply - 1
      /\ proof' = Append(proof, FinishedRepetition(hidden))
      /\ UNCHANGED <<job, error>>
  BY DEF finish_repetition, next_challenge
<1>2. job.witness \in Seq(F) /\ job.circuit.nodes \in Seq(Node)
  BY JobFacts DEF Evaluated
<1>3. proof' \in Seq(Repetition)
  <2>1. FinishedRepetition(hidden) \in Repetition
    BY <1>1, <1>2, FinishedFacts
  <2> QED BY <1>1, <2>1 DEF Evaluated, ProverTypeOK
<1>4. supply' \in Nat
  BY <1>1 DEF Evaluated, ProverTypeOK
<1>5. NewError' = "none"
  BY <1>1 DEF Evaluated, Validated, NewError
<1>6. /\ phase' = "sharing" /\ values' = << >> /\ reference' = << >>
      /\ input_shares' = Empty /\ local_operations' = Empty /\ triple_shares' = Empty
      /\ opened_values' = Empty /\ next_secret' = 0 /\ next_public' = 0 /\ commitments' = << >>
  BY DEF finish_repetition
<1>7. ProverTypeOK'
  BY <1>1, <1>3, <1>4, <1>6 DEF Evaluated, ProverTypeOK, Empty
<1>8. Validated'
  BY <1>5 DEF Validated
<1>9. InputsReconstruct'
  BY <1>1, <1>2, <1>6 DEF InputsReconstruct, Empty, Party
<1>10. CursorsCountLeaves'
  <2>1. out' = 0 + 1
    BY <1>6 DEF out
  <2> QED BY <1>1, <1>2, <1>6, <2>1, NoLeavesBefore DEF CursorsCountLeaves
<1>11. SharesReconstruct'
  BY <1>6 DEF SharesReconstruct
<1>12. BroadcastsInStep'
  BY <1>6 DEF BroadcastsInStep, Empty, Party
<1>13. OperationsMatchBroadcasts'
  BY <1>6 DEF OperationsMatchBroadcasts, Empty
<1> QED BY <1>7, <1>8, <1>9, <1>10, <1>11, <1>12, <1>13 DEF ProverInv

\* A challenge is answered with the two views it asks for, and the next repetition starts afresh.
LEMMA FinishRepetitionStep ==
  ASSUME ProverInv, NEW hidden \in Party, finish_repetition(hidden)
  PROVE  ProverInv'
<1>0. CASE Len(proof') < job.repetition_count
  <2>1. phase = "committed"
    BY DEF finish_repetition
  <2>2. Evaluated
    BY <2>1 DEF Evaluated, ProverInv, CursorsCountLeaves
  <2> QED BY <1>0, <2>2, RestartStep
<1>1. /\ phase = "committed" /\ supply > 0 /\ supply' = supply - 1
      /\ proof' = Append(proof, FinishedRepetition(hidden))
      /\ UNCHANGED <<job, error>>
  BY DEF finish_repetition, next_challenge
<1>2. job.witness \in Seq(F) /\ job.circuit.nodes \in Seq(Node)
  BY JobFacts DEF ProverInv
<1>3. proof' \in Seq(Repetition)
  <2>1. FinishedRepetition(hidden) \in Repetition
    BY <1>1, <1>2, FinishedFacts DEF Evaluated, ProverInv, CursorsCountLeaves
  <2> QED BY <1>1, <2>1 DEF ProverInv, ProverTypeOK
<1>4. supply' \in Nat
  BY <1>1 DEF ProverInv, ProverTypeOK
<1>5. NewError' = "none"
  BY <1>1 DEF ProverInv, Validated, NewError
<1>7. CASE ~(Len(proof') < job.repetition_count)
  <2>1. /\ phase' = "done"
        /\ UNCHANGED <<input_shares, local_operations, triple_shares, opened_values,
                       next_secret, next_public, values, reference, commitments>>
    BY <1>7 DEF finish_repetition, inputVars, partyVars, cursorVars
  <2>2. ProverTypeOK'
    BY <1>1, <1>3, <1>4, <2>1 DEF ProverInv, ProverTypeOK
  <2>3. Validated'
    BY <1>5 DEF Validated
  <2>4. InputsReconstruct'
    BY <1>1, <2>1 DEF ProverInv, InputsReconstruct
  <2>5. CursorsCountLeaves'
    BY <1>1, <2>1 DEF ProverInv, CursorsCountLeaves, out
  <2>6. SharesReconstruct'
    BY <2>1 DEF ProverInv, SharesReconstruct, Reveal
  <2>7. BroadcastsInStep'
    BY <2>1 DEF ProverInv, BroadcastsInStep
  <2>8. OperationsMatchBroadcasts'
    BY <2>1 DEF ProverInv, OperationsMatchBroadcasts
  <2> QED BY <2>2, <2>3, <2>4, <2>5, <2>6, <2>7, <2>8 DEF ProverInv
<1> QED BY <1>0, <1>7

\* A step that changes nothing keeps the invariant.
LEMMA StutterStep ==
  ASSUME ProverInv, UNCHANGED proverVars
  PROVE  ProverInv'
<1>1. UNCHANGED <<job, proof, phase, error, supply, input_shares, local_operations, triple_shares,
                  opened_values, next_secret, next_public, values, reference, commitments>>
  BY DEF proverVars, inputVars, partyVars, cursorVars
<1>2. ProverTypeOK'
  BY <1>1 DEF ProverInv, ProverTypeOK
<1>3. Validated'
  BY <1>1, SamePartyState DEF ProverInv, Validated
<1>4. InputsReconstruct'
  BY <1>1 DEF ProverInv, InputsReconstruct
<1>5. CursorsCountLeaves'
  BY <1>1 DEF ProverInv, CursorsCountLeaves, out
<1> QED BY <1>1, <1>2, <1>3, <1>4, <1>5, SamePartyState DEF ProverInv

\* The prover's steps, where a challenge may hide any party.
AnyNext ==
  \/ new_backend \/ prove
  \/ ShareInput \/ InputsShared
  \/ EvaluateNode
  \/ CommitViews
  \/ \E hidden \in Party : finish_repetition(hidden)
  \/ NoChallenge

LEMMA NextIsAny ==
  ASSUME ProverTypeOK, [ProverNext]_proverVars
  PROVE  [AnyNext]_proverVars
BY JobFacts DEF ProverNext, AnyNext

\* Every step of the prover preserves the invariant.
LEMMA ProverInvStep ==
  ASSUME ProverInv, [AnyNext]_proverVars
  PROVE  ProverInv'
<1>1. CASE new_backend
  BY <1>1, NewBackendStep
<1>2. CASE prove
  BY <1>2, ProveStep
<1>3. CASE ShareInput
  BY <1>3, ShareInputStep
<1>4. CASE InputsShared
  BY <1>4, InputsSharedStep
<1>5. CASE EvaluateNode
  <2>1. CASE SecretInputNode
    BY <2>1, SecretInputStep
  <2>2. CASE PublicInputNode
    BY <2>2, PublicInputStep
  <2>3. CASE ConstantNode
    BY <2>3, ConstantStep
  <2>4. CASE AddPublic
    BY <2>4, AddPublicStep
  <2>5. CASE AddShared
    BY <2>5, AddSharedStep
  <2>6. CASE AddMixed
    BY <2>6, AddMixedStep
  <2>7. CASE MulPublic
    BY <2>7, MulPublicStep
  <2>8. CASE MulMixed
    BY <2>8, MulMixedStep
  <2>9. CASE MulShared
    BY <2>9, MulSharedStep
  <2> QED BY <1>5, <2>1, <2>2, <2>3, <2>4, <2>5, <2>6, <2>7, <2>8, <2>9 DEF EvaluateNode
<1>6. CASE CommitViews
  BY <1>6, CommitViewsStep
<1>7. CASE \E hidden \in Party : finish_repetition(hidden)
  BY <1>7, FinishRepetitionStep
<1>8. CASE NoChallenge
  BY <1>8, FailStep DEF NoChallenge, ProverErrors
<1>9. CASE UNCHANGED proverVars
  BY <1>9, StutterStep
<1> QED BY <1>1, <1>2, <1>3, <1>4, <1>5, <1>6, <1>7, <1>8, <1>9 DEF AnyNext
-----------------------------------------------------------------------------
\* The inductive invariant holds throughout every run of the prover.
THEOREM ProverCorrect == ProverSpec => []ProverInv
<1>1. ProverInit => ProverInv
  BY InitInv, InitInitial
<1>2. ProverInv /\ [ProverNext]_proverVars => ProverInv'
  BY ProverInvStep, NextIsAny DEF ProverInv
<1> QED BY <1>1, <1>2, PTL DEF ProverSpec

\* Type correctness: every vector of prover.rs is only read inside its bounds, a
\* challenge is only taken from a source that has one, and every repetition handed
\* out is complete and well formed.
THEOREM ProverTypes == ProverSpec => []ProverTypeOK
<1>1. ProverInv => ProverTypeOK
  BY DEF ProverInv
<1> QED BY <1>1, ProverCorrect, PTL

\* Over any commutative ring, for any circuit, statement, witness, random draws and
\* challenges, evaluating on shares computes what evaluate_reference computes.
THEOREM ProverSharesReconstruct == ProverSpec => []SharesReconstruct
<1>1. ProverInv => SharesReconstruct
  BY DEF ProverInv
<1> QED BY <1>1, ProverCorrect, PTL

\* The operations each party records and the masks it broadcasts always agree with
\* the shares it holds and with what the three parties broadcast.
THEOREM ProverOperations == ProverSpec => []OperationsMatchBroadcasts
<1>1. ProverInv => OperationsMatchBroadcasts
  BY DEF ProverInv
<1> QED BY <1>1, ProverCorrect, PTL

\* A node's value is shared when the node depends on a secret, if that holds for its
\* operands.
LEMMA DependsPush ==
  ASSUME ProverInv, SharedMeansSecretDependent, phase = "evaluating",
         out <= Len(job.circuit.nodes), NEW val, NEW ref, Push(val, ref),
         val.shared <=> (node.op = "SecretInput" \/ (IsGate(node) /\ (va.shared \/ vb.shared)))
  PROVE  SharedMeansSecretDependent'
<1> DEFINE c == job.circuit
           dep == node_depends_on_secrets(c)
<1>1. ProverTypeOK /\ NewError = "none"
  BY DEF ProverInv, Validated
<1>2. c \in Circuit /\ c.nodes \in Seq(Node) /\ values \in Seq(NodeVal)
  BY <1>1, JobFacts DEF ProverTypeOK
<1>3. validate(c) = "Ok"
  BY <1>1 DEF NewError, statement_validate
<1>4. out \in DOMAIN c.nodes /\ out = Len(values) + 1 /\ out \in Nat
  BY <1>2, NodeFacts DEF out
<1>5. /\ values' = Append(values, val) /\ job' = job
      /\ DOMAIN values' = 1 .. out /\ DOMAIN values = 1 .. Len(values)
      /\ \A j \in 1 .. Len(values) : values'[j] = values[j]
      /\ values'[out] = val
  <2>1. values' = Append(values, val) /\ job' = job
    BY DEF Push
  <2> DEFINE v == values
             w == values'
  <2>2. v \in Seq(NodeVal) /\ w = Append(v, val) /\ out = Len(v) + 1
    BY <1>2, <1>4, <2>1
  <2> HIDE DEF v, w
  <2>3. v \in Seq(NodeVal \cup {val}) /\ val \in NodeVal \cup {val}
    BY <2>2
  <2>4. /\ DOMAIN w = 1 .. out /\ DOMAIN v = 1 .. Len(v)
        /\ \A j \in 1 .. Len(v) : w[j] = v[j]
        /\ w[out] = val
    BY <2>2, <2>3
  <2> QED
    BY <2>1, <2>4 DEF v, w
<1>6. dep[out] <=> \/ node.op = "SecretInput"
                   \/ IsGate(node) /\ (dep[node.a] \/ dep[node.b])
  <2>1. dep[out] = \/ c.nodes[out].op = "SecretInput"
                   \/ IsGate(c.nodes[out]) /\ (dep[c.nodes[out].a] \/ dep[c.nodes[out].b])
    BY <1>2, <1>3, <1>4, DependsEquation
  <2> HIDE DEF dep
  <2> QED
    BY <2>1, Zenon DEF node
<1>7. ASSUME IsGate(node)
      PROVE  (va.shared <=> dep[node.a]) /\ (vb.shared <=> dep[node.b])
  <2>1. node.a < out /\ node.b < out /\ node.a \in DOMAIN c.nodes /\ node.b \in DOMAIN c.nodes
    BY <1>2, <1>3, <1>4, <1>7, OperandsBefore DEF node
  <2>2. node.a \in DOMAIN values /\ node.b \in DOMAIN values
    BY <2>1, <1>2, <1>4
  <2> QED
    BY <2>2 DEF SharedMeansSecretDependent, va, vb
<1>8. val.shared <=> dep[out]
  <2> HIDE DEF dep
  <2> QED
    BY <1>6, <1>7, Zenon
<1>9. ASSUME NEW j \in 1 .. out
      PROVE  values'[j].shared <=> dep[j]
  <2>1. CASE j = out
    BY <2>1, <1>5, <1>8
  <2>2. CASE j \in 1 .. Len(values)
    BY <2>2, <1>5 DEF SharedMeansSecretDependent
  <2> QED
    BY <2>1, <2>2, <1>2, <1>4
<1>10. node_depends_on_secrets(job.circuit)' = dep
  BY <1>5 DEF node_depends_on_secrets
<1> HIDE DEF dep
<1> QED
  BY <1>5, <1>9, <1>10 DEF SharedMeansSecretDependent

\* The same for each kind of node.
LEMMA DependsNode ==
  ASSUME ProverInv, SharedMeansSecretDependent, EvaluateNode
  PROVE  SharedMeansSecretDependent'
<1> USE DEF AtNode, Shared, Public
<1>1. CASE SecretInputNode
  <2> DEFINE val == Shared([p \in Party |-> input_shares[p][next_secret + 1]])
  <2>1. Push(val, job.witness[next_secret + 1]) /\ phase = "evaluating"
        /\ out <= Len(job.circuit.nodes) /\ node.op = "SecretInput"
    BY <1>1 DEF SecretInputNode
  <2>2. val.shared
    OBVIOUS
  <2> HIDE DEF val
  <2>3. val.shared <=> (node.op = "SecretInput" \/ (IsGate(node) /\ (va.shared \/ vb.shared)))
    BY <2>1, <2>2, Zenon
  <2> QED
    BY <2>1, <2>3, DependsPush
<1>2. CASE PublicInputNode
  <2> DEFINE val == Public(job.statement.public_inputs[next_public + 1])
  <2>1. Push(val, job.statement.public_inputs[next_public + 1]) /\ phase = "evaluating"
        /\ out <= Len(job.circuit.nodes) /\ node.op = "PublicInput"
    BY <1>2 DEF PublicInputNode
  <2>2. ~val.shared
    OBVIOUS
  <2> HIDE DEF val
  <2> QED
    BY <2>1, <2>2, DependsPush DEF IsGate
<1>3. CASE ConstantNode
  <2> DEFINE val == Public(node.value)
  <2>1. Push(val, node.value) /\ phase = "evaluating"
        /\ out <= Len(job.circuit.nodes) /\ node.op = "Constant"
    BY <1>3 DEF ConstantNode
  <2>2. ~val.shared
    OBVIOUS
  <2> HIDE DEF val
  <2> QED
    BY <2>1, <2>2, DependsPush DEF IsGate
<1>4. CASE AddPublic
  <2> DEFINE val == Public(Plus(public_part(va), public_part(vb)))
  <2>1. Push(val, RefAdd) /\ phase = "evaluating" /\ out <= Len(job.circuit.nodes)
        /\ node.op = "Add" /\ ~va.shared /\ ~vb.shared
    BY <1>4 DEF AddPublic
  <2>2. ~val.shared
    OBVIOUS
  <2> HIDE DEF val
  <2> QED
    BY <2>1, <2>2, DependsPush
<1>5. CASE MulPublic
  <2> DEFINE val == Public(Times(public_part(va), public_part(vb)))
  <2>1. Push(val, RefMul) /\ phase = "evaluating" /\ out <= Len(job.circuit.nodes)
        /\ node.op = "Mul" /\ ~va.shared /\ ~vb.shared
    BY <1>5 DEF MulPublic
  <2>2. ~val.shared
    OBVIOUS
  <2> HIDE DEF val
  <2> QED
    BY <2>1, <2>2, DependsPush
<1>6. ASSUME NEW s, NEW ref, Push(Shared(s), ref), phase = "evaluating",
             out <= Len(job.circuit.nodes), IsGate(node), va.shared \/ vb.shared
      PROVE  SharedMeansSecretDependent'
  <2> DEFINE val == Shared(s)
  <2>1. val.shared
    OBVIOUS
  <2> HIDE DEF val
  <2>2. Push(val, ref)
    BY <1>6 DEF val
  <2> QED
    BY <1>6, <2>1, <2>2, DependsPush
<1>7. CASE AddShared
  <2>1. /\ Push(Shared([p \in Party |-> Plus(operand(va, p), operand(vb, p))]), RefAdd)
        /\ phase = "evaluating" /\ out <= Len(job.circuit.nodes) /\ node.op = "Add" /\ va.shared
    BY <1>7 DEF AddShared
  <2> QED
    BY <2>1, <1>6 DEF IsGate
<1>8. ASSUME phase = "evaluating", out <= Len(job.circuit.nodes), IsGate(node),
             va.shared # vb.shared
      PROVE  va.shared \/ vb.shared
  <2>1. va.shared \in BOOLEAN /\ vb.shared \in BOOLEAN
    BY <1>8, NodeFacts DEF NodeVal
  <2> QED
    BY <1>8, <2>1
<1>9. CASE AddMixed
  <2>1. /\ \E s : Push(Shared(s), RefAdd)
        /\ phase = "evaluating" /\ out <= Len(job.circuit.nodes) /\ node.op = "Add"
        /\ va.shared # vb.shared
    BY <1>9, Zenon DEF AddMixed
  <2> QED
    BY <2>1, <1>6, <1>8 DEF IsGate
<1>10. CASE MulMixed
  <2>1. /\ \E s : Push(Shared(s), RefMul)
        /\ phase = "evaluating" /\ out <= Len(job.circuit.nodes) /\ node.op = "Mul"
        /\ va.shared # vb.shared
    BY <1>10, Zenon DEF MulMixed
  <2> QED
    BY <2>1, <1>6, <1>8 DEF IsGate
<1>11. CASE MulShared
  <2>1. \E ta, tb, tc : BeaverMul(ta, tb, tc)
    BY <1>11, Zenon DEF MulShared
  <2>2. /\ \E s : Push(Shared(s), RefMul)
        /\ phase = "evaluating" /\ out <= Len(job.circuit.nodes) /\ node.op = "Mul" /\ va.shared
    BY <2>1, Zenon DEF BeaverMul
  <2> QED
    BY <2>2, <1>6 DEF IsGate
<1> QED
  BY <1>1, <1>2, <1>3, <1>4, <1>5, <1>7, <1>9, <1>10, <1>11 DEF EvaluateNode

\* Every step keeps the two views of secrecy together.
LEMMA DependsStep ==
  ASSUME ProverInv, SharedMeansSecretDependent, [AnyNext]_proverVars
  PROVE  SharedMeansSecretDependent'
<1>1. ASSUME job' = job, values' = values \/ values' = << >>
      PROVE  SharedMeansSecretDependent'
  BY <1>1 DEF SharedMeansSecretDependent, node_depends_on_secrets
<1>2. CASE new_backend \/ prove \/ ShareInput \/ InputsShared \/ CommitViews \/ NoChallenge
  BY <1>1, <1>2 DEF new_backend, prove, ShareInput, InputsShared, CommitViews, NoChallenge, Fail
<1>3. CASE \E hidden \in Party : finish_repetition(hidden)
  BY <1>1, <1>3 DEF finish_repetition
<1>4. CASE UNCHANGED proverVars
  BY <1>1, <1>4 DEF proverVars
<1> QED
  BY <1>2, <1>3, <1>4, DependsNode DEF AnyNext

(* The prover's gate-by-gate tracking of secrecy and the verifier's             *)
(* node_depends_on_secrets always agree, for every circuit that validates: no   *)
(* output is opened as public by one and reconstructed from shares by the       *)
(* other.                                                                       *)
THEOREM ProverSecrecy == ProverSpec => []SharedMeansSecretDependent
<1>1. ProverInit => SharedMeansSecretDependent
  BY DEF ProverInit, SharedMeansSecretDependent
<1>2. ProverInv /\ SharedMeansSecretDependent /\ [ProverNext]_proverVars
        => SharedMeansSecretDependent'
  BY DependsStep, NextIsAny DEF ProverInv
<1> QED
  BY <1>1, <1>2, ProverCorrect, PTL DEF ProverSpec
-----------------------------------------------------------------------------
(* The views record the evaluation: TraceInv.                              *)

\* The job of an evaluation has been checked.
LEMMA JobChecked ==
  ASSUME ProverTypeOK, NewError = "none"
  PROVE  Checked(job)
<1>1. validate(job.circuit) = "Ok"
  BY DEF NewError, statement_validate
<1> QED BY <1>1, JobFacts DEF Checked

\* The views of the evaluation so far and what they broadcast.
LEMMA ViewsFacts ==
  ASSUME ProverInv
  PROVE  /\ Views \in [Party -> PartyView]
         /\ \A p \in Party : /\ Views[p] = build_view(p)
                             /\ Views[p].party_id = p
                             /\ Views[p].repetition_id = id
                             /\ Views[p].input_shares = input_shares[p]
                             /\ Views[p].local_operations = local_operations[p]
                             /\ Views[p].triple_shares = triple_shares[p]
                             /\ Views[p].opened_values = opened_values[p]
         /\ \A p \in Party : Len(Views[p].opened_values) = Len(Views[0].opened_values)
         /\ MasksOf(Views) \in Seq(F)
         /\ Len(MasksOf(Views)) \in Nat
         /\ \A p \in Party : Len(MasksOf(Views)) = Len(opened_values[p])
<1>1. \A p \in Party : build_view(p) \in PartyView
  BY ViewFacts DEF ProverInv
<1>2. Views \in [Party -> PartyView]
  BY <1>1 DEF Views
<1>3. \A p \in Party : /\ Views[p] = build_view(p)
                       /\ Views[p].party_id = p
                       /\ Views[p].repetition_id = id
                       /\ Views[p].input_shares = input_shares[p]
                       /\ Views[p].local_operations = local_operations[p]
                       /\ Views[p].triple_shares = triple_shares[p]
                       /\ Views[p].opened_values = opened_values[p]
  BY DEF Views, build_view
<1>4. \A p \in Party : Len(opened_values[p]) = 2 * Len(triple_shares[0])
  BY DEF ProverInv, BroadcastsInStep
<1>5. 0 \in Party
  BY DEF Party
<1>6. \A p \in Party : /\ Len(Views[p].opened_values) = Len(Views[0].opened_values)
                       /\ Len(Views[p].opened_values) = Len(opened_values[p])
  BY <1>3, <1>4, <1>5
<1> HIDE DEF Views
<1>7. MasksOf(Views) \in Seq(F) /\ Len(MasksOf(Views)) = Len(Views[0].opened_values)
  BY <1>2, <1>6, MasksFacts
<1>8. Len(MasksOf(Views)) \in Nat
  BY <1>7
<1> QED BY <1>2, <1>3, <1>5, <1>6, <1>7, <1>8

\* A node's value, seen by one party.
LEMMA LocalType ==
  ASSUME NEW val \in NodeVal, NEW p \in Party
  PROVE  LocalOf(val, p) \in LocalVal
BY DEF NodeVal, LocalOf, LocalVal, Sharing

\* What the node loop pushes, seen by one party.
LEMMA TraceNext ==
  ASSUME ProverInv, TraceInv, phase = "evaluating", out <= Len(job.circuit.nodes),
         NEW val \in NodeVal, NEW ref, Push(val, ref), NEW p \in Party
  PROVE  /\ NextNode(job, Views[p], MasksOf(Views), LocalValues(p), LocalOf(val, p),
                     LocalValues(p)', out)
         /\ nodeOf(job, out) = node
         /\ IsGate(node) => /\ LocalValues(p)[node.a] = LocalOf(va, p)
                            /\ LocalValues(p)[node.b] = LocalOf(vb, p)
<1>1. ProverTypeOK /\ NewError = "none" /\ values \in Seq(NodeVal)
  BY DEF ProverInv, Validated, ProverTypeOK
<1>2. Checked(job)
  BY <1>1, JobChecked
<1>3. Views[p] \in PartyView /\ ViewReplays(job, Views[p], MasksOf(Views), LocalValues(p))
  BY ViewsFacts DEF TraceInv
<1>4. /\ Len(values) \in Nat /\ DOMAIN values = 1 .. Len(values)
      /\ LocalValues(p) \in Seq(LocalVal) /\ Len(LocalValues(p)) = Len(values)
  <2>1. Len(values) \in Nat /\ DOMAIN values = 1 .. Len(values)
    BY <1>1
  <2>2. LocalValues(p) \in [1 .. Len(values) -> LocalVal]
    BY <1>1, <2>1, LocalType DEF LocalValues
  <2> DEFINE f == LocalValues(p)
             m == Len(values)
  <2> HIDE DEF f, m
  <2>3. f \in [1 .. m -> LocalVal] /\ m \in Nat
    BY <2>1, <2>2 DEF f, m
  <2>4. f \in Seq(LocalVal) /\ Len(f) = m
    BY <2>3
  <2> QED BY <2>1, <2>4 DEF f, m
<1>5. LocalValues(p)' = Append(LocalValues(p), LocalOf(val, p))
  <2>1. values' = Append(values, val)
    BY DEF Push
  <2>2. /\ DOMAIN values' = 1 .. Len(values) + 1
        /\ \A k \in 1 .. Len(values) : values'[k] = values[k]
        /\ values'[Len(values) + 1] = val
    BY <1>1, <2>1
  <2>3. LocalValues(p)' = [k \in 1 .. Len(values) + 1 |-> LocalOf(values'[k], p)]
    BY <2>2 DEF LocalValues, LocalOf
  <2>4. LocalValues(p) = [k \in 1 .. Len(values) |-> LocalOf(values[k], p)]
    BY <1>4 DEF LocalValues
  <2> DEFINE f == LocalValues(p)
             f2 == LocalValues(p)'
             m == Len(values)
             x == LocalOf(val, p)
  <2>5. /\ f \in Seq(LocalVal) /\ Len(f) = m /\ m \in Nat /\ x \in LocalVal
        /\ f2[m + 1] = x /\ \A k \in 1 .. m : f2[k] = f[k]
    <3>1. m + 1 \in 1 .. m + 1 /\ (\A k \in 1 .. m : k \in 1 .. m + 1)
      BY <1>4
    <3>2. f2[m + 1] = x
      BY <2>2, <2>3, <3>1
    <3>3. \A k \in 1 .. m : f2[k] = f[k]
      BY <2>2, <2>3, <2>4, <3>1
    <3> QED BY <1>4, <3>2, <3>3, LocalType
  <2>6. f2 \in Seq(LocalVal) /\ Len(f2) = m + 1
    <3>1. \A k \in 1 .. m + 1 : values'[k] \in NodeVal
      BY <1>1, <1>4, <2>1
    <3>2. f2 \in [1 .. m + 1 -> LocalVal]
      BY <2>3, <3>1, LocalType
    <3> HIDE DEF f2, m
    <3> QED BY <2>5, <3>2
  <2> HIDE DEF f, f2, m, x
  <2>7. Append(f, x) \in Seq(LocalVal) /\ Len(Append(f, x)) = m + 1
    BY <2>5
  <2>8. \A k \in 1 .. m + 1 : f2[k] = Append(f, x)[k]
    BY <2>5
  <2>9. f2 = Append(f, x)
    BY <2>5, <2>6, <2>7, <2>8
  <2> QED BY <2>9 DEF f, f2, x
<1>6. out = Len(LocalValues(p)) + 1 /\ Len(LocalValues(p)) < Len(job.circuit.nodes)
  <2>1. Len(job.circuit.nodes) \in Nat
    BY <1>1, JobFacts
  <2> QED BY <1>4, <2>1 DEF out
<1>7. NextNode(job, Views[p], MasksOf(Views), LocalValues(p), LocalOf(val, p),
               LocalValues(p)', out)
  BY <1>2, <1>3, <1>5, <1>6, LocalType DEF NextNode
<1>8. nodeOf(job, out) = node
  BY DEF nodeOf, node
<1>9. ASSUME IsGate(node)
      PROVE  /\ LocalValues(p)[node.a] = LocalOf(va, p)
             /\ LocalValues(p)[node.b] = LocalOf(vb, p)
  <2>1. out \in DOMAIN job.circuit.nodes /\ job.circuit.nodes \in Seq(Node)
    BY <1>1, JobFacts, NodeFacts
  <2>2. /\ node.a \in DOMAIN job.circuit.nodes /\ node.a < out
        /\ node.b \in DOMAIN job.circuit.nodes /\ node.b < out
    BY <1>2, <1>9, <2>1, OperandsBefore DEF Checked, node
  <2>3. node.a \in DOMAIN values /\ node.b \in DOMAIN values
    BY <1>4, <2>1, <2>2 DEF out
  <2> QED BY <2>3 DEF LocalValues, va, vb
<1> QED BY <1>7, <1>8, <1>9

\* What is recorded for the node the loop is at.
LEMMA TraceRecorded ==
  ASSUME NEW p \in Party,
         IsGate(node) => /\ LocalValues(p)[node.a] = LocalOf(va, p)
                         /\ LocalValues(p)[node.b] = LocalOf(vb, p),
         nodeOf(job, out) = node
  PROVE  /\ Recorded(job, p, LocalValues(p), out) <=>
              /\ IsGate(node)
              /\ va.shared \/ vb.shared
              /\ node.op = "Add" /\ p # 0 => va.shared /\ vb.shared
         /\ Multiplied(job, LocalValues(p), out) <=> node.op = "Mul" /\ va.shared /\ vb.shared
<1>1. LocalOf(va, p).shared = va.shared /\ LocalOf(vb, p).shared = vb.shared
  BY DEF LocalOf
<1> DEFINE la == LocalValues(p)[node.a]
           lb == LocalValues(p)[node.b]
<1>2. IsGate(node) => la.shared = va.shared /\ lb.shared = vb.shared
  BY <1>1
<1>3. Recorded(job, p, LocalValues(p), out) <=>
        /\ IsGate(node)
        /\ la.shared \/ lb.shared
        /\ node.op = "Add" /\ p # 0 => la.shared /\ lb.shared
  BY DEF Recorded
<1>4. Multiplied(job, LocalValues(p), out) <=> node.op = "Mul" /\ la.shared /\ lb.shared
  BY DEF Multiplied
<1>5. node.op = "Mul" => IsGate(node)
  BY DEF IsGate
<1> HIDE DEF la, lb
<1> QED BY <1>2, <1>3, <1>4, <1>5, Zenon

\* The value x fits what the loop computes for the current node at party p, when the
\* node uses no triple.
Fits(p, x) ==
  /\ node.op = "SecretInput" => x = [shared |-> TRUE, v |-> input_shares[p][next_secret + 1]]
  /\ node.op = "PublicInput" =>
       x = [shared |-> FALSE, v |-> job.statement.public_inputs[next_public + 1]]
  /\ node.op = "Constant" => x = [shared |-> FALSE, v |-> node.value]
  /\ node.op = "Add" => x = AddVal(p, LocalOf(va, p), LocalOf(vb, p))
  /\ node.op = "Mul" => x = MulVal(LocalOf(va, p), LocalOf(vb, p))

\* One party records nothing and broadcasts nothing.
LEMMA PartySilent ==
  ASSUME ProverInv, TraceInv, phase = "evaluating", out <= Len(job.circuit.nodes),
         NEW val \in NodeVal, NEW ref, Push(val, ref), NEW p \in Party,
         ~(/\ IsGate(node)
           /\ va.shared \/ vb.shared
           /\ node.op = "Add" /\ p # 0 => va.shared /\ vb.shared),
         Fits(p, LocalOf(val, p))
  PROVE  ViewReplays(job, Views[p], MasksOf(Views), LocalValues(p)')
<1> DEFINE v == Views[p]
           g == MasksOf(Views)
           w == LocalValues(p)
           w2 == LocalValues(p)'
           x == LocalOf(val, p)
<1>1. NextNode(job, v, g, w, x, w2, out) /\ nodeOf(job, out) = node
  BY TraceNext
<1>2. IsGate(node) => w[node.a] = LocalOf(va, p) /\ w[node.b] = LocalOf(vb, p)
  BY TraceNext
<1>3. v.party_id = p /\ v.input_shares = input_shares[p] /\ Len(g) \in Nat
  BY ViewsFacts
<1>4. ~Recorded(job, p, w, out)
  BY <1>1, <1>2, TraceRecorded
<1>5. w2[out] = x
  <2> HIDE DEF v, g, w, w2, x
  <2> QED BY <1>1, NextPosition
<1>6. /\ InputPosition(job, "SecretInput", out) = next_secret + 1
      /\ InputPosition(job, "PublicInput", out) = next_public + 1
  BY DEF ProverInv, CursorsCountLeaves, InputPosition
<1>7. LeafReplays(job, v, w2, out)
  <2> HIDE DEF v, w2, x
  <2> QED BY <1>1, <1>3, <1>5, <1>6 DEF Fits, LeafReplays, x
<1>8. /\ node.op = "Add" => x = AddVal(v.party_id, w[node.a], w[node.b])
      /\ node.op = "Mul" => x = MulVal(w[node.a], w[node.b])
  <2> HIDE DEF v, w, x
  <2> QED BY <1>2, <1>3 DEF Fits, IsGate, x
<1> HIDE DEF v, g, w, w2, x
<1>9. ViewReplays(job, v, g, w2)
  BY <1>1, <1>3, <1>4, <1>7, <1>8, SilentNode
<1> QED BY <1>9 DEF v, g, w2

\* One party records an operation and broadcasts nothing.
LEMMA PartyRecords ==
  ASSUME ProverInv, TraceInv, phase = "evaluating", out <= Len(job.circuit.nodes),
         NEW val \in NodeVal, NEW ref, Push(val, ref), NEW p \in Party, NEW op \in LocalOperation,
         IsGate(node), va.shared \/ vb.shared,
         node.op = "Add" /\ p # 0 => va.shared /\ vb.shared,
         ~(node.op = "Mul" /\ va.shared /\ vb.shared),
         Fits(p, LocalOf(val, p)),
         node.op = "Add" => op = AddOp(out, val.share[p]),
         node.op = "Mul" =>
           op = MulPublicOp(out, IF vb.shared THEN va.share[p] ELSE vb.share[p], val.share[p]),
         NEW v2, v2 = [Views[p] EXCEPT !.local_operations = Append(Views[p].local_operations, op)]
  PROVE  ViewReplays(job, v2, MasksOf(Views), LocalValues(p)')
<1> DEFINE v == Views[p]
           g == MasksOf(Views)
           w == LocalValues(p)
           w2 == LocalValues(p)'
           x == LocalOf(val, p)
<1>1. NextNode(job, v, g, w, x, w2, out) /\ nodeOf(job, out) = node
  BY TraceNext
<1>2. w[node.a] = LocalOf(va, p) /\ w[node.b] = LocalOf(vb, p)
  BY TraceNext
<1>3. v.party_id = p /\ Len(g) \in Nat
  BY ViewsFacts
<1>4. Recorded(job, p, w, out) /\ ~Multiplied(job, w, out)
  BY <1>1, <1>2, TraceRecorded
<1>5. /\ x.v = val.share[p]
      /\ w[node.a].v = va.share[p] /\ w[node.b].v = vb.share[p] /\ w[node.b].shared = vb.shared
  <2> HIDE DEF w
  <2> QED BY <1>2 DEF LocalOf
<1>6. /\ node.op = "Add" => /\ x = AddVal(v.party_id, w[node.a], w[node.b])
                            /\ op = AddOp(out, x.v)
      /\ node.op = "Mul" =>
           /\ x = MulVal(w[node.a], w[node.b])
           /\ op = MulPublicOp(out, IF w[node.b].shared THEN w[node.a].v ELSE w[node.b].v, x.v)
  <2> HIDE DEF v, w, x
  <2> QED BY <1>2, <1>3, <1>5 DEF Fits, x
<1>7. v2 = [v EXCEPT !.local_operations = Append(v.local_operations, op)]
  OBVIOUS
<1>8. Recorded(job, v.party_id, w, out)
  BY <1>3, <1>4
<1> HIDE DEF v, g, w, w2, x
<1>9. ViewReplays(job, v2, g, w2)
  BY <1>1, <1>3, <1>4, <1>6, <1>7, <1>8, RecordedNode
<1> QED BY <1>9 DEF g, w2

\* The views of a step that leaves the broadcasts alone.
LEMMA SameMasks ==
  ASSUME ProverInv, ProverInv', UNCHANGED opened_values
  PROVE  (MasksOf(Views))' = MasksOf(Views)
<1>1. \A p \in Party : Views[p].opened_values = opened_values[p]
  BY ViewsFacts
<1>2. \A p \in Party : (Views[p])'.opened_values = opened_values'[p]
  <2>1. \A p \in Party : (Views[p].opened_values)' = opened_values'[p]
    BY DEF Views, build_view
  <2> QED BY <2>1
<1>3. \A p \in Party : (Views[p])'.opened_values = Views[p].opened_values
  BY <1>1, <1>2
<1>4. 0 \in Party
  BY DEF Party
<1> QED BY <1>3, <1>4 DEF MasksOf

\* What is pushed has the type of a node's value.
LEMMA PushTypes ==
  ASSUME ProverInv, ProverInv', NEW val, NEW ref, Push(val, ref)
  PROVE  val \in NodeVal /\ ref \in F
<1>1. /\ values \in Seq(NodeVal) /\ values' \in Seq(NodeVal) /\ values' = Append(values, val)
      /\ reference \in Seq(F) /\ reference' \in Seq(F) /\ reference' = Append(reference, ref)
  BY DEF ProverInv, ProverTypeOK, Push
<1>2. ASSUME NEW S, NEW s, NEW t, NEW x, s \in Seq(S), t \in Seq(S), t = Append(s, x)
      PROVE  x \in S
  <2>1. s \in Seq(S \cup {x}) /\ x \in S \cup {x}
    BY <1>2
  <2>2. Len(t) = Len(s) + 1 /\ t[Len(s) + 1] = x /\ Len(s) \in Nat
    BY <2>1, <1>2
  <2>3. Len(s) + 1 \in 1 .. Len(t)
    BY <2>2
  <2> QED BY <2>2, <2>3, <1>2
<1> QED BY <1>1, <1>2

\* The value that evaluate_reference computes for the current node.
RefFits(ref) ==
  /\ node.op = "SecretInput" => ref = job.witness[next_secret + 1]
  /\ node.op = "PublicInput" => ref = job.statement.public_inputs[next_public + 1]
  /\ node.op = "Constant" => ref = node.value
  /\ node.op = "Add" => ref = RefAdd
  /\ node.op = "Mul" => ref = RefMul

\* If every view replays one node more, the trace goes on.
LEMMA TracePush ==
  ASSUME ProverInv, TraceInv, phase = "evaluating", out <= Len(job.circuit.nodes),
         NEW val \in NodeVal, NEW ref \in F, Push(val, ref), RefFits(ref),
         ~val.shared => \A p \in Party : val.share[p] = ref,
         \A p \in Party : ViewReplays(job, (Views[p])', (MasksOf(Views))', LocalValues(p)')
  PROVE  TraceInv'
<1>1. ProverTypeOK /\ NewError = "none" /\ job' = job /\ phase' = phase
  BY DEF ProverInv, Validated, Push
<1>2. Checked(job) /\ job.circuit.nodes \in Seq(Node)
  BY <1>1, JobChecked, JobFacts
<1>3. /\ values \in Seq(NodeVal) /\ reference \in Seq(F) /\ Len(reference) = Len(values)
      /\ IsReference(job, reference)
  BY DEF ProverInv, ProverTypeOK, CursorsCountLeaves, TraceInv
<1>4. out = Len(reference) + 1 /\ Len(reference) < Len(job.circuit.nodes)
  BY <1>2, <1>3 DEF out
<1>5. nodeOf(job, out) = node
  BY DEF nodeOf, node
<1>6. /\ InputPosition(job, "SecretInput", out) = next_secret + 1
      /\ InputPosition(job, "PublicInput", out) = next_public + 1
  BY DEF ProverInv, CursorsCountLeaves, InputPosition
<1>7. LET n == nodeOf(job, out)
      IN  /\ n.op = "SecretInput" => ref = job.witness[InputPosition(job, "SecretInput", out)]
          /\ n.op = "PublicInput" =>
               ref = job.statement.public_inputs[InputPosition(job, "PublicInput", out)]
          /\ n.op = "Constant" => ref = n.value
          /\ n.op = "Add" => ref = Plus(reference[n.a], reference[n.b])
          /\ n.op = "Mul" => ref = Times(reference[n.a], reference[n.b])
  BY <1>5, <1>6 DEF RefFits, RefAdd, RefMul
<1>8. IsReference(job, Append(reference, ref))
  BY <1>2, <1>3, <1>4, <1>7, ReferenceAppend
<1>9. IsReference(job', reference')
  BY <1>1, <1>8 DEF Push
<1>10. PublicsKnown'
  <2>1. values' = Append(values, val) /\ reference' = Append(reference, ref)
    BY DEF Push
  <2>2. /\ DOMAIN values' = DOMAIN values \cup {out}
        /\ \A i \in DOMAIN values : values'[i] = values[i] /\ reference'[i] = reference[i]
        /\ values'[out] = val /\ reference'[out] = ref
    BY <1>3, <2>1 DEF out
  <2>3. PublicsKnown
    BY DEF TraceInv
  <2> QED BY <2>2, <2>3 DEF PublicsKnown
<1>11. phase' # "done" /\ ViewsCommitted'
  BY <1>1 DEF ViewsCommitted
<1>12. \A p \in Party :
         ViewReplays(job, Views[p], MasksOf(Views), LocalValues(p))'
  BY <1>1
<1> QED BY <1>9, <1>10, <1>11, <1>12 DEF TraceInv

\* Views that are left alone.
LEMMA SameView ==
  ASSUME UNCHANGED proof, NEW p \in Party, input_shares'[p] = input_shares[p],
         local_operations'[p] = local_operations[p], triple_shares'[p] = triple_shares[p],
         opened_values'[p] = opened_values[p]
  PROVE  (Views[p])' = Views[p]
BY DEF Views, build_view, id

\* A node that no party records.
LEMMA TraceSilentStep ==
  ASSUME ProverInv, ProverInv', TraceInv, phase = "evaluating", out <= Len(job.circuit.nodes),
         NEW val, NEW ref, Push(val, ref), UNCHANGED partyVars,
         IsGate(node) => ~va.shared /\ ~vb.shared,
         \A p \in Party : Fits(p, LocalOf(val, p)), RefFits(ref),
         ~val.shared => \A p \in Party : val.share[p] = ref
  PROVE  TraceInv'
<1>1. val \in NodeVal /\ ref \in F
  BY PushTypes
<1>2. /\ opened_values' = opened_values /\ local_operations' = local_operations
      /\ triple_shares' = triple_shares /\ proof' = proof /\ input_shares' = input_shares
  BY DEF partyVars, Push, inputVars
<1>3. (MasksOf(Views))' = MasksOf(Views)
  BY <1>2, SameMasks
<1>4. ASSUME NEW p \in Party
      PROVE  ViewReplays(job, (Views[p])', (MasksOf(Views))', LocalValues(p)')
  <2>1. (Views[p])' = Views[p]
    BY <1>2, SameView
  <2>2. Fits(p, LocalOf(val, p))
    OBVIOUS
  <2>3. ~(/\ IsGate(node)
          /\ va.shared \/ vb.shared
          /\ node.op = "Add" /\ p # 0 => va.shared /\ vb.shared)
    OBVIOUS
  <2>4. ViewReplays(job, Views[p], MasksOf(Views), LocalValues(p)')
    BY <1>1, <2>2, <2>3, PartySilent
  <2> QED BY <1>3, <2>1, <2>4
<1> QED BY <1>1, <1>4, TracePush

\* What a party sees of the operands of the gate the loop is at.
LEMMA OperandTrace ==
  ASSUME ProverInv, TraceInv, AtNode("Add") \/ AtNode("Mul"), NEW p \in Party
  PROVE  /\ va.shared \in BOOLEAN /\ vb.shared \in BOOLEAN
         /\ va.share[p] \in F /\ vb.share[p] \in F
         /\ LocalOf(va, p).shared = va.shared /\ LocalOf(va, p).v = va.share[p]
         /\ LocalOf(vb, p).shared = vb.shared /\ LocalOf(vb, p).v = vb.share[p]
         /\ ~va.shared => public_part(va) = va.share[p] /\ va.share[p] = reference[node.a]
         /\ ~vb.shared => public_part(vb) = vb.share[p] /\ vb.share[p] = reference[node.b]
<1>1. /\ phase = "evaluating" /\ out <= Len(job.circuit.nodes) /\ IsGate(node)
      /\ va \in NodeVal /\ vb \in NodeVal
  BY GateFacts
<1>2. ProverTypeOK /\ NewError = "none" /\ values \in Seq(NodeVal)
  BY <1>1 DEF ProverInv, Validated, ProverTypeOK
<1>3. out \in DOMAIN job.circuit.nodes /\ job.circuit.nodes \in Seq(Node)
  BY <1>1, <1>2, JobFacts, NodeFacts
<1>4. Checked(job)
  BY <1>2, JobChecked
<1>5. /\ node.a \in DOMAIN job.circuit.nodes /\ node.a < out
      /\ node.b \in DOMAIN job.circuit.nodes /\ node.b < out
  BY <1>1, <1>3, <1>4, OperandsBefore DEF Checked, node
<1>6. node.a \in DOMAIN values /\ node.b \in DOMAIN values
  BY <1>2, <1>3, <1>5 DEF out
<1>7. /\ va.shared \in BOOLEAN /\ vb.shared \in BOOLEAN
      /\ va.share \in Sharing /\ vb.share \in Sharing
  BY <1>1, NodeValFacts
<1>8. va.share[p] \in F /\ vb.share[p] \in F
  BY <1>7 DEF Sharing
<1>9. /\ LocalOf(va, p).shared = va.shared /\ LocalOf(va, p).v = va.share[p]
      /\ LocalOf(vb, p).shared = vb.shared /\ LocalOf(vb, p).v = vb.share[p]
  BY DEF LocalOf
<1>10. /\ ~va.shared => \A q \in Party : va.share[q] = reference[node.a]
       /\ ~vb.shared => \A q \in Party : vb.share[q] = reference[node.b]
  BY <1>6 DEF TraceInv, PublicsKnown, va, vb
<1>11. 0 \in Party
  BY DEF Party
<1>12. /\ ~va.shared => public_part(va) = va.share[p] /\ va.share[p] = reference[node.a]
       /\ ~vb.shared => public_part(vb) = vb.share[p] /\ vb.share[p] = reference[node.b]
  BY <1>10, <1>11 DEF public_part
<1> QED BY <1>7, <1>8, <1>9, <1>12

\* Inputs, constants and gates on public operands.
LEMMA TraceLeaves ==
  ASSUME ProverInv, ProverInv', TraceInv,
         SecretInputNode \/ PublicInputNode \/ ConstantNode \/ AddPublic \/ MulPublic
  PROVE  TraceInv'
<1>1. CASE SecretInputNode
  <2> DEFINE val == Shared([p \in Party |-> input_shares[p][next_secret + 1]])
             ref == job.witness[next_secret + 1]
  <2>1. /\ Push(val, ref) /\ phase = "evaluating" /\ out <= Len(job.circuit.nodes)
        /\ node.op = "SecretInput" /\ UNCHANGED partyVars
    BY <1>1 DEF SecretInputNode, AtNode
  <2>2. \A p \in Party : Fits(p, LocalOf(val, p))
    BY <2>1 DEF Fits, LocalOf, Shared
  <2>3. val.shared
    BY DEF Shared
  <2>4. RefFits(ref) /\ ~IsGate(node)
    BY <2>1 DEF RefFits, IsGate
  <2> HIDE DEF val, ref
  <2> QED BY <2>1, <2>2, <2>3, <2>4, TraceSilentStep
<1>2. CASE PublicInputNode
  <2> DEFINE ref == job.statement.public_inputs[next_public + 1]
             val == Public(ref)
  <2>1. /\ Push(val, ref) /\ phase = "evaluating" /\ out <= Len(job.circuit.nodes)
        /\ node.op = "PublicInput" /\ UNCHANGED partyVars
    BY <1>2 DEF PublicInputNode, AtNode
  <2>2. \A p \in Party : Fits(p, LocalOf(val, p))
    BY <2>1 DEF Fits, LocalOf, Public
  <2>3. \A p \in Party : val.share[p] = ref
    BY DEF Public
  <2>4. RefFits(ref) /\ ~IsGate(node)
    BY <2>1 DEF RefFits, IsGate
  <2> HIDE DEF val, ref
  <2> QED BY <2>1, <2>2, <2>3, <2>4, TraceSilentStep
<1>3. CASE ConstantNode
  <2> DEFINE ref == node.value
             val == Public(ref)
  <2>1. /\ Push(val, ref) /\ phase = "evaluating" /\ out <= Len(job.circuit.nodes)
        /\ node.op = "Constant" /\ UNCHANGED partyVars
    BY <1>3 DEF ConstantNode, AtNode
  <2>2. \A p \in Party : Fits(p, LocalOf(val, p))
    BY <2>1 DEF Fits, LocalOf, Public
  <2>3. \A p \in Party : val.share[p] = ref
    BY DEF Public
  <2>4. RefFits(ref) /\ ~IsGate(node)
    BY <2>1 DEF RefFits, IsGate
  <2> HIDE DEF val, ref
  <2> QED BY <2>1, <2>2, <2>3, <2>4, TraceSilentStep
<1>4. CASE AddPublic
  <2> DEFINE ref == RefAdd
             v == Plus(public_part(va), public_part(vb))
             val == Public(v)
  <2>1. /\ Push(val, ref) /\ UNCHANGED partyVars /\ AtNode("Add") /\ ~va.shared /\ ~vb.shared
    BY <1>4 DEF AddPublic
  <2>2. phase = "evaluating" /\ out <= Len(job.circuit.nodes) /\ node.op = "Add"
    BY <2>1 DEF AtNode
  <2>3. ASSUME NEW p \in Party
        PROVE  v = Plus(va.share[p], vb.share[p]) /\ v = ref /\ Fits(p, LocalOf(val, p))
    <3>1. v = Plus(va.share[p], vb.share[p]) /\ v = ref
      BY <2>1, OperandTrace DEF RefAdd
    <3>2. LocalOf(val, p) = [shared |-> FALSE, v |-> v]
      BY DEF LocalOf, Public
    <3>3. AddVal(p, LocalOf(va, p), LocalOf(vb, p)) = [shared |-> FALSE, v |-> v]
      BY <2>1, <3>1, OperandTrace DEF AddVal
    <3> HIDE DEF val, v
    <3> QED BY <2>2, <3>1, <3>2, <3>3 DEF Fits
  <2>4. \A p \in Party : val.share[p] = v
    BY DEF Public
  <2>5. RefFits(ref)
    BY <2>2 DEF RefFits
  <2> HIDE DEF val, ref, v
  <2> QED BY <2>1, <2>2, <2>3, <2>4, <2>5, TraceSilentStep
<1>5. CASE MulPublic
  <2> DEFINE ref == RefMul
             v == Times(public_part(va), public_part(vb))
             val == Public(v)
  <2>1. /\ Push(val, ref) /\ UNCHANGED partyVars /\ AtNode("Mul") /\ ~va.shared /\ ~vb.shared
    BY <1>5 DEF MulPublic
  <2>2. phase = "evaluating" /\ out <= Len(job.circuit.nodes) /\ node.op = "Mul"
    BY <2>1 DEF AtNode
  <2>3. ASSUME NEW p \in Party
        PROVE  v = Times(va.share[p], vb.share[p]) /\ v = ref /\ Fits(p, LocalOf(val, p))
    <3>1. v = Times(va.share[p], vb.share[p]) /\ v = ref
      BY <2>1, OperandTrace DEF RefMul
    <3>2. LocalOf(val, p) = [shared |-> FALSE, v |-> v]
      BY DEF LocalOf, Public
    <3>3. MulVal(LocalOf(va, p), LocalOf(vb, p)) = [shared |-> FALSE, v |-> v]
      BY <2>1, <3>1, OperandTrace DEF MulVal
    <3> HIDE DEF val, v
    <3> QED BY <2>2, <3>1, <3>2, <3>3 DEF Fits
  <2>4. \A p \in Party : val.share[p] = v
    BY DEF Public
  <2>5. RefFits(ref)
    BY <2>2 DEF RefFits
  <2> HIDE DEF val, ref, v
  <2> QED BY <2>1, <2>2, <2>3, <2>4, <2>5, TraceSilentStep
<1> QED BY <1>1, <1>2, <1>3, <1>4, <1>5

\* A view with one operation more.
LEMMA OneMoreOp ==
  ASSUME ProverInv, UNCHANGED proof, NEW p \in Party, NEW op,
         input_shares'[p] = input_shares[p],
         local_operations'[p] = Append(local_operations[p], op),
         triple_shares'[p] = triple_shares[p],
         opened_values'[p] = opened_values[p]
  PROVE  (Views[p])' = [Views[p] EXCEPT !.local_operations = Append(Views[p].local_operations, op)]
<1>1. Views[p] = build_view(p) /\ (Views[p])' = build_view(p)'
  BY DEF Views
<1>2. Views[p].local_operations = local_operations[p] /\ id' = id
  BY ViewsFacts DEF id
<1> DEFINE ops == Append(local_operations[p], op)
<1>3. build_view(p)' = [repetition_id |-> id, party_id |-> p, input_shares |-> input_shares[p],
                        local_operations |-> ops, triple_shares |-> triple_shares[p],
                        opened_values |-> opened_values[p]]
  BY <1>2 DEF build_view
<1>4. [build_view(p) EXCEPT !.local_operations = ops]
        = [repetition_id |-> id, party_id |-> p, input_shares |-> input_shares[p],
           local_operations |-> ops, triple_shares |-> triple_shares[p],
           opened_values |-> opened_values[p]]
  <2> HIDE DEF ops
  <2> QED BY DEF build_view
<1> QED BY <1>1, <1>2, <1>3, <1>4

\* A gate on shared operands that uses no triple.
LEMMA TraceRecordStep ==
  ASSUME ProverInv, ProverInv', TraceInv, AtNode("Add") \/ AtNode("Mul"),
         NEW s \in Sharing, NEW ref, Push(Shared(s), ref), RefFits(ref),
         va.shared \/ vb.shared, ~(node.op = "Mul" /\ va.shared /\ vb.shared),
         UNCHANGED <<triple_shares, opened_values>>,
         \A p \in Party : Fits(p, LocalOf(Shared(s), p)),
         \A p \in Party :
           IF node.op = "Add" /\ p # 0 => va.shared /\ vb.shared
           THEN \E op \in LocalOperation :
                  /\ local_operations'[p] = Append(local_operations[p], op)
                  /\ node.op = "Add" => op = AddOp(out, s[p])
                  /\ node.op = "Mul" =>
                       op = MulPublicOp(out, IF vb.shared THEN va.share[p] ELSE vb.share[p], s[p])
           ELSE local_operations'[p] = local_operations[p]
  PROVE  TraceInv'
<1> DEFINE val == Shared(s)
<1>1. val \in NodeVal /\ ref \in F /\ val.shared /\ val.share = s
  BY PushTypes DEF Shared
<1>2. phase = "evaluating" /\ out <= Len(job.circuit.nodes) /\ IsGate(node)
  BY GateFacts
<1>3. /\ opened_values' = opened_values /\ triple_shares' = triple_shares
      /\ proof' = proof /\ input_shares' = input_shares
  BY DEF Push, inputVars
<1>4. (MasksOf(Views))' = MasksOf(Views)
  BY <1>3, SameMasks
<1>5. Push(val, ref) /\ \A p \in Party : Fits(p, LocalOf(val, p))
  OBVIOUS
<1> HIDE DEF val
<1>6. ASSUME NEW p \in Party
      PROVE  ViewReplays(job, (Views[p])', (MasksOf(Views))', LocalValues(p)')
  <2>1. CASE node.op = "Add" /\ p # 0 => va.shared /\ vb.shared
    <3>1. PICK op \in LocalOperation :
            /\ local_operations'[p] = Append(local_operations[p], op)
            /\ node.op = "Add" => op = AddOp(out, s[p])
            /\ node.op = "Mul" =>
                 op = MulPublicOp(out, IF vb.shared THEN va.share[p] ELSE vb.share[p], s[p])
      BY <2>1
    <3> DEFINE v2 == (Views[p])'
    <3>2. v2 = [Views[p] EXCEPT !.local_operations = Append(Views[p].local_operations, op)]
      BY <1>3, <3>1, OneMoreOp
    <3>3. /\ node.op = "Add" => op = AddOp(out, val.share[p])
          /\ node.op = "Mul" =>
              op = MulPublicOp(out, IF vb.shared THEN va.share[p] ELSE vb.share[p], val.share[p])
      BY <1>1, <3>1
    <3> HIDE DEF v2
    <3>4. ViewReplays(job, v2, MasksOf(Views), LocalValues(p)')
      BY <1>1, <1>2, <1>5, <2>1, <3>2, <3>3, PartyRecords
    <3> QED BY <1>4, <3>4 DEF v2
  <2>2. CASE ~(node.op = "Add" /\ p # 0 => va.shared /\ vb.shared)
    <3>1. (Views[p])' = Views[p]
      BY <1>3, <2>2, SameView
    <3>2. ~(/\ IsGate(node)
            /\ va.shared \/ vb.shared
            /\ node.op = "Add" /\ p # 0 => va.shared /\ vb.shared)
      BY <2>2
    <3>3. ViewReplays(job, Views[p], MasksOf(Views), LocalValues(p)')
      BY <1>1, <1>2, <1>5, <3>2, PartySilent
    <3> QED BY <1>4, <3>1, <3>3
  <2> QED BY <2>1, <2>2
<1> QED BY <1>1, <1>2, <1>5, <1>6, TracePush

\* The sum of two shared nodes.
LEMMA TraceAddShared ==
  ASSUME ProverInv, ProverInv', TraceInv, AddShared
  PROVE  TraceInv'
<1> DEFINE s == [p \in Party |-> Plus(va.share[p], vb.share[p])]
           op == [p \in Party |-> AddOp(out, s[p])]
<1>1. AtNode("Add") /\ va.shared /\ vb.shared /\ node.op = "Add"
  BY DEF AddShared, AtNode
<1>2. va.share \in Sharing /\ vb.share \in Sharing /\ out \in NodeId
  BY <1>1, GateFacts, NodeValFacts
<1>3. s \in Sharing
  BY <1>2, FieldClosed DEF Sharing
<1>4. /\ Push(Shared(s), RefAdd)
      /\ local_operations' = [p \in Party |-> Append(local_operations[p], op[p])]
      /\ UNCHANGED <<cursorVars, triple_shares, opened_values>>
  BY DEF AddShared, RecordOps, operand
<1>5. ASSUME NEW p \in Party PROVE Fits(p, LocalOf(Shared(s), p))
  <2>1. LocalOf(Shared(s), p) = [shared |-> TRUE, v |-> Plus(va.share[p], vb.share[p])]
    BY DEF LocalOf, Shared
  <2>2. AddVal(p, LocalOf(va, p), LocalOf(vb, p))
          = [shared |-> TRUE, v |-> Plus(va.share[p], vb.share[p])]
    BY <1>1, OperandTrace DEF AddVal
  <2> HIDE DEF s
  <2> QED BY <1>1, <2>1, <2>2 DEF Fits
<1> HIDE DEF s
<1>6. \A p \in Party : op[p] \in LocalOperation /\ op[p] = AddOp(out, s[p])
  BY <1>2, <1>3 DEF AddOp, LocalOperation, Sharing
<1> HIDE DEF op
<1>7. \A p \in Party :
           IF node.op = "Add" /\ p # 0 => va.shared /\ vb.shared
           THEN \E o \in LocalOperation :
                  /\ local_operations'[p] = Append(local_operations[p], o)
                  /\ node.op = "Add" => o = AddOp(out, s[p])
                  /\ node.op = "Mul" =>
                       o = MulPublicOp(out, IF vb.shared THEN va.share[p] ELSE vb.share[p], s[p])
           ELSE local_operations'[p] = local_operations[p]
  BY <1>1, <1>4, <1>6
<1>8. RefFits(RefAdd)
  BY <1>1 DEF RefFits
<1>9. UNCHANGED <<triple_shares, opened_values>>
  BY <1>4
<1> QED BY <1>1, <1>3, <1>4, <1>5, <1>7, <1>8, <1>9, TraceRecordStep

\* A shared node and a public one.
LEMMA TraceAddMixed ==
  ASSUME ProverInv, ProverInv', TraceInv, AddMixed
  PROVE  TraceInv'
<1> DEFINE u == IF va.shared THEN va ELSE vb
           v == IF va.shared THEN public_part(vb) ELSE public_part(va)
           s == [p \in Party |-> Absorb(p, u.share[p], v)]
           op == AddOp(out, s[0])
<1>1. AtNode("Add") /\ va.shared # vb.shared /\ node.op = "Add"
  BY DEF AddMixed, AtNode
<1>2. u.share \in Sharing /\ v \in F
  BY <1>1, MixedOperands
<1>3. /\ Push(Shared(s), RefAdd)
      /\ local_operations' = [local_operations EXCEPT ![0] = Append(local_operations[0], op)]
      /\ UNCHANGED <<cursorVars, triple_shares, opened_values>>
  BY DEF AddMixed, operand, Party
<1>4. s \in Sharing
  <2> HIDE DEF u, v
  <2> QED BY <1>2, Sum3Absorb
<1>5. va.shared \in BOOLEAN /\ vb.shared \in BOOLEAN /\ 0 \in Party /\ out \in NodeId
  BY <1>1, OperandTrace, GateFacts DEF Party
<1>6. ASSUME NEW p \in Party PROVE Fits(p, LocalOf(Shared(s), p))
  <2> DEFINE z == s[p]
  <2>1. LocalOf(Shared(s), p) = [shared |-> TRUE, v |-> z]
    <3> HIDE DEF s
    <3> QED BY DEF LocalOf, Shared
  <2>2. z = Absorb(p, u.share[p], v)
    OBVIOUS
  <2>3. z = IF p = 0 THEN Plus(va.share[p], vb.share[p])
            ELSE IF va.shared THEN va.share[p] ELSE vb.share[p]
    <3>1. CASE va.shared
      <4>1. ~vb.shared /\ u = va /\ v = public_part(vb)
        BY <1>1, <1>5, <3>1
      <4>2. v = vb.share[p]
        BY <1>1, <4>1, OperandTrace
      <4> HIDE DEF u, v, z
      <4> QED BY <2>2, <3>1, <4>1, <4>2 DEF Absorb
    <3>2. CASE ~va.shared
      <4>1. vb.shared /\ u = vb /\ v = public_part(va)
        BY <1>1, <1>5, <3>2
      <4>2. v = va.share[p]
        BY <1>1, <3>2, <4>1, OperandTrace
      <4>3. Plus(vb.share[p], va.share[p]) = Plus(va.share[p], vb.share[p])
        BY <1>1, OperandTrace, PlusGroup
      <4> HIDE DEF u, v, z
      <4> QED BY <2>2, <3>2, <4>1, <4>2, <4>3 DEF Absorb
    <3> QED BY <3>1, <3>2
  <2> HIDE DEF z
  <2>4. AddVal(p, LocalOf(va, p), LocalOf(vb, p)) = [shared |-> TRUE, v |-> z]
    <3>1. (va.shared \/ vb.shared) = TRUE
      BY <1>1, <1>5
    <3> QED BY <1>1, <2>3, <3>1, OperandTrace DEF AddVal
  <2> HIDE DEF s
  <2> QED BY <1>1, <2>1, <2>4 DEF Fits
<1> HIDE DEF u, v, s
<1>7. op \in LocalOperation
  <2>1. s[0] \in F
    BY <1>4, <1>5 DEF Sharing
  <2> QED BY <1>5, <2>1 DEF AddOp, LocalOperation
<1>8. op = AddOp(out, s[0])
  OBVIOUS
<1> HIDE DEF op
<1>9. local_operations \in [Party -> Seq(LocalOperation)]
  BY DEF ProverInv, ProverTypeOK
<1>10. ASSUME NEW p \in Party
       PROVE  IF node.op = "Add" /\ p # 0 => va.shared /\ vb.shared
              THEN \E o \in LocalOperation :
                  /\ local_operations'[p] = Append(local_operations[p], o)
                  /\ node.op = "Add" => o = AddOp(out, s[p])
                  /\ node.op = "Mul" =>
                       o = MulPublicOp(out, IF vb.shared THEN va.share[p] ELSE vb.share[p], s[p])
              ELSE local_operations'[p] = local_operations[p]
  <2>1. CASE p = 0
    BY <1>1, <1>3, <1>7, <1>8, <1>9, <2>1
  <2>2. CASE p # 0
    <3>1. local_operations'[p] = local_operations[p]
      BY <1>3, <1>9, <2>2
    <3>2. ~(va.shared /\ vb.shared)
      BY <1>1, <1>5
    <3> QED BY <1>1, <2>2, <3>1, <3>2
  <2> QED BY <2>1, <2>2
<1>11. RefFits(RefAdd)
  BY <1>1 DEF RefFits
<1>12. (va.shared \/ vb.shared) /\ UNCHANGED <<triple_shares, opened_values>> /\ node.op # "Mul"
  BY <1>1, <1>3, <1>5
<1> QED BY <1>1, <1>3, <1>4, <1>6, <1>10, <1>11, <1>12, TraceRecordStep

\* A shared node times a public one.
LEMMA TraceMulMixed ==
  ASSUME ProverInv, ProverInv', TraceInv, MulMixed
  PROVE  TraceInv'
<1> DEFINE u == IF va.shared THEN va ELSE vb
           v == IF va.shared THEN public_part(vb) ELSE public_part(va)
           s == [p \in Party |-> Times(u.share[p], v)]
           op == [p \in Party |-> MulPublicOp(out, v, s[p])]
<1>1. AtNode("Mul") /\ va.shared # vb.shared /\ node.op = "Mul"
  BY DEF MulMixed, AtNode
<1>2. u.share \in Sharing /\ v \in F
  BY <1>1, MixedOperands
<1>3. /\ Push(Shared(s), RefMul)
      /\ local_operations' = [p \in Party |-> Append(local_operations[p], op[p])]
      /\ UNCHANGED <<cursorVars, triple_shares, opened_values>>
  BY DEF MulMixed, RecordOps, operand
<1>4. s \in Sharing
  <2> HIDE DEF u, v
  <2> QED BY <1>2, FieldClosed DEF Sharing
<1>5. va.shared \in BOOLEAN /\ vb.shared \in BOOLEAN /\ 0 \in Party /\ out \in NodeId
  BY <1>1, OperandTrace, GateFacts DEF Party
<1>6. ASSUME NEW p \in Party
      PROVE  /\ Fits(p, LocalOf(Shared(s), p))
             /\ v = IF vb.shared THEN va.share[p] ELSE vb.share[p]
  <2> DEFINE z == s[p]
  <2>1. LocalOf(Shared(s), p) = [shared |-> TRUE, v |-> z]
    <3> HIDE DEF s
    <3> QED BY DEF LocalOf, Shared
  <2>2. z = Times(u.share[p], v)
    OBVIOUS
  <2>3. /\ z = Times(va.share[p], vb.share[p])
        /\ v = IF vb.shared THEN va.share[p] ELSE vb.share[p]
    <3>1. CASE va.shared
      <4>1. ~vb.shared /\ u = va /\ v = public_part(vb)
        BY <1>1, <1>5, <3>1
      <4>2. v = vb.share[p]
        BY <1>1, <4>1, OperandTrace
      <4> HIDE DEF u, v, z
      <4> QED BY <2>2, <4>1, <4>2
    <3>2. CASE ~va.shared
      <4>1. vb.shared /\ u = vb /\ v = public_part(va)
        BY <1>1, <1>5, <3>2
      <4>2. v = va.share[p]
        BY <1>1, <3>2, <4>1, OperandTrace
      <4>3. Times(vb.share[p], va.share[p]) = Times(va.share[p], vb.share[p])
        BY <1>1, OperandTrace, TimesMonoid
      <4> HIDE DEF u, v, z
      <4> QED BY <2>2, <4>1, <4>2, <4>3
    <3> QED BY <3>1, <3>2
  <2> HIDE DEF z, v
  <2>4. MulVal(LocalOf(va, p), LocalOf(vb, p)) = [shared |-> TRUE, v |-> z]
    <3>1. (va.shared \/ vb.shared) = TRUE
      BY <1>1, <1>5
    <3> QED BY <1>1, <2>3, <3>1, OperandTrace DEF MulVal
  <2> HIDE DEF s
  <2> QED BY <1>1, <2>1, <2>3, <2>4 DEF Fits
<1> HIDE DEF u, v, s
<1>7. \A p \in Party : op[p] \in LocalOperation /\ op[p] = MulPublicOp(out, v, s[p])
  BY <1>2, <1>4, <1>5 DEF MulPublicOp, LocalOperation, Sharing
<1> HIDE DEF op
<1>8. ASSUME NEW p \in Party
      PROVE  \E o \in LocalOperation :
                  /\ local_operations'[p] = Append(local_operations[p], o)
                  /\ node.op = "Add" => o = AddOp(out, s[p])
                  /\ node.op = "Mul" =>
                       o = MulPublicOp(out, IF vb.shared THEN va.share[p] ELSE vb.share[p], s[p])
  <2>1. /\ local_operations'[p] = Append(local_operations[p], op[p])
        /\ op[p] = MulPublicOp(out, IF vb.shared THEN va.share[p] ELSE vb.share[p], s[p])
    BY <1>3, <1>6, <1>7
  <2> QED BY <1>1, <1>7, <2>1
<1>9. \A p \in Party :
         IF node.op = "Add" /\ p # 0 => va.shared /\ vb.shared
         THEN \E o \in LocalOperation :
                  /\ local_operations'[p] = Append(local_operations[p], o)
                  /\ node.op = "Add" => o = AddOp(out, s[p])
                  /\ node.op = "Mul" =>
                       o = MulPublicOp(out, IF vb.shared THEN va.share[p] ELSE vb.share[p], s[p])
         ELSE local_operations'[p] = local_operations[p]
  BY <1>1, <1>8
<1>10. RefFits(RefMul)
  BY <1>1 DEF RefFits
<1>11. /\ va.shared \/ vb.shared
       /\ ~(va.shared /\ vb.shared)
       /\ UNCHANGED <<triple_shares, opened_values>>
  BY <1>1, <1>3, <1>5
<1>12. \A p \in Party : Fits(p, LocalOf(Shared(s), p))
  BY <1>6
<1> QED BY <1>1, <1>3, <1>4, <1>9, <1>10, <1>11, <1>12, TraceRecordStep

\* A view after one more multiplication.
LEMMA OneMoreTriple ==
  ASSUME ProverInv, UNCHANGED proof, NEW p \in Party, NEW op \in LocalOperation,
         NEW tr \in TripleShare, NEW d \in F, NEW e \in F,
         input_shares'[p] = input_shares[p],
         local_operations'[p] = Append(local_operations[p], op),
         triple_shares'[p] = Append(triple_shares[p], tr),
         opened_values'[p] = opened_values[p] \o <<d, e>>
  PROVE  AfterTriple(Views[p], (Views[p])', op, tr, d, e)
<1>1. Views[p] = build_view(p) /\ (Views[p])' = build_view(p)'
  BY DEF Views
<1>2. /\ Views[p].local_operations = local_operations[p] /\ id' = id
      /\ Views[p].triple_shares = triple_shares[p] /\ Views[p].opened_values = opened_values[p]
      /\ Views[p] \in PartyView
  BY ViewsFacts DEF id
<1>3. /\ Views[p].party_id = p /\ Views[p].repetition_id = id
      /\ Views[p].input_shares = input_shares[p]
  BY ViewsFacts
<1> DEFINE ops == Append(local_operations[p], op)
           ts == Append(triple_shares[p], tr)
           os == opened_values[p] \o <<d, e>>
<1>4. build_view(p)' = [repetition_id |-> id, party_id |-> p, input_shares |-> input_shares[p],
                        local_operations |-> ops, triple_shares |-> ts, opened_values |-> os]
  BY <1>2 DEF build_view
<1> QED BY <1>1, <1>2, <1>3, <1>4 DEF AfterTriple

\* A Beaver multiplication, in every view.
LEMMA TraceBeaverMul ==
  ASSUME ProverInv, ProverInv', TraceInv, NEW ta \in Sharing, NEW tb \in Sharing,
         NEW tc \in Sharing, BeaverMul(ta, tb, tc)
  PROVE  TraceInv'
<1> DEFINE x == va.share
           y == vb.share
           dp == [p \in Party |-> Minus(x[p], ta[p])]
           ep == [p \in Party |-> Minus(y[p], tb[p])]
           d == Sum3(dp)
           e == Sum3(ep)
           z == [p \in Party |-> beaver_share(p, ta[p], tb[p], tc[p], d, e)]
           t == Len(triple_shares[0]) + 1
           op == [p \in Party |-> BeaverMulOp(out, t, d, e, z[p])]
           triple == [p \in Party |-> [a |-> ta[p], b |-> tb[p], c |-> tc[p]]]
           val == Shared(z)
<1>1. AtNode("Mul") /\ va.shared /\ vb.shared /\ node.op = "Mul"
  BY DEF BeaverMul, AtNode
<1>2. /\ x \in Sharing /\ y \in Sharing /\ out \in NodeId
      /\ phase = "evaluating" /\ out <= Len(job.circuit.nodes) /\ IsGate(node)
  BY <1>1, GateFacts, NodeValFacts
<1>3. /\ Push(val, RefMul)
      /\ local_operations' = [p \in Party |-> Append(local_operations[p], op[p])]
      /\ triple_shares' = [p \in Party |-> Append(triple_shares[p], triple[p])]
      /\ opened_values' = [p \in Party |-> opened_values[p] \o <<dp[p], ep[p]>>]
  BY DEF BeaverMul, RecordOps, operand, Broadcast
<1>4. input_shares' = input_shares /\ proof' = proof
  BY <1>3 DEF Push, inputVars
<1> HIDE DEF x, y
<1>5. dp \in Sharing /\ ep \in Sharing
  BY <1>2, MinusPlus DEF Sharing
<1>6. d \in F /\ e \in F
  BY <1>5, Sum3Type
<1>7. \A p \in Party : dp[p] = Minus(x[p], ta[p]) /\ ep[p] = Minus(y[p], tb[p])
  OBVIOUS
<1> HIDE DEF dp, ep
<1>8. d = Sum3(dp) /\ e = Sum3(ep)
  OBVIOUS
<1> HIDE DEF d, e
<1>9. \A p \in Party : z[p] = beaver_share(p, ta[p], tb[p], tc[p], d, e) /\ z[p] \in F
  <2>1. ASSUME NEW p \in Party
        PROVE  beaver_share(p, ta[p], tb[p], tc[p], d, e) \in F
    <3>1. ta[p] \in F /\ tb[p] \in F /\ tc[p] \in F
      BY DEF Sharing
    <3> QED BY <1>6, <3>1, FieldClosed DEF beaver_share, Absorb
  <2> QED BY <2>1
<1>10. \A p \in Party : /\ triple[p] \in TripleShare
                        /\ triple[p].a = ta[p] /\ triple[p].b = tb[p] /\ triple[p].c = tc[p]
  BY DEF Sharing, TripleShare
<1>11. \A p \in Party : LocalOf(val, p) = [shared |-> TRUE, v |-> z[p]]
  <2> HIDE DEF z
  <2> QED BY DEF LocalOf, Shared
<1>12. t \in NodeId /\ \A p \in Party : Len(Views[p].triple_shares) + 1 = t
  <2>1. /\ triple_shares \in [Party -> Seq(TripleShare)]
        /\ \A p \in Party : Len(triple_shares[p]) = Len(triple_shares[0])
    BY DEF ProverInv, ProverTypeOK, BroadcastsInStep
  <2>2. \A p \in Party : Views[p].triple_shares = triple_shares[p]
    BY ViewsFacts
  <2>3. 0 \in Party
    BY DEF Party
  <2> QED BY <2>1, <2>2, <2>3 DEF NodeId
<1> HIDE DEF z, t, triple
<1>13. \A p \in Party : op[p] \in LocalOperation /\ op[p] = BeaverMulOp(out, t, d, e, z[p])
  BY <1>2, <1>6, <1>9, <1>12 DEF BeaverMulOp, LocalOperation
<1> HIDE DEF op
<1>14. val \in NodeVal /\ val.shared /\ RefMul \in F
  <2>1. val.shared
    BY DEF Shared
  <2> HIDE DEF val
  <2> QED BY <1>3, <2>1, PushTypes
<1> HIDE DEF val
<1>15. ASSUME NEW p \in Party
       PROVE  AfterTriple(Views[p], (Views[p])', op[p], triple[p], dp[p], ep[p])
  <2>1. op[p] \in LocalOperation /\ triple[p] \in TripleShare /\ dp[p] \in F /\ ep[p] \in F
    BY <1>5, <1>10, <1>13 DEF Sharing
  <2>2. /\ input_shares'[p] = input_shares[p]
        /\ local_operations'[p] = Append(local_operations[p], op[p])
        /\ triple_shares'[p] = Append(triple_shares[p], triple[p])
        /\ opened_values'[p] = opened_values[p] \o <<dp[p], ep[p]>>
    BY <1>3, <1>4
  <2> QED BY <1>4, <2>1, <2>2, OneMoreTriple
<1>16. MasksExtended(MasksOf(Views), (MasksOf(Views))', d, e)
  <2> DEFINE vs == Views
             vs2 == Views'
  <2>1. vs2 = [p \in Party |-> vs2[p]]
    BY DEF Views
  <2>2. /\ vs \in [Party -> PartyView]
        /\ \A p \in Party : Len(vs[p].opened_values) = Len(vs[0].opened_values)
    BY ViewsFacts
  <2>3. \A p \in Party : AfterTriple(vs[p], vs2[p], op[p], triple[p], dp[p], ep[p])
    BY <1>15
  <2> HIDE DEF vs, vs2
  <2>4. MasksExtended(MasksOf(vs), MasksOf(vs2), Sum3(dp), Sum3(ep))
    BY <1>5, <2>1, <2>2, <2>3, MasksGrow
  <2> QED BY <1>8, <2>4 DEF vs, vs2
<1>17. ASSUME NEW p \in Party
       PROVE  ViewReplays(job, (Views[p])', (MasksOf(Views))', LocalValues(p)')
  <2> DEFINE v == Views[p]
             v2 == (Views[p])'
             g == MasksOf(Views)
             g2 == (MasksOf(Views))'
             w == LocalValues(p)
             w2 == LocalValues(p)'
             l == LocalOf(val, p)
  <2>1. NextNode(job, v, g, w, l, w2, out) /\ nodeOf(job, out) = node
    BY <1>2, <1>3, <1>14, TraceNext
  <2>2. w[node.a] = LocalOf(va, p) /\ w[node.b] = LocalOf(vb, p)
    BY <1>2, <1>3, <1>14, TraceNext
  <2>3. v.party_id = p /\ Len(g) = Len(v.opened_values)
    BY ViewsFacts
  <2>4. Multiplied(job, w, out)
    BY <1>1, <1>2, <2>1, <2>2, TraceRecorded
  <2>5. w[node.a].v = x[p] /\ w[node.b].v = y[p]
    <3> HIDE DEF w
    <3> QED BY <2>2 DEF LocalOf, x, y
  <2>6. AfterTriple(v, v2, op[p], triple[p], dp[p], ep[p])
    BY <1>15
  <2>7. MasksExtended(g, g2, d, e)
    BY <1>16
  <2>8. l = [shared |-> TRUE, v |-> z[p]]
    BY <1>11 DEF val
  <2> HIDE DEF v, v2, g, g2, w, w2, l
  <2>9. BeaverRecord(job, v, w, out, triple[p], d, e, l, dp[p], ep[p], op[p])
    <3>1. l = [shared |-> TRUE,
               v |-> beaver_share(v.party_id, triple[p].a, triple[p].b, triple[p].c, d, e)]
      BY <1>9, <1>10, <2>3, <2>8
    <3>2. /\ dp[p] = Minus(w[nodeOf(job, out).a].v, triple[p].a)
          /\ ep[p] = Minus(w[nodeOf(job, out).b].v, triple[p].b)
      BY <1>7, <1>10, <2>1, <2>5
    <3>3. op[p] = BeaverMulOp(out, Len(v.triple_shares) + 1, d, e, l.v)
      <4>1. Len(v.triple_shares) + 1 = t /\ l.v = z[p]
        BY <1>12, <2>8 DEF v
      <4> QED BY <1>13, <4>1
    <3> QED BY <3>1, <3>2, <3>3 DEF BeaverRecord
  <2>10. ViewReplays(job, v2, g2, w2)
    BY <2>1, <2>3, <2>4, <2>6, <2>7, <2>9, MultipliedNode
  <2> QED BY <2>10 DEF v2, g2, w2
<1>18. RefFits(RefMul)
  BY <1>1 DEF RefFits
<1> QED BY <1>2, <1>3, <1>14, <1>17, <1>18, TracePush

\* A multiplication of shared nodes, with the triple drawn for it.
LEMMA TraceMulShared ==
  ASSUME ProverInv, ProverInv', TraceInv, MulShared
  PROVE  TraceInv'
<1>1. ProverTypeOK /\ job.coins \subseteq F
  BY JobFacts DEF ProverInv
<1>2. PICK a \in job.coins, b \in job.coins :
        \E ta \in share3(a), tb \in share3(b), tc \in share3(Times(a, b)) : BeaverMul(ta, tb, tc)
  BY DEF MulShared
<1>3. PICK ta \in share3(a), tb \in share3(b), tc \in share3(Times(a, b)) : BeaverMul(ta, tb, tc)
  BY <1>2
<1>4. a \in F /\ b \in F /\ Times(a, b) \in F
  BY <1>1, FieldClosed
<1>5. ta \in Sharing /\ tb \in Sharing /\ tc \in Sharing
  BY <1>1, <1>4, Share3Facts
<1> QED BY <1>3, <1>5, TraceBeaverMul

\* A step of the node loop.
LEMMA TraceNode ==
  ASSUME ProverInv, ProverInv', TraceInv, EvaluateNode
  PROVE  TraceInv'
<1>1. CASE SecretInputNode \/ PublicInputNode \/ ConstantNode \/ AddPublic \/ MulPublic
  BY <1>1, TraceLeaves
<1>2. CASE AddShared
  BY <1>2, TraceAddShared
<1>3. CASE AddMixed
  BY <1>3, TraceAddMixed
<1>4. CASE MulMixed
  BY <1>4, TraceMulMixed
<1>5. CASE MulShared
  BY <1>5, TraceMulShared
<1> QED BY <1>1, <1>2, <1>3, <1>4, <1>5 DEF EvaluateNode

\* What a view replays does not depend on the repetition it is for.
LEMMA SameRecord ==
  ASSUME NEW j, NEW v, NEW v2, NEW g, NEW w, ViewReplays(j, v, g, w),
         v2.party_id = v.party_id, v2.input_shares = v.input_shares,
         v2.local_operations = v.local_operations, v2.triple_shares = v.triple_shares,
         v2.opened_values = v.opened_values
  PROVE  ViewReplays(j, v2, g, w)
<1>1. ASSUME NEW i \in DOMAIN w PROVE NodeReplays(j, v2, g, w, i)
  <2>1. NodeReplays(j, v, g, w, i)
    BY DEF ViewReplays
  <2>2. LeafReplays(j, v2, w, i) /\ RecordReplays(j, v2, g, w, i)
    BY <2>1 DEF NodeReplays, LeafReplays, RecordReplays
  <2>3. GateReplays(j, v2, g, w, i)
    BY <2>1 DEF NodeReplays, GateReplays, BeaverReplays
  <2> QED BY <2>2, <2>3 DEF NodeReplays
<1> QED BY <1>1 DEF ViewReplays

\* A step outside the node loop that leaves what the views record alone.
LEMMA TraceKept ==
  ASSUME TraceInv, UNCHANGED <<job, input_shares, local_operations, triple_shares,
                               opened_values, values, reference>>,
         ViewsCommitted', phase' = "done" => Len(values) = Len(job.circuit.nodes)
  PROVE  TraceInv'
<1>1. ASSUME NEW p \in Party
      PROVE  LET v == Views[p]
                 v2 == (Views[p])'
             IN  /\ v2.party_id = v.party_id /\ v2.input_shares = v.input_shares
                 /\ v2.local_operations = v.local_operations
                 /\ v2.triple_shares = v.triple_shares /\ v2.opened_values = v.opened_values
  BY DEF Views, build_view
<1>2. ASSUME NEW p \in Party PROVE LocalValues(p)' = LocalValues(p)
  BY DEF LocalValues, LocalOf
<1>3. (MasksOf(Views))' = MasksOf(Views)
  <2>1. 0 \in Party
    BY DEF Party
  <2> QED BY <1>1, <2>1 DEF MasksOf
<1>4. ASSUME NEW p \in Party
      PROVE  ViewReplays(job, (Views[p])', (MasksOf(Views))', LocalValues(p)')
  <2> DEFINE v == Views[p]
             v2 == (Views[p])'
             g == MasksOf(Views)
             w == LocalValues(p)
  <2>1. ViewReplays(job, v, g, w)
    BY DEF TraceInv
  <2>2. /\ v2.party_id = v.party_id /\ v2.input_shares = v.input_shares
        /\ v2.local_operations = v.local_operations
        /\ v2.triple_shares = v.triple_shares /\ v2.opened_values = v.opened_values
    BY <1>1
  <2> HIDE DEF v, v2, g, w
  <2>3. ViewReplays(job, v2, g, w)
    BY <2>1, <2>2, SameRecord
  <2> QED BY <1>2, <1>3, <2>3 DEF v2, g, w
<1>5. \A p \in Party : ViewReplays(job, Views[p], MasksOf(Views), LocalValues(p))'
  BY <1>4
<1>6. PublicsKnown'
  BY DEF TraceInv, PublicsKnown
<1>7. IsReference(job, reference)'
  BY DEF TraceInv
<1> QED BY <1>5, <1>6, <1>7 DEF TraceInv

\* Where no node has been evaluated, a view has nothing to show.
LEMMA EmptyReplays ==
  ASSUME NEW j, NEW v, NEW g, NEW w, w = << >>, v.local_operations = << >>,
         v.triple_shares = << >>, v.opened_values = << >>
  PROVE  ViewReplays(j, v, g, w)
<1> DEFINE q == v.party_id
<1> HIDE DEF q
<1>1. OpPosition(j, q, w, 0 + 1) = 1 /\ TriplePosition(j, w, 0 + 1) = 1
  BY PositionStart
<1>2. /\ Len(w) = 0 /\ w \in Seq(LocalVal) /\ DOMAIN w = {}
      /\ Len(v.local_operations) = 0 /\ Len(v.triple_shares) = 0 /\ Len(v.opened_values) = 0
  OBVIOUS
<1> QED BY <1>1, <1>2 DEF ViewReplays, q

\* The first call.
LEMMA TraceInit ==
  ASSUME Initial
  PROVE  TraceInv
<1>1. /\ values = << >> /\ reference = << >> /\ phase = "new"
      /\ \A p \in Party : /\ local_operations[p] = << >>
                          /\ triple_shares[p] = << >>
                          /\ opened_values[p] = << >>
  BY DEF Initial, Empty
<1>2. ASSUME NEW p \in Party
      PROVE  ViewReplays(job, Views[p], MasksOf(Views), LocalValues(p))
  <2>1. LocalValues(p) = << >>
    BY <1>1 DEF LocalValues
  <2>2. /\ Views[p].local_operations = << >> /\ Views[p].triple_shares = << >>
        /\ Views[p].opened_values = << >>
    BY <1>1 DEF Views, build_view
  <2> QED BY <2>1, <2>2, EmptyReplays
<1>3. PublicsKnown
  BY <1>1 DEF PublicsKnown
<1>4. IsReference(job, reference)
  BY <1>1 DEF IsReference
<1>5. ViewsCommitted
  BY <1>1 DEF ViewsCommitted
<1> QED BY <1>1, <1>2, <1>3, <1>4, <1>5 DEF TraceInv

\* The next repetition starts afresh.
LEMMA TraceReset ==
  ASSUME values' = << >>, reference' = << >>, phase' = "sharing",
         local_operations' = Empty, triple_shares' = Empty, opened_values' = Empty
  PROVE  TraceInv'
<1>1. \A p \in Party : /\ local_operations'[p] = << >>
                       /\ triple_shares'[p] = << >>
                       /\ opened_values'[p] = << >>
  BY DEF Empty
<1>2. ASSUME NEW p \in Party
      PROVE  ViewReplays(job', (Views[p])', (MasksOf(Views))', LocalValues(p)')
  <2>1. LocalValues(p)' = << >>
    BY DEF LocalValues
  <2>2. /\ (Views[p])'.local_operations = << >> /\ (Views[p])'.triple_shares = << >>
        /\ (Views[p])'.opened_values = << >>
    BY <1>1 DEF Views, build_view
  <2> DEFINE v2 == (Views[p])'
             g2 == (MasksOf(Views))'
             w2 == LocalValues(p)'
  <2> HIDE DEF v2, g2, w2
  <2>3. ViewReplays(job', v2, g2, w2)
    BY <2>1, <2>2, EmptyReplays DEF v2, w2
  <2> QED BY <2>3 DEF v2, g2, w2
<1>3. \A p \in Party : ViewReplays(job, Views[p], MasksOf(Views), LocalValues(p))'
  BY <1>2
<1>4. PublicsKnown'
  BY DEF PublicsKnown
<1>5. IsReference(job, reference)'
  BY DEF IsReference
<1>6. ViewsCommitted'
  BY DEF ViewsCommitted
<1> QED BY <1>3, <1>4, <1>5, <1>6 DEF TraceInv

\* Sharing an input: the views' input shares grow before any node is evaluated.
LEMMA TraceShareInput ==
  ASSUME ProverInv, TraceInv, ShareInput
  PROVE  TraceInv'
<1>1. /\ values = << >> /\ reference \in Seq(F) /\ Len(reference) = Len(values)
  BY DEF ShareInput, ProverInv, ProverTypeOK, CursorsCountLeaves
<1>2. reference = << >>
  BY <1>1
<1>3. UNCHANGED <<job, proof, phase, local_operations, triple_shares, opened_values, values,
                  reference>> /\ phase = "sharing"
  BY DEF ShareInput, partyVars
<1>4. ASSUME NEW p \in Party
      PROVE  ViewReplays(job, (Views[p])', (MasksOf(Views))', LocalValues(p)')
  <2> DEFINE v == Views[p]
             v2 == (Views[p])'
             g == MasksOf(Views)
             g2 == (MasksOf(Views))'
             w == LocalValues(p)
             w2 == LocalValues(p)'
  <2>1. w = << >> /\ w2 = << >>
    BY <1>1, <1>3 DEF LocalValues
  <2>2. /\ v2.local_operations = v.local_operations /\ v2.triple_shares = v.triple_shares
        /\ v2.opened_values = v.opened_values /\ v2.party_id = v.party_id
    BY <1>3 DEF Views, build_view
  <2>3. ViewReplays(job, v, g, w)
    BY DEF TraceInv
  <2> HIDE DEF v, v2, g, g2, w, w2
  <2>4. ViewReplays(job, v2, g2, w2)
    BY <2>1, <2>2, <2>3 DEF ViewReplays
  <2> QED BY <2>4 DEF v2, g2, w2
<1>5. \A p \in Party : ViewReplays(job, Views[p], MasksOf(Views), LocalValues(p))'
  BY <1>3, <1>4
<1>6. PublicsKnown'
  BY <1>1, <1>3 DEF PublicsKnown
<1>7. IsReference(job, reference)'
  BY <1>3 DEF TraceInv
<1>8. ViewsCommitted'
  BY <1>3 DEF ViewsCommitted
<1> QED BY <1>3, <1>5, <1>6, <1>7, <1>8 DEF TraceInv

\* Every step of the prover keeps the views in step with the evaluation.
LEMMA TraceStep ==
  ASSUME ProverInv, ProverInv', TraceInv, [AnyNext]_proverVars
  PROVE  TraceInv'
<1>1. CASE EvaluateNode
  BY <1>1, TraceNode
<1>2. CASE ShareInput
  BY <1>2, TraceShareInput
<1>3. CASE new_backend \/ prove \/ InputsShared \/ NoChallenge
  <2>1. /\ UNCHANGED <<job, proof, input_shares, local_operations, triple_shares,
                       opened_values, values, reference>>
        /\ phase' \in {"ready", "sharing", "evaluating", "failed"}
    BY <1>3 DEF new_backend, prove, InputsShared, NoChallenge, Fail, inputVars, partyVars
  <2>2. ViewsCommitted'
    BY <2>1 DEF ViewsCommitted
  <2> QED BY <2>1, <2>2, TraceKept
<1>4. CASE CommitViews
  <2>1. /\ UNCHANGED <<job, proof, input_shares, local_operations, triple_shares,
                       opened_values, values, reference>>
        /\ phase = "evaluating" /\ phase' = "committed"
        /\ commitments' = [p \in Party |-> commit_view(build_view(p), fresh_randomness(id, p))]
    BY <1>4 DEF CommitViews, AllEvaluated, inputVars, partyVars
  <2>2. Len(input_shares[0]) = Len(job.witness)
    BY <2>1 DEF ProverInv, InputsReconstruct
  <2>3. ViewsCommitted'
    BY <2>1, <2>2 DEF ViewsCommitted, build_view, id
  <2> QED BY <2>1, <2>3, TraceKept
<1>5. CASE \E hidden \in Party : finish_repetition(hidden)
  <2>1. PICK hidden \in Party : finish_repetition(hidden)
    BY <1>5
  <2>2. CASE Len(proof') < job.repetition_count
    BY <2>1, <2>2, TraceReset DEF finish_repetition
  <2>3. CASE ~(Len(proof') < job.repetition_count)
    <3>1. /\ phase = "committed" /\ phase' = "done"
          /\ UNCHANGED <<job, input_shares, local_operations, triple_shares,
                         opened_values, values, reference>>
      BY <2>1, <2>3 DEF finish_repetition, inputVars, partyVars
    <3>2. ViewsCommitted'
      BY <3>1 DEF ViewsCommitted
    <3>3. Len(values) = Len(job.circuit.nodes)
      BY <3>1 DEF ProverInv, CursorsCountLeaves
    <3> QED BY <3>1, <3>2, <3>3, TraceKept
  <2> QED BY <2>2, <2>3
<1>6. CASE UNCHANGED proverVars
  <2>1. UNCHANGED <<job, proof, phase, input_shares, local_operations, triple_shares,
                    opened_values, values, reference, commitments>>
    BY <1>6 DEF proverVars, inputVars, partyVars
  <2>2. ViewsCommitted'
    BY <2>1 DEF TraceInv, ViewsCommitted, build_view, id
  <2> QED BY <2>1, <2>2, TraceKept DEF TraceInv
<1> QED BY <1>1, <1>2, <1>3, <1>4, <1>5, <1>6 DEF AnyNext
-----------------------------------------------------------------------------
(* Every repetition handed out presents the views of one evaluation.       *)

Presents(j, r, n) == \E views, w, ref : RepetitionFrom(j, r, n, views, w, ref)

ProofHonest == \A n \in DOMAIN proof : Presents(job, proof[n], n)

\* The evaluation that is finished shares the reference.
LEMMA FinishedReference ==
  ASSUME ProverInv, TraceInv, SharedMeansSecretDependent, phase = "committed"
  PROVE  SharesReference(job, [p \in Party |-> LocalValues(p)], reference)
<1> DEFINE w == [p \in Party |-> LocalValues(p)]
           c == job.circuit
           dep == node_depends_on_secrets(c)
<1>1. ProverTypeOK /\ NewError = "none" /\ values \in Seq(NodeVal) /\ reference \in Seq(F)
  BY DEF ProverInv, Validated, ProverTypeOK
<1>2. Checked(job) /\ c \in Circuit /\ validate(c) = "Ok" /\ c.nodes \in Seq(Node)
  BY <1>1, JobChecked, JobFacts DEF Checked
<1>3. Len(values) = Len(c.nodes) /\ Len(reference) = Len(c.nodes) /\ IsReference(job, reference)
  BY DEF ProverInv, CursorsCountLeaves, TraceInv
<1>4. DOMAIN values = DOMAIN c.nodes
  BY <1>1, <1>2, <1>3
<1>5. ASSUME NEW p \in Party
      PROVE  w[p] = LocalValues(p) /\ Len(w[p]) = Len(c.nodes)
  <2>1. w[p] = [i \in DOMAIN values |-> LocalOf(values[i], p)]
    BY DEF LocalValues
  <2>2. DOMAIN values = 1 .. Len(c.nodes) /\ Len(c.nodes) \in Nat
    BY <1>1, <1>2, <1>3
  <2>3. w[p] \in [1 .. Len(c.nodes) -> LocalVal]
    BY <1>1, <2>1, <2>2, LocalType
  <2>4. Len(w[p]) = Len(c.nodes)
    <3> DEFINE f == w[p]
               m == Len(c.nodes)
    <3> HIDE DEF f, m
    <3>1. f \in [1 .. m -> LocalVal] /\ m \in Nat
      BY <2>2, <2>3 DEF f, m
    <3>2. Len(f) = m
      BY <3>1
    <3> QED BY <3>2 DEF f, m
  <2> QED BY <2>4
<1>6. ASSUME NEW i \in DOMAIN c.nodes, NEW p \in Party
      PROVE  w[p][i].shared = values[i].shared /\ w[p][i].v = values[i].share[p]
  BY <1>4, <1>5 DEF LocalValues, LocalOf
<1>7. ASSUME NEW i \in DOMAIN c.nodes PROVE values[i].shared = dep[i]
  <2>1. dep[i] \in BOOLEAN
    <3>1. dep[i] = \/ c.nodes[i].op = "SecretInput"
                   \/ IsGate(c.nodes[i]) /\ (dep[c.nodes[i].a] \/ dep[c.nodes[i].b])
      BY <1>2, DependsEquation
    <3> HIDE DEF dep
    <3> QED BY <3>1
  <2>2. values[i].shared \in BOOLEAN
    <3>1. values[i] \in NodeVal
      BY <1>1, <1>4
    <3> QED BY <3>1, NodeValFacts
  <2>3. values[i].shared <=> dep[i]
    BY <1>4 DEF SharedMeansSecretDependent
  <2> HIDE DEF dep
  <2> QED BY <2>1, <2>2, <2>3
<1>8. ASSUME NEW i \in DOMAIN c.nodes, w[0][i].shared
      PROVE  Sum3([p \in Party |-> w[p][i].v]) = reference[i]
  <2>1. values[i].shared /\ values[i] \in NodeVal
    BY <1>1, <1>4, <1>6, <1>8 DEF Party
  <2>2. Sum3(values[i].share) = reference[i]
    BY <1>4, <2>1 DEF ProverInv, SharesReconstruct, Reveal
  <2>3. [p \in Party |-> w[p][i].v] = values[i].share
    <3>1. values[i].share \in [Party -> F]
      BY <2>1 DEF NodeVal, Sharing
    <3> HIDE DEF w
    <3> QED BY <1>6, <3>1
  <2> QED BY <2>2, <2>3
<1> HIDE DEF w
<1>9. \A i \in DOMAIN c.nodes :
        /\ \A p \in Party : w[p][i].shared = dep[i]
        /\ w[0][i].shared => Sum3([p \in Party |-> w[p][i].v]) = reference[i]
  BY <1>6, <1>7, <1>8
<1>10. SharesReference(job, w, reference)
  BY <1>3, <1>5, <1>9 DEF SharesReference
<1> QED BY <1>10 DEF w

\* What finish_repetition hands out.
LEMMA FinishedHonest ==
  ASSUME ProverInv, TraceInv, SharedMeansSecretDependent, phase = "committed",
         NEW hidden \in Party
  PROVE  RepetitionFrom(job, FinishedRepetition(hidden), id + 1, Views,
                        [p \in Party |-> LocalValues(p)], reference)
<1> DEFINE w == [p \in Party |-> LocalValues(p)]
           r == FinishedRepetition(hidden)
           n == id + 1
<1>1. id \in Nat /\ n - 1 = id
  BY DEF ProverInv, ProverTypeOK, id
<1>2. /\ Views \in [Party -> PartyView]
      /\ \A p \in Party : /\ Views[p] = build_view(p)
                          /\ Views[p].party_id = p
                          /\ Views[p].repetition_id = id
                          /\ Views[p].input_shares = input_shares[p]
                          /\ Views[p].opened_values = opened_values[p]
                          /\ Len(Views[p].opened_values) = Len(Views[0].opened_values)
  BY ViewsFacts
<1>3. \A p \in Party : Len(Views[p].input_shares) = job.circuit.num_secret_inputs
  <2>1. NewError = "none"
    BY DEF ProverInv, Validated
  <2>2. Len(job.witness) = job.circuit.num_secret_inputs
    BY <2>1 DEF NewError, statement_validate
  <2>3. \A p \in Party : Len(input_shares[p]) = Len(job.witness)
    BY DEF ProverInv, InputsReconstruct, TraceInv, ViewsCommitted
  <2> QED BY <1>2, <2>2, <2>3
<1>4. SharesReference(job, w, reference)
  BY FinishedReference
<1>5. \A p \in Party : ViewReplays(job, Views[p], MasksOf(Views), w[p])
  BY DEF TraceInv
<1>6. \A p \in Party : commitments[p] = commit_view(Views[p], fresh_randomness(id, p))
  BY <1>2 DEF TraceInv, ViewsCommitted
<1>7. /\ r.id = id /\ r.challenge = hidden
      /\ r.commitments = <<commitments[0], commitments[1], commitments[2]>>
      /\ r.opened_views = <<Opening(others(hidden)[1]), Opening(others(hidden)[2])>>
      /\ r.hidden_output_shares = HiddenOutputShares(hidden)
      /\ r.hidden_broadcasts = opened_values[hidden]
  BY DEF FinishedRepetition
<1>8. r.commitments = [c \in 1 .. 3 |-> commit_view(Views[c - 1], fresh_randomness(n - 1, c - 1))]
  <2>1. /\ commitments[0] = commit_view(Views[0], fresh_randomness(id, 0))
        /\ commitments[1] = commit_view(Views[1], fresh_randomness(id, 1))
        /\ commitments[2] = commit_view(Views[2], fresh_randomness(id, 2))
    BY <1>6 DEF Party
  <2> DEFINE f == [c \in 1 .. 3 |-> commit_view(Views[c - 1], fresh_randomness(n - 1, c - 1))]
  <2>2. f[1] = commitments[0] /\ f[2] = commitments[1] /\ f[3] = commitments[2]
    BY <1>1, <2>1
  <2>3. f = <<commitments[0], commitments[1], commitments[2]>>
    BY <2>2
  <2> QED BY <1>7, <2>3
<1>9. r.opened_views = [i \in 1 .. 2 |->
                         [view |-> Views[others(r.challenge)[i]],
                          randomness |-> fresh_randomness(n - 1, others(r.challenge)[i])]]
  <2>1. others(hidden)[1] \in Party /\ others(hidden)[2] \in Party
    BY DEF others, Party
  <2>2. \A p \in Party : Opening(p) = [view |-> Views[p], randomness |-> fresh_randomness(id, p)]
    BY <1>2 DEF Opening
  <2> DEFINE f == [i \in 1 .. 2 |-> [view |-> Views[others(hidden)[i]],
                                     randomness |-> fresh_randomness(id, others(hidden)[i])]]
  <2>3. f[1] = Opening(others(hidden)[1]) /\ f[2] = Opening(others(hidden)[2])
    BY <2>1, <2>2
  <2>4. f = <<Opening(others(hidden)[1]), Opening(others(hidden)[2])>>
    BY <2>3
  <2> QED BY <1>1, <1>7, <2>4
<1>10. r.hidden_output_shares =
         [k \in DOMAIN job.circuit.outputs |->
            LET x == w[r.challenge][job.circuit.outputs[k]] IN IF x.shared THEN x.v ELSE Zero]
  <2>1. ProverTypeOK /\ NewError = "none"
    BY DEF ProverInv, Validated
  <2>2. ASSUME NEW k \in DOMAIN job.circuit.outputs
        PROVE  w[hidden][job.circuit.outputs[k]] = LocalOf(values[job.circuit.outputs[k]], hidden)
    <3>1. job.circuit.outputs[k] \in NodeId /\ job.circuit.outputs[k] <= Len(job.circuit.nodes)
      BY <2>1, CheckedJob, JobFacts
    <3>2. values \in Seq(NodeVal) /\ Len(values) = Len(job.circuit.nodes)
      BY <2>1 DEF ProverInv, ProverTypeOK, CursorsCountLeaves
    <3>3. job.circuit.outputs[k] \in DOMAIN values
      BY <3>1, <3>2 DEF NodeId
    <3> QED BY <3>3 DEF LocalValues
  <2> HIDE DEF w
  <2>3. \A k \in DOMAIN job.circuit.outputs :
          LET o == job.circuit.outputs[k]
          IN  w[hidden][o].shared = values[o].shared /\ w[hidden][o].v = values[o].share[hidden]
    <3>1. \A val : LocalOf(val, hidden).shared = val.shared /\ LocalOf(val, hidden).v = val.share[hidden]
      BY DEF LocalOf
    <3> QED BY <2>2, <3>1
  <2> HIDE DEF r
  <2> QED BY <1>7, <2>3 DEF HiddenOutputShares
<1>11. r.hidden_broadcasts = Views[r.challenge].opened_values
  BY <1>2, <1>7
<1>12. /\ r.id = n - 1 /\ r.challenge \in Party
       /\ \A p \in Party : Views[p].repetition_id = n - 1 /\ Views[p].party_id = p
  BY <1>1, <1>2, <1>7
<1> HIDE DEF w, r, n
<1>13. RepetitionFrom(job, r, n, Views, w, reference)
  BY <1>2, <1>3, <1>4, <1>5, <1>8, <1>9, <1>10, <1>11, <1>12
     DEF RepetitionFrom, OpenedFrom, HiddenFrom
<1> QED BY <1>13 DEF w, r, n

\* Every step hands out at most one more repetition, and that one is honest.
LEMMA HonestStep ==
  ASSUME ProverInv, TraceInv, SharedMeansSecretDependent, ProofHonest,
         [AnyNext]_proverVars
  PROVE  ProofHonest'
<1>1. job' = job
  BY ZenonT(60) DEF AnyNext, proverVars, new_backend, prove, ShareInput, InputsShared, EvaluateNode,
         SecretInputNode, PublicInputNode, ConstantNode, AddPublic, AddShared, AddMixed,
         MulPublic, MulMixed, MulShared, BeaverMul, Push, CommitViews, finish_repetition,
         NoChallenge, Fail
<1>2. CASE proof' = proof
  BY <1>1, <1>2 DEF ProofHonest
<1>3. CASE \E hidden \in Party : finish_repetition(hidden)
  <2>1. PICK hidden \in Party : finish_repetition(hidden)
    BY <1>3
  <2>2. phase = "committed" /\ proof' = Append(proof, FinishedRepetition(hidden))
    BY <2>1 DEF finish_repetition
  <2>3. FinishedRepetition(hidden) \in Repetition /\ proof \in Seq(Repetition)
    BY <2>2, FinishedFacts DEF Evaluated, ProverInv, ProverTypeOK, CursorsCountLeaves
  <2>4. Presents(job, FinishedRepetition(hidden), id + 1)
    BY <2>2, FinishedHonest DEF Presents
  <2> DEFINE r == FinishedRepetition(hidden)
  <2> HIDE DEF r
  <2>5. /\ DOMAIN proof' = DOMAIN proof \cup {id + 1}
        /\ \A n \in DOMAIN proof : proof'[n] = proof[n]
        /\ proof'[id + 1] = r
    BY <2>2, <2>3 DEF id, r
  <2> QED BY <1>1, <2>4, <2>5 DEF ProofHonest, r
<1>4. proof' = proof \/ \E hidden \in Party : finish_repetition(hidden)
  BY ZenonT(60) DEF AnyNext, proverVars, new_backend, prove, ShareInput, InputsShared, EvaluateNode,
         SecretInputNode, PublicInputNode, ConstantNode, AddPublic, AddShared, AddMixed,
         MulPublic, MulMixed, MulShared, BeaverMul, Push, CommitViews, NoChallenge, Fail
<1> QED BY <1>2, <1>3, <1>4

\* The prover's complete inductive invariant.
HonestInv == ProverInv /\ TraceInv /\ SharedMeansSecretDependent /\ ProofHonest

LEMMA HonestInit ==
  ASSUME Initial
  PROVE  HonestInv
<1>1. SharedMeansSecretDependent
  BY DEF Initial, SharedMeansSecretDependent
<1>2. ProofHonest
  BY DEF Initial, ProofHonest
<1> QED BY <1>1, <1>2, InitInv, TraceInit DEF HonestInv

LEMMA HonestAnyStep ==
  ASSUME HonestInv, [AnyNext]_proverVars
  PROVE  HonestInv'
<1>1. ProverInv'
  BY ProverInvStep DEF HonestInv
<1>2. TraceInv'
  BY <1>1, TraceStep DEF HonestInv
<1>3. SharedMeansSecretDependent'
  BY DependsStep DEF HonestInv
<1>4. ProofHonest'
  BY HonestStep DEF HonestInv
<1> QED BY <1>1, <1>2, <1>3, <1>4 DEF HonestInv

LEMMA HonestInvStep ==
  ASSUME HonestInv, [ProverNext]_proverVars
  PROVE  HonestInv'
BY HonestAnyStep, NextIsAny DEF HonestInv, ProverInv

\* Other challenges for a finished proof: the repetitions change, and stay honest.
LEMMA RechallengedStep ==
  ASSUME HonestInv, phase = "done",
         UNCHANGED <<job, phase, error, supply, inputVars, partyVars, cursorVars, values,
                     reference, commitments>>,
         proof' \in Seq(Repetition), Len(proof') = Len(proof), ProofHonest'
  PROVE  HonestInv'
<1>1. UNCHANGED <<job, phase, error, supply, input_shares, local_operations, triple_shares,
                  opened_values, next_secret, next_public, values, reference, commitments>>
  BY DEF inputVars, partyVars, cursorVars
<1>2. ProverTypeOK'
  BY <1>1 DEF HonestInv, ProverInv, ProverTypeOK
<1>3. Validated' /\ CursorsCountLeaves' /\ InputsReconstruct'
  <2>1. Validated'
    BY <1>1, SamePartyState DEF HonestInv, ProverInv, Validated
  <2> QED BY <1>1, <2>1 DEF HonestInv, ProverInv, CursorsCountLeaves, out, InputsReconstruct
<1>4. ProverInv'
  BY <1>1, <1>2, <1>3, SamePartyState DEF HonestInv, ProverInv
<1>5. ViewsCommitted'
  BY <1>1 DEF ViewsCommitted
<1>6. TraceInv'
  BY <1>1, <1>5, TraceKept DEF HonestInv, TraceInv
<1>7. SharedMeansSecretDependent'
  BY <1>1 DEF HonestInv, SharedMeansSecretDependent, node_depends_on_secrets
<1> QED BY <1>4, <1>6, <1>7 DEF HonestInv

(* Whatever the circuit, the draws and the challenges, each repetition of a      *)
(* proof presents three views of one evaluation: every view records that party's *)
(* part gate by gate, with the operations, triples and broadcasts at the         *)
(* positions a replay looks for them and nothing left over, the three together   *)
(* share the values of evaluate_reference, the commitments are those of these    *)
(* views, and the hidden party's broadcasts and output shares are its own.       *)
THEOREM ProverHonest == ProverSpec => []ProofHonest
<1>1. ProverInit => HonestInv
  BY HonestInit, InitInitial
<1>2. HonestInv /\ [ProverNext]_proverVars => HonestInv'
  BY HonestInvStep
<1>3. HonestInv => ProofHonest
  BY DEF HonestInv
<1> QED BY <1>1, <1>2, <1>3, PTL DEF ProverSpec
-----------------------------------------------------------------------------
(* An undamaged proof.                                                     *)

\* A finished proof has at least one repetition.
DoneProof == phase = "done" => proof # << >>

Expected == IF WrongOutputs \cap SecretOutputs = {} THEN "Valid" ELSE "Invalid"

\* The repetition at hand, and all it says of the hidden party, is from evaluation w.
FollowsHonest(views, w, ref) == Follows(views, w, ref) /\ HiddenFrom(job, repetition, views, w)

HonestSoFar ==
  /\ phase # "done" => stage = "start"
  /\ \/ Fresh
     \/ verdict = "none" /\ rep \in DOMAIN proof /\ \E views, w, ref : FollowsHonest(views, w, ref)
     \/ stage = "done" /\ verdict = Expected

\* The prover is done when it says so.
LEMMA ProverActs ==
  ASSUME ProverNext
  PROVE  phase # "done"
BY DEF ProverNext, new_backend, prove, ShareInput, InputsShared, EvaluateNode,
       SecretInputNode, PublicInputNode, ConstantNode, AddPublic, AddShared, AddMixed,
       MulPublic, MulMixed, MulShared, BeaverMul, AtNode, CommitViews, AllEvaluated,
       finish_repetition, NoChallenge

LEMMA DoneStep ==
  ASSUME ProverTypeOK, DoneProof, [ProverNext]_proverVars
  PROVE  DoneProof'
<1>1. CASE \E hidden \in job.challenges : finish_repetition(hidden)
  <2>1. PICK hidden \in job.challenges : finish_repetition(hidden)
    BY <1>1
  <2>2. proof' = Append(proof, FinishedRepetition(hidden))
    BY <2>1 DEF finish_repetition
  <2> DEFINE r == FinishedRepetition(hidden)
  <2> HIDE DEF r
  <2>3. proof' = Append(proof, r) /\ proof \in Seq(Repetition)
    BY <2>2 DEF r, ProverTypeOK
  <2>4. proof' # << >>
    BY <2>3
  <2> QED BY <2>4 DEF DoneProof
<1>2. CASE UNCHANGED proverVars
  BY <1>2 DEF proverVars, DoneProof
<1>3. CASE /\ ProverNext
           /\ ~ \E hidden \in job.challenges : finish_repetition(hidden)
  <2>1. phase' # "done"
    BY <1>3, ZenonT(60) DEF ProverNext, new_backend, prove, ShareInput, InputsShared, EvaluateNode,
         SecretInputNode, PublicInputNode, ConstantNode, AddPublic, AddShared, AddMixed,
         MulPublic, MulMixed, MulShared, BeaverMul, AtNode, Push, CommitViews, AllEvaluated,
         NoChallenge, Fail
  <2> QED BY <2>1 DEF DoneProof
<1> QED BY <1>1, <1>2, <1>3

\* The reference evaluation of a finished proof is the one of its repetitions.
LEMMA SameReference ==
  ASSUME HonestInv, phase = "done", NEW views, NEW w, NEW ref, NEW r, NEW n,
         OpenedFrom(job, r, n, views, w, ref)
  PROVE  ref = reference
<1>0. Checked(job)
  BY JobChecked DEF HonestInv, ProverInv, Validated
<1>1. Checked(job) /\ IsReference(job, ref) /\ Len(ref) = Len(job.circuit.nodes)
  BY <1>0 DEF OpenedFrom, SharesReference
<1>2. IsReference(job, reference) /\ Len(reference) = Len(job.circuit.nodes)
  BY DEF HonestInv, TraceInv, ProverInv, CursorsCountLeaves
<1> QED BY <1>1, <1>2, ReferenceUnique

\* The verification of a repetition begins.
LEMMA RepetitionBegins ==
  ASSUME HonestInv, phase = "done", NEW n \in DOMAIN proof, UNCHANGED <<job, proof>>,
         stage' = "open", rep' = n, Idle', replays' = << >>
  PROVE  \E views, w, ref : FollowsHonest(views, w, ref)'
<1>1. PICK views, w, ref : RepetitionFrom(job, proof[n], n, views, w, ref)
  BY DEF HonestInv, ProofHonest, Presents
<1>2. repetition' = proof[n]
  BY DEF repetition
<1>3. Checked(job)
  BY JobChecked DEF HonestInv, ProverInv, Validated
<1>4. proof[n] \in Repetition /\ n \in Nat \ {0}
  BY DEF HonestInv, ProverInv, ProverTypeOK
<1>5. proof[n].hidden_broadcasts \in Seq(F)
  BY <1>4 DEF Repetition
<1>6. At(views, w, ref)'
  BY <1>1, <1>2, <1>3, <1>4, <1>5 DEF At, RepetitionFrom
<1>7. AtOpen(views, w, ref)'
  BY <1>6 DEF AtOpen
<1>8. HiddenFrom(job, repetition, views, w)'
  BY <1>1, <1>2 DEF RepetitionFrom
<1> QED BY <1>7, <1>8 DEF FollowsHonest, Follows

\* The outputs of an honest repetition decide as the reference evaluation does.
LEMMA HonestDecision ==
  ASSUME HonestInv, phase = "done", NEW views, NEW w, NEW ref, AtOutputs(views, w, ref),
         HiddenFrom(job, repetition, views, w)
  PROVE  OutputVerdict = Expected
<1>1. ref = reference
  BY SameReference DEF AtOutputs, At
<1> DEFINE wrong == {k \in DOMAIN job.circuit.outputs :
                       ref[job.circuit.outputs[k]] # job.statement.expected_outputs[k]}
<1>2. OutputVerdict = IF wrong \cap SecretOutputs = {} THEN "Valid" ELSE "Invalid"
  BY HonestOutputs
<1>3. wrong = WrongOutputs
  BY <1>1 DEF WrongOutputs
<1> HIDE DEF wrong
<1> QED BY <1>2, <1>3 DEF Expected

\* A step of the verifier within a repetition of an honest proof.
LEMMA HonestFollows ==
  ASSUME HonestInv, phase = "done", rep \in DOMAIN proof, verdict = "none",
         NEW views, NEW w, NEW ref, FollowsHonest(views, w, ref),
         VerifierNext, UNCHANGED proverVars
  PROVE  HonestSoFar'
<1>1. UNCHANGED <<job, proof, phase, reference>>
  BY DEF proverVars
<1>2. Follows(views, w, ref) /\ HiddenFrom(job, repetition, views, w)
  BY DEF FollowsHonest
<1>3. At(views, w, ref) /\ rep \in Nat \ {0} /\ OpenedFrom(job, repetition, rep, views, w, ref)
  BY <1>2 DEF Follows, AtOpen, AtView, AtOutputs, At
<1>4. Expected' = Expected
  BY <1>1 DEF Expected, WrongOutputs, SecretOutputs
<1>5. CASE Follows(views, w, ref)' /\ UNCHANGED <<rep, verdict>>
  <2>1. repetition' = repetition
    BY <1>1, <1>5 DEF repetition
  <2>2. FollowsHonest(views, w, ref)'
    BY <1>1, <1>2, <1>5, <2>1 DEF FollowsHonest
  <2>3. rep' \in DOMAIN proof' /\ verdict' = "none" /\ phase' = "done"
    BY <1>1, <1>5
  <2> QED BY <2>2, <2>3 DEF HonestSoFar
<1>6. ~(AtOpen(views, w, ref) /\ OpenError # "none" /\ Return(OpenError))
  BY <1>2, <1>3, HonestOpens
<1>7. ~(AtView(views, w, ref) /\ ~Extends(MasksOf(views), globals))
  <2>1. ASSUME AtView(views, w, ref) PROVE Extends(MasksOf(views), globals)
    <3>1. globals = MasksOf(views) /\ MasksOf(views) \in Seq(F)
      BY <1>2, <1>3, <2>1, HonestGlobals DEF AtView
    <3> QED BY <3>1 DEF Extends
  <2> QED BY <2>1
<1>8. CASE AtOutputs(views, w, ref) /\ check_outputs
  <2>1. OutputVerdict = Expected
    BY <1>2, <1>8, HonestDecision
  <2>2. CASE OutputVerdict = "Valid" /\ rep < Len(proof)
    <3>1. /\ stage' = "open" /\ rep' = rep + 1 /\ replays' = << >>
          /\ UNCHANGED <<verdict, globals, who, replayed, cursor>>
      BY <1>8, <2>2 DEF check_outputs, NextRepetition
    <3>2. Idle'
      BY <1>8, <3>1 DEF AtOutputs, Idle
    <3>3. rep + 1 \in DOMAIN proof
      <4>1. proof \in Seq(Repetition)
        BY DEF HonestInv, ProverInv, ProverTypeOK
      <4> QED BY <1>3, <2>2, <4>1
    <3>4. \E vs, x, rf : FollowsHonest(vs, x, rf)'
      BY <1>1, <3>1, <3>2, <3>3, RepetitionBegins
    <3> QED BY <1>1, <3>1, <3>3, <3>4 DEF HonestSoFar
  <2>3. CASE ~(OutputVerdict = "Valid" /\ rep < Len(proof))
    <3>1. stage' = "done" /\ verdict' = OutputVerdict
      BY <1>8, <2>3 DEF check_outputs, Return
    <3> QED BY <1>1, <1>4, <2>1, <3>1 DEF HonestSoFar
  <2> QED BY <2>2, <2>3
<1> QED BY <1>1, <1>2, <1>5, <1>6, <1>7, <1>8, FollowsStep

LEMMA HonestVerifierStep ==
  ASSUME HonestInv, DoneProof, HonestSoFar, phase = "done", VerifierNext, UNCHANGED proverVars
  PROVE  HonestSoFar'
<1>1. UNCHANGED <<job, proof, phase, reference>>
  BY DEF proverVars
<1>2. CASE Fresh
  <2>1. verify
    BY <1>2 DEF Fresh, VerifierNext, verify_repetition, WrongInputCount, FinishReplay,
         check_outputs, ReplayNode, AtReplay, ReplaySecretInput, ReplayPublicInput,
         ReplayConstant, ReplayAddPublic, ReplayAddShared, ReplayAddMixed, ReplayMulPublic,
         ReplayMulMixed, ReplayMulShared
  <2>2. statement_validate(job.statement, job.circuit) = "Ok" /\ proof # << >>
    BY DEF HonestInv, ProverInv, Validated, NewError, statement_validate, DoneProof
  <2>3. stage' = "open" /\ UNCHANGED <<verdict, rep, globals, who, replayed, cursor, replays>>
    BY <2>1, <2>2 DEF verify
  <2>4. 1 \in DOMAIN proof
    BY <2>2 DEF HonestInv, ProverInv, ProverTypeOK
  <2>5. Idle' /\ replays' = << >> /\ rep' = 1 /\ verdict' = "none"
    BY <1>2, <2>3 DEF Fresh, Idle
  <2>6. \E views, w, ref : FollowsHonest(views, w, ref)'
    BY <1>1, <2>3, <2>4, <2>5, RepetitionBegins
  <2> QED BY <1>1, <2>4, <2>5, <2>6 DEF HonestSoFar
<1>3. CASE verdict = "none" /\ rep \in DOMAIN proof /\ \E views, w, ref : FollowsHonest(views, w, ref)
  <2>1. PICK views, w, ref : FollowsHonest(views, w, ref)
    BY <1>3
  <2> QED BY <1>3, <2>1, HonestFollows
<1>4. ASSUME stage = "done" PROVE FALSE
  BY <1>4 DEF VerifierNext, verify, verify_repetition, WrongInputCount, FinishReplay,
       check_outputs, ReplayNode, AtReplay, ReplaySecretInput, ReplayPublicInput,
       ReplayConstant, ReplayAddPublic, ReplayAddShared, ReplayAddMixed, ReplayMulPublic,
       ReplayMulMixed, ReplayMulShared
<1> QED BY <1>2, <1>3, <1>4 DEF HonestSoFar

\* As long as nothing is damaged.
UndamagedInv == damage = NoDamage => HonestInv /\ DoneProof /\ HonestSoFar

LEMMA UndamagedInit ==
  ASSUME Init
  PROVE  UndamagedInv
<1>1. HonestInv
  BY HonestInit, InitInitial DEF Init
<1>2. DoneProof
  BY DEF Init, ProverInit, DoneProof
<1>3. HonestSoFar
  BY DEF Init, VerifierInit, HonestSoFar, Fresh, Idle
<1> QED BY <1>1, <1>2, <1>3 DEF UndamagedInv

\* Whatever happens to a proof is recorded.
LEMMA HappensRecorded ==
  ASSUME (\E p \in Party : Fault(p)) \/ TransitDamage
  PROVE  damage = NoDamage /\ damage' # NoDamage
<1>1. ASSUME NEW p, NEW kind, kind # "none", Happens(kind, p)
      PROVE  damage = NoDamage /\ damage' # NoDamage
  <2>1. damage = NoDamage /\ damage'.kind # "none"
    BY <1>1 DEF Happens
  <2> QED BY <2>1 DEF NoDamage
<1>2. \E p, kind : kind # "none" /\ Happens(kind, p)
  BY DEF Fault, InputShareFault, OperationFault, MissingOperationFault, ExtraOperationFault,
         TripleFault, BroadcastFault, TransitDamage, IdDamage, ChallengeDamage, CommitmentDamage,
         MissingCommitmentDamage, MissingViewDamage, SwappedViewsDamage, ViewDamage,
         OutputShareDamage, MissingOutputShareDamage, HiddenBroadcastDamage, EmptyProofDamage
<1> QED BY <1>1, <1>2

\* As long as the verifier has not been called the proof may still change.
LEMMA FreshStays ==
  ASSUME HonestSoFar, stage = "start", UNCHANGED verifierVars
  PROVE  HonestSoFar'
<1>1. Fresh
  BY DEF HonestSoFar, Follows, FollowsHonest, AtOpen, AtView, AtOutputs, Replaying
<1>2. Fresh' /\ stage' = "start"
  BY <1>1 DEF Fresh, Idle, verifierVars
<1> QED BY <1>2 DEF HonestSoFar

LEMMA UndamagedStep ==
  ASSUME UndamagedInv, [Next]_vars
  PROVE  UndamagedInv'
<1> SUFFICES ASSUME damage' = NoDamage
             PROVE  HonestInv' /\ DoneProof' /\ HonestSoFar'
  BY DEF UndamagedInv
<1>1. Prove \/ Verify \/ UNCHANGED vars
  BY HappensRecorded DEF Next
<1>2. damage = NoDamage
  BY <1>1 DEF Prove, Verify, vars
<1>3. HonestInv /\ DoneProof /\ HonestSoFar /\ ProverTypeOK
  BY <1>2 DEF UndamagedInv, HonestInv, ProverInv
<1>4. [ProverNext]_proverVars
  BY <1>1 DEF Prove, Verify, vars
<1>5. HonestInv' /\ DoneProof'
  BY <1>3, <1>4, HonestInvStep, DoneStep
<1>6. CASE Prove
  <2>1. phase # "done" /\ UNCHANGED verifierVars
    BY <1>6, ProverActs DEF Prove
  <2>2. stage = "start"
    BY <1>3, <2>1 DEF HonestSoFar
  <2> QED BY <1>3, <1>5, <2>1, <2>2, FreshStays
<1>7. CASE Verify
  <2>1. phase = "done" /\ VerifierNext /\ UNCHANGED proverVars
    BY <1>7 DEF Verify
  <2> QED BY <1>3, <1>5, <2>1, HonestVerifierStep
<1>8. CASE UNCHANGED vars
  <2>1. UNCHANGED <<job, proof, phase, reference, verifierVars>>
    BY <1>8 DEF vars, proverVars
  <2>2. Fresh' = Fresh /\ Expected' = Expected
    BY <2>1 DEF Fresh, Idle, Expected, WrongOutputs, SecretOutputs, verifierVars
  <2>3. ASSUME NEW views, NEW w, NEW ref, FollowsHonest(views, w, ref)
        PROVE  FollowsHonest(views, w, ref)'
    BY <2>1, <2>3, FollowsKept DEF FollowsHonest, repetition, verifierVars
  <2> QED BY <1>3, <1>5, <2>1, <2>2, <2>3 DEF HonestSoFar, verifierVars
<1> QED BY <1>1, <1>6, <1>7, <1>8

(* Completeness, for every commutative ring, circuit, statement and witness, and *)
(* whatever the draws and the challenges: the verification of an undamaged proof *)
(* returns no error; it is Valid exactly when every secret-dependent output of   *)
(* evaluate_reference is the expected one, and Ok(Invalid) otherwise.            *)
THEOREM MpcithHonestVerdict == Spec => []HonestVerdict
<1>1. Init => UndamagedInv
  BY UndamagedInit
<1>2. UndamagedInv /\ [Next]_vars => UndamagedInv'
  BY UndamagedStep
<1>3. UndamagedInv => HonestVerdict
  <2> SUFFICES ASSUME UndamagedInv, damage = NoDamage, verdict # "none"
               PROVE  verdict = Expected
    BY DEF HonestVerdict, Expected
  <2> QED BY DEF UndamagedInv, HonestSoFar, Fresh
<1> QED BY <1>1, <1>2, <1>3, PTL DEF Spec
=============================================================================
