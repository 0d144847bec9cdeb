---------------------------- MODULE MpcithReplay ----------------------------
(***************************************************************************)
(* What prover and verifier of MPC-in-the-head have to agree on: when the  *)
(* view of a party records an evaluation of the circuit, and when a        *)
(* repetition presents the views of one and the same evaluation.  j is the *)
(* execution, g the masks of all multiplications, w the party's own node   *)
(* values: plaintexts, or its shares.                                      *)
(***************************************************************************)
EXTENDS MpcithTypes

LocalVal == [shared : BOOLEAN, v : F]

nodeOf(j, i) == j.circuit.nodes[i]

\* The gates for which a party records an operation, and those that use a triple.
Recorded(j, p, w, i) ==
  LET n == nodeOf(j, i)
  IN  /\ IsGate(n)
      /\ w[n.a].shared \/ w[n.b].shared
      /\ n.op = "Add" /\ p # 0 => w[n.a].shared /\ w[n.b].shared

Multiplied(j, w, i) ==
  LET n == nodeOf(j, i) IN n.op = "Mul" /\ w[n.a].shared /\ w[n.b].shared

RecordedBefore(j, p, w, i) == {k \in 1 .. i - 1 : Recorded(j, p, w, k)}

MultipliedBefore(j, w, i) == {k \in 1 .. i - 1 : Multiplied(j, w, k)}

InputPosition(j, op, i) == Cardinality(LeavesBefore(j.circuit.nodes, op, i)) + 1

OpPosition(j, p, w, i) == Cardinality(RecordedBefore(j, p, w, i)) + 1

TriplePosition(j, w, i) == Cardinality(MultipliedBefore(j, w, i)) + 1

LeafReplays(j, view, w, i) ==
  LET n == nodeOf(j, i)
  IN  /\ n.op = "SecretInput" =>
           w[i] = [shared |-> TRUE, v |-> view.input_shares[InputPosition(j, "SecretInput", i)]]
      /\ n.op = "PublicInput" =>
           w[i] = [shared |-> FALSE,
                   v |-> j.statement.public_inputs[InputPosition(j, "PublicInput", i)]]
      /\ n.op = "Constant" => w[i] = [shared |-> FALSE, v |-> n.value]

\* Party 0 adds a public value, the others keep their share.
AddVal(p, x, y) ==
  [shared |-> x.shared \/ y.shared,
   v |-> IF p = 0 \/ x.shared = y.shared THEN Plus(x.v, y.v) ELSE IF x.shared THEN x.v ELSE y.v]

MulVal(x, y) == [shared |-> x.shared \/ y.shared, v |-> Times(x.v, y.v)]

BeaverReplays(j, view, g, w, i) ==
  LET n == nodeOf(j, i)
      t == TriplePosition(j, w, i)
      triple == view.triple_shares[t]
  IN  /\ t <= Len(view.triple_shares)
      /\ 2 * t <= Len(view.opened_values)
      /\ 2 * t <= Len(g)
      /\ view.opened_values[2 * t - 1] = Minus(w[n.a].v, triple.a)
      /\ view.opened_values[2 * t] = Minus(w[n.b].v, triple.b)
      /\ w[i] = [shared |-> TRUE,
                 v |-> beaver_share(view.party_id, triple.a, triple.b, triple.c,
                                    g[2 * t - 1], g[2 * t])]

ExpectedOp(j, g, w, i) ==
  LET n == nodeOf(j, i)
      t == TriplePosition(j, w, i)
  IN  IF n.op = "Add" THEN AddOp(i, w[i].v)
      ELSE IF Multiplied(j, w, i) THEN BeaverMulOp(i, t, g[2 * t - 1], g[2 * t], w[i].v)
      ELSE MulPublicOp(i, IF w[n.b].shared THEN w[n.a].v ELSE w[n.b].v, w[i].v)

GateReplays(j, view, g, w, i) ==
  LET n == nodeOf(j, i)
  IN  /\ n.op = "Add" => w[i] = AddVal(view.party_id, w[n.a], w[n.b])
      /\ n.op = "Mul" => IF Multiplied(j, w, i) THEN BeaverReplays(j, view, g, w, i)
                         ELSE w[i] = MulVal(w[n.a], w[n.b])

\* The operation recorded for a node is there and is the expected one.
RecordReplays(j, view, g, w, i) ==
  LET k == OpPosition(j, view.party_id, w, i)
  IN  Recorded(j, view.party_id, w, i) =>
        k <= Len(view.local_operations) /\ view.local_operations[k] = ExpectedOp(j, g, w, i)

NodeReplays(j, view, g, w, i) ==
  /\ LeafReplays(j, view, w, i)
  /\ GateReplays(j, view, g, w, i)
  /\ RecordReplays(j, view, g, w, i)

\* The view records the evaluation of as many nodes as w holds, and nothing else.
ViewReplays(j, view, g, w) ==
  /\ w \in Seq(LocalVal)
  /\ \A i \in DOMAIN w : NodeReplays(j, view, g, w, i)
  /\ Len(view.local_operations) + 1 = OpPosition(j, view.party_id, w, Len(w) + 1)
  /\ Len(view.triple_shares) + 1 = TriplePosition(j, w, Len(w) + 1)
  /\ Len(view.opened_values) = 2 * Len(view.triple_shares)
-----------------------------------------------------------------------------
\* The masks that three views broadcast.
MasksOf(views) ==
  [k \in DOMAIN views[0].opened_values |-> Sum3([p \in Party |-> views[p].opened_values[k]])]

\* evaluate_reference, node by node.
ReferenceNode(j, ref, i) ==
  LET n == nodeOf(j, i)
  IN  /\ n.op = "SecretInput" => ref[i] = j.witness[InputPosition(j, "SecretInput", i)]
      /\ n.op = "PublicInput" =>
           ref[i] = j.statement.public_inputs[InputPosition(j, "PublicInput", i)]
      /\ n.op = "Constant" => ref[i] = n.value
      /\ n.op = "Add" => ref[i] = Plus(ref[n.a], ref[n.b])
      /\ n.op = "Mul" => ref[i] = Times(ref[n.a], ref[n.b])

IsReference(j, ref) == ref \in Seq(F) /\ \A i \in DOMAIN ref : ReferenceNode(j, ref, i)

\* The three parties' values w of the whole circuit share the reference.
SharesReference(j, w, ref) ==
  /\ IsReference(j, ref) /\ Len(ref) = Len(j.circuit.nodes)
  /\ \A p \in Party : Len(w[p]) = Len(j.circuit.nodes)
  /\ \A i \in DOMAIN j.circuit.nodes :
       /\ \A p \in Party : w[p][i].shared = node_depends_on_secrets(j.circuit)[i]
       /\ w[0][i].shared => Sum3([p \in Party |-> w[p][i].v]) = ref[i]

\* Repetition r, the n-th of its proof, commits to views of that evaluation and opens
\* those of the two parties that its challenge does not hide.
OpenedFrom(j, r, n, views, w, ref) ==
  /\ SharesReference(j, w, ref)
  /\ views \in [Party -> PartyView]
  /\ \A p \in Party : /\ ViewReplays(j, views[p], MasksOf(views), w[p])
                      /\ views[p].repetition_id = n - 1
                      /\ views[p].party_id = p
                      /\ Len(views[p].input_shares) = j.circuit.num_secret_inputs
                      /\ Len(views[p].opened_values) = Len(views[0].opened_values)
  /\ r.id = n - 1
  /\ r.challenge \in Party
  /\ r.commitments = [c \in 1 .. 3 |-> commit_view(views[c - 1], fresh_randomness(n - 1, c - 1))]
  /\ r.opened_views = [i \in 1 .. 2 |->
                         [view |-> views[others(r.challenge)[i]],
                          randomness |-> fresh_randomness(n - 1, others(r.challenge)[i])]]

\* What it says of the hidden party is that party's own.
HiddenFrom(j, r, views, w) ==
  /\ r.hidden_broadcasts = views[r.challenge].opened_values
  /\ r.hidden_output_shares =
       [k \in DOMAIN j.circuit.outputs |->
          LET x == w[r.challenge][j.circuit.outputs[k]] IN IF x.shared THEN x.v ELSE Zero]

RepetitionFrom(j, r, n, views, w, ref) ==
  OpenedFrom(j, r, n, views, w, ref) /\ HiddenFrom(j, r, views, w)
=============================================================================
