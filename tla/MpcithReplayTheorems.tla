------------------------ MODULE MpcithReplayTheorems ------------------------
(***************************************************************************)
(* Facts about the replay of a view, whatever the circuit: where in a view *)
(* the record of a node stands, that extending an evaluation by a node     *)
(* leaves the nodes before it as they were, and that a circuit has only    *)
(* one reference evaluation.                                               *)
(***************************************************************************)
EXTENDS MpcithReplay, CircuitTheorems, SequenceTheorems

\* t begins with s.
Extends(s, t) == Len(s) <= Len(t) /\ \A i \in 1 .. Len(s) : t[i] = s[i]

\* How many numbers of a set lie below n, when n moves on by one.
LEMMA CountStep ==
  ASSUME NEW T, NEW n \in Nat \ {0}
  PROVE  /\ Cardinality({k \in 1 .. n - 1 : k \in T}) \in Nat
         /\ n \in T => Cardinality({k \in 1 .. n : k \in T})
                         = Cardinality({k \in 1 .. n - 1 : k \in T}) + 1
         /\ n \notin T => {k \in 1 .. n : k \in T} = {k \in 1 .. n - 1 : k \in T}
<1> DEFINE B == {k \in 1 .. n - 1 : k \in T}
<1>1. IsFiniteSet(1 .. n - 1) /\ B \subseteq 1 .. n - 1
  BY FS_Interval
<1>2. IsFiniteSet(B)
  BY <1>1, FS_Subset
<1>3. Cardinality(B) \in Nat
  BY <1>2, FS_CardinalityType
<1>4. ASSUME n \in T PROVE {k \in 1 .. n : k \in T} = B \cup {n}
  BY <1>4
<1>5. n \notin B
  OBVIOUS
<1>6. ASSUME n \notin T PROVE {k \in 1 .. n : k \in T} = B
  <2>1. 1 .. n = (1 .. n - 1) \cup {n}
    OBVIOUS
  <2> QED BY <2>1, <1>6
<1> HIDE DEF B
<1>7. Cardinality(B \cup {n}) = Cardinality(B) + 1
  BY <1>2, <1>5, FS_AddElement
<1> QED BY <1>3, <1>4, <1>6, <1>7 DEF B

\* The position of the next operation, node by node.
LEMMA OpPositionStep ==
  ASSUME NEW j, NEW p, NEW w, NEW n \in Nat \ {0}
  PROVE  /\ OpPosition(j, p, w, n) \in Nat \ {0}
         /\ Recorded(j, p, w, n) => OpPosition(j, p, w, n + 1) = OpPosition(j, p, w, n) + 1
         /\ ~Recorded(j, p, w, n) => OpPosition(j, p, w, n + 1) = OpPosition(j, p, w, n)
<1> DEFINE R == {k \in Nat : Recorded(j, p, w, k)}
           r == {k \in 1 .. n - 1 : k \in R}
           r1 == {k \in 1 .. n : k \in R}
<1>1. RecordedBefore(j, p, w, n) = r /\ RecordedBefore(j, p, w, n + 1) = r1
  BY DEF RecordedBefore
<1>2. n \in R <=> Recorded(j, p, w, n)
  OBVIOUS
<1> HIDE DEF R
<1>3. /\ Cardinality(r) \in Nat
      /\ n \in R => Cardinality(r1) = Cardinality(r) + 1
      /\ n \notin R => r1 = r
  BY CountStep
<1>4. /\ OpPosition(j, p, w, n) = Cardinality(r) + 1
      /\ OpPosition(j, p, w, n + 1) = Cardinality(r1) + 1
  BY <1>1 DEF OpPosition
<1> HIDE DEF r, r1
<1> QED BY <1>2, <1>3, <1>4

\* The position of the next triple, node by node.
LEMMA TriplePositionStep ==
  ASSUME NEW j, NEW w, NEW n \in Nat \ {0}
  PROVE  /\ TriplePosition(j, w, n) \in Nat \ {0}
         /\ Multiplied(j, w, n) => TriplePosition(j, w, n + 1) = TriplePosition(j, w, n) + 1
         /\ ~Multiplied(j, w, n) => TriplePosition(j, w, n + 1) = TriplePosition(j, w, n)
<1> DEFINE M == {k \in Nat : Multiplied(j, w, k)}
           m == {k \in 1 .. n - 1 : k \in M}
           m1 == {k \in 1 .. n : k \in M}
<1>1. MultipliedBefore(j, w, n) = m /\ MultipliedBefore(j, w, n + 1) = m1
  BY DEF MultipliedBefore
<1>2. n \in M <=> Multiplied(j, w, n)
  OBVIOUS
<1> HIDE DEF M
<1>3. /\ Cardinality(m) \in Nat
      /\ n \in M => Cardinality(m1) = Cardinality(m) + 1
      /\ n \notin M => m1 = m
  BY CountStep
<1>4. /\ TriplePosition(j, w, n) = Cardinality(m) + 1
      /\ TriplePosition(j, w, n + 1) = Cardinality(m1) + 1
  BY <1>1 DEF TriplePosition
<1> HIDE DEF m, m1
<1> QED BY <1>2, <1>3, <1>4

\* Before the first node nothing is recorded.
LEMMA PositionStart ==
  ASSUME NEW j, NEW p, NEW w
  PROVE  OpPosition(j, p, w, 0 + 1) = 1 /\ TriplePosition(j, w, 0 + 1) = 1
<1>1. RecordedBefore(j, p, w, 0 + 1) = {} /\ MultipliedBefore(j, w, 0 + 1) = {}
  BY DEF RecordedBefore, MultipliedBefore
<1> QED BY <1>1, FS_EmptySet DEF OpPosition, TriplePosition

\* What an evaluation is of: a circuit that validates.
Checked(j) == j.circuit \in Circuit /\ validate(j.circuit) = "Ok"

\* What is recorded for a node is decided by the values of the nodes before it.
LEMMA RecordedKept ==
  ASSUME NEW j, Checked(j), NEW p, NEW w, NEW w2, NEW n \in DOMAIN j.circuit.nodes,
         \A k \in 1 .. n - 1 : w2[k] = w[k]
  PROVE  /\ Recorded(j, p, w2, n) <=> Recorded(j, p, w, n)
         /\ Multiplied(j, w2, n) <=> Multiplied(j, w, n)
<1> DEFINE m == nodeOf(j, n)
<1>1. ASSUME IsGate(m) PROVE w2[m.a] = w[m.a] /\ w2[m.b] = w[m.b]
  <2>1. m.a \in DOMAIN j.circuit.nodes /\ m.a < n /\ m.b \in DOMAIN j.circuit.nodes /\ m.b < n
    BY <1>1, OperandsBefore DEF Checked, nodeOf
  <2>2. DOMAIN j.circuit.nodes = 1 .. Len(j.circuit.nodes) /\ Len(j.circuit.nodes) \in Nat
    BY DEF Checked, Circuit
  <2> HIDE DEF m
  <2>3. m.a \in 1 .. n - 1 /\ m.b \in 1 .. n - 1
    BY <2>1, <2>2
  <2> QED BY <2>3
<1>2. Recorded(j, p, w2, n) <=> Recorded(j, p, w, n)
  BY <1>1 DEF Recorded
<1>3. Multiplied(j, w2, n) <=> Multiplied(j, w, n)
  BY <1>1 DEF Multiplied, IsGate
<1> QED BY <1>2, <1>3

\* And so is where it is recorded.
LEMMA PositionKept ==
  ASSUME NEW j, Checked(j), NEW p, NEW w, NEW w2, NEW n \in 1 .. Len(j.circuit.nodes) + 1,
         \A k \in 1 .. n - 1 : w2[k] = w[k]
  PROVE  /\ OpPosition(j, p, w2, n) = OpPosition(j, p, w, n)
         /\ TriplePosition(j, w2, n) = TriplePosition(j, w, n)
<1>1. DOMAIN j.circuit.nodes = 1 .. Len(j.circuit.nodes) /\ Len(j.circuit.nodes) \in Nat
  BY DEF Checked, Circuit
<1>2. ASSUME NEW k \in 1 .. n - 1
      PROVE  /\ Recorded(j, p, w2, k) <=> Recorded(j, p, w, k)
             /\ Multiplied(j, w2, k) <=> Multiplied(j, w, k)
  <2>1. k \in DOMAIN j.circuit.nodes
    BY <1>1
  <2>2. \A i \in 1 .. k - 1 : w2[i] = w[i]
    OBVIOUS
  <2> QED BY <2>1, <2>2, RecordedKept
<1>3. RecordedBefore(j, p, w2, n) = RecordedBefore(j, p, w, n)
  BY <1>2 DEF RecordedBefore
<1>4. MultipliedBefore(j, w2, n) = MultipliedBefore(j, w, n)
  BY <1>2 DEF MultipliedBefore
<1> QED BY <1>3, <1>4 DEF OpPosition, TriplePosition

\* A later state of the same view.
Grown(v, v2) ==
  /\ v \in PartyView /\ v2 \in PartyView
  /\ v2.party_id = v.party_id
  /\ v2.input_shares = v.input_shares
  /\ Extends(v.local_operations, v2.local_operations)
  /\ Extends(v.triple_shares, v2.triple_shares)
  /\ Extends(v.opened_values, v2.opened_values)

\* The vectors of a view.
LEMMA ViewTypes ==
  ASSUME NEW v \in PartyView
  PROVE  /\ v.party_id \in Party
         /\ v.input_shares \in Seq(F)
         /\ v.local_operations \in Seq(LocalOperation)
         /\ v.triple_shares \in Seq(TripleShare)
         /\ v.opened_values \in Seq(F)
         /\ Len(v.local_operations) \in Nat
         /\ Len(v.triple_shares) \in Nat
         /\ Len(v.opened_values) \in Nat
<1>1. /\ v.party_id \in Party
      /\ v.input_shares \in Seq(F)
      /\ v.local_operations \in Seq(LocalOperation)
      /\ v.triple_shares \in Seq(TripleShare)
      /\ v.opened_values \in Seq(F)
  BY DEF PartyView
<1> QED BY <1>1

\* A node that replays still does when the evaluation has gone on.
LEMMA NodeKept ==
  ASSUME NEW j, Checked(j), NEW v, NEW v2, Grown(v, v2), NEW g, NEW g2, Extends(g, g2),
         NEW w \in Seq(LocalVal), NEW w2, Extends(w, w2), Len(w) <= Len(j.circuit.nodes),
         Len(g) \in Nat, Len(g2) \in Nat, NEW i \in DOMAIN w, NodeReplays(j, v, g, w, i)
  PROVE  NodeReplays(j, v2, g2, w2, i)
<1> DEFINE n == nodeOf(j, i)
           p == v.party_id
           t == TriplePosition(j, w, i)
           k == OpPosition(j, p, w, i)
<1>1. /\ DOMAIN j.circuit.nodes = 1 .. Len(j.circuit.nodes) /\ Len(j.circuit.nodes) \in Nat
      /\ Len(w) \in Nat /\ DOMAIN w = 1 .. Len(w)
  BY DEF Checked, Circuit
<1>2. i \in DOMAIN j.circuit.nodes /\ i \in 1 .. Len(j.circuit.nodes) + 1 /\ i \in Nat \ {0}
  BY <1>1
<1>3. (\A m \in 1 .. i - 1 : w2[m] = w[m]) /\ w2[i] = w[i]
  BY <1>1 DEF Extends
<1>4. /\ Recorded(j, p, w2, i) <=> Recorded(j, p, w, i)
      /\ Multiplied(j, w2, i) <=> Multiplied(j, w, i)
  <2> HIDE DEF p
  <2> QED BY <1>2, <1>3, RecordedKept
<1>5. OpPosition(j, p, w2, i) = k /\ TriplePosition(j, w2, i) = t
  <2> HIDE DEF p
  <2> QED BY <1>2, <1>3, PositionKept DEF k, t
<1>6. k \in Nat \ {0} /\ t \in Nat \ {0}
  <2> HIDE DEF p
  <2> QED BY <1>2, OpPositionStep, TriplePositionStep DEF k, t
<1>7. ASSUME IsGate(n) PROVE w2[n.a] = w[n.a] /\ w2[n.b] = w[n.b]
  <2>1. n.a \in DOMAIN j.circuit.nodes /\ n.a < i /\ n.b \in DOMAIN j.circuit.nodes /\ n.b < i
    BY <1>2, <1>7, OperandsBefore DEF Checked, nodeOf
  <2> HIDE DEF n
  <2>2. n.a \in 1 .. i - 1 /\ n.b \in 1 .. i - 1
    BY <1>1, <1>2, <2>1
  <2> QED BY <1>3, <2>2
<1>8. LeafReplays(j, v2, w2, i)
  <2>1. LeafReplays(j, v, w, i) /\ v2.input_shares = v.input_shares
    BY DEF NodeReplays, Grown
  <2> QED BY <2>1, <1>3 DEF LeafReplays
<1>9. ASSUME Multiplied(j, w, i)
      PROVE  /\ BeaverReplays(j, v, g, w, i) => BeaverReplays(j, v2, g2, w2, i)
             /\ BeaverReplays(j, v, g, w, i) =>
                  g2[2 * t - 1] = g[2 * t - 1] /\ g2[2 * t] = g[2 * t]
  <2> SUFFICES ASSUME BeaverReplays(j, v, g, w, i)
               PROVE  /\ BeaverReplays(j, v2, g2, w2, i)
                      /\ g2[2 * t - 1] = g[2 * t - 1] /\ g2[2 * t] = g[2 * t]
    OBVIOUS
  <2>1. IsGate(n)
    BY <1>9 DEF Multiplied, IsGate
  <2>2. /\ t <= Len(v.triple_shares) /\ 2 * t <= Len(v.opened_values) /\ 2 * t <= Len(g)
        /\ v.opened_values[2 * t - 1] = Minus(w[n.a].v, v.triple_shares[t].a)
        /\ v.opened_values[2 * t] = Minus(w[n.b].v, v.triple_shares[t].b)
        /\ w[i] = [shared |-> TRUE,
                   v |-> beaver_share(p, v.triple_shares[t].a, v.triple_shares[t].b,
                                      v.triple_shares[t].c, g[2 * t - 1], g[2 * t])]
    BY DEF BeaverReplays
  <2>3. /\ Len(v.triple_shares) \in Nat /\ Len(v.opened_values) \in Nat
        /\ Len(v2.triple_shares) \in Nat /\ Len(v2.opened_values) \in Nat
    BY ViewTypes DEF Grown
  <2>4. /\ Len(v.triple_shares) <= Len(v2.triple_shares)
        /\ Len(v.opened_values) <= Len(v2.opened_values)
        /\ Len(g) <= Len(g2)
        /\ \A m \in 1 .. Len(v.triple_shares) : v2.triple_shares[m] = v.triple_shares[m]
        /\ \A m \in 1 .. Len(v.opened_values) : v2.opened_values[m] = v.opened_values[m]
        /\ \A m \in 1 .. Len(g) : g2[m] = g[m]
        /\ v2.party_id = p
    BY DEF Grown, Extends
  <2> HIDE DEF t, n, p
  <2>5. /\ t \in 1 .. Len(v.triple_shares) /\ t <= Len(v2.triple_shares)
        /\ 2 * t \in 1 .. Len(v.opened_values) /\ 2 * t - 1 \in 1 .. Len(v.opened_values)
        /\ 2 * t <= Len(v2.opened_values)
        /\ 2 * t \in 1 .. Len(g) /\ 2 * t - 1 \in 1 .. Len(g) /\ 2 * t <= Len(g2)
    <3> DEFINE a == Len(v.triple_shares)
               b == Len(v.opened_values)
               c == Len(g)
               a2 == Len(v2.triple_shares)
               b2 == Len(v2.opened_values)
               c2 == Len(g2)
    <3>1. /\ t <= a /\ 2 * t <= b /\ 2 * t <= c /\ a <= a2 /\ b <= b2 /\ c <= c2
          /\ a \in Nat /\ b \in Nat /\ c \in Nat /\ a2 \in Nat /\ b2 \in Nat /\ c2 \in Nat
      BY <2>2, <2>3, <2>4
    <3> HIDE DEF a, b, c, a2, b2, c2
    <3>2. /\ t \in 1 .. a /\ t <= a2 /\ 2 * t \in 1 .. b /\ 2 * t - 1 \in 1 .. b /\ 2 * t <= b2
          /\ 2 * t \in 1 .. c /\ 2 * t - 1 \in 1 .. c /\ 2 * t <= c2
      BY <1>6, <3>1
    <3> QED BY <3>2 DEF a, b, c, a2, b2, c2
  <2>6. /\ v2.triple_shares[t] = v.triple_shares[t]
        /\ v2.opened_values[2 * t - 1] = v.opened_values[2 * t - 1]
        /\ v2.opened_values[2 * t] = v.opened_values[2 * t]
        /\ g2[2 * t - 1] = g[2 * t - 1] /\ g2[2 * t] = g[2 * t]
    BY <2>4, <2>5
  <2>7. w2[n.a] = w[n.a] /\ w2[n.b] = w[n.b]
    BY <1>7, <2>1
  <2> QED BY <2>2, <2>4, <2>5, <2>6, <2>7, <1>3, <1>5 DEF BeaverReplays, n
<1>10. GateReplays(j, v, g, w, i) /\ RecordReplays(j, v, g, w, i)
  BY DEF NodeReplays
<1>11. GateReplays(j, v2, g2, w2, i)
  <2>1. CASE n.op = "Add"
    <3>1. w[i] = AddVal(p, w[n.a], w[n.b])
      BY <1>10, <2>1 DEF GateReplays
    <3>2. v2.party_id = p /\ IsGate(n) /\ n.op # "Mul"
      BY <2>1 DEF Grown, IsGate
    <3>3. w2[i] = AddVal(v2.party_id, w2[n.a], w2[n.b])
      BY <3>1, <3>2, <1>3, <1>7
    <3> QED BY <3>2, <3>3 DEF GateReplays
  <2>2. CASE n.op = "Mul" /\ Multiplied(j, w, i)
    <3>1. BeaverReplays(j, v, g, w, i)
      BY <1>10, <2>2 DEF GateReplays
    <3>2. BeaverReplays(j, v2, g2, w2, i) /\ Multiplied(j, w2, i) /\ n.op # "Add"
      BY <3>1, <1>4, <1>9, <2>2
    <3> QED BY <3>2 DEF GateReplays
  <2>3. CASE n.op = "Mul" /\ ~Multiplied(j, w, i)
    <3>1. w[i] = MulVal(w[n.a], w[n.b])
      BY <1>10, <2>3 DEF GateReplays
    <3>2. IsGate(n) /\ n.op # "Add" /\ ~Multiplied(j, w2, i)
      BY <2>3, <1>4 DEF IsGate
    <3>3. w2[i] = MulVal(w2[n.a], w2[n.b])
      BY <3>1, <3>2, <1>3, <1>7
    <3> QED BY <3>2, <3>3 DEF GateReplays
  <2>4. CASE n.op # "Add" /\ n.op # "Mul"
    BY <2>4 DEF GateReplays
  <2> QED BY <2>1, <2>2, <2>3, <2>4
<1>12. RecordReplays(j, v2, g2, w2, i)
  <2> SUFFICES ASSUME Recorded(j, p, w, i)
               PROVE  /\ k <= Len(v2.local_operations)
                      /\ v2.local_operations[k] = ExpectedOp(j, g2, w2, i)
    <3>1. v2.party_id = p
      BY DEF Grown
    <3> QED BY <3>1, <1>4, <1>5 DEF RecordReplays
  <2>1. k <= Len(v.local_operations) /\ v.local_operations[k] = ExpectedOp(j, g, w, i)
    BY <1>10 DEF RecordReplays
  <2>2. /\ Len(v.local_operations) \in Nat /\ Len(v2.local_operations) \in Nat
        /\ Len(v.local_operations) <= Len(v2.local_operations)
        /\ \A m \in 1 .. Len(v.local_operations) : v2.local_operations[m] = v.local_operations[m]
    BY ViewTypes DEF Grown, Extends
  <2>3. k <= Len(v2.local_operations) /\ v2.local_operations[k] = v.local_operations[k]
    <3> HIDE DEF k
    <3> QED BY <1>6, <2>1, <2>2
  <2>4. IsGate(n)
    BY DEF Recorded
  <2>5. ExpectedOp(j, g2, w2, i) = ExpectedOp(j, g, w, i)
    <3>1. CASE Multiplied(j, w, i)
      <4>1. BeaverReplays(j, v, g, w, i) /\ n.op = "Mul"
        BY <1>10, <3>1 DEF GateReplays, Multiplied
      <4>2. g2[2 * t - 1] = g[2 * t - 1] /\ g2[2 * t] = g[2 * t]
        BY <4>1, <3>1, <1>9
      <4> HIDE DEF t
      <4> QED BY <4>1, <4>2, <3>1, <1>3, <1>4, <1>5 DEF ExpectedOp, t
    <3>2. CASE ~Multiplied(j, w, i)
      <4>1. ~Multiplied(j, w2, i) /\ w2[n.a] = w[n.a] /\ w2[n.b] = w[n.b] /\ w2[i] = w[i]
        BY <1>3, <1>4, <1>7, <2>4, <3>2
      <4> QED BY <4>1, <3>2 DEF ExpectedOp
    <3> QED BY <3>1, <3>2
  <2> QED BY <2>1, <2>3, <2>5
<1> QED BY <1>8, <1>11, <1>12 DEF NodeReplays

\* The evaluation w, which the view v replays, goes on with value x for node i.
NextNode(j, v, g, w, x, w2, i) ==
  /\ Checked(j) /\ v \in PartyView /\ ViewReplays(j, v, g, w)
  /\ Len(w) < Len(j.circuit.nodes) /\ i = Len(w) + 1
  /\ x \in LocalVal /\ w2 = Append(w, x)

\* The record of the node that an evaluation comes to next goes to the ends of the view.
LEMMA NextPosition ==
  ASSUME NEW j, NEW v, NEW g, NEW w, NEW x, NEW w2, NEW i, NextNode(j, v, g, w, x, w2, i)
  PROVE  /\ i \in DOMAIN j.circuit.nodes /\ i \in Nat \ {0}
         /\ w \in Seq(LocalVal) /\ w2 \in Seq(LocalVal) /\ Len(w2) = i
         /\ Extends(w, w2) /\ w2[i] = x
         /\ \A k \in 1 .. i - 1 : w2[k] = w[k]
         /\ OpPosition(j, v.party_id, w2, i) = Len(v.local_operations) + 1
         /\ TriplePosition(j, w2, i) = Len(v.triple_shares) + 1
         /\ Recorded(j, v.party_id, w2, i) <=> Recorded(j, v.party_id, w, i)
         /\ Multiplied(j, w2, i) <=> Multiplied(j, w, i)
         /\ IsGate(nodeOf(j, i)) => /\ w2[nodeOf(j, i).a] = w[nodeOf(j, i).a]
                                    /\ w2[nodeOf(j, i).b] = w[nodeOf(j, i).b]
<1> USE DEF NextNode
<1>1. w \in Seq(LocalVal) /\ j.circuit.nodes \in Seq(Node)
  BY DEF ViewReplays, Checked, Circuit
<1>2. /\ i \in DOMAIN j.circuit.nodes /\ i \in Nat \ {0} /\ i \in 1 .. Len(j.circuit.nodes) + 1
      /\ DOMAIN j.circuit.nodes = 1 .. Len(j.circuit.nodes)
  BY <1>1
<1>3. /\ w2 \in Seq(LocalVal) /\ Len(w2) = i /\ w2[i] = x
      /\ \A k \in 1 .. Len(w) : w2[k] = w[k]
      /\ Len(w) \in Nat /\ i - 1 = Len(w)
  BY <1>1
<1>4. Extends(w, w2) /\ (\A k \in 1 .. i - 1 : w2[k] = w[k])
  BY <1>3 DEF Extends
<1>5. /\ OpPosition(j, v.party_id, w2, i) = OpPosition(j, v.party_id, w, i)
      /\ TriplePosition(j, w2, i) = TriplePosition(j, w, i)
  BY <1>2, <1>4, PositionKept
<1>6. /\ Recorded(j, v.party_id, w2, i) <=> Recorded(j, v.party_id, w, i)
      /\ Multiplied(j, w2, i) <=> Multiplied(j, w, i)
  BY <1>2, <1>4, RecordedKept
<1>7. /\ OpPosition(j, v.party_id, w, i) = Len(v.local_operations) + 1
      /\ TriplePosition(j, w, i) = Len(v.triple_shares) + 1
  BY DEF ViewReplays
<1>8. ASSUME IsGate(nodeOf(j, i))
      PROVE  w2[nodeOf(j, i).a] = w[nodeOf(j, i).a] /\ w2[nodeOf(j, i).b] = w[nodeOf(j, i).b]
  <2> DEFINE n == nodeOf(j, i)
  <2>1. n.a \in DOMAIN j.circuit.nodes /\ n.a < i /\ n.b \in DOMAIN j.circuit.nodes /\ n.b < i
    BY <1>2, <1>8, OperandsBefore DEF Checked, nodeOf
  <2> HIDE DEF n
  <2>2. n.a \in 1 .. i - 1 /\ n.b \in 1 .. i - 1
    <3>1. n.a \in Nat \ {0} /\ n.b \in Nat \ {0}
      BY <1>1, <1>2, <2>1
    <3> QED BY <1>2, <2>1, <3>1
  <2> QED BY <1>4, <2>2 DEF n
<1> QED BY <1>1, <1>2, <1>3, <1>4, <1>5, <1>6, <1>7, <1>8

\* After it come the next positions.
LEMMA AfterNext ==
  ASSUME NEW j, NEW v, NEW g, NEW w, NEW x, NEW w2, NEW i, NextNode(j, v, g, w, x, w2, i)
  PROVE  /\ Recorded(j, v.party_id, w, i) => OpPosition(j, v.party_id, w2, i + 1) = Len(v.local_operations) + 1 + 1
         /\ ~Recorded(j, v.party_id, w, i) => OpPosition(j, v.party_id, w2, i + 1) = Len(v.local_operations) + 1
         /\ Multiplied(j, w, i) => TriplePosition(j, w2, i + 1) = Len(v.triple_shares) + 1 + 1
         /\ ~Multiplied(j, w, i) => TriplePosition(j, w2, i + 1) = Len(v.triple_shares) + 1
<1>1. /\ i \in Nat \ {0}
      /\ OpPosition(j, v.party_id, w2, i) = Len(v.local_operations) + 1
      /\ TriplePosition(j, w2, i) = Len(v.triple_shares) + 1
      /\ Recorded(j, v.party_id, w2, i) <=> Recorded(j, v.party_id, w, i)
      /\ Multiplied(j, w2, i) <=> Multiplied(j, w, i)
  BY NextPosition
<1>2. i \in Nat \ {0}
  BY <1>1
<1>3. /\ Recorded(j, v.party_id, w2, i) => OpPosition(j, v.party_id, w2, i + 1) = OpPosition(j, v.party_id, w2, i) + 1
      /\ ~Recorded(j, v.party_id, w2, i) => OpPosition(j, v.party_id, w2, i + 1) = OpPosition(j, v.party_id, w2, i)
  BY <1>2, OpPositionStep
<1>4. /\ Multiplied(j, w2, i) => TriplePosition(j, w2, i + 1) = TriplePosition(j, w2, i) + 1
      /\ ~Multiplied(j, w2, i) => TriplePosition(j, w2, i + 1) = TriplePosition(j, w2, i)
  BY <1>2, TriplePositionStep
<1> QED BY <1>1, <1>3, <1>4, Zenon

\* A view that grew by the record of one more node replays one node more.
LEMMA AppendNode ==
  ASSUME NEW j, NEW v, NEW g, NEW w, NEW x, NEW w2, NEW i, NextNode(j, v, g, w, x, w2, i),
         NEW v2, Grown(v, v2), NEW g2, Extends(g, g2), Len(g) \in Nat, Len(g2) \in Nat,
         NodeReplays(j, v2, g2, w2, i),
         Len(v2.local_operations) = IF Recorded(j, v.party_id, w, i)
                                    THEN Len(v.local_operations) + 1
                                    ELSE Len(v.local_operations),
         Len(v2.triple_shares) = IF Multiplied(j, w, i)
                                 THEN Len(v.triple_shares) + 1 ELSE Len(v.triple_shares),
         Len(v2.opened_values) = 2 * Len(v2.triple_shares)
  PROVE  ViewReplays(j, v2, g2, w2)
<1> DEFINE p == v.party_id
<1>1. v \in PartyView /\ v2 \in PartyView /\ v2.party_id = p
  BY DEF Grown
<1>2. /\ i \in Nat \ {0} /\ w \in Seq(LocalVal) /\ w2 \in Seq(LocalVal) /\ Len(w2) = i
      /\ Extends(w, w2)
      /\ OpPosition(j, p, w2, i) = Len(v.local_operations) + 1
      /\ TriplePosition(j, w2, i) = Len(v.triple_shares) + 1
      /\ Recorded(j, p, w2, i) <=> Recorded(j, p, w, i)
      /\ Multiplied(j, w2, i) <=> Multiplied(j, w, i)
  BY NextPosition
<1>3. ASSUME NEW k \in DOMAIN w2 PROVE NodeReplays(j, v2, g2, w2, k)
  <2>1. CASE k = i
    BY <2>1
  <2>2. CASE k \in DOMAIN w
    <3>1. NodeReplays(j, v, g, w, k)
      BY <2>2 DEF NextNode, ViewReplays
    <3>2. Len(w) <= Len(j.circuit.nodes)
      <4>1. Len(w) \in Nat /\ Len(j.circuit.nodes) \in Nat
        BY <1>2, SMTT(30) DEF NextNode, Checked, Circuit
      <4> QED BY <4>1 DEF NextNode
    <3> QED BY <1>2, <2>2, <3>1, <3>2, NodeKept DEF NextNode
  <2>3. k = i \/ k \in DOMAIN w
    <3>1. i = Len(w) + 1 /\ DOMAIN w2 = 1 .. i /\ DOMAIN w = 1 .. Len(w) /\ Len(w) \in Nat
      BY <1>2 DEF NextNode
    <3> QED BY <3>1
  <2> QED BY <2>1, <2>2, <2>3
<1>6. /\ Recorded(j, p, w, i) => OpPosition(j, p, w2, i + 1) = Len(v.local_operations) + 1 + 1
      /\ ~Recorded(j, p, w, i) => OpPosition(j, p, w2, i + 1) = Len(v.local_operations) + 1
      /\ Multiplied(j, w, i) => TriplePosition(j, w2, i + 1) = Len(v.triple_shares) + 1 + 1
      /\ ~Multiplied(j, w, i) => TriplePosition(j, w2, i + 1) = Len(v.triple_shares) + 1
  BY AfterNext
<1>7. /\ Len(v2.local_operations) + 1 = OpPosition(j, p, w2, i + 1)
      /\ Len(v2.triple_shares) + 1 = TriplePosition(j, w2, i + 1)
  BY <1>6, Zenon
<1>8. v2.party_id = p /\ Len(w2) + 1 = i + 1
  BY <1>1, <1>2
<1> QED BY <1>2, <1>3, <1>7, <1>8 DEF ViewReplays

\* A node for which nothing is recorded: an input, a constant, a gate on public
\* operands, or the addition of a public value at a party that does not absorb it.
LEMMA SilentNode ==
  ASSUME NEW j, NEW v, NEW g, NEW w, NEW x, NEW w2, NEW i, NextNode(j, v, g, w, x, w2, i),
         Len(g) \in Nat, ~Recorded(j, v.party_id, w, i), LeafReplays(j, v, w2, i),
         nodeOf(j, i).op = "Add" => x = AddVal(v.party_id, w[nodeOf(j, i).a], w[nodeOf(j, i).b]),
         nodeOf(j, i).op = "Mul" => x = MulVal(w[nodeOf(j, i).a], w[nodeOf(j, i).b])
  PROVE  ViewReplays(j, v, g, w2)
<1> DEFINE n == nodeOf(j, i)
<1>1. /\ w2[i] = x
      /\ Recorded(j, v.party_id, w2, i) <=> Recorded(j, v.party_id, w, i)
      /\ Multiplied(j, w2, i) <=> Multiplied(j, w, i)
      /\ IsGate(n) => w2[n.a] = w[n.a] /\ w2[n.b] = w[n.b]
  BY NextPosition
<1>2. ~Multiplied(j, w, i)
  BY DEF Multiplied, Recorded, IsGate
<1>3. GateReplays(j, v, g, w2, i)
  <2>1. ASSUME n.op = "Add" PROVE w2[i] = AddVal(v.party_id, w2[n.a], w2[n.b])
    BY <1>1, <2>1 DEF IsGate
  <2>2. ASSUME n.op = "Mul" PROVE w2[i] = MulVal(w2[n.a], w2[n.b])
    BY <1>1, <2>2 DEF IsGate
  <2> QED BY <1>1, <1>2, <2>1, <2>2 DEF GateReplays
<1>4. RecordReplays(j, v, g, w2, i)
  BY <1>1 DEF RecordReplays
<1>5. NodeReplays(j, v, g, w2, i)
  BY <1>3, <1>4 DEF NodeReplays
<1>6. v \in PartyView /\ Len(v.opened_values) = 2 * Len(v.triple_shares)
  BY DEF NextNode, ViewReplays
<1>7. Grown(v, v) /\ Extends(g, g)
  BY <1>6, ViewTypes DEF Grown, Extends
<1> QED BY <1>2, <1>5, <1>6, <1>7, AppendNode

\* A view after one more operation.
LEMMA GrownByOp ==
  ASSUME NEW v \in PartyView, NEW op \in LocalOperation, NEW v2,
         v2 = [v EXCEPT !.local_operations = Append(v.local_operations, op)]
  PROVE  /\ Grown(v, v2)
         /\ Len(v2.local_operations) = Len(v.local_operations) + 1
         /\ v2.local_operations[Len(v.local_operations) + 1] = op
         /\ v2.triple_shares = v.triple_shares
         /\ v2.opened_values = v.opened_values
         /\ v2.input_shares = v.input_shares
         /\ v2.party_id = v.party_id
<1>1. /\ v2.local_operations = Append(v.local_operations, op)
      /\ v2.triple_shares = v.triple_shares
      /\ v2.opened_values = v.opened_values
      /\ v2.input_shares = v.input_shares
      /\ v2.party_id = v.party_id
  BY DEF PartyView
<1> DEFINE s == v.local_operations
<1>2. s \in Seq(LocalOperation)
  BY ViewTypes
<1>3. v2 \in PartyView
  <2>1. Append(s, op) \in Seq(LocalOperation)
    BY <1>2
  <2> QED BY <2>1 DEF PartyView
<1> HIDE DEF s
<1>4. /\ Len(Append(s, op)) = Len(s) + 1 /\ Append(s, op)[Len(s) + 1] = op
      /\ Extends(s, Append(s, op))
  BY <1>2 DEF Extends
<1>5. Extends(v.triple_shares, v2.triple_shares) /\ Extends(v.opened_values, v2.opened_values)
  BY <1>1, ViewTypes DEF Extends
<1> QED BY <1>1, <1>3, <1>4, <1>5 DEF Grown, s

\* A gate without a triple for which an operation is recorded.
LEMMA RecordedNode ==
  ASSUME NEW j, NEW v, NEW g, NEW w, NEW x, NEW w2, NEW i, NextNode(j, v, g, w, x, w2, i),
         Len(g) \in Nat, Recorded(j, v.party_id, w, i), ~Multiplied(j, w, i),
         NEW op \in LocalOperation, NEW v2,
         v2 = [v EXCEPT !.local_operations = Append(v.local_operations, op)],
         nodeOf(j, i).op = "Add" => /\ x = AddVal(v.party_id, w[nodeOf(j, i).a], w[nodeOf(j, i).b])
                                    /\ op = AddOp(i, x.v),
         nodeOf(j, i).op = "Mul" =>
           /\ x = MulVal(w[nodeOf(j, i).a], w[nodeOf(j, i).b])
           /\ op = MulPublicOp(i, IF w[nodeOf(j, i).b].shared THEN w[nodeOf(j, i).a].v
                                  ELSE w[nodeOf(j, i).b].v, x.v)
  PROVE  ViewReplays(j, v2, g, w2)
<1> DEFINE n == nodeOf(j, i)
<1>1. v \in PartyView /\ Len(v.opened_values) = 2 * Len(v.triple_shares)
  BY DEF NextNode, ViewReplays
<1>2. /\ Grown(v, v2)
      /\ Len(v2.local_operations) = Len(v.local_operations) + 1
      /\ v2.local_operations[Len(v.local_operations) + 1] = op
      /\ v2.triple_shares = v.triple_shares
      /\ v2.opened_values = v.opened_values
      /\ v2.input_shares = v.input_shares
      /\ v2.party_id = v.party_id
  BY <1>1, GrownByOp
<1>3. /\ w2[i] = x
      /\ OpPosition(j, v.party_id, w2, i) = Len(v.local_operations) + 1
      /\ Recorded(j, v.party_id, w2, i) <=> Recorded(j, v.party_id, w, i)
      /\ Multiplied(j, w2, i) <=> Multiplied(j, w, i)
      /\ IsGate(n) => w2[n.a] = w[n.a] /\ w2[n.b] = w[n.b]
  BY NextPosition
<1>4. IsGate(n)
  BY DEF Recorded
<1>5. LeafReplays(j, v2, w2, i)
  BY <1>4 DEF LeafReplays, IsGate
<1>6. GateReplays(j, v2, g, w2, i)
  BY <1>2, <1>3, <1>4 DEF GateReplays
<1>7. ExpectedOp(j, g, w2, i) = op
  BY <1>3, <1>4 DEF ExpectedOp, IsGate
<1>8. RecordReplays(j, v2, g, w2, i)
  <2>1. Len(v2.local_operations) \in Nat
    BY <1>2, ViewTypes DEF Grown
  <2>2. Len(v.local_operations) + 1 <= Len(v2.local_operations)
    BY <1>2, <2>1
  <2> QED BY <1>2, <1>3, <1>7, <2>2 DEF RecordReplays
<1>9. NodeReplays(j, v2, g, w2, i)
  BY <1>5, <1>6, <1>8 DEF NodeReplays
<1>10. Extends(g, g)
  BY DEF Extends
<1>11. /\ Len(v2.local_operations) = IF Recorded(j, v.party_id, w, i)
                                     THEN Len(v.local_operations) + 1
                                     ELSE Len(v.local_operations)
       /\ Len(v2.triple_shares) = IF Multiplied(j, w, i)
                                  THEN Len(v.triple_shares) + 1 ELSE Len(v.triple_shares)
       /\ Len(v2.opened_values) = 2 * Len(v2.triple_shares)
  BY <1>1, <1>2
<1>12. Grown(v, v2)
  BY <1>2
<1> QED BY <1>9, <1>10, <1>11, <1>12, AppendNode

\* Two elements put at the end of a sequence.
LEMMA ConcatPair ==
  ASSUME NEW o \in Seq(F), NEW x \in F, NEW y \in F
  PROVE  /\ o \o <<x, y>> \in Seq(F)
         /\ Len(o \o <<x, y>>) = Len(o) + 2
         /\ \A k \in DOMAIN o : (o \o <<x, y>>)[k] = o[k]
         /\ (o \o <<x, y>>)[Len(o) + 1] = x
         /\ (o \o <<x, y>>)[Len(o) + 2] = y
<1> DEFINE b == <<x, y>>
<1>1. b \in Seq(F) /\ Len(b) = 2 /\ b[1] = x /\ b[2] = y
  OBVIOUS
<1> HIDE DEF b
<1>2. /\ o \o b \in Seq(F)
      /\ Len(o \o b) = Len(o) + Len(b)
      /\ \A i \in 1 .. Len(o) + Len(b) : (o \o b)[i] = IF i <= Len(o) THEN o[i] ELSE b[i - Len(o)]
  BY <1>1, ConcatProperties
<1>3. Len(o) \in Nat /\ DOMAIN o = 1 .. Len(o)
  OBVIOUS
<1>4. (o \o b)[Len(o) + 1] = b[1]
  BY <1>1, <1>2, <1>3
<1>5. (o \o b)[Len(o) + 2] = b[2]
  BY <1>1, <1>2, <1>3
<1>6. \A k \in DOMAIN o : (o \o b)[k] = o[k]
  BY <1>1, <1>2, <1>3
<1> QED BY <1>1, <1>2, <1>4, <1>5, <1>6 DEF b

\* v2 is the view v after one more multiplication.
AfterTriple(v, v2, op, tr, d, e) ==
  /\ v \in PartyView /\ op \in LocalOperation /\ tr \in TripleShare /\ d \in F /\ e \in F
  /\ v2 = [repetition_id |-> v.repetition_id, party_id |-> v.party_id,
           input_shares |-> v.input_shares,
           local_operations |-> Append(v.local_operations, op),
           triple_shares |-> Append(v.triple_shares, tr),
           opened_values |-> v.opened_values \o <<d, e>>]

\* It has grown at the ends of its vectors.
LEMMA GrownByTriple ==
  ASSUME NEW v, NEW v2, NEW op, NEW tr, NEW d, NEW e, AfterTriple(v, v2, op, tr, d, e)
  PROVE  /\ Grown(v, v2)
         /\ Len(v2.local_operations) = Len(v.local_operations) + 1
         /\ v2.local_operations[Len(v.local_operations) + 1] = op
         /\ Len(v2.triple_shares) = Len(v.triple_shares) + 1
         /\ v2.triple_shares[Len(v.triple_shares) + 1] = tr
         /\ Len(v2.opened_values) = Len(v.opened_values) + 2
         /\ v2.opened_values[Len(v.opened_values) + 1] = d
         /\ v2.opened_values[Len(v.opened_values) + 2] = e
         /\ v2.party_id = v.party_id
<1> DEFINE s == v.local_operations
           t == v.triple_shares
           o == v.opened_values
           b == o \o <<d, e>>
<1>1. /\ v2.local_operations = Append(s, op)
      /\ v2.triple_shares = Append(t, tr)
      /\ v2.opened_values = b
      /\ v2.input_shares = v.input_shares
      /\ v2.party_id = v.party_id
  BY DEF PartyView, AfterTriple
<1>2. s \in Seq(LocalOperation) /\ t \in Seq(TripleShare) /\ o \in Seq(F)
  BY ViewTypes DEF AfterTriple
<1> HIDE DEF s, t, o
<1>4. /\ b \in Seq(F) /\ Len(b) = Len(o) + 2
      /\ \A k \in 1 .. Len(o) : b[k] = o[k]
      /\ b[Len(o) + 1] = d /\ b[Len(o) + 2] = e
      /\ Len(o) \in Nat
  <2>1. \A k \in DOMAIN o : b[k] = o[k]
    BY <1>2, ConcatPair DEF AfterTriple
  <2>2. /\ b \in Seq(F) /\ Len(b) = Len(o) + 2
        /\ b[Len(o) + 1] = d /\ b[Len(o) + 2] = e
    BY <1>2, ConcatPair DEF AfterTriple
  <2> QED BY <1>2, <2>1, <2>2
<1> HIDE DEF b
<1>5. /\ Append(s, op) \in Seq(LocalOperation) /\ Extends(s, Append(s, op))
      /\ Len(Append(s, op)) = Len(s) + 1 /\ Append(s, op)[Len(s) + 1] = op
  BY <1>2 DEF Extends, AfterTriple
<1>6. /\ Append(t, tr) \in Seq(TripleShare) /\ Extends(t, Append(t, tr))
      /\ Len(Append(t, tr)) = Len(t) + 1 /\ Append(t, tr)[Len(t) + 1] = tr
  BY <1>2 DEF Extends, AfterTriple
<1>7. Extends(o, b)
  BY <1>4 DEF Extends
<1>8. v2 \in PartyView
  BY <1>4, <1>5, <1>6 DEF PartyView, AfterTriple, s, t, b, o
<1>9. Grown(v, v2)
  <2>1. v \in PartyView
    BY DEF AfterTriple
  <2> QED BY <1>1, <1>5, <1>6, <1>7, <1>8, <2>1 DEF Grown, s, t, o
<1> QED BY <1>1, <1>4, <1>5, <1>6, <1>9 DEF s, t, o

\* The broadcasts of one multiplication extend the masks by d and e.
MasksExtended(g, g2, d, e) ==
  /\ Extends(g, g2) /\ Len(g2) = Len(g) + 2
  /\ g2[Len(g) + 1] = d /\ g2[Len(g) + 2] = e

\* What one party computes and records for a Beaver multiplication.
BeaverRecord(j, v, w, i, tr, d, e, x, dp, ep, op) ==
  /\ x = [shared |-> TRUE, v |-> beaver_share(v.party_id, tr.a, tr.b, tr.c, d, e)]
  /\ dp = Minus(w[nodeOf(j, i).a].v, tr.a)
  /\ ep = Minus(w[nodeOf(j, i).b].v, tr.b)
  /\ op = BeaverMulOp(i, Len(v.triple_shares) + 1, d, e, x.v)

\* A Beaver multiplication with triple share tr.
LEMMA MultipliedNode ==
  ASSUME NEW j, NEW v, NEW g, NEW w, NEW x, NEW w2, NEW i, NextNode(j, v, g, w, x, w2, i),
         Multiplied(j, w, i), Len(g) = Len(v.opened_values),
         NEW tr, NEW d, NEW e, NEW dp, NEW ep, NEW op,
         BeaverRecord(j, v, w, i, tr, d, e, x, dp, ep, op),
         NEW g2, MasksExtended(g, g2, d, e), NEW v2, AfterTriple(v, v2, op, tr, dp, ep)
  PROVE  ViewReplays(j, v2, g2, w2)
<1> DEFINE n == nodeOf(j, i)
           t == Len(v.triple_shares) + 1
<1>1. v \in PartyView /\ Len(v.opened_values) = 2 * Len(v.triple_shares)
  BY DEF NextNode, ViewReplays
<1>2. /\ Grown(v, v2)
      /\ Len(v2.local_operations) = Len(v.local_operations) + 1
      /\ v2.local_operations[Len(v.local_operations) + 1] = op
      /\ Len(v2.triple_shares) = Len(v.triple_shares) + 1
      /\ v2.triple_shares[Len(v.triple_shares) + 1] = tr
      /\ Len(v2.opened_values) = Len(v.opened_values) + 2
      /\ v2.opened_values[Len(v.opened_values) + 1] = dp
      /\ v2.opened_values[Len(v.opened_values) + 2] = ep
      /\ v2.party_id = v.party_id
  BY GrownByTriple
<1>3. Len(v.triple_shares) \in Nat /\ Len(v.local_operations) \in Nat
  BY <1>1, ViewTypes
<1>4. /\ t \in Nat \ {0}
      /\ 2 * t - 1 = Len(v.opened_values) + 1 /\ 2 * t = Len(v.opened_values) + 2
      /\ Len(v2.triple_shares) = t /\ Len(v2.opened_values) = 2 * t /\ Len(g2) = 2 * t
      /\ Len(g) \in Nat /\ Len(g2) \in Nat
  BY <1>1, <1>2, <1>3 DEF MasksExtended
<1>5. /\ w2[i] = x
      /\ OpPosition(j, v.party_id, w2, i) = Len(v.local_operations) + 1
      /\ TriplePosition(j, w2, i) = t
      /\ Recorded(j, v.party_id, w2, i) <=> Recorded(j, v.party_id, w, i)
      /\ Multiplied(j, w2, i) <=> Multiplied(j, w, i)
      /\ IsGate(n) => w2[n.a] = w[n.a] /\ w2[n.b] = w[n.b]
  BY NextPosition
<1>6. n.op = "Mul" /\ IsGate(n) /\ Recorded(j, v.party_id, w, i)
  BY DEF Multiplied, IsGate, Recorded
<1>7. LeafReplays(j, v2, w2, i)
  BY <1>6 DEF LeafReplays
<1>8. BeaverReplays(j, v2, g2, w2, i)
  <2>1. /\ v2.triple_shares[t] = tr /\ v2.opened_values[2 * t - 1] = dp
        /\ v2.opened_values[2 * t] = ep /\ g2[2 * t - 1] = d /\ g2[2 * t] = e
    BY <1>2, <1>4 DEF MasksExtended
  <2>2. t <= t /\ 2 * t <= 2 * t
    BY <1>4
  <2> HIDE DEF t
  <2>3. /\ dp = Minus(w2[n.a].v, tr.a) /\ ep = Minus(w2[n.b].v, tr.b)
        /\ w2[i] = [shared |-> TRUE, v |-> beaver_share(v2.party_id, tr.a, tr.b, tr.c, d, e)]
    BY <1>2, <1>5, <1>6 DEF BeaverRecord
  <2> QED BY <1>4, <1>5, <2>1, <2>2, <2>3 DEF BeaverReplays
<1>9. GateReplays(j, v2, g2, w2, i)
  BY <1>5, <1>6, <1>8 DEF GateReplays
<1>10. ExpectedOp(j, g2, w2, i) = op
  <2>1. g2[2 * t - 1] = d /\ g2[2 * t] = e
    BY <1>4 DEF MasksExtended
  <2>2. ExpectedOp(j, g2, w2, i) = BeaverMulOp(i, t, g2[2 * t - 1], g2[2 * t], w2[i].v)
    <3> HIDE DEF t
    <3> QED BY <1>5, <1>6 DEF ExpectedOp
  <2> QED BY <2>1, <2>2, <1>5 DEF BeaverRecord
<1>11. RecordReplays(j, v2, g2, w2, i)
  <2>1. Len(v.local_operations) + 1 <= Len(v2.local_operations)
    BY <1>2, <1>3
  <2> QED BY <1>2, <1>5, <1>10, <2>1 DEF RecordReplays
<1>12. NodeReplays(j, v2, g2, w2, i)
  BY <1>7, <1>9, <1>11 DEF NodeReplays
<1>13. /\ Len(v2.local_operations) = IF Recorded(j, v.party_id, w, i)
                                     THEN Len(v.local_operations) + 1
                                     ELSE Len(v.local_operations)
       /\ Len(v2.triple_shares) = IF Multiplied(j, w, i)
                                  THEN Len(v.triple_shares) + 1 ELSE Len(v.triple_shares)
       /\ Len(v2.opened_values) = 2 * Len(v2.triple_shares)
  BY <1>2, <1>4, <1>6
<1>14. Grown(v, v2) /\ Len(g) \in Nat /\ Len(g2) \in Nat /\ Extends(g, g2)
  BY <1>2, <1>4 DEF MasksExtended
<1> QED BY <1>12, <1>13, <1>14, AppendNode
-----------------------------------------------------------------------------
\* A circuit has one reference evaluation.
LEMMA ReferenceUnique ==
  ASSUME NEW j, Checked(j), NEW r, NEW s, IsReference(j, r), IsReference(j, s),
         Len(r) = Len(j.circuit.nodes), Len(s) = Len(j.circuit.nodes)
  PROVE  r = s
<1> DEFINE D == DOMAIN j.circuit.nodes
           T == {k \in D : r[k] = s[k]}
<1>1. D = 1 .. Len(j.circuit.nodes) /\ Len(j.circuit.nodes) \in Nat /\ D \subseteq Nat
  BY DEF Checked, Circuit
<1>2. r \in Seq(F) /\ s \in Seq(F) /\ DOMAIN r = D /\ DOMAIN s = D
  BY <1>1 DEF IsReference
<1>3. ASSUME NEW k \in D, \A m \in D : m < k => m \in T
      PROVE  k \in T
  <2> DEFINE n == nodeOf(j, k)
  <2>1. ReferenceNode(j, r, k) /\ ReferenceNode(j, s, k)
    BY <1>2 DEF IsReference
  <2>2. n \in Node
    BY DEF Checked, Circuit, nodeOf
  <2>3. n.op \in {"SecretInput", "PublicInput", "Constant", "Add", "Mul"}
    BY <2>2 DEF Node
  <2>4. ASSUME IsGate(n) PROVE r[n.a] = s[n.a] /\ r[n.b] = s[n.b]
    <3>1. n.a \in D /\ n.a < k /\ n.b \in D /\ n.b < k
      BY <2>4, OperandsBefore DEF Checked, nodeOf
    <3> HIDE DEF n, D
    <3> QED BY <3>1, <1>3
  <2>5. r[k] = s[k]
    BY <2>1, <2>3, <2>4 DEF ReferenceNode, IsGate
  <2> QED BY <2>5
<1>4. D \subseteq T
  <2>1. \A k \in D : (\A m \in D : m < k => m \in T) => k \in T
    BY <1>3
  <2>2. D \subseteq Nat
    BY <1>1
  <2> HIDE DEF D, T
  <2> QED BY <2>1, <2>2, StrongInduction, Zenon
<1> HIDE DEF T
<1>5. \A k \in D : r[k] = s[k]
  BY <1>4 DEF T
<1> QED BY <1>1, <1>2, <1>5

\* The reference evaluation goes on with value x.
LEMMA ReferenceAppend ==
  ASSUME NEW j, Checked(j), NEW r, IsReference(j, r), Len(r) < Len(j.circuit.nodes),
         NEW x \in F, NEW i, i = Len(r) + 1,
         LET n == nodeOf(j, i)
         IN  /\ n.op = "SecretInput" => x = j.witness[InputPosition(j, "SecretInput", i)]
             /\ n.op = "PublicInput" =>
                  x = j.statement.public_inputs[InputPosition(j, "PublicInput", i)]
             /\ n.op = "Constant" => x = n.value
             /\ n.op = "Add" => x = Plus(r[n.a], r[n.b])
             /\ n.op = "Mul" => x = Times(r[n.a], r[n.b])
  PROVE  IsReference(j, Append(r, x))
<1> DEFINE s == Append(r, x)
<1>1. r \in Seq(F) /\ j.circuit.nodes \in Seq(Node)
  BY DEF IsReference, Checked, Circuit
<1>2. /\ s \in Seq(F) /\ Len(s) = i /\ s[i] = x /\ (\A k \in 1 .. Len(r) : s[k] = r[k])
      /\ Len(r) \in Nat /\ DOMAIN s = 1 .. i /\ DOMAIN r = 1 .. Len(r)
  BY <1>1
<1> HIDE DEF s
<1>3. ASSUME NEW k \in 1 .. i, IsGate(nodeOf(j, k))
      PROVE  s[nodeOf(j, k).a] = r[nodeOf(j, k).a] /\ s[nodeOf(j, k).b] = r[nodeOf(j, k).b]
  <2> DEFINE n == nodeOf(j, k)
  <2>1. k \in DOMAIN j.circuit.nodes
    BY <1>1, <1>2
  <2>2. n.a \in DOMAIN j.circuit.nodes /\ n.a < k /\ n.b \in DOMAIN j.circuit.nodes /\ n.b < k
    BY <1>3, <2>1, OperandsBefore DEF Checked, nodeOf
  <2> HIDE DEF n
  <2>3. n.a \in 1 .. Len(r) /\ n.b \in 1 .. Len(r)
    <3>1. n.a \in Nat \ {0} /\ n.b \in Nat \ {0}
      BY <1>1, <2>2
    <3> QED BY <1>2, <2>2, <3>1
  <2> QED BY <1>2, <2>3 DEF n
<1>4. ASSUME NEW k \in 1 .. i PROVE ReferenceNode(j, s, k)
  <2>1. CASE k = i
    BY <2>1, <1>2, <1>3 DEF ReferenceNode, IsGate
  <2>2. CASE k \in 1 .. Len(r)
    <3>1. ReferenceNode(j, r, k) /\ s[k] = r[k]
      BY <2>2, <1>2 DEF IsReference
    <3> QED BY <3>1, <1>3 DEF ReferenceNode, IsGate
  <2> QED BY <2>1, <2>2, <1>2
<1>5. IsReference(j, s)
  BY <1>2, <1>4 DEF IsReference
<1> QED BY <1>5 DEF s

\* The masks are as many as any view broadcasts.
LEMMA MasksFacts ==
  ASSUME NEW views \in [Party -> PartyView],
         \A p \in Party : Len(views[p].opened_values) = Len(views[0].opened_values)
  PROVE  /\ MasksOf(views) \in Seq(F)
         /\ Len(MasksOf(views)) = Len(views[0].opened_values)
         /\ \A k \in 1 .. Len(views[0].opened_values) :
              MasksOf(views)[k] = Sum3([p \in Party |-> views[p].opened_values[k]])
<1> DEFINE m == Len(views[0].opened_values)
<1>1. \A p \in Party : views[p].opened_values \in Seq(F) /\ Len(views[p].opened_values) = m
  BY ViewTypes
<1>2. m \in Nat /\ DOMAIN views[0].opened_values = 1 .. m
  BY <1>1 DEF Party
<1>3. ASSUME NEW k \in 1 .. m
      PROVE  Sum3([p \in Party |-> views[p].opened_values[k]]) \in F
  <2>1. \A p \in Party : views[p].opened_values[k] \in F
    BY <1>1, <1>2
  <2>2. [p \in Party |-> views[p].opened_values[k]] \in Sharing
    BY <2>1 DEF Sharing
  <2> QED BY <2>2, Sum3Type
<1>4. MasksOf(views) = [k \in 1 .. m |-> Sum3([p \in Party |-> views[p].opened_values[k]])]
  BY <1>2 DEF MasksOf
<1> DEFINE f == MasksOf(views)
<1> HIDE DEF m
<1>5. f \in [1 .. m -> F]
  BY <1>3, <1>4
<1>6. \A k \in 1 .. m : f[k] = Sum3([p \in Party |-> views[p].opened_values[k]])
  BY <1>4
<1> HIDE DEF f
<1>7. f \in Seq(F) /\ Len(f) = m
  BY <1>2, <1>5
<1> QED BY <1>6, <1>7 DEF m, f

\* One multiplication in every view extends the masks by the sums of its broadcasts.
LEMMA MasksGrow ==
  ASSUME NEW views \in [Party -> PartyView], NEW views2, views2 = [p \in Party |-> views2[p]],
         \A p \in Party : Len(views[p].opened_values) = Len(views[0].opened_values),
         NEW op, NEW tr, NEW dp \in Sharing, NEW ep \in Sharing,
         \A p \in Party : AfterTriple(views[p], views2[p], op[p], tr[p], dp[p], ep[p])
  PROVE  MasksExtended(MasksOf(views), MasksOf(views2), Sum3(dp), Sum3(ep))
<1> DEFINE m == Len(views[0].opened_values)
           g == MasksOf(views)
           g2 == MasksOf(views2)
<1>1. \A p \in Party : views[p].opened_values \in Seq(F) /\ Len(views[p].opened_values) = m
  BY ViewTypes
<1>2. 0 \in Party /\ m \in Nat
  BY <1>1 DEF Party
<1>3. ASSUME NEW p \in Party
      PROVE  /\ views2[p] \in PartyView
             /\ Len(views2[p].opened_values) = m + 2
             /\ views2[p].opened_values[m + 1] = dp[p]
             /\ views2[p].opened_values[m + 2] = ep[p]
             /\ \A k \in 1 .. m : views2[p].opened_values[k] = views[p].opened_values[k]
  <2>1. AfterTriple(views[p], views2[p], op[p], tr[p], dp[p], ep[p])
    OBVIOUS
  <2>2. /\ Grown(views[p], views2[p])
        /\ Len(views2[p].opened_values) = Len(views[p].opened_values) + 2
        /\ views2[p].opened_values[Len(views[p].opened_values) + 1] = dp[p]
        /\ views2[p].opened_values[Len(views[p].opened_values) + 2] = ep[p]
    BY <2>1, GrownByTriple
  <2>3. Len(views[p].opened_values) = m
    BY <1>1
  <2> HIDE DEF m
  <2> QED BY <2>2, <2>3 DEF Grown, Extends
<1>4. views2 \in [Party -> PartyView]
  BY <1>3
<1>5. \A p \in Party : Len(views2[p].opened_values) = Len(views2[0].opened_values)
  BY <1>2, <1>3
<1>6. /\ g \in Seq(F) /\ Len(g) = m
      /\ \A k \in 1 .. m : g[k] = Sum3([p \in Party |-> views[p].opened_values[k]])
  BY MasksFacts
<1>7. /\ g2 \in Seq(F) /\ Len(g2) = m + 2
      /\ \A k \in 1 .. m + 2 : g2[k] = Sum3([p \in Party |-> views2[p].opened_values[k]])
  <2>1. Len(views2[0].opened_values) = m + 2
    BY <1>2, <1>3
  <2>2. /\ g2 \in Seq(F) /\ Len(g2) = Len(views2[0].opened_values)
        /\ \A k \in 1 .. Len(views2[0].opened_values) :
             g2[k] = Sum3([p \in Party |-> views2[p].opened_values[k]])
    BY <1>4, <1>5, MasksFacts
  <2> HIDE DEF m, g2
  <2> QED BY <2>1, <2>2
<1> HIDE DEF m, g, g2
<1>8. \A k \in 1 .. m : g2[k] = g[k]
  BY <1>2, <1>3, <1>6, <1>7 DEF Sum3, Party
<1>9. g2[m + 1] = Sum3(dp) /\ g2[m + 2] = Sum3(ep)
  BY <1>2, <1>3, <1>7 DEF Sum3, Party
<1>10. MasksExtended(g, g2, Sum3(dp), Sum3(ep))
  BY <1>2, <1>6, <1>7, <1>8, <1>9 DEF MasksExtended, Extends
<1> QED BY <1>10 DEF g, g2
=============================================================================
