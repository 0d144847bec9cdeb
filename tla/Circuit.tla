------------------------------- MODULE Circuit -------------------------------
(***************************************************************************)
(* Arithmetic circuits (crates/circuit): the node vector, its structural   *)
(* validation, its identity, and which nodes depend on secret inputs.      *)
(*                                                                         *)
(* A NodeId is a position in the node vector.  Positions count from 1 here *)
(* and from 0 in the code.                                                 *)
(***************************************************************************)
EXTENDS Field, Sequences, FiniteSets

NodeId == Nat \ {0}

Node ==
  [op : {"SecretInput", "PublicInput"}]
    \cup [op : {"Constant"}, value : F]
    \cup [op : {"Add", "Mul"}, a : NodeId, b : NodeId]

Circuit ==
  [nodes : Seq(Node), num_secret_inputs : Nat, num_public_inputs : Nat, outputs : Seq(NodeId)]

IsGate(node) == node.op \in {"Add", "Mul"}

operands(node) == IF IsGate(node) THEN {node.a, node.b} ELSE {}

\* Positions of the nodes of one kind, and of those before position n.
Leaves(nodes, op) == {i \in DOMAIN nodes : nodes[i].op = op}

LeavesBefore(nodes, op, n) == {i \in 1 .. n - 1 : nodes[i].op = op}

\* Gates that use an operand which is not an earlier node.
BadGates(nodes) == {i \in DOMAIN nodes : \E x \in operands(nodes[i]) : x >= i}

\* The first offending operand in the code's scan: the first bad gate, its left
\* operand before its right one.
FirstBadOperand(nodes) ==
  LET i == CHOOSE g \in BadGates(nodes) : \A h \in BadGates(nodes) : g <= h
  IN  IF nodes[i].a >= i THEN nodes[i].a ELSE nodes[i].b

validate(c) ==
  IF BadGates(c.nodes) # {}
  THEN IF FirstBadOperand(c.nodes) > Len(c.nodes)
       THEN "InvalidReference" ELSE "ForwardReference"
  ELSE IF \/ Cardinality(Leaves(c.nodes, "SecretInput")) # c.num_secret_inputs
          \/ Cardinality(Leaves(c.nodes, "PublicInput")) # c.num_public_inputs
  THEN "InvalidInputCount"
  ELSE IF c.outputs = << >> THEN "MissingOutput"
  ELSE IF \E k \in DOMAIN c.outputs : c.outputs[k] > Len(c.nodes)
  THEN "InvalidReference"
  ELSE "Ok"

\* SHA-256 of the canonical encoding, which writes the nodes and the outputs (the
\* input counts are implied by the nodes).  Hash and encoding are taken as
\* injective, so the id is what is encoded.
CircuitId == {"circuit/v1"} \X Seq(Node) \X Seq(NodeId)

compute_id(c) == <<"circuit/v1", c.nodes, c.outputs>>

\* A slip to guard against: only the left operand is followed.
node_depends_on_left(c) ==
  LET dep[i \in DOMAIN c.nodes] ==
        \/ c.nodes[i].op = "SecretInput"
        \/ IsGate(c.nodes[i]) /\ dep[c.nodes[i].a]
  IN  dep

\* Whether a node's value depends on a secret input, for every node at once.
node_depends_on_secrets(c) ==
  LET dep[i \in DOMAIN c.nodes] ==
        \/ c.nodes[i].op = "SecretInput"
        \/ IsGate(c.nodes[i]) /\ (dep[c.nodes[i].a] \/ dep[c.nodes[i].b])
  IN  dep
=============================================================================
