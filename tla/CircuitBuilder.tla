---------------------------- MODULE CircuitBuilder ----------------------------
(***************************************************************************)
(* The circuit builder (crates/circuit/src/builder.rs): a caller adds      *)
(* leaves, gates and outputs in any order, with any NodeId, and finally    *)
(* consumes the builder with build, which validates the circuit.  A call   *)
(* that fails returns an error and leaves the builder as it was.           *)
(***************************************************************************)
EXTENDS Circuit

CONSTANTS
  Constants,   \* the field elements callers use as constants
  MaxNodes,    \* the node count a NodeId can address (2^32 in the code)
  MaxOutputs,  \* bound on the number of output calls
  Ids          \* the NodeIds callers pass, valid or not

ASSUME BuilderConstants ==
  /\ Constants \subseteq F
  /\ MaxNodes \in Nat
  /\ MaxOutputs \in Nat
  /\ Ids \subseteq NodeId

VARIABLES
  nodes, num_secret_inputs, num_public_inputs, outputs,
  status   \* "open" until build or a panic consumes the builder

builder == <<nodes, num_secret_inputs, num_public_inputs, outputs>>
vars == <<builder, status>>

Errors == {"InvalidReference", "ForwardReference", "InvalidInputCount", "MissingOutput"}

Init ==
  /\ nodes = << >>
  /\ num_secret_inputs = 0
  /\ num_public_inputs = 0
  /\ outputs = << >>
  /\ status = "open"
-----------------------------------------------------------------------------
\* Slips to guard against: no check, a check against the node about to be pushed.
check_defined_always(id) == TRUE

check_defined_off_by_one(id) == id <= Len(nodes) + 1

\* An id is known when a node has been pushed at it.
check_defined(id) == id <= Len(nodes)

\* next_node_id panics when the new position does not fit a NodeId.
push(node) ==
  IF Len(nodes) < MaxNodes
  THEN nodes' = Append(nodes, node) /\ status' = status
  ELSE nodes' = nodes /\ status' = "panicked"

secret_input ==
  /\ status = "open"
  /\ num_secret_inputs' = num_secret_inputs + 1
  /\ push([op |-> "SecretInput"])
  /\ UNCHANGED <<num_public_inputs, outputs>>

public_input ==
  /\ status = "open"
  /\ num_public_inputs' = num_public_inputs + 1
  /\ push([op |-> "PublicInput"])
  /\ UNCHANGED <<num_secret_inputs, outputs>>

constant(v) ==
  /\ status = "open"
  /\ push([op |-> "Constant", value |-> v])
  /\ UNCHANGED <<num_secret_inputs, num_public_inputs, outputs>>

\* add and mul; an undefined operand is an error that changes nothing.
gate(op, a, b) ==
  /\ status = "open"
  /\ check_defined(a)
  /\ check_defined(b)
  /\ push([op |-> op, a |-> a, b |-> b])
  /\ UNCHANGED <<num_secret_inputs, num_public_inputs, outputs>>

output(id) ==
  /\ status = "open"
  /\ Len(outputs) < MaxOutputs
  /\ check_defined(id)
  /\ outputs' = Append(outputs, id)
  /\ UNCHANGED <<nodes, num_secret_inputs, num_public_inputs, status>>

circuit ==
  [nodes |-> nodes, num_secret_inputs |-> num_secret_inputs,
   num_public_inputs |-> num_public_inputs, outputs |-> outputs]

build ==
  /\ status = "open"
  /\ status' = IF validate(circuit) = "Ok" THEN "built" ELSE validate(circuit)
  /\ UNCHANGED builder

Next ==
  \/ secret_input
  \/ public_input
  \/ \E v \in Constants : constant(v)
  \/ \E op \in {"Add", "Mul"}, a, b \in Ids : gate(op, a, b)
  \/ \E id \in Ids : output(id)
  \/ build

Spec == Init /\ [][Next]_vars
-----------------------------------------------------------------------------
TypeOK ==
  /\ nodes \in Seq(Node)
  /\ num_secret_inputs \in Nat
  /\ num_public_inputs \in Nat
  /\ outputs \in Seq(NodeId)
  /\ status \in {"open", "built", "panicked"} \cup Errors

(* Every gate uses earlier nodes only, and every node has an id of its own: the *)
(* node vector is a topological order of nodes that a NodeId can address (what  *)
(* builder.rs and node.rs promise, and every evaluator relies on when it        *)
(* indexes values[operand] without a check).                                   *)
TopologicalOrder ==
  /\ Len(nodes) <= MaxNodes
  /\ \A i \in DOMAIN nodes : \A x \in operands(nodes[i]) : x < i

(* While the builder is usable its counters agree with its leaves.             *)
CountersMatchLeaves ==
  status # "panicked" =>
    /\ num_secret_inputs = Cardinality(Leaves(nodes, "SecretInput"))
    /\ num_public_inputs = Cardinality(Leaves(nodes, "PublicInput"))

(* Whatever calls were made, in whatever order and with whatever ids, the only *)
(* way build can fail is that no output was declared: the checks of validate   *)
(* never reject what the builder let through.                                  *)
BuildFailsOnlyWithoutOutput ==
  /\ status \in Errors => status = "MissingOutput" /\ outputs = << >>
  /\ status = "built" => outputs # << >>

(* The strengthening that makes the above inductive.                           *)
OutputsDefined == \A k \in DOMAIN outputs : outputs[k] <= Len(nodes)

BuilderInv ==
  TypeOK /\ TopologicalOrder /\ CountersMatchLeaves /\ OutputsDefined /\ BuildFailsOnlyWithoutOutput
=============================================================================
