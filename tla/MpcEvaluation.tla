---------------------------- MODULE MpcEvaluation ----------------------------
(***************************************************************************)
(* A circuit evaluated on a simulator (crates/circuit: eval_mpc.rs,        *)
(* transcript.rs) that the program may have used before: evaluate_mpc      *)
(* makes the simulator's own calls, node by node, and ends with MpcFault   *)
(* at the first one refused.  Every leaf, public ones too, is shared.      *)
(***************************************************************************)
EXTENDS Circuit, MpcSimulator

CONSTANT Runs
(***************************************************************************)
(* A run: circuit, secret_inputs, public_inputs, the simulator sim,        *)
(* whether an enabled TranscriptHook is passed, and after how many shared  *)
(* values of the program the call is made.  A circuit is evaluated once it *)
(* has been validated (build and decoding do, Circuit::new asks its caller *)
(* to); an operand out of range would be a panic.                          *)
(***************************************************************************)
Run == [circuit : Circuit, secret_inputs : Seq(F), public_inputs : Seq(F), sim : Simulators,
        hook : BOOLEAN, after : Nat]

ASSUME RunsAssumption == Runs \subseteq Run /\ \A r \in Runs : validate(r.circuit) = "Ok"

VARIABLES
  run,          \* the call, << >> before it
  values,       \* the shared node values so far, as positions in heap
  next_secret, next_public,
  events,       \* TranscriptHook.events
  result,       \* "idle", "running", then "Ok" or the error returned
  revealed      \* the outputs revealed by reveal_output, in order

evaluationVars == <<run, values, next_secret, next_public, events, result, revealed>>
vars == <<simulatorVars, evaluationVars>>

Init ==
  /\ SimulatorInit
  /\ run = << >>
  /\ values = << >>
  /\ next_secret = 0
  /\ next_public = 0
  /\ events = << >>
  /\ result = "idle"
  /\ revealed = << >>

InputsFit(r) ==
  /\ Len(r.secret_inputs) = r.circuit.num_secret_inputs
  /\ Len(r.public_inputs) = r.circuit.num_public_inputs

evaluate_mpc(r) ==
  /\ result = "idle"
  /\ Len(heap) = r.after
  /\ run' = r
  /\ result' = IF InputsFit(r) THEN "running" ELSE "InvalidInputCount"
  /\ UNCHANGED <<simulatorVars, values, next_secret, next_public, events, revealed>>

nodes == run.circuit.nodes

index == Len(values) + 1

node == nodes[index]

AtNode(op) == result = "running" /\ index <= Len(nodes) /\ node.op = op

Operand(a) == heap[values[a]]

record(kind, n) == IF run.hook THEN Append(events, <<kind, n>>) ELSE events

\* A slip to guard against: the operation is recorded before it has succeeded.
FaultEvents_early == record("Operation", index)

\* What a call that fails leaves in the transcript.
FaultEvents == events

\* The simulator's answer: the node's value, its event after it; or the end.
Evaluated(kind) ==
  /\ IF last' = "Ok"
     THEN values' = Append(values, Len(heap')) /\ events' = record(kind, index) /\ result' = result
     ELSE values' = values /\ events' = FaultEvents /\ result' = "MpcFault"
  /\ UNCHANGED <<run, revealed>>

\* A slip to guard against: an input is read again.
Consumed_again(n) == n

Consumed(n) == n + 1

SecretInputNode ==
  /\ AtNode("SecretInput")
  /\ input(run.sim, run.secret_inputs[next_secret + 1])
  /\ next_secret' = Consumed(next_secret)
  /\ Evaluated("Input")
  /\ UNCHANGED next_public

PublicInputNode ==
  /\ AtNode("PublicInput")
  /\ input(run.sim, run.public_inputs[next_public + 1])
  /\ next_public' = Consumed(next_public)
  /\ Evaluated("Input")
  /\ UNCHANGED next_secret

ConstantNode ==
  /\ AtNode("Constant")
  /\ input(run.sim, node.value)
  /\ Evaluated("Input")
  /\ UNCHANGED <<next_secret, next_public>>

AddNode ==
  /\ AtNode("Add")
  /\ add(Operand(node.a), Operand(node.b))
  /\ Evaluated("Operation")
  /\ UNCHANGED <<next_secret, next_public>>

MulNode ==
  /\ AtNode("Mul")
  /\ mul(run.sim, Operand(node.a), Operand(node.b))
  /\ Evaluated("Operation")
  /\ UNCHANGED <<next_secret, next_public>>

Outputs ==
  /\ result = "running"
  /\ Len(values) = Len(nodes)
  /\ result' = "Ok"
  /\ events' = IF run.hook
               THEN events \o [k \in DOMAIN run.circuit.outputs |-> <<"Output", run.circuit.outputs[k]>>]
               ELSE events
  /\ UNCHANGED <<simulatorVars, run, values, next_secret, next_public, revealed>>

\* The caller reveals the outputs one after the other.
reveal_output ==
  /\ result = "Ok"
  /\ Len(revealed) < Len(run.circuit.outputs)
  /\ LET o == run.circuit.outputs[Len(revealed) + 1]
     IN  /\ RevealAllowed(run.sim, Operand(o))
         /\ revealed' = Append(revealed, reveal(Operand(o)))
         /\ events' = record("Open", o)
  /\ UNCHANGED <<simulatorVars, run, values, next_secret, next_public, result>>

\* The program's own calls, before the evaluation.
Before == result = "idle" /\ Calls /\ UNCHANGED evaluationVars

Next ==
  \/ Before
  \/ \E r \in Runs : evaluate_mpc(r)
  \/ SecretInputNode \/ PublicInputNode \/ ConstantNode \/ AddNode \/ MulNode
  \/ Outputs \/ reveal_output

Spec == Init /\ [][Next]_vars
-----------------------------------------------------------------------------
TypeOK ==
  /\ SimulatorTypeOK
  /\ result \in {"idle", "running", "Ok", "InvalidInputCount", "MpcFault"}
  /\ values \in Seq(DOMAIN heap)
  /\ revealed \in Seq(F)
  /\ next_secret \in Nat /\ next_public \in Nat

\* evaluate_reference: the value of every node in the clear, inputs in node order.
InputOf(r, seq, op, i) == seq[Cardinality(LeavesBefore(r.circuit.nodes, op, i)) + 1]

\* The value of node n at position i, from the values v of the nodes before it.
NodeValue(r, n, i, v) ==
  CASE n.op = "SecretInput" -> InputOf(r, r.secret_inputs, "SecretInput", i)
    [] n.op = "PublicInput" -> InputOf(r, r.public_inputs, "PublicInput", i)
    [] n.op = "Constant" -> n.value
    [] n.op = "Add" -> Plus(v[n.a], v[n.b])
    [] n.op = "Mul" -> Times(v[n.a], v[n.b])

evaluate_reference(r) ==
  LET v[i \in DOMAIN r.circuit.nodes] == NodeValue(r, r.circuit.nodes[i], i, v) IN v

(* The MPC evaluation reveals what evaluate_reference computes, for every       *)
(* number of parties, every random draw and whatever the simulator was used for *)
(* before: a provider that runs out or shares among other parties ends the      *)
(* evaluation, and what it returns was computed in its own execution alone.     *)
RevealsReference ==
  /\ \A k \in DOMAIN revealed : revealed[k] = evaluate_reference(run)[run.circuit.outputs[k]]
  /\ result = "Ok" => \A i \in DOMAIN values : Operand(i).contexts = {run.sim}

\* The events of a complete evaluation and of the reveals after it.
CanonicalEvents ==
  [i \in DOMAIN nodes |-> <<IF IsGate(nodes[i]) THEN "Operation" ELSE "Input", i>>]
    \o [k \in DOMAIN run.circuit.outputs |-> <<"Output", run.circuit.outputs[k]>>]
    \o [k \in DOMAIN run.circuit.outputs |-> <<"Open", run.circuit.outputs[k]>>]

(* "structural events are recorded in deterministic topological order"          *)
(* (eval_mpc.rs): the transcript is a function of the circuit and of how far    *)
(* the evaluation got, never of the inputs, the random draws, earlier use of    *)
(* the simulator or a fault; a node appears in it exactly when it has a value.  *)
TranscriptFollowsCircuit ==
  IF run = << >> \/ ~run.hook THEN events = << >>
  ELSE events = SubSeq(CanonicalEvents, 1,
                       IF result = "Ok" THEN Len(nodes) + Len(run.circuit.outputs) + Len(revealed)
                       ELSE Len(values))

(* What makes the two inductive: how far the evaluation has got in each stage,  *)
(* and that every node evaluated so far has the reference value, in shares of   *)
(* the run's own simulator.                                                     *)
StagesInOrder ==
  /\ result = "idle" => run = << >> /\ values = << >> /\ events = << >> /\ revealed = << >>
  /\ result # "idle" => run \in Runs
  /\ result \in {"running", "Ok", "MpcFault"} => InputsFit(run)
  /\ result = "InvalidInputCount" => values = << >>
  /\ result # "Ok" => revealed = << >>
  /\ result # "idle" => Len(values) <= Len(nodes) /\ Len(revealed) <= Len(run.circuit.outputs)
  /\ result = "Ok" => Len(values) = Len(nodes)

CursorsCountLeaves ==
  /\ result = "idle" => next_secret = 0 /\ next_public = 0
  /\ result = "running" =>
       /\ next_secret = Cardinality(LeavesBefore(nodes, "SecretInput", index))
       /\ next_public = Cardinality(LeavesBefore(nodes, "PublicInput", index))

ValuesAreReference ==
  \A i \in DOMAIN values :
    /\ Operand(i).plain = evaluate_reference(run)[i]
    /\ Operand(i).contexts = {run.sim}
    /\ Len(Operand(i).shares) = party_count[run.sim]

RevealedAreReference ==
  \A k \in DOMAIN revealed : revealed[k] = evaluate_reference(run)[run.circuit.outputs[k]]

EvaluationInv ==
  /\ SimulatorInv
  /\ TypeOK
  /\ StagesInOrder
  /\ CursorsCountLeaves
  /\ ValuesAreReference
  /\ RevealedAreReference
=============================================================================
