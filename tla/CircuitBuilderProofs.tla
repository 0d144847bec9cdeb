------------------------ MODULE CircuitBuilderProofs ------------------------
(***************************************************************************)
(* For every field, every set of ids a caller may pass and every bound:    *)
(* the builder only ever lets well-formed wiring through, and the          *)
(* verifier's walk over the circuit it built finds the dependence on       *)
(* secrets.                                                                *)
(***************************************************************************)
EXTENDS DependencyWalk, CircuitTheorems, SequenceTheorems

USE DEF NodeId

\* The positions of the leaves of one kind form a finite set, and appending a node
\* adds its position exactly when the node is of that kind.
LEMMA LeavesAppend ==
  ASSUME NEW ns \in Seq(Node), NEW nd \in Node, NEW op
  PROVE  /\ IsFiniteSet(Leaves(ns, op))
         /\ Cardinality(Leaves(ns, op)) \in Nat
         /\ nd.op = op => Cardinality(Leaves(Append(ns, nd), op)) = Cardinality(Leaves(ns, op)) + 1
         /\ nd.op # op => Leaves(Append(ns, nd), op) = Leaves(ns, op)
<1> DEFINE new == Append(ns, nd)
<1>1. Len(ns) \in Nat /\ DOMAIN ns = 1 .. Len(ns) /\ DOMAIN new = 1 .. (Len(ns) + 1)
  OBVIOUS
<1>2. \A i \in 1 .. Len(ns) : new[i] = ns[i]
  OBVIOUS
<1>3. new[Len(ns) + 1] = nd
  OBVIOUS
<1>4. IsFiniteSet(1 .. Len(ns))
  BY <1>1, FS_Interval
<1>5. IsFiniteSet(Leaves(ns, op)) /\ Cardinality(Leaves(ns, op)) \in Nat
  <2>1. Leaves(ns, op) \subseteq 1 .. Len(ns)
    BY <1>1 DEF Leaves
  <2> QED BY <2>1, <1>4, FS_Subset, FS_CardinalityType
<1>6. ASSUME nd.op = op
      PROVE  Cardinality(Leaves(new, op)) = Cardinality(Leaves(ns, op)) + 1
  <2>1. Leaves(new, op) = Leaves(ns, op) \cup {Len(ns) + 1}
    BY <1>1, <1>2, <1>3, <1>6 DEF Leaves
  <2>2. Len(ns) + 1 \notin Leaves(ns, op)
    BY <1>1 DEF Leaves
  <2> QED BY <2>1, <2>2, <1>5, FS_AddElement
<1>7. ASSUME nd.op # op
      PROVE  Leaves(new, op) = Leaves(ns, op)
  BY <1>1, <1>2, <1>3, <1>7 DEF Leaves
<1> QED BY <1>5, <1>6, <1>7

\* An ordered node vector has no bad gate, so validate can only miss an output.
LEMMA ValidateOfBuilder ==
  ASSUME TypeOK, TopologicalOrder, CountersMatchLeaves, OutputsDefined, status = "open"
  PROVE  /\ outputs = << >> => validate(circuit) = "MissingOutput"
         /\ outputs # << >> => validate(circuit) = "Ok"
<1>1. BadGates(nodes) = {}
  <2> SUFFICES ASSUME NEW i \in DOMAIN nodes, NEW x \in operands(nodes[i]), x >= i
               PROVE  FALSE
    BY DEF BadGates
  <2>1. x < i
    BY DEF TopologicalOrder
  <2>2. nodes[i] \in Node /\ i \in Nat
    BY DEF TypeOK
  <2>3. x \in Nat
    BY <2>2 DEF operands, IsGate, Node
  <2> QED BY <2>1, <2>2, <2>3
<1>2. /\ Cardinality(Leaves(nodes, "SecretInput")) = num_secret_inputs
      /\ Cardinality(Leaves(nodes, "PublicInput")) = num_public_inputs
  BY DEF CountersMatchLeaves
<1>3. ~ \E k \in DOMAIN outputs : outputs[k] > Len(nodes)
  BY DEF OutputsDefined, TypeOK
<1> QED BY <1>1, <1>2, <1>3 DEF validate, circuit

\* Appending a node preserves the parts of the invariant that speak of the nodes.
LEMMA PushPreserves ==
  ASSUME BuilderInv, NEW nd \in Node, status = "open",
         \A x \in operands(nd) : x <= Len(nodes),
         push(nd), UNCHANGED outputs
  PROVE  /\ nodes' \in Seq(Node)
         /\ status' \in {"open", "panicked"}
         /\ TopologicalOrder'
         /\ OutputsDefined'
<1>1. CASE Len(nodes) < MaxNodes
  <2>1. nodes' = Append(nodes, nd) /\ status' = "open"
    BY <1>1 DEF push
  <2>2. nodes \in Seq(Node) /\ Len(nodes) \in Nat /\ outputs \in Seq(NodeId)
    BY DEF BuilderInv, TypeOK
  <2>3. nodes' \in Seq(Node) /\ Len(nodes') = Len(nodes) + 1
    BY <2>1, <2>2
  <2>4. TopologicalOrder'
    <3>0. Len(nodes') <= MaxNodes
      BY <1>1, <2>2, <2>3, BuilderConstants
    <3> SUFFICES ASSUME NEW i \in DOMAIN nodes', NEW x \in operands(nodes'[i])
                 PROVE  x < i
      BY <3>0 DEF TopologicalOrder
    <3>1. CASE i \in DOMAIN nodes
      <4>1. nodes'[i] = nodes[i]
        BY <3>1, <2>1, <2>2
      <4> QED BY <3>1, <4>1 DEF BuilderInv, TopologicalOrder
    <3>2. CASE i = Len(nodes) + 1
      <4>1. nodes'[i] = nd
        BY <3>2, <2>1, <2>2
      <4>2. x \in Nat
        BY <4>1 DEF operands, IsGate, Node
      <4> QED BY <3>2, <4>1, <4>2, <2>2
    <3> QED BY <3>1, <3>2, <2>1, <2>2
  <2>5. OutputsDefined'
    BY <2>2, <2>3 DEF OutputsDefined, BuilderInv
  <2> QED BY <2>1, <2>3, <2>4, <2>5
<1>2. CASE ~(Len(nodes) < MaxNodes)
  <2>1. nodes' = nodes /\ status' = "panicked"
    BY <1>2 DEF push
  <2> QED BY <2>1 DEF BuilderInv, TypeOK, TopologicalOrder, OutputsDefined
<1> QED BY <1>1, <1>2

\* A push of a node that is not a leaf of one kind leaves the counters of that kind
\* right; a push of such a leaf, with its counter, too.
LEMMA PushCounts ==
  ASSUME BuilderInv, NEW nd \in Node, status = "open", push(nd),
         num_secret_inputs' = num_secret_inputs + (IF nd.op = "SecretInput" THEN 1 ELSE 0),
         num_public_inputs' = num_public_inputs + (IF nd.op = "PublicInput" THEN 1 ELSE 0)
  PROVE  CountersMatchLeaves'
<1> SUFFICES ASSUME status' # "panicked"
             PROVE  /\ num_secret_inputs' = Cardinality(Leaves(nodes', "SecretInput"))
                    /\ num_public_inputs' = Cardinality(Leaves(nodes', "PublicInput"))
  BY DEF CountersMatchLeaves
<1>1. nodes' = Append(nodes, nd)
  BY DEF push
<1>2. /\ num_secret_inputs = Cardinality(Leaves(nodes, "SecretInput"))
      /\ num_public_inputs = Cardinality(Leaves(nodes, "PublicInput"))
  BY DEF BuilderInv, CountersMatchLeaves
<1>3. nodes \in Seq(Node)
  BY DEF BuilderInv, TypeOK
<1>4. num_secret_inputs' = Cardinality(Leaves(nodes', "SecretInput"))
  BY <1>1, <1>2, <1>3, LeavesAppend
<1>5. num_public_inputs' = Cardinality(Leaves(nodes', "PublicInput"))
  BY <1>1, <1>2, <1>3, LeavesAppend
<1> QED BY <1>4, <1>5

\* The invariant is inductive.
LEMMA BuilderInvStep == BuilderInv /\ [Next]_vars => BuilderInv'
<1> SUFFICES ASSUME BuilderInv, [Next]_vars
             PROVE  BuilderInv'
  OBVIOUS
<1>0. TypeOK
  BY DEF BuilderInv
<1>1. CASE secret_input
  <2> DEFINE nd == [op |-> "SecretInput"]
  <2>1. nd \in Node /\ operands(nd) = {} /\ status = "open" /\ push(nd)
    BY <1>1 DEF Node, operands, IsGate, secret_input
  <2>2. CountersMatchLeaves'
    BY <1>0, <1>1, <2>1, PushCounts DEF secret_input, TypeOK
  <2>3. nodes' \in Seq(Node) /\ status' \in {"open", "panicked"} /\ TopologicalOrder' /\ OutputsDefined'
    BY <1>1, <2>1, PushPreserves DEF secret_input
  <2> QED BY <1>0, <1>1, <2>2, <2>3
          DEF secret_input, BuilderInv, TypeOK, Errors, BuildFailsOnlyWithoutOutput
<1>2. CASE public_input
  <2> DEFINE nd == [op |-> "PublicInput"]
  <2>1. nd \in Node /\ operands(nd) = {} /\ status = "open" /\ push(nd)
    BY <1>2 DEF Node, operands, IsGate, public_input
  <2>2. CountersMatchLeaves'
    BY <1>0, <1>2, <2>1, PushCounts DEF public_input, TypeOK
  <2>3. nodes' \in Seq(Node) /\ status' \in {"open", "panicked"} /\ TopologicalOrder' /\ OutputsDefined'
    BY <1>2, <2>1, PushPreserves DEF public_input
  <2> QED BY <1>0, <1>2, <2>2, <2>3
          DEF public_input, BuilderInv, TypeOK, Errors, BuildFailsOnlyWithoutOutput
<1>3. ASSUME NEW v \in Constants, constant(v)
      PROVE  BuilderInv'
  <2> DEFINE nd == [op |-> "Constant", value |-> v]
  <2>1. nd \in Node /\ operands(nd) = {} /\ status = "open" /\ push(nd)
    BY <1>3, BuilderConstants DEF Node, operands, IsGate, constant
  <2>2. CountersMatchLeaves'
    BY <1>0, <1>3, <2>1, PushCounts DEF constant, TypeOK
  <2>3. nodes' \in Seq(Node) /\ status' \in {"open", "panicked"} /\ TopologicalOrder' /\ OutputsDefined'
    BY <1>3, <2>1, PushPreserves DEF constant
  <2> QED BY <1>0, <1>3, <2>2, <2>3
          DEF constant, BuilderInv, TypeOK, Errors, BuildFailsOnlyWithoutOutput
<1>4. ASSUME NEW op \in {"Add", "Mul"}, NEW a \in Ids, NEW b \in Ids, gate(op, a, b)
      PROVE  BuilderInv'
  <2> DEFINE nd == [op |-> op, a |-> a, b |-> b]
  <2>1. nd \in Node /\ operands(nd) = {a, b} /\ status = "open" /\ push(nd)
    BY <1>4, BuilderConstants DEF Node, operands, IsGate, gate
  <2>2. CountersMatchLeaves'
    BY <1>0, <1>4, <2>1, PushCounts DEF gate, TypeOK
  <2>3. \A x \in operands(nd) : x <= Len(nodes)
    BY <1>4, <2>1 DEF gate, check_defined
  <2>4. nodes' \in Seq(Node) /\ status' \in {"open", "panicked"} /\ TopologicalOrder' /\ OutputsDefined'
    BY <1>4, <2>1, <2>3, PushPreserves DEF gate
  <2> QED BY <1>0, <1>4, <2>2, <2>4
          DEF gate, BuilderInv, TypeOK, Errors, BuildFailsOnlyWithoutOutput
<1>5. ASSUME NEW id \in Ids, output(id)
      PROVE  BuilderInv'
  <2>1. id \in NodeId /\ outputs' = Append(outputs, id) /\ outputs \in Seq(NodeId) /\ id <= Len(nodes)
    BY <1>0, <1>5, BuilderConstants DEF output, check_defined, TypeOK
  <2>2. outputs' \in Seq(NodeId) /\ UNCHANGED <<nodes, num_secret_inputs, num_public_inputs, status>>
    BY <1>5, <2>1 DEF output
  <2>3. OutputsDefined'
    BY <1>0, <2>1, <2>2 DEF BuilderInv, OutputsDefined, TypeOK
  <2>4. status = "open"
    BY <1>5 DEF output
  <2> QED BY <2>2, <2>3, <2>4
          DEF BuilderInv, TypeOK, TopologicalOrder, CountersMatchLeaves, Errors, BuildFailsOnlyWithoutOutput
<1>6. CASE build
  <2>1. status = "open" /\ UNCHANGED builder
    BY <1>6 DEF build
  <2>2. /\ outputs = << >> => status' = "MissingOutput"
        /\ outputs # << >> => status' = "built"
    BY <1>6, <2>1, ValidateOfBuilder DEF build, BuilderInv
  <2> QED BY <2>1, <2>2
          DEF builder, BuilderInv, TypeOK, TopologicalOrder, CountersMatchLeaves, OutputsDefined,
              Errors, BuildFailsOnlyWithoutOutput
<1>7. CASE UNCHANGED vars
  BY <1>7 DEF vars, builder, BuilderInv, TypeOK, TopologicalOrder, CountersMatchLeaves,
              OutputsDefined, BuildFailsOnlyWithoutOutput
<1> QED BY <1>1, <1>2, <1>3, <1>4, <1>5, <1>6, <1>7 DEF Next

\* A new builder satisfies it.
LEMMA InitialBuilder == Init => BuilderInv
<1> SUFFICES ASSUME Init PROVE BuilderInv
  OBVIOUS
<1>1. Leaves(nodes, "SecretInput") = {} /\ Leaves(nodes, "PublicInput") = {}
  BY DEF Init, Leaves
<1>2. TopologicalOrder
  BY BuilderConstants DEF Init, TopologicalOrder
<1>3. TypeOK
  BY DEF Init, TypeOK
<1>4. CountersMatchLeaves
  BY <1>1, FS_EmptySet DEF Init, CountersMatchLeaves
<1>5. OutputsDefined /\ BuildFailsOnlyWithoutOutput
  BY DEF Init, OutputsDefined, Errors, BuildFailsOnlyWithoutOutput
<1> QED BY <1>2, <1>3, <1>4, <1>5 DEF BuilderInv

\* Every reachable state of the builder satisfies the inductive invariant.
THEOREM BuilderCorrect == Spec => []BuilderInv
  BY InitialBuilder, BuilderInvStep, PTL DEF Spec

\* The builder never lets a gate refer to a node that is not defined before it.
THEOREM BuilderOrder == Spec => []TopologicalOrder
<1>1. BuilderInv => TopologicalOrder
  BY DEF BuilderInv
<1> QED BY <1>1, BuilderCorrect, PTL

\* build can only fail because no output was declared.
THEOREM BuilderBuilds == Spec => []BuildFailsOnlyWithoutOutput
<1>1. BuilderInv => BuildFailsOnlyWithoutOutput
  BY DEF BuilderInv
<1> QED BY <1>1, BuilderCorrect, PTL
-----------------------------------------------------------------------------
StackEntry == [idx : DOMAIN nodes, processed : BOOLEAN]

(* The operands of a node that is waiting for them are resolved or above it.    *)
OperandsAbove ==
  \A j \in 1 .. Len(stack) :
    stack[j].processed /\ ~Cached(stack[j].idx) =>
      \A x \in operands(nodes[stack[j].idx]) :
        Cached(x) \/ \E k \in j + 1 .. Len(stack) : stack[k].idx = x

(* The node asked for is resolved or on the stack.                              *)
AskedOnStack ==
  walk = "running" =>
    /\ Len(answers) < Len(outputs)
    /\ Cached(Asked) \/ \E k \in 1 .. Len(stack) : stack[k].idx = Asked

BuiltFirst ==
  IF status = "built" THEN validate(circuit) = "Ok"
  ELSE walk = "idle" /\ stack = << >> /\ cache = nothing /\ answers = << >>

WalkTypes ==
  /\ stack \in Seq(StackEntry)
  /\ DOMAIN cache \subseteq DOMAIN nodes
  /\ answers \in Seq(BOOLEAN)
  /\ Len(answers) <= Len(outputs)

WalkInv ==
  BuilderInv /\ BuiltFirst /\ WalkTypes /\ OperandsAbove /\ AskedOnStack /\ WalkAgrees

\* The circuit under the walk is valid, and what the walk follows are its nodes.
LEMMA WalkedCircuit ==
  ASSUME BuilderInv, BuiltFirst, status = "built", NEW i \in DOMAIN nodes
  PROVE  LET dep == node_depends_on_secrets(circuit)
         IN  /\ circuit \in Circuit /\ validate(circuit) = "Ok"
             /\ dep[i] \in BOOLEAN
             /\ IsGate(nodes[i]) => /\ nodes[i].a \in DOMAIN nodes
                                    /\ nodes[i].b \in DOMAIN nodes
             /\ dep[i] = \/ nodes[i].op = "SecretInput"
                         \/ IsGate(nodes[i]) /\ (dep[nodes[i].a] \/ dep[nodes[i].b])
<1>1. circuit \in Circuit /\ circuit.nodes = nodes
  BY DEF BuilderInv, TypeOK, circuit, Circuit
<1>2. validate(circuit) = "Ok"
  BY DEF BuiltFirst
<1>3. IsGate(nodes[i]) => nodes[i].a \in DOMAIN nodes /\ nodes[i].b \in DOMAIN nodes
  BY <1>1, <1>2, OperandsBefore
<1> DEFINE dep == node_depends_on_secrets(circuit)
<1>4. dep[i] = \/ nodes[i].op = "SecretInput"
               \/ IsGate(nodes[i]) /\ (dep[nodes[i].a] \/ dep[nodes[i].b])
  BY <1>1, <1>2, DependsEquation
<1>5. dep[i] \in BOOLEAN
  <2> HIDE DEF dep
  <2> QED
    BY <1>4
<1> QED
  BY <1>1, <1>2, <1>3, <1>4, <1>5

\* What a pop leaves.
LEMMA PopStack ==
  ASSUME WalkTypes, stack # << >>
  PROVE  /\ Len(stack) \in Nat \ {0}
         /\ Pop \in Seq(StackEntry) /\ Len(Pop) = Len(stack) - 1
         /\ \A j \in 1 .. Len(Pop) : Pop[j] = stack[j]
         /\ Top \in StackEntry
<1>1. stack \in Seq(StackEntry)
  BY DEF WalkTypes
<1> DEFINE S == StackEntry
<1> HIDE DEF S
<1>2. stack \in Seq(S)
  BY <1>1 DEF S
<1>3. Len(stack) \in Nat /\ Len(stack) # 0
  BY <1>2
<1>4. Top \in S
  BY <1>2, <1>3 DEF Top
<1>5. /\ Pop \in Seq(S) /\ Len(Pop) = Len(stack) - 1
      /\ \A j \in 1 .. Len(stack) - 1 : Pop[j] = stack[j]
  <2>1. \A j \in 1 .. Len(stack) - 1 : stack[j] \in S
    BY <1>2, <1>3
  <2>2. Len(stack) - 1 \in Int /\ (1 <= Len(stack) - 1 \/ Len(stack) - 1 = 0)
    <3> DEFINE n == Len(stack)
    <3>1. n \in Nat /\ n # 0
      BY <1>3
    <3> HIDE DEF n
    <3>2. n - 1 \in Int /\ (1 <= n - 1 \/ n - 1 = 0)
      BY <3>1
    <3> QED
      BY <3>2 DEF n
  <2>3. /\ Pop \in Seq(S)
        /\ Len(Pop) = IF 1 <= Len(stack) - 1 THEN Len(stack) - 1 - 1 + 1 ELSE 0
        /\ \A j \in 1 .. Len(stack) - 1 - 1 + 1 : Pop[j] = stack[1 + j - 1]
    BY <2>1, <2>2, SubSeqProperties DEF Pop
  <2> QED
    BY <2>2, <2>3, <1>3
<1> QED
  BY <1>3, <1>4, <1>5 DEF S

\* What is pushed: unprocessed entries, among them every operand not yet resolved.
LEMMA PushedOperands ==
  ASSUME BuilderInv, BuiltFirst, status = "built", NEW i \in DOMAIN nodes
  PROVE  LET P == Pending(nodes[i])
         IN  /\ P \in Seq(StackEntry)
             /\ \A k \in 1 .. Len(P) : ~P[k].processed
             /\ \A x \in operands(nodes[i]) : Cached(x) \/ \E k \in 1 .. Len(P) : P[k].idx = x
<1> DEFINE nd == nodes[i]
           left == IF IsGate(nd) /\ ~Cached(nd.a) THEN << Entry(nd.a) >> ELSE << >>
           right == IF IsGate(nd) /\ ~Cached(nd.b) THEN << Entry(nd.b) >> ELSE << >>
<1>1. IsGate(nd) => Entry(nd.a) \in StackEntry /\ Entry(nd.b) \in StackEntry
  BY WalkedCircuit DEF Entry, StackEntry
<1>2. ~Entry(nd.a).processed /\ Entry(nd.a).idx = nd.a /\ ~Entry(nd.b).processed /\ Entry(nd.b).idx = nd.b
  BY DEF Entry
<1>3. /\ left \in Seq(StackEntry) /\ right \in Seq(StackEntry)
      /\ \A k \in 1 .. Len(left) : ~left[k].processed
      /\ \A k \in 1 .. Len(right) : ~right[k].processed
      /\ IsGate(nd) /\ ~Cached(nd.a) => 1 \in 1 .. Len(left) /\ left[1].idx = nd.a
      /\ IsGate(nd) /\ ~Cached(nd.b) => 1 \in 1 .. Len(right) /\ right[1].idx = nd.b
  <2> HIDE DEF StackEntry, Entry
  <2> QED
    BY <1>1, <1>2
<1>4. Pending(nd) = left \o right
  BY DEF Pending
<1> HIDE DEF left, right, nd, StackEntry
<1>5. /\ left \o right \in Seq(StackEntry)
      /\ Len(left \o right) = Len(left) + Len(right)
      /\ Len(left) \in Nat /\ Len(right) \in Nat
      /\ \A k \in 1 .. Len(left) : (left \o right)[k] = left[k]
      /\ \A k \in 1 .. Len(right) : (left \o right)[Len(left) + k] = right[k]
  BY <1>3
<1>6. ASSUME NEW k \in 1 .. Len(left) + Len(right)
      PROVE  ~(left \o right)[k].processed
  <2>1. CASE k <= Len(left)
    BY <2>1, <1>3, <1>5
  <2>2. CASE k > Len(left)
    <3>1. k - Len(left) \in 1 .. Len(right) /\ Len(left) + (k - Len(left)) = k
      BY <2>2, <1>5
    <3> QED
      BY <3>1, <1>3, <1>5
  <2> QED
    BY <2>1, <2>2, <1>5
<1>7. ASSUME NEW x \in operands(nd), ~Cached(x)
      PROVE  \E k \in 1 .. Len(left) + Len(right) : (left \o right)[k].idx = x
  <2>1. IsGate(nd) /\ (x = nd.a \/ x = nd.b)
    BY <1>7 DEF operands
  <2>2. CASE x = nd.a
    <3>1. 1 \in 1 .. Len(left) /\ (left \o right)[1].idx = x
      BY <1>3, <1>5, <1>7, <2>1, <2>2
    <3> QED
      BY <3>1, <1>5
  <2>3. CASE x = nd.b
    <3>1. 1 \in 1 .. Len(right) /\ (left \o right)[Len(left) + 1].idx = x
      BY <1>3, <1>5, <1>7, <2>1, <2>3
    <3>2. Len(left) + 1 \in 1 .. Len(left) + Len(right)
      BY <3>1, <1>5
    <3> QED
      BY <3>1, <3>2
  <2> QED
    BY <2>1, <2>2, <2>3
<1> QED
  BY <1>4, <1>5, <1>6, <1>7 DEF nd

\* A step of the walk only reads the circuit.
LEMMA SameCircuit ==
  ASSUME BuilderInv, BuiltFirst, status = "built", UNCHANGED vars
  PROVE  BuilderInv' /\ BuiltFirst' /\ circuit' = circuit /\ StackEntry' = StackEntry
<1>1. circuit' = circuit /\ StackEntry' = StackEntry
  BY DEF vars, builder, circuit, StackEntry
<1>2. BuilderInv'
  BY DEF vars, builder, BuilderInv, TypeOK, TopologicalOrder, CountersMatchLeaves,
         OutputsDefined, BuildFailsOnlyWithoutOutput
<1> QED
  BY <1>1, <1>2 DEF BuiltFirst, vars, builder

\* The builder's own steps: nothing has been asked before the circuit is built.
LEMMA BuilderStepKeeps ==
  ASSUME WalkInv, Next, UNCHANGED walkVars
  PROVE  WalkInv'
<1>1. BuilderInv'
  BY BuilderInvStep DEF WalkInv
<1>2. status = "open"
  BY DEF Next, secret_input, public_input, constant, gate, output, build
<1>3. walk = "idle" /\ stack = << >> /\ cache = nothing /\ answers = << >>
  BY <1>2 DEF WalkInv, BuiltFirst
<1>4. walk' = "idle" /\ stack' = << >> /\ cache' = nothing /\ answers' = << >>
  BY <1>3 DEF walkVars, nothing
<1>5. ASSUME status' = "built"
      PROVE  validate(circuit) = "Ok" /\ circuit' = circuit
  <2>1. build
    BY <1>2, <1>5 DEF Next, secret_input, public_input, constant, gate, output, push
  <2>2. validate(circuit) \in Errors \cup {"Ok"}
    BY DEF validate, Errors
  <2> QED
    BY <2>1, <2>2, <1>5 DEF build, builder, circuit, Errors
<1>6. BuiltFirst'
  BY <1>4, <1>5 DEF BuiltFirst
<1>7. DOMAIN nothing = {}
  BY DEF nothing
<1>8. Len(outputs') \in Nat
  BY <1>1 DEF BuilderInv, TypeOK
<1>9. WalkTypes'
  BY <1>4, <1>7, <1>8 DEF WalkTypes
<1>10. OperandsAbove' /\ AskedOnStack' /\ WalkAgrees'
  BY <1>4, <1>7 DEF OperandsAbove, AskedOnStack, WalkAgrees
<1> QED
  BY <1>1, <1>6, <1>9, <1>10 DEF WalkInv

\* A call puts the node it asks for on the stack.
LEMMA CallKeeps ==
  ASSUME WalkInv, Call
  PROVE  WalkInv'
<1>1. /\ BuilderInv /\ BuiltFirst /\ WalkTypes /\ WalkAgrees
      /\ status = "built" /\ UNCHANGED vars /\ UNCHANGED <<cache, answers>>
      /\ Len(answers) < Len(outputs) /\ stack' = << Entry(Asked) >> /\ walk' = "running"
  BY DEF WalkInv, Call
<1>2. BuilderInv' /\ BuiltFirst' /\ circuit' = circuit /\ StackEntry' = StackEntry
  BY <1>1, SameCircuit
<1>3. nodes' = nodes /\ outputs' = outputs
  BY <1>1 DEF vars, builder
<1>4. Len(answers) + 1 \in DOMAIN outputs
  BY <1>1 DEF BuilderInv, TypeOK, WalkTypes
<1>5. Asked \in DOMAIN nodes
  BY <1>1, <1>4 DEF Asked, BuilderInv, TypeOK, OutputsDefined
<1>6. Entry(Asked) \in StackEntry /\ ~Entry(Asked).processed /\ Entry(Asked).idx = Asked
  BY <1>5 DEF Entry, StackEntry
<1>7. WalkTypes'
  <2>1. stack' \in Seq(StackEntry)
    <3> HIDE DEF StackEntry, Entry
    <3> QED
      BY <1>1, <1>6
  <2> QED
    BY <2>1, <1>1, <1>2, <1>3 DEF WalkTypes
<1>8. Len(stack') = 1 /\ stack'[1] = Entry(Asked)
  BY <1>1
<1>9. OperandsAbove'
  BY <1>6, <1>8 DEF OperandsAbove
<1>10. AskedOnStack'
  <2>1. Asked' = Asked
    BY <1>1, <1>3 DEF Asked
  <2>2. 1 \in 1 .. Len(stack') /\ stack'[1].idx = Asked
    BY <1>6, <1>8
  <2> QED
    BY <2>1, <2>2, <1>1, <1>3 DEF AskedOnStack
<1>11. WalkAgrees'
  BY <1>1, <1>2, <1>3 DEF WalkAgrees
<1> QED
  BY <1>2, <1>7, <1>9, <1>10, <1>11 DEF WalkInv

\* What a pop of a resolved node keeps, whether it was resolved before or just now.
LEMMA PopKeeps ==
  ASSUME WalkTypes, OperandsAbove, AskedOnStack, stack # << >>, UNCHANGED <<vars, walk, answers>>,
         stack' = Pop, DOMAIN cache \subseteq DOMAIN cache', Top.idx \in DOMAIN cache'
  PROVE  /\ stack' \in Seq(StackEntry) /\ OperandsAbove' /\ AskedOnStack'
<1>1. /\ Len(stack) \in Nat \ {0}
      /\ stack' \in Seq(StackEntry) /\ Len(stack') = Len(stack) - 1
      /\ \A j \in 1 .. Len(stack') : stack'[j] = stack[j]
  BY PopStack
<1>2. nodes' = nodes /\ outputs' = outputs /\ Asked' = Asked
  BY DEF vars, builder, Asked
<1>3. ASSUME NEW j \in 1 .. Len(stack) + 1, NEW x,
             x \in DOMAIN cache \/ \E k \in j .. Len(stack) : stack[k].idx = x
      PROVE  x \in DOMAIN cache' \/ \E k \in j .. Len(stack') : stack'[k].idx = x
  <2>1. CASE x \in DOMAIN cache
    BY <2>1
  <2>2. ASSUME NEW k \in j .. Len(stack), stack[k].idx = x
        PROVE  x \in DOMAIN cache' \/ \E m \in j .. Len(stack') : stack'[m].idx = x
    <3>1. CASE k = Len(stack)
      BY <3>1, <2>2 DEF Top
    <3>2. CASE k # Len(stack)
      <4>1. k \in j .. Len(stack') /\ k \in 1 .. Len(stack')
        BY <3>2, <1>1
      <4> QED
        BY <4>1, <2>2, <1>1
    <3> QED
      BY <3>1, <3>2
  <2> QED
    BY <1>3, <2>1, <2>2
<1>4. OperandsAbove'
  <2> SUFFICES ASSUME NEW j \in 1 .. Len(stack'), stack'[j].processed,
                      stack'[j].idx \notin DOMAIN cache',
                      NEW x \in operands(nodes[stack'[j].idx])
               PROVE  x \in DOMAIN cache' \/ \E k \in j + 1 .. Len(stack') : stack'[k].idx = x
    BY <1>2 DEF OperandsAbove, Cached
  <2>1. j \in 1 .. Len(stack) /\ j + 1 \in 1 .. Len(stack) + 1 /\ stack'[j] = stack[j]
    BY <1>1
  <2>2. stack[j].idx \notin DOMAIN cache
    BY <2>1
  <2>3. x \in DOMAIN cache \/ \E k \in j + 1 .. Len(stack) : stack[k].idx = x
    BY <2>1, <2>2 DEF OperandsAbove, Cached
  <2> QED
    BY <2>1, <2>3, <1>3
<1>5. AskedOnStack'
  <2>1. ASSUME walk = "running"
        PROVE  Asked \in DOMAIN cache' \/ \E k \in 1 .. Len(stack') : stack'[k].idx = Asked
    <3>1. Asked \in DOMAIN cache \/ \E k \in 1 .. Len(stack) : stack[k].idx = Asked
      BY <2>1 DEF AskedOnStack, Cached
    <3>2. 1 \in 1 .. Len(stack) + 1
      BY <1>1
    <3> QED
      BY <3>1, <3>2, <1>3
  <2> QED
    BY <2>1, <1>2 DEF AskedOnStack, Cached
<1> QED
  BY <1>1, <1>4, <1>5

\* Resolving a node whose operands are resolved gives it its value; its operands are.
LEMMA ResolveKeeps ==
  ASSUME WalkInv, Resolve
  PROVE  WalkInv'
<1>1. /\ BuilderInv /\ BuiltFirst /\ WalkTypes /\ OperandsAbove /\ AskedOnStack /\ WalkAgrees
      /\ walk = "running" /\ stack # << >> /\ ~Cached(Top.idx) /\ Top.processed
      /\ UNCHANGED vars /\ UNCHANGED answers
  BY DEF WalkInv, Resolve
<1>2. status = "built"
  BY <1>1 DEF BuiltFirst
<1> DEFINE i == Top.idx
           nd == nodes[i]
           dep == node_depends_on_secrets(circuit)
<1>3. Len(stack) \in Nat \ {0} /\ Top \in StackEntry /\ i \in DOMAIN nodes
  BY <1>1, PopStack DEF StackEntry
<1>4. \A x \in operands(nd) : Cached(x)
  <2>1. Len(stack) \in 1 .. Len(stack) /\ Len(stack) + 1 .. Len(stack) = {}
    BY <1>3
  <2> QED
    BY <2>1, <1>1 DEF OperandsAbove, Top
<1>5. IsGate(nd) => Cached(nd.a) /\ Cached(nd.b)
  BY <1>4 DEF operands
<1>6. ~OperandsMissing(nd)
  BY <1>5 DEF OperandsMissing
<1>7. /\ cache' = [j \in DOMAIN cache \cup {i} |-> IF j = i THEN Depends(nodes[j]) ELSE cache[j]]
      /\ stack' = Pop
      /\ walk' = walk
  BY <1>6 DEF Resolve
<1>8. BuilderInv' /\ BuiltFirst' /\ circuit' = circuit /\ StackEntry' = StackEntry
  BY <1>1, <1>2, SameCircuit
<1>9. nodes' = nodes /\ outputs' = outputs
  BY <1>1 DEF vars, builder
<1>10. DOMAIN cache' = DOMAIN cache \cup {i}
  BY <1>7
<1>11. /\ stack' \in Seq(StackEntry) /\ OperandsAbove' /\ AskedOnStack'
  <2> HIDE DEF i
  <2>1. DOMAIN cache \subseteq DOMAIN cache' /\ i \in DOMAIN cache'
    BY <1>10
  <2> QED
    BY <2>1, <1>1, <1>7, PopKeeps DEF i
<1>12. WalkTypes'
  BY <1>1, <1>3, <1>8, <1>9, <1>10, <1>11 DEF WalkTypes
<1>13. Depends(nd) = dep[i]
  <2>1. /\ IsGate(nd) => cache[nd.a] = dep[nd.a] /\ cache[nd.b] = dep[nd.b]
    BY <1>1, <1>5 DEF WalkAgrees, Cached
  <2>2. dep[i] = \/ nd.op = "SecretInput"
                 \/ IsGate(nd) /\ (dep[nd.a] \/ dep[nd.b])
    BY <1>1, <1>2, <1>3, WalkedCircuit
  <2> HIDE DEF dep, nd, i
  <2> QED
    BY <2>1, <2>2 DEF Depends
<1>14. WalkAgrees'
  <2>1. \A j \in DOMAIN cache' : cache'[j] = dep[j]
    <3> HIDE DEF dep
    <3>1. \A j \in DOMAIN cache : cache[j] = dep[j]
      BY <1>1 DEF WalkAgrees, dep
    <3> HIDE DEF nd, i
    <3> QED
      BY <3>1, <1>7, <1>10, <1>13 DEF nd
  <2> QED
    BY <2>1, <1>1, <1>7, <1>8, <1>9 DEF WalkAgrees
<1> QED
  BY <1>8, <1>11, <1>12, <1>14 DEF WalkInv

\* What is put on a stack leaves the entries below where they are.
LEMMA PutOnTop ==
  ASSUME NEW S, NEW below \in Seq(S), NEW above \in Seq(S)
  PROVE  /\ below \o above \in Seq(S)
         /\ Len(above) \in Nat /\ Len(below \o above) = Len(below) + Len(above)
         /\ \A j \in 1 .. Len(below) : (below \o above)[j] = below[j]
         /\ \A k \in 1 .. Len(above) : (below \o above)[Len(below) + k] = above[k]
<1>1. Len(below) \in Nat /\ Len(above) \in Nat
  BY LenProperties
<1>2. /\ below \o above \in Seq(S)
      /\ Len(below \o above) = Len(below) + Len(above)
      /\ \A j \in 1 .. Len(below) + Len(above) :
           (below \o above)[j] = IF j <= Len(below) THEN below[j] ELSE above[j - Len(below)]
  BY ConcatProperties
<1>3. ASSUME NEW j \in 1 .. Len(below)
      PROVE  (below \o above)[j] = below[j]
  <2>1. j \in 1 .. Len(below) + Len(above) /\ j <= Len(below)
    BY <1>1
  <2> QED
    BY <2>1, <1>2
<1>4. ASSUME NEW k \in 1 .. Len(above)
      PROVE  (below \o above)[Len(below) + k] = above[k]
  <2> DEFINE j == Len(below) + k
  <2>1. j \in 1 .. Len(below) + Len(above) /\ ~(j <= Len(below)) /\ j - Len(below) = k
    BY <1>1
  <2> QED
    BY <2>1, <1>2
<1> QED
  BY <1>1, <1>2, <1>3, <1>4

\* The operands that are not resolved come to lie above the node that needs them.
LEMMA ExpandKeeps ==
  ASSUME WalkInv, Expand
  PROVE  WalkInv'
<1>1. /\ BuilderInv /\ BuiltFirst /\ WalkTypes /\ OperandsAbove /\ AskedOnStack /\ WalkAgrees
      /\ walk = "running" /\ stack # << >> /\ ~Cached(Top.idx) /\ ~Top.processed
      /\ stack' = Append(Pop, Marked(Top)) \o Pending(nodes[Top.idx])
      /\ UNCHANGED vars /\ UNCHANGED <<walk, cache, answers>>
  BY DEF WalkInv, Expand
<1>2. status = "built"
  BY <1>1 DEF BuiltFirst
<1> DEFINE i == Top.idx
           n == Len(stack)
           base == Append(Pop, Marked(Top))
           P == Pending(nodes[i])
<1>3. /\ n \in Nat \ {0}
      /\ Pop \in Seq(StackEntry) /\ Len(Pop) = n - 1
      /\ \A j \in 1 .. n - 1 : Pop[j] = stack[j]
      /\ Top \in StackEntry
  BY <1>1, PopStack
<1>4. i \in DOMAIN nodes
  BY <1>3 DEF StackEntry
<1>5. Marked(Top) \in StackEntry /\ Marked(Top).idx = i /\ Marked(Top).processed
  BY <1>3 DEF Marked, StackEntry
<1>6. /\ P \in Seq(StackEntry)
      /\ \A k \in 1 .. Len(P) : ~P[k].processed
      /\ \A x \in operands(nodes[i]) : Cached(x) \/ \E k \in 1 .. Len(P) : P[k].idx = x
  BY <1>1, <1>2, <1>4, PushedOperands
<1>7. BuilderInv' /\ BuiltFirst' /\ circuit' = circuit /\ StackEntry' = StackEntry
  BY <1>1, <1>2, SameCircuit
<1>8. nodes' = nodes /\ outputs' = outputs
  BY <1>1 DEF vars, builder
<1>9. /\ stack' \in Seq(StackEntry)
      /\ Len(P) \in Nat /\ Len(stack') = n + Len(P)
      /\ \A j \in 1 .. n - 1 : stack'[j] = stack[j]
      /\ stack'[n] = Marked(Top)
      /\ \A k \in 1 .. Len(P) : stack'[n + k] = P[k]
  <2> HIDE DEF StackEntry, P, n, i
  <2>1. /\ base \in Seq(StackEntry) /\ Len(base) = n
        /\ \A j \in 1 .. n - 1 : base[j] = stack[j]
        /\ base[n] = Marked(Top)
    BY <1>3, <1>5
  <2> HIDE DEF base
  <2>2. stack' = base \o P
    BY <1>1 DEF base, P, i
  <2>3. /\ base \o P \in Seq(StackEntry)
        /\ Len(base \o P) = n + Len(P) /\ Len(P) \in Nat
        /\ \A j \in 1 .. n : (base \o P)[j] = base[j]
        /\ \A k \in 1 .. Len(P) : (base \o P)[n + k] = P[k]
    <3>1. /\ base \o P \in Seq(StackEntry)
          /\ Len(P) \in Nat /\ Len(base \o P) = Len(base) + Len(P)
          /\ \A j \in 1 .. Len(base) : (base \o P)[j] = base[j]
          /\ \A k \in 1 .. Len(P) : (base \o P)[Len(base) + k] = P[k]
      <4>1. base \in Seq(StackEntry) /\ P \in Seq(StackEntry)
        BY <2>1, <1>6
      <4> QED
        BY <4>1, PutOnTop
    <3>2. Len(base) = n
      BY <2>1
    <3> QED
      BY <3>1, <3>2, Zenon
  <2>5. \A j \in 1 .. n - 1 : j \in 1 .. n
    BY <1>3
  <2>6. n \in 1 .. n
    BY <1>3
  <2> QED
    BY <2>1, <2>2, <2>3, <2>5, <2>6
<1>10. n \in 1 .. n /\ stack[n] = Top
  BY <1>3 DEF Top
<1>11. \A k \in 1 .. n : stack'[k].idx = stack[k].idx
  <2> SUFFICES ASSUME NEW k \in 1 .. n
               PROVE  stack'[k].idx = stack[k].idx
    OBVIOUS
  <2>1. CASE k = n
    BY <2>1, <1>5, <1>9, <1>10
  <2>2. CASE k \in 1 .. n - 1
    BY <2>2, <1>9
  <2> QED
    BY <2>1, <2>2, <1>3
<1> HIDE DEF n, P, i
<1>12. OperandsAbove'
  <2> SUFFICES ASSUME NEW j \in 1 .. Len(stack'), stack'[j].processed,
                      stack'[j].idx \notin DOMAIN cache,
                      NEW x \in operands(nodes[stack'[j].idx]), x \notin DOMAIN cache
               PROVE  \E k \in j + 1 .. Len(stack') : stack'[k].idx = x
    BY <1>1, <1>8 DEF OperandsAbove, Cached
  <2>1. CASE j \in 1 .. n - 1
    <3>1. stack'[j] = stack[j] /\ j \in 1 .. n
      BY <2>1, <1>3, <1>9
    <3>2. PICK k \in j + 1 .. n : stack[k].idx = x
      BY <3>1, <1>1 DEF OperandsAbove, Cached, n
    <3>3. k \in 1 .. n /\ k \in j + 1 .. Len(stack')
      BY <3>1, <1>3, <1>9
    <3> QED
      BY <3>2, <3>3, <1>11
  <2>2. CASE j = n
    <3>1. stack'[j].idx = i
      BY <2>2, <1>5, <1>9
    <3>2. PICK k \in 1 .. Len(P) : P[k].idx = x
      BY <3>1, <1>6 DEF Cached
    <3>3. n + k \in j + 1 .. Len(stack') /\ stack'[n + k].idx = x
      BY <2>2, <3>2, <1>3, <1>9
    <3> QED
      BY <3>3
  <2>3. CASE j \in n + 1 .. n + Len(P)
    <3>1. j - n \in 1 .. Len(P) /\ n + (j - n) = j
      BY <2>3, <1>3, <1>9
    <3>2. ~stack'[j].processed
      BY <3>1, <1>6, <1>9
    <3> QED
      BY <3>2
  <2> QED
    BY <2>1, <2>2, <2>3, <1>3, <1>9
<1>13. AskedOnStack'
  <2>1. Asked' = Asked /\ walk = "running"
    BY <1>1, <1>8 DEF Asked
  <2>2. Asked \in DOMAIN cache \/ \E k \in 1 .. n : stack[k].idx = Asked
    BY <1>1 DEF AskedOnStack, Cached, n
  <2>3. Asked \in DOMAIN cache \/ \E k \in 1 .. Len(stack') : stack'[k].idx = Asked
    <3>1. \A k \in 1 .. n : k \in 1 .. Len(stack')
      BY <1>3, <1>9
    <3> QED
      BY <2>2, <3>1, <1>11
  <2> QED
    BY <2>1, <2>3, <1>1, <1>8 DEF AskedOnStack, Cached
<1>14. WalkTypes' /\ WalkAgrees'
  BY <1>1, <1>7, <1>8, <1>9 DEF WalkTypes, WalkAgrees
<1> QED
  BY <1>7, <1>12, <1>13, <1>14 DEF WalkInv

\* A node that is resolved already needs no second visit, and an empty stack has
\* resolved the node that was asked for.
LEMMA DropAndReturnKeep ==
  ASSUME WalkInv, DropCached \/ Return
  PROVE  WalkInv'
<1>1. /\ BuilderInv /\ BuiltFirst /\ WalkTypes /\ OperandsAbove /\ AskedOnStack /\ WalkAgrees
      /\ walk = "running" /\ UNCHANGED vars
  BY DEF WalkInv, DropCached, Return
<1>2. status = "built"
  BY <1>1 DEF BuiltFirst
<1>3. BuilderInv' /\ BuiltFirst' /\ circuit' = circuit /\ StackEntry' = StackEntry
  BY <1>1, <1>2, SameCircuit
<1>4. nodes' = nodes /\ outputs' = outputs
  BY <1>1 DEF vars, builder
<1>5. CASE DropCached
  <2>1. /\ stack # << >> /\ Top.idx \in DOMAIN cache /\ stack' = Pop
        /\ UNCHANGED <<walk, cache, answers>>
    BY <1>5 DEF DropCached, Cached
  <2>2. /\ stack' \in Seq(StackEntry) /\ OperandsAbove' /\ AskedOnStack'
    BY <1>1, <2>1, PopKeeps
  <2>3. WalkTypes' /\ WalkAgrees'
    BY <1>1, <1>3, <1>4, <2>1, <2>2 DEF WalkTypes, WalkAgrees
  <2> QED
    BY <1>3, <2>2, <2>3 DEF WalkInv
<1>6. CASE Return
  <2> DEFINE dep == node_depends_on_secrets(circuit)
             answer == Cached(Asked) /\ cache[Asked]
  <2>1. /\ stack = << >> /\ stack' = stack /\ walk' = "idle" /\ cache' = nothing
        /\ answers' = Append(answers, answer)
    BY <1>6 DEF Return
  <2>2. Asked \in DOMAIN cache /\ Len(answers) < Len(outputs)
    BY <1>1, <2>1 DEF AskedOnStack, Cached
  <2>3. cache[Asked] = dep[Asked] /\ Asked \in DOMAIN nodes
    BY <1>1, <2>2 DEF WalkAgrees, WalkTypes
  <2>4. dep[Asked] \in BOOLEAN
    BY <1>1, <1>2, <2>3, WalkedCircuit
  <2>5. answer = dep[Asked] /\ answer \in BOOLEAN
    <3> HIDE DEF dep
    <3> QED
      BY <2>2, <2>3, <2>4 DEF Cached
  <2> HIDE DEF answer
  <2>6. /\ answers' \in Seq(BOOLEAN) /\ Len(answers') = Len(answers) + 1
        /\ Len(answers) \in Nat /\ Len(outputs) \in Nat
        /\ \A k \in 1 .. Len(answers) : answers'[k] = answers[k]
        /\ answers'[Len(answers) + 1] = answer
    BY <1>1, <2>1, <2>5 DEF WalkTypes, BuilderInv, TypeOK
  <2>7. DOMAIN cache' = {}
    BY <2>1 DEF nothing
  <2>8. WalkTypes'
    BY <1>1, <1>3, <1>4, <2>1, <2>2, <2>6, <2>7 DEF WalkTypes
  <2>9. OperandsAbove' /\ AskedOnStack'
    BY <2>1 DEF OperandsAbove, AskedOnStack
  <2>10. \A k \in DOMAIN answers' : answers'[k] = dep[outputs[k]]
    <3>1. answers \in Seq(BOOLEAN) /\ \A k \in DOMAIN answers : answers[k] = dep[outputs[k]]
      BY <1>1 DEF WalkTypes, WalkAgrees
    <3> HIDE DEF dep
    <3>2. DOMAIN answers' = 1 .. Len(answers) + 1 /\ DOMAIN answers = 1 .. Len(answers)
      BY <3>1, <2>6
    <3> QED
      BY <3>1, <3>2, <2>5, <2>6 DEF Asked
  <2>11. WalkAgrees'
    BY <1>3, <1>4, <2>1, <2>7, <2>10 DEF WalkAgrees
  <2> QED
    BY <1>3, <2>8, <2>9, <2>11 DEF WalkInv
<1> QED
  BY <1>5, <1>6

\* For every circuit a builder can build, with any sharing of operands: the walk finds
\* the dependence on secrets, and never unwraps an operand it has not resolved.
THEOREM WalkCorrect == ClassifySpec => []WalkAgrees
<1>1. WalkInit => WalkInv
  <2> SUFFICES ASSUME WalkInit
               PROVE  WalkInv
    OBVIOUS
  <2>1. BuilderInv /\ status = "open"
    BY InitialBuilder DEF WalkInit, Init
  <2>2. walk = "idle" /\ stack = << >> /\ cache = nothing /\ answers = << >>
    BY DEF WalkInit
  <2>3. DOMAIN nothing = {}
    BY DEF nothing
  <2>4. Len(outputs) \in Nat
    BY <2>1 DEF BuilderInv, TypeOK
  <2>5. BuiltFirst /\ WalkTypes
    BY <2>1, <2>2, <2>3, <2>4 DEF BuiltFirst, WalkTypes
  <2>6. OperandsAbove /\ AskedOnStack /\ WalkAgrees
    BY <2>2, <2>3 DEF OperandsAbove, AskedOnStack, WalkAgrees
  <2> QED
    BY <2>1, <2>5, <2>6 DEF WalkInv
<1>2. WalkInv /\ [ClassifyNext]_<<vars, walkVars>> => WalkInv'
  <2> SUFFICES ASSUME WalkInv, [ClassifyNext]_<<vars, walkVars>>
               PROVE  WalkInv'
    OBVIOUS
  <2>1. CASE Next /\ UNCHANGED walkVars
    BY <2>1, BuilderStepKeeps
  <2>2. CASE Call
    BY <2>2, CallKeeps
  <2>3. CASE WalkStep
    BY <2>3, ResolveKeeps, ExpandKeeps, DropAndReturnKeep DEF WalkStep
  <2>4. CASE UNCHANGED <<vars, walkVars>>
    <3>1. UNCHANGED <<nodes, outputs, num_secret_inputs, num_public_inputs, status,
                      walk, stack, cache, answers>>
      BY <2>4 DEF vars, builder, walkVars
    <3>2. circuit' = circuit /\ StackEntry' = StackEntry /\ Asked' = Asked
      BY <3>1 DEF circuit, StackEntry, Asked
    <3>3. BuilderInv'
      BY <2>4, BuilderInvStep DEF WalkInv
    <3> QED
      BY <3>1, <3>2, <3>3
         DEF WalkInv, BuiltFirst, WalkTypes, OperandsAbove, AskedOnStack, WalkAgrees, Cached
  <2> QED
    BY <2>1, <2>2, <2>3, <2>4 DEF ClassifyNext
<1>3. WalkInv => WalkAgrees
  BY DEF WalkInv
<1> QED
  BY <1>1, <1>2, <1>3, PTL DEF ClassifySpec
=============================================================================
