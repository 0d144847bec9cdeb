---------------------------- MODULE DependencyWalk ----------------------------
(***************************************************************************)
(* How the verifier finds out which outputs of a circuit depend on secrets *)
(* (node_depends_on_secrets, crates/mpcith/src/verifier.rs): one walk of   *)
(* the operands per output, with a stack of its own instead of recursion.  *)
(* The circuit is one that a builder has built.                            *)
(***************************************************************************)
EXTENDS CircuitBuilder

VARIABLES
  walk,    \* "running" while node_depends_on_secrets is called
  stack,   \* the nodes to resolve, each with whether its operands were pushed
  cache,   \* what is known so far: a function on the resolved nodes
  answers  \* what the finished calls returned, one per output

walkVars == <<walk, stack, cache, answers>>

nothing == [i \in {} |-> FALSE]

WalkInit ==
  /\ Init
  /\ walk = "idle"
  /\ stack = << >>
  /\ cache = nothing
  /\ answers = << >>
-----------------------------------------------------------------------------
Asked == outputs[Len(answers) + 1]

Entry(idx) == [idx |-> idx, processed |-> FALSE]

Top == stack[Len(stack)]

Pop == SubSeq(stack, 1, Len(stack) - 1)

Cached(i) == i \in DOMAIN cache

\* check_outputs asks for one output after the other, each time with an empty cache.
Call ==
  /\ status = "built" /\ walk = "idle"
  /\ Len(answers) < Len(outputs)
  /\ walk' = "running"
  /\ stack' = << Entry(Asked) >>
  /\ UNCHANGED <<vars, cache, answers>>

\* A node may be on the stack twice; the second time it is already resolved.
DropCached ==
  /\ walk = "running" /\ stack # << >> /\ Cached(Top.idx)
  /\ stack' = Pop
  /\ UNCHANGED <<vars, walk, cache, answers>>

\* The right operand is not looked at when the left one depends on secrets.
OperandsMissing(node) ==
  IsGate(node) /\ (~Cached(node.a) \/ (~cache[node.a] /\ ~Cached(node.b)))

Depends(node) == node.op = "SecretInput" \/ (IsGate(node) /\ (cache[node.a] \/ cache[node.b]))

\* A node whose operands were pushed is resolved from them; unwrap panics without one.
Resolve ==
  /\ walk = "running" /\ stack # << >> /\ ~Cached(Top.idx) /\ Top.processed
  /\ IF OperandsMissing(nodes[Top.idx])
     THEN walk' = "panicked" /\ UNCHANGED <<stack, cache>>
     ELSE /\ cache' = [i \in DOMAIN cache \cup {Top.idx} |->
                         IF i = Top.idx THEN Depends(nodes[i]) ELSE cache[i]]
          /\ stack' = Pop
          /\ walk' = walk
  /\ UNCHANGED <<vars, answers>>

\* Slips to guard against: the mark is not kept, the right operand is not visited.
Marked_not(entry) == entry

Pending_left(node) == IF IsGate(node) /\ ~Cached(node.a) THEN << Entry(node.a) >> ELSE << >>

Marked(entry) == [entry EXCEPT !.processed = TRUE]

\* The operands still to be resolved, the right one on top.
Pending(node) ==
  (IF IsGate(node) /\ ~Cached(node.a) THEN << Entry(node.a) >> ELSE << >>)
    \o (IF IsGate(node) /\ ~Cached(node.b) THEN << Entry(node.b) >> ELSE << >>)

Expand ==
  /\ walk = "running" /\ stack # << >> /\ ~Cached(Top.idx) /\ ~Top.processed
  /\ stack' = Append(Pop, Marked(Top)) \o Pending(nodes[Top.idx])
  /\ UNCHANGED <<vars, walk, cache, answers>>

\* unwrap_or(false): a node that was never resolved counts as public.  The cache is
\* local to the call.
Return ==
  /\ walk = "running" /\ stack = << >>
  /\ answers' = Append(answers, Cached(Asked) /\ cache[Asked])
  /\ walk' = "idle"
  /\ cache' = nothing
  /\ UNCHANGED <<vars, stack>>

WalkStep == DropCached \/ Resolve \/ Expand \/ Return

ClassifyNext ==
  \/ Next /\ UNCHANGED walkVars
  \/ Call
  \/ WalkStep

ClassifySpec == WalkInit /\ [][ClassifyNext]_<<vars, walkVars>>

\* The walk and the loop over the outputs are one synchronous call, which does not
\* wait for anyone.
FairClassifySpec == ClassifySpec /\ WF_<<vars, walkVars>>(Call \/ WalkStep)
-----------------------------------------------------------------------------
(* The walk, with its early resolutions, double visits and unwraps, computes    *)
(* the dependence on secrets as it is defined: no unwrap meets an operand that  *)
(* was not resolved, and neither the cache nor an answer is ever wrong.         *)
WalkAgrees ==
  LET depends == node_depends_on_secrets(circuit)
  IN  /\ walk # "panicked"
      /\ \A i \in DOMAIN cache : cache[i] = depends[i]
      /\ \A k \in DOMAIN answers : answers[k] = depends[outputs[k]]

(* The while loop of node_depends_on_secrets ends for every circuit a builder   *)
(* builds, shared and repeated operands included: each output gets its answer.  *)
WalkReturns == status = "built" ~> Len(answers) = Len(outputs)
=============================================================================
