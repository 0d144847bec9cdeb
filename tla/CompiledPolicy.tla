--------------------------- MODULE CompiledPolicy ---------------------------
(***************************************************************************)
(* The use of a compiled policy (crates/policy/src/compiler.rs, the impl   *)
(* of CompiledPolicy): the inputs are filled in from a witness in the      *)
(* order of the circuit's slots, the auxiliary inputs of the thresholds    *)
(* are solved in rounds until nothing changes, and the circuit is          *)
(* evaluated.                                                              *)
(***************************************************************************)
EXTENDS PolicyInputs

CONSTANTS
  Policies,    \* the policies compiled
  Witnesses    \* the witnesses they are evaluated with

VARIABLES
  policy,      \* the policy as its author wrote it
  compiled,    \* the CompiledPolicy
  witness,
  inputs,      \* the field inputs: secrets, publics, and positions of the auxiliaries
  rounds,      \* rounds of the solver so far
  pc,          \* "compile", "fill", "solve", "evaluate", "done"
  result       \* the decision or the error returned

vars == <<policy, compiled, witness, inputs, rounds, pc, result>>

Init ==
  /\ policy \in Policies
  /\ compiled = << >>
  /\ witness = << >>
  /\ inputs = NoInputs
  /\ rounds = 0
  /\ pc = "compile"
  /\ result = "none"
-----------------------------------------------------------------------------
Compile ==
  /\ pc = "compile"
  /\ compiled' = compile_with_layout(policy)
  /\ pc' = IF compiled'.error = "Ok" THEN "fill" ELSE "done"
  /\ result' = IF compiled'.error = "Ok" THEN result ELSE compiled'.error
  /\ UNCHANGED <<policy, witness, inputs, rounds>>

Fill ==
  /\ pc = "fill"
  /\ witness' \in Witnesses
  /\ inputs' = fill(NoInputs, FillOrder(policy), witness')
  /\ IF inputs'.error # "Ok" THEN pc' = "done" /\ result' = inputs'.error
     ELSE IF ~InputsFit(compiled, inputs') THEN pc' = "done" /\ result' = "CircuitValidationFailure"
     ELSE pc' = "solve" /\ result' = result
  /\ UNCHANGED <<policy, compiled, rounds>>

SolveRound ==
  /\ pc = "solve"
  /\ inputs' = Solved(compiled, inputs)
  /\ rounds' = rounds + 1
  /\ pc' = IF inputs' = inputs \/ rounds' = MaxRounds(compiled) THEN "evaluate" ELSE "solve"
  /\ UNCHANGED <<policy, compiled, witness, result>>

reference_evaluate ==
  /\ pc = "evaluate"
  /\ result' = Decision(compiled, inputs)
  /\ pc' = "done"
  /\ UNCHANGED <<policy, compiled, witness, inputs, rounds>>

Next == Compile \/ Fill \/ SolveRound \/ reference_evaluate

Spec == Init /\ [][Next]_vars
-----------------------------------------------------------------------------
\* What fill makes of a witness: an absent amount is the amount 0.
AsFilled(w) == IF w.amount = NoAmount THEN [w EXCEPT !.amount = 0] ELSE w

(* compiler.rs reference_evaluate: "must equal evaluate's authorized flag", and *)
(* "Returns WitnessMismatch if the witness does not match the policy": for      *)
(* every policy that compiles, the circuit decides as the policy does, and      *)
(* refuses the same witnesses, but for one: a witness without an amount is      *)
(* decided like one of amount 0, where evaluate reports the mismatch.           *)
CircuitDecides ==
  pc = "done" /\ compiled.error = "Ok" => result = evaluate(policy, AsFilled(witness))

(* compiler.rs build_inputs: the rounds allowed are enough for thresholds       *)
(* nested in any way: when the solver stops, one more round would change no     *)
(* auxiliary input, and every threshold's booleanity constraint is zero.        *)
SolverSettles ==
  pc = "evaluate" =>
    /\ Solved(compiled, inputs) = inputs
    /\ LET values == eval_all_nodes(compiled, inputs)
       IN  \A n \in 1 .. compiled.range_check_outputs : values[compiled.outputs[n]] = Zero

(* compiler.rs, "Threshold via discriminant + booleanity": the auxiliary inputs *)
(* are free, yet no choice of them lets the circuit authorize what the policy   *)
(* denies.                                                                      *)
AuxiliariesAuthorizeNothing ==
  pc = "evaluate" /\ ~eval_node(policy, AsFilled(witness)) =>
    \A choice \in [ToSet(inputs.aux) -> F] :
      Decision(compiled,
               [inputs EXCEPT !.secrets = [pos \in DOMAIN @ |->
                  IF pos \in ToSet(inputs.aux) THEN choice[pos] ELSE @[pos]]]) = "denied"
=============================================================================
