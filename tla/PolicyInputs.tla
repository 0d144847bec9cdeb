---------------------------- MODULE PolicyInputs ----------------------------
(***************************************************************************)
(* The inputs of a compiled policy (crates/policy/src/compiler.rs, the     *)
(* impl of CompiledPolicy): how a witness fills the slots of the circuit,  *)
(* how the auxiliary inputs of the thresholds are solved, and how the      *)
(* circuit is evaluated.                                                   *)
(***************************************************************************)
EXTENDS PolicyCompiler

NoInputs == [error |-> "Ok", secrets |-> << >>, publics |-> << >>, aux |-> << >>]
-----------------------------------------------------------------------------
\* The value of node n, given those of the nodes before it.  The inputs are
\* consumed in declaration order.
NodeValue(nodes, i, values, n) ==
  LET node == nodes[n]
      Index == Cardinality({m \in 1 .. n : nodes[m].op = node.op})
  IN  CASE node.op = "SecretInput" -> i.secrets[Index]
        [] node.op = "PublicInput" -> i.publics[Index]
        [] node.op = "Constant" -> node.value
        [] node.op = "Add" -> Plus(values[node.a], values[node.b])
        [] node.op = "Mul" -> Times(values[node.a], values[node.b])

\* The values up to node n, in two halves to keep the recursion shallow.
RECURSIVE ValuesUpTo(_, _, _, _)
ValuesUpTo(nodes, i, values, n) ==
  IF Len(values) = n THEN values
  ELSE IF Len(values) = n - 1 THEN Append(values, NodeValue(nodes, i, values, n))
  ELSE ValuesUpTo(nodes, i, ValuesUpTo(nodes, i, values, (Len(values) + n) \div 2), n)

eval_all_nodes(c, i) == ValuesUpTo(c.nodes, i, << >>, Len(c.nodes))

InputsFit(c, i) ==
  /\ Len(i.secrets) = Len(c.secret_slots)
  /\ Len(i.publics) = Len(c.public_slots)

\* u64::wrapping_sub.
Difference(limit, amount) == (limit - amount) % 2 ^ AMOUNT_BIT_LEN

\* One pass over the policy, in the order its slots were declared.  An amount that
\* is absent is filled in as 0.
RECURSIVE fill(_, _, _)
fill(i, p, w) ==
  LET amount == IF w.amount = NoAmount THEN 0 ELSE w.amount
      digits == decompose(amount) \o decompose(Difference(p.limit, amount))
      Member(acc, m) == fill(acc, m, w)
      all == FoldLeft(Member, i, p.members)
  IN  IF i.error # "Ok" THEN i
      ELSE CASE p.op = "Credential" ->
                  IF ~HasSecret(w, p.id) THEN [i EXCEPT !.error = "WitnessMismatch"]
                  ELSE [i EXCEPT !.secrets = Append(@, FieldFrom(secret_for(w, p.id))),
                                 !.publics = Append(@, FieldFrom(p.id))]
             [] p.op = "AmountAtMost" ->
                  [i EXCEPT !.secrets = Append(@, FieldFrom(amount))
                                        \o [n \in DOMAIN digits |-> FieldFrom(digits[n])],
                            !.publics = Append(@, FieldFrom(p.limit))]
             [] p.op = "Threshold" ->
                  [all EXCEPT !.aux = Append(@, Len(all.secrets) + 1),
                              !.secrets = Append(@, Zero)]
             [] OTHER -> all

\* The inputs with every auxiliary the inverse of its discriminant, as evaluated
\* with the inputs before the round.
Solved(c, i) ==
  LET values == eval_all_nodes(c, i)
      Desired(n) == inverse(values[c.auxiliary_targets[n]])
      Index(pos) == CHOOSE n \in DOMAIN i.aux : i.aux[n] = pos
  IN  [i EXCEPT !.secrets = [pos \in DOMAIN i.secrets |->
                               IF pos \in ToSet(i.aux) THEN Desired(Index(pos)) ELSE i.secrets[pos]]]

\* Authorized when every published constraint is zero and the root is one.
Decision(c, i) ==
  LET values == eval_all_nodes(c, i)
  IN  IF /\ \A n \in 1 .. c.range_check_outputs : values[c.outputs[n]] = Zero
         /\ values[c.outputs[Len(c.outputs)]] = One
      THEN "authorized" ELSE "denied"

\* A slip to guard against: the authored order is walked, not the canonical one.
FillOrder_authored(p) == p

\* The slots follow the normalized policy.
FillOrder(p) == normalize(p)

\* A slip to guard against: one round, however the thresholds are nested.
MaxRounds_one(c) == 1

\* for _ in 0..=auxiliary_targets.len()
MaxRounds(c) == Len(c.auxiliary_targets) + 1
-----------------------------------------------------------------------------
RECURSIVE Settled(_, _, _)
\* The solver's rounds, as one function: they end when nothing changes.
Settled(c, i, left) ==
  IF left = 0 THEN i
  ELSE LET next == Solved(c, i) IN IF next = i THEN i ELSE Settled(c, next, left - 1)

CheckedInputs(c, filled) ==
  IF filled.error # "Ok" THEN filled
  ELSE IF ~InputsFit(c, filled) THEN [filled EXCEPT !.error = "CircuitValidationFailure"]
  ELSE Settled(c, filled, MaxRounds(c))

\* The inputs for a witness, or the error.
build_inputs(c, p, w) == CheckedInputs(c, fill(NoInputs, FillOrder(p), w))
=============================================================================
