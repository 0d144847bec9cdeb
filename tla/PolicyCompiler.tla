--------------------------- MODULE PolicyCompiler ---------------------------
(***************************************************************************)
(* Policies as circuits (crates/policy: compiler.rs, range_check.rs): a    *)
(* policy is compiled, gate by gate, into a {+, x} circuit and the layout  *)
(* of its input slots.                                                     *)
(*                                                                         *)
(* Emission is a function on the compiler's state c, whose field wire is   *)
(* the node the last call returned.  Node positions count from 1.          *)
(***************************************************************************)
EXTENDS Policy, Field

CONSTANTS
  Modulus,          \* the prime p
  AMOUNT_BIT_LEN    \* 64 in the code: the width of an amount, and of u64

ASSUME CompilerAssumption ==
  /\ Modulus = Cardinality(F)
  /\ AMOUNT_BIT_LEN \in Nat \ {0}
  /\ 2 * 2 ^ AMOUNT_BIT_LEN < Modulus
-----------------------------------------------------------------------------
(* Numbers as field elements and as digits.                                *)

\* F::from and the reduction of a digest modulo p.
RECURSIVE FieldFrom(_)
FieldFrom(n) ==
  IF n = 0 THEN Zero
  ELSE LET half == FieldFrom(n \div 2)
       IN  Plus(Plus(half, half), IF n % 2 = 1 THEN One ELSE Zero)

\* The inverse, zero for zero.
inverse(x) == IF x = Zero THEN Zero ELSE CHOOSE y \in F : Times(x, y) = One

\* Little-endian binary digits.
decompose(n) == [i \in 1 .. AMOUNT_BIT_LEN |-> (n \div 2 ^ (i - 1)) % 2]

\* The digits of p - 1 below the highest one, most significant first.
FermatBits ==
  LET e == Modulus - 1
      highest == CHOOSE h \in 0 .. e : 2 ^ h <= e /\ e < 2 ^ (h + 1)
  IN  [i \in 1 .. highest |-> (e \div 2 ^ (highest - i)) % 2]
-----------------------------------------------------------------------------
(* Emission.                                                               *)

NewCompiler ==
  [nodes |-> << >>, secret_slots |-> << >>, public_slots |-> << >>,
   auxiliary_targets |-> << >>, constraint_outputs |-> << >>, wire |-> 0]

Const(v) == [op |-> "Constant", value |-> v]
Add(a, b) == [op |-> "Add", a |-> a, b |-> b]
Mul(a, b) == [op |-> "Mul", a |-> a, b |-> b]

\* A block of nodes; the last one is returned.
Emit(c, block) == [c EXCEPT !.nodes = @ \o block, !.wire = Len(c.nodes) + Len(block)]

\* A gate of an earlier wire and the last one.
add_gate(c, a) == Emit(c, <<Add(a, c.wire)>>)
mul_gate(c, a) == Emit(c, <<Mul(a, c.wire)>>)

\* Inputs, one for each slot.
secret_inputs(c, slots) ==
  Emit([c EXCEPT !.secret_slots = @ \o slots], [s \in DOMAIN slots |-> [op |-> "SecretInput"]])
public_input(c, slot) ==
  Emit([c EXCEPT !.public_slots = Append(@, slot)], <<[op |-> "PublicInput"]>>)
auxiliary_input(c, target) ==
  secret_inputs([c EXCEPT !.auxiliary_targets = Append(@, target)], <<"Auxiliary">>)

sub_gate(c, a, b) ==
  LET n == Len(c.nodes) IN Emit(c, <<Const(Neg(One)), Mul(b, n + 1), Add(a, n + 2)>>)

\* 1 - x, where x is the last wire.
one_minus(c) ==
  LET n == Len(c.nodes)
  IN  Emit(c, <<Const(Neg(One)), Mul(c.wire, n + 1), Const(One), Add(n + 2, n + 3)>>)

\* x^(p-1) by squaring, where x is the last wire: 0 when x = 0, else 1.
fermat_nonzero(c) ==
  LET Step(acc, bit) ==
        LET square == Mul(acc.wire, acc.wire)
        IN  Emit(acc, IF bit = 1 THEN <<square, Mul(Len(acc.nodes) + 1, c.wire)>> ELSE <<square>>)
  IN  FoldLeft(Step, c, FermatBits)

emit_credential(c) ==
  LET n == Len(c.nodes)
      inputs == public_input(secret_inputs(c, <<"Credential">>), "CredentialCommitment")
  IN  one_minus(fermat_nonzero(sub_gate(inputs, n + 1, n + 2)))

\* Digits against the wire target.  Of the nodes emitted the last is the
\* reconstruction difference, and the sixth before it the booleanity sum.
emit_side(c, target, bits) ==
  LET start == Len(c.nodes)
      Digit(acc, i) ==
        LET n == Len(acc.nodes)
            boolean == IF i = 1 THEN start + 1 ELSE n - 3
        IN  Emit(acc, <<Const(Neg(One)), Mul(bits[i], n + 1), Const(One), Add(n + 2, n + 3),
                        Mul(bits[i], n + 4), Add(boolean, n + 5),
                        Const(FieldFrom(2 ^ (i - 1))), Mul(bits[i], n + 7), Add(n, n + 8)>>)
      digits == FoldLeftDomain(Digit, Emit(c, <<Const(Zero), Const(Zero)>>), bits)
  IN  sub_gate(digits, start + 2 + 9 * AMOUNT_BIT_LEN, target)

\* The same against the last wire.
emit_side_of_last(c, bits) == emit_side(c, c.wire, bits)

prove_bounded_difference(c, value, limit, value_bits, difference_bits) ==
  emit_side_of_last(sub_gate(emit_side(c, value, value_bits), limit, value), difference_bits)

\* A slip to guard against: the difference is computed and not checked.
RangeCheckOutputs_value_only(last) ==
  LET first == last - (2 + 9 * AMOUNT_BIT_LEN + 3) - 3 IN <<first - 6, first, first - 6, first>>

\* The four checks, counted back from the last wire of the gadget.
RangeCheckOutputs(last) ==
  LET side == 2 + 9 * AMOUNT_BIT_LEN + 3
      first == last - side - 3
  IN  <<first - 6, first, last - 6, last>>

\* The product of "this check is zero" over the four checks.
AllZero(c) ==
  LET Conjoin(acc, x) == mul_gate(one_minus(fermat_nonzero([acc EXCEPT !.wire = x])), acc.wire)
  IN  FoldLeft(Conjoin, Emit(c, <<Const(One)>>), RangeCheckOutputs(c.wire))

\* The amount cap as a boolean wire.
emit_amount(c) ==
  LET n == Len(c.nodes)
      Slots(slot) == [i \in 1 .. AMOUNT_BIT_LEN |-> slot]
      Ids(from) == [i \in 1 .. AMOUNT_BIT_LEN |-> from + i]
      inputs == secret_inputs(public_input(secret_inputs(c, <<"Amount">>), "AmountLimit"),
                              Slots("AmountBit") \o Slots("DifferenceBit"))
  IN  AllZero(prove_bounded_difference(inputs, n + 1, n + 2, Ids(n + 2), Ids(n + 2 + AMOUNT_BIT_LEN)))

\* The product of sum - t over the sums t short of k, where sum is the last wire.
Discriminant(c, k) ==
  LET Factor(acc, t) ==
        LET n == Len(acc.nodes)
            diff == <<Const(Neg(FieldFrom(t - 1))), Add(c.wire, n + 1)>>
        IN  Emit(acc, IF t = 1 THEN diff ELSE diff \o <<Mul(acc.wire, n + 2)>>)
  IN  FoldLeft(Factor, c, [t \in 1 .. k |-> t])

\* w = D * aux, where D is the last wire.
Indicator(c) == mul_gate(auxiliary_input(c, c.wire), c.wire)

\* A slip to guard against: the constraint is computed and not published.
Constrain_dropped(c) == c

\* The last wire is to be published as a constraint, zero when accepted.
Constrain(c) == [c EXCEPT !.constraint_outputs = Append(@, c.wire)]

\* w * (1 - w) = 0 for the last wire w, which stays the wire returned.
Booleanity(c) == [Constrain(mul_gate(one_minus(c), c.wire)) EXCEPT !.wire = c.wire]

\* a + b - a*b.
or_gate(c, a) ==
  LET n == Len(c.nodes) IN sub_gate(Emit(c, <<Mul(a, c.wire), Add(a, c.wire)>>), n + 2, n + 1)

RECURSIVE emit_policy(_, _)
emit_policy(c, p) ==
  LET Join(acc, a) ==
        CASE p.op = "And" -> mul_gate(acc, a)
          [] p.op = "Or" -> or_gate(acc, a)
          [] p.op = "Threshold" -> add_gate(acc, a)
      Member(acc, i) ==
        IF i = 1 THEN emit_policy(acc, p.members[i])
        ELSE Join(emit_policy(acc, p.members[i]), acc.wire)
      joined == FoldLeftDomain(Member, c, p.members)
  IN  CASE p.op = "Credential" -> emit_credential(c)
        [] p.op = "AmountAtMost" -> emit_amount(c)
        [] p.op = "Threshold" -> Booleanity(Indicator(Discriminant(joined, p.k)))
        [] OTHER -> joined

\* The constraints are published before the root.
finish(c) ==
  [error |-> "Ok", nodes |-> c.nodes, secret_slots |-> c.secret_slots,
   public_slots |-> c.public_slots, auxiliary_targets |-> c.auxiliary_targets,
   range_check_outputs |-> Len(c.constraint_outputs),
   outputs |-> Append(c.constraint_outputs, c.wire)]

\* The policy is normalized, then validated, then emitted.
compile_with_layout(p) ==
  LET normalized == normalize(p)
  IN  IF validate(normalized) = "Ok" THEN finish(emit_policy(NewCompiler, normalized))
      ELSE [error |-> validate(normalized)]
=============================================================================
