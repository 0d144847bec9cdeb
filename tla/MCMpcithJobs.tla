---------------------------- MODULE MCMpcithJobs ----------------------------
(***************************************************************************)
(* Small executions of the MPC-in-the-head protocol over the integers      *)
(* modulo P.                                                               *)
(***************************************************************************)
EXTENDS MCField, Sequences

Sec == [op |-> "SecretInput"]
Pub == [op |-> "PublicInput"]
Con(v) == [op |-> "Constant", value |-> v]
AddG(a, b) == [op |-> "Add", a |-> a, b |-> b]
MulG(a, b) == [op |-> "Mul", a |-> a, b |-> b]

Circ(nodes, secrets, publics, outputs) ==
  [nodes |-> nodes, num_secret_inputs |-> secrets, num_public_inputs |-> publics,
   outputs |-> outputs]

\* x * y: one Beaver multiplication.
Product == Circ(<<Sec, Sec, MulG(1, 2)>>, 2, 0, <<3>>)

\* (x + 2) * p, the circuit of the crate's own tests: mixed Add, mixed Mul.
Fixture == Circ(<<Sec, Con(2), AddG(1, 2), Pub, MulG(3, 4)>>, 1, 1, <<5>>)

\* Both operand orders of the mixed gates, a shared Add, public gates, and two
\* outputs of which the first is public.
Mixed == Circ(<<Pub, Con(2), AddG(1, 2), MulG(1, 3), Sec, AddG(4, 5), MulG(4, 6), AddG(6, 7)>>,
              1, 1, <<4, 8>>)

\* (x * x) * (x + 1): two Beaver multiplications, one operand used twice.
Cubic == Circ(<<Sec, MulG(1, 1), Con(1), AddG(1, 3), MulG(2, 4)>>, 1, 0, <<5>>)

\* A gate that uses a later node, and counters that disagree with the leaves.
Forward == Circ(<<Sec, AddG(1, 3), Sec>>, 2, 0, <<2>>)
Miscounted == Circ(<<Sec, Pub>>, 2, 0, <<1>>)

Id(c) == <<"circuit/v1", c.nodes, c.outputs>>

JobOf(c, publics, expected, witness, count, coins, supply) ==
  [circuit |-> c,
   statement |-> [circuit_id |-> Id(c), public_inputs |-> publics, expected_outputs |-> expected],
   witness |-> witness, repetition_count |-> count, coins |-> coins,
   challenges |-> 0 .. 2, supply |-> supply]

\* Executions that prove() or new() must refuse, and a source that runs dry.
Refused ==
  LET good == JobOf(Fixture, <<1>>, <<2>>, <<0>>, 1, {1}, 1)
  IN  { [good EXCEPT !.witness = << >>],
        [good EXCEPT !.repetition_count = 0],
        [good EXCEPT !.statement.public_inputs = << >>],
        [good EXCEPT !.statement.expected_outputs = << >>],
        [good EXCEPT !.statement.circuit_id = Id(Product)],
        JobOf(Forward, << >>, <<0>>, <<0, 0>>, 1, {1}, 1),
        JobOf(Miscounted, << >>, <<0>>, <<0, 0>>, 1, {1}, 1),
        [good EXCEPT !.repetition_count = 2] }
=============================================================================
