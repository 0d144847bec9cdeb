------------------------------ MODULE MCMpcith ------------------------------
EXTENDS Mpcith, MCMpcithJobs

\* Right and wrong expected outputs, public ones too, one and two repetitions,
\* several draws, every challenge, refused jobs.
MCJobs ==
  { JobOf(Product, << >>, <<e>>, <<2, 2>>, 1, {c}, 1) : e, c \in ModF }
    \cup { JobOf(Mixed, <<1>>, <<0, e>>, <<2>>, 1, {0, 1}, 1) : e \in 1 .. 2 }
    \cup { JobOf(Mixed, <<1>>, <<1, 2>>, <<2>>, 1, {1}, 1) }
    \cup { JobOf(Fixture, <<2>>, <<e>>, <<1>>, 2, {1}, 2) : e \in 0 .. 1 }
    \cup { JobOf(Cubic, << >>, <<0>>, <<x>>, 1, {c}, 1) : c, x \in 1 .. 2 }
    \cup { JobOf(Cubic, << >>, <<e>>, <<2>>, 2, {2}, 2) : e \in 0 .. 1 }
    \cup Refused

MCDamages ==
  FaultKinds \cup
  {"id", "challenge", "commitment", "missing_commitment", "missing_view", "swapped_views", "view",
   "output_share", "missing_output_share", "hidden_broadcast", "empty_proof"}
=============================================================================
