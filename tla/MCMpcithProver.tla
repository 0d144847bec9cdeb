--------------------------- MODULE MCMpcithProver ---------------------------
EXTENDS MpcithProver, MCMpcithJobs

MCJobs ==
  { JobOf(Product, << >>, <<0>>, <<x, 2>>, 1, {0, 2}, 1) : x \in 1 .. 2 }
    \cup { JobOf(Mixed, <<p>>, <<0, 0>>, <<x>>, 1, ModF, 1) : p, x \in ModF }
    \cup { JobOf(Fixture, <<p>>, <<0>>, <<x>>, 2, {1}, 2) : p, x \in ModF }
    \cup { JobOf(Cubic, << >>, <<0>>, <<x>>, 1, {c}, 1) : c, x \in ModF }
    \cup Refused
=============================================================================
