-------------------------- MODULE MCNonInteractive --------------------------
EXTENDS NonInteractive, MCMpcithJobs

MCJobs ==
  { JobOf(Fixture, <<2>>, <<e>>, <<1>>, 2, {1}, 0) : e \in 0 .. 1 }
    \cup { JobOf(Cubic, << >>, <<0>>, <<2>>, 2, {2}, 0), JobOf(Product, << >>, <<1>>, <<2, 2>>, 3, {1}, 0) }
    \cup { JobOf(Product, << >>, <<1>>, <<2, 2>>, 1, {c}, 0) : c \in ModF }
    \cup { JobOf(Mixed, <<1>>, <<0, 2>>, <<2>>, 1, {1}, 0) }
    \cup Refused

MCAlterations ==
  {"backend", "version", "statement", "restated", "challenge", "commitment",
   "missing_commitment", "view", "opening", "output_share", "broadcast", "empty", "shorter",
   "longer", "reordered"}
=============================================================================
