-------------------------------- MODULE MCMpc --------------------------------
EXTENDS MpcEvaluation, MCMpcithJobs

\* "a" and "b" are two executions among two parties, "c" runs among three parties
\* with a provider set up for two, "d" among three.
MCPartyCount == [s \in Simulators |-> IF s \in {"c", "d"} THEN 3 ELSE 2]
MCProviderCount == [s \in Simulators |-> IF s = "d" THEN 3 ELSE 2]

RunOf(c, secrets, publics, sim, hook, after) ==
  [circuit |-> c, secret_inputs |-> secrets, public_inputs |-> publics, sim |-> sim,
   hook |-> hook, after |-> after]

\* Fresh simulators, one that has multiplied before, one that cannot multiply.
MCRuns ==
  { RunOf(Product, <<x, 2>>, << >>, "a", h, 2) : x \in 1 .. 2, h \in BOOLEAN }
    \cup { RunOf(Product, <<2, 2>>, << >>, s, TRUE, 0) : s \in {"c", "d"} }
    \cup { RunOf(Fixture, <<x>>, <<p>>, "a", TRUE, 1) : x, p \in ModF }
    \cup { RunOf(Mixed, <<1>>, <<p>>, "a", TRUE, 0) : p \in 1 .. 2 }
    \cup { RunOf(Cubic, <<x>>, << >>, "a", TRUE, n) : x \in 1 .. 2, n \in {0, 2} }
    \cup { RunOf(Fixture, << >>, <<1>>, "a", TRUE, 0), RunOf(Fixture, <<1>>, << >>, "d", FALSE, 0) }
=============================================================================
