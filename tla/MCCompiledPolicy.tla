-------------------------- MODULE MCCompiledPolicy --------------------------
EXTENDS CompiledPolicy, MCField

CONSTANT Leaf

A == Credential(1)
B == Credential(2)

\* Two-member combinators of leaves.
Flat == UNION {{And(m), Or(m), Threshold(1, m), Threshold(2, m)} : m \in Leaf \X Leaf}

\* A combinator of leaves beside a leaf, and thresholds of thresholds of thresholds.
MCPolicies ==
  Leaf
    \cup Flat
    \cup UNION {{And(<<q, B>>), Or(<<A, q>>), Threshold(1, <<q, A>>), Threshold(2, <<B, q, A>>)} : q \in Flat}
    \cup {Threshold(k, <<q, Threshold(1, <<q, B>>)>>) : k \in {1, 2}, q \in {Threshold(j, <<A, B>>) : j \in {1, 2}}}

MCLeaves == {A, B, AmountAtMost(1)}

MCWitnesses ==
  {[secrets |-> s, amount |-> a] :
     s \in {<< <<1, 1>> >>, << <<2, 2>>, <<1, 1>> >>, << <<1, 2>>, <<1, 1>>, <<2, 2>> >>, << <<1, 1>>, <<2, 1>> >>},
     a \in {NoAmount, 1, 2}}
=============================================================================
