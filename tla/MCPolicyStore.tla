--------------------------- MODULE MCPolicyStore ---------------------------
EXTENDS PolicyStore

CONSTANTS LeafSet, MaxMembers

\* The combinators over members from a set.
Over(S) ==
  LET lists == UNION {[1 .. n -> S] : n \in 0 .. MaxMembers}
  IN  {And(m) : m \in lists} \cup {Or(m) : m \in lists}
        \cup {Threshold(k, m) : k \in 0 .. MaxMembers, m \in lists}

Level1 == LeafSet \cup Over(LeafSet)

MCLeaves == {AmountAtMost(1), Credential(1), Credential(2)}

\* Combinators of one leaf and one tree of the level below, in both orders.
MCPolicies ==
  Level1 \cup UNION {{And(m), Or(m), Threshold(1, m), Threshold(2, m)} :
                       m \in (Level1 \X LeafSet) \cup (LeafSet \X Level1) \cup {<<p>> : p \in Level1}}

\* Trees in which the number of nodes, or of credentials, is the only limit reached or
\* exceeded: pairs of combinators of two leaves, and three credentials next to others.
MCPairs == [1 .. 2 -> LeafSet]

MCCountPolicies ==
  LET pairs == {Or(m) : m \in MCPairs} \cup {Threshold(1, m) : m \in MCPairs}
      three == <<Credential(1), Credential(2), Credential(3)>>
  IN  {And(<<p, q>>) : p, q \in pairs}
        \cup {And(<<Threshold(2, three), l>>) : l \in LeafSet \cup {Credential(3)}}
        \cup {Threshold(1, <<Credential(1), Credential(2), q>>) : q \in pairs \cup {Credential(3)}}

\* Trees around every bound: three levels, many nodes, the zero id, a large arity.
MCBoundPolicies ==
  MCPolicies \cup MCCountPolicies
    \cup {And(<<q>>) : q \in {Or(<<And(<<p>>)>>) : p \in Level1}}
    \cup {And(<<p, p, q>>) : p, q \in Level1}
    \cup {Threshold(1, m) : m \in [1 .. 3 -> LeafSet]}
    \cup {And(<<Threshold(k, m), l>>) : k \in 2 .. 3, m \in [1 .. 3 -> LeafSet], l \in LeafSet}
    \cup {Threshold(1, m) : m \in [1 .. 4 -> LeafSet]}
    \cup {Credential(0), Or(<<Credential(0), Credential(1)>>)}

MCWitnesses ==
  {[secrets |-> s, amount |-> a] :
     s \in {<< >>, << <<1, 1>> >>, << <<2, 2>>, <<1, 1>> >>, << <<1, 2>>, <<1, 1>>, <<2, 2>> >>,
            << <<1, 1>>, <<2, 1>> >>, << <<1, 1>>, <<2, 2>>, <<3, 3>> >>},
     a \in {NoAmount, 1, 2}}
=============================================================================
