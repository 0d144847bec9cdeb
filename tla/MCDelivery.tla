----------------------------- MODULE MCDelivery -----------------------------
EXTENDS Delivery, MCMpcithJobs

\* A view of every operation and a view of nothing.
FullView ==
  [repetition_id |-> 0, party_id |-> 1, input_shares |-> <<4>>,
   local_operations |-> << <<0, 1, 2>>, <<1, 2, 3, 0>>, <<2, 3, 0, 1, 4, 2>> >>,
   triple_shares |-> << <<1, 2, 3>> >>, opened_values |-> <<0, 1>>]
EmptyView(p) ==
  [repetition_id |-> 0, party_id |-> p, input_shares |-> << >>, local_operations |-> << >>,
   triple_shares |-> << >>, opened_values |-> << >>]

MCMpcithProof ==
  << [id |-> 0, commitments |-> <<5, 6, 7>>, challenge |-> 2, hidden_output_shares |-> <<4>>,
      hidden_broadcasts |-> << >>,
      opened_views |-> [i \in 1 .. 2 |-> [view |-> EmptyView(i - 1), randomness |-> 8]]] >>

MCStatement == [circuit_id |-> 3, public_inputs |-> <<1, 4>>, expected_outputs |-> <<2>>]

MCProof(views) ==
  [version |-> 2, protocol_id |-> 1, backend_id |-> 1,
   statement |-> [MCStatement EXCEPT !.public_inputs = << >>],
   repetitions |->
     << [commitments |-> <<5, 6, 7>>, challenge |-> 0, hidden_broadcasts |-> <<1>>,
         hidden_output_shares |-> << >>, opened_views |-> views, opening_randomness |-> <<8, 9>>] >>]

MCAuthorization ==
  [version |-> 1, protocol_version |-> 2, backend_id |-> 2, payment_id |-> 3, policy_id |-> 4,
   circuit_id |-> 5, proof |-> MCProof(<<EmptyView(1), FullView>>)]

MCPaymentStatement ==
  [payment_id |-> 3, amount |-> [value |-> 0], recipient_commitment |-> 4, policy_id |-> 5,
   circuit_id |-> 6, protocol_version |-> 2, nonce |-> 7]

Artifact(kind, value, n) == [kind |-> kind, value |-> value, edits |-> n]

MCArtifacts ==
  <<Artifact("circuit", Product, 2), Artifact("circuit", Fixture, 1),
    Artifact("view", FullView, 1), Artifact("view", EmptyView(2), 2),
    Artifact("mpcith_proof", MCMpcithProof, 2), Artifact("mpcith_proof", << >>, 2),
    Artifact("statement", MCStatement, 2), Artifact("proof", MCProof(<<EmptyView(1), EmptyView(2)>>), 2),
    Artifact("payment_statement", MCPaymentStatement, 2), Artifact("authorization", MCAuthorization, 1)>>

Sharing_(secret, k, n, e, d) ==
  [kind |-> "share", secret |-> secret, threshold |-> k, count |-> n, edits |-> e, deliveries |-> d]

\* Secrets of zero, with leading zeros, at and above the modulus; refused parameters.
MCSharings ==
  { Sharing_(s, 2, 3, 0, 3) : s \in {<<0>>, <<0, 0, 0, 1>>, <<1, 0, 0>>, << >>, <<1, 0, 1>>, <<1, 0, 0, 0>>} }
    \cup { Sharing_(<<1, 1>>, k, n, 0, 2) : k \in 0 .. 4, n \in {0, 2, 5} }
    \cup { Sharing_(<<1, 0>>, 3, 4, 0, 4), Sharing_(<<1, 1>>, 2, 3, 1, 3), Sharing_(<<1>>, 3, 3, 1, 2) }
=============================================================================
