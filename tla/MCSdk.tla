-------------------------------- MODULE MCSdk --------------------------------
EXTENDS Sdk, MCField

A == Credential(1)
B == Credential(2)
Cap == AmountAtMost(2)

\* Two ways to write one policy, policies with one circuit and different ids, caps on
\* and off a satisfied branch, two caps, and policies refused at each stage.
PolicySeq ==
  <<A, And(<<B, A>>), And(<<A, B>>), And(<<A, Cap>>), And(<<Cap, B>>), Or(<<Cap, A>>),
   Threshold(2, <<B, Cap, A>>),
   And(<<Or(<<Cap, B>>), A>>), And(<<AmountAtMost(1), Cap>>),
   Threshold(1, <<And(<<A>>), A>>), And(<< >>)>>

MCPolicies == ToSet(PolicySeq)

Payment(version, id, amount, recipient, nonce) ==
  [version |-> version, payment_id |-> id, amount |-> amount,
   recipient_commitment |-> recipient, nonce |-> nonce]

\* The recipients 7 and 7 + p are one field element.
PaymentSeq ==
  <<Payment(1, 1, 2, 7, 5), Payment(1, 1, 2, 7, 6), Payment(1, 1, 2, 7 + Modulus, 5),
   Payment(1, 2, 2, 7, 5), Payment(1, 1, 0, 7, 5), Payment(1, 1, 3, 7, 5), Payment(2, 1, 2, 7, 5)>>

MCPayments == ToSet(PaymentSeq)

MCWitnesses ==
  {NewWitness(secrets, amount, limit) :
     secrets \in {<< >>, <<1>>, <<2>>, <<1, 2>>, <<2, 1>>, <<MalformedSecret>>},
     amount \in {0, 2, 3}, limit \in {1, 2}}

Config(version, backend, repetitions, self_verify) ==
  [protocol_version |-> version, backend_id |-> backend, repetitions |-> repetitions,
   self_verify |-> self_verify]

MCConfigs ==
  {Config(2, "sha256", 3, TRUE), Config(2, "sha256", 1, FALSE), Config(1, "sha256", 3, FALSE),
   Config(2, "shake256", 3, TRUE), Config(2, "unknown", 3, FALSE)}

MCVerifiers == {Config(2, "sha256", 1, TRUE), Config(2, "shake256", 3, FALSE)}

\* The hashes: numberings below p and above 0.
FirstIndex(seq, Test(_)) == CHOOSE i \in DOMAIN seq : Test(seq[i]) /\ \A j \in 1 .. i - 1 : ~Test(seq[j])

MCPaymentHash(bytes) ==
  10 + FirstIndex(PaymentSeq, LAMBDA other : encode_payment(other) = bytes)

IdSeq == [i \in DOMAIN PolicySeq |-> IdOf(PolicySeq[i])]

MCNonceHash(payment_id, policyId, circuitId) ==
  20 + 15 * (payment_id % 4) + FirstIndex(IdSeq, LAMBDA id : id = policyId)
=============================================================================
