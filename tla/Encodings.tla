----------------------------- MODULE Encodings -----------------------------
(***************************************************************************)
(* The canonical encodings of the artifacts that leave a process: circuits *)
(* (circuit), views, repetitions and proofs (mpcith), statements and       *)
(* proofs (proof), payment statements (payment) and authorizations (sdk).  *)
(* Every encoder and every decoder is a definition of its own.             *)
(***************************************************************************)
EXTENDS Wire, Circuit

CONSTANTS MAX_CIRCUIT_NODES, MAX_REPETITIONS

Element(error) == Fixed(F, error)
Elements(error) == Many(Nat, error, <<Element(error)>>)

\* PartyId::new
PartyField == Fixed(Party, "MalformedEncoding")
-----------------------------------------------------------------------------
(* circuit/src/encoding.rs.  Node ids count from 0 on the wire.            *)

serialize(c) ==
  LET Node_(n) ==
        CASE n.op = "SecretInput" -> <<0>>
          [] n.op = "PublicInput" -> <<1>>
          [] n.op = "Constant" -> <<2, n.value>>
          [] n.op = "Add" -> <<3, n.a - 1, n.b - 1>>
          [] n.op = "Mul" -> <<4, n.a - 1, n.b - 1>>
  IN  <<1, Len(c.nodes)>> \o FlattenSeq([i \in DOMAIN c.nodes |-> Node_(c.nodes[i])])
        \o Prefixed([i \in DOMAIN c.outputs |-> c.outputs[i] - 1])

NodeFields ==
  Tagged(0 :> << >> @@ 1 :> << >> @@ 2 :> <<Element("MalformedNode")>>
           @@ 3 :> <<Free, Free>> @@ 4 :> <<Free, Free>>, "MalformedNode")

\* A slip to guard against: what was decoded is taken as it is.
Validated_not(d) == d

Validated(d) ==
  IF d.error = "Ok" /\ validate(d.value) # "Ok" THEN [error |-> validate(d.value), value |-> << >>]
  ELSE d

\* The counts are those of the leaves; the circuit is validated last.
deserialize(bytes) ==
  LET fields == <<Fixed({1}, "UnsupportedVersion"),
                  Many(0 .. MAX_CIRCUIT_NODES, "ExcessiveSize", <<NodeFields>>),
                  Many(Nat, "", <<Free>>)>>
      NodeOf(t) ==
        CASE t[1] = 0 -> [op |-> "SecretInput"]
          [] t[1] = 1 -> [op |-> "PublicInput"]
          [] t[1] = 2 -> [op |-> "Constant", value |-> t[2]]
          [] t[1] = 3 -> [op |-> "Add", a |-> t[2] + 1, b |-> t[3] + 1]
          [] t[1] = 4 -> [op |-> "Mul", a |-> t[2] + 1, b |-> t[3] + 1]
      Make(got) ==
        [nodes |-> [i \in DOMAIN got[2] |-> NodeOf(got[2][i])],
         num_secret_inputs |-> Cardinality({i \in DOMAIN got[2] : got[2][i][1] = 0}),
         num_public_inputs |-> Cardinality({i \in DOMAIN got[2] : got[2][i][1] = 1}),
         outputs |-> [i \in DOMAIN got[3] |-> got[3][i] + 1]]
  IN  Validated(Decoded(ReadFields(Cursor(bytes, "UnexpectedEnd"), fields), "TrailingBytes", Make))
-----------------------------------------------------------------------------
(* mpcith/src/encoding.rs.  An operation is its tag and its fields: Add 0, *)
(* MulPublic 1, BeaverMul 2.                                               *)

encode_view(v) ==
  <<v.repetition_id, v.party_id>>
    \o Prefixed(v.input_shares)
    \o <<Len(v.local_operations)>> \o FlattenSeq(v.local_operations)
    \o <<Len(v.triple_shares)>> \o FlattenSeq(v.triple_shares)
    \o Prefixed(v.opened_values)

\* What decode_view reads.
ViewFields ==
  LET bad == "MalformedEncoding"
      e == Element(bad)
  IN  <<Free, PartyField,
        Elements(bad),
        Many(Nat, bad, <<Tagged(0 :> <<Free, e>> @@ 1 :> <<Free, e, e>> @@ 2 :> <<Free, Free, e, e, e>>, bad)>>),
        Many(Nat, bad, <<e, e, e>>),
        Elements(bad)>>

ViewOf(got) ==
  [repetition_id |-> got[1], party_id |-> got[2], input_shares |-> got[3],
   local_operations |-> got[4], triple_shares |-> got[5], opened_values |-> got[6]]

\* A view from the front of bytes, and how many of them it takes; what follows is the
\* caller's business.
decode_view(bytes) ==
  LET c == ReadFields(Cursor(bytes, "MalformedEncoding"), ViewFields)
  IN  [error |-> c.error, value |-> IF c.error = "Ok" THEN ViewOf(c.got) ELSE << >>,
       consumed |-> Len(bytes) - Len(c.rest)]

encode_repetition(r) ==
  <<r.id>> \o r.commitments \o <<r.challenge>>
    \o Prefixed(r.hidden_output_shares) \o Prefixed(r.hidden_broadcasts)
    \o FlattenSeq([i \in 1 .. 2 |->
         Prefixed(encode_view(r.opened_views[i].view)) \o <<r.opened_views[i].randomness>>])

\* What decode_repetition reads.  How much of its block decode_view consumes is not
\* looked at.
RepetitionFields ==
  LET bad == "MalformedEncoding"
  IN  <<Free, Exactly(3, <<Free>>), PartyField, Elements(bad), Elements(bad),
        Exactly(2, <<Block(ViewFields, FALSE, bad), Free>>)>>

RepetitionOf(got) ==
  [id |-> got[1], commitments |-> got[2], challenge |-> got[3], hidden_output_shares |-> got[4],
   hidden_broadcasts |-> got[5],
   opened_views |-> [i \in 1 .. 2 |-> [view |-> ViewOf(got[6][i][1]), randomness |-> got[6][i][2]]]]

encode_proof(proof) ==
  <<1, Len(proof)>> \o FlattenSeq([i \in DOMAIN proof |-> encode_repetition(proof[i])])

\* A slip to guard against: what follows the repetitions is not looked at.
ProofEnd_unchecked(c) == [c EXCEPT !.rest = << >>]

\* Where decode_proof stops reading.
ProofEnd(c) == c

decode_proof(bytes) ==
  LET bad == "MalformedEncoding"
      Make(got) == [i \in DOMAIN got[2] |-> RepetitionOf(got[2][i])]
      fields == <<Fixed({1}, bad), Many(0 .. MAX_REPETITIONS, bad, RepetitionFields)>>
  IN  Decoded(ProofEnd(ReadFields(Cursor(bytes, bad), fields)), bad, Make)
-----------------------------------------------------------------------------
(* proof/src/statement.rs and encoding.rs.                                 *)

encode_into(s) ==
  <<1, s.circuit_id>> \o Prefixed(s.public_inputs) \o Prefixed(s.expected_outputs)

\* What decode_prefix reads.
StatementFields ==
  LET bad == "MalformedEncoding" IN <<Fixed({1}, "InvalidVersion"), Free, Elements(bad), Elements(bad)>>

\* Statement::decode.
decode_proof_statement(bytes) ==
  LET Make(got) == [circuit_id |-> got[2], public_inputs |-> got[3], expected_outputs |-> got[4]]
  IN  Decoded(ReadFields(Cursor(bytes, "MalformedEncoding"), StatementFields), "MalformedEncoding", Make)

SUPPORTED_BACKEND_IDS == {1, 2}

\* Broadcasts before output shares, unlike in mpcith.
serialize_proof(p) ==
  LET Opened(r) ==
        FlattenSeq([i \in DOMAIN r.opened_views |->
          Prefixed(encode_view(r.opened_views[i])) \o <<r.opening_randomness[i]>>])
      Rep(r) ==
        r.commitments \o <<r.challenge>>
          \o Prefixed(r.hidden_broadcasts) \o Prefixed(r.hidden_output_shares)
          \o <<Len(r.opened_views)>> \o Opened(r)
  IN  <<p.version, p.protocol_id, p.backend_id>> \o encode_into(p.statement)
        \o <<Len(p.repetitions)>> \o FlattenSeq([i \in DOMAIN p.repetitions |-> Rep(p.repetitions[i])])

\* A slip to guard against: what is left of a view's block is not looked at.
ViewBlock_loose == Block(ViewFields, FALSE, "MalformedEncoding")

ViewBlock == Block(ViewFields, TRUE, "MalformedEncoding")

\* What decode_repetition of the proof crate reads.
ProofRepetitionFields ==
  LET bad == "MalformedEncoding"
  IN  <<Exactly(3, <<Free>>), PartyField, Elements(bad), Elements(bad), Fixed({2}, bad),
        Exactly(2, <<ViewBlock, Free>>)>>

ProofRepetitionOf(got) ==
  [commitments |-> got[1], challenge |-> got[2], hidden_broadcasts |-> got[3],
   hidden_output_shares |-> got[4], opened_views |-> [i \in 1 .. 2 |-> ViewOf(got[6][i][1])],
   opening_randomness |-> [i \in 1 .. 2 |-> got[6][i][2]]]

deserialize_proof(bytes) ==
  LET fields == <<Fixed({2}, "InvalidVersion"), Fixed({1}, "InvalidVersion"),
                  Fixed(SUPPORTED_BACKEND_IDS, "UnsupportedBackend")>>
                  \o StatementFields
                  \o <<Many(0 .. MAX_REPETITIONS, "ExcessiveRepetitions", ProofRepetitionFields)>>
      Make(got) ==
        [version |-> got[1], protocol_id |-> got[2], backend_id |-> got[3],
         statement |-> [circuit_id |-> got[5], public_inputs |-> got[6], expected_outputs |-> got[7]],
         repetitions |-> [i \in DOMAIN got[8] |-> ProofRepetitionOf(got[8][i])]]
  IN  Decoded(ReadFields(Cursor(bytes, "MalformedEncoding"), fields), "MalformedEncoding", Make)
-----------------------------------------------------------------------------
(* payment/src/amount.rs and statement.rs: fixed lengths, checked first.   *)

encode_amount(a) == <<1, a.value, 1>>

\* What Amount::decode reads, with the errors decode_statement makes of its own.
AmountFields == <<Fixed({1}, "InvalidVersion"), Free, Fixed({1}, "InvalidAmount")>>

encode_statement(s) ==
  <<2, s.payment_id>> \o encode_amount(s.amount)
    \o <<s.recipient_commitment, s.policy_id, s.circuit_id, s.protocol_version, s.nonce>>

STATEMENT_LEN == 10

decode_statement(bytes) ==
  LET fields == <<Fixed({2}, "InvalidVersion"), Free>> \o AmountFields
                  \o <<Free, Free, Free, Free, Free>>
      Make(got) ==
        [payment_id |-> got[2], amount |-> [value |-> got[4]], recipient_commitment |-> got[6],
         policy_id |-> got[7], circuit_id |-> got[8], protocol_version |-> got[9], nonce |-> got[10]]
      LengthError == IF Len(bytes) < STATEMENT_LEN THEN "MalformedEncoding"
                     ELSE IF Len(bytes) > STATEMENT_LEN THEN "TrailingBytes" ELSE "Ok"
  IN  Decoded(ReadFields([Cursor(bytes, "MalformedEncoding") EXCEPT !.error = LengthError], fields),
              "TrailingBytes", Make)
-----------------------------------------------------------------------------
(* sdk/src/encoding.rs and identity.rs.                                    *)

Header(a) ==
  <<a.version, a.protocol_version, a.backend_id, a.payment_id, a.policy_id, a.circuit_id>>

HEADER_LEN == 6

serialize_authorization(a) == Header(a) \o serialize_proof(a.proof)

deserialize_authorization(bytes) ==
  LET header == ReadFields(Cursor(bytes, "ArtifactMalformed"),
                  <<Fixed({1}, "VersionUnsupported"), Fixed({1, 2}, "VersionUnsupported"),
                    Fixed(SUPPORTED_BACKEND_IDS, "BackendUnsupported"), Free, Free, Free>>)
      proof == deserialize_proof(header.rest)
      error == IF Len(bytes) < HEADER_LEN THEN "ArtifactMalformed"
               ELSE IF header.error # "Ok" THEN header.error
               ELSE CASE proof.error = "Ok" -> "Ok"
                      [] proof.error = "InvalidVersion" -> "VersionUnsupported"
                      [] proof.error = "UnsupportedBackend" -> "BackendUnsupported"
                      [] OTHER -> "ArtifactMalformed"
      h == header.got
  IN  IF error # "Ok" THEN [error |-> error, value |-> << >>]
      ELSE [error |-> "Ok",
            value |-> [version |-> h[1], protocol_version |-> h[2], backend_id |-> h[3],
                       payment_id |-> h[4], policy_id |-> h[5], circuit_id |-> h[6],
                       proof |-> proof.value]]

\* The hash of header and length-prefixed proof, taken as injective.
authorization_id(a) == Header(a) \o Prefixed(serialize_proof(a.proof))
=============================================================================
