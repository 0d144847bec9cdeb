------------------------------ MODULE Delivery ------------------------------
(***************************************************************************)
(* What leaves a process and comes back: circuits, views, proofs,          *)
(* statements and authorizations, one at a time, and the shares of a       *)
(* secret, one message each.  On the way a message may be damaged; a       *)
(* message may arrive never, once or again, in any order.  The receiver    *)
(* decodes what arrives and, for shares, reconstructs the secret.          *)
(*                                                                         *)
(* The channel is the environment; encoders, decoders, split and           *)
(* reconstruct are the code.                                               *)
(***************************************************************************)
EXTENDS Encodings, SecretSharing

CONSTANTS
  Artifacts,      \* a sequence of what may be sent: [kind, value, edits], edits bounding the damage
  Sharings        \* secrets to split: [kind, secret, threshold, count, edits, deliveries]

VARIABLES
  parcel,     \* what is sent
  sent,       \* the values behind the messages
  wire,       \* the messages, as they are now
  edits,      \* how often a message was damaged
  arrived,    \* what was decoded, in order: [from, bytes, result]
  outcome     \* the error "none", that of split, or what reconstruct returned

vars == <<parcel, sent, wire, edits, arrived, outcome>>

Encode(kind, v) ==
  CASE kind = "circuit" -> serialize(v)
    [] kind = "view" -> encode_view(v)
    [] kind = "mpcith_proof" -> encode_proof(v)
    [] kind = "statement" -> encode_into(v)
    [] kind = "proof" -> serialize_proof(v)
    [] kind = "payment_statement" -> encode_statement(v)
    [] kind = "authorization" -> serialize_authorization(v)
    [] kind = "share" -> encode_share(v)

Decode(kind, bytes) ==
  CASE kind = "circuit" -> deserialize(bytes)
    [] kind = "view" -> decode_view(bytes)
    [] kind = "mpcith_proof" -> decode_proof(bytes)
    [] kind = "statement" -> decode_proof_statement(bytes)
    [] kind = "proof" -> deserialize_proof(bytes)
    [] kind = "payment_statement" -> decode_statement(bytes)
    [] kind = "authorization" -> deserialize_authorization(bytes)
    [] kind = "share" -> decode_share(bytes)

Init ==
  /\ \/ \E i \in DOMAIN Artifacts :
          LET a == Artifacts[i]
          IN  parcel = a /\ sent = <<a.value>> /\ wire = <<Encode(a.kind, a.value)>>
     \/ parcel \in Sharings /\ sent = << >> /\ wire = << >>
  /\ edits = 0
  /\ arrived = << >>
  /\ outcome = Refusal("none")

split ==
  /\ parcel.kind = "share" /\ sent = << >> /\ outcome.error = "none"
  /\ LET error == SplitError(parcel.secret, parcel.threshold, parcel.count)
     IN  IF error # "Ok" THEN outcome' = Refusal(error) /\ UNCHANGED <<sent, wire>>
         ELSE \/ outcome' = Refusal("RngFailure") /\ UNCHANGED <<sent, wire>>
              \/ \E drawn \in random_elements(RandomCount(parcel.threshold)) :
                   /\ sent' = Shares(parcel.secret, parcel.threshold, parcel.count, drawn)
                   /\ wire' = [i \in DOMAIN sent' |-> encode_share(sent'[i])]
                   /\ UNCHANGED outcome
  /\ UNCHANGED <<parcel, edits, arrived>>

\* One symbol or the tail of a message changed, lost or added.
Damaged(m) ==
  {SubSeq(m, 1, n) : n \in 0 .. Len(m) - 1}
    \cup {Append(m, 0)}
    \cup UNION {{ReplaceAt(m, i, v) : v \in {0, m[i] - 1, m[i] + 1, 9} \cap Nat} : i \in DOMAIN m}
    \cup UNION {{InsertAt(m, i, v) : v \in {0, 1}} : i \in DOMAIN m}
    \cup {RemoveAt(m, i) : i \in DOMAIN m}

Damage(i) ==
  /\ arrived = << >> /\ edits < parcel.edits
  /\ \E m \in Damaged(wire[i]) : wire' = [wire EXCEPT ![i] = m]
  /\ edits' = edits + 1
  /\ UNCHANGED <<parcel, sent, arrived, outcome>>

Deliveries == IF parcel.kind = "share" THEN parcel.deliveries ELSE 1

Deliver(i) ==
  /\ outcome.error = "none" /\ Len(arrived) < Deliveries
  /\ arrived' = Append(arrived, [from |-> i, bytes |-> wire[i], result |-> Decode(parcel.kind, wire[i])])
  /\ UNCHANGED <<parcel, sent, wire, edits, outcome>>

\* The shares that decoded, in order of arrival.
Collected ==
  LET Ok(a) == a.result.error = "Ok"
      good == SelectSeq(arrived, Ok)
  IN  [i \in DOMAIN good |-> good[i].result.value]

Reconstruct ==
  /\ parcel.kind = "share" /\ sent # << >> /\ outcome.error = "none"
  /\ outcome' = reconstruct(Collected)
  /\ UNCHANGED <<parcel, sent, wire, edits, arrived>>

Next ==
  \/ split
  \/ \E i \in DOMAIN wire : Damage(i) \/ Deliver(i)
  \/ Reconstruct

Spec == Init /\ [][Next]_vars
-----------------------------------------------------------------------------
\* The messages that arrived and decoded, as they were sent.
Original(a) == Encode(parcel.kind, sent[a.from])

Accepted == {arrived[i] : i \in {j \in DOMAIN arrived : arrived[j].result.error = "Ok"}}

(* Whatever is encoded decodes to itself: "deserialize(serialize(proof))        *)
(* reproduces identical bytes" (proof encoding.rs) and the like for every       *)
(* artifact; no proper prefix of an encoding decodes at all, and no proper      *)
(* extension ("rejects truncation ... and trailing bytes"), so no reader can    *)
(* stop early or run on.  A view is read from the front of what there is: its   *)
(* decoder says where it ends, and must say so whatever follows.                *)
SelfDelimiting ==
  \A i \in DOMAIN arrived :
    LET a == arrived[i]
        original == Original(a)
        Whole == a.result.error = "Ok" /\ a.result.value = sent[a.from]
    IN  /\ a.bytes = original => Whole
        /\ a.bytes # original /\ IsPrefix(a.bytes, original) => a.result.error # "Ok"
        /\ a.bytes # original /\ IsPrefix(original, a.bytes) =>
             IF parcel.kind = "view" THEN Whole /\ a.result.consumed = Len(original)
             ELSE a.result.error # "Ok"

(* One value, one encoding: bytes that decode are the encoding of what they     *)
(* decode to, whatever was damaged, so the hashes and identities taken of the   *)
(* encoding cannot be had with other bytes.  Of a view this is said of the      *)
(* bytes decode_view consumes.  The MPCitH proof, which does not ask how many   *)
(* these are, has slack: the blocks of its views may end in symbols that are    *)
(* not read, which encoding it again drops.  The proof crate does ask, so two   *)
(* authorizations have the same authorization_id (identity.rs) exactly when     *)
(* they are the same, proof included.                                           *)
Canonical ==
  \A a \in Accepted :
    LET again == Encode(parcel.kind, a.result.value)
    IN  CASE parcel.kind = "mpcith_proof" ->
               decode_proof(again) = a.result /\ (again # a.bytes => Len(again) < Len(a.bytes))
          [] parcel.kind = "view" -> again = SubSeq(a.bytes, 1, a.result.consumed)
          [] OTHER ->
               /\ again = a.bytes
               /\ parcel.kind = "authorization" =>
                    ((authorization_id(a.result.value) = authorization_id(sent[a.from]))
                       <=> (a.bytes = Original(a)))

(* A decoded circuit can be evaluated: its gates use earlier nodes, its outputs *)
(* exist and its counts are those of its leaves, although operands and outputs  *)
(* come from the wire and the counts do not (circuit encoding.rs deserialize).  *)
DecodedCircuitSound ==
  parcel.kind = "circuit" =>
    \A a \in Accepted :
      LET c == a.result.value
      IN  /\ \A i \in DOMAIN c.nodes : operands(c.nodes[i]) \subseteq 1 .. i - 1
          /\ c.outputs # << >> /\ \A k \in DOMAIN c.outputs : c.outputs[k] \in DOMAIN c.nodes
          /\ c.num_secret_inputs = Cardinality(Leaves(c.nodes, "SecretInput"))
          /\ c.num_public_inputs = Cardinality(Leaves(c.nodes, "PublicInput"))
-----------------------------------------------------------------------------
Genuine(share) == \E i \in DOMAIN sent : sent[i] = share

(* shamir.rs: "Any threshold distinct shares reconstruct the secret", in any    *)
(* order of arrival, and what comes back is its canonical form; fewer, or a     *)
(* share that arrived twice, give an error.  A damaged share after the first    *)
(* threshold ("extra shares are ignored") may have reconstruction refused, but  *)
(* never gives another secret, and damage to one share never makes too few      *)
(* shares enough, unless that share is all there is.                            *)
SecretRecovered ==
  parcel.kind = "share" /\ sent # << >> /\ outcome.error # "none" =>
    LET n == Len(Collected)
        distinct == \A i, j \in 1 .. n : i # j => Collected[i].index # Collected[j].index
    IN  /\ (\A i \in 1 .. n : Genuine(Collected[i])) =>
             outcome.error = IF n = 0 THEN "EmptyInput"
                             ELSE IF ~distinct THEN "DuplicateShareIndex"
                             ELSE IF n < parcel.threshold THEN "InsufficientShares" ELSE "Ok"
        /\ outcome.error = "Ok" /\ (\A i \in 1 .. parcel.threshold : i <= n => Genuine(Collected[i])) =>
             outcome.value = Stripped(parcel.secret)
        /\ outcome.error = "Ok" /\ n > 1 => n >= parcel.threshold

(* The other half of secret sharing: fewer shares than the threshold say        *)
(* nothing, for split could have made them from any other secret (it draws its  *)
(* coefficients from the whole field, and as many as the threshold needs).      *)
BelowThresholdHidden ==
  parcel.kind = "share" /\ sent # << >> =>
    LET known == {a.from : a \in Accepted}
    IN  Cardinality(known) < parcel.threshold =>
          \A x \in F : \E drawn \in random_elements(RandomCount(parcel.threshold)) :
            \A i \in known : Evaluate(<<x>> \o drawn, i) = sent[i].value
=============================================================================
