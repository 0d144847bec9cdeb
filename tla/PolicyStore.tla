---------------------------- MODULE PolicyStore ----------------------------
(***************************************************************************)
(* The life of a policy between its author and its use: it is normalized,  *)
(* encoded and decoded any number of times, and must stay the same policy. *)
(***************************************************************************)
EXTENDS Policy

CONSTANTS
  Policies,    \* the policies authored
  Witnesses    \* the witnesses they are evaluated with

VARIABLES
  authored,    \* the policy as its author wrote it
  policy       \* the policy as it is now

vars == <<authored, policy>>

Init ==
  /\ authored \in Policies
  /\ policy = authored

Normalize ==
  /\ policy' = normalize(policy)
  /\ UNCHANGED authored

Reload ==
  /\ decode(encode(policy)).error = "Ok"
  /\ policy' = decode(encode(policy)).value
  /\ UNCHANGED authored

Next == Normalize \/ Reload

Spec == Init /\ [][Next]_vars
-----------------------------------------------------------------------------
(* normalize.rs: "a unique canonical form that preserves semantics exactly":    *)
(* the decision, or the refusal of the witness, is that of the authored policy  *)
(* for every witness, however often it is normalized and reloaded.              *)
SemanticsPreserved ==
  \A w \in Witnesses : evaluate(policy, w) = evaluate(authored, w)

(* normalize.rs: "The transform is idempotent"; identity.rs: "policy_id(raw) == *)
(* policy_id(normalize(raw))": the identity survives every rewriting.           *)
IdentityStable == policy_id(policy) = policy_id(authored)

(* encoding.rs: the encoding is injective and self-delimiting: that of a valid  *)
(* policy decodes to the policy itself (tests/policy_property_tests.rs 10), an  *)
(* encoding of anything else decodes to nothing else, and neither a shortened   *)
(* nor a lengthened encoding decodes to anything.  Whether the encoding of a    *)
(* policy that is not valid decodes is left open: decode's documentation lists  *)
(* errors for structurally invalid shapes (encoding.rs 92-94), its code has no  *)
(* such check and leaves them to validate.                                      *)
EncodingExact ==
  LET bytes == encode(policy)
  IN  /\ decode(bytes).error = "Ok" \/ validate(policy) = "Ok" => decode(bytes) = Parsed(policy, << >>)
      /\ \A n \in 0 .. Len(bytes) - 1 : decode(SubSeq(bytes, 1, n)).error = "MalformedEncoding"
      /\ decode(Append(bytes, 1)).error = "TrailingBytes"

RECURSIVE Height(_), Size(_), Leaves(_), AllNodes(_)
\* Size measures of a tree, and its subtrees.
Height(p) ==
  IF IsLeaf(p) \/ p.members = << >> THEN 0
  ELSE 1 + Max({Height(p.members[i]) : i \in DOMAIN p.members})
Size(p) ==
  IF IsLeaf(p) THEN 1
  ELSE LET Plus(a, m) == a + Size(m) IN FoldLeft(Plus, 1, p.members)
Leaves(p) ==
  IF IsLeaf(p) THEN IF p.op = "Credential" THEN 1 ELSE 0
  ELSE LET Plus(a, m) == a + Leaves(m) IN FoldLeft(Plus, 0, p.members)
AllNodes(p) ==
  {p} \cup IF IsLeaf(p) THEN {} ELSE UNION {AllNodes(p.members[i]) : i \in DOMAIN p.members}

\* The shapes validation.rs allows, whatever the order of its checks.
LegalShape(n) ==
  CASE n.op = "AmountAtMost" -> TRUE
    [] n.op = "Credential" -> n.id # 0
    [] n.op = "Threshold" ->
         LET direct == {i \in DOMAIN n.members : n.members[i].op = "Credential"}
         IN  /\ n.k \in 1 .. Len(n.members) /\ n.k <= MAX_THRESHOLD_ARITY
             /\ Len(n.members) <= MAX_THRESHOLD_MEMBERS
             /\ Cardinality({n.members[i].id : i \in direct}) = Cardinality(direct)
    [] OTHER -> Len(n.members) \in 1 .. MAX_COMBINATOR_CHILDREN

(* validation.rs: the counters kept across the traversal mean what the limits   *)
(* say: a policy is accepted exactly when its whole tree is within every bound  *)
(* and every node of it has a legal shape.  The credential limit bounds the     *)
(* credential leaves, as the code counts them; its documentation speaks of      *)
(* distinct ones (validation.rs 17).                                            *)
ValidationExact ==
  validate(policy) = "Ok" <=>
    /\ Height(policy) <= MAX_POLICY_DEPTH
    /\ Size(policy) <= MAX_POLICY_NODES
    /\ Leaves(policy) <= MAX_CREDENTIAL_COUNT
    /\ \A n \in AllNodes(policy) : LegalShape(n)

(* compiler.rs compile_with_layout normalizes before it validates, so a policy  *)
(* that validates as it was written may be refused.  There are two ways, and    *)
(* no other: two members of a threshold become the same credential, such as A   *)
(* and And[A], or nested combinators of one kind, each within the bound, are    *)
(* spliced into one that is not.  No other bound that held is ever broken.      *)
RewritingRefusals ==
  LET Members(n) == [i \in DOMAIN n.members |-> normalize(n.members[i])]
      Some(ops, Bad(_)) == \E n \in AllNodes(authored) : n.op \in ops /\ Bad(n)
      Twins(n) == DuplicateCredentials(Members(n))
      Nested(n) == \E i \in DOMAIN n.members : Members(n)[i].op = n.op
      error == validate(policy)
  IN  validate(authored) = "Ok" =>
        \/ error = "Ok"
        \/ error = "DuplicateCredential" /\ Some({"Threshold"}, Twins)
        \/ error = "MaxCombinatorChildrenExceeded" /\ Some({"And", "Or"}, Nested)
=============================================================================
