------------------------------- MODULE Policy -------------------------------
(***************************************************************************)
(* Payment policies (crates/policy: ast.rs, validation.rs, normalize.rs,   *)
(* encoding.rs, identity.rs, witness.rs, evaluator.rs).  Policies are      *)
(* trees of records; every operation on them is a recursive operator.      *)
(*                                                                         *)
(* A credential id and the commitment of the secret that satisfies it are  *)
(* the same number; secrets are named by their commitments (the hash is    *)
(* taken as injective).  The all-zero id is 0.                             *)
(***************************************************************************)
EXTENDS Integers, SequencesExt

CONSTANTS
  MAX_POLICY_DEPTH, MAX_POLICY_NODES, MAX_THRESHOLD_ARITY, MAX_CREDENTIAL_COUNT,
  MAX_COMBINATOR_CHILDREN, MAX_THRESHOLD_MEMBERS

AmountAtMost(limit) == [op |-> "AmountAtMost", limit |-> limit]
Credential(id) == [op |-> "Credential", id |-> id]
Threshold(k, members) == [op |-> "Threshold", k |-> k, members |-> members]
And(members) == [op |-> "And", members |-> members]
Or(members) == [op |-> "Or", members |-> members]

IsLeaf(p) == p.op \in {"AmountAtMost", "Credential"}
-----------------------------------------------------------------------------
(* Validation.  ctx carries the node and credential counters through the   *)
(* whole traversal, and the first error.                                   *)

\* A slip to guard against: only neighbours are compared.
DuplicateCredentials_adjacent(members) ==
  \E i \in 2 .. Len(members) :
    /\ members[i].op = "Credential" /\ members[i - 1].op = "Credential"
    /\ members[i].id = members[i - 1].id

DuplicateCredentials(members) ==
  \E i, j \in DOMAIN members :
    /\ i # j
    /\ members[i].op = "Credential" /\ members[j].op = "Credential"
    /\ members[i].id = members[j].id

\* The checks on a combinator before its members are visited.
ShapeError(p) ==
  LET n == Len(p.members)
  IN  IF p.op = "Threshold"
      THEN CASE p.k = 0 -> "InvalidThreshold"
             [] p.k > MAX_THRESHOLD_ARITY -> "MaxArityExceeded"
             [] n = 0 -> "EmptyPolicy"
             [] n > MAX_THRESHOLD_MEMBERS -> "MaxCombinatorChildrenExceeded"
             [] p.k > n -> "ThresholdExceedsCount"
             [] DuplicateCredentials(p.members) -> "DuplicateCredential"
             [] OTHER -> "Ok"
      ELSE CASE n = 0 -> "EmptyPolicy"
             [] n > MAX_COMBINATOR_CHILDREN -> "MaxCombinatorChildrenExceeded"
             [] OTHER -> "Ok"

\* A slip to guard against: the bound itself is refused.
TooDeep_off_by_one(depth) == depth >= MAX_POLICY_DEPTH

TooDeep(depth) == depth > MAX_POLICY_DEPTH

\* A slip to guard against: the check is left out.
TooManyCredentials_never(count) == FALSE

\* Leaves are counted, also those of a credential that was met before.
TooManyCredentials(count) == count > MAX_CREDENTIAL_COUNT

RECURSIVE validate_impl(_, _, _)
validate_impl(p, depth, ctx) ==
  LET counted == [ctx EXCEPT !.nodes = @ + 1]
      Fails(e) == [counted EXCEPT !.error = e]
  IN  IF ctx.error # "Ok" THEN ctx
      ELSE IF TooDeep(depth) THEN [ctx EXCEPT !.error = "MaxDepthExceeded"]
      ELSE IF counted.nodes > MAX_POLICY_NODES THEN Fails("MaxNodesExceeded")
      ELSE IF p.op = "AmountAtMost" THEN counted
      ELSE IF p.op = "Credential"
      THEN IF p.id = 0 THEN Fails("InvalidCredentialId")
           ELSE IF TooManyCredentials(ctx.credentials + 1) THEN Fails("MaxCredentialsExceeded")
           ELSE [counted EXCEPT !.credentials = @ + 1]
      ELSE IF ShapeError(p) # "Ok" THEN Fails(ShapeError(p))
      ELSE LET Visit(acc, member) == validate_impl(member, depth + 1, acc)
           IN  FoldLeft(Visit, counted, p.members)

validate(p) == validate_impl(p, 0, [nodes |-> 0, credentials |-> 0, error |-> "Ok"]).error
-----------------------------------------------------------------------------
(* Canonical encoding.  Every fixed-width field is one number; fields are  *)
(* big endian, so the order of encodings is the order of the sequences.    *)

Tag(p) ==
  CASE p.op = "AmountAtMost" -> 1 [] p.op = "Credential" -> 2 [] p.op = "Threshold" -> 3
    [] p.op = "And" -> 4 [] p.op = "Or" -> 5

ENCODING_VERSION == 1

RECURSIVE encode_node(_)
encode_node(p) ==
  LET Members == <<Len(p.members)>> \o FlattenSeq([i \in DOMAIN p.members |-> encode_node(p.members[i])])
  IN  CASE p.op = "AmountAtMost" -> <<Tag(p), p.limit>>
        [] p.op = "Credential" -> <<Tag(p), p.id>>
        [] p.op = "Threshold" -> <<Tag(p), p.k>> \o Members
        [] OTHER -> <<Tag(p)>> \o Members

encode(p) == <<ENCODING_VERSION>> \o encode_node(p)

\* What a parser returns: an error, or what it read and what is left.
Parsed(value, rest) == [error |-> "Ok", value |-> value, rest |-> rest]
Malformed == [error |-> "MalformedEncoding", value |-> << >>, rest |-> << >>]

RECURSIVE take_node(_), take_nodes(_, _)
\* take_node reads one tagged node, take_nodes count of them.
take_nodes(bytes, count) ==
  IF count = 0 THEN Parsed(<< >>, bytes)
  ELSE LET first == take_node(bytes)
           more == take_nodes(first.rest, count - 1)
       IN  IF first.error # "Ok" \/ more.error # "Ok" THEN Malformed
           ELSE Parsed(<<first.value>> \o more.value, more.rest)
take_node(bytes) ==
  LET Rest(n) == SubSeq(bytes, n + 1, Len(bytes))
      tag == bytes[1]
      Combinator(header, Make(_)) ==
        IF Len(bytes) < header THEN Malformed
        ELSE LET inner == take_nodes(Rest(header), bytes[header])
             IN  IF inner.error # "Ok" THEN Malformed ELSE Parsed(Make(inner.value), inner.rest)
      MakeThreshold(members) == Threshold(bytes[2], members)
  IN  IF Len(bytes) < 2 THEN Malformed
      ELSE CASE tag = 1 -> Parsed(AmountAtMost(bytes[2]), Rest(2))
             [] tag = 2 -> Parsed(Credential(bytes[2]), Rest(2))
             [] tag = 3 -> Combinator(3, MakeThreshold)
             [] tag = 4 -> Combinator(2, And)
             [] tag = 5 -> Combinator(2, Or)
             [] OTHER -> Malformed

\* A slip to guard against: bytes after the policy are ignored.
Trailing_ignored(rest) == FALSE

Trailing(rest) == rest # << >>

decode(bytes) ==
  IF bytes = << >> THEN Malformed
  ELSE IF bytes[1] # ENCODING_VERSION THEN [Malformed EXCEPT !.error = "UnknownVersion"]
  ELSE LET node == take_node(Tail(bytes))
       IN  IF node.error # "Ok" THEN node
           ELSE IF Trailing(node.rest) THEN [Malformed EXCEPT !.error = "TrailingBytes"]
           ELSE node
-----------------------------------------------------------------------------
(* Normalization.                                                          *)

\* Lexicographic order.
Before(s, t) ==
  \/ \E i \in DOMAIN s \cap DOMAIN t : s[i] < t[i] /\ \A j \in 1 .. i - 1 : s[j] = t[j]
  \/ Len(s) < Len(t) /\ s = SubSeq(t, 1, Len(s))

ByEncoding(p, q) == Before(encode(p), encode(q))

\* A slip to guard against: any combinator is spliced into any other.
flatten_any(op, p) == IF IsLeaf(p) THEN <<p>> ELSE p.members

\* Only a combinator of the same kind is spliced into its parent.
flatten_into(op, p) == IF p.op = op THEN p.members ELSE <<p>>

\* A slip to guard against: singletons are collapsed before duplicates are dropped.
collapse_first(p, flat) ==
  IF Len(flat) = 1 THEN flat[1] ELSE [p EXCEPT !.members = SetToSortSeq(ToSet(flat), ByEncoding)]

\* Without duplicates and in canonical order; a single member stands for the combinator.
normalize_combinator(p, flat) ==
  LET unique == SetToSortSeq(ToSet(flat), ByEncoding)
  IN  IF Len(unique) = 1 THEN unique[1] ELSE [p EXCEPT !.members = unique]

RECURSIVE normalize(_)
normalize(p) ==
  LET members == [i \in DOMAIN p.members |-> normalize(p.members[i])]
  IN  CASE IsLeaf(p) -> p
        [] p.op = "Threshold" -> [p EXCEPT !.members = SortSeq(members, ByEncoding)]
        [] OTHER -> normalize_combinator(p,
                      FlattenSeq([i \in DOMAIN members |-> flatten_into(p.op, members[i])]))

\* The hash of the normalized policy's encoding, taken as injective.
policy_id(p) == encode(normalize(p))
-----------------------------------------------------------------------------
(* Evaluation.  A witness holds pairs <<credential id, secret>> in the     *)
(* order they were added, and an amount or NoAmount.                       *)

NoAmount == -1

RECURSIVE CredentialsOf(_), NeedsAmount(_)
\* What collect_requirements finds: the credential ids of all leaves, and whether
\* there is an amount leaf.
CredentialsOf(p) ==
  IF IsLeaf(p) THEN IF p.op = "Credential" THEN {p.id} ELSE {}
  ELSE UNION {CredentialsOf(p.members[i]) : i \in DOMAIN p.members}
NeedsAmount(p) ==
  IF IsLeaf(p) THEN p.op = "AmountAtMost" ELSE \E i \in DOMAIN p.members : NeedsAmount(p.members[i])

HasSecret(w, id) == \E i \in DOMAIN w.secrets : w.secrets[i][1] = id

\* The first secret bound to id.
secret_for(w, id) ==
  LET i == CHOOSE j \in DOMAIN w.secrets :
             w.secrets[j][1] = id /\ \A h \in 1 .. j - 1 : w.secrets[h][1] # id
  IN  w.secrets[i][2]

validate_against(w, p) ==
  /\ \A id \in CredentialsOf(p) : HasSecret(w, id)
  /\ NeedsAmount(p) => w.amount # NoAmount

RECURSIVE eval_node(_, _)
eval_node(p, w) ==
  CASE p.op = "AmountAtMost" -> w.amount # NoAmount /\ w.amount <= p.limit
    [] p.op = "Credential" -> HasSecret(w, p.id) /\ secret_for(w, p.id) = p.id
    [] p.op = "Threshold" ->
         Cardinality({i \in DOMAIN p.members : eval_node(p.members[i], w)}) >= p.k
    [] p.op = "And" -> \A i \in DOMAIN p.members : eval_node(p.members[i], w)
    [] p.op = "Or" -> \E i \in DOMAIN p.members : eval_node(p.members[i], w)

\* The authorization decision, or WitnessMismatch.
evaluate(p, w) ==
  IF ~validate_against(w, p) THEN "WitnessMismatch"
  ELSE IF eval_node(p, w) THEN "authorized" ELSE "denied"
=============================================================================
