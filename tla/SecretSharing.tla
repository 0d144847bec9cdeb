---------------------------- MODULE SecretSharing ----------------------------
(***************************************************************************)
(* Shamir secret sharing (crates/secret-sharing: shamir.rs, share.rs,      *)
(* encoding.rs, field.rs).  Secrets are sequences of digits in base Base   *)
(* (bytes in the code), F is the numbers below the modulus.                *)
(***************************************************************************)
EXTENDS Wire, Field

CONSTANTS
  Base,                 \* 256
  FIELD_ELEMENT_SIZE,   \* digits of an encoded element
  MAX_SHARE_COUNT

\* The indices are nonzero, distinct field elements; every element fits its encoding.
ASSUME SharingAssumption ==
  /\ F \subseteq Nat
  /\ 0 .. MAX_SHARE_COUNT \subseteq F
  /\ \A x \in F : x < Base ^ FIELD_ELEMENT_SIZE

Refusal(error) == [error |-> error, value |-> << >>]
Success(value) == [error |-> "Ok", value |-> value]
-----------------------------------------------------------------------------
(* field.rs *)

Number(digits) == LET Digit(n, d) == n * Base + d IN FoldLeft(Digit, 0, digits)

\* No reduction: a number that is not below the modulus is refused.
element_from_be_bytes(digits) ==
  IF Len(digits) > FIELD_ELEMENT_SIZE \/ Number(digits) \notin F
  THEN Refusal("SecretTooLargeForField") ELSE Success(Number(digits))

element_to_be_bytes(x) ==
  [i \in 1 .. FIELD_ELEMENT_SIZE |-> (x \div Base ^ (FIELD_ELEMENT_SIZE - i)) % Base]

\* What random_element may return for each coefficient (RngFailure apart): rejection
\* sampling leaves every element possible.
random_elements(count) == [1 .. count -> F]

Reciprocal(x) == CHOOSE y \in F : Times(x, y) = One
-----------------------------------------------------------------------------
(* shamir.rs *)

\* Without leading zeros; zero keeps one digit.
Stripped(digits) ==
  LET nonzero == {i \in DOMAIN digits : digits[i] # 0}
      first == CHOOSE i \in nonzero : \A j \in nonzero : i <= j
  IN  IF nonzero = {} THEN <<0>> ELSE SubSeq(digits, first, Len(digits))

canonical_secret_bytes(secret) ==
  IF secret = << >> THEN Refusal("EmptyInput") ELSE Success(Stripped(secret))

SplitError(secret, threshold, count) ==
  IF threshold <= 1 THEN "InvalidThreshold"
  ELSE IF count = 0 \/ count > MAX_SHARE_COUNT THEN "InvalidShareCount"
  ELSE IF threshold > count THEN "ThresholdGreaterThanCount"
  ELSE IF secret = << >> THEN canonical_secret_bytes(secret).error
  ELSE element_from_be_bytes(canonical_secret_bytes(secret).value).error

\* A slip to guard against: one random coefficient too few.
RandomCount_short(threshold) == threshold - 2

\* Coefficients to draw, beside the constant one.
RandomCount(threshold) == threshold - 1

\* Horner evaluation at x, the constant coefficient first.
Evaluate(coefficients, x) ==
  LET Step(c, value) == Plus(Times(value, x), c) IN FoldRight(Step, coefficients, Zero)

\* Share::new; index is never zero here.
NewShare(threshold, count, index, value) ==
  [version |-> 1, threshold |-> threshold, share_count |-> count, index |-> index, value |-> value]

\* split, after its checks, with the coefficients drawn.
Shares(secret, threshold, count, drawn) ==
  LET coefficients == <<element_from_be_bytes(Stripped(secret)).value>> \o drawn
  IN  [i \in 1 .. count |-> NewShare(threshold, count, i, Evaluate(coefficients, i))]

SharesAgree(shares) ==
  \A i \in DOMAIN shares : /\ shares[i].version = shares[1].version
                           /\ shares[i].threshold = shares[1].threshold
                           /\ shares[i].share_count = shares[1].share_count

\* A slip to guard against: each share is compared with the one before it only.
DuplicateIndex_adjacent(shares) == \E i \in 2 .. Len(shares) : shares[i].index = shares[i - 1].index

DuplicateIndex(shares) == \E i, j \in DOMAIN shares : i < j /\ shares[i].index = shares[j].index

ReconstructError(shares) ==
  IF shares = << >> THEN "EmptyInput"
  ELSE IF Len(shares) > MAX_SHARE_COUNT THEN "InvalidShareCount"
  ELSE IF ~SharesAgree(shares) THEN "IncompatibleMetadata"
  ELSE IF \E i \in DOMAIN shares : shares[i].index \notin 1 .. shares[1].share_count
  THEN "InvalidShareIndex"
  ELSE IF DuplicateIndex(shares) THEN "DuplicateShareIndex"
  ELSE IF Len(shares) < shares[1].threshold THEN "InsufficientShares"
  ELSE "Ok"

\* The product of xj / (xj - xi) over the other shares.
Lagrange(used, i) ==
  LET Factor(j) == Times(used[j].index, Reciprocal(Minus(used[j].index, used[i].index)))
      Step(l, j) == IF j = i THEN l ELSE Times(l, Factor(j))
  IN  FoldLeft(Step, One, [j \in DOMAIN used |-> j])

\* The first threshold shares; the others are ignored.
Used(shares) == SubSeq(shares, 1, shares[1].threshold)

reconstruct(shares) ==
  LET used == Used(shares)
      Step(s, i) == Plus(s, Times(used[i].value, Lagrange(used, i)))
  IN  IF ReconstructError(shares) # "Ok" THEN Refusal(ReconstructError(shares))
      ELSE Success(Stripped(element_to_be_bytes(
                     FoldLeft(Step, Zero, [i \in DOMAIN used |-> i]))))
-----------------------------------------------------------------------------
(* encoding.rs *)

encode_share(s) == <<s.version, s.threshold, s.share_count, s.index, s.value>>

ENCODED_SHARE_SIZE == 5

\* A threshold of one, or above the share count, is not refused.
decode_share(bytes) ==
  LET bad == "MalformedEncoding"
      c == ReadFields([Cursor(bytes, bad) EXCEPT !.error = IF Len(bytes) # ENCODED_SHARE_SIZE THEN bad ELSE "Ok"],
                      <<Fixed({1}, bad), Free, Free, Free, Fixed(F, "InvalidFieldElement")>>)
      s == NewShare(c.got[2], c.got[3], c.got[4], c.got[5])
  IN  IF c.error # "Ok" THEN Refusal(c.error)
      ELSE IF s.threshold = 0 \/ s.share_count = 0 \/ s.share_count > MAX_SHARE_COUNT THEN Refusal(bad)
      ELSE IF s.index \notin 1 .. s.share_count THEN Refusal("InvalidShareIndex")
      ELSE Success(s)
=============================================================================
