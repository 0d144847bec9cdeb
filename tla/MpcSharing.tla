----------------------------- MODULE MpcSharing -----------------------------
(***************************************************************************)
(* Additive sharing among any number of parties (crates/mpc: sharing.rs,   *)
(* arithmetic.rs).  A shared value is the sequence of its shares, in party *)
(* order; it does not say which execution it belongs to.                   *)
(***************************************************************************)
EXTENDS Field, Sequences

CONSTANT Coins   \* the field elements the RNG may return

ASSUME CoinsAssumption == Coins \subseteq F

\* The sum of the first i shares, for every i.
PartialSums(shares) ==
  LET upto[i \in 0 .. Len(shares)] == IF i = 0 THEN Zero ELSE Plus(upto[i - 1], shares[i])
  IN  upto

sum(shares) == PartialSums(shares)[Len(shares)]

\* share_input: all shares but the last are random, the last makes the sum come out.
share_input(party_count, secret) ==
  {Append(r, Minus(secret, sum(r))) : r \in [1 .. party_count - 1 -> Coins]}

add_public(x, v) == [x EXCEPT ![1] = Plus(@, v)]

add_secret(x, y) == [i \in DOMAIN x |-> Plus(x[i], y[i])]

mul_public(x, v) == [i \in DOMAIN x |-> Times(x[i], v)]

\* A slip to guard against: every party adds d*e.
mul_secret_everywhere(x, y, t) ==
  LET d == sum([i \in DOMAIN x |-> Minus(x[i], t.a[i])])
      e == sum([i \in DOMAIN x |-> Minus(y[i], t.b[i])])
  IN  [i \in DOMAIN x |-> Plus(Plus(Plus(t.c[i], Times(d, t.b[i])), Times(e, t.a[i])), Times(d, e))]

\* The Beaver product of x and y with triple t; d*e lands with the first party.
mul_secret(x, y, t) ==
  LET d == sum([i \in DOMAIN x |-> Minus(x[i], t.a[i])])
      e == sum([i \in DOMAIN x |-> Minus(y[i], t.b[i])])
      z == [i \in DOMAIN x |-> Plus(Plus(t.c[i], Times(d, t.b[i])), Times(e, t.a[i]))]
  IN  add_public(z, Times(d, e))

\* next_triple: two random values and their product, each shared.
Triples(party_count) ==
  UNION {[a : share_input(party_count, a), b : share_input(party_count, b),
          c : share_input(party_count, Times(a, b))] : a, b \in Coins}
=============================================================================
