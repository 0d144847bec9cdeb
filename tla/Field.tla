-------------------------------- MODULE Field --------------------------------
(***************************************************************************)
(* The prime field every layer computes in.  The code uses ark_ed25519::Fr *)
(* (ark-ff, not part of the repository); all that the protocol layers rely *)
(* on is that it is a commutative ring with 1 # 0, so that is all that is  *)
(* assumed here.  The MC modules instantiate it with the integers modulo a *)
(* small prime.                                                            *)
(*                                                                         *)
(* Values shared among the three virtual parties of MPC-in-the-head are    *)
(* functions from Party to F; Sum3 is what such a sharing reconstructs to. *)
(***************************************************************************)
EXTENDS Integers

CONSTANTS F, Zero, One, Plus(_, _), Times(_, _), Neg(_)

ASSUME FieldClosed ==
  /\ Zero \in F
  /\ One \in F
  /\ \A x, y \in F : Plus(x, y) \in F
  /\ \A x, y \in F : Times(x, y) \in F
  /\ \A x \in F : Neg(x) \in F

ASSUME PlusGroup ==
  /\ \A x, y \in F : Plus(x, y) = Plus(y, x)
  /\ \A x, y, z \in F : Plus(Plus(x, y), z) = Plus(x, Plus(y, z))
  /\ \A x \in F : Plus(x, Zero) = x
  /\ \A x \in F : Plus(x, Neg(x)) = Zero

ASSUME TimesMonoid ==
  /\ \A x, y \in F : Times(x, y) = Times(y, x)
  /\ \A x, y, z \in F : Times(Times(x, y), z) = Times(x, Times(y, z))
  /\ \A x \in F : Times(x, One) = x

ASSUME OneNotZero == One # Zero

ASSUME Distributive ==
  \A x, y, z \in F : Times(x, Plus(y, z)) = Plus(Times(x, y), Times(x, z))

Minus(x, y) == Plus(x, Neg(y))

\* The fixed three-party model (types.rs PARTY_COUNT).
Party == 0 .. 2

Sharing == [Party -> F]

Sum3(s) == Plus(Plus(s[0], s[1]), s[2])

\* A slip to guard against: every party adds the public value.
AbsorbEverywhere(p, share, v) == Plus(share, v)

\* A public value v enters a sharing through party 0's share only, so that the
\* sum grows by v and not by 3v.
Absorb(p, share, v) == IF p = 0 THEN Plus(share, v) ELSE share
=============================================================================
