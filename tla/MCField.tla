------------------------------- MODULE MCField -------------------------------
(***************************************************************************)
(* The integers modulo a small prime P, as values for the constants of     *)
(* Field.                                                                  *)
(***************************************************************************)
EXTENDS Integers

CONSTANT P

ASSUME PIsModulus == P \in Nat /\ P > 1

ModF == 0 .. P - 1
ModPlus(x, y) == (x + y) % P
ModTimes(x, y) == (x * y) % P
ModNeg(x) == (P - x) % P
=============================================================================
