------------------------- MODULE IdealAuthorization -------------------------
(***************************************************************************)
(* What the SDK promises, without circuits, proofs or encodings: a payment *)
(* is granted under a policy to a witness that meets the policy, and a     *)
(* question about a payment and a policy is answered "Valid" only when     *)
(* that payment was granted under that policy.                             *)
(***************************************************************************)
CONSTANTS
  Claims,          \* [payment, form, witness]; policies are given by their normal forms
  Meets(_)         \* the claim's witness meets its policy for its payment

VARIABLES
  claim,           \* the claim being considered, << >> once it is closed
  granted,         \* pairs <<payment, form>>
  answer           \* the last answer, [payment, form, verdict], or << >>

Init == claim \in Claims /\ granted = {} /\ answer = << >>

Grant ==
  /\ claim # << >> /\ Meets(claim)
  /\ granted' = granted \cup {<<claim.payment, claim.form>>}
  /\ UNCHANGED <<claim, answer>>

Close == claim' = << >> /\ UNCHANGED <<granted, answer>>

\* Any verdict may be given, but "Valid" only for what was granted.
Answer ==
  /\ answer' # << >>
  /\ answer'.verdict = "Valid" => <<answer'.payment, answer'.form>> \in granted
  /\ UNCHANGED <<claim, granted>>

Next == Grant \/ Close \/ Answer

Spec == Init /\ [][Next]_<<claim, granted, answer>>
=============================================================================
