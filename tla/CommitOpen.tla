----------------------------- MODULE CommitOpen -----------------------------
(***************************************************************************)
(* The order a commit-challenge-open protocol owes its soundness to: all   *)
(* commitments are made before the first challenge is known, all           *)
(* challenges before the first opening, nothing is taken back, and each    *)
(* opening answers its own commitment and its own challenge.               *)
(***************************************************************************)
EXTENDS Naturals, Sequences

VARIABLES
  count,       \* how many commitments there will be
  committed,   \* the commitments so far
  asked,       \* the challenges so far
  opened       \* the openings so far: pairs of commitment and challenge

vars == <<count, committed, asked, opened>>

\* s with one more element.
Longer(s, t) == Len(t) = Len(s) + 1 /\ SubSeq(t, 1, Len(s)) = s

Init == committed = << >> /\ asked = << >> /\ opened = << >>

Commit ==
  /\ asked = << >>
  /\ Longer(committed, committed')
  /\ Len(committed') <= count
  /\ UNCHANGED <<count, asked, opened>>

Ask ==
  /\ Len(committed) = count
  /\ Longer(asked, asked')
  /\ Len(asked') <= count
  /\ UNCHANGED <<count, committed, opened>>

Open ==
  /\ Len(asked) = count
  /\ Len(opened) < count
  /\ opened' = Append(opened, <<committed[Len(opened) + 1], asked[Len(opened) + 1]>>)
  /\ UNCHANGED <<count, committed, asked>>

\* What is complete leaves, and may be changed on its way.
Leave ==
  /\ Len(opened) = count
  /\ UNCHANGED <<count, committed, asked>>

Next == Commit \/ Ask \/ Open \/ Leave

Spec == Init /\ [][Next]_vars
=============================================================================
