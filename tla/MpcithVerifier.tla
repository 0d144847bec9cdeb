--------------------------- MODULE MpcithVerifier ---------------------------
(***************************************************************************)
(* The verifier (crates/mpcith/src/verifier.rs).  It shares no code with   *)
(* the prover: each opened view is replayed node by node against the       *)
(* circuit, every recorded operation is compared with the recomputed one,  *)
(* and the output shares are summed and compared with the statement.       *)
(***************************************************************************)
EXTENDS MpcithTypes

VARIABLES
  stage,      \* where verify() is: "start", "open", "replay", "outputs", "done"
  verdict,    \* "none", then Ok(Valid), Ok(Invalid) or an error
  rep,        \* the repetition being verified (position in the proof)
  globals,    \* the reconstructed masks d, e of every multiplication
  who,        \* which opened view is being replayed: 1 or 2
  replayed,   \* the node values of the view being replayed
  cursor,     \* next_secret, next_public, next_op, next_triple, next_opened
  replays     \* the finished replays of this repetition

verifierVars == <<stage, verdict, rep, globals, who, replayed, cursor, replays>>

ZeroCursor == [secret |-> 0, public |-> 0, op |-> 0, triple |-> 0, opened |-> 0]

VerifierInit ==
  /\ stage = "start"
  /\ verdict = "none"
  /\ rep = 1
  /\ globals = << >>
  /\ who = 1
  /\ replayed = << >>
  /\ cursor = ZeroCursor
  /\ replays = << >>

\* What verify may return besides Ok(Valid) and Ok(Invalid).
VerifierErrors ==
  {"InvalidCircuit", "InvalidStatement", "InvalidProtocolState", "InconsistentView",
   "InvalidChallenge", "MissingCommitment", "MissingResponse", "CommitmentMismatch",
   "InvalidOpening", "InvalidOperation", "OutputMismatch"}

Return(v) ==
  /\ stage' = "done"
  /\ verdict' = v
  /\ UNCHANGED <<rep, globals, who, replayed, cursor, replays>>

\* verify: the statement first, then at least one repetition.
verify ==
  /\ stage = "start"
  /\ IF statement_validate(job.statement, job.circuit) # "Ok"
     THEN Return(statement_validate(job.statement, job.circuit))
     ELSE IF proof = << >> THEN Return("InvalidProtocolState")
     ELSE /\ stage' = "open"
          /\ UNCHANGED <<verdict, rep, globals, who, replayed, cursor, replays>>
-----------------------------------------------------------------------------
repetition == proof[rep]

opened == repetition.opened_views

\* An opened view belongs to this repetition and opens its party's commitment.
BindingError(o) ==
  IF o.view.repetition_id # repetition.id THEN "InconsistentView"
  ELSE IF ~verify_commitment(repetition.commitments[o.view.party_id + 1], o.view, o.randomness)
  THEN "CommitmentMismatch"
  ELSE "none"

\* The checks of verify and verify_repetition that precede the replay.
OpenError ==
  LET n == Len(repetition.hidden_broadcasts)
  IN  IF repetition.id # rep - 1 THEN "InconsistentView"
      ELSE IF repetition.challenge \notin Party THEN "InvalidChallenge"
      ELSE IF Len(repetition.commitments) # 3 THEN "MissingCommitment"
      ELSE IF [i \in DOMAIN opened |-> opened[i].view.party_id] # others(repetition.challenge)
      THEN "MissingResponse"
      ELSE IF BindingError(opened[1]) # "none" THEN BindingError(opened[1])
      ELSE IF BindingError(opened[2]) # "none" THEN BindingError(opened[2])
      ELSE IF n % 2 = 1 THEN "InvalidOpening"
      ELSE IF \E i \in 1 .. 2 : Len(opened[i].view.opened_values) < n THEN "InconsistentView"
      ELSE "none"

\* A slip to guard against: the hidden party's broadcasts are left out.
GlobalsOfOpened ==
  [k \in DOMAIN repetition.hidden_broadcasts |->
     Plus(opened[1].view.opened_values[k], opened[2].view.opened_values[k])]

\* d and e of every multiplication: the hidden party's broadcast plus the two opened.
Globals ==
  [k \in DOMAIN repetition.hidden_broadcasts |->
     Plus(Plus(repetition.hidden_broadcasts[k], opened[1].view.opened_values[k]),
          opened[2].view.opened_values[k])]

verify_repetition ==
  /\ stage = "open"
  /\ IF OpenError # "none" THEN Return(OpenError)
     ELSE /\ stage' = "replay"
          /\ globals' = Globals
          /\ UNCHANGED <<verdict, rep, who, replayed, cursor, replays>>
-----------------------------------------------------------------------------
(* replay_party, one node at a time.                                       *)

view == opened[who].view

party == view.party_id

vout == Len(replayed) + 1

vnode == job.circuit.nodes[vout]

wa == replayed[vnode.a]
wb == replayed[vnode.b]

PublicVal(v) == [shared |-> FALSE, v |-> v]

ShareVal(v) == [shared |-> TRUE, v |-> v]

AtReplay(op) ==
  /\ stage = "replay"
  /\ Len(view.input_shares) = job.circuit.num_secret_inputs
  /\ vout <= Len(job.circuit.nodes)
  /\ vnode.op = op

\* The node's value is val and the cursor moves to cur.
Step(val, cur) ==
  /\ replayed' = Append(replayed, val)
  /\ cursor' = cur
  /\ UNCHANGED <<stage, verdict, rep, globals, who, replays>>

\* The next recorded operation must be exactly the expected one.
ExpectError(expected) ==
  IF cursor.op >= Len(view.local_operations) THEN "InconsistentView"
  ELSE IF view.local_operations[cursor.op + 1].kind # expected.kind THEN "InvalidOperation"
  ELSE IF view.local_operations[cursor.op + 1] # expected THEN "InconsistentView"
  ELSE "none"

StepWithOp(expected, val) ==
  IF ExpectError(expected) # "none" THEN Return(ExpectError(expected))
  ELSE Step(val, [cursor EXCEPT !.op = @ + 1])

WrongInputCount ==
  /\ stage = "replay"
  /\ Len(view.input_shares) # job.circuit.num_secret_inputs
  /\ Return("InconsistentView")

ReplaySecretInput ==
  /\ AtReplay("SecretInput")
  /\ Step(ShareVal(view.input_shares[cursor.secret + 1]), [cursor EXCEPT !.secret = @ + 1])

ReplayPublicInput ==
  /\ AtReplay("PublicInput")
  /\ Step(PublicVal(job.statement.public_inputs[cursor.public + 1]),
          [cursor EXCEPT !.public = @ + 1])

ReplayConstant ==
  /\ AtReplay("Constant")
  /\ Step(PublicVal(vnode.value), cursor)

ReplayAddPublic ==
  /\ AtReplay("Add")
  /\ ~wa.shared /\ ~wb.shared
  /\ Step(PublicVal(Plus(wa.v, wb.v)), cursor)

ReplayAddShared ==
  /\ AtReplay("Add")
  /\ wa.shared /\ wb.shared
  /\ StepWithOp(AddOp(vout, Plus(wa.v, wb.v)), ShareVal(Plus(wa.v, wb.v)))

\* Only party 0 absorbs the public value and has an operation to show for it.
ReplayAddMixed ==
  /\ AtReplay("Add")
  /\ wa.shared # wb.shared
  /\ IF party = 0
     THEN StepWithOp(AddOp(vout, Plus(wa.v, wb.v)), ShareVal(Plus(wa.v, wb.v)))
     ELSE Step(IF wa.shared THEN wa ELSE wb, cursor)

ReplayMulPublic ==
  /\ AtReplay("Mul")
  /\ ~wa.shared /\ ~wb.shared
  /\ Step(PublicVal(Times(wa.v, wb.v)), cursor)

ReplayMulMixed ==
  /\ AtReplay("Mul")
  /\ wa.shared # wb.shared
  /\ StepWithOp(MulPublicOp(vout, IF wb.shared THEN wa.v ELSE wb.v, Times(wa.v, wb.v)),
                ShareVal(Times(wa.v, wb.v)))

\* The opened masks must be this party's own shares minus its triple shares.
MaskError ==
  IF cursor.triple >= Len(view.triple_shares) THEN "InconsistentView"
  ELSE IF cursor.opened + 2 > Len(view.opened_values) THEN "MissingResponse"
  ELSE LET triple == view.triple_shares[cursor.triple + 1]
       IN  IF \/ view.opened_values[cursor.opened + 1] # Minus(wa.v, triple.a)
              \/ view.opened_values[cursor.opened + 2] # Minus(wb.v, triple.b)
              \/ cursor.opened + 2 > Len(globals)
           THEN "InvalidOpening"
           ELSE "none"

ReplayMulShared ==
  /\ AtReplay("Mul")
  /\ wa.shared /\ wb.shared
  /\ IF MaskError # "none" THEN Return(MaskError)
     ELSE LET triple == view.triple_shares[cursor.triple + 1]
              d == globals[cursor.opened + 1]
              e == globals[cursor.opened + 2]
              z == beaver_share(party, triple.a, triple.b, triple.c, d, e)
              expected == BeaverMulOp(vout, cursor.triple + 1, d, e, z)
          IN  IF ExpectError(expected) # "none" THEN Return(ExpectError(expected))
              ELSE Step(ShareVal(z), [cursor EXCEPT !.op = @ + 1, !.triple = @ + 1, !.opened = @ + 2])

ReplayNode ==
  \/ ReplaySecretInput \/ ReplayPublicInput \/ ReplayConstant
  \/ ReplayAddPublic \/ ReplayAddShared \/ ReplayAddMixed
  \/ ReplayMulPublic \/ ReplayMulMixed \/ ReplayMulShared

\* A slip to guard against: leftovers of a view are not looked at.
FullyConsumedAnyway == TRUE

\* Nothing of the view is left over.
FullyConsumed ==
  /\ cursor.op = Len(view.local_operations)
  /\ cursor.triple = Len(view.triple_shares)
  /\ cursor.opened = Len(view.opened_values)

\* A slip to guard against: the index of the opened view is not reset.
NextView_no_reset == who + 1

\* The two opened views take turns.
NextView == IF who = 1 THEN 2 ELSE 1

FinishReplay ==
  /\ stage = "replay"
  /\ Len(view.input_shares) = job.circuit.num_secret_inputs
  /\ Len(replayed) = Len(job.circuit.nodes)
  /\ IF ~FullyConsumed THEN Return("InconsistentView")
     ELSE /\ stage' = IF who = 1 THEN "replay" ELSE "outputs"
          /\ who' = NextView
          /\ replays' = Append(replays, replayed)
          /\ replayed' = << >>
          /\ cursor' = ZeroCursor
          /\ UNCHANGED <<verdict, rep, globals>>
-----------------------------------------------------------------------------
\* The outputs that depend on secrets, and what their shares sum to.
SecretOutputs ==
  {k \in DOMAIN job.circuit.outputs : node_depends_on_secrets(job.circuit)[job.circuit.outputs[k]]}

OutputTotal(k) ==
  LET o == job.circuit.outputs[k]
  IN  Plus(Plus(repetition.hidden_output_shares[k], replays[1][o].v), replays[2][o].v)

\* Both replays hold a share of output k, as they must when it depends on secrets.
SharesPresent(k) == \A i \in 1 .. 2 : replays[i][job.circuit.outputs[k]].shared

\* Outputs are checked in order and the first failure decides: for a public output
\* an error unless the hidden party contributed nothing, for a secret-dependent one
\* Ok(false) unless the total is the expected output.
OutputFailures ==
  {k \in DOMAIN job.circuit.outputs :
     IF k \in SecretOutputs
     THEN ~SharesPresent(k) \/ OutputTotal(k) # job.statement.expected_outputs[k]
     ELSE repetition.hidden_output_shares[k] # Zero}

OutputVerdict ==
  IF Len(repetition.hidden_output_shares) # Len(job.circuit.outputs) THEN "OutputMismatch"
  ELSE IF OutputFailures = {} THEN "Valid"
  ELSE LET first == CHOOSE k \in OutputFailures : \A j \in OutputFailures : k <= j
       IN  IF first \notin SecretOutputs THEN "OutputMismatch"
           ELSE IF SharesPresent(first) THEN "Invalid" ELSE "InconsistentView"

\* The repetition verified next.
NextRepetition == rep + 1

\* The first repetition that fails ends the verification.
check_outputs ==
  /\ stage = "outputs"
  /\ IF OutputVerdict = "Valid" /\ rep < Len(proof)
     THEN /\ stage' = "open"
          /\ rep' = NextRepetition
          /\ replays' = << >>
          /\ UNCHANGED <<verdict, globals, who, replayed, cursor>>
     ELSE Return(OutputVerdict)

VerifierNext ==
  \/ verify \/ verify_repetition
  \/ WrongInputCount \/ ReplayNode \/ FinishReplay
  \/ check_outputs
=============================================================================
