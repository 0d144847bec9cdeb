------------------------ MODULE MpcithVerifierProofs ------------------------
(***************************************************************************)
(* What the verifier of MPC-in-the-head does with a proof, whoever made it *)
(* and whatever has become of it: it replays a view in lock-step with the  *)
(* evaluation that the view records, and a repetition that does not open,  *)
(* or misstates what the hidden party did, is never accepted.              *)
(***************************************************************************)
EXTENDS MpcithVerifier, MpcithReplayTheorems

Cursor == [secret : Nat, public : Nat, op : Nat, triple : Nat, opened : Nat]

\* The cursor stands where the records of node n + 1 of evaluation w are.
Cursors(j, p, w, n, cur) ==
  /\ cur \in Cursor
  /\ cur.secret + 1 = InputPosition(j, "SecretInput", n + 1)
  /\ cur.public + 1 = InputPosition(j, "PublicInput", n + 1)
  /\ cur.op + 1 = OpPosition(j, p, w, n + 1)
  /\ cur.triple + 1 = TriplePosition(j, w, n + 1)
  /\ cur.opened = 2 * cur.triple

\* h is the sequence g as far as position m.
AgreesUpTo(g, h, m) == \A k \in 1 .. m : k <= Len(h) /\ h[k] = g[k]

\* The view being replayed records evaluation w with masks g, and the replay has
\* followed it so far.
Replaying(w, g) ==
  /\ stage = "replay"
  /\ Checked(job)
  /\ view \in PartyView
  /\ Len(view.input_shares) = job.circuit.num_secret_inputs
  /\ ViewReplays(job, view, g, w)
  /\ Len(w) = Len(job.circuit.nodes)
  /\ replayed \in Seq(LocalVal) /\ Extends(replayed, w)
  /\ Cursors(job, party, w, Len(replayed), cursor)
  /\ g \in Seq(F) /\ globals \in Seq(F)
  /\ AgreesUpTo(g, globals, cursor.opened)

\* The replay takes the next node of w.
Advances(w, g) ==
  \E cur \in Cursor :
    /\ Step(w[vout], cur)
    /\ cur.secret = IF vnode.op = "SecretInput" THEN cursor.secret + 1 ELSE cursor.secret
    /\ cur.public = IF vnode.op = "PublicInput" THEN cursor.public + 1 ELSE cursor.public
    /\ cur.op = IF Recorded(job, party, w, vout) THEN cursor.op + 1 ELSE cursor.op
    /\ cur.triple = IF Multiplied(job, w, vout) THEN cursor.triple + 1 ELSE cursor.triple
    /\ cur.opened = 2 * cur.triple
    /\ AgreesUpTo(g, globals, cur.opened)

\* The verifier returns an error, because the masks are not those of the evaluation.
Refuses(g) == \E e \in VerifierErrors : Return(e) /\ ~Extends(g, globals)

\* Where the replay stands.
LEMMA ReplayFacts ==
  ASSUME NEW w, NEW g, Replaying(w, g), vout <= Len(job.circuit.nodes)
  PROVE  /\ vout \in DOMAIN job.circuit.nodes /\ vout \in DOMAIN w
         /\ vout \in 1 .. Len(job.circuit.nodes) /\ vout \in Nat \ {0}
         /\ nodeOf(job, vout) = vnode
         /\ vnode.op \in {"SecretInput", "PublicInput", "Constant", "Add", "Mul"}
         /\ w \in Seq(LocalVal) /\ w[vout] \in LocalVal
         /\ NodeReplays(job, view, g, w, vout)
         /\ IsGate(vnode) => /\ wa = w[vnode.a] /\ wb = w[vnode.b]
                             /\ wa \in LocalVal /\ wb \in LocalVal
<1>1. job.circuit.nodes \in Seq(Node)
  BY DEF Replaying, Checked, Circuit
<1>2. /\ replayed \in Seq(LocalVal) /\ Extends(replayed, w) /\ w \in Seq(LocalVal)
      /\ Len(w) = Len(job.circuit.nodes)
  BY DEF Replaying, ViewReplays
<1>3. vout \in DOMAIN job.circuit.nodes /\ vout \in DOMAIN w /\ vout \in Nat \ {0}
      /\ vout \in 1 .. Len(job.circuit.nodes)
  BY <1>1, <1>2 DEF vout
<1>4. nodeOf(job, vout) = vnode /\ vnode \in Node
  BY <1>1, <1>3 DEF nodeOf, vnode
<1>5. vnode.op \in {"SecretInput", "PublicInput", "Constant", "Add", "Mul"}
  BY <1>4 DEF Node
<1>6. NodeReplays(job, view, g, w, vout)
  BY <1>3 DEF Replaying, ViewReplays
<1>7. w[vout] \in LocalVal
  BY <1>2, <1>3
<1>8. ASSUME IsGate(vnode)
      PROVE  wa = w[vnode.a] /\ wb = w[vnode.b] /\ wa \in LocalVal /\ wb \in LocalVal
  <2>1. /\ vnode.a \in DOMAIN job.circuit.nodes /\ vnode.a < vout
        /\ vnode.b \in DOMAIN job.circuit.nodes /\ vnode.b < vout
    BY <1>3, <1>8, OperandsBefore DEF Replaying, Checked, vnode
  <2>2. vnode.a \in 1 .. Len(replayed) /\ vnode.b \in 1 .. Len(replayed)
    BY <1>1, <1>2, <2>1 DEF vout
  <2> QED BY <1>2, <2>2 DEF Extends, wa, wb
<1> QED BY <1>2, <1>3, <1>4, <1>5, <1>6, <1>7, <1>8

\* The cursor and the positions it points to.
LEMMA CursorFacts ==
  ASSUME NEW w, NEW g, Replaying(w, g)
  PROVE  /\ cursor \in Cursor
         /\ cursor.secret \in Nat /\ cursor.public \in Nat /\ cursor.op \in Nat
         /\ cursor.triple \in Nat /\ cursor.opened \in Nat
         /\ cursor.secret + 1 = InputPosition(job, "SecretInput", vout)
         /\ cursor.public + 1 = InputPosition(job, "PublicInput", vout)
         /\ cursor.op + 1 = OpPosition(job, party, w, vout)
         /\ cursor.triple + 1 = TriplePosition(job, w, vout)
         /\ cursor.opened = 2 * cursor.triple
         /\ AgreesUpTo(g, globals, 2 * cursor.triple)
<1>1. Cursors(job, party, w, Len(replayed), cursor) /\ AgreesUpTo(g, globals, cursor.opened)
  BY DEF Replaying
<1> QED BY <1>1 DEF Cursors, vout, Cursor

\* Inputs and constants.
LEMMA ReplayLeaves ==
  ASSUME NEW w, NEW g, Replaying(w, g), ReplaySecretInput \/ ReplayPublicInput \/ ReplayConstant
  PROVE  Advances(w, g)
<1>1. /\ vout <= Len(job.circuit.nodes)
      /\ vnode.op \in {"SecretInput", "PublicInput", "Constant"}
  BY DEF ReplaySecretInput, ReplayPublicInput, ReplayConstant, AtReplay
<1>2. LeafReplays(job, view, w, vout) /\ nodeOf(job, vout) = vnode
  BY <1>1, ReplayFacts DEF NodeReplays
<1>3. ~Recorded(job, party, w, vout) /\ ~Multiplied(job, w, vout)
  BY <1>1, <1>2 DEF Recorded, Multiplied, IsGate
<1>4. CASE ReplaySecretInput
  <2> DEFINE cur == [cursor EXCEPT !.secret = @ + 1]
  <2>1. vnode.op = "SecretInput"
    BY <1>4 DEF ReplaySecretInput, AtReplay
  <2>2. w[vout] = ShareVal(view.input_shares[cursor.secret + 1])
    BY <1>2, <2>1, CursorFacts DEF LeafReplays, ShareVal
  <2>3. Step(w[vout], cur)
    BY <1>4, <2>2 DEF ReplaySecretInput
  <2>4. /\ cur \in Cursor /\ cur.secret = cursor.secret + 1 /\ cur.public = cursor.public
        /\ cur.op = cursor.op /\ cur.triple = cursor.triple /\ cur.opened = cursor.opened
    BY CursorFacts DEF Cursor
  <2> HIDE DEF cur
  <2> QED BY <1>3, <2>1, <2>3, <2>4, CursorFacts DEF Advances
<1>5. CASE ReplayPublicInput
  <2> DEFINE cur == [cursor EXCEPT !.public = @ + 1]
  <2>1. vnode.op = "PublicInput"
    BY <1>5 DEF ReplayPublicInput, AtReplay
  <2>2. w[vout] = PublicVal(job.statement.public_inputs[cursor.public + 1])
    BY <1>2, <2>1, CursorFacts DEF LeafReplays, PublicVal
  <2>3. Step(w[vout], cur)
    BY <1>5, <2>2 DEF ReplayPublicInput
  <2>4. /\ cur \in Cursor /\ cur.secret = cursor.secret /\ cur.public = cursor.public + 1
        /\ cur.op = cursor.op /\ cur.triple = cursor.triple /\ cur.opened = cursor.opened
    BY CursorFacts DEF Cursor
  <2> HIDE DEF cur
  <2> QED BY <1>3, <2>1, <2>3, <2>4, CursorFacts DEF Advances
<1>6. CASE ReplayConstant
  <2>1. vnode.op = "Constant"
    BY <1>6 DEF ReplayConstant, AtReplay
  <2>2. w[vout] = PublicVal(vnode.value)
    BY <1>2, <2>1 DEF LeafReplays, PublicVal
  <2>3. Step(w[vout], cursor)
    BY <1>6, <2>2 DEF ReplayConstant
  <2> QED BY <1>3, <2>1, <2>3, CursorFacts DEF Advances
<1> QED BY <1>4, <1>5, <1>6

\* A gate for which the party recorded nothing.
LEMMA ReplaySilentGate ==
  ASSUME NEW w, NEW g, Replaying(w, g), AtReplay("Add") \/ AtReplay("Mul"),
         ~Recorded(job, party, w, vout), Step(w[vout], cursor)
  PROVE  Advances(w, g)
<1>1. vnode.op \in {"Add", "Mul"} /\ vout <= Len(job.circuit.nodes)
  BY DEF AtReplay
<1>2. ~Multiplied(job, w, vout)
  <2>1. nodeOf(job, vout) = vnode
    BY <1>1, ReplayFacts
  <2> QED BY <2>1 DEF Multiplied, Recorded, IsGate
<1> QED BY <1>1, <1>2, CursorFacts DEF Advances

\* The next recorded operation is the expected one.
LEMMA NoExpectError ==
  ASSUME NEW w, NEW g, Replaying(w, g), vout <= Len(job.circuit.nodes),
         Recorded(job, party, w, vout)
  PROVE  /\ cursor.op < Len(view.local_operations)
         /\ view.local_operations[cursor.op + 1] = ExpectedOp(job, g, w, vout)
         /\ ExpectError(ExpectedOp(job, g, w, vout)) = "none"
<1>1. RecordReplays(job, view, g, w, vout)
  BY ReplayFacts DEF NodeReplays
<1>2. cursor.op + 1 = OpPosition(job, view.party_id, w, vout) /\ cursor.op \in Nat
  BY CursorFacts DEF party
<1>3. Len(view.local_operations) \in Nat
  BY ViewTypes DEF Replaying
<1>4. /\ cursor.op + 1 <= Len(view.local_operations)
      /\ view.local_operations[cursor.op + 1] = ExpectedOp(job, g, w, vout)
  BY <1>1, <1>2 DEF RecordReplays, party
<1>5. cursor.op < Len(view.local_operations) /\ ~(cursor.op >= Len(view.local_operations))
  BY <1>2, <1>3, <1>4
<1> QED BY <1>4, <1>5 DEF ExpectError

\* A gate with an operation but no triple.
LEMMA ReplayRecordedGate ==
  ASSUME NEW w, NEW g, Replaying(w, g), AtReplay("Add") \/ AtReplay("Mul"),
         Recorded(job, party, w, vout), ~Multiplied(job, w, vout),
         StepWithOp(ExpectedOp(job, g, w, vout), w[vout])
  PROVE  Advances(w, g)
<1>1. vnode.op \in {"Add", "Mul"} /\ vout <= Len(job.circuit.nodes)
  BY DEF AtReplay
<1> DEFINE cur == [cursor EXCEPT !.op = @ + 1]
<1>2. Step(w[vout], cur)
  BY <1>1, NoExpectError DEF StepWithOp
<1>3. /\ cur \in Cursor /\ cur.secret = cursor.secret /\ cur.public = cursor.public
      /\ cur.op = cursor.op + 1 /\ cur.triple = cursor.triple /\ cur.opened = cursor.opened
  BY CursorFacts DEF Cursor
<1> HIDE DEF cur
<1> QED BY <1>1, <1>2, <1>3, CursorFacts DEF Advances

\* What the records of a gate are, from the operands the replay has at hand.
LEMMA ReplayGate ==
  ASSUME NEW w, NEW g, Replaying(w, g), AtReplay("Add") \/ AtReplay("Mul")
  PROVE  /\ vout <= Len(job.circuit.nodes) /\ nodeOf(job, vout) = vnode
         /\ wa.shared \in BOOLEAN /\ wb.shared \in BOOLEAN
         /\ wa = [shared |-> wa.shared, v |-> wa.v] /\ wb = [shared |-> wb.shared, v |-> wb.v]
         /\ w[vnode.a] = wa /\ w[vnode.b] = wb
         /\ Recorded(job, party, w, vout) <=>
              /\ wa.shared \/ wb.shared
              /\ vnode.op = "Add" /\ party # 0 => wa.shared /\ wb.shared
         /\ Multiplied(job, w, vout) <=> vnode.op = "Mul" /\ wa.shared /\ wb.shared
         /\ vnode.op = "Add" => w[vout] = AddVal(party, wa, wb)
         /\ vnode.op = "Mul" =>
              IF wa.shared /\ wb.shared THEN BeaverReplays(job, view, g, w, vout)
              ELSE w[vout] = MulVal(wa, wb)
<1>1. vnode.op \in {"Add", "Mul"} /\ vout <= Len(job.circuit.nodes) /\ IsGate(vnode)
  BY DEF AtReplay, IsGate
<1>2. /\ nodeOf(job, vout) = vnode /\ wa = w[vnode.a] /\ wb = w[vnode.b]
      /\ wa \in LocalVal /\ wb \in LocalVal /\ GateReplays(job, view, g, w, vout)
  BY <1>1, ReplayFacts DEF NodeReplays
<1>3. /\ wa.shared \in BOOLEAN /\ wb.shared \in BOOLEAN
      /\ wa = [shared |-> wa.shared, v |-> wa.v] /\ wb = [shared |-> wb.shared, v |-> wb.v]
  BY <1>2 DEF LocalVal
<1>4. Recorded(job, party, w, vout) <=>
        /\ wa.shared \/ wb.shared
        /\ vnode.op = "Add" /\ party # 0 => wa.shared /\ wb.shared
  BY <1>1, <1>2 DEF Recorded
<1>5. Multiplied(job, w, vout) <=> vnode.op = "Mul" /\ wa.shared /\ wb.shared
  BY <1>2 DEF Multiplied
<1>6. vnode.op = "Add" => w[vout] = AddVal(party, wa, wb)
  BY <1>2 DEF GateReplays, party
<1>7. vnode.op = "Mul" =>
        IF wa.shared /\ wb.shared THEN BeaverReplays(job, view, g, w, vout)
        ELSE w[vout] = MulVal(wa, wb)
  BY <1>2, <1>5 DEF GateReplays
<1> QED BY <1>1, <1>2, <1>3, <1>4, <1>5, <1>6, <1>7

\* Additions.
LEMMA ReplayAdds ==
  ASSUME NEW w, NEW g, Replaying(w, g), ReplayAddPublic \/ ReplayAddShared \/ ReplayAddMixed
  PROVE  Advances(w, g)
<1>1. AtReplay("Add") /\ vnode.op = "Add"
  BY DEF ReplayAddPublic, ReplayAddShared, ReplayAddMixed, AtReplay
<1>2. /\ nodeOf(job, vout) = vnode
      /\ wa.shared \in BOOLEAN /\ wb.shared \in BOOLEAN
      /\ wa = [shared |-> wa.shared, v |-> wa.v] /\ wb = [shared |-> wb.shared, v |-> wb.v]
      /\ Recorded(job, party, w, vout) <=>
           /\ wa.shared \/ wb.shared
           /\ party # 0 => wa.shared /\ wb.shared
      /\ ~Multiplied(job, w, vout)
      /\ w[vout] = AddVal(party, wa, wb)
  BY <1>1, ReplayGate
<1>3. ExpectedOp(job, g, w, vout) = AddOp(vout, w[vout].v)
  BY <1>1, <1>2 DEF ExpectedOp
<1>4. CASE ReplayAddPublic
  <2>1. ~wa.shared /\ ~wb.shared /\ Step(PublicVal(Plus(wa.v, wb.v)), cursor)
    BY <1>4 DEF ReplayAddPublic
  <2>2. w[vout] = PublicVal(Plus(wa.v, wb.v))
    BY <1>2, <2>1 DEF AddVal, PublicVal
  <2> QED BY <1>1, <1>2, <2>1, <2>2, ReplaySilentGate
<1>5. CASE ReplayAddShared
  <2>1. /\ wa.shared /\ wb.shared
        /\ StepWithOp(AddOp(vout, Plus(wa.v, wb.v)), ShareVal(Plus(wa.v, wb.v)))
    BY <1>5 DEF ReplayAddShared
  <2>2. w[vout] = ShareVal(Plus(wa.v, wb.v)) /\ w[vout].v = Plus(wa.v, wb.v)
    <3>1. (wa.shared \/ wb.shared) = TRUE /\ wa.shared = wb.shared
      BY <1>2, <2>1
    <3>2. w[vout] = [shared |-> TRUE, v |-> Plus(wa.v, wb.v)]
      BY <1>2, <3>1 DEF AddVal
    <3> QED BY <3>2 DEF ShareVal
  <2> QED BY <1>1, <1>2, <1>3, <2>1, <2>2, ReplayRecordedGate
<1>6. CASE ReplayAddMixed
  <2>1. wa.shared # wb.shared
    BY <1>6 DEF ReplayAddMixed
  <2>2. CASE party = 0
    <3>1. StepWithOp(AddOp(vout, Plus(wa.v, wb.v)), ShareVal(Plus(wa.v, wb.v)))
      BY <1>6, <2>2 DEF ReplayAddMixed
    <3>2. w[vout] = ShareVal(Plus(wa.v, wb.v)) /\ w[vout].v = Plus(wa.v, wb.v)
      <4>1. (wa.shared \/ wb.shared) = TRUE
        BY <1>2, <2>1
      <4>2. w[vout] = [shared |-> TRUE, v |-> Plus(wa.v, wb.v)]
        BY <1>2, <2>2, <4>1 DEF AddVal
      <4> QED BY <4>2 DEF ShareVal
    <3> QED BY <1>1, <1>2, <1>3, <2>1, <2>2, <3>1, <3>2, ReplayRecordedGate
  <2>3. CASE party # 0
    <3>1. Step(IF wa.shared THEN wa ELSE wb, cursor)
      BY <1>6, <2>3 DEF ReplayAddMixed
    <3>2. w[vout] = IF wa.shared THEN wa ELSE wb
      BY <1>2, <2>1, <2>3 DEF AddVal
    <3>3. ~Recorded(job, party, w, vout)
      BY <1>2, <2>1, <2>3
    <3> QED BY <1>1, <3>1, <3>2, <3>3, ReplaySilentGate
  <2> QED BY <2>2, <2>3
<1> QED BY <1>4, <1>5, <1>6

\* Multiplications that use no triple.
LEMMA ReplayPlainMuls ==
  ASSUME NEW w, NEW g, Replaying(w, g), ReplayMulPublic \/ ReplayMulMixed
  PROVE  Advances(w, g)
<1>1. AtReplay("Mul") /\ vnode.op = "Mul"
  BY DEF ReplayMulPublic, ReplayMulMixed, AtReplay
<1> wa.shared \in BOOLEAN /\ wb.shared \in BOOLEAN
  BY <1>1, ReplayGate
<1> ~(wa.shared /\ wb.shared)
  BY DEF ReplayMulPublic, ReplayMulMixed
<1>2. /\ nodeOf(job, vout) = vnode
      /\ w[vnode.a] = wa /\ w[vnode.b] = wb
      /\ Recorded(job, party, w, vout) <=> wa.shared \/ wb.shared
      /\ ~Multiplied(job, w, vout)
      /\ w[vout] = MulVal(wa, wb)
  BY <1>1, ReplayGate
<1>3. CASE ReplayMulPublic
  <2>1. ~wa.shared /\ ~wb.shared /\ Step(PublicVal(Times(wa.v, wb.v)), cursor)
    BY <1>3 DEF ReplayMulPublic
  <2>2. w[vout] = PublicVal(Times(wa.v, wb.v))
    BY <1>2, <2>1 DEF MulVal, PublicVal
  <2> QED BY <1>1, <1>2, <2>1, <2>2, ReplaySilentGate
<1>4. CASE ReplayMulMixed
  <2>1. /\ wa.shared # wb.shared
        /\ StepWithOp(MulPublicOp(vout, IF wb.shared THEN wa.v ELSE wb.v, Times(wa.v, wb.v)),
                      ShareVal(Times(wa.v, wb.v)))
    BY <1>4 DEF ReplayMulMixed
  <2>2. w[vout] = ShareVal(Times(wa.v, wb.v)) /\ w[vout].v = Times(wa.v, wb.v)
    <3>1. (wa.shared \/ wb.shared) = TRUE
      BY <2>1
    <3>2. w[vout] = [shared |-> TRUE, v |-> Times(wa.v, wb.v)]
      BY <1>2, <3>1 DEF MulVal
    <3> QED BY <3>2 DEF ShareVal
  <2>3. ExpectedOp(job, g, w, vout)
          = MulPublicOp(vout, IF wb.shared THEN wa.v ELSE wb.v, Times(wa.v, wb.v))
    BY <1>1, <1>2, <2>2 DEF ExpectedOp
  <2> QED BY <1>1, <1>2, <2>1, <2>2, <2>3, ReplayRecordedGate
<1> QED BY <1>3, <1>4

\* A Beaver multiplication: the masks agree and the replay goes on, or they do not and
\* the recorded operation gives them away.
LEMMA ReplayBeaver ==
  ASSUME NEW w, NEW g, Replaying(w, g), ReplayMulShared
  PROVE  Advances(w, g) \/ Refuses(g)
<1> DEFINE t == cursor.triple + 1
           triple == view.triple_shares[t]
           d == globals[2 * t - 1]
           e == globals[2 * t]
           z == beaver_share(party, triple.a, triple.b, triple.c, d, e)
           expected == BeaverMulOp(vout, t, d, e, z)
           cur == [cursor EXCEPT !.op = @ + 1, !.triple = @ + 1, !.opened = @ + 2]
<1>1. AtReplay("Mul") /\ vnode.op = "Mul" /\ wa.shared /\ wb.shared
  BY DEF ReplayMulShared, AtReplay
<1>2. /\ vout <= Len(job.circuit.nodes) /\ nodeOf(job, vout) = vnode
      /\ w[vnode.a] = wa /\ w[vnode.b] = wb
      /\ Recorded(job, party, w, vout) /\ Multiplied(job, w, vout)
      /\ BeaverReplays(job, view, g, w, vout)
  BY <1>1, ReplayGate
<1>3. /\ cursor \in Cursor /\ cursor.triple \in Nat /\ cursor.opened = 2 * cursor.triple
      /\ cursor.op \in Nat /\ t = TriplePosition(job, w, vout)
      /\ AgreesUpTo(g, globals, 2 * cursor.triple)
  BY CursorFacts
<1>4. /\ t \in Nat \ {0} /\ cursor.opened + 1 = 2 * t - 1 /\ cursor.opened + 2 = 2 * t
      /\ 2 * t = 2 * cursor.triple + 2
  BY <1>3
<1>5. /\ t <= Len(view.triple_shares) /\ 2 * t <= Len(view.opened_values) /\ 2 * t <= Len(g)
      /\ view.opened_values[2 * t - 1] = Minus(wa.v, triple.a)
      /\ view.opened_values[2 * t] = Minus(wb.v, triple.b)
      /\ w[vout] = [shared |-> TRUE,
                    v |-> beaver_share(party, triple.a, triple.b, triple.c,
                                       g[2 * t - 1], g[2 * t])]
  <2> HIDE DEF t
  <2> QED BY <1>2, <1>3 DEF BeaverReplays, party, triple
<1>6. /\ Len(view.triple_shares) \in Nat /\ Len(view.opened_values) \in Nat
      /\ g \in Seq(F) /\ globals \in Seq(F)
      /\ Len(g) \in Nat /\ Len(globals) \in Nat
  BY ViewTypes DEF Replaying
<1>7. ~(cursor.triple >= Len(view.triple_shares)) /\ ~(2 * t > Len(view.opened_values))
  <2> DEFINE ct == cursor.triple
             lt == Len(view.triple_shares)
             lo == Len(view.opened_values)
  <2>1. ct \in Nat /\ lt \in Nat /\ lo \in Nat /\ t = ct + 1 /\ t <= lt /\ 2 * t <= lo
    BY <1>3, <1>5, <1>6
  <2> HIDE DEF ct, lt, lo, t
  <2>2. ~(ct >= lt) /\ ~(2 * t > lo)
    BY <2>1
  <2> QED BY <2>2 DEF ct, lt, lo
<1>8. MaskError = IF 2 * t > Len(globals) THEN "InvalidOpening" ELSE "none"
  <2> HIDE DEF triple
  <2>1. MaskError = IF 2 * t > Len(globals) THEN "InvalidOpening" ELSE "none"
    BY <1>4, <1>5, <1>7 DEF MaskError, triple
  <2> QED BY <2>1
<1>9. CASE 2 * t > Len(globals)
  <2>1. Return("InvalidOpening")
    BY <1>8, <1>9 DEF ReplayMulShared
  <2>2. ~Extends(g, globals)
    BY <1>4, <1>5, <1>6, <1>9 DEF Extends
  <2>3. "InvalidOpening" \in VerifierErrors
    BY DEF VerifierErrors
  <2> QED BY <2>1, <2>2, <2>3 DEF Refuses
<1>10. CASE ~(2 * t > Len(globals))
  <2>1. IF ExpectError(expected) # "none" THEN Return(ExpectError(expected))
        ELSE Step(ShareVal(z), cur)
    BY <1>4, <1>8, <1>10 DEF ReplayMulShared
  <2>2. 2 * t <= Len(globals) /\ 2 * t - 1 \in 1 .. Len(g) /\ 2 * t \in 1 .. Len(g)
    <3> DEFINE lg == Len(g)
               lh == Len(globals)
    <3>1. lg \in Nat /\ lh \in Nat /\ t \in Nat \ {0} /\ 2 * t <= lg /\ ~(2 * t > lh)
      BY <1>4, <1>5, <1>6, <1>10
    <3> HIDE DEF lg, lh, t
    <3>2. 2 * t <= lh /\ 2 * t - 1 \in 1 .. lg /\ 2 * t \in 1 .. lg
      BY <3>1
    <3> QED BY <3>2 DEF lg, lh
  <2>3. /\ cursor.op < Len(view.local_operations)
        /\ view.local_operations[cursor.op + 1] = ExpectedOp(job, g, w, vout)
        /\ ExpectError(ExpectedOp(job, g, w, vout)) = "none"
    BY <1>2, NoExpectError
  <2>4. ExpectedOp(job, g, w, vout)
          = BeaverMulOp(vout, t, g[2 * t - 1], g[2 * t], w[vout].v)
    <3> HIDE DEF t
    <3> QED BY <1>1, <1>2, <1>3 DEF ExpectedOp
  <2>5. CASE d = g[2 * t - 1] /\ e = g[2 * t]
    <3>1. w[vout] = ShareVal(z) /\ w[vout].v = z
      BY <1>5, <2>5 DEF ShareVal
    <3>2. expected = ExpectedOp(job, g, w, vout)
      BY <2>4, <2>5, <3>1
    <3>3. Step(w[vout], cur)
      BY <2>1, <2>3, <3>1, <3>2
    <3>4. /\ cur \in Cursor /\ cur.secret = cursor.secret /\ cur.public = cursor.public
          /\ cur.op = cursor.op + 1 /\ cur.triple = cursor.triple + 1
          /\ cur.opened = cursor.opened + 2
      <4>1. /\ DOMAIN cursor = {"secret", "public", "op", "triple", "opened"}
            /\ cursor.secret \in Nat /\ cursor.public \in Nat /\ cursor.opened \in Nat
        BY <1>3 DEF Cursor
      <4>2. /\ DOMAIN cur = {"secret", "public", "op", "triple", "opened"}
            /\ cur.secret = cursor.secret /\ cur.public = cursor.public
            /\ cur.op = cursor.op + 1 /\ cur.triple = cursor.triple + 1
            /\ cur.opened = cursor.opened + 2
        BY <4>1
      <4>3. cur = [secret |-> cur.secret, public |-> cur.public, op |-> cur.op,
                   triple |-> cur.triple, opened |-> cur.opened]
        <5>1. cur = [x \in {"secret", "public", "op", "triple", "opened"} |-> cur[x]]
          BY <4>1
        <5> HIDE DEF cur
        <5> QED BY <5>1, <4>2
      <4> HIDE DEF cur
      <4> QED BY <1>3, <4>1, <4>2, <4>3 DEF Cursor
    <3>5. AgreesUpTo(g, globals, 2 * t)
      <4> SUFFICES ASSUME NEW k \in 1 .. 2 * t
                   PROVE  k <= Len(globals) /\ globals[k] = g[k]
        BY DEF AgreesUpTo
      <4>1. CASE k = 2 * t \/ k = 2 * t - 1
        BY <1>4, <1>6, <2>2, <2>5, <4>1, SMTT(30)
      <4>2. CASE k \in 1 .. 2 * cursor.triple
        BY <1>3, <4>2 DEF AgreesUpTo
      <4>3. ASSUME NEW m \in Nat PROVE \A x \in 1 .. 2 * (m + 1) :
                                        x = 2 * (m + 1) \/ x = 2 * (m + 1) - 1 \/ x \in 1 .. 2 * m
        OBVIOUS
      <4>4. cursor.triple \in Nat /\ t = cursor.triple + 1
        BY <1>3, <1>4
      <4>5. \A x \in 1 .. 2 * (cursor.triple + 1) :
              \/ x = 2 * (cursor.triple + 1) \/ x = 2 * (cursor.triple + 1) - 1
              \/ x \in 1 .. 2 * cursor.triple
        BY <4>3, <4>4
      <4>6. \A x \in 1 .. 2 * t : x = 2 * t \/ x = 2 * t - 1 \/ x \in 1 .. 2 * cursor.triple
        BY <4>4, <4>5
      <4> QED BY <4>1, <4>2, <4>6
    <3> HIDE DEF cur
    <3>6. cur.opened = 2 * t /\ cur.opened = 2 * cur.triple
      BY <1>4, <3>4, <1>3
    <3> QED BY <1>1, <1>2, <3>3, <3>4, <3>5, <3>6 DEF Advances
  <2>6. CASE ~(d = g[2 * t - 1] /\ e = g[2 * t])
    <3>1. ~Extends(g, globals)
      BY <2>2, <2>6 DEF Extends
    <3> DEFINE o == view.local_operations[cursor.op + 1]
    <3>2. /\ o.kind = "BeaverMul" /\ o.d = g[2 * t - 1] /\ o.e = g[2 * t]
      BY <2>3, <2>4 DEF BeaverMulOp
    <3>3. expected.kind = "BeaverMul" /\ expected.d = d /\ expected.e = e
      BY DEF BeaverMulOp
    <3>4. o # expected /\ o.kind = expected.kind
      <4> HIDE DEF o, expected, d, e
      <4> QED BY <2>6, <3>2, <3>3
    <3>5. ~(cursor.op >= Len(view.local_operations))
      <4>1. Len(view.local_operations) \in Nat
        BY ViewTypes DEF Replaying
      <4> QED BY <1>3, <2>3, <4>1
    <3>6. ExpectError(expected) = "InconsistentView"
      <4> HIDE DEF expected
      <4> QED BY <3>4, <3>5 DEF ExpectError
    <3>7. Return("InconsistentView") /\ "InconsistentView" \in VerifierErrors
      BY <2>1, <3>6 DEF VerifierErrors
    <3> QED BY <3>1, <3>7 DEF Refuses
  <2> QED BY <2>5, <2>6
<1> QED BY <1>9, <1>10

\* Every step of a replay.
LEMMA ReplayStep ==
  ASSUME NEW w, NEW g, Replaying(w, g), ReplayNode
  PROVE  Advances(w, g) \/ Refuses(g)
BY ReplayLeaves, ReplayAdds, ReplayPlainMuls, ReplayBeaver DEF ReplayNode

\* The cursor follows the positions of the records.
LEMMA CursorStep ==
  ASSUME NEW j, Checked(j), NEW p, NEW w, NEW n \in Nat, n + 1 <= Len(j.circuit.nodes),
         NEW cur, Cursors(j, p, w, n, cur), NEW cur2 \in Cursor,
         cur2.secret = IF nodeOf(j, n + 1).op = "SecretInput" THEN cur.secret + 1 ELSE cur.secret,
         cur2.public = IF nodeOf(j, n + 1).op = "PublicInput" THEN cur.public + 1 ELSE cur.public,
         cur2.op = IF Recorded(j, p, w, n + 1) THEN cur.op + 1 ELSE cur.op,
         cur2.triple = IF Multiplied(j, w, n + 1) THEN cur.triple + 1 ELSE cur.triple,
         cur2.opened = 2 * cur2.triple
  PROVE  Cursors(j, p, w, n + 1, cur2)
<1> DEFINE i == n + 1
           ns == j.circuit.nodes
<1>1. ns \in Seq(Node) /\ i \in 1 .. Len(ns) /\ i \in Nat \ {0}
  BY DEF Checked, Circuit
<1>2. /\ cur.secret + 1 = InputPosition(j, "SecretInput", i)
      /\ cur.public + 1 = InputPosition(j, "PublicInput", i)
      /\ cur.op + 1 = OpPosition(j, p, w, i)
      /\ cur.triple + 1 = TriplePosition(j, w, i)
      /\ cur.secret \in Nat /\ cur.public \in Nat /\ cur.op \in Nat /\ cur.triple \in Nat
  BY DEF Cursors, Cursor
<1>3. nodeOf(j, i) = ns[i]
  BY DEF nodeOf
<1> HIDE DEF i, ns
<1>4. ASSUME NEW op
      PROVE  InputPosition(j, op, i + 1) = IF nodeOf(j, i).op = op THEN InputPosition(j, op, i) + 1
                                           ELSE InputPosition(j, op, i)
  <2>1. /\ Cardinality(LeavesBefore(ns, op, i)) \in Nat
        /\ ns[i].op = op =>
             Cardinality(LeavesBefore(ns, op, i + 1)) = Cardinality(LeavesBefore(ns, op, i)) + 1
        /\ ns[i].op # op => LeavesBefore(ns, op, i + 1) = LeavesBefore(ns, op, i)
    BY <1>1, LeavesBeforeStep
  <2> QED BY <1>3, <2>1 DEF InputPosition, ns
<1>5. cur2.secret + 1 = InputPosition(j, "SecretInput", i + 1)
  BY <1>2, <1>4 DEF i
<1>6. cur2.public + 1 = InputPosition(j, "PublicInput", i + 1)
  BY <1>2, <1>4 DEF i
<1>7. cur2.op + 1 = OpPosition(j, p, w, i + 1)
  <2>1. /\ Recorded(j, p, w, i) => OpPosition(j, p, w, i + 1) = OpPosition(j, p, w, i) + 1
        /\ ~Recorded(j, p, w, i) => OpPosition(j, p, w, i + 1) = OpPosition(j, p, w, i)
    BY <1>1, OpPositionStep
  <2> QED BY <1>2, <2>1 DEF i
<1>8. cur2.triple + 1 = TriplePosition(j, w, i + 1)
  <2>1. /\ Multiplied(j, w, i) => TriplePosition(j, w, i + 1) = TriplePosition(j, w, i) + 1
        /\ ~Multiplied(j, w, i) => TriplePosition(j, w, i + 1) = TriplePosition(j, w, i)
    BY <1>1, TriplePositionStep
  <2> QED BY <1>2, <2>1 DEF i
<1> QED BY <1>5, <1>6, <1>7, <1>8 DEF Cursors, i

\* A replay that advances is still in lock-step.
LEMMA AdvanceKeeps ==
  ASSUME NEW w, NEW g, Replaying(w, g), Advances(w, g), vout <= Len(job.circuit.nodes),
         UNCHANGED <<job, proof>>
  PROVE  Replaying(w, g)'
<1>1. PICK cur \in Cursor :
        /\ Step(w[vout], cur)
        /\ cur.secret = IF vnode.op = "SecretInput" THEN cursor.secret + 1 ELSE cursor.secret
        /\ cur.public = IF vnode.op = "PublicInput" THEN cursor.public + 1 ELSE cursor.public
        /\ cur.op = IF Recorded(job, party, w, vout) THEN cursor.op + 1 ELSE cursor.op
        /\ cur.triple = IF Multiplied(job, w, vout) THEN cursor.triple + 1 ELSE cursor.triple
        /\ cur.opened = 2 * cur.triple
        /\ AgreesUpTo(g, globals, cur.opened)
  BY DEF Advances
<1>2. /\ replayed' = Append(replayed, w[vout]) /\ cursor' = cur
      /\ UNCHANGED <<stage, verdict, rep, globals, who, replays>>
  BY <1>1 DEF Step
<1>3. view' = view /\ party' = party
  BY <1>2 DEF view, opened, repetition, party
<1>4. /\ vout \in DOMAIN w /\ w \in Seq(LocalVal) /\ w[vout] \in LocalVal
      /\ nodeOf(job, vout) = vnode /\ replayed \in Seq(LocalVal) /\ Extends(replayed, w)
  BY ReplayFacts DEF Replaying
<1>5. /\ replayed' \in Seq(LocalVal) /\ Len(replayed') = Len(replayed) + 1
      /\ Len(replayed) \in Nat /\ Extends(replayed', w)
  BY <1>2, <1>4 DEF vout, Extends
<1>6. Cursors(job, party, w, Len(replayed) + 1, cur)
  <2> DEFINE n == Len(replayed)
  <2>1. Cursors(job, party, w, n, cursor) /\ Checked(job) /\ n \in Nat /\ n + 1 = vout
    BY <1>5 DEF Replaying, vout
  <2> HIDE DEF n
  <2>2. Cursors(job, party, w, n + 1, cur)
    BY <1>1, <1>4, <2>1, CursorStep
  <2> QED BY <2>2 DEF n
<1>7. Cursors(job, party, w, Len(replayed), cursor)'
  BY <1>2, <1>3, <1>5, <1>6
<1>8. AgreesUpTo(g, globals, cursor.opened)'
  BY <1>1, <1>2
<1> QED BY <1>2, <1>3, <1>5, <1>7, <1>8 DEF Replaying

\* At the end of the replay nothing is left over, and the masks of the view were used.
LEMMA ReplayEnds ==
  ASSUME NEW w, NEW g, Replaying(w, g), Len(replayed) = Len(job.circuit.nodes)
  PROVE  /\ FullyConsumed
         /\ replayed = w
         /\ AgreesUpTo(g, globals, Len(view.opened_values))
<1>1. /\ w \in Seq(LocalVal) /\ replayed \in Seq(LocalVal) /\ Len(w) = Len(replayed)
      /\ Extends(replayed, w)
      /\ Len(view.local_operations) + 1 = OpPosition(job, party, w, Len(w) + 1)
      /\ Len(view.triple_shares) + 1 = TriplePosition(job, w, Len(w) + 1)
      /\ Len(view.opened_values) = 2 * Len(view.triple_shares)
  BY DEF Replaying, ViewReplays, party
<1>2. Len(view.local_operations) \in Nat /\ Len(view.triple_shares) \in Nat
  BY ViewTypes DEF Replaying
<1>3. /\ cursor.op + 1 = Len(view.local_operations) + 1
      /\ cursor.triple + 1 = Len(view.triple_shares) + 1
      /\ cursor.op \in Nat /\ cursor.triple \in Nat /\ cursor.opened = 2 * cursor.triple
  BY <1>1, CursorFacts DEF vout
<1>4. cursor.op = Len(view.local_operations) /\ cursor.triple = Len(view.triple_shares)
  BY <1>2, <1>3, SMTT(30)
<1>5. cursor.opened = Len(view.opened_values)
  BY <1>1, <1>3, <1>4
<1>6. replayed = w
  <2>1. \A k \in 1 .. Len(replayed) : w[k] = replayed[k]
    BY <1>1 DEF Extends
  <2> QED BY <1>1, <2>1
<1>7. AgreesUpTo(g, globals, Len(view.opened_values))
  BY <1>5 DEF Replaying
<1> QED BY <1>4, <1>5, <1>6, <1>7 DEF FullyConsumed
-----------------------------------------------------------------------------
(* A repetition that presents an evaluation.                               *)

\* The hidden party's share and the two opened ones make up the sharing.
LEMMA Sum3Others ==
  ASSUME NEW s \in Sharing, NEW h \in Party
  PROVE  /\ others(h)[1] \in Party /\ others(h)[2] \in Party
         /\ others(h)[1] # h /\ others(h)[2] # h /\ others(h)[1] # others(h)[2]
         /\ Plus(Plus(s[h], s[others(h)[1]]), s[others(h)[2]]) = Sum3(s)
<1>1. s[0] \in F /\ s[1] \in F /\ s[2] \in F
  BY Sum3Type
<1>2. CASE h = 0
  BY <1>1, <1>2 DEF others, Party, Sum3
<1>3. CASE h = 1
  <2>1. Plus(s[1], s[0]) = Plus(s[0], s[1])
    BY <1>1, PlusGroup
  <2> QED BY <1>1, <1>3, <2>1 DEF others, Party, Sum3
<1>4. CASE h = 2
  <2> DEFINE a == s[0]
             b == s[1]
             c == s[2]
  <2>0. a \in F /\ b \in F /\ c \in F
    BY <1>1
  <2>1. Plus(Plus(s[2], s[0]), s[1]) = Plus(Plus(s[0], s[1]), s[2])
    <3> HIDE DEF a, b, c
    <3>1. Plus(Plus(c, a), b) = Plus(c, Plus(a, b))
      BY <2>0, PlusGroup
    <3>2. Plus(a, b) \in F
      BY <2>0, FieldClosed
    <3>3. Plus(c, Plus(a, b)) = Plus(Plus(a, b), c)
      BY <2>0, <3>2, PlusGroup
    <3> QED BY <3>1, <3>3 DEF a, b, c
  <2> QED BY <1>1, <1>4, <2>1 DEF others, Party, Sum3
<1> QED BY <1>2, <1>3, <1>4 DEF Party

\* The two opened views of an honest repetition.
LEMMA HonestOpened ==
  ASSUME NEW n, NEW r, NEW views, NEW w, NEW ref, OpenedFrom(job, r, n, views, w, ref)
  PROVE  /\ DOMAIN r.opened_views = 1 .. 2 /\ r.challenge \in Party
         /\ \A i \in 1 .. 2 :
              /\ others(r.challenge)[i] \in Party
              /\ r.opened_views[i].view = views[others(r.challenge)[i]]
              /\ r.opened_views[i].view.party_id = others(r.challenge)[i]
              /\ r.opened_views[i].view.repetition_id = n - 1
              /\ r.opened_views[i].randomness = fresh_randomness(n - 1, others(r.challenge)[i])
         /\ views \in [Party -> PartyView]
         /\ \A p \in Party : Len(views[p].opened_values) = Len(views[0].opened_values)
<1>1. /\ r.challenge \in Party
      /\ r.opened_views = [i \in 1 .. 2 |->
                             [view |-> views[others(r.challenge)[i]],
                              randomness |-> fresh_randomness(n - 1, others(r.challenge)[i])]]
      /\ views \in [Party -> PartyView]
      /\ \A p \in Party : /\ views[p].party_id = p /\ views[p].repetition_id = n - 1
                          /\ Len(views[p].opened_values) = Len(views[0].opened_values)
  BY DEF OpenedFrom
<1>2. \A i \in 1 .. 2 : others(r.challenge)[i] \in Party
  BY <1>1 DEF others, Party
<1> QED BY <1>1, <1>2

\* It passes every check that precedes the replay.
LEMMA HonestBinding ==
  ASSUME NEW views, NEW w, NEW ref, rep \in Nat \ {0},
         OpenedFrom(job, repetition, rep, views, w, ref), NEW i \in 1 .. 2
  PROVE  BindingError(opened[i]) = "none"
<1> DEFINE o == opened[i]
           p == others(repetition.challenge)[i]
<1>1. /\ o.view = views[p] /\ o.view.party_id = p /\ o.view.repetition_id = rep - 1 /\ p \in Party
      /\ o.randomness = fresh_randomness(rep - 1, p)
  BY HonestOpened DEF opened
<1>2. /\ repetition.id = rep - 1
      /\ repetition.commitments =
           [c \in 1 .. 3 |-> commit_view(views[c - 1], fresh_randomness(rep - 1, c - 1))]
  BY DEF OpenedFrom
<1> HIDE DEF o, p
<1>3. p + 1 \in 1 .. 3 /\ (p + 1) - 1 = p
  BY <1>1 DEF Party
<1>4. repetition.commitments[p + 1] = commit_view(views[p], fresh_randomness(rep - 1, p))
  BY <1>2, <1>3
<1>5. verify_commitment(repetition.commitments[o.view.party_id + 1], o.view, o.randomness)
  BY <1>1, <1>4 DEF verify_commitment
<1> QED BY <1>1, <1>2, <1>5 DEF BindingError, o

LEMMA HonestOpens ==
  ASSUME NEW views, NEW w, NEW ref, rep \in Nat \ {0},
         OpenedFrom(job, repetition, rep, views, w, ref), HiddenFrom(job, repetition, views, w)
  PROVE  OpenError = "none"
<1> DEFINE h == repetition.challenge
           n == Len(repetition.hidden_broadcasts)
<1>1. repetition.id = rep - 1 /\ h \in Party
  BY DEF OpenedFrom
<1>2. Len(repetition.commitments) = 3
  <2>1. repetition.commitments =
          [c \in 1 .. 3 |-> commit_view(views[c - 1], fresh_randomness(rep - 1, c - 1))]
    BY DEF OpenedFrom
  <2> DEFINE Commit(c) == commit_view(views[c - 1], fresh_randomness(rep - 1, c - 1))
             f == [c \in 1 .. 3 |-> Commit(c)]
             S == {Commit(c) : c \in 1 .. 3}
  <2> HIDE DEF Commit
  <2>2. f \in [1 .. 3 -> S]
    OBVIOUS
  <2> DEFINE three == 3
  <2>3. f \in [1 .. three -> S] /\ three \in Nat
    BY <2>2
  <2> HIDE DEF f, S, three
  <2>4. f \in Seq(S) /\ Len(f) = three
    BY <2>3
  <2> QED BY <2>1, <2>4 DEF f, Commit, three
<1>3. [i \in DOMAIN opened |-> opened[i].view.party_id] = others(h)
  <2>1. DOMAIN opened = 1 .. 2 /\ \A i \in 1 .. 2 : opened[i].view.party_id = others(h)[i]
    BY HonestOpened DEF opened
  <2>2. [i \in DOMAIN opened |-> opened[i].view.party_id] = [i \in 1 .. 2 |-> others(h)[i]]
    BY <2>1
  <2>3. others(h) = [i \in 1 .. 2 |-> others(h)[i]]
    BY DEF others
  <2> QED BY <2>2, <2>3
<1>4. BindingError(opened[1]) = "none" /\ BindingError(opened[2]) = "none"
  BY HonestBinding
<1>5. n % 2 # 1 /\ \A i \in 1 .. 2 : ~(Len(opened[i].view.opened_values) < n)
  <2>0. repetition.hidden_broadcasts = views[h].opened_values
    BY DEF HiddenFrom
  <2>1. /\ views \in [Party -> PartyView]
        /\ \A i \in 1 .. 2 : Len(opened[i].view.opened_values) = n
        /\ n = Len(views[0].opened_values)
    BY <2>0, HonestOpened DEF opened
  <2>2. n = 2 * Len(views[0].triple_shares) /\ Len(views[0].triple_shares) \in Nat
    <3>1. 0 \in Party
      BY DEF Party
    <3>2. ViewReplays(job, views[0], MasksOf(views), w[0])
      BY <3>1 DEF OpenedFrom
    <3>3. views[0] \in PartyView
      BY <2>1, <3>1
    <3> QED BY <2>1, <3>2, <3>3, ViewTypes DEF ViewReplays
  <2>3. n \in Nat /\ n % 2 = 0
    <3> DEFINE k == Len(views[0].triple_shares)
    <3> HIDE DEF k, n
    <3>1. k \in Nat /\ n = 2 * k
      BY <2>2 DEF k
    <3> QED BY <3>1
  <2> HIDE DEF n
  <2>4. n % 2 # 1 /\ ~(n < n)
    BY <2>3
  <2> QED BY <2>1, <2>4
<1> HIDE DEF h, n
<1> QED BY <1>1, <1>2, <1>3, <1>4, <1>5 DEF OpenError, h, n

\* What the verifier reconstructs are the masks of the evaluation.
\* The masks that a repetition leads to.
GlobalsOf(r) ==
  [k \in DOMAIN r.hidden_broadcasts |->
     Plus(Plus(r.hidden_broadcasts[k], r.opened_views[1].view.opened_values[k]),
          r.opened_views[2].view.opened_values[k])]

\* With the hidden party's own broadcasts they are the masks of the evaluation.
LEMMA HonestMasks ==
  ASSUME NEW r, NEW n, NEW views, NEW w, NEW ref, OpenedFrom(job, r, n, views, w, ref),
         HiddenFrom(job, r, views, w)
  PROVE  GlobalsOf(r) = MasksOf(views) /\ MasksOf(views) \in Seq(F)
<1> DEFINE h == r.challenge
           m == Len(views[0].opened_values)
           g == MasksOf(views)
<1>0. r.hidden_broadcasts = views[h].opened_values
  BY DEF HiddenFrom
<1>1. /\ h \in Party
      /\ \A i \in 1 .. 2 : r.opened_views[i].view = views[others(h)[i]]
      /\ views \in [Party -> PartyView]
      /\ \A p \in Party : Len(views[p].opened_values) = m
      /\ r.hidden_broadcasts = views[h].opened_values
  BY <1>0, HonestOpened
<1>2. /\ g \in Seq(F) /\ Len(g) = m
      /\ \A k \in 1 .. m : g[k] = Sum3([p \in Party |-> views[p].opened_values[k]])
  BY <1>1, MasksFacts
<1>3. \A p \in Party : views[p].opened_values \in Seq(F)
  BY <1>1, ViewTypes
<1>4. DOMAIN r.hidden_broadcasts = 1 .. m /\ m \in Nat
  BY <1>1, <1>3 DEF Party
<1> HIDE DEF m, g, h
<1>5. ASSUME NEW k \in 1 .. m
      PROVE  Plus(Plus(r.hidden_broadcasts[k], r.opened_views[1].view.opened_values[k]),
                  r.opened_views[2].view.opened_values[k]) = g[k]
  <2> DEFINE s == [p \in Party |-> views[p].opened_values[k]]
  <2>1. \A p \in Party : views[p].opened_values[k] \in F
    BY <1>1, <1>3, <1>4
  <2>2. s \in Sharing
    BY <2>1 DEF Sharing
  <2>3. \A p \in Party : s[p] = views[p].opened_values[k]
    OBVIOUS
  <2>4. g[k] = Sum3(s)
    BY <1>2
  <2> HIDE DEF s
  <2>5. /\ others(h)[1] \in Party /\ others(h)[2] \in Party
        /\ Plus(Plus(s[h], s[others(h)[1]]), s[others(h)[2]]) = Sum3(s)
    BY <1>1, <2>2, Sum3Others
  <2>6. /\ s[h] = r.hidden_broadcasts[k]
        /\ s[others(h)[1]] = r.opened_views[1].view.opened_values[k]
        /\ s[others(h)[2]] = r.opened_views[2].view.opened_values[k]
    BY <1>1, <2>3, <2>5
  <2> QED BY <2>4, <2>5, <2>6
<1>6. GlobalsOf(r) = [k \in 1 .. m |-> g[k]]
  BY <1>4, <1>5 DEF GlobalsOf
<1>7. g = [k \in 1 .. m |-> g[k]]
  BY <1>2
<1> QED BY <1>2, <1>6, <1>7 DEF g

LEMMA HonestGlobals ==
  ASSUME NEW views, NEW w, NEW ref, OpenedFrom(job, repetition, rep, views, w, ref),
         HiddenFrom(job, repetition, views, w)
  PROVE  Globals = MasksOf(views) /\ MasksOf(views) \in Seq(F)
BY HonestMasks DEF Globals, GlobalsOf, opened
-----------------------------------------------------------------------------
(* The verifier follows the evaluation through a repetition.               *)

\* The repetition at hand opens two views of evaluation w.
At(views, w, ref) ==
  /\ Checked(job)
  /\ rep \in Nat \ {0}
  /\ repetition.hidden_broadcasts \in Seq(F)
  /\ OpenedFrom(job, repetition, rep, views, w, ref)

Idle == who = 1 /\ replayed = << >> /\ cursor = ZeroCursor

AtOpen(views, w, ref) ==
  /\ At(views, w, ref)
  /\ stage = "open"
  /\ Idle
  /\ replays = << >>

AtView(views, w, ref) ==
  /\ At(views, w, ref)
  /\ globals = Globals
  /\ who \in 1 .. 2
  /\ Replaying(w[party], MasksOf(views))
  /\ replays = IF who = 1 THEN << >> ELSE <<w[others(repetition.challenge)[1]]>>

AtOutputs(views, w, ref) ==
  /\ At(views, w, ref)
  /\ stage = "outputs"
  /\ Idle
  /\ globals = Globals
  /\ AgreesUpTo(MasksOf(views), globals, Len(views[0].opened_values))
  /\ replays = <<w[others(repetition.challenge)[1]], w[others(repetition.challenge)[2]]>>

Follows(views, w, ref) ==
  AtOpen(views, w, ref) \/ AtView(views, w, ref) \/ AtOutputs(views, w, ref)

\* The cursors of a replay that has not begun.
LEMMA StartCursors ==
  ASSUME NEW j, NEW p, NEW w
  PROVE  Cursors(j, p, w, 0, ZeroCursor)
<1>1. /\ InputPosition(j, "SecretInput", 0 + 1) = 1
      /\ InputPosition(j, "PublicInput", 0 + 1) = 1
  BY NoLeavesBefore DEF InputPosition
<1> QED BY <1>1, PositionStart DEF Cursors, Cursor, ZeroCursor

\* The masks the verifier reconstructs are field elements, as it checked the lengths.
LEMMA GlobalsType ==
  ASSUME repetition.hidden_broadcasts \in Seq(F),
         opened[1].view \in PartyView, opened[2].view \in PartyView, OpenError = "none"
  PROVE  Globals \in Seq(F)
<1> DEFINE n == Len(repetition.hidden_broadcasts)
           hid == repetition.hidden_broadcasts
           o1 == opened[1].view.opened_values
           o2 == opened[2].view.opened_values
<1>1. hid \in Seq(F) /\ n \in Nat /\ DOMAIN hid = 1 .. n
  OBVIOUS
<1>3. o1 \in Seq(F) /\ o2 \in Seq(F) /\ Len(o1) \in Nat /\ Len(o2) \in Nat
  BY ViewTypes
<1>4. ~ \E i \in 1 .. 2 : Len(opened[i].view.opened_values) < n
  BY DEF OpenError
<1>5. n <= Len(o1) /\ n <= Len(o2)
  BY <1>1, <1>3, <1>4
<1>6. Globals = [k \in DOMAIN hid |-> Plus(Plus(hid[k], o1[k]), o2[k])]
  BY DEF Globals
<1> HIDE DEF n, hid, o1, o2
<1>7. Globals = [k \in 1 .. n |-> Plus(Plus(hid[k], o1[k]), o2[k])]
  BY <1>1, <1>6
<1>8. ASSUME NEW k \in 1 .. n
      PROVE  Plus(Plus(hid[k], o1[k]), o2[k]) \in F
  <2>1. hid[k] \in F /\ o1[k] \in F /\ o2[k] \in F
    BY <1>1, <1>3, <1>5 DEF n, hid
  <2> QED BY <2>1, FieldClosed
<1> DEFINE G == Globals
<1>9. G \in [1 .. n -> F]
  BY <1>7, <1>8
<1> HIDE DEF G
<1>10. G \in Seq(F)
  BY <1>1, <1>9
<1> QED BY <1>10 DEF G

\* The replay of an opened view begins in lock-step.
LEMMA ReplayBegins ==
  ASSUME NEW views, NEW w, NEW ref, At(views, w, ref), NEW i \in 1 .. 2,
         UNCHANGED <<job, proof, rep>>, stage' = "replay", who' = i, globals' = Globals,
         Globals \in Seq(F), replayed' = << >>, cursor' = ZeroCursor
  PROVE  /\ At(views, w, ref)'
         /\ globals' = Globals'
         /\ party' = others(repetition.challenge)[i]
         /\ Replaying(w[party], MasksOf(views))'
<1>0. PICK p : p = others(repetition.challenge)[i]
  OBVIOUS
<1> DEFINE g == MasksOf(views)
<1>1. At(views, w, ref)' /\ repetition' = repetition /\ opened' = opened /\ Globals' = Globals
  BY DEF At, repetition, opened, Globals
<1>2. view' = opened[i].view
  BY <1>1 DEF view
<1>3. opened[i].view = views[p] /\ p \in Party
  BY <1>0, HonestOpened DEF At, opened
<1>4. /\ views \in [Party -> PartyView] /\ views[p].party_id = p
      /\ ViewReplays(job, views[p], g, w[p])
      /\ Len(views[p].input_shares) = job.circuit.num_secret_inputs
      /\ Len(w[p]) = Len(job.circuit.nodes)
      /\ \A q \in Party : Len(views[q].opened_values) = Len(views[0].opened_values)
  BY <1>3 DEF At, OpenedFrom, SharesReference
<1>5. view' = views[p] /\ party' = p
  BY <1>2, <1>3, <1>4 DEF party
<1>6. g \in Seq(F)
  BY <1>4, MasksFacts
<1> HIDE DEF g
<1>7. Cursors(job, p, w[p], Len(replayed'), cursor')
  BY StartCursors
<1>8. Extends(<< >>, w[p]) /\ << >> \in Seq(LocalVal) /\ w[p] \in Seq(LocalVal)
  BY <1>4 DEF Extends, ViewReplays
<1>9. AgreesUpTo(g, globals', 0)
  BY DEF AgreesUpTo
<1>10. Replaying(w[p], g)'
  BY <1>1, <1>3, <1>4, <1>5, <1>6, <1>7, <1>8, <1>9 DEF Replaying, ZeroCursor, At
<1> QED BY <1>0, <1>1, <1>5, <1>10 DEF g

LEMMA OpenFollows ==
  ASSUME NEW views, NEW w, NEW ref, AtOpen(views, w, ref), verify_repetition, OpenError = "none",
         UNCHANGED <<job, proof>>
  PROVE  AtView(views, w, ref)' /\ UNCHANGED <<rep, verdict>>
<1>1. /\ stage' = "replay" /\ globals' = Globals
      /\ UNCHANGED <<verdict, rep, who, replayed, cursor, replays>>
  BY DEF verify_repetition
<1>2. At(views, w, ref) /\ who = 1 /\ replayed = << >> /\ cursor = ZeroCursor /\ replays = << >>
  BY DEF AtOpen, Idle
<1>3. Globals \in Seq(F)
  <2>1. opened[1].view \in PartyView /\ opened[2].view \in PartyView
    BY <1>2, HonestOpened DEF At, opened
  <2> QED BY <1>2, <2>1, GlobalsType DEF At
<1>4. /\ At(views, w, ref)' /\ globals' = Globals'
      /\ Replaying(w[party], MasksOf(views))'
  BY <1>1, <1>2, <1>3, ReplayBegins
<1> QED BY <1>1, <1>2, <1>4 DEF AtView

LEMMA NodeFollows ==
  ASSUME NEW views, NEW w, NEW ref, AtView(views, w, ref), ReplayNode, UNCHANGED <<job, proof>>
  PROVE  \/ AtView(views, w, ref)' /\ UNCHANGED <<rep, verdict>>
         \/ /\ stage = "replay" /\ ~Extends(MasksOf(views), globals)
            /\ \E e \in VerifierErrors : Return(e)
<1> DEFINE g == MasksOf(views)
<1>0. PICK x : x = w[party]
  OBVIOUS
<1>1. Replaying(x, g) /\ stage = "replay"
  BY <1>0 DEF AtView, Replaying
<1>2. vout <= Len(job.circuit.nodes)
  BY DEF ReplayNode, AtReplay, ReplaySecretInput, ReplayPublicInput, ReplayConstant,
         ReplayAddPublic, ReplayAddShared, ReplayAddMixed, ReplayMulPublic, ReplayMulMixed,
         ReplayMulShared
<1> HIDE DEF g
<1>3. Advances(x, g) \/ Refuses(g)
  BY <1>1, ReplayStep
<1>4. CASE Refuses(g)
  BY <1>1, <1>4 DEF Refuses, g
<1>5. CASE Advances(x, g)
  <2>1. Replaying(x, g)'
    BY <1>1, <1>2, <1>5, AdvanceKeeps
  <2>2. UNCHANGED <<stage, verdict, rep, globals, who, replays>>
    BY <1>5 DEF Advances, Step
  <2>3. repetition' = repetition /\ Globals' = Globals /\ party' = party
    BY <2>2 DEF repetition, Globals, opened, party, view
  <2>4. At(views, w, ref)'
    BY <2>2, <2>3 DEF At, AtView
  <2>5. Replaying(w[party], g)'
    BY <1>0, <2>1, <2>3
  <2>6. AtView(views, w, ref)'
    BY <2>2, <2>3, <2>4, <2>5 DEF AtView, g
  <2> QED BY <2>2, <2>6
<1> QED BY <1>3, <1>4, <1>5

LEMMA FinishFollows ==
  ASSUME NEW views, NEW w, NEW ref, AtView(views, w, ref), FinishReplay, UNCHANGED <<job, proof>>
  PROVE  /\ AtView(views, w, ref)' \/ AtOutputs(views, w, ref)'
         /\ UNCHANGED <<rep, verdict>>
<1> DEFINE g == MasksOf(views)
           h == repetition.challenge
<1>0. PICK x : x = w[party]
  OBVIOUS
<1>1. Replaying(x, g) /\ Len(replayed) = Len(job.circuit.nodes)
  BY <1>0 DEF AtView, FinishReplay
<1>2. FullyConsumed /\ replayed = x /\ AgreesUpTo(g, globals, Len(view.opened_values))
  BY <1>1, ReplayEnds
<1>3. /\ stage' = IF who = 1 THEN "replay" ELSE "outputs"
      /\ who' = NextView
      /\ replays' = Append(replays, x)
      /\ replayed' = << >>
      /\ cursor' = ZeroCursor
      /\ UNCHANGED <<verdict, rep, globals>>
  BY <1>2 DEF FinishReplay
<1>4. /\ At(views, w, ref) /\ globals = Globals /\ who \in 1 .. 2
      /\ replays = IF who = 1 THEN << >> ELSE <<w[others(h)[1]]>>
  BY DEF AtView
<1>5. /\ view = views[others(h)[who]] /\ party = others(h)[who] /\ others(h)[who] \in Party
      /\ Len(view.opened_values) = Len(views[0].opened_values)
  BY <1>4, HonestOpened DEF At, view, party, opened
<1>6. repetition' = repetition /\ Globals' = Globals
  BY <1>3 DEF repetition, Globals, opened
<1>7. CASE who = 1
  <2>1. stage' = "replay" /\ who' = 2 /\ replays' = <<w[others(h)[1]]>>
    BY <1>0, <1>3, <1>4, <1>5, <1>7 DEF NextView
  <2>2. Globals \in Seq(F)
    BY <1>1, <1>4 DEF Replaying
  <2>3. /\ At(views, w, ref)' /\ globals' = Globals' /\ Replaying(w[party], g)'
    BY <1>3, <1>4, <2>1, <2>2, ReplayBegins
  <2>4. AtView(views, w, ref)'
    BY <1>6, <2>1, <2>3 DEF AtView
  <2> QED BY <1>3, <2>4
<1>8. CASE who = 2
  <2>0. PICK a : a = w[others(h)[1]]
    OBVIOUS
  <2>1. stage' = "outputs" /\ who' = 1 /\ replays' = <<w[others(h)[1]], w[others(h)[2]]>>
    <3>1. replays = <<a>> /\ x = w[others(h)[2]]
      BY <1>0, <1>4, <1>5, <1>8, <2>0
    <3>2. Append(<<a>>, x) = <<a, x>>
      <4> DEFINE t == Append(<<a>>, x)
      <4>1. <<a>> \in Seq({a, x}) /\ Len(<<a>>) = 1
        OBVIOUS
      <4>2. DOMAIN t = 1 .. 2 /\ t[1] = a /\ t[2] = x /\ t \in Seq({a, x})
        BY <4>1
      <4> HIDE DEF t
      <4>3. t = <<a, x>>
        BY <4>2
      <4> QED BY <4>3 DEF t
    <3> QED BY <1>3, <1>8, <2>0, <3>1, <3>2 DEF NextView
  <2>2. At(views, w, ref)'
    BY <1>3, <1>4, <1>6 DEF At
  <2>3. AgreesUpTo(g, globals, Len(views[0].opened_values))'
    BY <1>2, <1>3, <1>5
  <2>4. AtOutputs(views, w, ref)'
    BY <1>3, <1>4, <1>6, <2>1, <2>2, <2>3 DEF AtOutputs, Idle
  <2> QED BY <1>3, <2>4
<1> QED BY <1>4, <1>7, <1>8

\* A step of the verifier keeps following, or ends the verification: because of the
\* checks before the replay, of masks that are not those of the evaluation, or of the
\* outputs.
LEMMA FollowsStep ==
  ASSUME NEW views, NEW w, NEW ref, Follows(views, w, ref), VerifierNext, UNCHANGED <<job, proof>>
  PROVE  \/ Follows(views, w, ref)' /\ UNCHANGED <<rep, verdict>>
         \/ AtOpen(views, w, ref) /\ OpenError # "none" /\ Return(OpenError)
         \/ /\ AtView(views, w, ref) /\ ~Extends(MasksOf(views), globals)
            /\ \E e \in VerifierErrors : Return(e)
         \/ AtOutputs(views, w, ref) /\ check_outputs
<1>0. /\ verify => stage = "start"
      /\ verify_repetition => stage = "open"
      /\ WrongInputCount => stage = "replay"
      /\ FinishReplay => stage = "replay"
      /\ check_outputs => stage = "outputs"
      /\ ReplayNode => stage = "replay"
  BY DEF verify, verify_repetition, WrongInputCount, FinishReplay, check_outputs, ReplayNode,
         AtReplay, ReplaySecretInput, ReplayPublicInput, ReplayConstant,
         ReplayAddPublic, ReplayAddShared, ReplayAddMixed, ReplayMulPublic, ReplayMulMixed,
         ReplayMulShared
<1>1. CASE AtOpen(views, w, ref)
  <2>1. verify_repetition
    BY <1>0, <1>1 DEF AtOpen, VerifierNext
  <2>2. CASE OpenError = "none"
    BY <1>1, <2>1, <2>2, OpenFollows DEF Follows
  <2>3. CASE OpenError # "none"
    BY <1>1, <2>1, <2>3 DEF verify_repetition
  <2> QED BY <2>2, <2>3
<1>2. CASE AtView(views, w, ref)
  <2>1. stage = "replay" /\ Len(view.input_shares) = job.circuit.num_secret_inputs
    BY <1>2 DEF AtView, Replaying
  <2>2. ReplayNode \/ FinishReplay
    BY <1>0, <2>1 DEF VerifierNext, WrongInputCount
  <2>3. CASE ReplayNode
    BY <1>2, <2>3, NodeFollows DEF Follows
  <2>4. CASE FinishReplay
    BY <1>2, <2>4, FinishFollows DEF Follows
  <2> QED BY <2>2, <2>3, <2>4
<1>3. CASE AtOutputs(views, w, ref)
  BY <1>0, <1>3 DEF AtOutputs, VerifierNext
<1> QED BY <1>1, <1>2, <1>3 DEF Follows
-----------------------------------------------------------------------------
(* What the outputs decide.                                                *)

\* The shares of an output that the two replays and the hidden party hold.
LEMMA OutputFacts ==
  ASSUME NEW views, NEW w, NEW ref, AtOutputs(views, w, ref), NEW k \in DOMAIN job.circuit.outputs
  PROVE  LET o == job.circuit.outputs[k]
             h == repetition.challenge
         IN  /\ h \in Party
             /\ k \in SecretOutputs =>
                  /\ SharesPresent(k)
                  /\ w[h][o].shared /\ w[h][o].v \in F
                  /\ replays[1][o].v \in F /\ replays[2][o].v \in F
                  /\ Plus(Plus(w[h][o].v, replays[1][o].v), replays[2][o].v) = ref[o]
             /\ k \notin SecretOutputs => ~w[h][o].shared
<1> DEFINE o == job.circuit.outputs[k]
           h == repetition.challenge
           dep == node_depends_on_secrets(job.circuit)
           s == [p \in Party |-> w[p][o].v]
<1>1. /\ Checked(job) /\ SharesReference(job, w, ref) /\ h \in Party
      /\ \A p \in Party : w[p] \in Seq(LocalVal)
      /\ replays = <<w[others(h)[1]], w[others(h)[2]]>>
  BY DEF AtOutputs, At, OpenedFrom, ViewReplays
<1>2. o \in DOMAIN job.circuit.nodes
  <2>1. o \in NodeId /\ o <= Len(job.circuit.nodes) /\ job.circuit.nodes \in Seq(Node)
    BY <1>1, ValidCircuit DEF Checked, Circuit
  <2> QED BY <2>1 DEF NodeId
<1>3. \A p \in Party : w[p][o] \in LocalVal
  BY <1>1, <1>2 DEF SharesReference, Checked, Circuit
<1>4. \A p \in Party : w[p][o].shared \in BOOLEAN /\ w[p][o].v \in F
  BY <1>3 DEF LocalVal
<1>5. /\ \A p \in Party : w[p][o].shared = dep[o]
      /\ w[0][o].shared => Sum3(s) = ref[o]
  BY <1>1, <1>2 DEF SharesReference
<1>6. s \in Sharing /\ \A p \in Party : s[p] = w[p][o].v
  BY <1>4 DEF Sharing
<1>7. k \in SecretOutputs <=> dep[o]
  BY DEF SecretOutputs
<1>8. SharesPresent(k) <=> replays[1][o].shared /\ replays[2][o].shared
  BY DEF SharesPresent
<1>9. replays[1] = w[others(h)[1]] /\ replays[2] = w[others(h)[2]]
  BY <1>1
<1> HIDE DEF o, h, dep, s
<1>10. /\ others(h)[1] \in Party /\ others(h)[2] \in Party
       /\ Plus(Plus(s[h], s[others(h)[1]]), s[others(h)[2]]) = Sum3(s)
  BY <1>1, <1>6, Sum3Others
<1>11. ASSUME k \in SecretOutputs
       PROVE  /\ SharesPresent(k)
              /\ w[h][o].shared /\ w[h][o].v \in F
              /\ replays[1][o].v \in F /\ replays[2][o].v \in F
              /\ Plus(Plus(w[h][o].v, replays[1][o].v), replays[2][o].v) = ref[o]
  <2>1. \A p \in Party : w[p][o].shared
    BY <1>5, <1>7, <1>11
  <2>2. 0 \in Party
    BY DEF Party
  <2> QED BY <1>1, <1>4, <1>5, <1>6, <1>8, <1>9, <1>10, <2>1, <2>2
<1>12. ASSUME k \notin SecretOutputs
       PROVE  ~w[h][o].shared
  BY <1>1, <1>4, <1>5, <1>7, <1>12
<1> QED BY <1>1, <1>11, <1>12 DEF o, h

\* With the hidden party's own output shares, only wrong secret-dependent outputs fail.
LEMMA HonestOutputs ==
  ASSUME NEW views, NEW w, NEW ref, AtOutputs(views, w, ref), HiddenFrom(job, repetition, views, w)
  PROVE  LET wrong == {k \in DOMAIN job.circuit.outputs :
                         ref[job.circuit.outputs[k]] # job.statement.expected_outputs[k]}
         IN  OutputVerdict = IF wrong \cap SecretOutputs = {} THEN "Valid" ELSE "Invalid"
<1> DEFINE outs == job.circuit.outputs
           h == repetition.challenge
           hs == repetition.hidden_output_shares
           wrong == {k \in DOMAIN outs : ref[outs[k]] # job.statement.expected_outputs[k]}
<1>1. hs = [k \in DOMAIN outs |-> IF w[h][outs[k]].shared THEN w[h][outs[k]].v ELSE Zero]
  BY DEF HiddenFrom
<1>2. outs \in Seq(NodeId) /\ DOMAIN outs = 1 .. Len(outs) /\ Len(outs) \in Nat
  BY DEF AtOutputs, At, Checked, Circuit
<1>3. Len(hs) = Len(outs)
  <2> DEFINE Share(k) == IF w[h][outs[k]].shared THEN w[h][outs[k]].v ELSE Zero
             S == {Share(k) : k \in DOMAIN outs}
             m == Len(outs)
             f == hs
  <2>1. f = [k \in 1 .. m |-> Share(k)] /\ S = {Share(k) : k \in 1 .. m} /\ m \in Nat
    BY <1>1, <1>2
  <2> HIDE DEF Share, S, m, f
  <2>2. f \in [1 .. m -> S]
    BY <2>1
  <2>3. Len(f) = m
    BY <2>1, <2>2
  <2> QED BY <2>3 DEF f, m
<1>4. ASSUME NEW k \in DOMAIN outs
      PROVE  k \in OutputFailures <=> k \in wrong \cap SecretOutputs
  <2>1. hs[k] = IF w[h][outs[k]].shared THEN w[h][outs[k]].v ELSE Zero
    BY <1>1
  <2>2. CASE k \in SecretOutputs
    <3>1. /\ SharesPresent(k)
          /\ w[h][outs[k]].shared
          /\ Plus(Plus(w[h][outs[k]].v, replays[1][outs[k]].v), replays[2][outs[k]].v) = ref[outs[k]]
      BY <2>2, OutputFacts
    <3>2. OutputTotal(k) = ref[outs[k]]
      BY <2>1, <3>1 DEF OutputTotal
    <3> HIDE DEF hs
    <3> QED BY <2>2, <3>1, <3>2 DEF OutputFailures
  <2>3. CASE k \notin SecretOutputs
    <3>1. ~w[h][outs[k]].shared
      BY <2>3, OutputFacts
    <3> QED BY <2>1, <2>3, <3>1 DEF OutputFailures
  <2> QED BY <2>2, <2>3
<1>5. OutputFailures = wrong \cap SecretOutputs
  BY <1>4 DEF OutputFailures
<1>6. CASE OutputFailures = {}
  BY <1>3, <1>5, <1>6 DEF OutputVerdict
<1>7. CASE OutputFailures # {}
  <2> DEFINE first == CHOOSE k \in OutputFailures : \A j \in OutputFailures : k <= j
  <2>1. OutputFailures \subseteq Nat
    BY <1>2 DEF OutputFailures
  <2>2. \E k \in OutputFailures : \A j \in OutputFailures : k <= j
    <3>1. PICK k \in OutputFailures : \A j \in OutputFailures : ~(j < k)
      BY <1>7, <2>1, LeastElement
    <3>2. \A j \in OutputFailures : k <= j
      BY <2>1, <3>1
    <3> QED BY <3>2
  <2>3. first \in OutputFailures
    BY <2>2
  <2>4. first \in DOMAIN outs /\ first \in SecretOutputs /\ SharesPresent(first)
    <3> HIDE DEF first, wrong
    <3>1. first \in SecretOutputs
      BY <1>5, <2>3
    <3>2. first \in DOMAIN outs
      BY <3>1 DEF SecretOutputs
    <3> QED BY <3>1, <3>2, OutputFacts
  <2>5. OutputVerdict = "Invalid"
    BY <1>3, <1>7, <2>4 DEF OutputVerdict
  <2>6. wrong \cap SecretOutputs # {}
    <3> HIDE DEF wrong
    <3> QED BY <1>5, <1>7
  <2> QED BY <2>5, <2>6
<1> QED BY <1>6, <1>7
-----------------------------------------------------------------------------
(* A repetition that is not accepted.                                      *)

\* verify has not been called.
Fresh == stage = "start" /\ verdict = "none" /\ rep = 1 /\ Idle /\ replays = << >>

\* Nothing that the verifier looks at has changed.
LEMMA FollowsKept ==
  ASSUME NEW views, NEW w, NEW ref, Follows(views, w, ref), UNCHANGED <<job, proof, verifierVars>>
  PROVE  Follows(views, w, ref)'
<1>1. UNCHANGED <<stage, verdict, rep, globals, who, replayed, cursor, replays>>
  BY DEF verifierVars
<1>2. UNCHANGED <<repetition, opened, view, party, Globals>>
  BY <1>1 DEF repetition, opened, view, party, Globals
<1>3. At(views, w, ref)
  BY DEF Follows, AtOpen, AtView, AtOutputs
<1>4. At(views, w, ref)'
  BY <1>1, <1>2, <1>3 DEF At
<1>5. CASE AtOpen(views, w, ref)
  BY <1>1, <1>4, <1>5 DEF AtOpen, Idle, Follows
<1>6. CASE AtView(views, w, ref)
  <2>1. PICK x : x = w[party]
    OBVIOUS
  <2>2. Replaying(x, MasksOf(views))
    BY <1>6, <2>1 DEF AtView
  <2>3. Replaying(x, MasksOf(views))'
    BY <1>1, <1>2, <2>2 DEF Replaying
  <2>4. Replaying(w[party], MasksOf(views))'
    BY <1>2, <2>1, <2>3
  <2>5. AtView(views, w, ref)'
    BY <1>1, <1>2, <1>4, <1>6, <2>4 DEF AtView
  <2> QED BY <2>5 DEF Follows
<1>7. CASE AtOutputs(views, w, ref)
  BY <1>1, <1>2, <1>4, <1>7 DEF AtOutputs, Idle, Follows
<1> QED BY <1>5, <1>6, <1>7 DEF Follows

\* The conditions under which a repetition is opened.
Opens(r, n) ==
  /\ r.id = n - 1
  /\ Len(r.commitments) = 3
  /\ [i \in DOMAIN r.opened_views |-> r.opened_views[i].view.party_id] = others(r.challenge)
  /\ \A i \in 1 .. 2 :
       LET o == r.opened_views[i]
       IN  /\ o.view.repetition_id = r.id
           /\ verify_commitment(r.commitments[o.view.party_id + 1], o.view, o.randomness)
           /\ ~(Len(o.view.opened_values) < Len(r.hidden_broadcasts))
  /\ Len(r.hidden_broadcasts) % 2 # 1

\* A repetition as the prover sent it, the n-th of its proof.
Sent(r, n, views, w, ref) ==
  /\ Checked(job)
  /\ r \in Repetition
  /\ n \in Nat \ {0}
  /\ RepetitionFrom(job, r, n, views, w, ref)

LEMMA LengthIs ==
  ASSUME NEW S, NEW f \in Seq(S), NEW m \in Nat, DOMAIN f = 1 .. m
  PROVE  Len(f) = m
<1>1. f \in [1 .. Len(f) -> S] /\ DOMAIN f = 1 .. Len(f)
  OBVIOUS
<1>2. f \in [1 .. m -> S]
  BY <1>1
<1> QED BY <1>2

\* Its three commitments.
LEMMA SentCommitments ==
  ASSUME NEW r, NEW n, NEW views, NEW w, NEW ref, Sent(r, n, views, w, ref)
  PROVE  /\ r.commitments \in Seq(ViewCommitment) /\ Len(r.commitments) = 3
         /\ \A p \in Party : r.commitments[p + 1] = commit_view(views[p], fresh_randomness(n - 1, p))
<1>1. /\ r.commitments \in Seq(ViewCommitment)
      /\ r.commitments = [c \in 1 .. 3 |-> commit_view(views[c - 1], fresh_randomness(n - 1, c - 1))]
  BY DEF Sent, Repetition, RepetitionFrom, OpenedFrom
<1>2. DOMAIN r.commitments = 1 .. 3 /\ 3 \in Nat
  BY <1>1
<1>3. Len(r.commitments) = 3
  BY <1>1, <1>2, LengthIs
<1>4. ASSUME NEW p \in Party
      PROVE  r.commitments[p + 1] = commit_view(views[p], fresh_randomness(n - 1, p))
  <2>1. p + 1 \in 1 .. 3 /\ (p + 1) - 1 = p
    BY DEF Party
  <2> QED BY <1>1, <2>1
<1> QED BY <1>1, <1>3, <1>4

\* What it holds besides.
LEMMA SentFacts ==
  ASSUME NEW r, NEW n, NEW views, NEW w, NEW ref, Sent(r, n, views, w, ref)
  PROVE  /\ r.id = n - 1 /\ r.challenge \in Party
         /\ r.opened_views \in Seq(OpenedView) /\ Len(r.opened_views) = 2
         /\ views \in [Party -> PartyView]
         /\ \A p \in Party : Len(views[p].opened_values) = Len(views[0].opened_values)
         /\ r.hidden_broadcasts = views[r.challenge].opened_values
         /\ r.hidden_broadcasts \in Seq(F) /\ r.hidden_output_shares \in Seq(F)
<1>1. OpenedFrom(job, r, n, views, w, ref) /\ HiddenFrom(job, r, views, w)
  BY DEF Sent, RepetitionFrom
<1>2. /\ r.opened_views \in Seq(OpenedView)
      /\ r.hidden_broadcasts \in Seq(F) /\ r.hidden_output_shares \in Seq(F)
  BY DEF Sent, Repetition
<1>3. /\ r.id = n - 1 /\ r.challenge \in Party
      /\ views \in [Party -> PartyView]
      /\ \A p \in Party : Len(views[p].opened_values) = Len(views[0].opened_values)
  BY <1>1 DEF OpenedFrom
<1>4. DOMAIN r.opened_views = 1 .. 2 /\ 2 \in Nat
  BY <1>1, HonestOpened
<1>5. Len(r.opened_views) = 2
  BY <1>2, <1>4, LengthIs
<1>6. r.hidden_broadcasts = views[r.challenge].opened_values
  BY <1>1 DEF HiddenFrom
<1> QED BY <1>2, <1>3, <1>5, <1>6

\* The verifier opens what meets the conditions.
LEMMA OpenedMeans ==
  OpenError = "none" => Opens(repetition, rep)
<1> SUFFICES ASSUME OpenError = "none" PROVE Opens(repetition, rep)
  OBVIOUS
<1>1. /\ repetition.id = rep - 1
      /\ Len(repetition.commitments) = 3
      /\ [i \in DOMAIN opened |-> opened[i].view.party_id] = others(repetition.challenge)
      /\ BindingError(opened[1]) = "none" /\ BindingError(opened[2]) = "none"
      /\ Len(repetition.hidden_broadcasts) % 2 # 1
      /\ \A i \in 1 .. 2 :
           ~(Len(opened[i].view.opened_values) < Len(repetition.hidden_broadcasts))
  BY DEF OpenError
<1>2. ASSUME NEW i \in 1 .. 2
      PROVE  /\ opened[i].view.repetition_id = repetition.id
             /\ verify_commitment(repetition.commitments[opened[i].view.party_id + 1],
                                  opened[i].view, opened[i].randomness)
  <2>1. BindingError(opened[i]) = "none"
    BY <1>1
  <2> QED BY <2>1 DEF BindingError
<1> QED BY <1>1, <1>2 DEF Opens, opened

LEMMA OpenedMeansNext ==
  (OpenError = "none" => Opens(repetition, rep))'
BY OpenedMeans, PTL

\* The two opened parties are told apart, and determine the hidden one.
LEMMA OthersFacts ==
  ASSUME NEW h \in Party
  PROVE  /\ DOMAIN others(h) = 1 .. 2 /\ others(h)[1] # others(h)[2]
         /\ \A g \in Party : others(g) = others(h) => g = h
         /\ \A p \in Party : p # h => \E i \in 1 .. 2 : others(h)[i] = p
BY DEF others, Party

LEMMA SentViews ==
  ASSUME NEW r, NEW n, NEW views, NEW w, NEW ref, Sent(r, n, views, w, ref), NEW i \in 1 .. 2
  PROVE  /\ r.challenge \in Party /\ others(r.challenge)[i] \in Party
         /\ DOMAIN r.opened_views = 1 .. 2 /\ r.opened_views[i] \in OpenedView
         /\ r.opened_views[i].view = views[others(r.challenge)[i]]
         /\ r.opened_views[i].view.party_id = others(r.challenge)[i]
         /\ r.opened_views[i].view.repetition_id = n - 1
         /\ r.opened_views[i].randomness = fresh_randomness(n - 1, others(r.challenge)[i])
<1>1. OpenedFrom(job, r, n, views, w, ref) /\ r.opened_views \in Seq(OpenedView)
  BY DEF Sent, RepetitionFrom, Repetition
<1>2. /\ DOMAIN r.opened_views = 1 .. 2 /\ r.challenge \in Party
      /\ others(r.challenge)[i] \in Party
      /\ r.opened_views[i].view = views[others(r.challenge)[i]]
      /\ r.opened_views[i].view.party_id = others(r.challenge)[i]
      /\ r.opened_views[i].view.repetition_id = n - 1
      /\ r.opened_views[i].randomness = fresh_randomness(n - 1, others(r.challenge)[i])
  BY <1>1, HonestOpened
<1> QED BY <1>1, <1>2

LEMMA SentCommitment ==
  ASSUME NEW r, NEW n, NEW views, NEW w, NEW ref, Sent(r, n, views, w, ref), NEW p \in Party
  PROVE  /\ r.commitments \in Seq(ViewCommitment) /\ Len(r.commitments) = 3
         /\ p + 1 \in DOMAIN r.commitments
         /\ r.commitments[p + 1].view = views[p]
         /\ r.commitments[p + 1].randomness = fresh_randomness(n - 1, p)
         /\ r.commitments[p + 1] = commit_view(views[p], fresh_randomness(n - 1, p))
<1>1. /\ r.commitments \in Seq(ViewCommitment) /\ Len(r.commitments) = 3
      /\ r.commitments[p + 1] = commit_view(views[p], fresh_randomness(n - 1, p))
  BY SentCommitments
<1>2. p + 1 \in 1 .. 3
  BY DEF Party
<1>3. DOMAIN r.commitments = 1 .. 3
  BY <1>1
<1> QED BY <1>1, <1>2, <1>3 DEF commit_view

LEMMA DamagedId ==
  ASSUME NEW r, NEW n, NEW views, NEW w, NEW ref, Sent(r, n, views, w, ref)
  PROVE  ~Opens([r EXCEPT !.id = @ + 1], n)
<1>1. r.id = n - 1 /\ r \in Repetition
  BY SentFacts DEF Sent
<1> QED BY <1>1 DEF Opens, Repetition

LEMMA DamagedChallenge ==
  ASSUME NEW r, NEW n, NEW views, NEW w, NEW ref, Sent(r, n, views, w, ref), NEW h \in Party, h # r.challenge
  PROVE  ~Opens([r EXCEPT !.challenge = h], n)
<1> DEFINE r2 == [r EXCEPT !.challenge = h]
           c == r.challenge
<1>1. /\ c \in Party /\ DOMAIN r.opened_views = 1 .. 2
      /\ \A i \in 1 .. 2 : r.opened_views[i].view.party_id = others(c)[i]
  BY SentViews
<1>2. r2.challenge = h /\ r2.opened_views = r.opened_views
  BY DEF Sent, Repetition
<1> HIDE DEF r2
<1>3. ASSUME Opens(r2, n) PROVE FALSE
  <2>1. [i \in DOMAIN r.opened_views |-> r.opened_views[i].view.party_id] = others(h)
    BY <1>2, <1>3 DEF Opens
  <2>2. others(h)[1] = others(c)[1] /\ others(h)[2] = others(c)[2]
    BY <1>1, <2>1
  <2> QED BY <1>1, <2>2 DEF others, Party
<1> QED BY <1>3 DEF r2

LEMMA DamagedCommitment ==
  ASSUME NEW r, NEW n, NEW views, NEW w, NEW ref, Sent(r, n, views, w, ref),
         NEW p \in Party, p # r.challenge
  PROVE  ~Opens([r EXCEPT !.commitments[p + 1].randomness.repetition = @ + 1], n)
<1> DEFINE r2 == [r EXCEPT !.commitments[p + 1].randomness.repetition = @ + 1]
<1>1. r2.commitments = [r.commitments EXCEPT ![p + 1].randomness.repetition = @ + 1]
      /\ r2.opened_views = r.opened_views
  BY DEF Sent, Repetition
<1> HIDE DEF r2
<1>2. /\ p + 1 \in DOMAIN r.commitments
      /\ r.commitments[p + 1] = commit_view(views[p], fresh_randomness(n - 1, p))
  BY SentCommitment
<1>3. r.commitments[p + 1] = [view |-> views[p], randomness |-> [repetition |-> n - 1, party |-> p]]
  BY <1>2 DEF commit_view, fresh_randomness
<1>4. r2.commitments[p + 1].randomness.repetition = (n - 1) + 1
  BY <1>1, <1>2, <1>3
<1>5. PICK i \in 1 .. 2 : others(r.challenge)[i] = p
  <2>1. r.challenge \in Party
    BY SentViews
  <2> QED BY <2>1, OthersFacts
<1>6. /\ r.opened_views[i].view = views[p] /\ r.opened_views[i].view.party_id = p
      /\ r.opened_views[i].randomness = fresh_randomness(n - 1, p)
  BY <1>5, SentViews
<1>7. ASSUME Opens(r2, n) PROVE FALSE
  <2>1. verify_commitment(r2.commitments[p + 1], views[p], fresh_randomness(n - 1, p))
    BY <1>1, <1>6, <1>7, SMTT(30) DEF Opens
  <2>2. r2.commitments[p + 1].randomness.repetition = n - 1
    BY <2>1 DEF verify_commitment, commit_view, fresh_randomness
  <2>3. n \in Nat
    BY DEF Sent
  <2> QED BY <1>4, <2>2, <2>3
<1> QED BY <1>7 DEF r2

LEMMA DamagedCommitments ==
  ASSUME NEW r, NEW n, NEW views, NEW w, NEW ref, Sent(r, n, views, w, ref)
  PROVE  ~Opens([r EXCEPT !.commitments = Tail(@)], n)
<1> DEFINE c == r.commitments
<1>1. c \in Seq(ViewCommitment) /\ Len(c) = 3
  BY SentCommitments
<1>2. [r EXCEPT !.commitments = Tail(@)].commitments = Tail(c)
  BY DEF Sent, Repetition
<1> HIDE DEF c
<1>3. c # << >> /\ Len(Tail(c)) = Len(c) - 1
  BY <1>1
<1>4. Len(Tail(c)) # 3
  <2> DEFINE m == Len(Tail(c))
  <2> HIDE DEF m
  <2>1. m = 3 - 1
    BY <1>1, <1>3 DEF m
  <2>2. m # 3
    BY <2>1
  <2> QED BY <2>2 DEF m
<1> QED BY <1>2, <1>4 DEF Opens

LEMMA DamagedViews ==
  ASSUME NEW r, NEW n, NEW views, NEW w, NEW ref, Sent(r, n, views, w, ref)
  PROVE  /\ ~Opens([r EXCEPT !.opened_views = Tail(@)], n)
         /\ ~Opens([r EXCEPT !.opened_views = <<@[2], @[1]>>], n)
<1> DEFINE o == r.opened_views
           h == r.challenge
           r2 == [r EXCEPT !.opened_views = Tail(@)]
           r3 == [r EXCEPT !.opened_views = <<@[2], @[1]>>]
<1>0. o \in Seq(OpenedView) /\ Len(o) = 2
  BY SentFacts
<1>1. h \in Party /\ \A i \in 1 .. 2 : o[i].view.party_id = others(h)[i]
  BY SentViews
<1>2. r2.opened_views = Tail(o) /\ r2.challenge = h
  BY DEF Sent, Repetition
<1>3. r3.opened_views = <<o[2], o[1]>> /\ r3.challenge = h
  BY DEF Sent, Repetition
<1>4. DOMAIN others(h) = 1 .. 2 /\ others(h)[1] # others(h)[2]
  BY <1>1, OthersFacts
<1> HIDE DEF o, h, r2, r3
<1>5. ASSUME Opens(r2, n) PROVE FALSE
  <2>1. [i \in DOMAIN Tail(o) |-> Tail(o)[i].view.party_id] = others(h)
    BY <1>2, <1>5 DEF Opens
  <2>2. DOMAIN Tail(o) = 1 .. 2
    BY <1>4, <2>1
  <2> DEFINE t == Tail(o)
  <2>3. t \in Seq(OpenedView) /\ Len(t) = Len(o) - 1
    BY <1>0
  <2> HIDE DEF t
  <2>4. Len(t) = 1 /\ 2 \notin DOMAIN t
    BY <1>0, <2>3
  <2> QED BY <2>2, <2>4 DEF t
<1>6. ASSUME Opens(r3, n) PROVE FALSE
  <2> DEFINE t == <<o[2], o[1]>>
  <2>1. [i \in DOMAIN t |-> t[i].view.party_id] = others(h)
    BY <1>3, <1>6 DEF Opens
  <2>2. 1 \in DOMAIN t /\ t[1] = o[2]
    OBVIOUS
  <2>3. others(h)[1] = o[2].view.party_id
    BY <2>1, <2>2
  <2> QED BY <1>1, <1>4, <2>3
<1> QED BY <1>5, <1>6 DEF r2, r3

\* An opened view, or its randomness, that is not the committed one.
LEMMA UnboundView ==
  ASSUME NEW r, NEW n, NEW views, NEW w, NEW ref, Sent(r, n, views, w, ref), NEW i \in 1 .. 2,
         NEW r2, r2.commitments = r.commitments,
         r2.opened_views[i].view.party_id = r.opened_views[i].view.party_id,
         \/ r2.opened_views[i].view # r.opened_views[i].view
         \/ r2.opened_views[i].randomness # r.opened_views[i].randomness
  PROVE  ~Opens(r2, n)
<1> SUFFICES ASSUME Opens(r2, n) PROVE FALSE
  OBVIOUS
<1> DEFINE p == others(r.challenge)[i]
           o == r2.opened_views[i]
<1>1. /\ p \in Party
      /\ r.opened_views[i].view = views[p]
      /\ r.opened_views[i].view.party_id = p
      /\ r.opened_views[i].randomness = fresh_randomness(n - 1, p)
  BY SentViews
<1>2. r.commitments[p + 1] = commit_view(views[p], fresh_randomness(n - 1, p))
  BY <1>1, SentCommitment
<1>3. verify_commitment(r2.commitments[o.view.party_id + 1], o.view, o.randomness)
  BY DEF Opens
<1> HIDE DEF o, p
<1>4. commit_view(views[p], fresh_randomness(n - 1, p)) = commit_view(o.view, o.randomness)
  BY <1>1, <1>2, <1>3 DEF verify_commitment, o
<1>5. o.view = views[p] /\ o.randomness = fresh_randomness(n - 1, p)
  BY <1>4 DEF commit_view
<1> QED BY <1>1, <1>5 DEF o

\* A view that says it is of another party or repetition.
LEMMA DamagedView ==
  ASSUME NEW r, NEW n, NEW views, NEW w, NEW ref, Sent(r, n, views, w, ref), NEW i \in 1 .. 2,
         NEW r2,
         \/ r2 = [r EXCEPT !.opened_views[i].view.repetition_id = @ + 1]
         \/ r2 = [r EXCEPT !.opened_views[i].view.party_id = (@ + 1) % 3]
  PROVE  ~Opens(r2, n)
<1> SUFFICES ASSUME Opens(r2, n) PROVE FALSE
  OBVIOUS
<1> DEFINE o == r.opened_views
           o2 == r2.opened_views
           p == others(r.challenge)[i]
<1>1. /\ r.challenge \in Party /\ p \in Party /\ DOMAIN o = 1 .. 2 /\ o[i] \in OpenedView
      /\ o[i].view.party_id = p /\ o[i].view.repetition_id = n - 1
  BY SentViews, SMTT(30)
<1>2. o[i].view \in PartyView
  BY <1>1 DEF OpenedView
<1>3. r \in Repetition /\ r.id = n - 1 /\ n \in Nat
  BY SentFacts DEF Sent
<1>4. CASE r2 = [r EXCEPT !.opened_views[i].view.repetition_id = @ + 1]
  <2>1. o2 = [o EXCEPT ![i].view.repetition_id = @ + 1] /\ r2.id = n - 1
    BY <1>3, <1>4 DEF Repetition
  <2>2. o2[i].view = [o[i].view EXCEPT !.repetition_id = @ + 1]
    BY <1>1, <2>1 DEF OpenedView
  <2>3. o2[i].view.repetition_id = (n - 1) + 1
    BY <1>1, <1>2, <2>2 DEF PartyView
  <2>4. o2[i].view.repetition_id = n - 1
    BY <2>1 DEF Opens
  <2> QED BY <1>3, <2>3, <2>4
<1>5. CASE r2 = [r EXCEPT !.opened_views[i].view.party_id = (@ + 1) % 3]
  <2>1. o2 = [o EXCEPT ![i].view.party_id = (@ + 1) % 3] /\ r2.challenge = r.challenge
    BY <1>3, <1>5 DEF Repetition
  <2>2. o2[i].view = [o[i].view EXCEPT !.party_id = (@ + 1) % 3] /\ i \in DOMAIN o2
    BY <1>1, <2>1 DEF OpenedView
  <2>3. o2[i].view.party_id = (p + 1) % 3
    BY <1>1, <1>2, <2>2 DEF PartyView
  <2>4. [k \in DOMAIN o2 |-> o2[k].view.party_id] = others(r2.challenge)
    BY DEF Opens
  <2>5. others(r.challenge)[i] = (p + 1) % 3
    BY <2>1, <2>2, <2>3, <2>4, SMTT(30)
  <2>6. \A x \in Party : (x + 1) % 3 # x
    BY DEF Party
  <2> QED BY <1>1, <2>5, <2>6
<1> QED BY <1>4, <1>5

\* As many broadcasts as the opened views have, an even number.
LEMMA SentBroadcasts ==
  ASSUME NEW r, NEW n, NEW views, NEW w, NEW ref, Sent(r, n, views, w, ref)
  PROVE  /\ r.hidden_broadcasts \in Seq(F)
         /\ r.hidden_broadcasts = views[r.challenge].opened_values
         /\ Len(r.hidden_broadcasts) = Len(views[0].opened_values)
         /\ \E m \in Nat : Len(r.hidden_broadcasts) = 2 * m
         /\ \A p \in Party : Len(views[p].opened_values) = Len(r.hidden_broadcasts)
<1>1. /\ r.hidden_broadcasts \in Seq(F) /\ r.challenge \in Party
      /\ r.hidden_broadcasts = views[r.challenge].opened_values
      /\ \A p \in Party : Len(views[p].opened_values) = Len(views[0].opened_values)
  BY SentFacts
<1>2. views[0] \in PartyView /\ 0 \in Party
  <2>1. 0 \in Party
    BY DEF Party
  <2> QED BY <2>1, SentFacts
<1>3. Len(views[0].opened_values) = 2 * Len(views[0].triple_shares)
  BY <1>2 DEF Sent, RepetitionFrom, OpenedFrom, ViewReplays
<1>4. Len(views[0].triple_shares) \in Nat
  BY <1>2, ViewTypes
<1> QED BY <1>1, <1>3, <1>4

LEMMA DamagedBroadcasts ==
  ASSUME NEW r, NEW n, NEW views, NEW w, NEW ref, Sent(r, n, views, w, ref), NEW r2,
         \/ r.hidden_broadcasts # << >> /\ r2 = [r EXCEPT !.hidden_broadcasts = Tail(@)]
         \/ r2 = [r EXCEPT !.hidden_broadcasts = @ \o <<Zero, Zero>>]
  PROVE  ~Opens(r2, n)
<1> DEFINE b == r.hidden_broadcasts
           l == Len(b)
<1>1. b \in Seq(F) /\ \A p \in Party : Len(views[p].opened_values) = l
  BY SentBroadcasts
<1>2. PICK m \in Nat : l = 2 * m
  BY SentBroadcasts
<1>3. r \in Repetition
  BY DEF Sent
<1>4. CASE b # << >> /\ r2 = [r EXCEPT !.hidden_broadcasts = Tail(@)]
  <2>1. r2.hidden_broadcasts = Tail(b)
    BY <1>3, <1>4 DEF Repetition
  <2>2. Len(Tail(b)) = l - 1
    BY <1>1, <1>4
  <2> HIDE DEF l
  <2>3. (l - 1) % 2 = 1
    BY <1>2
  <2> QED BY <2>1, <2>2, <2>3 DEF Opens
<1>5. CASE r2 = [r EXCEPT !.hidden_broadcasts = @ \o <<Zero, Zero>>]
  <2>1. r2.hidden_broadcasts = b \o <<Zero, Zero>> /\ r2.opened_views = r.opened_views
    BY <1>3, <1>5 DEF Repetition
  <2>2. Len(b \o <<Zero, Zero>>) = l + 2
    BY <1>1
  <2>3. Len(r.opened_views[1].view.opened_values) = l
    <3>1. 1 \in 1 .. 2
      OBVIOUS
    <3> QED BY <1>1, <3>1, SentViews
  <2> HIDE DEF l
  <2>4. l < l + 2
    BY <1>2
  <2>5. ASSUME Opens(r2, n) PROVE FALSE
    <3>1. ~(Len(r2.opened_views[1].view.opened_values) < Len(r2.hidden_broadcasts))
      BY <2>5, SMTT(30) DEF Opens
    <3> QED BY <2>1, <2>2, <2>3, <2>4, <3>1
  <2> QED BY <2>5
<1> QED BY <1>4, <1>5
-----------------------------------------------------------------------------
(* A repetition that spoils the proof.                                     *)

\* What the hidden party of r should have sent for output k.
HiddenShare(r, w, k) ==
  LET x == w[r.challenge][job.circuit.outputs[k]] IN IF x.shared THEN x.v ELSE Zero

\* What r says of the hidden party is not what evaluation w has for it.
Misstates(r, views, w) ==
  \/ ~AgreesUpTo(MasksOf(views), GlobalsOf(r), Len(views[0].opened_values))
  \/ Len(r.hidden_output_shares) # Len(job.circuit.outputs)
  \/ \E k \in DOMAIN job.circuit.outputs :
       /\ r.hidden_output_shares[k] \in F
       /\ r.hidden_output_shares[k] # HiddenShare(r, w, k)

\* The reference evaluation has the outputs that the statement expects.
Right(ref) ==
  \A k \in DOMAIN job.circuit.outputs :
    ref[job.circuit.outputs[k]] = job.statement.expected_outputs[k]

Forges(r, n, views, w, ref) ==
  /\ Checked(job)
  /\ r.hidden_broadcasts \in Seq(F)
  /\ OpenedFrom(job, r, n, views, w, ref)
  /\ Right(ref)
  /\ Misstates(r, views, w)

\* The n-th repetition cannot be opened, or misstates what the hidden party did.
Spoiled(r, n) == ~Opens(r, n) \/ \E views, w, ref : Forges(r, n, views, w, ref)

Doomed(pf) ==
  \/ pf = << >>
  \/ Len(pf) \in Nat /\ \E n \in 1 .. Len(pf) : Spoiled(pf[n], n)

\* Between two calls nothing is left of the replays before.
Quiet ==
  /\ stage \in {"start", "open"} => Idle /\ replays = << >>
  /\ stage = "outputs" => Idle

\* The verification has still to deal with the n-th repetition, which is spoiled.
Ahead(n) ==
  /\ Len(proof) \in Nat
  /\ n \in 1 .. Len(proof)
  /\ rep \in 1 .. n
  /\ verdict = "none" /\ stage # "done"
  /\ Spoiled(proof[n], n)
  /\ \/ Quiet /\ (rep < n \/ stage \in {"start", "open"})
     \/ /\ rep = n
        /\ \E views, w, ref :
             Follows(views, w, ref) /\ Right(ref) /\ Misstates(repetition, views, w)

\* The verification has not accepted the proof and will not.
Unaccepted ==
  \/ stage = "done" /\ verdict # "Valid"
  \/ Fresh /\ proof = << >>
  \/ \E n \in Nat : Ahead(n)

LEMMA OpenErrors ==
  /\ OpenError \in VerifierErrors \cup {"none"}
  /\ OpenError # "Valid"
BY DEF OpenError, BindingError, VerifierErrors

LEMMA ReplayErrors ==
  /\ \A expected : ExpectError(expected) \in VerifierErrors \cup {"none"}
  /\ MaskError \in VerifierErrors \cup {"none"}
  /\ "Valid" \notin VerifierErrors
BY DEF ExpectError, MaskError, VerifierErrors

\* A proof that is doomed when verify is called is not accepted.
LEMMA DoomedUnaccepted ==
  ASSUME Fresh, Doomed(proof)
  PROVE  Unaccepted
<1>1. CASE proof = << >>
  BY <1>1 DEF Unaccepted
<1>2. CASE Len(proof) \in Nat /\ \E n \in 1 .. Len(proof) : Spoiled(proof[n], n)
  <2>1. PICK n \in 1 .. Len(proof) : Spoiled(proof[n], n)
    BY <1>2
  <2>2. n \in Nat /\ 1 \in 1 .. n
    BY <1>2, <2>1
  <2>3. Ahead(n)
    BY <1>2, <2>1, <2>2 DEF Fresh, Ahead, Quiet
  <2> QED BY <2>2, <2>3 DEF Unaccepted
<1> QED BY <1>1, <1>2 DEF Doomed

\* A misstated output share makes an output fail.
LEMMA ForgedOutputs ==
  ASSUME NEW views, NEW w, NEW ref, AtOutputs(views, w, ref), Right(ref),
         Misstates(repetition, views, w)
  PROVE  OutputVerdict # "Valid"
<1> DEFINE outs == job.circuit.outputs
           h == repetition.challenge
           hs == repetition.hidden_output_shares
<1>1. AgreesUpTo(MasksOf(views), GlobalsOf(repetition), Len(views[0].opened_values))
  BY DEF AtOutputs, Globals, GlobalsOf, opened
<1>2. CASE Len(hs) # Len(outs)
  BY <1>2 DEF OutputVerdict
<1>3. CASE \E k \in DOMAIN outs : hs[k] \in F /\ hs[k] # HiddenShare(repetition, w, k)
  <2>1. PICK k \in DOMAIN outs : hs[k] \in F /\ hs[k] # HiddenShare(repetition, w, k)
    BY <1>3
  <2> DEFINE o == outs[k]
  <2>2. CASE k \in SecretOutputs
    <3> DEFINE x == w[h][o].v
               y == replays[1][o].v
               z == replays[2][o].v
    <3>1. /\ w[h][o].shared /\ x \in F /\ y \in F /\ z \in F
          /\ Plus(Plus(x, y), z) = ref[o]
      BY <2>2, OutputFacts
    <3>2. HiddenShare(repetition, w, k) = x
      BY <3>1 DEF HiddenShare
    <3>3. OutputTotal(k) = Plus(Plus(hs[k], y), z)
      BY DEF OutputTotal
    <3>4. ref[o] = job.statement.expected_outputs[k]
      BY DEF Right
    <3>5. Plus(Plus(hs[k], y), z) # Plus(Plus(x, y), z)
      <4> DEFINE v == hs[k]
      <4>1. v \in F /\ v # x
        BY <2>1, <3>2
      <4> HIDE DEF v, x, y, z
      <4>2. Plus(v, y) \in F /\ Plus(x, y) \in F
        BY <3>1, <4>1, FieldClosed
      <4>3. ASSUME Plus(Plus(v, y), z) = Plus(Plus(x, y), z) PROVE FALSE
        <5>1. Plus(v, y) = Plus(x, y)
          BY <3>1, <4>2, <4>3, PlusCancel
        <5> QED BY <3>1, <4>1, <5>1, PlusCancel
      <4> QED BY <4>3 DEF v
    <3> HIDE DEF x, y, z, hs
    <3>6. OutputTotal(k) # job.statement.expected_outputs[k]
      BY <3>1, <3>3, <3>4, <3>5
    <3> QED BY <2>2, <3>6 DEF OutputFailures, OutputVerdict
  <2>3. CASE k \notin SecretOutputs
    <3>1. ~w[h][o].shared
      BY <2>3, OutputFacts
    <3>2. HiddenShare(repetition, w, k) = Zero
      BY <3>1 DEF HiddenShare
    <3>3. k \in OutputFailures
      BY <2>1, <2>3, <3>2 DEF OutputFailures
    <3> QED BY <3>3 DEF OutputVerdict
  <2> QED BY <2>2, <2>3
<1> QED BY <1>1, <1>2, <1>3 DEF Misstates

\* A node is replayed, or an error is returned.
Goes == \E val, cur : Step(val, cur)

Errs == \E e \in VerifierErrors : Return(e)

LEMMA OpOutcome ==
  ASSUME NEW expected, NEW val, StepWithOp(expected, val)
  PROVE  Goes \/ Errs
<1>1. CASE ExpectError(expected) # "none"
  <2>1. Return(ExpectError(expected))
    BY <1>1 DEF StepWithOp
  <2> QED BY <1>1, <2>1, ReplayErrors DEF Errs
<1>2. CASE ExpectError(expected) = "none"
  BY <1>2 DEF StepWithOp, Goes
<1> QED BY <1>1, <1>2

LEMMA NodeOutcome ==
  ASSUME ReplayNode
  PROVE  Goes \/ Errs
<1>1. CASE \/ ReplaySecretInput \/ ReplayPublicInput \/ ReplayConstant
           \/ ReplayAddPublic \/ ReplayMulPublic
  BY <1>1, Zenon DEF ReplaySecretInput, ReplayPublicInput, ReplayConstant, ReplayAddPublic,
       ReplayMulPublic, Goes
<1>2. CASE ReplayAddShared \/ ReplayMulMixed
  BY <1>2, OpOutcome DEF ReplayAddShared, ReplayMulMixed
<1>3. CASE ReplayAddMixed
  <2>1. CASE party = 0
    BY <1>3, <2>1, OpOutcome DEF ReplayAddMixed
  <2>2. CASE party # 0
    BY <1>3, <2>2 DEF ReplayAddMixed, Goes
  <2> QED BY <2>1, <2>2
<1>4. CASE ReplayMulShared
  <2>1. CASE MaskError # "none"
    <3>1. Return(MaskError)
      BY <1>4, <2>1 DEF ReplayMulShared
    <3> QED BY <2>1, <3>1, ReplayErrors DEF Errs
  <2>2. CASE MaskError = "none"
    <3>1. \E expected : \/ ExpectError(expected) # "none" /\ Return(ExpectError(expected))
                        \/ Goes
      BY <1>4, <2>2 DEF ReplayMulShared, Goes
    <3> QED BY <3>1, ReplayErrors DEF Errs
  <2> QED BY <2>1, <2>2
<1> QED BY <1>1, <1>2, <1>3, <1>4 DEF ReplayNode

\* What a step of the verifier does: it goes on in the same repetition, passes on to
\* the next one, or returns, and Valid only with the outputs of the last one.
LEMMA StepOutcome ==
  ASSUME VerifierNext, Quiet
  PROVE  /\ stage # "done"
         /\ \/ stage' # "done" /\ UNCHANGED <<rep, verdict>> /\ Quiet'
            \/ /\ rep < Len(proof) /\ rep' = rep + 1 /\ verdict' = verdict
               /\ stage' = "open" /\ Quiet'
            \/ stage' = "done" /\ (verdict' # "Valid" \/ ~(rep < Len(proof)))
<1>1. CASE verify
  <2>1. statement_validate(job.statement, job.circuit) # "Valid"
    BY DEF statement_validate
  <2> QED BY <1>1, <2>1 DEF verify, Return, Quiet, Idle
<1>2. CASE verify_repetition
  BY <1>2, OpenErrors DEF verify_repetition, Return, Quiet
<1>3. CASE WrongInputCount
  BY <1>3 DEF WrongInputCount, Return
<1>4. CASE ReplayNode
  <2>1. stage = "replay"
    BY <1>4 DEF ReplayNode, AtReplay, ReplaySecretInput, ReplayPublicInput, ReplayConstant,
         ReplayAddPublic, ReplayAddShared, ReplayAddMixed, ReplayMulPublic, ReplayMulMixed,
         ReplayMulShared
  <2>2. Goes \/ Errs
    BY <1>4, NodeOutcome
  <2> QED BY <2>1, <2>2, ReplayErrors DEF Goes, Errs, Step, Return, Quiet
<1>5. CASE FinishReplay
  BY <1>5 DEF FinishReplay, Return, Quiet, Idle, NextView
<1>6. CASE check_outputs
  BY <1>6 DEF check_outputs, Return, Quiet, Idle, NextRepetition
<1> QED BY <1>1, <1>2, <1>3, <1>4, <1>5, <1>6 DEF VerifierNext

LEMMA StageActs ==
  ASSUME VerifierNext
  PROVE  /\ stage # "done"
         /\ stage = "start" => verify
         /\ stage = "open" => verify_repetition
BY DEF VerifierNext, verify, verify_repetition, WrongInputCount, FinishReplay,
       check_outputs, ReplayNode, AtReplay, ReplaySecretInput, ReplayPublicInput,
       ReplayConstant, ReplayAddPublic, ReplayAddShared, ReplayAddMixed, ReplayMulPublic,
       ReplayMulMixed, ReplayMulShared

\* The spoiled repetition itself.
LEMMA SpoiledStep ==
  ASSUME NEW views, NEW w, NEW ref, Follows(views, w, ref), Right(ref),
         Misstates(repetition, views, w), VerifierNext, UNCHANGED <<job, proof>>
  PROVE  \/ /\ UNCHANGED <<rep, verdict>>
            /\ Follows(views, w, ref)' /\ Right(ref)' /\ Misstates(repetition, views, w)'
         \/ stage' = "done" /\ verdict' # "Valid"
<1>1. CASE Follows(views, w, ref)' /\ UNCHANGED <<rep, verdict>>
  <2>1. repetition' = repetition
    BY <1>1 DEF repetition
  <2>2. Right(ref)' /\ Misstates(repetition, views, w)'
    BY <2>1 DEF Right, Misstates, HiddenShare, GlobalsOf
  <2> QED BY <1>1, <2>2
<1>2. CASE Return(OpenError)
  BY <1>2, OpenErrors DEF Return
<1>3. CASE \E e \in VerifierErrors : Return(e)
  <2>1. "Valid" \notin VerifierErrors
    BY DEF VerifierErrors
  <2> QED BY <1>3, <2>1 DEF Return
<1>4. CASE AtOutputs(views, w, ref) /\ check_outputs
  <2>1. OutputVerdict # "Valid"
    BY <1>4, ForgedOutputs
  <2> QED BY <1>4, <2>1 DEF check_outputs, Return
<1> QED BY <1>1, <1>2, <1>3, <1>4, FollowsStep

\* Following a repetition means that the verification is not over.
LEMMA FollowsStage ==
  ASSUME NEW views, NEW w, NEW ref, Follows(views, w, ref)
  PROVE  stage # "done"
BY DEF Follows, AtOpen, AtView, AtOutputs, Replaying

LEMMA FollowsStageNext ==
  ASSUME NEW views, NEW w, NEW ref, Follows(views, w, ref)'
  PROVE  stage' # "done"
BY DEF Follows, AtOpen, AtView, AtOutputs, Replaying

LEMMA AheadStep ==
  ASSUME NEW n \in Nat, Ahead(n), VerifierNext, UNCHANGED <<job, proof>>
  PROVE  Ahead(n)' \/ (stage' = "done" /\ verdict' # "Valid")
<1>1. /\ Len(proof) \in Nat /\ n \in 1 .. Len(proof) /\ rep \in 1 .. n
      /\ verdict = "none" /\ Spoiled(proof[n], n)
  BY DEF Ahead
<1>2. Len(proof') \in Nat /\ n \in 1 .. Len(proof') /\ Spoiled(proof[n], n)'
  BY <1>1 DEF Spoiled, Opens, Forges, Right, Misstates, HiddenShare, GlobalsOf
<1>3. ASSUME NEW views, NEW w, NEW ref, rep = n, Follows(views, w, ref), Right(ref),
             Misstates(repetition, views, w)
      PROVE  Ahead(n)' \/ (stage' = "done" /\ verdict' # "Valid")
  <2>1. CASE /\ UNCHANGED <<rep, verdict>>
             /\ Follows(views, w, ref)' /\ Right(ref)' /\ Misstates(repetition, views, w)'
    <3>1. stage' # "done"
      BY <2>1, FollowsStageNext
    <3> QED BY <1>1, <1>2, <1>3, <2>1, <3>1 DEF Ahead
  <2>2. CASE stage' = "done" /\ verdict' # "Valid"
    BY <2>2
  <2> QED BY <1>3, <2>1, <2>2, SpoiledStep
<1>4. CASE Quiet /\ rep < n
  <2>1. rep < Len(proof)
    BY <1>1, <1>4
  <2>2. CASE stage' # "done" /\ UNCHANGED <<rep, verdict>> /\ Quiet'
    BY <1>1, <1>2, <1>4, <2>2 DEF Ahead
  <2>3. CASE /\ rep' = rep + 1 /\ verdict' = verdict
             /\ stage' = "open" /\ Quiet'
    <3>1. rep' \in 1 .. n
      BY <1>1, <1>4, <2>3
    <3> QED BY <1>1, <1>2, <2>3, <3>1 DEF Ahead
  <2> QED BY <1>4, <2>1, <2>2, <2>3, StepOutcome
<1>5. CASE Quiet /\ rep = n /\ stage = "start"
  <2>1. verify
    BY <1>5, StageActs
  <2>2. statement_validate(job.statement, job.circuit) # "Valid"
    BY DEF statement_validate
  <2>3. CASE stage' = "done"
    BY <2>1, <2>2, <2>3 DEF verify, Return
  <2>4. CASE stage' # "done"
    <3>1. /\ stage' = "open"
          /\ UNCHANGED <<verdict, rep, globals, who, replayed, cursor, replays>>
      BY <2>1, <2>4 DEF verify, Return
    <3>2. Quiet'
      BY <1>5, <3>1 DEF Quiet, Idle
    <3> QED BY <1>1, <1>2, <3>1, <3>2 DEF Ahead
  <2> QED BY <2>3, <2>4
<1>6. CASE Quiet /\ rep = n /\ stage = "open"
  <2>1. verify_repetition
    BY <1>6, StageActs
  <2>2. CASE OpenError # "none"
    BY <2>1, <2>2, OpenErrors DEF verify_repetition, Return
  <2>3. CASE OpenError = "none"
    <3>1. Opens(proof[n], n)
      BY <1>6, <2>3, OpenedMeans DEF repetition
    <3>2. PICK views, w, ref : Forges(proof[n], n, views, w, ref)
      BY <1>1, <3>1 DEF Spoiled
    <3>3. At(views, w, ref) /\ Right(ref) /\ Misstates(repetition, views, w)
      BY <1>1, <1>6, <3>2 DEF At, Forges, repetition
    <3>4. Follows(views, w, ref)
      BY <1>6, <3>3 DEF Follows, AtOpen, Quiet
    <3> QED BY <1>3, <1>6, <3>3, <3>4
  <2> QED BY <2>2, <2>3
<1> QED BY <1>1, <1>3, <1>4, <1>5, <1>6 DEF Ahead

\* What is not accepted stays so, whatever the verifier does.
LEMMA UnacceptedStep ==
  ASSUME Unaccepted, VerifierNext, UNCHANGED <<job, proof>>
  PROVE  Unaccepted'
<1>1. CASE stage = "done"
  BY <1>1, StageActs
<1>2. CASE Fresh /\ proof = << >>
  <2>1. verify
    BY <1>2, StageActs DEF Fresh
  <2>2. statement_validate(job.statement, job.circuit) # "Valid"
    BY DEF statement_validate
  <2>3. stage' = "done" /\ verdict' # "Valid"
    BY <1>2, <2>1, <2>2 DEF verify, Return
  <2> QED BY <2>3 DEF Unaccepted
<1>3. CASE \E n \in Nat : Ahead(n)
  BY <1>3, AheadStep DEF Unaccepted
<1> QED BY <1>1, <1>2, <1>3 DEF Unaccepted

LEMMA UnacceptedKept ==
  ASSUME Unaccepted, UNCHANGED <<job, proof, verifierVars>>
  PROVE  Unaccepted'
<1>1. UNCHANGED <<stage, verdict, rep, globals, who, replayed, cursor, replays>>
  BY DEF verifierVars
<1>2. UNCHANGED <<repetition, Fresh, Quiet>>
  BY <1>1 DEF repetition, Fresh, Quiet, Idle
<1>3. ASSUME NEW n \in Nat, Ahead(n)
      PROVE  Ahead(n)'
  <2>1. Spoiled(proof[n], n)'
    BY <1>3 DEF Ahead, Spoiled, Opens, Forges, Right, Misstates, HiddenShare, GlobalsOf
  <2>2. ASSUME NEW views, NEW w, NEW ref, Follows(views, w, ref), Right(ref),
               Misstates(repetition, views, w)
        PROVE  Follows(views, w, ref)' /\ Right(ref)' /\ Misstates(repetition, views, w)'
    <3>1. Follows(views, w, ref)'
      BY <2>2, FollowsKept
    <3>2. Right(ref)' /\ Misstates(repetition, views, w)'
      BY <1>2, <2>2 DEF Right, Misstates, HiddenShare, GlobalsOf
    <3> QED BY <3>1, <3>2
  <2> QED BY <1>1, <1>2, <1>3, <2>1, <2>2 DEF Ahead
<1> QED BY <1>1, <1>2, <1>3 DEF Unaccepted
-----------------------------------------------------------------------------
(* Changes to what a repetition says of the hidden party.                  *)

\* Nothing else was changed.
SameOpening(r, r2) ==
  /\ r2.id = r.id /\ r2.challenge = r.challenge /\ r2.commitments = r.commitments
  /\ r2.opened_views = r.opened_views /\ r2.hidden_broadcasts \in Seq(F)

LEMMA ForgedSpoils ==
  ASSUME NEW r, NEW n, NEW views, NEW w, NEW ref, Sent(r, n, views, w, ref), Right(ref),
         NEW r2, SameOpening(r, r2),
         \/ ~AgreesUpTo(MasksOf(views), GlobalsOf(r2), Len(views[0].opened_values))
         \/ Len(r2.hidden_output_shares) # Len(job.circuit.outputs)
         \/ \E k \in DOMAIN job.circuit.outputs :
              /\ r2.hidden_output_shares[k] \in F
              /\ r2.hidden_output_shares[k] # r.hidden_output_shares[k]
  PROVE  Spoiled(r2, n)
<1>1. /\ Checked(job) /\ OpenedFrom(job, r, n, views, w, ref) /\ HiddenFrom(job, r, views, w)
  BY DEF Sent, RepetitionFrom
<1>2. OpenedFrom(job, r2, n, views, w, ref)
  BY <1>1 DEF OpenedFrom, SameOpening
<1>3. \A k \in DOMAIN job.circuit.outputs : r.hidden_output_shares[k] = HiddenShare(r2, w, k)
  BY <1>1 DEF HiddenFrom, HiddenShare, SameOpening
<1>4. Misstates(r2, views, w)
  BY <1>3 DEF Misstates
<1>5. Forges(r2, n, views, w, ref)
  BY <1>1, <1>2, <1>4 DEF Forges, SameOpening
<1> QED BY <1>5 DEF Spoiled

LEMMA OutputShareSpoils ==
  ASSUME NEW r, NEW n, NEW views, NEW w, NEW ref, Sent(r, n, views, w, ref), Right(ref),
         NEW r2, SameOpening(r, r2), NEW k \in DOMAIN r.hidden_output_shares,
         r2.hidden_output_shares =
           [r.hidden_output_shares EXCEPT ![k] = Plus(r.hidden_output_shares[k], One)]
  PROVE  Spoiled(r2, n)
<1> DEFINE s == r.hidden_output_shares
<1>1. s \in Seq(F) /\ HiddenFrom(job, r, views, w)
  BY SentFacts DEF Sent, RepetitionFrom
<1>2. s[k] \in F
  BY <1>1
<1>3. k \in DOMAIN job.circuit.outputs
  BY <1>1 DEF HiddenFrom
<1>4. r2.hidden_output_shares[k] = Plus(s[k], One)
  OBVIOUS
<1>5. r2.hidden_output_shares[k] \in F /\ r2.hidden_output_shares[k] # s[k]
  BY <1>2, <1>4, PlusOne
<1> QED BY <1>3, <1>5, ForgedSpoils

LEMMA OutputSharesSpoil ==
  ASSUME NEW r, NEW n, NEW views, NEW w, NEW ref, Sent(r, n, views, w, ref), Right(ref),
         NEW r2, SameOpening(r, r2), r2.hidden_output_shares = Tail(r.hidden_output_shares)
  PROVE  Spoiled(r2, n)
<1> DEFINE s == r.hidden_output_shares
           outs == job.circuit.outputs
<1>1. HiddenFrom(job, r, views, w) /\ Checked(job)
  BY DEF Sent, RepetitionFrom
<1>2. s \in Seq(F)
  BY SentFacts
<1>3. outs \in Seq(NodeId) /\ outs # << >> /\ DOMAIN s = DOMAIN outs
  BY <1>1 DEF HiddenFrom, Checked, Circuit, validate
<1>4. Len(s) = Len(outs) /\ Len(outs) \in Nat \ {0}
  <2>1. DOMAIN s = 1 .. Len(outs) /\ Len(outs) \in Nat
    BY <1>3
  <2>2. Len(s) = Len(outs)
    BY <1>2, <2>1, LengthIs
  <2> QED BY <1>3, <2>2
<1> HIDE DEF s, outs
<1>5. Len(Tail(s)) = Len(s) - 1
  BY <1>2, <1>4
<1>6. Len(Tail(s)) # Len(outs)
  <2> DEFINE m == Len(outs)
  <2>1. m \in Nat /\ Len(Tail(s)) = m - 1
    BY <1>4, <1>5
  <2> HIDE DEF m
  <2>2. m - 1 # m
    BY <2>1
  <2> QED BY <2>1, <2>2 DEF m
<1>7. Len(r2.hidden_output_shares) # Len(job.circuit.outputs)
  BY <1>6 DEF s, outs
<1> QED BY <1>7, ForgedSpoils

\* The masks come out differently when the hidden party's broadcasts are changed.
LEMMA BroadcastsSpoil ==
  ASSUME NEW r, NEW n, NEW views, NEW w, NEW ref, Sent(r, n, views, w, ref), Right(ref),
         NEW r2, SameOpening(r, r2),
         \/ \E k \in DOMAIN r.hidden_broadcasts :
              r2.hidden_broadcasts =
                [r.hidden_broadcasts EXCEPT ![k] = Plus(r.hidden_broadcasts[k], One)]
         \/ Len(r2.hidden_broadcasts) < Len(r.hidden_broadcasts)
  PROVE  Spoiled(r2, n)
<1> DEFINE b == r.hidden_broadcasts
           b2 == r2.hidden_broadcasts
           l == Len(b)
           g == MasksOf(views)
           G == GlobalsOf(r2)
           o1 == r.opened_views[1].view.opened_values
           o2 == r.opened_views[2].view.opened_values
<1>1. b2 \in Seq(F) /\ r2.opened_views = r.opened_views
  BY DEF SameOpening
<1>2. b \in Seq(F) /\ l \in Nat /\ l = Len(views[0].opened_values)
  BY SentBroadcasts
<1>3. g = [k \in DOMAIN b |-> Plus(Plus(b[k], o1[k]), o2[k])]
  <2>1. OpenedFrom(job, r, n, views, w, ref) /\ HiddenFrom(job, r, views, w)
    BY DEF Sent, RepetitionFrom
  <2>2. GlobalsOf(r) = g
    BY <2>1, HonestMasks
  <2> QED BY <2>2 DEF GlobalsOf
<1>4. G = [k \in DOMAIN b2 |-> Plus(Plus(b2[k], o1[k]), o2[k])]
  BY <1>1 DEF GlobalsOf
<1>5. ASSUME NEW k \in DOMAIN b
      PROVE  b[k] \in F /\ o1[k] \in F /\ o2[k] \in F
  <2>1. 1 \in 1 .. 2 /\ 2 \in 1 .. 2
    OBVIOUS
  <2>2. /\ r.challenge \in Party
        /\ r.opened_views[1].view = views[others(r.challenge)[1]] /\ others(r.challenge)[1] \in Party
        /\ r.opened_views[2].view = views[others(r.challenge)[2]] /\ others(r.challenge)[2] \in Party
    BY <2>1, SentViews
  <2>3. \A p \in Party : views[p] \in PartyView /\ Len(views[p].opened_values) = l
    BY SentFacts, SentBroadcasts, ZenonT(60)
  <2>4. o1 \in Seq(F) /\ o2 \in Seq(F) /\ Len(o1) = l /\ Len(o2) = l
    BY <2>2, <2>3, ViewTypes
  <2> QED BY <1>2, <2>4, SMTT(30)
<1> HIDE DEF o1, o2, g, l, G, b, b2
<1>6. ~AgreesUpTo(g, G, l) => Spoiled(r2, n)
  BY <1>2, ForgedSpoils DEF g, G
<1>7. CASE \E k \in DOMAIN b : b2 = [b EXCEPT ![k] = Plus(b[k], One)]
  <2>1. PICK k \in DOMAIN b : b2 = [b EXCEPT ![k] = Plus(b[k], One)]
    BY <1>7
  <2>2. DOMAIN b2 = DOMAIN b /\ b2[k] = Plus(b[k], One)
    BY <1>2, <2>1
  <2>3. G[k] = Plus(Plus(b2[k], o1[k]), o2[k]) /\ g[k] = Plus(Plus(b[k], o1[k]), o2[k])
    BY <1>3, <1>4, <2>2
  <2>4. b[k] \in F /\ o1[k] \in F /\ o2[k] \in F
    BY <1>5
  <2>5. b2[k] \in F /\ b2[k] # b[k]
    BY <2>2, <2>4, PlusOne
  <2>6. G[k] # g[k]
    <3> DEFINE x == b2[k]
               y == b[k]
               c == o1[k]
               d == o2[k]
    <3>1. x \in F /\ y \in F /\ c \in F /\ d \in F /\ x # y
      BY <2>4, <2>5
    <3> HIDE DEF x, y, c, d
    <3>2. ASSUME Plus(Plus(x, c), d) = Plus(Plus(y, c), d) PROVE FALSE
      <4>1. Plus(x, c) \in F /\ Plus(y, c) \in F
        BY <3>1, FieldClosed
      <4>2. Plus(x, c) = Plus(y, c)
        BY <3>1, <3>2, <4>1, PlusCancel
      <4> QED BY <3>1, <4>2, PlusCancel
    <3> QED BY <2>3, <3>2 DEF x, y, c, d
  <2>7. k \in 1 .. l
    BY <1>2 DEF l
  <2>8. ~AgreesUpTo(g, G, l)
    BY <2>6, <2>7 DEF AgreesUpTo
  <2> QED BY <1>6, <2>8
<1>8. CASE Len(b2) < l
  <2> DEFINE Sum(k) == Plus(Plus(b2[k], o1[k]), o2[k])
             S == {Sum(k) : k \in DOMAIN b2}
             m == Len(b2)
  <2>1. m \in Nat /\ DOMAIN b2 = 1 .. m
    BY <1>1
  <2> HIDE DEF Sum, m
  <2>2. G = [k \in 1 .. m |-> Sum(k)]
    BY <1>4, <2>1 DEF Sum
  <2>3. G \in [1 .. m -> S]
    BY <2>1, <2>2
  <2> HIDE DEF S
  <2>4. Len(G) = m
    BY <2>1, <2>3
  <2>5. l \in 1 .. l /\ ~(l <= m)
    BY <1>2, <1>8, <2>1 DEF m
  <2>6. ~AgreesUpTo(g, G, l)
    BY <2>4, <2>5 DEF AgreesUpTo
  <2> QED BY <1>6, <2>6
<1> QED BY <1>7, <1>8 DEF b, b2, l
=============================================================================
