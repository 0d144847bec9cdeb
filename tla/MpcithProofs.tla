---------------------------- MODULE MpcithProofs ----------------------------
(***************************************************************************)
(* What the verifier makes of a proof that is not the honest one: one that *)
(* was damaged in transit, one whose view misrecords, and what an accepted *)
(* proof shows whatever became of it.                                      *)
(***************************************************************************)
EXTENDS MpcithHonestProofs

(* A proof damaged in transit.                                             *)

\* The proof is on its way, its first repetition as the prover sent it.
Waiting(r, views, w, ref) ==
  /\ phase = "done"
  /\ Fresh
  /\ proof \in Seq(Repetition)
  /\ 1 \in DOMAIN proof
  /\ r = proof[1]
  /\ Sent(r, 1, views, w, ref)
  /\ ref = reference

LEMMA WaitingFor ==
  ASSUME HonestInv, DoneProof, HonestSoFar, InTransit
  PROVE  \E views, w, ref : Waiting(proof[1], views, w, ref)
<1>1. phase = "done" /\ stage = "start"
  BY DEF InTransit
<1>2. Fresh
  BY <1>1 DEF HonestSoFar, Follows, FollowsHonest, AtOpen, AtView, AtOutputs, Replaying
<1>3. proof \in Seq(Repetition) /\ proof # << >>
  BY <1>1 DEF HonestInv, ProverInv, ProverTypeOK, DoneProof
<1>4. 1 \in DOMAIN proof /\ proof[1] \in Repetition
  BY <1>3
<1>5. PICK views, w, ref : RepetitionFrom(job, proof[1], 1, views, w, ref)
  BY <1>4 DEF HonestInv, ProofHonest, Presents
<1>6. Checked(job)
  BY <1>1, JobChecked DEF HonestInv, ProverInv, Validated
<1>7. ref = reference
  BY <1>1, <1>5, SameReference DEF RepetitionFrom
<1> QED BY <1>1, <1>2, <1>3, <1>4, <1>5, <1>6, <1>7 DEF Waiting, Sent

\* The statement is true.
LEMMA WaitingRight ==
  ASSUME NEW r, NEW views, NEW w, NEW ref, Waiting(r, views, w, ref), WrongOutputs = {}
  PROVE  Right(ref)
BY DEF Waiting, WrongOutputs, Right

\* The proof that is verified, if its statement is true, is doomed.
Dooms == Fresh' /\ (WrongOutputs = {} => Doomed(proof)')

LEMMA SpoiledDooms ==
  ASSUME NEW r, NEW views, NEW w, NEW ref, Waiting(r, views, w, ref), NEW r2, Replace(r2),
         WrongOutputs = {} => Spoiled(r2, 1)
  PROVE  Dooms
<1>1. /\ proof' = [proof EXCEPT ![1] = r2]
      /\ UNCHANGED <<job, phase, reference, verifierVars>>
  BY DEF Replace
<1>2. Fresh'
  BY <1>1 DEF Waiting, Fresh, Idle, verifierVars
<1>3. proof \in Seq(Repetition) /\ 1 \in DOMAIN proof
  BY DEF Waiting
<1>4. /\ proof'[1] = r2 /\ proof' \in Seq(Repetition \cup {r2})
      /\ 1 \in DOMAIN proof'
  <2>1. proof \in Seq(Repetition \cup {r2})
    BY <1>3
  <2> QED BY <1>1, <1>3, <2>1
<1>5. Len(proof') \in Nat /\ 1 \in 1 .. Len(proof')
  BY <1>4
<1>6. ASSUME WrongOutputs = {}
      PROVE  Doomed(proof)'
  <2>1. Spoiled(r2, 1)
    BY <1>6
  <2>2. Spoiled(r2, 1)'
    BY <1>1, <2>1 DEF Spoiled, Opens, Forges, Right, Misstates, HiddenShare, GlobalsOf
  <2> QED BY <1>4, <1>5, <2>2 DEF Doomed
<1> QED BY <1>2, <1>6 DEF Dooms

LEMMA UnopenedDooms ==
  ASSUME NEW r, NEW views, NEW w, NEW ref, Waiting(r, views, w, ref), NEW r2, Replace(r2),
         ~Opens(r2, 1)
  PROVE  Dooms
BY SpoiledDooms DEF Spoiled

\* An input share, or the randomness, of an opened view.
LEMMA ViewDooms ==
  ASSUME NEW r, NEW views, NEW w, NEW ref, Waiting(r, views, w, ref), NEW i \in 1 .. 2, NEW r2,
         Replace(r2),
         \/ r2 = [r EXCEPT !.opened_views[i].randomness.repetition = @ + 1]
         \/ \E k \in DOMAIN r.opened_views[i].view.input_shares :
              r2 = [r EXCEPT !.opened_views[i].view.input_shares = Bump(@, k)]
  PROVE  Dooms
<1> DEFINE o == r.opened_views[i]
<1>1. Sent(r, 1, views, w, ref) /\ r \in Repetition
  BY DEF Waiting, Sent
<1>2. DOMAIN r.opened_views = 1 .. 2 /\ o \in OpenedView
  BY <1>1, SentViews
<1>3. o.view \in PartyView
  BY <1>2 DEF OpenedView
<1>4. CASE r2 = [r EXCEPT !.opened_views[i].randomness.repetition = @ + 1]
  <2>1. /\ r2.commitments = r.commitments
        /\ r2.opened_views = [r.opened_views EXCEPT ![i].randomness.repetition = @ + 1]
    BY <1>1, <1>4 DEF Repetition
  <2>2. r2.opened_views[i] = [o EXCEPT !.randomness.repetition = @ + 1]
    BY <1>2, <2>1
  <2>3. /\ r2.opened_views[i].view = o.view
        /\ r2.opened_views[i].randomness = [o.randomness EXCEPT !.repetition = @ + 1]
    BY <1>2, <2>2 DEF OpenedView
  <2>4. o.randomness = [repetition |-> 1 - 1, party |-> others(r.challenge)[i]]
    <3>1. o.randomness = fresh_randomness(1 - 1, others(r.challenge)[i])
      BY <1>1, SentViews
    <3> QED BY <3>1 DEF fresh_randomness
  <2>5. o.randomness.repetition = 0 /\ r2.opened_views[i].randomness.repetition = 1
    BY <2>3, <2>4
  <2>6. r2.opened_views[i].randomness # o.randomness
    BY <2>5
  <2>7. ~Opens(r2, 1)
    BY <1>1, <2>1, <2>3, <2>6, UnboundView
  <2> QED BY <2>7, UnopenedDooms
<1>5. CASE \E k \in DOMAIN o.view.input_shares :
             r2 = [r EXCEPT !.opened_views[i].view.input_shares = Bump(@, k)]
  <2>1. PICK k \in DOMAIN o.view.input_shares :
          r2 = [r EXCEPT !.opened_views[i].view.input_shares = Bump(@, k)]
    BY <1>5
  <2>2. /\ r2.commitments = r.commitments
        /\ r2.opened_views = [r.opened_views EXCEPT ![i].view.input_shares = Bump(@, k)]
    BY <1>1, <2>1 DEF Repetition
  <2>3. r2.opened_views[i].view = [o.view EXCEPT !.input_shares = Bump(@, k)]
    BY <1>2, <2>2 DEF OpenedView
  <2> DEFINE s == o.view.input_shares
  <2>4. s \in Seq(F) /\ s[k] \in F
    BY <1>3, <2>1, ViewTypes
  <2>5. /\ r2.opened_views[i].view.input_shares = Bump(s, k)
        /\ r2.opened_views[i].view.party_id = o.view.party_id
    BY <1>3, <2>3 DEF PartyView
  <2>6. Bump(s, k)[k] = Plus(s[k], One)
    BY <2>1 DEF Bump
  <2>7. Bump(s, k)[k] # s[k]
    BY <2>4, <2>6, PlusOne
  <2>8. r2.opened_views[i].view # o.view
    BY <2>5, <2>7
  <2>9. ~Opens(r2, 1)
    BY <1>1, <2>2, <2>5, <2>8, UnboundView
  <2> QED BY <2>9, UnopenedDooms
<1> QED BY <1>4, <1>5

LEMMA OutputShareDooms ==
  ASSUME NEW r, NEW views, NEW w, NEW ref, Waiting(r, views, w, ref), NEW r2, Replace(r2),
         \/ \E k \in DOMAIN r.hidden_output_shares :
              r2 = [r EXCEPT !.hidden_output_shares = Bump(@, k)]
         \/ r2 = [r EXCEPT !.hidden_output_shares = Tail(@)]
  PROVE  Dooms
<1> DEFINE s == r.hidden_output_shares
<1>1. Sent(r, 1, views, w, ref) /\ r \in Repetition /\ r.hidden_broadcasts \in Seq(F)
  BY DEF Waiting, Sent, Repetition
<1>2. SameOpening(r, r2)
  BY <1>1 DEF Repetition, SameOpening
<1>3. ASSUME WrongOutputs = {}
      PROVE  Spoiled(r2, 1)
  <2>1. Right(ref)
    BY <1>3, WaitingRight
  <2>2. CASE \E k \in DOMAIN s : r2 = [r EXCEPT !.hidden_output_shares = Bump(@, k)]
    <3>1. PICK k \in DOMAIN s : r2 = [r EXCEPT !.hidden_output_shares = Bump(@, k)]
      BY <2>2
    <3>2. r2.hidden_output_shares = [s EXCEPT ![k] = Plus(s[k], One)]
      BY <1>1, <3>1 DEF Repetition, Bump
    <3> QED BY <1>1, <1>2, <2>1, <3>2, OutputShareSpoils
  <2>3. CASE r2 = [r EXCEPT !.hidden_output_shares = Tail(@)]
    <3>1. r2.hidden_output_shares = Tail(s)
      BY <1>1, <2>3 DEF Repetition
    <3> QED BY <1>1, <1>2, <2>1, <3>1, OutputSharesSpoil
  <2> QED BY <2>2, <2>3
<1> QED BY <1>3, SpoiledDooms

LEMMA BroadcastDooms ==
  ASSUME NEW r, NEW views, NEW w, NEW ref, Waiting(r, views, w, ref),
         NEW b2 \in Seq(F), Replace([r EXCEPT !.hidden_broadcasts = b2]),
         \/ \E k \in DOMAIN r.hidden_broadcasts : b2 = Bump(r.hidden_broadcasts, k)
         \/ Len(b2) < Len(r.hidden_broadcasts)
  PROVE  Dooms
<1> DEFINE r2 == [r EXCEPT !.hidden_broadcasts = b2]
<1>1. Sent(r, 1, views, w, ref) /\ r \in Repetition
  BY DEF Waiting, Sent
<1>2. SameOpening(r, r2) /\ r2.hidden_broadcasts = b2
  BY <1>1 DEF Repetition, SameOpening
<1> HIDE DEF r2
<1>3. ASSUME WrongOutputs = {}
      PROVE  Spoiled(r2, 1)
  <2>1. Right(ref)
    BY <1>3, WaitingRight
  <2>2. \/ \E k \in DOMAIN r.hidden_broadcasts :
             r2.hidden_broadcasts =
               [r.hidden_broadcasts EXCEPT ![k] = Plus(r.hidden_broadcasts[k], One)]
        \/ Len(r2.hidden_broadcasts) < Len(r.hidden_broadcasts)
    BY <1>2 DEF Bump
  <2> QED BY <1>1, <1>2, <2>1, <2>2, BroadcastsSpoil
<1> QED BY <1>3, SpoiledDooms DEF r2

LEMMA HiddenBroadcastDooms ==
  ASSUME NEW r, NEW views, NEW w, NEW ref, Waiting(r, views, w, ref), r = proof[1],
         HiddenBroadcastDamage
  PROVE  Dooms
<1> DEFINE b == r.hidden_broadcasts
<1>1. Sent(r, 1, views, w, ref) /\ b \in Seq(F)
  BY SentBroadcasts DEF Waiting
<1>2. CASE \E k \in DOMAIN b : Replace([r EXCEPT !.hidden_broadcasts = Bump(@, k)])
  <2>1. PICK k \in DOMAIN b : Replace([r EXCEPT !.hidden_broadcasts = Bump(@, k)])
    BY <1>2
  <2> DEFINE b2 == Bump(b, k)
  <2>2. Replace([r EXCEPT !.hidden_broadcasts = b2])
    BY <2>1
  <2>3. b2 \in Seq(F)
    <3>1. b[k] \in F
      BY <1>1, <2>1
    <3>2. Plus(b[k], One) \in F
      BY <3>1, PlusOne
    <3> DEFINE y == Plus(b[k], One)
    <3> HIDE DEF y, b
    <3>3. [b EXCEPT ![k] = y] \in Seq(F)
      BY <1>1, <2>1, <3>2 DEF y
    <3> QED BY <3>3 DEF Bump, y
  <2> HIDE DEF b2
  <2>4. \E x \in DOMAIN b : b2 = Bump(b, x)
    BY DEF b2
  <2> QED BY <2>2, <2>3, <2>4, BroadcastDooms
<1>3. CASE b # << >> /\ Replace([r EXCEPT !.hidden_broadcasts = Tail(@)])
  BY <1>1, <1>3, DamagedBroadcasts, UnopenedDooms
<1>4. CASE b # << >> /\ Replace([r EXCEPT !.hidden_broadcasts = Tail(Tail(@))])
  <2> DEFINE b2 == Tail(Tail(b))
  <2>1. Replace([r EXCEPT !.hidden_broadcasts = b2])
    BY <1>4
  <2>2. PICK m \in Nat : Len(b) = 2 * m
    BY <1>1, SentBroadcasts
  <2> HIDE DEF b
  <2>3. Len(b) \in Nat /\ Len(b) # 0 /\ Len(b) # 1
    <3>1. Len(b) \in Nat /\ Len(b) # 0
      BY <1>1, <1>4
    <3>2. 2 * m # 1
      OBVIOUS
    <3> QED BY <2>2, <3>1, <3>2
  <2> DEFINE t == Tail(b)
  <2>4. t \in Seq(F) /\ Len(t) = Len(b) - 1
    BY <1>1, <1>4
  <2>5. Tail(t) \in Seq(F) /\ Len(Tail(t)) = Len(t) - 1
    <3> HIDE DEF t
    <3>1. Len(t) # 0 /\ t # << >>
      BY <2>3, <2>4
    <3> QED BY <2>4, <3>1
  <2>6. b2 \in Seq(F) /\ Len(b2) = (Len(b) - 1) - 1
    BY <2>4, <2>5
  <2> HIDE DEF b2, t
  <2>7. Len(b2) < Len(b)
    BY <2>3, <2>6
  <2> QED BY <2>1, <2>6, <2>7, BroadcastDooms DEF b
<1>5. CASE Replace([r EXCEPT !.hidden_broadcasts = @ \o <<Zero, Zero>>])
  BY <1>1, <1>5, DamagedBroadcasts, UnopenedDooms
<1> QED BY <1>2, <1>3, <1>4, <1>5 DEF HiddenBroadcastDamage

\* The one change that an interactive verifier cannot notice.
Harmless == damage.kind = "commitment" /\ damage.party = proof[1].challenge

\* Damage in transit dooms the proof, or is harmless.
LEMMA TransitDooms ==
  ASSUME HonestInv, DoneProof, HonestSoFar, TransitDamage
  PROVE  /\ phase' = "done"
         /\ Harmless' \/ Dooms
<1>1. InTransit
  BY DEF TransitDamage, IdDamage, ChallengeDamage, CommitmentDamage,
         MissingCommitmentDamage, MissingViewDamage, SwappedViewsDamage, ViewDamage,
         OutputShareDamage, MissingOutputShareDamage, HiddenBroadcastDamage, EmptyProofDamage
<1>2. PICK views, w, ref : Waiting(proof[1], views, w, ref)
  BY <1>1, WaitingFor
<1>3. PICK r : r = proof[1]
  OBVIOUS
<1>4. Waiting(r, views, w, ref) /\ Sent(r, 1, views, w, ref)
  BY <1>2, <1>3 DEF Waiting
<1>5. phase' = "done"
  <2>1. phase' = phase
    BY DEF TransitDamage, IdDamage, ChallengeDamage, CommitmentDamage,
         MissingCommitmentDamage, MissingViewDamage, SwappedViewsDamage, ViewDamage,
         OutputShareDamage, MissingOutputShareDamage, HiddenBroadcastDamage, EmptyProofDamage,
         Replace
  <2> QED BY <1>1, <2>1 DEF InTransit
<1>6. CASE IdDamage
  <2>1. Replace([r EXCEPT !.id = @ + 1])
    BY <1>3, <1>6 DEF IdDamage
  <2> QED BY <1>4, <1>5, <2>1, DamagedId, UnopenedDooms
<1>7. CASE ChallengeDamage
  <2>1. PICK h \in Party \ {r.challenge} : Replace([r EXCEPT !.challenge = h])
    BY <1>3, <1>7 DEF ChallengeDamage
  <2> QED BY <1>4, <1>5, <2>1, DamagedChallenge, UnopenedDooms
<1>8. CASE \E p \in Party : CommitmentDamage(p)
  <2>1. PICK p \in Party : CommitmentDamage(p)
    BY <1>8
  <2> DEFINE r2 == [r EXCEPT !.commitments[p + 1].randomness.repetition = @ + 1]
  <2>2. Replace(r2) /\ damage'.kind = "commitment" /\ damage'.party = p
    BY <1>3, <2>1 DEF CommitmentDamage, Happens
  <2>3. CASE p = r.challenge
    <3>1. r2.challenge = r.challenge
      BY <1>4 DEF Sent, Repetition
    <3> HIDE DEF r2
    <3>2. proof'[1] = r2
      BY <1>4, <2>2 DEF Replace, Waiting
    <3> QED BY <1>5, <2>2, <2>3, <3>1, <3>2 DEF Harmless
  <2>4. CASE p # r.challenge
    BY <1>4, <1>5, <2>2, <2>4, DamagedCommitment, UnopenedDooms
  <2> QED BY <2>3, <2>4
<1>9. CASE MissingCommitmentDamage
  <2>1. Replace([r EXCEPT !.commitments = Tail(@)])
    BY <1>3, <1>9 DEF MissingCommitmentDamage
  <2> QED BY <1>4, <1>5, <2>1, DamagedCommitments, UnopenedDooms
<1>10. CASE MissingViewDamage
  <2>1. Replace([r EXCEPT !.opened_views = Tail(@)])
    BY <1>3, <1>10 DEF MissingViewDamage
  <2> QED BY <1>4, <1>5, <2>1, DamagedViews, UnopenedDooms
<1>11. CASE SwappedViewsDamage
  <2>1. Replace([r EXCEPT !.opened_views = <<@[2], @[1]>>])
    BY <1>3, <1>11 DEF SwappedViewsDamage
  <2> QED BY <1>4, <1>5, <2>1, DamagedViews, UnopenedDooms
<1>12. CASE ViewDamage
  <2>1. PICK i \in 1 .. 2 :
          \/ Replace([r EXCEPT !.opened_views[i].view.repetition_id = @ + 1])
          \/ Replace([r EXCEPT !.opened_views[i].view.party_id = (@ + 1) % 3])
          \/ Replace([r EXCEPT !.opened_views[i].randomness.repetition = @ + 1])
          \/ \E k \in DOMAIN r.opened_views[i].view.input_shares :
               Replace([r EXCEPT !.opened_views[i].view.input_shares = Bump(@, k)])
    BY <1>3, <1>12 DEF ViewDamage
  <2>2. PICK r2 :
          /\ Replace(r2)
          /\ \/ r2 = [r EXCEPT !.opened_views[i].view.repetition_id = @ + 1]
             \/ r2 = [r EXCEPT !.opened_views[i].view.party_id = (@ + 1) % 3]
             \/ r2 = [r EXCEPT !.opened_views[i].randomness.repetition = @ + 1]
             \/ \E k \in DOMAIN r.opened_views[i].view.input_shares :
                  r2 = [r EXCEPT !.opened_views[i].view.input_shares = Bump(@, k)]
    BY <2>1, Zenon
  <2>3. CASE \/ r2 = [r EXCEPT !.opened_views[i].view.repetition_id = @ + 1]
             \/ r2 = [r EXCEPT !.opened_views[i].view.party_id = (@ + 1) % 3]
    <3>1. ~Opens(r2, 1)
      BY <1>4, <2>3, DamagedView
    <3> QED BY <1>4, <1>5, <2>2, <3>1, UnopenedDooms
  <2>4. CASE \/ r2 = [r EXCEPT !.opened_views[i].randomness.repetition = @ + 1]
             \/ \E k \in DOMAIN r.opened_views[i].view.input_shares :
                  r2 = [r EXCEPT !.opened_views[i].view.input_shares = Bump(@, k)]
    BY <1>4, <1>5, <2>2, <2>4, ViewDooms
  <2> QED BY <2>2, <2>3, <2>4
<1>13. CASE OutputShareDamage
  <2>1. PICK k \in DOMAIN r.hidden_output_shares :
          Replace([r EXCEPT !.hidden_output_shares = Bump(@, k)])
    BY <1>3, <1>13 DEF OutputShareDamage
  <2> QED BY <1>4, <1>5, <2>1, OutputShareDooms
<1>14. CASE MissingOutputShareDamage
  <2>1. Replace([r EXCEPT !.hidden_output_shares = Tail(@)])
    BY <1>3, <1>14 DEF MissingOutputShareDamage
  <2> QED BY <1>4, <1>5, <2>1, OutputShareDooms
<1>15. CASE HiddenBroadcastDamage
  BY <1>3, <1>4, <1>5, <1>15, HiddenBroadcastDooms
<1>16. CASE EmptyProofDamage
  <2>1. proof' = << >> /\ UNCHANGED verifierVars
    BY <1>16 DEF EmptyProofDamage
  <2>2. Fresh'
    BY <1>4, <2>1 DEF Waiting, Fresh, Idle, verifierVars
  <2> QED BY <1>5, <2>1, <2>2 DEF Dooms, Doomed
<1> QED BY <1>6, <1>7, <1>8, <1>9, <1>10, <1>11, <1>12, <1>13, <1>14, <1>15, <1>16
     DEF TransitDamage

TransitInv ==
  damage # NoDamage /\ damage.kind \notin FaultKinds =>
    /\ phase = "done"
    /\ Harmless \/ (WrongOutputs = {} => Unaccepted)

LEMMA TransitStep ==
  ASSUME UndamagedInv, TransitInv, [Next]_vars
  PROVE  TransitInv'
<1> SUFFICES ASSUME damage' # NoDamage, damage'.kind \notin FaultKinds
             PROVE  /\ phase' = "done"
                    /\ Harmless' \/ (WrongOutputs' = {} => Unaccepted')
  BY DEF TransitInv
<1>1. ASSUME NEW p \in Party, Fault(p) PROVE FALSE
  BY <1>1 DEF Fault, InputShareFault, OperationFault, MissingOperationFault, ExtraOperationFault,
         TripleFault, BroadcastFault, Happens, FaultKinds
<1>2. CASE TransitDamage
  <2>1. HonestInv /\ DoneProof /\ HonestSoFar
    BY <1>2, HappensRecorded DEF UndamagedInv
  <2>2. phase' = "done" /\ (Harmless' \/ Dooms)
    BY <1>2, <2>1, TransitDooms
  <2>3. Fresh' /\ Doomed(proof)' => Unaccepted'
    BY DoomedUnaccepted, PTL
  <2>4. WrongOutputs' = WrongOutputs
    BY <1>2 DEF TransitDamage, IdDamage, ChallengeDamage, CommitmentDamage,
         MissingCommitmentDamage, MissingViewDamage, SwappedViewsDamage, ViewDamage,
         OutputShareDamage, MissingOutputShareDamage, HiddenBroadcastDamage, EmptyProofDamage,
         Replace, WrongOutputs
  <2> QED BY <2>2, <2>3, <2>4 DEF Dooms
<1>3. ASSUME Prove PROVE FALSE
  <2>1. phase # "done" /\ damage' = damage
    BY <1>3, ProverActs DEF Prove
  <2> QED BY <2>1 DEF TransitInv
<1>4. CASE Verify \/ UNCHANGED vars
  <2>1. /\ UNCHANGED <<damage, proverVars>>
        /\ VerifierNext \/ UNCHANGED verifierVars
    BY <1>4 DEF Verify, vars
  <2>2. UNCHANGED <<job, proof, phase, reference>>
    BY <2>1 DEF proverVars
  <2>3. phase = "done" /\ (Harmless \/ (WrongOutputs = {} => Unaccepted))
    BY <2>1 DEF TransitInv
  <2>4. Harmless' = Harmless /\ WrongOutputs' = WrongOutputs
    BY <2>1, <2>2 DEF Harmless, WrongOutputs
  <2>5. ASSUME WrongOutputs = {}, Unaccepted PROVE Unaccepted'
    BY <2>1, <2>2, <2>5, UnacceptedStep, UnacceptedKept
  <2> QED BY <2>2, <2>3, <2>4, <2>5
<1> QED BY <1>1, <1>2, <1>3, <1>4 DEF Next

(* Nothing of a finished proof can be changed unnoticed, for every circuit whose *)
(* statement is true: a verification that accepts a proof one component of which *)
(* was changed on its way was given one whose only change is to the commitment   *)
(* of the party the challenge hides, which verify_repetition never opens.        *)
THEOREM MpcithTransitDamageCaught == Spec => []TransitDamageCaught
<1>1. Init => UndamagedInv /\ TransitInv
  <2>1. Init => TransitInv
    BY DEF Init, TransitInv
  <2> QED BY <2>1, UndamagedInit
<1>2. UndamagedInv /\ TransitInv /\ [Next]_vars => UndamagedInv' /\ TransitInv'
  BY UndamagedStep, TransitStep
<1>3. TransitInv => TransitDamageCaught
  <2> SUFFICES ASSUME TransitInv, damage # NoDamage, damage.kind \notin FaultKinds,
                      verdict = "Valid", WrongOutputs = {}
               PROVE  damage.kind = "commitment" /\ damage.party = proof[1].challenge
    BY DEF TransitDamageCaught
  <2>1. ~Unaccepted
    BY DEF Unaccepted, Fresh, Ahead
  <2> QED BY <2>1 DEF TransitInv, Harmless
<1> QED BY <1>1, <1>2, <1>3, PTL DEF Spec
-----------------------------------------------------------------------------
(* Two views of the same party, each with an evaluation that it records.    *)

\* The i-th of the numbers up to n that belong to a set, and those below it.
LEMMA CountHit ==
  ASSUME NEW T, NEW n \in Nat, NEW i \in Nat \ {0},
         i <= Cardinality({k \in 1 .. n : k \in T})
  PROVE  \E m \in 1 .. n :
           /\ m \in T
           /\ Cardinality({k \in 1 .. m - 1 : k \in T}) + 1 = i
           /\ \A x \in 1 .. m - 1 : x \in T => Cardinality({k \in 1 .. x - 1 : k \in T}) + 1 < i
<1> DEFINE C(x) == Cardinality({k \in 1 .. x : k \in T})
           U == {x \in 1 .. n : C(x) >= i}
<1>1. ASSUME NEW x \in Nat \ {0}
      PROVE  /\ C(x - 1) \in Nat /\ C(x) \in Nat
             /\ x \in T => C(x) = C(x - 1) + 1
             /\ x \notin T => C(x) = C(x - 1)
  <2>1. /\ C(x - 1) \in Nat
        /\ x \in T => C(x) = C(x - 1) + 1
        /\ x \notin T => {k \in 1 .. x : k \in T} = {k \in 1 .. x - 1 : k \in T}
    BY CountStep
  <2>2. CASE x \in T
    BY <2>1, <2>2
  <2>3. CASE x \notin T
    <3>1. {k \in 1 .. x : k \in T} = {k \in 1 .. x - 1 : k \in T}
      BY <2>1, <2>3
    <3>2. C(x) = C(x - 1)
      BY <3>1, Zenon
    <3> QED BY <2>1, <2>3, <3>2
  <2> QED BY <2>2, <2>3
<1>2. C(0) = 0
  <2>1. {k \in 1 .. 0 : k \in T} = {}
    OBVIOUS
  <2> QED BY <2>1, FS_EmptySet
<1>3. i <= C(n)
  OBVIOUS
<1> HIDE DEF C
<1>4. n # 0 /\ n \in U /\ U \subseteq Nat
  BY <1>1, <1>2, <1>3
<1>5. PICK m \in U : \A y \in U : ~(y < m)
  BY <1>4, LeastElement, Zenon
<1>6. m \in 1 .. n /\ C(m) >= i /\ m \in Nat \ {0}
  BY <1>5
<1>7. \A x \in 1 .. m - 1 : C(x) < i
  <2> SUFFICES ASSUME NEW x \in 1 .. m - 1, ~(C(x) < i) PROVE FALSE
    OBVIOUS
  <2>1. x \in Nat \ {0} /\ x < m /\ x \in 1 .. n
    BY <1>6
  <2>2. C(x) \in Nat
    BY <1>1, <2>1
  <2>3. x \in U
    BY <2>1, <2>2
  <2> QED BY <1>5, <2>1, <2>3
<1>8. C(m - 1) < i
  <2>1. CASE m = 1
    BY <1>2, <2>1
  <2>2. CASE m # 1
    <3>1. m - 1 \in 1 .. m - 1
      BY <1>6, <2>2
    <3> QED BY <1>7, <3>1
  <2> QED BY <2>1, <2>2
<1>9. m \in T /\ C(m - 1) + 1 = i
  BY <1>1, <1>6, <1>8
<1>10. ASSUME NEW x \in 1 .. m - 1, x \in T PROVE C(x - 1) + 1 < i
  <2>1. x \in Nat \ {0} /\ C(x) < i
    BY <1>6, <1>7
  <2> QED BY <1>1, <1>10, <2>1
<1> QED BY <1>6, <1>9, <1>10 DEF C

\* The node that the i-th recorded operation is for.
LEMMA OperationHit ==
  ASSUME NEW j, NEW p, NEW w, NEW n \in Nat, NEW i \in Nat \ {0}, i < OpPosition(j, p, w, n + 1)
  PROVE  \E m \in 1 .. n :
           /\ Recorded(j, p, w, m)
           /\ OpPosition(j, p, w, m) = i
           /\ \A x \in 1 .. m - 1 : Recorded(j, p, w, x) => OpPosition(j, p, w, x) < i
<1> DEFINE T == {k \in Nat : Recorded(j, p, w, k)}
<1>1. ASSUME NEW x \in Nat
      PROVE  OpPosition(j, p, w, x + 1) = Cardinality({k \in 1 .. x : k \in T}) + 1
  <2>1. RecordedBefore(j, p, w, x + 1) = {k \in 1 .. x : k \in T}
    BY DEF RecordedBefore
  <2> QED BY <2>1 DEF OpPosition
<1>2. \A x \in Nat \ {0} : (x \in T <=> Recorded(j, p, w, x))
  OBVIOUS
<1>3. OpPosition(j, p, w, n + 1) \in Nat \ {0}
  BY OpPositionStep
<1> HIDE DEF T
<1>4. Cardinality({k \in 1 .. n : k \in T}) \in Nat
  <2>1. IsFiniteSet(1 .. n) /\ {k \in 1 .. n : k \in T} \subseteq 1 .. n
    BY FS_Interval
  <2> QED BY <2>1, FS_Subset, FS_CardinalityType
<1>5. i <= Cardinality({k \in 1 .. n : k \in T})
  BY <1>1, <1>3, <1>4
<1>6. PICK m \in 1 .. n :
        /\ m \in T
        /\ Cardinality({k \in 1 .. m - 1 : k \in T}) + 1 = i
        /\ \A x \in 1 .. m - 1 : x \in T => Cardinality({k \in 1 .. x - 1 : k \in T}) + 1 < i
  BY <1>5, CountHit
<1>7. ASSUME NEW x \in 1 .. n
      PROVE  OpPosition(j, p, w, x) = Cardinality({k \in 1 .. x - 1 : k \in T}) + 1
  <2>1. x - 1 \in Nat /\ (x - 1) + 1 = x
    OBVIOUS
  <2> QED BY <1>1, <2>1
<1>8. \A x \in 1 .. m - 1 : x \in 1 .. n /\ x \in Nat \ {0}
  BY <1>6
<1>9. Recorded(j, p, w, m) /\ OpPosition(j, p, w, m) = i
  BY <1>2, <1>6, <1>7
<1>10. \A x \in 1 .. m - 1 : Recorded(j, p, w, x) => OpPosition(j, p, w, x) < i
  BY <1>2, <1>6, <1>7, <1>8
<1> QED BY <1>9, <1>10, Zenon

\* The multiplication that the i-th triple is for.
LEMMA TripleHit ==
  ASSUME NEW j, NEW w, NEW n \in Nat, NEW i \in Nat \ {0}, i < TriplePosition(j, w, n + 1)
  PROVE  \E m \in 1 .. n : Multiplied(j, w, m) /\ TriplePosition(j, w, m) = i
<1> DEFINE T == {k \in Nat : Multiplied(j, w, k)}
<1>1. ASSUME NEW x \in Nat
      PROVE  TriplePosition(j, w, x + 1) = Cardinality({k \in 1 .. x : k \in T}) + 1
  <2>1. MultipliedBefore(j, w, x + 1) = {k \in 1 .. x : k \in T}
    BY DEF MultipliedBefore
  <2> QED BY <2>1 DEF TriplePosition
<1>2. \A x \in Nat \ {0} : (x \in T <=> Multiplied(j, w, x))
  OBVIOUS
<1>3. TriplePosition(j, w, n + 1) \in Nat \ {0}
  BY TriplePositionStep
<1> HIDE DEF T
<1>4. Cardinality({k \in 1 .. n : k \in T}) \in Nat
  <2>1. IsFiniteSet(1 .. n) /\ {k \in 1 .. n : k \in T} \subseteq 1 .. n
    BY FS_Interval
  <2> QED BY <2>1, FS_Subset, FS_CardinalityType
<1>5. i <= Cardinality({k \in 1 .. n : k \in T})
  BY <1>1, <1>3, <1>4
<1>6. PICK m \in 1 .. n :
        /\ m \in T
        /\ Cardinality({k \in 1 .. m - 1 : k \in T}) + 1 = i
        /\ \A x \in 1 .. m - 1 : x \in T => Cardinality({k \in 1 .. x - 1 : k \in T}) + 1 < i
  BY <1>5, CountHit
<1>7. m - 1 \in Nat /\ (m - 1) + 1 = m /\ m \in Nat \ {0}
  BY <1>6
<1> QED BY <1>1, <1>2, <1>6, <1>7


BothReplay(j, v, g, w, v2, g2, w2) ==
  /\ Checked(j)
  /\ v \in PartyView /\ v2 \in PartyView /\ v2.party_id = v.party_id
  /\ ViewReplays(j, v, g, w) /\ Len(w) = Len(j.circuit.nodes)
  /\ ViewReplays(j, v2, g2, w2) /\ Len(w2) = Len(j.circuit.nodes)

LEMMA BothFacts ==
  ASSUME NEW j, NEW v, NEW g, NEW w, NEW v2, NEW g2, NEW w2,
         BothReplay(j, v, g, w, v2, g2, w2), NEW n \in 1 .. Len(j.circuit.nodes)
  PROVE  /\ Len(j.circuit.nodes) \in Nat /\ n \in Nat \ {0} /\ n \in DOMAIN j.circuit.nodes
         /\ w[n] \in LocalVal /\ w2[n] \in LocalVal
         /\ NodeReplays(j, v, g, w, n) /\ NodeReplays(j, v2, g2, w2, n)
         /\ nodeOf(j, n).op \in {"SecretInput", "PublicInput", "Constant", "Add", "Mul"}
         /\ IsGate(nodeOf(j, n)) =>
              nodeOf(j, n).a \in 1 .. n - 1 /\ nodeOf(j, n).b \in 1 .. n - 1
<1>1. /\ DOMAIN j.circuit.nodes = 1 .. Len(j.circuit.nodes) /\ Len(j.circuit.nodes) \in Nat
      /\ j.circuit.nodes \in Seq(Node)
  BY DEF BothReplay, Checked, Circuit
<1>2. /\ w \in Seq(LocalVal) /\ n \in DOMAIN w /\ w2 \in Seq(LocalVal) /\ n \in DOMAIN w2
  BY <1>1 DEF BothReplay, ViewReplays
<1>3. NodeReplays(j, v, g, w, n) /\ NodeReplays(j, v2, g2, w2, n)
  BY <1>2 DEF BothReplay, ViewReplays
<1>4. nodeOf(j, n) \in Node
  BY <1>1 DEF nodeOf
<1>5. ASSUME IsGate(nodeOf(j, n))
      PROVE  nodeOf(j, n).a \in 1 .. n - 1 /\ nodeOf(j, n).b \in 1 .. n - 1
  <2>1. /\ nodeOf(j, n).a \in DOMAIN j.circuit.nodes /\ nodeOf(j, n).a < n
        /\ nodeOf(j, n).b \in DOMAIN j.circuit.nodes /\ nodeOf(j, n).b < n
    BY <1>1, <1>5, OperandsBefore DEF BothReplay, Checked, nodeOf
  <2> QED BY <1>1, <2>1
<1> QED BY <1>1, <1>2, <1>3, <1>4, <1>5 DEF Node

\* Whether a gate's value is shared depends on whether its operands are.
LEMMA AddGateShared ==
  ASSUME NEW p, NEW q, NEW x, NEW y, NEW x2, NEW y2, NEW z, NEW z2,
         x2.shared = x.shared, y2.shared = y.shared,
         z = AddVal(p, x, y), z2 = AddVal(q, x2, y2)
  PROVE  z2.shared = z.shared
<1> DEFINE s == x.shared \/ y.shared
           s2 == x2.shared \/ y2.shared
<1>1. \A t, u : [shared |-> t, v |-> u].shared = t
  OBVIOUS
<1>2. \E u : z = [shared |-> s, v |-> u]
  BY Zenon DEF AddVal
<1>3. \E u : z2 = [shared |-> s2, v |-> u]
  BY Zenon DEF AddVal
<1>4. s2 = s
  BY Zenon
<1> HIDE DEF s, s2
<1>5. z.shared = s
  BY <1>1, <1>2, Zenon
<1>6. z2.shared = s2
  BY <1>1, <1>3, Zenon
<1> QED BY <1>4, <1>5, <1>6, Zenon

LEMMA MulGateShared ==
  ASSUME NEW x, NEW y, NEW x2, NEW y2, NEW z, NEW z2,
         x2.shared = x.shared, y2.shared = y.shared,
         z = MulVal(x, y), z2 = MulVal(x2, y2)
  PROVE  z2.shared = z.shared
<1> DEFINE s == x.shared \/ y.shared
           s2 == x2.shared \/ y2.shared
<1>1. \A t, u : [shared |-> t, v |-> u].shared = t
  OBVIOUS
<1>2. \E u : z = [shared |-> s, v |-> u]
  BY Zenon DEF MulVal
<1>3. \E u : z2 = [shared |-> s2, v |-> u]
  BY Zenon DEF MulVal
<1>4. s2 = s
  BY Zenon
<1> HIDE DEF s, s2
<1>5. z.shared = s
  BY <1>1, <1>2, Zenon
<1>6. z2.shared = s2
  BY <1>1, <1>3, Zenon
<1> QED BY <1>4, <1>5, <1>6, Zenon

\* Which nodes are shared does not depend on the view.
LEMMA SameFlags ==
  ASSUME NEW j, NEW v, NEW g, NEW w, NEW v2, NEW g2, NEW w2,
         BothReplay(j, v, g, w, v2, g2, w2)
  PROVE  \A n \in 1 .. Len(j.circuit.nodes) : w2[n].shared = w[n].shared
<1> DEFINE D == 1 .. Len(j.circuit.nodes)
           T == {k \in D : w2[k].shared = w[k].shared}
<1>0. Len(j.circuit.nodes) \in Nat
  BY DEF BothReplay, Checked, Circuit
<1>1. ASSUME NEW n \in D, \A m \in D : m < n => m \in T
      PROVE  n \in T
  <2> SUFFICES w2[n].shared = w[n].shared
    OBVIOUS
  <2> DEFINE gate == nodeOf(j, n)
  <2>1. /\ gate.op \in {"SecretInput", "PublicInput", "Constant", "Add", "Mul"}
        /\ LeafReplays(j, v, w, n) /\ GateReplays(j, v, g, w, n)
        /\ LeafReplays(j, v2, w2, n) /\ GateReplays(j, v2, g2, w2, n)
        /\ w[n] \in LocalVal /\ w2[n] \in LocalVal
    BY BothFacts DEF NodeReplays
  <2>2. ASSUME IsGate(gate)
        PROVE  /\ w2[gate.a].shared = w[gate.a].shared /\ w2[gate.b].shared = w[gate.b].shared
    <3>1. gate.a \in 1 .. n - 1 /\ gate.b \in 1 .. n - 1
      BY <2>2, BothFacts
    <3>2. \A m \in 1 .. n - 1 : m \in D /\ m < n
      BY <1>0
    <3> HIDE DEF D, gate
    <3> QED BY <1>1, <3>1, <3>2
  <2> HIDE DEF gate
  <2>3. CASE gate.op \in {"SecretInput", "PublicInput", "Constant"}
    <3>1. \E x, y, s : w[n] = [shared |-> s, v |-> x] /\ w2[n] = [shared |-> s, v |-> y]
      <4>1. CASE gate.op = "SecretInput"
        BY <2>1, <4>1, Zenon DEF LeafReplays, gate
      <4>2. CASE gate.op = "PublicInput"
        BY <2>1, <4>2, Zenon DEF LeafReplays, gate
      <4>3. CASE gate.op = "Constant"
        BY <2>1, <4>3, Zenon DEF LeafReplays, gate
      <4> QED BY <2>3, <4>1, <4>2, <4>3
    <3> QED BY <3>1
  <2>4. CASE gate.op = "Add"
    <3>1. w[n] = AddVal(v.party_id, w[gate.a], w[gate.b])
      BY <2>1, <2>4 DEF GateReplays, gate
    <3>2. w2[n] = AddVal(v2.party_id, w2[gate.a], w2[gate.b])
      BY <2>1, <2>4 DEF GateReplays, gate
    <3>3. w2[gate.a].shared = w[gate.a].shared /\ w2[gate.b].shared = w[gate.b].shared
      BY <2>2, <2>4 DEF IsGate
    <3> QED BY <3>1, <3>2, <3>3, AddGateShared
  <2>5. CASE gate.op = "Mul"
    <3>1. w2[gate.a].shared = w[gate.a].shared /\ w2[gate.b].shared = w[gate.b].shared
      BY <2>2, <2>5 DEF IsGate
    <3>2. Multiplied(j, w2, n) <=> Multiplied(j, w, n)
      BY <3>1, Zenon DEF Multiplied, gate
    <3>3. CASE Multiplied(j, w, n)
      <4>1. BeaverReplays(j, v, g, w, n) /\ BeaverReplays(j, v2, g2, w2, n)
        BY <2>1, <2>5, <3>2, <3>3 DEF GateReplays, gate
      <4>2. w[n].shared = TRUE /\ w2[n].shared = TRUE
        <5>1. \E x, y : w[n] = [shared |-> TRUE, v |-> x] /\ w2[n] = [shared |-> TRUE, v |-> y]
          BY <4>1, Zenon DEF BeaverReplays
        <5> QED BY <5>1
      <4> QED BY <4>2
    <3>4. CASE ~Multiplied(j, w, n)
      <4>1. w[n] = MulVal(w[gate.a], w[gate.b]) /\ w2[n] = MulVal(w2[gate.a], w2[gate.b])
        BY <2>1, <2>5, <3>2, <3>4 DEF GateReplays, gate
      <4> QED BY <3>1, <4>1, MulGateShared
    <3> QED BY <3>3, <3>4
  <2> QED BY <2>1, <2>3, <2>4, <2>5
<1>2. D \subseteq T
  <2>1. \A k \in D : (\A m \in D : m < k => m \in T) => k \in T
    BY <1>1
  <2>2. D \subseteq Nat
    OBVIOUS
  <2> HIDE DEF D, T
  <2> QED BY <2>1, <2>2, StrongInduction, Zenon
<1> QED BY <1>2

\* Nor does how many operations are recorded.
LEMMA SameCount ==
  ASSUME NEW j, NEW v, NEW g, NEW w, NEW v2, NEW g2, NEW w2,
         BothReplay(j, v, g, w, v2, g2, w2)
  PROVE  Len(v2.local_operations) = Len(v.local_operations)
<1> DEFINE p == v.party_id
           N == Len(j.circuit.nodes)
<1>1. N \in Nat
  BY DEF BothReplay, Checked, Circuit
<1>2. ASSUME NEW n \in 1 .. N
      PROVE  Recorded(j, p, w2, n) <=> Recorded(j, p, w, n)
  <2>1. ASSUME IsGate(nodeOf(j, n))
        PROVE  /\ w2[nodeOf(j, n).a].shared = w[nodeOf(j, n).a].shared
               /\ w2[nodeOf(j, n).b].shared = w[nodeOf(j, n).b].shared
    <3>1. nodeOf(j, n).a \in 1 .. n - 1 /\ nodeOf(j, n).b \in 1 .. n - 1
      BY <2>1, BothFacts
    <3>2. \A m \in 1 .. n - 1 : m \in 1 .. N
      BY <1>1
    <3> QED BY <3>1, <3>2, SameFlags
  <2> QED BY <2>1, Zenon DEF Recorded
<1>3. 1 .. (N + 1) - 1 = 1 .. N
  BY <1>1
<1> HIDE DEF N, p
<1>4. RecordedBefore(j, p, w2, N + 1) = RecordedBefore(j, p, w, N + 1)
  BY <1>2, <1>3 DEF RecordedBefore
<1>5. OpPosition(j, p, w2, N + 1) = OpPosition(j, p, w, N + 1)
  BY <1>4 DEF OpPosition
<1>6. /\ Len(v.local_operations) + 1 = OpPosition(j, p, w, N + 1)
      /\ Len(v2.local_operations) + 1 = OpPosition(j, p, w2, N + 1)
  BY DEF BothReplay, ViewReplays, N, p
<1>7. Len(v.local_operations) \in Nat /\ Len(v2.local_operations) \in Nat
  BY ViewTypes DEF BothReplay
<1> QED BY <1>5, <1>6, <1>7

\* Where the operands and the inputs are the same, so is the node, unless it uses a triple.
LEMMA NodeAgain ==
  ASSUME NEW j, NEW v, NEW g, NEW w, NEW v2, NEW g2, NEW w2,
         BothReplay(j, v, g, w, v2, g2, w2), v2.input_shares = v.input_shares,
         NEW n \in 1 .. Len(j.circuit.nodes), \A k \in 1 .. n - 1 : w2[k] = w[k]
  PROVE  /\ Recorded(j, v.party_id, w2, n) <=> Recorded(j, v.party_id, w, n)
         /\ Multiplied(j, w2, n) <=> Multiplied(j, w, n)
         /\ OpPosition(j, v.party_id, w2, n) = OpPosition(j, v.party_id, w, n)
         /\ TriplePosition(j, w2, n) = TriplePosition(j, w, n)
         /\ IsGate(nodeOf(j, n)) =>
              w2[nodeOf(j, n).a] = w[nodeOf(j, n).a] /\ w2[nodeOf(j, n).b] = w[nodeOf(j, n).b]
         /\ ~Multiplied(j, w, n) => w2[n] = w[n]
<1> DEFINE gate == nodeOf(j, n)
<1>1. /\ n \in DOMAIN j.circuit.nodes /\ n \in 1 .. Len(j.circuit.nodes) + 1
      /\ gate.op \in {"SecretInput", "PublicInput", "Constant", "Add", "Mul"}
      /\ LeafReplays(j, v, w, n) /\ GateReplays(j, v, g, w, n)
      /\ LeafReplays(j, v2, w2, n) /\ GateReplays(j, v2, g2, w2, n)
      /\ IsGate(gate) => gate.a \in 1 .. n - 1 /\ gate.b \in 1 .. n - 1
      /\ Checked(j) /\ v2.party_id = v.party_id
  BY BothFacts DEF NodeReplays, BothReplay
<1>2. /\ Recorded(j, v.party_id, w2, n) <=> Recorded(j, v.party_id, w, n)
      /\ Multiplied(j, w2, n) <=> Multiplied(j, w, n)
  BY <1>1, RecordedKept
<1>3. /\ OpPosition(j, v.party_id, w2, n) = OpPosition(j, v.party_id, w, n)
      /\ TriplePosition(j, w2, n) = TriplePosition(j, w, n)
  BY <1>1, PositionKept
<1> HIDE DEF gate
<1>4. IsGate(gate) => w2[gate.a] = w[gate.a] /\ w2[gate.b] = w[gate.b]
  BY <1>1
<1>5. ASSUME ~Multiplied(j, w, n) PROVE w2[n] = w[n]
  <2>1. CASE gate.op = "SecretInput"
    BY <1>1, <2>1 DEF LeafReplays, gate
  <2>2. CASE gate.op = "PublicInput"
    BY <1>1, <2>2 DEF LeafReplays, gate
  <2>3. CASE gate.op = "Constant"
    BY <1>1, <2>3 DEF LeafReplays, gate
  <2>4. CASE gate.op = "Add"
    <3>1. w[n] = AddVal(v.party_id, w[gate.a], w[gate.b])
      BY <1>1, <2>4 DEF GateReplays, gate
    <3>2. w2[n] = AddVal(v2.party_id, w2[gate.a], w2[gate.b])
      BY <1>1, <2>4 DEF GateReplays, gate
    <3> QED BY <1>1, <1>4, <2>4, <3>1, <3>2 DEF IsGate
  <2>5. CASE gate.op = "Mul"
    <3>1. w[n] = MulVal(w[gate.a], w[gate.b])
      BY <1>1, <1>5, <2>5 DEF GateReplays, gate
    <3>2. w2[n] = MulVal(w2[gate.a], w2[gate.b])
      BY <1>1, <1>2, <1>5, <2>5 DEF GateReplays, gate
    <3> QED BY <1>4, <2>5, <3>1, <3>2 DEF IsGate
  <2> QED BY <1>1, <2>1, <2>2, <2>3, <2>4, <2>5
<1> QED BY <1>2, <1>3, <1>4, <1>5 DEF gate

\* The k-th operation of a view carries the share of a value.
Carries(v, k, val) == k <= Len(v.local_operations) /\ v.local_operations[k].share = val.v

\* A recorded operation carries the share that the party goes on with.
LEMMA ShareRecorded ==
  ASSUME NEW j, NEW v, NEW g, NEW w, NEW n, NodeReplays(j, v, g, w, n),
         NEW p, v.party_id = p, Recorded(j, p, w, n), NEW k, OpPosition(j, p, w, n) = k
  PROVE  Carries(v, k, w[n])
<1>1. k <= Len(v.local_operations) /\ v.local_operations[k] = ExpectedOp(j, g, w, n)
  BY DEF NodeReplays, RecordReplays
<1>2. ExpectedOp(j, g, w, n).share = w[n].v
  BY DEF ExpectedOp, AddOp, MulPublicOp, BeaverMulOp
<1> QED BY <1>1, <1>2 DEF Carries

\* What a view shows of a multiplication at node n that uses its t-th triple.
ShowsTriple(v, w, gate, n, op, t) ==
  LET triple == v.triple_shares[t]
  IN  /\ IsGate(gate)
      /\ op.d \in F /\ op.e \in F
      /\ t \in DOMAIN v.triple_shares
      /\ triple.a \in F /\ triple.b \in F /\ triple.c \in F
      /\ v.opened_values[2 * t - 1] = Minus(w[gate.a].v, triple.a)
      /\ v.opened_values[2 * t] = Minus(w[gate.b].v, triple.b)
      /\ w[n] = [shared |-> TRUE, v |-> w[n].v]
      /\ w[n].v = beaver_share(v.party_id, triple.a, triple.b, triple.c, op.d, op.e)

LEMMA TripleShown ==
  ASSUME NEW j, NEW v \in PartyView, NEW g, NEW w, NEW n, NodeReplays(j, v, g, w, n),
         NEW p, v.party_id = p, Multiplied(j, w, n),
         NEW k \in Nat \ {0}, OpPosition(j, p, w, n) = k,
         NEW t \in Nat \ {0}, TriplePosition(j, w, n) = t
  PROVE  /\ Recorded(j, p, w, n)
         /\ ShowsTriple(v, w, nodeOf(j, n), n, v.local_operations[k], t)
<1> DEFINE gate == nodeOf(j, n)
           op == v.local_operations[k]
           triple == v.triple_shares[t]
<1>1. gate.op = "Mul" /\ w[gate.a].shared /\ w[gate.b].shared
  BY DEF Multiplied
<1>2. Recorded(j, p, w, n) /\ IsGate(gate)
  BY <1>1 DEF Recorded, IsGate
<1>3. BeaverReplays(j, v, g, w, n) /\ op = ExpectedOp(j, g, w, n) /\ k <= Len(v.local_operations)
  BY <1>1, <1>2 DEF NodeReplays, GateReplays, RecordReplays
<1>4. op = BeaverMulOp(n, t, g[2 * t - 1], g[2 * t], w[n].v)
  BY <1>1, <1>3 DEF ExpectedOp
<1>5. op.kind = "BeaverMul" /\ op.d = g[2 * t - 1] /\ op.e = g[2 * t]
  <2> HIDE DEF op
  <2> QED BY <1>4 DEF BeaverMulOp
<1>6. /\ t <= Len(v.triple_shares)
      /\ v.opened_values[2 * t - 1] = Minus(w[gate.a].v, triple.a)
      /\ v.opened_values[2 * t] = Minus(w[gate.b].v, triple.b)
      /\ w[n] = [shared |-> TRUE,
                 v |-> beaver_share(v.party_id, triple.a, triple.b, triple.c,
                                    g[2 * t - 1], g[2 * t])]
  BY <1>3 DEF BeaverReplays
<1>7. t \in DOMAIN v.triple_shares /\ triple \in TripleShare /\ op \in LocalOperation
  <2>1. /\ v.triple_shares \in Seq(TripleShare) /\ Len(v.triple_shares) \in Nat
        /\ v.local_operations \in Seq(LocalOperation) /\ Len(v.local_operations) \in Nat
    BY ViewTypes
  <2>2. t \in DOMAIN v.triple_shares /\ k \in DOMAIN v.local_operations
    BY <1>3, <1>6, <2>1
  <2> QED BY <2>1, <2>2
<1>8. triple.a \in F /\ triple.b \in F /\ triple.c \in F
  BY <1>7 DEF TripleShare
<1>9. op.d \in F /\ op.e \in F
  BY <1>5, <1>7 DEF LocalOperation
<1>10. /\ w[n] = [shared |-> TRUE, v |-> w[n].v]
       /\ w[n].v = beaver_share(v.party_id, triple.a, triple.b, triple.c, op.d, op.e)
  <2> HIDE DEF op, triple
  <2> QED BY <1>5, <1>6
<1> QED BY <1>2, <1>6, <1>7, <1>8, <1>9, <1>10 DEF ShowsTriple

\* Up to where the records differ the evaluations agree.
LEMMA SameBelow ==
  ASSUME NEW j, NEW v, NEW g, NEW w, NEW v2, NEW g2, NEW w2,
         BothReplay(j, v, g, w, v2, g2, w2), v2.input_shares = v.input_shares,
         NEW m \in 1 .. Len(j.circuit.nodes) + 1,
         \A n \in 1 .. m - 1 :
           LET k == OpPosition(j, v.party_id, w, n)
           IN  Recorded(j, v.party_id, w, n) /\ k \in DOMAIN v.local_operations =>
                 v2.local_operations[k] = v.local_operations[k]
  PROVE  \A n \in 1 .. m - 1 : w2[n] = w[n]
<1> DEFINE D == 1 .. m - 1
           T == {k \in D : w2[k] = w[k]}
<1>0. /\ Len(j.circuit.nodes) \in Nat /\ m \in Nat
      /\ \A n \in D : n \in 1 .. Len(j.circuit.nodes)
  <2>1. Len(j.circuit.nodes) \in Nat
    BY DEF BothReplay, Checked, Circuit
  <2> QED BY <2>1
<1>1. ASSUME NEW n \in D, \A k \in D : k < n => k \in T
      PROVE  n \in T
  <2> SUFFICES w2[n] = w[n]
    OBVIOUS
  <2>1. /\ n \in 1 .. Len(j.circuit.nodes) /\ n \in Nat \ {0}
        /\ \A k \in 1 .. n - 1 : k \in D /\ k < n
    BY <1>0
  <2>2. \A k \in 1 .. n - 1 : w2[k] = w[k]
    BY <1>1, <2>1
  <2>0. PICK p : v.party_id = p
    OBVIOUS
  <2> DEFINE k == OpPosition(j, p, w, n)
             t == TriplePosition(j, w, n)
  <2>3. /\ Recorded(j, p, w2, n) <=> Recorded(j, p, w, n)
        /\ Multiplied(j, w2, n) <=> Multiplied(j, w, n)
        /\ OpPosition(j, p, w, n) = k /\ OpPosition(j, p, w2, n) = k
        /\ TriplePosition(j, w, n) = t /\ TriplePosition(j, w2, n) = t
        /\ ~Multiplied(j, w, n) => w2[n] = w[n]
    BY <2>1, <2>2, <2>0, NodeAgain
  <2>4. /\ NodeReplays(j, v, g, w, n) /\ NodeReplays(j, v2, g2, w2, n)
        /\ v \in PartyView /\ v2 \in PartyView /\ v2.party_id = p
    BY <2>1, <2>0, BothFacts DEF BothReplay
  <2>5. ASSUME Multiplied(j, w, n) PROVE w2[n] = w[n]
    <3>1. k \in Nat \ {0} /\ t \in Nat \ {0}
      BY <2>1, OpPositionStep, TriplePositionStep
    <3> HIDE DEF k, t
    <3>2. w[n] = [shared |-> TRUE, v |-> w[n].v] /\ Recorded(j, p, w, n)
      <4>1. /\ Recorded(j, p, w, n)
            /\ ShowsTriple(v, w, nodeOf(j, n), n, v.local_operations[k], t)
        BY <2>0, <2>3, <2>4, <2>5, <3>1, TripleShown
      <4> QED BY <4>1 DEF ShowsTriple
    <3>3. w2[n] = [shared |-> TRUE, v |-> w2[n].v]
      <4>1. ShowsTriple(v2, w2, nodeOf(j, n), n, v2.local_operations[k], t)
        BY <2>3, <2>4, <2>5, <3>1, TripleShown
      <4> QED BY <4>1 DEF ShowsTriple
    <3>4. k <= Len(v.local_operations) /\ v.local_operations[k].share = w[n].v
      BY <2>3, <2>4, <2>0, <3>2, ShareRecorded DEF Carries
    <3>5. v2.local_operations[k].share = w2[n].v
      BY <2>3, <2>4, <2>0, <3>2, ShareRecorded DEF Carries
    <3>6. k \in DOMAIN v.local_operations
      <4>1. v.local_operations \in Seq(LocalOperation) /\ Len(v.local_operations) \in Nat
        BY <2>4, ViewTypes
      <4> QED BY <3>1, <3>4, <4>1
    <3>7. v2.local_operations[k] = v.local_operations[k]
      BY <2>0, <3>2, <3>6 DEF k
    <3> QED BY <3>2, <3>3, <3>4, <3>5, <3>7
  <2> QED BY <2>3, <2>5
<1>2. D \subseteq T
  <2>1. \A k \in D : (\A n \in D : n < k => n \in T) => k \in T
    BY <1>1
  <2>2. D \subseteq Nat
    BY <1>0
  <2> HIDE DEF D, T
  <2> QED BY <2>1, <2>2, StrongInduction, Zenon
<1> QED BY <1>2

\* A subtrahend, and a summand of a Beaver product, may be cancelled.
LEMMA MinusCancel ==
  ASSUME NEW x \in F, NEW y \in F, NEW z \in F, Minus(x, y) = Minus(x, z)
  PROVE  y = z
<1>1. Minus(x, y) \in F /\ Plus(y, Minus(x, y)) = x /\ Plus(z, Minus(x, z)) = x
  BY MinusPlus
<1> QED BY <1>1, PlusCancel

LEMMA BeaverCancel ==
  ASSUME NEW p, NEW a \in F, NEW b \in F, NEW c \in F, NEW y \in F, NEW d \in F, NEW e \in F,
         beaver_share(p, a, b, c, d, e) = beaver_share(p, a, b, y, d, e)
  PROVE  c = y
<1> DEFINE s(x) == Plus(x, Times(d, b))
           t(x) == Plus(s(x), Times(e, a))
<1>1. Times(d, b) \in F /\ Times(e, a) \in F /\ Times(d, e) \in F
  BY FieldClosed
<1>2. s(c) \in F /\ s(y) \in F
  BY <1>1, FieldClosed
<1> HIDE DEF s
<1>3. t(c) \in F /\ t(y) \in F
  BY <1>1, <1>2, FieldClosed
<1>4. \A x \in F : beaver_share(p, a, b, x, d, e) = IF p = 0 THEN Plus(t(x), Times(d, e)) ELSE t(x)
  BY DEF beaver_share, Absorb, s
<1> HIDE DEF t
<1>5. t(c) = t(y)
  <2>1. CASE p = 0
    <3>1. Plus(t(c), Times(d, e)) = Plus(t(y), Times(d, e))
      BY <1>4, <2>1
    <3> QED BY <1>1, <1>3, <3>1, PlusCancel
  <2>2. CASE p # 0
    BY <1>4, <2>2
  <2> QED BY <2>1, <2>2
<1>6. s(c) = s(y)
  <2>1. Plus(s(c), Times(e, a)) = Plus(s(y), Times(e, a))
    BY <1>5 DEF t
  <2> QED BY <1>1, <1>2, <2>1, PlusCancel
<1> QED BY <1>1, <1>6, PlusCancel DEF s

\* An operation whose share is not the recomputed one is noticed.
LEMMA WrongShareShows ==
  ASSUME NEW j, NEW v, NEW g, NEW w, NEW v2, NEW g2, NEW w2,
         BothReplay(j, v, g, w, v2, g2, w2),
         v2.input_shares = v.input_shares, v2.triple_shares = v.triple_shares,
         NEW i \in DOMAIN v.local_operations,
         v2.local_operations = [v.local_operations EXCEPT ![i].share = Plus(@, One)]
  PROVE  FALSE
<1> DEFINE N == Len(j.circuit.nodes)
           ops == v.local_operations
<1>0. PICK p : v.party_id = p
  OBVIOUS
<1>1. /\ v \in PartyView /\ v2 \in PartyView /\ v2.party_id = p /\ N \in Nat
      /\ ops \in Seq(LocalOperation) /\ Len(ops) \in Nat
      /\ Len(ops) + 1 = OpPosition(j, p, w, N + 1)
  BY <1>0, ViewTypes DEF BothReplay, Checked, Circuit, ViewReplays
<1>2. i \in Nat \ {0} /\ i < OpPosition(j, p, w, N + 1)
  <2>1. i \in 1 .. Len(ops)
    BY <1>1
  <2> HIDE DEF ops, N
  <2> QED BY <1>1, <2>1
<1> HIDE DEF N
<1>3. PICK m \in 1 .. N :
        /\ Recorded(j, p, w, m)
        /\ OpPosition(j, p, w, m) = i
        /\ \A x \in 1 .. m - 1 : Recorded(j, p, w, x) => OpPosition(j, p, w, x) < i
  BY <1>1, <1>2, OperationHit
<1>4. /\ v2.local_operations[i] = [ops[i] EXCEPT !.share = Plus(@, One)]
      /\ \A k \in DOMAIN ops : k # i => v2.local_operations[k] = ops[k]
  OBVIOUS
<1>5. m \in 1 .. N + 1 /\ m \in 1 .. N /\ m \in Nat \ {0}
  BY <1>1, <1>3
<1>6. ASSUME NEW n \in 1 .. m - 1, Recorded(j, p, w, n), OpPosition(j, p, w, n) \in DOMAIN ops
      PROVE  v2.local_operations[OpPosition(j, p, w, n)] = ops[OpPosition(j, p, w, n)]
  <2>1. OpPosition(j, p, w, n) < i
    BY <1>3, <1>6
  <2>2. OpPosition(j, p, w, n) # i
    BY <1>2, <2>1
  <2> QED BY <1>4, <1>6, <2>2
<1>7. \A n \in 1 .. m - 1 : w2[n] = w[n]
  BY <1>0, <1>5, <1>6, SameBelow DEF N
<1>8. /\ Recorded(j, p, w2, m)
      /\ Multiplied(j, w2, m) <=> Multiplied(j, w, m)
      /\ OpPosition(j, p, w2, m) = i
      /\ TriplePosition(j, w2, m) = TriplePosition(j, w, m)
      /\ ~Multiplied(j, w, m) => w2[m] = w[m]
  BY <1>0, <1>3, <1>5, <1>7, NodeAgain DEF N
<1>9. NodeReplays(j, v, g, w, m) /\ NodeReplays(j, v2, g2, w2, m)
  BY <1>5, BothFacts DEF N
<1>10. ops[i] \in LocalOperation /\ ops[i].share \in F
  <2>1. ops[i] \in LocalOperation
    BY <1>1
  <2> QED BY <2>1 DEF LocalOperation
<1>11. /\ v2.local_operations[i].share = Plus(ops[i].share, One)
       /\ v2.local_operations[i].d = ops[i].d /\ v2.local_operations[i].e = ops[i].e
  <2>1. v2.local_operations[i].share = Plus(ops[i].share, One)
    <3>1. "share" \in DOMAIN ops[i]
      BY <1>10 DEF LocalOperation
    <3> QED BY <1>4, <3>1
  <2> QED BY <1>4, <2>1
<1>12. ops[i].share = w[m].v /\ v2.local_operations[i].share = w2[m].v
  <2>1. Carries(v, i, w[m])
    BY <1>0, <1>3, <1>9, ShareRecorded
  <2>2. v2.local_operations[i].share = w2[m].v
    <3>1. /\ v2.party_id = p /\ Recorded(j, p, w2, m) /\ OpPosition(j, p, w2, m) = i
          /\ NodeReplays(j, v2, g2, w2, m)
      BY <1>0, <1>1, <1>8, <1>9
    <3>2. Carries(v2, i, w2[m])
      BY <3>1, ShareRecorded, Zenon
    <3> QED BY <3>2 DEF Carries
  <2> QED BY <2>1, <2>2 DEF Carries
<1>13. w2[m].v = w[m].v
  <2>1. CASE ~Multiplied(j, w, m)
    BY <1>8, <2>1
  <2>2. CASE Multiplied(j, w, m)
    <3>1. PICK t \in Nat \ {0} : TriplePosition(j, w, m) = t
      BY <1>5, TriplePositionStep
    <3>2. ShowsTriple(v, w, nodeOf(j, m), m, ops[i], t)
      BY <1>0, <1>1, <1>2, <1>3, <1>9, <2>2, <3>1, TripleShown
    <3>3. ShowsTriple(v2, w2, nodeOf(j, m), m, v2.local_operations[i], t)
      BY <1>1, <1>2, <1>8, <1>9, <2>2, <3>1, TripleShown
    <3> QED BY <1>0, <1>1, <1>11, <3>2, <3>3 DEF ShowsTriple
  <2> QED BY <2>1, <2>2
<1> QED BY <1>10, <1>11, <1>12, <1>13, PlusOne

\* With the same inputs and operations the evaluations are the same.
LEMMA SameEverywhere ==
  ASSUME NEW j, NEW v, NEW g, NEW w, NEW v2, NEW g2, NEW w2,
         BothReplay(j, v, g, w, v2, g2, w2),
         v2.input_shares = v.input_shares, v2.local_operations = v.local_operations,
         NEW t \in DOMAIN v.triple_shares
  PROVE  LET triple == v.triple_shares[t]
             again == v2.triple_shares[t]
         IN  /\ t \in DOMAIN v2.triple_shares
             /\ triple.a \in F /\ triple.b \in F /\ triple.c \in F
             /\ again.a \in F /\ again.b \in F /\ again.c \in F
             /\ \E x \in F, y \in F :
                  /\ v.opened_values[2 * t - 1] = Minus(x, triple.a)
                  /\ v2.opened_values[2 * t - 1] = Minus(x, again.a)
                  /\ v.opened_values[2 * t] = Minus(y, triple.b)
                  /\ v2.opened_values[2 * t] = Minus(y, again.b)
             /\ \E d \in F, e \in F : beaver_share(v.party_id, triple.a, triple.b, triple.c, d, e)
                            = beaver_share(v.party_id, again.a, again.b, again.c, d, e)
<1> DEFINE N == Len(j.circuit.nodes)
<1>0. PICK p : v.party_id = p
  OBVIOUS
<1>1. /\ v \in PartyView /\ v2 \in PartyView /\ v2.party_id = p /\ N \in Nat
      /\ v.triple_shares \in Seq(TripleShare) /\ Len(v.triple_shares) \in Nat
      /\ Len(v.triple_shares) + 1 = TriplePosition(j, w, N + 1)
  BY <1>0, ViewTypes DEF BothReplay, Checked, Circuit, ViewReplays
<1>2. t \in Nat \ {0} /\ t < TriplePosition(j, w, N + 1)
  <2>1. t \in 1 .. Len(v.triple_shares)
    BY <1>1
  <2> HIDE DEF N
  <2> QED BY <1>1, <2>1
<1> HIDE DEF N
<1>3. PICK m \in 1 .. N : Multiplied(j, w, m) /\ TriplePosition(j, w, m) = t
  BY <1>1, <1>2, TripleHit
<1>4. m \in 1 .. Len(j.circuit.nodes) + 1 /\ N + 1 \in 1 .. N + 1 /\ (N + 1) - 1 = N
  BY <1>1, <1>3 DEF N
<1>5. \A n \in 1 .. N : w2[n] = w[n]
  <2>1. \A n \in 1 .. (N + 1) - 1 : w2[n] = w[n]
    BY <1>4, SameBelow DEF N
  <2> QED BY <1>4, <2>1
<1>6. m \in 1 .. Len(j.circuit.nodes) /\ \A k \in 1 .. m - 1 : w2[k] = w[k]
  BY <1>1, <1>3, <1>5 DEF N
<1> DEFINE gate == nodeOf(j, m)
<1>7. /\ Multiplied(j, w2, m)
      /\ OpPosition(j, p, w2, m) = OpPosition(j, p, w, m)
      /\ TriplePosition(j, w2, m) = t
      /\ IsGate(gate) => w2[gate.a] = w[gate.a] /\ w2[gate.b] = w[gate.b]
      /\ w2[m] = w[m]
  BY <1>3, <1>5, <1>0, <1>6, NodeAgain
<1>8. NodeReplays(j, v, g, w, m) /\ NodeReplays(j, v2, g2, w2, m)
  BY <1>6, BothFacts
<1>81. PICK k \in Nat \ {0} : OpPosition(j, p, w, m) = k
  BY <1>1, <1>6, OpPositionStep DEF N
<1> DEFINE op == v.local_operations[k]
           triple == v.triple_shares[t]
           again == v2.triple_shares[t]
<1>9. ShowsTriple(v, w, gate, m, op, t)
  BY <1>0, <1>1, <1>2, <1>3, <1>8, <1>81, TripleShown
<1>10. ShowsTriple(v2, w2, gate, m, op, t)
  <2>1. ShowsTriple(v2, w2, gate, m, v2.local_operations[k], t)
    BY <1>1, <1>2, <1>7, <1>8, <1>81, TripleShown
  <2> QED BY <2>1
<1>11. w[gate.a].v \in F /\ w[gate.b].v \in F
  <2>1. gate.a \in 1 .. m - 1 /\ gate.b \in 1 .. m - 1
    BY <1>6, <1>9, BothFacts DEF ShowsTriple
  <2>2. gate.a \in 1 .. Len(j.circuit.nodes) /\ gate.b \in 1 .. Len(j.circuit.nodes)
    BY <1>1, <1>6, <2>1 DEF N
  <2>3. w[gate.a] \in LocalVal /\ w[gate.b] \in LocalVal
    BY <2>2, BothFacts
  <2> QED BY <2>3 DEF LocalVal
<1> HIDE DEF op, gate, triple, again
<1>12. \E x \in F, y \in F :
         /\ v.opened_values[2 * t - 1] = Minus(x, triple.a)
         /\ v2.opened_values[2 * t - 1] = Minus(x, again.a)
         /\ v.opened_values[2 * t] = Minus(y, triple.b)
         /\ v2.opened_values[2 * t] = Minus(y, again.b)
  BY <1>7, <1>9, <1>10, <1>11 DEF ShowsTriple, triple, again
<1>13. \E d \in F, e \in F : beaver_share(p, triple.a, triple.b, triple.c, d, e)
                   = beaver_share(p, again.a, again.b, again.c, d, e)
  BY <1>0, <1>1, <1>7, <1>9, <1>10 DEF ShowsTriple, triple, again
<1> QED BY <1>0, <1>9, <1>10, <1>12, <1>13 DEF ShowsTriple, triple, again

\* The faults that leave a party's inputs alone: what view v records of them differs from
\* what u records.
RecordKinds == {"operation", "missing_operation", "extra_operation", "triple", "broadcast"}

Misrecords(kind, u, v) ==
  LET ops == u.local_operations
  IN  /\ v.input_shares = u.input_shares
      /\ kind # "triple" => v.triple_shares = u.triple_shares
      /\ kind # "broadcast" => v.opened_values = u.opened_values
      /\ kind = "operation" =>
           \E i \in DOMAIN ops : v.local_operations = [ops EXCEPT ![i].share = Plus(@, One)]
      /\ kind = "missing_operation" => ops # << >> /\ v.local_operations = Tail(ops)
      /\ kind = "extra_operation" => ops # << >> /\ v.local_operations = Append(ops, ops[Len(ops)])
      /\ kind \in {"triple", "broadcast"} => v.local_operations = ops
      /\ kind = "triple" =>
           /\ u.triple_shares # << >>
           /\ \E f \in {"a", "b", "c"} :
                v.triple_shares = [u.triple_shares EXCEPT ![1][f] = Plus(@, One)]
      /\ kind = "broadcast" =>
           \E i \in DOMAIN u.opened_values :
             v.opened_values = [u.opened_values EXCEPT ![i] = Plus(u.opened_values[i], One)]

LEMMA WrongTripleShows ==
  ASSUME NEW j, NEW u, NEW g, NEW w, NEW v, NEW g2, NEW w2, BothReplay(j, u, g, w, v, g2, w2),
         Misrecords("triple", u, v)
  PROVE  FALSE
<1>1. /\ v.input_shares = u.input_shares /\ v.local_operations = u.local_operations
      /\ v.opened_values = u.opened_values /\ u.triple_shares # << >>
  BY DEF Misrecords
<1>2. PICK f \in {"a", "b", "c"} :
        v.triple_shares = [u.triple_shares EXCEPT ![1][f] = Plus(@, One)]
  BY DEF Misrecords
<1>3. u \in PartyView /\ v \in PartyView /\ u.triple_shares \in Seq(TripleShare)
  BY ViewTypes DEF BothReplay
<1>4. 1 \in DOMAIN u.triple_shares /\ 2 * 1 - 1 = 1 /\ 2 * 1 = 2
  BY <1>1, <1>3
<1> DEFINE r == u.triple_shares[1]
           s == v.triple_shares[1]
<1>5. r \in TripleShare
  BY <1>3, <1>4
<1>6. /\ r.a \in F /\ r.b \in F /\ r.c \in F /\ s.a \in F /\ s.b \in F /\ s.c \in F
      /\ \E x \in F, y \in F :
           /\ u.opened_values[1] = Minus(x, r.a) /\ v.opened_values[1] = Minus(x, s.a)
           /\ u.opened_values[2] = Minus(y, r.b) /\ v.opened_values[2] = Minus(y, s.b)
      /\ \E d \in F, e \in F : beaver_share(u.party_id, r.a, r.b, r.c, d, e)
                                 = beaver_share(u.party_id, s.a, s.b, s.c, d, e)
  <2> HIDE DEF r, s
  <2> QED BY <1>1, <1>4, SameEverywhere DEF r, s
<1>7. s = [r EXCEPT ![f] = Plus(@, One)]
  BY <1>2, <1>4
<1>8. /\ s.a = IF f = "a" THEN Plus(r.a, One) ELSE r.a
      /\ s.b = IF f = "b" THEN Plus(r.b, One) ELSE r.b
      /\ s.c = IF f = "c" THEN Plus(r.c, One) ELSE r.c
  <2>1. DOMAIN r = {"a", "b", "c"}
    BY <1>5 DEF TripleShare
  <2> HIDE DEF r, s
  <2>2. CASE f = "a"
    BY <1>7, <2>1, <2>2
  <2>3. CASE f = "b"
    BY <1>7, <2>1, <2>3
  <2>4. CASE f = "c"
    BY <1>7, <2>1, <2>4
  <2> QED BY <1>2, <2>2, <2>3, <2>4
<1> HIDE DEF r, s
<1>9. PICK x \in F, y \in F :
        /\ u.opened_values[1] = Minus(x, r.a) /\ v.opened_values[1] = Minus(x, s.a)
        /\ u.opened_values[2] = Minus(y, r.b) /\ v.opened_values[2] = Minus(y, s.b)
  BY <1>6
<1>10. r.a = s.a /\ r.b = s.b
  <2>1. Minus(x, r.a) = Minus(x, s.a) /\ Minus(y, r.b) = Minus(y, s.b)
    BY <1>1, <1>9
  <2>2. r.a = s.a
    BY <1>6, <2>1, MinusCancel
  <2>3. r.b = s.b
    BY <1>6, <2>1, MinusCancel
  <2> QED BY <2>2, <2>3
<1>11. r.c = s.c
  <2>1. PICK d \in F, e \in F : beaver_share(u.party_id, r.a, r.b, r.c, d, e)
                                  = beaver_share(u.party_id, s.a, s.b, s.c, d, e)
    BY <1>6
  <2>2. beaver_share(u.party_id, r.a, r.b, r.c, d, e) = beaver_share(u.party_id, r.a, r.b, s.c, d, e)
    BY <1>10, <2>1
  <2> QED BY <1>6, <2>2, BeaverCancel
<1> QED BY <1>2, <1>6, <1>8, <1>10, <1>11, PlusOne

LEMMA WrongBroadcastShows ==
  ASSUME NEW j, NEW u, NEW g, NEW w, NEW v, NEW g2, NEW w2, BothReplay(j, u, g, w, v, g2, w2),
         Misrecords("broadcast", u, v)
  PROVE  FALSE
<1>1. /\ v.input_shares = u.input_shares /\ v.local_operations = u.local_operations
      /\ v.triple_shares = u.triple_shares
  BY DEF Misrecords
<1>2. PICK i \in DOMAIN u.opened_values :
        v.opened_values = [u.opened_values EXCEPT ![i] = Plus(u.opened_values[i], One)]
  BY DEF Misrecords
<1>3. /\ u \in PartyView /\ v \in PartyView
      /\ u.opened_values \in Seq(F) /\ Len(u.triple_shares) \in Nat
      /\ u.triple_shares \in Seq(TripleShare)
      /\ Len(u.opened_values) = 2 * Len(u.triple_shares)
  BY ViewTypes DEF BothReplay, ViewReplays
<1>4. i \in 1 .. 2 * Len(u.triple_shares)
  BY <1>2, <1>3
<1>5. PICK t \in DOMAIN u.triple_shares : i = 2 * t - 1 \/ i = 2 * t
  <2> DEFINE L == Len(u.triple_shares)
  <2>1. \A n \in Nat : \A k \in 1 .. 2 * n : \E t \in 1 .. n : k = 2 * t - 1 \/ k = 2 * t
    <3> SUFFICES ASSUME NEW n \in Nat, NEW k \in 1 .. 2 * n
                 PROVE  \E t \in 1 .. n : k = 2 * t - 1 \/ k = 2 * t
      OBVIOUS
    <3>1. (k + 1) \div 2 \in 1 .. n
      OBVIOUS
    <3>2. k = 2 * ((k + 1) \div 2) - 1 \/ k = 2 * ((k + 1) \div 2)
      OBVIOUS
    <3> QED BY <3>1, <3>2
  <2>2. DOMAIN u.triple_shares = 1 .. L
    BY <1>3
  <2> QED BY <1>3, <1>4, <2>1, <2>2
<1> DEFINE r == u.triple_shares[t]
<1>6. PICK x \in F, y \in F :
        /\ u.opened_values[2 * t - 1] = Minus(x, r.a) /\ v.opened_values[2 * t - 1] = Minus(x, r.a)
        /\ u.opened_values[2 * t] = Minus(y, r.b) /\ v.opened_values[2 * t] = Minus(y, r.b)
  BY <1>1, SameEverywhere
<1>7. u.opened_values[i] \in F /\ v.opened_values[i] = Plus(u.opened_values[i], One)
  BY <1>2, <1>3
<1>8. v.opened_values[i] = u.opened_values[i]
  BY <1>5, <1>6
<1> QED BY <1>7, <1>8, PlusOne

\* A view that misrecords does not replay, under whatever masks.
LEMMA MisrecordShows ==
  ASSUME NEW j, NEW u, NEW g, NEW w, NEW v, NEW g2, NEW w2, BothReplay(j, u, g, w, v, g2, w2),
         NEW kind \in RecordKinds, Misrecords(kind, u, v)
  PROVE  FALSE
<1>1. u \in PartyView /\ u.local_operations \in Seq(LocalOperation)
  BY ViewTypes DEF BothReplay
<1>2. Len(v.local_operations) = Len(u.local_operations)
  BY SameCount
<1>3. CASE kind = "operation"
  <2>1. /\ v.input_shares = u.input_shares /\ v.triple_shares = u.triple_shares
        /\ \E i \in DOMAIN u.local_operations :
             v.local_operations = [u.local_operations EXCEPT ![i].share = Plus(@, One)]
    BY <1>3 DEF Misrecords
  <2> QED BY <2>1, WrongShareShows
<1>4. CASE kind = "missing_operation"
  <2>1. u.local_operations # << >> /\ v.local_operations = Tail(u.local_operations)
    BY <1>4 DEF Misrecords
  <2>2. Len(Tail(u.local_operations)) = Len(u.local_operations) - 1 /\ Len(u.local_operations) \in Nat
    BY <1>1, <2>1
  <2> QED BY <1>2, <2>1, <2>2
<1>5. CASE kind = "extra_operation"
  <2>1. \E op : v.local_operations = Append(u.local_operations, op)
    BY <1>5 DEF Misrecords
  <2>2. Len(v.local_operations) = Len(u.local_operations) + 1 /\ Len(u.local_operations) \in Nat
    BY <1>1, <2>1
  <2> QED BY <1>2, <2>2
<1>6. CASE kind = "triple"
  BY <1>6, WrongTripleShows
<1>7. CASE kind = "broadcast"
  BY <1>7, WrongBroadcastShows
<1> QED BY <1>3, <1>4, <1>5, <1>6, <1>7 DEF RecordKinds
-----------------------------------------------------------------------------
(* What a replay that has come this far shows, whoever made the proof.     *)

\* The two views of a repetition that was opened, and the masks it yields.
OpenedWell ==
  /\ repetition \in Repetition
  /\ opened[1].view \in PartyView /\ opened[2].view \in PartyView
  /\ globals = Globals /\ globals \in Seq(F)
  /\ Opens(repetition, rep)

\* The statement has been validated.
JobAccepted == job \in Job /\ statement_validate(job.statement, job.circuit) = "Ok"

\* The view being replayed records the values recomputed so far.
Recomputed ==
  /\ stage = "replay"
  /\ JobAccepted
  /\ view \in PartyView /\ globals \in Seq(F)
  /\ replayed \in Seq(LocalVal) /\ Len(replayed) <= Len(job.circuit.nodes)
  /\ Cursors(job, party, replayed, Len(replayed), cursor)
  /\ \A i \in DOMAIN replayed : NodeReplays(job, view, globals, replayed, i)

\* The replay takes the value val for the next node, which the view records too.
Takes(val) ==
  \E cur \in Cursor :
    LET w == Append(replayed, val)
    IN  /\ val \in LocalVal
        /\ Step(val, cur)
        /\ NodeReplays(job, view, globals, w, vout)
        /\ cur.secret = IF vnode.op = "SecretInput" THEN cursor.secret + 1 ELSE cursor.secret
        /\ cur.public = IF vnode.op = "PublicInput" THEN cursor.public + 1 ELSE cursor.public
        /\ cur.op = IF Recorded(job, party, w, vout) THEN cursor.op + 1 ELSE cursor.op
        /\ cur.triple = IF Multiplied(job, w, vout) THEN cursor.triple + 1 ELSE cursor.triple
        /\ cur.opened = 2 * cur.triple

LEMMA AcceptedJob ==
  ASSUME JobAccepted
  PROVE  /\ Checked(job)
         /\ job.circuit \in Circuit /\ job.circuit.nodes \in Seq(Node)
         /\ job.statement.public_inputs \in Seq(F)
         /\ Len(job.statement.public_inputs) = job.circuit.num_public_inputs
         /\ Cardinality(Leaves(job.circuit.nodes, "SecretInput")) = job.circuit.num_secret_inputs
         /\ Cardinality(Leaves(job.circuit.nodes, "PublicInput")) = job.circuit.num_public_inputs
<1>1. job.circuit \in Circuit /\ job.statement \in Statement
  BY DEF JobAccepted, Job
<1>2. /\ validate(job.circuit) = "Ok"
      /\ Len(job.statement.public_inputs) = job.circuit.num_public_inputs
  BY DEF JobAccepted, statement_validate
<1>3. job.circuit.nodes \in Seq(Node) /\ job.statement.public_inputs \in Seq(F)
  BY <1>1 DEF Circuit, Statement
<1> QED BY <1>1, <1>2, <1>3, ValidCircuit DEF Checked

\* Where a replay stands, with val for the next node.
LEMMA TakenFacts ==
  ASSUME Recomputed, vout <= Len(job.circuit.nodes), NEW val \in LocalVal, NEW w,
         w = Append(replayed, val)
  PROVE  /\ vout \in DOMAIN job.circuit.nodes /\ vout \in Nat \ {0} /\ vout \in 1 .. Len(job.circuit.nodes)
         /\ nodeOf(job, vout) = vnode /\ vnode \in Node
         /\ vnode.op \in {"SecretInput", "PublicInput", "Constant", "Add", "Mul"}
         /\ w \in Seq(LocalVal) /\ Len(w) = vout /\ w[vout] = val
         /\ Extends(replayed, w)
         /\ \A k \in 1 .. vout - 1 : w[k] = replayed[k]
         /\ IsGate(vnode) => /\ w[vnode.a] = wa /\ w[vnode.b] = wb
                             /\ wa \in LocalVal /\ wb \in LocalVal
         /\ OpPosition(job, party, w, vout) = cursor.op + 1
         /\ TriplePosition(job, w, vout) = cursor.triple + 1
         /\ InputPosition(job, "SecretInput", vout) = cursor.secret + 1
         /\ InputPosition(job, "PublicInput", vout) = cursor.public + 1
         /\ cursor \in Cursor /\ cursor.opened = 2 * cursor.triple
         /\ cursor.secret \in Nat /\ cursor.public \in Nat /\ cursor.op \in Nat
         /\ cursor.triple \in Nat /\ cursor.opened \in Nat
<1>1. Checked(job) /\ job.circuit.nodes \in Seq(Node) /\ replayed \in Seq(LocalVal)
  BY AcceptedJob DEF Recomputed
<1>2. /\ vout \in DOMAIN job.circuit.nodes /\ vout \in Nat \ {0}
      /\ vout \in 1 .. Len(job.circuit.nodes) /\ vout \in 1 .. Len(job.circuit.nodes) + 1
      /\ vout - 1 = Len(replayed) /\ vout = Len(replayed) + 1
      /\ Len(job.circuit.nodes) \in Nat
  BY <1>1 DEF vout
<1>3. nodeOf(job, vout) = vnode /\ vnode \in Node
  BY <1>1, <1>2 DEF nodeOf, vnode
<1>4. vnode.op \in {"SecretInput", "PublicInput", "Constant", "Add", "Mul"}
  BY <1>3 DEF Node
<1>5. /\ w \in Seq(LocalVal) /\ Len(w) = vout /\ w[vout] = val
      /\ \A k \in 1 .. Len(replayed) : w[k] = replayed[k]
  BY <1>1, <1>2
<1>6. Extends(replayed, w) /\ \A k \in 1 .. vout - 1 : w[k] = replayed[k]
  BY <1>1, <1>2, <1>5 DEF Extends
<1>7. ASSUME IsGate(vnode)
      PROVE  w[vnode.a] = wa /\ w[vnode.b] = wb /\ wa \in LocalVal /\ wb \in LocalVal
  <2>1. /\ vnode.a \in DOMAIN job.circuit.nodes /\ vnode.a < vout
        /\ vnode.b \in DOMAIN job.circuit.nodes /\ vnode.b < vout
    BY <1>1, <1>2, <1>7, OperandsBefore DEF Checked, vnode
  <2>2. vnode.a \in 1 .. Len(replayed) /\ vnode.b \in 1 .. Len(replayed)
    BY <1>1, <1>2, <2>1
  <2> QED BY <1>1, <1>5, <2>2 DEF wa, wb
<1>8. /\ OpPosition(job, party, w, vout) = OpPosition(job, party, replayed, vout)
      /\ TriplePosition(job, w, vout) = TriplePosition(job, replayed, vout)
  BY <1>1, <1>2, <1>6, PositionKept
<1>9. Cursors(job, party, replayed, Len(replayed), cursor)
  BY DEF Recomputed
<1> QED BY <1>2, <1>3, <1>4, <1>5, <1>6, <1>7, <1>8, <1>9 DEF Cursors, Cursor

\* Inputs and constants.
LEMMA TakesLeaves ==
  ASSUME Recomputed, Len(view.input_shares) = job.circuit.num_secret_inputs,
         ReplaySecretInput \/ ReplayPublicInput \/ ReplayConstant
  PROVE  \E val : Takes(val)
<1>1. /\ vout <= Len(job.circuit.nodes)
      /\ vnode.op \in {"SecretInput", "PublicInput", "Constant"}
  BY DEF ReplaySecretInput, ReplayPublicInput, ReplayConstant, AtReplay
<1> DEFINE ns == job.circuit.nodes
<1>2. ns \in Seq(Node) /\ JobAccepted /\ view \in PartyView
  BY AcceptedJob DEF Recomputed
<1>3. ASSUME NEW val \in LocalVal, LeafReplays(job, view, Append(replayed, val), vout)
      PROVE  LET w == Append(replayed, val)
             IN  /\ NodeReplays(job, view, globals, w, vout)
                 /\ ~Recorded(job, party, w, vout) /\ ~Multiplied(job, w, vout)
  <2> DEFINE w == Append(replayed, val)
  <2>1. nodeOf(job, vout) = vnode
    BY <1>1, TakenFacts
  <2> HIDE DEF w
  <2>2. ~Recorded(job, party, w, vout) /\ ~Multiplied(job, w, vout)
    BY <1>1, <2>1 DEF Recorded, Multiplied, IsGate
  <2>3. GateReplays(job, view, globals, w, vout) /\ RecordReplays(job, view, globals, w, vout)
    BY <1>1, <2>1, <2>2 DEF GateReplays, RecordReplays, party
  <2> QED BY <1>3, <2>2, <2>3 DEF NodeReplays, w
<1>4. /\ cursor \in Cursor /\ cursor.opened = 2 * cursor.triple
      /\ cursor.secret \in Nat /\ cursor.public \in Nat
      /\ InputPosition(job, "SecretInput", vout) = cursor.secret + 1
      /\ InputPosition(job, "PublicInput", vout) = cursor.public + 1
      /\ vout \in 1 .. Len(ns) /\ nodeOf(job, vout) = vnode /\ vnode \in Node
  <2>1. [shared |-> FALSE, v |-> Zero] \in LocalVal
    BY FieldClosed DEF LocalVal
  <2> QED BY <1>1, <2>1, TakenFacts
<1>5. CASE ReplaySecretInput
  <2> DEFINE cur == [cursor EXCEPT !.secret = @ + 1]
             x == view.input_shares[cursor.secret + 1]
             val == ShareVal(x)
  <2>1. vnode.op = "SecretInput" /\ Step(val, cur)
    BY <1>5 DEF ReplaySecretInput, AtReplay
  <2>2. x \in F
    <3>1. Cardinality(LeavesBefore(ns, "SecretInput", vout)) < Cardinality(Leaves(ns, "SecretInput"))
      BY <1>2, <1>4, <2>1, LeavesBeforeStep DEF vnode
    <3>2. cursor.secret = Cardinality(LeavesBefore(ns, "SecretInput", vout))
      <4>1. Cardinality(LeavesBefore(ns, "SecretInput", vout)) \in Nat
        BY <1>2, <1>4, LeavesBeforeStep
      <4> QED BY <1>4, <4>1 DEF InputPosition
    <3>3. view.input_shares \in Seq(F) /\ Len(view.input_shares) = Cardinality(Leaves(ns, "SecretInput"))
      BY <1>2, ViewTypes, AcceptedJob
    <3> QED BY <1>4, <3>1, <3>2, <3>3
  <2>3. val \in LocalVal /\ val = [shared |-> TRUE, v |-> x]
    BY <2>2 DEF LocalVal, ShareVal
  <2>4. /\ cur \in Cursor /\ cur.secret = cursor.secret + 1 /\ cur.public = cursor.public
        /\ cur.op = cursor.op /\ cur.triple = cursor.triple /\ cur.opened = cursor.opened
    BY <1>4 DEF Cursor
  <2> HIDE DEF cur, val
  <2>5. LeafReplays(job, view, Append(replayed, val), vout)
    <3>1. Append(replayed, val)[vout] = val
      BY <1>1, <2>3, TakenFacts
    <3> QED BY <1>4, <2>1, <2>3, <3>1 DEF LeafReplays
  <2> QED BY <1>3, <1>4, <2>1, <2>3, <2>4, <2>5 DEF Takes
<1>6. CASE ReplayPublicInput
  <2> DEFINE cur == [cursor EXCEPT !.public = @ + 1]
             x == job.statement.public_inputs[cursor.public + 1]
             val == PublicVal(x)
  <2>1. vnode.op = "PublicInput" /\ Step(val, cur)
    BY <1>6 DEF ReplayPublicInput, AtReplay
  <2>2. x \in F
    <3>1. Cardinality(LeavesBefore(ns, "PublicInput", vout)) < Cardinality(Leaves(ns, "PublicInput"))
      BY <1>2, <1>4, <2>1, LeavesBeforeStep DEF vnode
    <3>2. cursor.public = Cardinality(LeavesBefore(ns, "PublicInput", vout))
      <4>1. Cardinality(LeavesBefore(ns, "PublicInput", vout)) \in Nat
        BY <1>2, <1>4, LeavesBeforeStep
      <4> QED BY <1>4, <4>1 DEF InputPosition
    <3>3. /\ job.statement.public_inputs \in Seq(F)
          /\ Len(job.statement.public_inputs) = Cardinality(Leaves(ns, "PublicInput"))
      BY <1>2, AcceptedJob
    <3> QED BY <1>4, <3>1, <3>2, <3>3
  <2>3. val \in LocalVal /\ val = [shared |-> FALSE, v |-> x]
    BY <2>2 DEF LocalVal, PublicVal
  <2>4. /\ cur \in Cursor /\ cur.secret = cursor.secret /\ cur.public = cursor.public + 1
        /\ cur.op = cursor.op /\ cur.triple = cursor.triple /\ cur.opened = cursor.opened
    BY <1>4 DEF Cursor
  <2> HIDE DEF cur, val
  <2>5. LeafReplays(job, view, Append(replayed, val), vout)
    <3>1. Append(replayed, val)[vout] = val
      BY <1>1, <2>3, TakenFacts
    <3> QED BY <1>4, <2>1, <2>3, <3>1 DEF LeafReplays
  <2> QED BY <1>3, <1>4, <2>1, <2>3, <2>4, <2>5 DEF Takes
<1>7. CASE ReplayConstant
  <2> DEFINE val == PublicVal(vnode.value)
  <2>1. vnode.op = "Constant" /\ Step(val, cursor)
    BY <1>7 DEF ReplayConstant, AtReplay
  <2>2. val \in LocalVal /\ val = [shared |-> FALSE, v |-> vnode.value]
    BY <1>4, <2>1 DEF LocalVal, PublicVal, Node
  <2> HIDE DEF val
  <2>3. LeafReplays(job, view, Append(replayed, val), vout)
    <3>1. Append(replayed, val)[vout] = val
      BY <1>1, <2>2, TakenFacts
    <3> QED BY <1>4, <2>1, <2>2, <3>1 DEF LeafReplays
  <2> QED BY <1>3, <1>4, <2>1, <2>2, <2>3 DEF Takes
<1> QED BY <1>5, <1>6, <1>7

\* A gate, with val for its output.
LEMMA TakesGate ==
  ASSUME Recomputed, AtReplay("Add") \/ AtReplay("Mul"), NEW val \in LocalVal, NEW w,
         w = Append(replayed, val)
  PROVE  /\ vout <= Len(job.circuit.nodes) /\ vnode.op \in {"Add", "Mul"}
         /\ nodeOf(job, vout) = vnode /\ IsGate(vnode)
         /\ wa \in LocalVal /\ wb \in LocalVal
         /\ wa.shared \in BOOLEAN /\ wb.shared \in BOOLEAN /\ wa.v \in F /\ wb.v \in F
         /\ wa = [shared |-> wa.shared, v |-> wa.v] /\ wb = [shared |-> wb.shared, v |-> wb.v]
         /\ w[vnode.a] = wa /\ w[vnode.b] = wb /\ w[vout] = val
         /\ Recorded(job, party, w, vout) <=>
              /\ wa.shared \/ wb.shared
              /\ vnode.op = "Add" /\ party # 0 => wa.shared /\ wb.shared
         /\ Multiplied(job, w, vout) <=> vnode.op = "Mul" /\ wa.shared /\ wb.shared
         /\ LeafReplays(job, view, w, vout)
         /\ cursor \in Cursor /\ cursor.op \in Nat /\ cursor.triple \in Nat
         /\ cursor.opened = 2 * cursor.triple
         /\ OpPosition(job, party, w, vout) = cursor.op + 1
         /\ TriplePosition(job, w, vout) = cursor.triple + 1
<1>1. vnode.op \in {"Add", "Mul"} /\ vout <= Len(job.circuit.nodes) /\ IsGate(vnode)
  BY DEF AtReplay, IsGate
<1>2. /\ nodeOf(job, vout) = vnode /\ w[vnode.a] = wa /\ w[vnode.b] = wb
      /\ wa \in LocalVal /\ wb \in LocalVal /\ w[vout] = val
      /\ cursor \in Cursor /\ cursor.op \in Nat /\ cursor.triple \in Nat
      /\ cursor.opened = 2 * cursor.triple
      /\ OpPosition(job, party, w, vout) = cursor.op + 1
      /\ TriplePosition(job, w, vout) = cursor.triple + 1
  BY <1>1, TakenFacts
<1>3. /\ wa.shared \in BOOLEAN /\ wb.shared \in BOOLEAN /\ wa.v \in F /\ wb.v \in F
      /\ wa = [shared |-> wa.shared, v |-> wa.v] /\ wb = [shared |-> wb.shared, v |-> wb.v]
  BY <1>2 DEF LocalVal
<1>4. Recorded(job, party, w, vout) <=>
        /\ wa.shared \/ wb.shared
        /\ vnode.op = "Add" /\ party # 0 => wa.shared /\ wb.shared
  BY <1>1, <1>2 DEF Recorded
<1>5. Multiplied(job, w, vout) <=> vnode.op = "Mul" /\ wa.shared /\ wb.shared
  BY <1>2 DEF Multiplied
<1>6. LeafReplays(job, view, w, vout)
  BY <1>1, <1>2 DEF LeafReplays
<1> QED BY <1>1, <1>2, <1>3, <1>4, <1>5, <1>6

\* Of a gate that is not recorded, only its value is to be shown.
LEMMA TakesSilent ==
  ASSUME Recomputed, AtReplay("Add") \/ AtReplay("Mul"), NEW val \in LocalVal, NEW w,
         w = Append(replayed, val), ~Recorded(job, party, w, vout),
         GateReplays(job, view, globals, w, vout), Step(val, cursor)
  PROVE  Takes(val)
<1>1. /\ LeafReplays(job, view, w, vout) /\ ~Multiplied(job, w, vout)
      /\ vnode.op \in {"Add", "Mul"} /\ cursor \in Cursor /\ cursor.opened = 2 * cursor.triple
  BY TakesGate
<1>2. NodeReplays(job, view, globals, w, vout)
  BY <1>1 DEF NodeReplays, RecordReplays, party
<1> QED BY <1>1, <1>2 DEF Takes

\* The next recorded operation is the expected one, or an error is returned.
LEMMA ExpectedRecorded ==
  ASSUME Recomputed, AtReplay("Add") \/ AtReplay("Mul"), NEW val \in LocalVal, NEW w,
         w = Append(replayed, val), NEW expected, ExpectError(expected) = "none",
         expected = ExpectedOp(job, globals, w, vout)
  PROVE  RecordReplays(job, view, globals, w, vout)
<1>1. OpPosition(job, party, w, vout) = cursor.op + 1 /\ cursor.op \in Nat
  BY TakesGate
<1>2. ~(cursor.op >= Len(view.local_operations)) /\ view.local_operations[cursor.op + 1] = expected
  BY DEF ExpectError
<1>3. Len(view.local_operations) \in Nat
  BY ViewTypes DEF Recomputed
<1> QED BY <1>1, <1>2, <1>3 DEF RecordReplays, party

LEMMA TakesWithOp ==
  ASSUME Recomputed, AtReplay("Add") \/ AtReplay("Mul"), NEW val \in LocalVal, NEW w,
         w = Append(replayed, val), Recorded(job, party, w, vout), ~Multiplied(job, w, vout),
         GateReplays(job, view, globals, w, vout),
         StepWithOp(ExpectedOp(job, globals, w, vout), val)
  PROVE  Takes(val) \/ Errs
<1> DEFINE cur == [cursor EXCEPT !.op = @ + 1]
           expected == ExpectedOp(job, globals, w, vout)
<1>1. /\ LeafReplays(job, view, w, vout) /\ vnode.op \in {"Add", "Mul"}
      /\ cursor \in Cursor /\ cursor.opened = 2 * cursor.triple
  BY TakesGate
<1>2. CASE ExpectError(expected) # "none"
  <2>1. Return(ExpectError(expected))
    BY <1>2 DEF StepWithOp
  <2> QED BY <1>2, <2>1, ReplayErrors DEF Errs
<1>3. CASE ExpectError(expected) = "none"
  <2>1. Step(val, cur)
    BY <1>3 DEF StepWithOp
  <2>2. RecordReplays(job, view, globals, w, vout)
    BY <1>3, ExpectedRecorded
  <2>3. NodeReplays(job, view, globals, w, vout)
    BY <1>1, <2>2 DEF NodeReplays
  <2>4. /\ cur \in Cursor /\ cur.secret = cursor.secret /\ cur.public = cursor.public
        /\ cur.op = cursor.op + 1 /\ cur.triple = cursor.triple /\ cur.opened = cursor.opened
    BY <1>1 DEF Cursor
  <2> HIDE DEF cur
  <2>5. /\ cur.secret = IF vnode.op = "SecretInput" THEN cursor.secret + 1 ELSE cursor.secret
        /\ cur.public = IF vnode.op = "PublicInput" THEN cursor.public + 1 ELSE cursor.public
        /\ cur.op = IF Recorded(job, party, w, vout) THEN cursor.op + 1 ELSE cursor.op
        /\ cur.triple = IF Multiplied(job, w, vout) THEN cursor.triple + 1 ELSE cursor.triple
        /\ cur.opened = 2 * cur.triple
    BY <1>1, <2>4
  <2> QED BY <2>1, <2>3, <2>4, <2>5 DEF Takes
<1> QED BY <1>2, <1>3

\* Additions.
LEMMA TakesAdds ==
  ASSUME Recomputed, ReplayAddPublic \/ ReplayAddShared \/ ReplayAddMixed
  PROVE  (\E val : Takes(val)) \/ Errs
<1> DEFINE val == AddVal(party, wa, wb)
           w == Append(replayed, val)
<1>0. AtReplay("Add") /\ vnode.op = "Add"
  BY DEF ReplayAddPublic, ReplayAddShared, ReplayAddMixed, AtReplay
<1>1. /\ wa.shared \in BOOLEAN /\ wb.shared \in BOOLEAN /\ wa.v \in F /\ wb.v \in F
      /\ wa = [shared |-> wa.shared, v |-> wa.v] /\ wb = [shared |-> wb.shared, v |-> wb.v]
  <2>1. [shared |-> FALSE, v |-> Zero] \in LocalVal
    BY FieldClosed DEF LocalVal
  <2> QED BY <1>0, <2>1, TakesGate
<1>2. val \in LocalVal
  <2>1. Plus(wa.v, wb.v) \in F
    BY <1>1, FieldClosed
  <2> QED BY <1>1, <2>1 DEF AddVal, LocalVal
<1> HIDE DEF val
<1>3. /\ w[vnode.a] = wa /\ w[vnode.b] = wb /\ w[vout] = val /\ nodeOf(job, vout) = vnode
      /\ ~Multiplied(job, w, vout)
      /\ Recorded(job, party, w, vout) <=>
           /\ wa.shared \/ wb.shared
           /\ party # 0 => wa.shared /\ wb.shared
  BY <1>0, <1>2, TakesGate
<1>4. GateReplays(job, view, globals, w, vout)
  <2> HIDE DEF w
  <2> QED BY <1>0, <1>3 DEF GateReplays, val, party
<1>5. ExpectedOp(job, globals, w, vout) = AddOp(vout, val.v)
  <2> HIDE DEF w
  <2> QED BY <1>0, <1>3 DEF ExpectedOp
<1>6. CASE ReplayAddPublic
  <2>1. ~wa.shared /\ ~wb.shared /\ Step(PublicVal(Plus(wa.v, wb.v)), cursor)
    BY <1>6 DEF ReplayAddPublic
  <2>2. val = PublicVal(Plus(wa.v, wb.v))
    BY <1>1, <2>1 DEF val, AddVal, PublicVal
  <2> QED BY <1>0, <1>2, <1>3, <1>4, <2>1, <2>2, TakesSilent
<1>7. CASE ReplayAddShared
  <2>1. /\ wa.shared /\ wb.shared
        /\ StepWithOp(AddOp(vout, Plus(wa.v, wb.v)), ShareVal(Plus(wa.v, wb.v)))
    BY <1>7 DEF ReplayAddShared
  <2>2. val = ShareVal(Plus(wa.v, wb.v)) /\ val.v = Plus(wa.v, wb.v)
    <3>1. (wa.shared \/ wb.shared) = TRUE /\ wa.shared = wb.shared
      BY <1>1, <2>1
    <3>2. val = [shared |-> TRUE, v |-> Plus(wa.v, wb.v)]
      BY <3>1 DEF val, AddVal
    <3> QED BY <3>2 DEF ShareVal
  <2> QED BY <1>0, <1>2, <1>3, <1>4, <1>5, <2>1, <2>2, TakesWithOp
<1>8. CASE ReplayAddMixed
  <2>1. wa.shared # wb.shared
    BY <1>8 DEF ReplayAddMixed
  <2>2. CASE party = 0
    <3>1. StepWithOp(AddOp(vout, Plus(wa.v, wb.v)), ShareVal(Plus(wa.v, wb.v)))
      BY <1>8, <2>2 DEF ReplayAddMixed
    <3>2. val = ShareVal(Plus(wa.v, wb.v)) /\ val.v = Plus(wa.v, wb.v)
      <4>1. (wa.shared \/ wb.shared) = TRUE
        BY <1>1, <2>1
      <4>2. val = [shared |-> TRUE, v |-> Plus(wa.v, wb.v)]
        BY <2>2, <4>1 DEF val, AddVal
      <4> QED BY <4>2 DEF ShareVal
    <3> QED BY <1>0, <1>1, <1>2, <1>3, <1>4, <1>5, <2>1, <2>2, <3>1, <3>2, TakesWithOp
  <2>3. CASE party # 0
    <3>1. Step(IF wa.shared THEN wa ELSE wb, cursor)
      BY <1>8, <2>3 DEF ReplayAddMixed
    <3>2. val = IF wa.shared THEN wa ELSE wb
      <4>1. CASE wa.shared
        <5>1. (wa.shared \/ wb.shared) = wa.shared
          BY <1>1, <4>1
        <5> QED BY <1>1, <2>1, <2>3, <4>1, <5>1 DEF val, AddVal
      <4>2. CASE ~wa.shared
        <5>1. (wa.shared \/ wb.shared) = wb.shared
          BY <1>1, <4>2
        <5> QED BY <1>1, <2>1, <2>3, <4>2, <5>1 DEF val, AddVal
      <4> QED BY <4>1, <4>2
    <3>3. ~Recorded(job, party, w, vout)
      BY <1>1, <1>3, <2>1, <2>3
    <3> QED BY <1>0, <1>2, <1>4, <3>1, <3>2, <3>3, TakesSilent
  <2> QED BY <2>2, <2>3
<1> QED BY <1>6, <1>7, <1>8

\* Multiplications that use no triple.
LEMMA TakesPlainMuls ==
  ASSUME Recomputed, ReplayMulPublic \/ ReplayMulMixed
  PROVE  (\E val : Takes(val)) \/ Errs
<1> DEFINE val == MulVal(wa, wb)
           w == Append(replayed, val)
<1>0. AtReplay("Mul") /\ vnode.op = "Mul"
  BY DEF ReplayMulPublic, ReplayMulMixed, AtReplay
<1>1. /\ wa.shared \in BOOLEAN /\ wb.shared \in BOOLEAN /\ wa.v \in F /\ wb.v \in F
      /\ ~(wa.shared /\ wb.shared)
  <2>1. [shared |-> FALSE, v |-> Zero] \in LocalVal
    BY FieldClosed DEF LocalVal
  <2> QED BY <1>0, <2>1, TakesGate DEF ReplayMulPublic, ReplayMulMixed
<1>2. val \in LocalVal
  <2>1. Times(wa.v, wb.v) \in F
    BY <1>1, FieldClosed
  <2> QED BY <1>1, <2>1 DEF MulVal, LocalVal
<1> HIDE DEF val
<1>3. /\ w[vnode.a] = wa /\ w[vnode.b] = wb /\ w[vout] = val /\ nodeOf(job, vout) = vnode
      /\ ~Multiplied(job, w, vout)
      /\ Recorded(job, party, w, vout) <=> wa.shared \/ wb.shared
  BY <1>0, <1>1, <1>2, TakesGate
<1>4. GateReplays(job, view, globals, w, vout)
  <2> HIDE DEF w
  <2> QED BY <1>0, <1>3 DEF GateReplays, val
<1>5. ExpectedOp(job, globals, w, vout)
        = MulPublicOp(vout, IF wb.shared THEN wa.v ELSE wb.v, val.v)
  <2> HIDE DEF w
  <2> QED BY <1>0, <1>3 DEF ExpectedOp
<1>6. CASE ReplayMulPublic
  <2>1. ~wa.shared /\ ~wb.shared /\ Step(PublicVal(Times(wa.v, wb.v)), cursor)
    BY <1>6 DEF ReplayMulPublic
  <2>2. val = PublicVal(Times(wa.v, wb.v))
    BY <1>1, <2>1 DEF val, MulVal, PublicVal
  <2> QED BY <1>0, <1>2, <1>3, <1>4, <2>1, <2>2, TakesSilent
<1>7. CASE ReplayMulMixed
  <2>1. /\ wa.shared # wb.shared
        /\ StepWithOp(MulPublicOp(vout, IF wb.shared THEN wa.v ELSE wb.v, Times(wa.v, wb.v)),
                      ShareVal(Times(wa.v, wb.v)))
    BY <1>7 DEF ReplayMulMixed
  <2>2. val = ShareVal(Times(wa.v, wb.v)) /\ val.v = Times(wa.v, wb.v)
    <3>1. (wa.shared \/ wb.shared) = TRUE
      BY <1>1, <2>1
    <3>2. val = [shared |-> TRUE, v |-> Times(wa.v, wb.v)]
      BY <3>1 DEF val, MulVal
    <3> QED BY <3>2 DEF ShareVal
  <2> QED BY <1>0, <1>1, <1>2, <1>3, <1>4, <1>5, <2>1, <2>2, TakesWithOp
<1> QED BY <1>6, <1>7

\* A Beaver product share is a field element.
LEMMA BeaverShareType ==
  ASSUME NEW p, NEW a \in F, NEW b \in F, NEW c \in F, NEW d \in F, NEW e \in F
  PROVE  beaver_share(p, a, b, c, d, e) \in F
BY FieldClosed DEF beaver_share, Absorb

\* A Beaver multiplication: the view's masks are its own shares less those of the triple,
\* or an error is returned.
LEMMA TakesBeaver ==
  ASSUME Recomputed, ReplayMulShared
  PROVE  (\E val : Takes(val)) \/ Errs
<1> DEFINE t == cursor.triple + 1
           triple == view.triple_shares[t]
           d == globals[2 * t - 1]
           e == globals[2 * t]
           z == beaver_share(party, triple.a, triple.b, triple.c, d, e)
           expected == BeaverMulOp(vout, t, d, e, z)
           cur == [cursor EXCEPT !.op = @ + 1, !.triple = @ + 1, !.opened = @ + 2]
           val == ShareVal(z)
           w == Append(replayed, val)
<1>1. AtReplay("Mul") /\ vnode.op = "Mul" /\ wa.shared /\ wb.shared
  BY DEF ReplayMulShared, AtReplay
<1>2. /\ cursor \in Cursor /\ cursor.triple \in Nat /\ cursor.opened = 2 * cursor.triple
      /\ cursor.op \in Nat
  <2>1. [shared |-> FALSE, v |-> Zero] \in LocalVal
    BY FieldClosed DEF LocalVal
  <2> QED BY <1>1, <2>1, TakesGate
<1>3. /\ t \in Nat \ {0} /\ cursor.opened + 1 = 2 * t - 1 /\ cursor.opened + 2 = 2 * t
      /\ 2 * t = 2 * cursor.triple + 2
  BY <1>2
<1>4. /\ Len(view.triple_shares) \in Nat /\ Len(view.opened_values) \in Nat
      /\ view.triple_shares \in Seq(TripleShare) /\ globals \in Seq(F) /\ Len(globals) \in Nat
  BY ViewTypes DEF Recomputed
<1>5. CASE MaskError # "none"
  <2>1. Return(MaskError)
    BY <1>5 DEF ReplayMulShared
  <2> QED BY <1>5, <2>1, ReplayErrors DEF Errs
<1>6. CASE MaskError = "none"
  <2>1. /\ ~(cursor.triple >= Len(view.triple_shares))
        /\ ~(cursor.opened + 2 > Len(view.opened_values))
        /\ ~(cursor.opened + 2 > Len(globals))
        /\ view.opened_values[cursor.opened + 1] = Minus(wa.v, triple.a)
        /\ view.opened_values[cursor.opened + 2] = Minus(wb.v, triple.b)
    BY <1>6 DEF MaskError
  <2>2. /\ t <= Len(view.triple_shares) /\ 2 * t <= Len(view.opened_values) /\ 2 * t <= Len(globals)
        /\ t \in 1 .. Len(view.triple_shares)
        /\ 2 * t - 1 \in 1 .. Len(globals) /\ 2 * t \in 1 .. Len(globals)
    <3> DEFINE lt == Len(view.triple_shares)
               lo == Len(view.opened_values)
               lg == Len(globals)
               ct == cursor.triple
    <3>1. /\ lt \in Nat /\ lo \in Nat /\ lg \in Nat /\ ct \in Nat /\ t = ct + 1
          /\ ~(ct >= lt) /\ ~(2 * t > lo) /\ ~(2 * t > lg)
      BY <1>2, <1>3, <1>4, <2>1
    <3> HIDE DEF lt, lo, lg, ct, t
    <3>2. /\ t <= lt /\ 2 * t <= lo /\ 2 * t <= lg /\ t \in 1 .. lt
          /\ 2 * t - 1 \in 1 .. lg /\ 2 * t \in 1 .. lg
      BY <3>1
    <3> QED BY <3>2 DEF lt, lo, lg
  <2>3. /\ view.opened_values[2 * t - 1] = Minus(wa.v, triple.a)
        /\ view.opened_values[2 * t] = Minus(wb.v, triple.b)
    BY <1>3, <2>1
  <2>4. IF ExpectError(expected) # "none" THEN Return(ExpectError(expected))
        ELSE Step(val, cur)
    BY <1>3, <1>6 DEF ReplayMulShared
  <2>5. z \in F
    <3>1. triple \in TripleShare /\ d \in F /\ e \in F
      <4> HIDE DEF t
      <4> QED BY <1>4, <2>2
    <3>2. triple.a \in F /\ triple.b \in F /\ triple.c \in F
      BY <3>1 DEF TripleShare
    <3> HIDE DEF triple, d, e
    <3> QED BY <3>1, <3>2, BeaverShareType
  <2>6. val \in LocalVal /\ val.v = z /\ val.shared = TRUE /\ val = [shared |-> TRUE, v |-> z]
    BY <2>5 DEF ShareVal, LocalVal
  <2> HIDE DEF val, t
  <2>7. /\ w[vnode.a] = wa /\ w[vnode.b] = wb /\ w[vout] = val /\ nodeOf(job, vout) = vnode
        /\ Multiplied(job, w, vout) /\ Recorded(job, party, w, vout)
        /\ TriplePosition(job, w, vout) = t
        /\ LeafReplays(job, view, w, vout)
    BY <1>1, <2>6, TakesGate DEF t
  <2> HIDE DEF w
  <2>8. GateReplays(job, view, globals, w, vout)
    <3>1. BeaverReplays(job, view, globals, w, vout)
      BY <1>1, <2>2, <2>3, <2>6, <2>7 DEF BeaverReplays, party
    <3> QED BY <1>1, <2>7, <3>1 DEF GateReplays
  <2>9. ExpectedOp(job, globals, w, vout) = expected
    BY <1>1, <2>6, <2>7 DEF ExpectedOp
  <2>10. CASE ExpectError(expected) # "none"
    <3>1. Return(ExpectError(expected))
      BY <2>4, <2>10
    <3> QED BY <2>10, <3>1, ReplayErrors DEF Errs
  <2>11. CASE ExpectError(expected) = "none"
    <3>1. Step(val, cur)
      BY <2>4, <2>11
    <3>2. RecordReplays(job, view, globals, w, vout)
      <4> HIDE DEF expected
      <4> QED BY <1>1, <2>6, <2>9, <2>11, ExpectedRecorded DEF w
    <3>3. NodeReplays(job, view, globals, w, vout)
      BY <2>7, <2>8, <3>2 DEF NodeReplays
    <3>4. /\ cur \in Cursor /\ cur.secret = cursor.secret /\ cur.public = cursor.public
          /\ cur.op = cursor.op + 1 /\ cur.triple = cursor.triple + 1
          /\ cur.opened = cursor.opened + 2
      <4>1. /\ DOMAIN cursor = {"secret", "public", "op", "triple", "opened"}
            /\ cursor.secret \in Nat /\ cursor.public \in Nat /\ cursor.opened \in Nat
        BY <1>2 DEF Cursor
      <4>2. /\ DOMAIN cur = {"secret", "public", "op", "triple", "opened"}
            /\ cur.secret = cursor.secret /\ cur.public = cursor.public
            /\ cur.op = cursor.op + 1 /\ cur.triple = cursor.triple + 1
            /\ cur.opened = cursor.opened + 2
        BY <4>1
      <4>3. cur = [secret |-> cur.secret, public |-> cur.public, op |-> cur.op,
                   triple |-> cur.triple, opened |-> cur.opened]
        <5>1. cur = [x \in {"secret", "public", "op", "triple", "opened"} |-> cur[x]]
          BY <4>1
        <5> HIDE DEF cur
        <5> QED BY <5>1, <4>2
      <4> HIDE DEF cur
      <4> QED BY <1>2, <4>1, <4>2, <4>3 DEF Cursor
    <3> HIDE DEF cur
    <3>5. cur.opened = 2 * cur.triple
      BY <1>2, <3>4
    <3>6. /\ cur.secret = IF vnode.op = "SecretInput" THEN cursor.secret + 1 ELSE cursor.secret
          /\ cur.public = IF vnode.op = "PublicInput" THEN cursor.public + 1 ELSE cursor.public
          /\ cur.op = IF Recorded(job, party, w, vout) THEN cursor.op + 1 ELSE cursor.op
          /\ cur.triple = IF Multiplied(job, w, vout) THEN cursor.triple + 1 ELSE cursor.triple
      BY <1>1, <2>7, <3>4
    <3> QED BY <2>6, <3>1, <3>3, <3>4, <3>5, <3>6 DEF Takes, w
  <2> QED BY <2>10, <2>11
<1> QED BY <1>5, <1>6

\* Every node is replayed as the view records it, or an error is returned.
LEMMA TakesNode ==
  ASSUME Recomputed, ReplayNode
  PROVE  (\E val : Takes(val)) \/ Errs
<1>1. CASE ReplaySecretInput \/ ReplayPublicInput \/ ReplayConstant
  <2>1. Len(view.input_shares) = job.circuit.num_secret_inputs
    BY <1>1 DEF ReplaySecretInput, ReplayPublicInput, ReplayConstant, AtReplay
  <2> QED BY <1>1, <2>1, TakesLeaves
<1>2. CASE ReplayAddPublic \/ ReplayAddShared \/ ReplayAddMixed
  BY <1>2, TakesAdds
<1>3. CASE ReplayMulPublic \/ ReplayMulMixed
  BY <1>3, TakesPlainMuls
<1>4. CASE ReplayMulShared
  BY <1>4, TakesBeaver
<1> QED BY <1>1, <1>2, <1>3, <1>4 DEF ReplayNode

\* What was replayed so far is replayed still.
LEMMA TakesKeeps ==
  ASSUME Recomputed, vout <= Len(job.circuit.nodes), NEW val, Takes(val),
         UNCHANGED <<job, proof>>
  PROVE  /\ Recomputed'
         /\ UNCHANGED <<stage, verdict, rep, globals, who, replays>>
<1> DEFINE n == Len(replayed)
<1>0. PICK w : w = Append(replayed, val)
  OBVIOUS
<1>1. PICK cur \in Cursor :
        /\ val \in LocalVal
        /\ Step(val, cur)
        /\ NodeReplays(job, view, globals, w, vout)
        /\ cur.secret = IF vnode.op = "SecretInput" THEN cursor.secret + 1 ELSE cursor.secret
        /\ cur.public = IF vnode.op = "PublicInput" THEN cursor.public + 1 ELSE cursor.public
        /\ cur.op = IF Recorded(job, party, w, vout) THEN cursor.op + 1 ELSE cursor.op
        /\ cur.triple = IF Multiplied(job, w, vout) THEN cursor.triple + 1 ELSE cursor.triple
        /\ cur.opened = 2 * cur.triple
  BY <1>0 DEF Takes
<1>2. /\ replayed' = w /\ cursor' = cur
      /\ UNCHANGED <<stage, verdict, rep, globals, who, replays>>
  BY <1>0, <1>1 DEF Step
<1>3. UNCHANGED <<opened, repetition, view, party>>
  BY <1>2 DEF view, opened, repetition, party
<1>4. /\ Checked(job) /\ JobAccepted /\ view \in PartyView /\ globals \in Seq(F)
      /\ Len(job.circuit.nodes) \in Nat /\ replayed \in Seq(LocalVal) /\ n \in Nat
  BY AcceptedJob DEF Recomputed
<1>5. /\ vout = n + 1 /\ vout \in 1 .. Len(job.circuit.nodes) + 1
      /\ w \in Seq(LocalVal) /\ Len(w) = vout /\ Extends(replayed, w)
      /\ \A k \in 1 .. vout - 1 : w[k] = replayed[k]
      /\ nodeOf(job, vout) = vnode
  <2>1. vout = n + 1
    BY <1>4 DEF vout
  <2>2. /\ vout \in 1 .. Len(job.circuit.nodes)
        /\ w \in Seq(LocalVal) /\ Len(w) = vout /\ Extends(replayed, w)
        /\ \A k \in 1 .. vout - 1 : w[k] = replayed[k]
        /\ nodeOf(job, vout) = vnode
    <3>1. val \in LocalVal
      BY <1>1
    <3>2. vout \in 1 .. Len(job.circuit.nodes)
      BY <1>0, <3>1, TakenFacts
    <3>3. w \in Seq(LocalVal) /\ Len(w) = vout
      BY <1>0, <3>1, TakenFacts
    <3>4. Extends(replayed, w)
      BY <1>0, <3>1, TakenFacts
    <3>5. \A k \in 1 .. vout - 1 : w[k] = replayed[k]
      BY <1>0, <3>1, TakenFacts
    <3>6. nodeOf(job, vout) = vnode
      BY <1>0, <3>1, TakenFacts
    <3> QED BY <3>2, <3>3, <3>4, <3>5, <3>6
  <2> HIDE DEF n
  <2> QED BY <1>4, <2>1, <2>2
<1>6. \A i \in DOMAIN w : NodeReplays(job, view, globals, w, i)
  <2> SUFFICES ASSUME NEW i \in DOMAIN w
               PROVE  NodeReplays(job, view, globals, w, i)
    OBVIOUS
  <2>1. CASE i = vout
    BY <1>1, <2>1
  <2>2. CASE i # vout
    <3>1. i \in DOMAIN replayed
      BY <1>4, <1>5, <2>2
    <3>2. NodeReplays(job, view, globals, replayed, i)
      BY <3>1 DEF Recomputed
    <3>3. Grown(view, view) /\ Extends(globals, globals) /\ Len(globals) \in Nat
      BY <1>4, ViewTypes DEF Grown, Extends
    <3>4. Len(replayed) <= Len(job.circuit.nodes)
      BY DEF Recomputed
    <3> QED BY <1>4, <1>5, <3>1, <3>2, <3>3, <3>4, NodeKept
  <2> QED BY <2>1, <2>2
<1>7. Cursors(job, party, w, n + 1, cur)
  <2>1. Cursors(job, party, replayed, n, cursor)
    BY DEF Recomputed
  <2>2. /\ OpPosition(job, party, w, n + 1) = OpPosition(job, party, replayed, n + 1)
        /\ TriplePosition(job, w, n + 1) = TriplePosition(job, replayed, n + 1)
    BY <1>4, <1>5, PositionKept
  <2>3. Cursors(job, party, w, n, cursor)
    BY <2>1, <2>2 DEF Cursors
  <2> HIDE DEF n
  <2> QED BY <1>1, <1>4, <1>5, <2>3, CursorStep
<1>8. Len(w) = n + 1 /\ Len(w) <= Len(job.circuit.nodes)
  BY <1>4, <1>5
<1>9. Recomputed'
  BY <1>2, <1>3, <1>4, <1>5, <1>6, <1>7, <1>8 DEF Recomputed, JobAccepted
<1> QED BY <1>2, <1>9

\* The replay of a view begins.
LEMMA ReplayStarts ==
  ASSUME JobAccepted', stage' = "replay", replayed' = << >>, cursor' = ZeroCursor,
         view' \in PartyView, globals' \in Seq(F)
  PROVE  Recomputed'
<1>1. /\ << >> \in Seq(LocalVal) /\ Len(<< >>) = 0 /\ DOMAIN << >> = {}
  OBVIOUS
<1>2. Cursors(job, party, << >>, 0, ZeroCursor)'
  BY StartCursors DEF ZeroCursor
<1>3. Len(job.circuit.nodes)' \in Nat
  <2>1. job.circuit.nodes' \in Seq(Node)
    BY DEF JobAccepted, Job, Circuit
  <2> QED BY <2>1
<1>4. Cursors(job, party, replayed, Len(replayed), cursor)'
  BY <1>1, <1>2 DEF ZeroCursor
<1> QED BY <1>1, <1>3, <1>4 DEF Recomputed

\* A repetition that is opened has its two views, and they and the masks are well formed.
LEMMA OpenedTypes ==
  ASSUME repetition \in Repetition, OpenError = "none"
  PROVE  /\ opened[1].view \in PartyView /\ opened[2].view \in PartyView
         /\ Globals \in Seq(F)
<1>1. repetition.hidden_broadcasts \in Seq(F) /\ opened \in Seq(OpenedView)
  BY DEF Repetition, opened
<1>2. opened[1].view \in PartyView /\ opened[2].view \in PartyView
  <2>1. repetition.challenge \in Party
    BY DEF Repetition
  <2>2. [i \in DOMAIN opened |-> opened[i].view.party_id] = others(repetition.challenge)
    BY DEF OpenError
  <2>3. DOMAIN opened = 1 .. 2
    BY <2>1, <2>2, OthersFacts
  <2>4. ASSUME NEW s \in Seq(OpenedView), DOMAIN s = 1 .. 2
        PROVE  s[1] \in OpenedView /\ s[2] \in OpenedView
    <3>1. 1 \in DOMAIN s /\ 2 \in DOMAIN s
      BY <2>4
    <3> QED BY <3>1
  <2>5. opened[1] \in OpenedView /\ opened[2] \in OpenedView
    BY <1>1, <2>3, <2>4
  <2> QED BY <2>5 DEF OpenedView
<1> QED BY <1>1, <1>2, GlobalsType

\* The i-th opened view of repetition r records evaluation x of the whole circuit.
Shows(r, i, x) ==
  LET v == r.opened_views[i].view
  IN  /\ v \in PartyView
      /\ Len(v.input_shares) = job.circuit.num_secret_inputs
      /\ ViewReplays(job, v, GlobalsOf(r), x)
      /\ Len(x) = Len(job.circuit.nodes)

\* With the hidden party's shares the two evaluations yield the expected outputs.
AddsUp(r, x, y) ==
  /\ Len(r.hidden_output_shares) = Len(job.circuit.outputs)
  /\ \A k \in DOMAIN job.circuit.outputs :
       LET o == job.circuit.outputs[k]
           h == r.hidden_output_shares[k]
       IN  IF node_depends_on_secrets(job.circuit)[o]
           THEN /\ x[o].shared /\ y[o].shared
                /\ Plus(Plus(h, x[o].v), y[o].v) = job.statement.expected_outputs[k]
           ELSE h = Zero

\* What an accepted repetition shows of the two parties it opens.
Convinces(r, n) ==
  /\ Opens(r, n)
  /\ \E x, y : Shows(r, 1, x) /\ Shows(r, 2, y) /\ AddsUp(r, x, y)

VerifierTypes ==
  /\ stage \in {"start", "open", "replay", "outputs", "done"}
  /\ verdict \in {"none", "Valid", "Invalid"} \cup VerifierErrors
  /\ (stage = "done") = (verdict # "none")
  /\ rep \in Nat \ {0}
  /\ globals \in Seq(F)
  /\ who \in 1 .. 2
  /\ replayed \in Seq(LocalVal)
  /\ cursor \in Cursor
  /\ Len(replays) <= 2

\* The verification has come as far as repetition rep, and accepted those before.
Underway ==
  /\ JobAccepted
  /\ rep \in DOMAIN proof
  /\ \A n \in 1 .. rep - 1 : Convinces(proof[n], n)

Opening1 == stage = "open" /\ Idle /\ replays = << >>

ReplayingOne ==
  /\ Recomputed /\ OpenedWell
  /\ replays \in Seq(Seq(LocalVal)) /\ who = Len(replays) + 1
  /\ who = 2 => Shows(repetition, 1, replays[1])

BothShown ==
  /\ stage = "outputs" /\ OpenedWell /\ Idle
  /\ Len(replays) = 2
  /\ \A i \in 1 .. 2 : Shows(repetition, i, replays[i])

AllConvince == JobAccepted /\ proof # << >> /\ \A n \in DOMAIN proof : Convinces(proof[n], n)

\* What the verifier has been shown so far.
ShownSoFar ==
  \/ Fresh
  \/ Underway /\ (Opening1 \/ ReplayingOne \/ BothShown)
  \/ stage = "done" /\ (verdict = "Valid" => AllConvince)

VerifierInv == VerifierTypes /\ ShownSoFar

\* The verifier returns.
LEMMA Returns ==
  ASSUME VerifierTypes, NEW v \in {"Valid", "Invalid"} \cup VerifierErrors, Return(v),
         v = "Valid" => AllConvince, UNCHANGED <<job, proof>>
  PROVE  VerifierInv'
<1>1. /\ stage' = "done" /\ verdict' = v
      /\ UNCHANGED <<rep, globals, who, replayed, cursor, replays>>
  BY DEF Return
<1>2. v # "none"
  BY DEF VerifierErrors
<1>3. VerifierTypes'
  BY <1>1, <1>2 DEF VerifierTypes
<1>4. AllConvince' = AllConvince
  BY DEF AllConvince, JobAccepted, Convinces, Opens, Shows, AddsUp, GlobalsOf
<1> QED BY <1>1, <1>3, <1>4 DEF VerifierInv, ShownSoFar

\* What has been shown of the proof stays so.
LEMMA ConvincedStays ==
  ASSUME UNCHANGED <<job, proof>>
  PROVE  /\ JobAccepted' = JobAccepted
         /\ \A n : Convinces(proof[n], n)' = Convinces(proof[n], n)
BY DEF JobAccepted, Convinces, Opens, Shows, AddsUp, GlobalsOf

LEMMA VerifyShown ==
  ASSUME VerifierInv, job \in Job, proof \in Seq(Repetition), verify, UNCHANGED <<job, proof>>
  PROVE  VerifierInv'
<1> DEFINE e == statement_validate(job.statement, job.circuit)
<1>1. Fresh /\ VerifierTypes
  BY DEF VerifierInv, ShownSoFar, verify, Opening1, ReplayingOne, BothShown, Recomputed
<1>2. e \in {"InvalidCircuit", "InvalidStatement", "Ok"}
  BY DEF statement_validate
<1>3. CASE e # "Ok"
  <2>1. Return(e) /\ e \in VerifierErrors /\ e # "Valid"
    BY <1>2, <1>3 DEF verify, VerifierErrors
  <2> HIDE DEF e
  <2> QED BY <1>1, <2>1, Returns
<1>4. CASE e = "Ok" /\ proof = << >>
  <2>1. Return("InvalidProtocolState") /\ "InvalidProtocolState" \in VerifierErrors
    BY <1>4 DEF verify, VerifierErrors
  <2> QED BY <1>1, <2>1, Returns
<1>5. CASE e = "Ok" /\ proof # << >>
  <2>1. /\ stage' = "open"
        /\ UNCHANGED <<verdict, rep, globals, who, replayed, cursor, replays>>
    BY <1>5 DEF verify
  <2>2. JobAccepted' /\ 1 \in DOMAIN proof /\ 1 .. 1 - 1 = {}
    BY <1>5 DEF JobAccepted
  <2>3. Underway' /\ Opening1'
    BY <1>1, <2>1, <2>2 DEF Underway, Opening1, Fresh, Idle
  <2>4. VerifierTypes'
    BY <1>1, <2>1 DEF VerifierTypes, Fresh
  <2> QED BY <2>3, <2>4 DEF VerifierInv, ShownSoFar
<1> QED BY <1>3, <1>4, <1>5

LEMMA OpenShown ==
  ASSUME VerifierInv, job \in Job, proof \in Seq(Repetition), verify_repetition,
         UNCHANGED <<job, proof>>
  PROVE  VerifierInv'
<1>1. Underway /\ Opening1 /\ VerifierTypes
  BY DEF VerifierInv, ShownSoFar, verify_repetition, Fresh, ReplayingOne, BothShown, Recomputed
<1>2. CASE OpenError # "none"
  <2>1. Return(OpenError) /\ OpenError \in VerifierErrors /\ OpenError # "Valid"
    BY <1>2, OpenErrors DEF verify_repetition
  <2> QED BY <1>1, <2>1, Returns
<1>3. CASE OpenError = "none"
  <2>1. /\ stage' = "replay" /\ globals' = Globals
        /\ UNCHANGED <<verdict, rep, who, replayed, cursor, replays>>
    BY <1>3 DEF verify_repetition
  <2>2. repetition \in Repetition
    BY <1>1 DEF Underway, repetition
  <2>3. /\ opened[1].view \in PartyView /\ opened[2].view \in PartyView /\ Globals \in Seq(F)
        /\ Opens(repetition, rep)
    BY <1>3, <2>2, OpenedTypes, OpenedMeans
  <2>4. /\ UNCHANGED <<repetition, opened, Globals>>
        /\ view' = opened[1].view
        /\ JobAccepted' /\ Opens(repetition, rep)'
    <3>1. UNCHANGED <<repetition, opened>> /\ who' = 1
      BY <1>1, <2>1 DEF repetition, opened, Opening1, Idle
    <3> QED BY <1>1, <2>1, <2>3, <3>1, ConvincedStays DEF Globals, view, Underway, Opens
  <2>5. OpenedWell' /\ globals' \in Seq(F)
    BY <2>1, <2>2, <2>3, <2>4 DEF OpenedWell
  <2>6. Recomputed'
    BY <1>1, <2>1, <2>3, <2>4, <2>5, ReplayStarts DEF Opening1, Idle
  <2>7. ReplayingOne'
    BY <1>1, <2>1, <2>5, <2>6 DEF ReplayingOne, Opening1, Idle
  <2>8. Underway'
    BY <1>1, <2>1, ConvincedStays DEF Underway
  <2>9. VerifierTypes'
    BY <1>1, <2>1, <2>5 DEF VerifierTypes, Opening1
  <2> QED BY <2>7, <2>8, <2>9 DEF VerifierInv, ShownSoFar
<1> QED BY <1>2, <1>3

LEMMA NodeShown ==
  ASSUME VerifierInv, job \in Job, proof \in Seq(Repetition), ReplayNode \/ WrongInputCount,
         UNCHANGED <<job, proof>>
  PROVE  VerifierInv'
<1>1. stage = "replay" /\ (ReplayNode => vout <= Len(job.circuit.nodes))
  BY DEF ReplayNode, AtReplay, ReplaySecretInput, ReplayPublicInput, ReplayConstant,
       ReplayAddPublic, ReplayAddShared, ReplayAddMixed, ReplayMulPublic, ReplayMulMixed,
       ReplayMulShared, WrongInputCount
<1>2. Underway /\ ReplayingOne /\ VerifierTypes
  BY <1>1 DEF VerifierInv, ShownSoFar, Fresh, Opening1, BothShown
<1>3. CASE Errs
  <2>1. PICK e \in VerifierErrors : Return(e)
    BY <1>3 DEF Errs
  <2> QED BY <1>2, <2>1, ReplayErrors, Returns
<1>4. CASE WrongInputCount
  <2>1. Return("InconsistentView") /\ "InconsistentView" \in VerifierErrors
    BY <1>4 DEF WrongInputCount, VerifierErrors
  <2> QED BY <1>2, <2>1, Returns
<1>5. CASE ReplayNode /\ \E val : Takes(val)
  <2>1. PICK val : Takes(val)
    BY <1>5
  <2>2. Recomputed' /\ UNCHANGED <<stage, verdict, rep, globals, who, replays>>
    BY <1>1, <1>2, <1>5, <2>1, TakesKeeps DEF ReplayingOne
  <2>3. repetition' = repetition /\ opened' = opened /\ Globals' = Globals
    BY <2>2 DEF repetition, opened, Globals
  <2>4. OpenedWell'
    BY <1>2, <2>2, <2>3 DEF ReplayingOne, OpenedWell, Opens
  <2>5. who = 2 => Shows(repetition, 1, replays[1])'
    BY <1>2, <2>2, <2>3 DEF ReplayingOne, Shows, GlobalsOf
  <2>6. ReplayingOne'
    BY <1>2, <2>2, <2>4, <2>5 DEF ReplayingOne
  <2>7. Underway'
    BY <1>2, <2>2, ConvincedStays DEF Underway
  <2>8. VerifierTypes'
    BY <1>2, <2>2 DEF VerifierTypes, Recomputed, Cursors
  <2> QED BY <2>6, <2>7, <2>8 DEF VerifierInv, ShownSoFar
<1>6. ReplayNode => (\E val : Takes(val)) \/ Errs
  BY <1>2, TakesNode DEF ReplayingOne
<1> QED BY <1>3, <1>4, <1>5, <1>6

\* A view of which nothing is left over records the evaluation that was recomputed.
LEMMA ViewShown ==
  ASSUME Underway, ReplayingOne, Len(view.input_shares) = job.circuit.num_secret_inputs,
         Len(replayed) = Len(job.circuit.nodes), FullyConsumed
  PROVE  Shows(repetition, who, replayed)
<1>1. /\ view = repetition.opened_views[who].view /\ globals = GlobalsOf(repetition)
      /\ view \in PartyView /\ replayed \in Seq(LocalVal)
      /\ Cursors(job, party, replayed, Len(replayed), cursor)
      /\ \A i \in DOMAIN replayed : NodeReplays(job, view, globals, replayed, i)
  BY DEF ReplayingOne, Recomputed, OpenedWell, view, opened, Globals, GlobalsOf
<1>2. /\ cursor.op = Len(view.local_operations)
      /\ cursor.triple = Len(view.triple_shares)
      /\ cursor.opened = Len(view.opened_values)
  BY DEF FullyConsumed
<1>3. /\ Len(view.local_operations) + 1 = OpPosition(job, party, replayed, Len(replayed) + 1)
      /\ Len(view.triple_shares) + 1 = TriplePosition(job, replayed, Len(replayed) + 1)
      /\ Len(view.opened_values) = 2 * Len(view.triple_shares)
  BY <1>1, <1>2 DEF Cursors
<1>4. ViewReplays(job, view, globals, replayed)
  BY <1>1, <1>3 DEF ViewReplays, party
<1> QED BY <1>1, <1>4 DEF Shows

LEMMA FinishShown ==
  ASSUME VerifierInv, job \in Job, proof \in Seq(Repetition), FinishReplay,
         UNCHANGED <<job, proof>>
  PROVE  VerifierInv'
<1>1. Underway /\ ReplayingOne /\ VerifierTypes
  BY DEF FinishReplay, VerifierInv, ShownSoFar, Fresh, Opening1, BothShown
<1>2. CASE ~FullyConsumed
  <2>1. Return("InconsistentView") /\ "InconsistentView" \in VerifierErrors
    BY <1>2 DEF FinishReplay, VerifierErrors
  <2> QED BY <1>1, <2>1, Returns
<1>3. CASE FullyConsumed
  <2>1. /\ stage' = IF who = 1 THEN "replay" ELSE "outputs"
        /\ who' = IF who = 1 THEN 2 ELSE 1
        /\ replays' = Append(replays, replayed)
        /\ replayed' = << >>
        /\ cursor' = ZeroCursor
        /\ UNCHANGED <<verdict, rep, globals>>
    BY <1>3 DEF FinishReplay, NextView
  <2>2. Shows(repetition, who, replayed)
    BY <1>1, <1>3, ViewShown DEF FinishReplay
  <2>3. UNCHANGED <<repetition, opened, Globals>>
    BY <2>1 DEF repetition, opened, Globals
  <2>4. OpenedWell'
    BY <1>1, <2>1, <2>3 DEF ReplayingOne, OpenedWell, Opens
  <2>5. \A i, x : Shows(repetition, i, x) => Shows(repetition, i, x)'
    BY <2>3 DEF Shows, GlobalsOf
  <2>6. Underway'
    BY <1>1, <2>1, ConvincedStays DEF Underway
  <2>7. /\ who \in 1 .. 2 /\ Len(replays) = who - 1 /\ globals \in Seq(F)
        /\ replays \in Seq(Seq(LocalVal)) /\ replayed \in Seq(LocalVal)
    BY <1>1 DEF ReplayingOne, VerifierTypes
  <2>8. /\ << >> \in Seq(LocalVal) /\ ZeroCursor \in Cursor
        /\ stage # "done" /\ verdict = "none"
    BY <1>1 DEF ZeroCursor, Cursor, VerifierTypes, ReplayingOne, Recomputed
  <2>9. CASE who = 1
    <3>1. replays' = <<replayed>>
      <4>1. replays = << >>
        BY <2>7, <2>9
      <4> QED BY <2>1, <4>1
    <3>2. /\ who' = 2 /\ stage' = "replay" /\ Len(replays') = 1 /\ replays'[1] = replayed
          /\ replays' \in Seq(Seq(LocalVal))
      BY <2>1, <2>7, <2>9, <3>1
    <3>3. view' = opened[2].view /\ view' \in PartyView
      BY <1>1, <2>3, <3>2 DEF view, OpenedWell, ReplayingOne
    <3>4. Recomputed'
      BY <2>1, <2>6, <2>7, <3>2, <3>3, ReplayStarts DEF Underway
    <3>5. Shows(repetition, 1, replays[1])'
      BY <2>2, <2>5, <2>9, <3>2
    <3>6. ReplayingOne'
      BY <2>4, <3>2, <3>4, <3>5 DEF ReplayingOne
    <3>7. VerifierTypes'
      BY <1>1, <2>1, <2>8, <3>2 DEF VerifierTypes
    <3> QED BY <2>6, <3>6, <3>7 DEF VerifierInv, ShownSoFar
  <2>10. CASE who = 2
    <3>1. Shows(repetition, 1, replays[1])
      BY <1>1, <2>10 DEF ReplayingOne
    <3>2. Len(replays') = 2 /\ replays'[1] = replays[1] /\ replays'[2] = replayed
      <4>1. Len(replays) = 1
        BY <2>7, <2>10
      <4> QED BY <2>1, <2>7, <4>1
    <3>3. who' = 1 /\ stage' = "outputs"
      BY <2>1, <2>10
    <3>4. \A i \in 1 .. 2 : Shows(repetition, i, replays[i])'
      BY <2>2, <2>5, <2>10, <3>1, <3>2
    <3>5. BothShown'
      BY <2>1, <2>4, <3>2, <3>3, <3>4 DEF BothShown, Idle, ZeroCursor
    <3>6. VerifierTypes'
      BY <1>1, <2>1, <2>8, <3>2, <3>3 DEF VerifierTypes
    <3> QED BY <2>6, <3>5, <3>6 DEF VerifierInv, ShownSoFar
  <2> QED BY <2>7, <2>9, <2>10
<1> QED BY <1>2, <1>3

\* When no output fails, the shares add up to what the statement expects.
LEMMA ValidAddsUp ==
  ASSUME OutputVerdict = "Valid"
  PROVE  AddsUp(repetition, replays[1], replays[2])
<1>1. /\ Len(repetition.hidden_output_shares) = Len(job.circuit.outputs)
      /\ OutputFailures = {}
  BY DEF OutputVerdict
<1> SUFFICES ASSUME NEW k \in DOMAIN job.circuit.outputs
             PROVE  LET o == job.circuit.outputs[k]
                        h == repetition.hidden_output_shares[k]
                    IN  IF node_depends_on_secrets(job.circuit)[o]
                        THEN /\ replays[1][o].shared /\ replays[2][o].shared
                             /\ Plus(Plus(h, replays[1][o].v), replays[2][o].v)
                                  = job.statement.expected_outputs[k]
                        ELSE h = Zero
  BY <1>1 DEF AddsUp
<1>2. /\ k \in SecretOutputs => SharesPresent(k) /\ OutputTotal(k) = job.statement.expected_outputs[k]
      /\ k \notin SecretOutputs => repetition.hidden_output_shares[k] = Zero
  BY <1>1 DEF OutputFailures
<1>3. k \in SecretOutputs <=> node_depends_on_secrets(job.circuit)[job.circuit.outputs[k]]
  BY DEF SecretOutputs
<1>4. SharesPresent(k) => /\ replays[1][job.circuit.outputs[k]].shared
                          /\ replays[2][job.circuit.outputs[k]].shared
  BY DEF SharesPresent
<1> QED BY <1>2, <1>3, <1>4 DEF OutputTotal

LEMMA OutputsShown ==
  ASSUME VerifierInv, job \in Job, proof \in Seq(Repetition), check_outputs,
         UNCHANGED <<job, proof>>
  PROVE  VerifierInv'
<1>1. Underway /\ BothShown /\ VerifierTypes
  BY DEF check_outputs, VerifierInv, ShownSoFar, Fresh, Opening1, ReplayingOne, Recomputed
<1>2. rep \in 1 .. Len(proof) /\ Len(proof) \in Nat /\ rep \in Nat \ {0}
  BY <1>1 DEF Underway
<1>3. OutputVerdict \in {"Valid", "Invalid"} \cup VerifierErrors
  BY DEF OutputVerdict, VerifierErrors
<1>4. OutputVerdict = "Valid" => \A n \in 1 .. rep : Convinces(proof[n], n)
  <2> SUFFICES ASSUME OutputVerdict = "Valid", NEW n \in 1 .. rep
               PROVE  Convinces(proof[n], n)
    OBVIOUS
  <2>1. CASE n = rep
    <3>1. Convinces(repetition, rep)
      BY <1>1, ValidAddsUp DEF Convinces, BothShown, OpenedWell
    <3> QED BY <2>1, <3>1 DEF repetition
  <2>2. CASE n # rep
    <3>1. n \in 1 .. rep - 1
      BY <1>2, <2>2
    <3> QED BY <1>1, <3>1 DEF Underway
  <2> QED BY <2>1, <2>2
<1>5. CASE OutputVerdict = "Valid" /\ rep < Len(proof)
  <2>1. /\ stage' = "open" /\ rep' = rep + 1 /\ replays' = << >>
        /\ UNCHANGED <<verdict, globals, who, replayed, cursor>>
    BY <1>5 DEF check_outputs, NextRepetition
  <2>2. rep' \in DOMAIN proof' /\ rep' - 1 = rep /\ rep' \in Nat \ {0}
    BY <1>2, <1>5, <2>1
  <2>3. Underway'
    BY <1>1, <1>4, <1>5, <2>2, ConvincedStays DEF Underway
  <2>4. Opening1'
    BY <1>1, <2>1 DEF Opening1, BothShown, Idle
  <2>5. VerifierTypes'
    BY <1>1, <2>1, <2>2 DEF VerifierTypes, BothShown
  <2> QED BY <2>3, <2>4, <2>5 DEF VerifierInv, ShownSoFar
<1>6. CASE ~(OutputVerdict = "Valid" /\ rep < Len(proof))
  <2>1. Return(OutputVerdict)
    BY <1>6 DEF check_outputs
  <2>2. OutputVerdict = "Valid" => AllConvince
    <3> SUFFICES ASSUME OutputVerdict = "Valid" PROVE AllConvince
      OBVIOUS
    <3>1. rep = Len(proof) /\ proof # << >> /\ DOMAIN proof = 1 .. rep
      BY <1>2, <1>6
    <3> QED BY <1>1, <1>4, <3>1 DEF AllConvince, Underway
  <2> QED BY <1>1, <1>3, <2>1, <2>2, Returns
<1> QED BY <1>5, <1>6

\* What the verifier has been shown, whatever it does next.
LEMMA VerifierInvStep ==
  ASSUME VerifierInv, job \in Job, proof \in Seq(Repetition), VerifierNext,
         UNCHANGED <<job, proof>>
  PROVE  VerifierInv'
BY VerifyShown, OpenShown, NodeShown, FinishShown, OutputsShown DEF VerifierNext

LEMMA VerifierInvKept ==
  ASSUME VerifierInv, UNCHANGED <<job, proof, verifierVars>>
  PROVE  VerifierInv'
<1>1. UNCHANGED <<stage, verdict, rep, globals, who, replayed, cursor, replays>>
  BY DEF verifierVars
<1>2. UNCHANGED <<repetition, opened, view, party, Globals>>
  BY <1>1 DEF repetition, opened, view, party, Globals
<1>3. VerifierTypes' /\ (Fresh => Fresh') /\ (Opening1 => Opening1')
  BY <1>1 DEF VerifierInv, VerifierTypes, Fresh, Opening1, Idle
<1>4. AllConvince' = AllConvince /\ Underway' = Underway
  BY <1>1, ConvincedStays DEF AllConvince, Underway
<1>5. OpenedWell' = OpenedWell /\ Recomputed' = Recomputed
  BY <1>1, <1>2 DEF OpenedWell, Recomputed, JobAccepted, Opens
<1>6. \A i, x : Shows(repetition, i, x)' = Shows(repetition, i, x)
  BY <1>2 DEF Shows, GlobalsOf
<1>7. (ReplayingOne => ReplayingOne') /\ (BothShown => BothShown')
  BY <1>1, <1>2, <1>5, <1>6 DEF ReplayingOne, BothShown, Idle
<1> QED BY <1>1, <1>3, <1>4, <1>7 DEF VerifierInv, ShownSoFar

\* Before verify is called, whatever becomes of the proof.
LEMMA FreshKept ==
  ASSUME VerifierInv, stage = "start", UNCHANGED verifierVars
  PROVE  VerifierInv'
<1>1. Fresh
  BY DEF VerifierInv, ShownSoFar, Opening1, ReplayingOne, BothShown, Recomputed
<1>2. Fresh' /\ VerifierTypes'
  BY <1>1 DEF VerifierInv, VerifierTypes, Fresh, Idle, verifierVars
<1> QED BY <1>2 DEF VerifierInv, ShownSoFar

LEMMA FreshShown ==
  ASSUME VerifierInit
  PROVE  VerifierInv
BY DEF VerifierInit, VerifierInv, VerifierTypes, ShownSoFar, Fresh, Idle, ZeroCursor, Cursor
-----------------------------------------------------------------------------
(* Whatever happens: what every execution keeps.                           *)

\* The first repetition is evaluated, whatever its views record of it.
Halted == Evaluated /\ proof = << >> /\ phase \in {"evaluating", "committed"}

\* The prover's state is well formed, and where it goes on there is more to say of it.
Typed ==
  \/ ProverInv
  \/ Halted
  \/ ProverTypeOK /\ phase \in {"done", "failed"}

LEMMA TypedTypes ==
  ASSUME Typed
  PROVE  ProverTypeOK /\ job \in Job /\ proof \in Seq(Repetition)
<1>1. ProverTypeOK
  BY DEF Typed, ProverInv, Halted, Evaluated
<1> QED BY <1>1, JobsAssumption DEF ProverTypeOK

\* What the prover may do once the nodes are evaluated, or prove has returned.
LEMMA HaltedActs ==
  ASSUME Halted, ProverNext
  PROVE  CommitViews \/ NoChallenge \/ \E hidden \in Party : finish_repetition(hidden)
<1>1. phase \in {"evaluating", "committed"} /\ Len(values) = Len(job.circuit.nodes) /\ ProverTypeOK
  BY DEF Halted, Evaluated
<1>2. values \in Seq(NodeVal)
  BY <1>1 DEF ProverTypeOK
<1>3. ~(out <= Len(job.circuit.nodes))
  BY <1>1, <1>2 DEF out
<1>4. ~EvaluateNode
  BY <1>3 DEF EvaluateNode, SecretInputNode, PublicInputNode, ConstantNode, AddPublic,
       AddShared, AddMixed, MulPublic, MulMixed, MulShared, BeaverMul, AtNode
<1>5. ~new_backend /\ ~prove /\ ~ShareInput /\ ~InputsShared
  BY <1>1 DEF new_backend, prove, ShareInput, InputsShared
<1>6. AnyNext
  BY <1>1, JobFacts DEF ProverNext, AnyNext
<1> QED BY <1>4, <1>5, <1>6 DEF AnyNext

LEMMA ReturnedActs ==
  ASSUME ProverNext
  PROVE  phase \notin {"done", "failed"}
BY DEF ProverNext, new_backend, prove, ShareInput, InputsShared, EvaluateNode,
       SecretInputNode, PublicInputNode, ConstantNode, AddPublic, AddShared, AddMixed,
       MulPublic, MulMixed, MulShared, BeaverMul, AtNode, CommitViews, AllEvaluated,
       finish_repetition, NoChallenge

LEMMA HaltedCommits ==
  ASSUME Halted, CommitViews
  PROVE  Halted'
<1>1. /\ UNCHANGED <<job, proof, error, supply, input_shares, local_operations, triple_shares,
                     opened_values, values, next_secret, next_public, reference>>
      /\ phase' = "committed"
  BY DEF CommitViews, inputVars, partyVars, cursorVars
<1>2. ProverTypeOK /\ Validated /\ phase = "evaluating"
  BY DEF Halted, Evaluated, CommitViews, AllEvaluated
<1>3. commitments' \in [Party -> ViewCommitment]
  BY <1>2, ViewFacts DEF CommitViews
<1>4. commitments' # << >>
  <2>1. DOMAIN commitments' = Party /\ 0 \in Party
    BY <1>3 DEF Party
  <2>2. DOMAIN << >> = {}
    OBVIOUS
  <2> QED BY <2>1, <2>2
<1>5. ProverTypeOK'
  BY <1>1, <1>2, <1>3, <1>4 DEF ProverTypeOK
<1>6. Validated'
  BY <1>1, <1>2 DEF Validated, NewError
<1> QED BY <1>1, <1>5, <1>6 DEF Halted, Evaluated

LEMMA HaltedFinishes ==
  ASSUME Halted, NEW hidden \in Party, finish_repetition(hidden)
  PROVE  Typed'
<1>1. CASE Len(proof') < job.repetition_count
  BY <1>1, RestartStep DEF Halted, Typed
<1>2. CASE ~(Len(proof') < job.repetition_count)
  <2>1. /\ phase = "committed" /\ supply > 0 /\ supply' = supply - 1
        /\ proof' = Append(proof, FinishedRepetition(hidden))
        /\ UNCHANGED <<job, error>>
    BY DEF finish_repetition, next_challenge
  <2>2. /\ phase' = "done"
        /\ UNCHANGED <<input_shares, local_operations, triple_shares, opened_values,
                       next_secret, next_public, values, reference, commitments>>
    BY <1>2 DEF finish_repetition, inputVars, partyVars, cursorVars
  <2>3. ProverTypeOK /\ FinishedRepetition(hidden) \in Repetition
    BY <2>1, FinishedFacts DEF Halted, Evaluated
  <2>4. proof' \in Seq(Repetition) /\ supply' \in Nat
    BY <2>1, <2>3 DEF ProverTypeOK
  <2>5. ProverTypeOK'
    BY <2>1, <2>2, <2>3, <2>4 DEF ProverTypeOK
  <2> QED BY <2>2, <2>5 DEF Typed
<1> QED BY <1>1, <1>2

LEMMA SameTypes ==
  ASSUME Typed, UNCHANGED proverVars
  PROVE  Typed'
<1>1. UNCHANGED <<job, proof, phase, error, supply, input_shares, local_operations, triple_shares,
                  opened_values, next_secret, next_public, values, reference, commitments>>
  BY DEF proverVars, inputVars, partyVars, cursorVars
<1>2. ProverTypeOK'
  BY <1>1, TypedTypes DEF ProverTypeOK
<1>3. CASE Halted
  <2>1. Validated'
    BY <1>1, <1>3 DEF Halted, Evaluated, Validated, NewError
  <2> QED BY <1>1, <1>2, <1>3, <2>1 DEF Halted, Evaluated, Typed
<1> QED BY <1>1, <1>2, <1>3, StutterStep DEF Typed

LEMMA TypedProves ==
  ASSUME Typed, ProverNext
  PROVE  Typed'
<1>1. CASE ProverInv
  BY <1>1, NextIsAny, ProverInvStep DEF Typed, ProverInv
<1>2. CASE Halted
  <2>1. CASE CommitViews
    BY <1>2, <2>1, HaltedCommits DEF Typed
  <2>2. CASE NoChallenge
    <3>1. /\ UNCHANGED <<job, proof, supply, input_shares, local_operations, triple_shares,
                         opened_values, next_secret, next_public, values, reference, commitments>>
          /\ phase' = "failed" /\ error' = "InvalidProtocolState"
      BY <2>2 DEF NoChallenge, Fail, inputVars, partyVars, cursorVars
    <3>2. ProverTypeOK'
      BY <1>2, <3>1 DEF Halted, Evaluated, ProverTypeOK, ProverErrors
    <3> QED BY <3>1, <3>2 DEF Typed
  <2> QED BY <1>2, <2>1, <2>2, HaltedActs, HaltedFinishes
<1> QED BY <1>1, <1>2, ReturnedActs DEF Typed

LEMMA ElementReplaced ==
  ASSUME NEW S, NEW s \in Seq(S), NEW i \in DOMAIN s, NEW x \in S
  PROVE  [s EXCEPT ![i] = x] \in Seq(S)
OBVIOUS

LEMMA BumpType ==
  ASSUME NEW s \in Seq(F), NEW k \in DOMAIN s
  PROVE  Bump(s, k) \in Seq(F)
<1>1. PICK y : y = Plus(s[k], One)
  OBVIOUS
<1>2. y \in F
  BY <1>1, PlusOne
<1>3. [s EXCEPT ![k] = y] \in Seq(F)
  BY <1>2
<1> QED BY <1>1, <1>3 DEF Bump

\* A proof changed in transit is a proof still.
LEMMA ReplaceTypes ==
  ASSUME ProverTypeOK, phase = "done", 1 \in DOMAIN proof, NEW r2 \in Repetition, Replace(r2)
  PROVE  Typed'
<1>1. proof' \in Seq(Repetition)
  <2>1. proof' = [proof EXCEPT ![1] = r2]
    BY DEF Replace
  <2>2. proof \in Seq(Repetition)
    BY DEF ProverTypeOK
  <2>3. [proof EXCEPT ![1] = r2] \in Seq(Repetition)
    BY <2>2, ElementReplaced
  <2> QED BY <2>1, <2>3
<1>2. ProverTypeOK' /\ phase' = "done"
  BY <1>1 DEF Replace, ProverTypeOK, inputVars, partyVars, cursorVars
<1> QED BY <1>2 DEF Typed

LEMMA OpenedReplaced ==
  ASSUME NEW r \in Repetition, NEW i \in 1 .. 2, DOMAIN r.opened_views = 1 .. 2,
         NEW o2 \in OpenedView
  PROVE  [r EXCEPT !.opened_views[i] = o2] \in Repetition
<1>1. r.opened_views \in Seq(OpenedView)
  BY DEF Repetition
<1>2. [r.opened_views EXCEPT ![i] = o2] \in Seq(OpenedView)
  BY <1>1
<1> QED BY <1>2 DEF Repetition

\* An opened view that was changed is well formed.
LEMMA ViewDamageTypes ==
  ASSUME NEW r, NEW views, NEW w, NEW ref, Waiting(r, views, w, ref), NEW i \in 1 .. 2, NEW r2,
         \/ r2 = [r EXCEPT !.opened_views[i].view.repetition_id = @ + 1]
         \/ r2 = [r EXCEPT !.opened_views[i].view.party_id = (@ + 1) % 3]
         \/ r2 = [r EXCEPT !.opened_views[i].randomness.repetition = @ + 1]
         \/ \E k \in DOMAIN r.opened_views[i].view.input_shares :
              r2 = [r EXCEPT !.opened_views[i].view.input_shares = Bump(@, k)]
  PROVE  r2 \in Repetition
<1> DEFINE o == r.opened_views[i]
<1>1. Sent(r, 1, views, w, ref) /\ r \in Repetition
  BY DEF Waiting, Sent
<1>2. DOMAIN r.opened_views = 1 .. 2 /\ o \in OpenedView
  BY <1>1, SentViews
<1>3. o.view \in PartyView /\ o.randomness \in Randomness
  BY <1>2 DEF OpenedView
<1>4. CASE r2 = [r EXCEPT !.opened_views[i].view.repetition_id = @ + 1]
  <2>1. r2 = [r EXCEPT !.opened_views[i] = [o EXCEPT !.view = [o.view EXCEPT !.repetition_id = @ + 1]]]
    BY <1>4
  <2>2. [o.view EXCEPT !.repetition_id = @ + 1] \in PartyView
    <3>1. PICK v : v = o.view
      OBVIOUS
    <3>2. v \in PartyView /\ v.repetition_id + 1 \in Nat
      BY <1>3, <3>1 DEF PartyView
    <3>3. [v EXCEPT !.repetition_id = v.repetition_id + 1] \in PartyView
      BY <3>2 DEF PartyView
    <3> QED BY <3>1, <3>3
  <2>3. [o EXCEPT !.view = [o.view EXCEPT !.repetition_id = @ + 1]] \in OpenedView
    BY <1>2, <2>2 DEF OpenedView
  <2> QED BY <1>1, <1>2, <2>1, <2>3, OpenedReplaced
<1>5. CASE r2 = [r EXCEPT !.opened_views[i].view.party_id = (@ + 1) % 3]
  <2>1. r2 = [r EXCEPT !.opened_views[i] = [o EXCEPT !.view = [o.view EXCEPT !.party_id = (@ + 1) % 3]]]
    BY <1>5
  <2>2. (o.view.party_id + 1) % 3 \in Party
    BY <1>3 DEF PartyView, Party
  <2>3. [o.view EXCEPT !.party_id = (@ + 1) % 3] \in PartyView
    BY <1>3, <2>2 DEF PartyView
  <2>4. [o EXCEPT !.view = [o.view EXCEPT !.party_id = (@ + 1) % 3]] \in OpenedView
    BY <1>2, <2>3 DEF OpenedView
  <2> QED BY <1>1, <1>2, <2>1, <2>4, OpenedReplaced
<1>6. CASE r2 = [r EXCEPT !.opened_views[i].randomness.repetition = @ + 1]
  <2>1. r2 = [r EXCEPT !.opened_views[i] =
                [o EXCEPT !.randomness = [o.randomness EXCEPT !.repetition = @ + 1]]]
    BY <1>6
  <2>2. [o.randomness EXCEPT !.repetition = @ + 1] \in Randomness
    BY <1>3 DEF Randomness
  <2>3. [o EXCEPT !.randomness = [o.randomness EXCEPT !.repetition = @ + 1]] \in OpenedView
    BY <1>2, <2>2 DEF OpenedView
  <2> QED BY <1>1, <1>2, <2>1, <2>3, OpenedReplaced
<1>7. CASE \E k \in DOMAIN o.view.input_shares :
             r2 = [r EXCEPT !.opened_views[i].view.input_shares = Bump(@, k)]
  <2>1. PICK k \in DOMAIN o.view.input_shares :
          r2 = [r EXCEPT !.opened_views[i].view.input_shares = Bump(@, k)]
    BY <1>7
  <2>2. PICK s2 : s2 = Bump(o.view.input_shares, k)
    OBVIOUS
  <2>3. r2 = [r EXCEPT !.opened_views[i] = [o EXCEPT !.view = [o.view EXCEPT !.input_shares = s2]]]
    BY <2>1, <2>2
  <2>4. s2 \in Seq(F)
    BY <1>3, <2>1, <2>2, BumpType DEF PartyView
  <2>5. [o.view EXCEPT !.input_shares = s2] \in PartyView
    BY <1>3, <2>4 DEF PartyView
  <2>6. [o EXCEPT !.view = [o.view EXCEPT !.input_shares = s2]] \in OpenedView
    BY <1>2, <2>5 DEF OpenedView
  <2> QED BY <1>1, <1>2, <2>3, <2>6, OpenedReplaced
<1> QED BY <1>4, <1>5, <1>6, <1>7

LEMMA TailType ==
  ASSUME NEW S, NEW s \in Seq(S), Len(s) # 0
  PROVE  Tail(s) \in Seq(S) /\ Len(Tail(s)) = Len(s) - 1
OBVIOUS

\* So is every component that was changed.
LEMMA OutputDamageTypes ==
  ASSUME NEW r, NEW views, NEW w, NEW ref, Waiting(r, views, w, ref), NEW r2,
         \/ \E k \in DOMAIN r.hidden_output_shares :
              r2 = [r EXCEPT !.hidden_output_shares = Bump(@, k)]
         \/ r2 = [r EXCEPT !.hidden_output_shares = Tail(@)]
  PROVE  r2 \in Repetition
<1> DEFINE s == r.hidden_output_shares
           outs == job.circuit.outputs
<1>1. r \in Repetition /\ Checked(job) /\ HiddenFrom(job, r, views, w)
  BY DEF Waiting, Sent, RepetitionFrom
<1>2. s \in Seq(F)
  BY <1>1 DEF Repetition
<1>3. outs \in Seq(NodeId) /\ outs # << >> /\ DOMAIN s = DOMAIN outs
  BY <1>1 DEF HiddenFrom, Checked, Circuit, validate
<1>4. Len(s) # 0
  BY <1>2, <1>3
<1>5. PICK s2 \in Seq(F) : r2 = [r EXCEPT !.hidden_output_shares = s2]
  <2>1. CASE r2 = [r EXCEPT !.hidden_output_shares = Tail(s)]
    BY <1>2, <1>4, <2>1, TailType
  <2>2. CASE \E k \in DOMAIN s : r2 = [r EXCEPT !.hidden_output_shares = Bump(s, k)]
    BY <1>2, <2>2, BumpType
  <2> QED BY <2>1, <2>2
<1> QED BY <1>1, <1>5 DEF Repetition

LEMMA BroadcastDamageTypes ==
  ASSUME NEW r, NEW views, NEW w, NEW ref, Waiting(r, views, w, ref), NEW r2,
         \/ \E k \in DOMAIN r.hidden_broadcasts :
              r2 = [r EXCEPT !.hidden_broadcasts = Bump(@, k)]
         \/ r.hidden_broadcasts # << >> /\ r2 = [r EXCEPT !.hidden_broadcasts = Tail(@)]
         \/ r.hidden_broadcasts # << >> /\ r2 = [r EXCEPT !.hidden_broadcasts = Tail(Tail(@))]
         \/ r2 = [r EXCEPT !.hidden_broadcasts = @ \o <<Zero, Zero>>]
  PROVE  r2 \in Repetition
<1> DEFINE b == r.hidden_broadcasts
<1>1. Sent(r, 1, views, w, ref) /\ r \in Repetition /\ b \in Seq(F)
  BY SentBroadcasts DEF Waiting, Sent
<1>2. PICK m \in Nat : Len(b) = 2 * m
  BY <1>1, SentBroadcasts
<1>3. ASSUME b # << >>
      PROVE  Tail(b) \in Seq(F) /\ Tail(Tail(b)) \in Seq(F)
  <2> HIDE DEF b
  <2>1. Len(b) # 0
    BY <1>1, <1>3
  <2>2. Tail(b) \in Seq(F) /\ Len(Tail(b)) = Len(b) - 1
    BY <1>1, <2>1, TailType
  <2>3. Len(b) # 1
    <3>1. 2 * m # 1
      OBVIOUS
    <3> QED BY <1>2, <3>1
  <2>4. Len(Tail(b)) # 0
    BY <1>1, <2>2, <2>3
  <2>5. Tail(Tail(b)) \in Seq(F)
    BY <2>2, <2>4, TailType
  <2> QED BY <2>2, <2>5
<1>4. b \o <<Zero, Zero>> \in Seq(F)
  <2>1. <<Zero, Zero>> \in Seq(F)
    BY FieldClosed
  <2> QED BY <1>1, <2>1
<1>5. PICK b2 \in Seq(F) : r2 = [r EXCEPT !.hidden_broadcasts = b2]
  <2>1. CASE \E k \in DOMAIN b : r2 = [r EXCEPT !.hidden_broadcasts = Bump(b, k)]
    BY <1>1, <2>1, BumpType
  <2>2. CASE b # << >> /\ r2 = [r EXCEPT !.hidden_broadcasts = Tail(b)]
    BY <1>3, <2>2
  <2>3. CASE b # << >> /\ r2 = [r EXCEPT !.hidden_broadcasts = Tail(Tail(b))]
    BY <1>3, <2>3
  <2>4. CASE r2 = [r EXCEPT !.hidden_broadcasts = b \o <<Zero, Zero>>]
    BY <1>4, <2>4
  <2> QED BY <2>1, <2>2, <2>3, <2>4
<1> QED BY <1>1, <1>5 DEF Repetition

LEMMA CommitmentDamageTypes ==
  ASSUME NEW r, NEW views, NEW w, NEW ref, Waiting(r, views, w, ref), NEW r2,
         \/ \E p \in Party : r2 = [r EXCEPT !.commitments[p + 1].randomness.repetition = @ + 1]
         \/ r2 = [r EXCEPT !.commitments = Tail(@)]
  PROVE  r2 \in Repetition
<1> DEFINE c == r.commitments
<1>1. Sent(r, 1, views, w, ref) /\ r \in Repetition
  BY DEF Waiting, Sent
<1>2. c \in Seq(ViewCommitment) /\ Len(c) = 3
  BY <1>1, SentCommitments
<1>3. PICK c2 \in Seq(ViewCommitment) : r2 = [r EXCEPT !.commitments = c2]
  <2>1. CASE \E p \in Party : r2 = [r EXCEPT !.commitments[p + 1].randomness.repetition = @ + 1]
    <3>1. PICK p \in Party : r2 = [r EXCEPT !.commitments[p + 1].randomness.repetition = @ + 1]
      BY <2>1
    <3>2. p + 1 \in DOMAIN c
      BY <1>1, SentCommitment
    <3>3. PICK o : o = c[p + 1]
      OBVIOUS
    <3>4. o \in ViewCommitment
      BY <1>2, <3>2, <3>3
    <3>5. o.randomness \in Randomness
      BY <3>4 DEF ViewCommitment
    <3>6. [o.randomness EXCEPT !.repetition = @ + 1] \in Randomness
      BY <3>5 DEF Randomness
    <3>7. [o EXCEPT !.randomness = [o.randomness EXCEPT !.repetition = @ + 1]] \in ViewCommitment
      BY <3>4, <3>6 DEF ViewCommitment
    <3>8. PICK o2 \in ViewCommitment :
            o2 = [o EXCEPT !.randomness = [o.randomness EXCEPT !.repetition = @ + 1]]
      BY <3>7
    <3>9. [c EXCEPT ![p + 1] = o2] \in Seq(ViewCommitment)
      BY <1>2, <3>2, <3>8, ElementReplaced
    <3>10. r2 = [r EXCEPT !.commitments = [c EXCEPT ![p + 1] = o2]]
      BY <3>1, <3>3, <3>8
    <3> QED BY <3>9, <3>10
  <2>2. CASE r2 = [r EXCEPT !.commitments = Tail(@)]
    <3>1. Tail(c) \in Seq(ViewCommitment)
      BY <1>2, TailType
    <3> QED BY <2>2, <3>1
  <2> QED BY <2>1, <2>2
<1> QED BY <1>1, <1>3 DEF Repetition

LEMMA OtherDamageTypes ==
  ASSUME NEW r, NEW views, NEW w, NEW ref, Waiting(r, views, w, ref), NEW r2,
         \/ r2 = [r EXCEPT !.id = @ + 1]
         \/ \E h \in Party : r2 = [r EXCEPT !.challenge = h]
         \/ r2 = [r EXCEPT !.opened_views = Tail(@)]
         \/ r2 = [r EXCEPT !.opened_views = <<@[2], @[1]>>]
  PROVE  r2 \in Repetition
<1>1. Sent(r, 1, views, w, ref) /\ r \in Repetition
  BY DEF Waiting, Sent
<1>2. CASE r2 = [r EXCEPT !.id = @ + 1]
  <2>1. r.id \in Nat
    BY <1>1 DEF Repetition
  <2>2. r.id + 1 \in Nat
    BY <2>1
  <2> QED BY <1>1, <1>2, <2>2 DEF Repetition
<1>3. CASE \E h \in Party : r2 = [r EXCEPT !.challenge = h]
  BY <1>1, <1>3 DEF Repetition
<1>4. r.opened_views \in Seq(OpenedView) /\ Len(r.opened_views) = 2
  BY <1>1, SentFacts
<1>5. CASE r2 = [r EXCEPT !.opened_views = Tail(@)]
  <2>1. Tail(r.opened_views) \in Seq(OpenedView)
    BY <1>4, TailType
  <2> QED BY <1>1, <1>5, <2>1 DEF Repetition
<1>6. CASE r2 = [r EXCEPT !.opened_views = <<@[2], @[1]>>]
  <2>1. r.opened_views[1] \in OpenedView /\ r.opened_views[2] \in OpenedView
    BY <1>4
  <2>2. <<r.opened_views[2], r.opened_views[1]>> \in Seq(OpenedView)
    BY <2>1
  <2> QED BY <1>1, <1>6, <2>2 DEF Repetition
<1> QED BY <1>2, <1>3, <1>5, <1>6

LEMMA DamagedTypes ==
  ASSUME HonestInv, DoneProof, HonestSoFar, TransitDamage
  PROVE  Typed' /\ phase = "done" /\ phase' = "done" /\ stage = "start" /\ UNCHANGED verifierVars
<1>1. InTransit /\ UNCHANGED <<phase, verifierVars>>
  BY DEF TransitDamage, IdDamage, ChallengeDamage, CommitmentDamage,
         MissingCommitmentDamage, MissingViewDamage, SwappedViewsDamage, ViewDamage,
         OutputShareDamage, MissingOutputShareDamage, HiddenBroadcastDamage, EmptyProofDamage,
         Replace
<1>2. PICK views, w, ref : Waiting(proof[1], views, w, ref)
  BY <1>1, WaitingFor
<1>3. PICK r : r = proof[1]
  OBVIOUS
<1>4. Waiting(r, views, w, ref) /\ phase = "done" /\ ProverTypeOK /\ 1 \in DOMAIN proof
  BY <1>2, <1>3 DEF Waiting, HonestInv, ProverInv
<1>5. CASE EmptyProofDamage
  <2>1. ProverTypeOK'
    BY <1>1, <1>4, <1>5 DEF EmptyProofDamage, ProverTypeOK, inputVars, partyVars, cursorVars
  <2> QED BY <1>1, <1>4, <2>1 DEF Typed, InTransit
<1>6. CASE \E r2 \in Repetition : Replace(r2)
  BY <1>1, <1>4, <1>6, ReplaceTypes DEF InTransit
<1>7. CASE IdDamage \/ ChallengeDamage \/ MissingViewDamage \/ SwappedViewsDamage
  <2>1. PICK r2 : /\ Replace(r2)
                  /\ \/ r2 = [r EXCEPT !.id = @ + 1]
                     \/ \E h \in Party : r2 = [r EXCEPT !.challenge = h]
                     \/ r2 = [r EXCEPT !.opened_views = Tail(@)]
                     \/ r2 = [r EXCEPT !.opened_views = <<@[2], @[1]>>]
    BY <1>3, <1>7, Zenon DEF IdDamage, ChallengeDamage, MissingViewDamage, SwappedViewsDamage
  <2> QED BY <1>4, <1>6, <2>1, OtherDamageTypes
<1>8. CASE (\E p \in Party : CommitmentDamage(p)) \/ MissingCommitmentDamage
  <2>1. PICK r2 : /\ Replace(r2)
                  /\ \/ \E p \in Party : r2 = [r EXCEPT !.commitments[p + 1].randomness.repetition = @ + 1]
                     \/ r2 = [r EXCEPT !.commitments = Tail(@)]
    BY <1>3, <1>8, Zenon DEF CommitmentDamage, MissingCommitmentDamage
  <2> QED BY <1>4, <1>6, <2>1, CommitmentDamageTypes
<1>9. CASE ViewDamage
  <2>1. PICK i \in 1 .. 2 :
          \/ Replace([r EXCEPT !.opened_views[i].view.repetition_id = @ + 1])
          \/ Replace([r EXCEPT !.opened_views[i].view.party_id = (@ + 1) % 3])
          \/ Replace([r EXCEPT !.opened_views[i].randomness.repetition = @ + 1])
          \/ \E k \in DOMAIN r.opened_views[i].view.input_shares :
               Replace([r EXCEPT !.opened_views[i].view.input_shares = Bump(@, k)])
    BY <1>3, <1>9 DEF ViewDamage
  <2>2. PICK r2 :
          /\ Replace(r2)
          /\ \/ r2 = [r EXCEPT !.opened_views[i].view.repetition_id = @ + 1]
             \/ r2 = [r EXCEPT !.opened_views[i].view.party_id = (@ + 1) % 3]
             \/ r2 = [r EXCEPT !.opened_views[i].randomness.repetition = @ + 1]
             \/ \E k \in DOMAIN r.opened_views[i].view.input_shares :
                  r2 = [r EXCEPT !.opened_views[i].view.input_shares = Bump(@, k)]
    BY <2>1, Zenon
  <2> QED BY <1>4, <1>6, <2>2, ViewDamageTypes
<1>10. CASE OutputShareDamage \/ MissingOutputShareDamage
  <2>1. PICK r2 : /\ Replace(r2)
                  /\ \/ \E k \in DOMAIN r.hidden_output_shares :
                          r2 = [r EXCEPT !.hidden_output_shares = Bump(@, k)]
                     \/ r2 = [r EXCEPT !.hidden_output_shares = Tail(@)]
    BY <1>3, <1>10, Zenon DEF OutputShareDamage, MissingOutputShareDamage
  <2> QED BY <1>4, <1>6, <2>1, OutputDamageTypes
<1>11. CASE HiddenBroadcastDamage
  <2>1. PICK r2 :
          /\ Replace(r2)
          /\ \/ \E k \in DOMAIN r.hidden_broadcasts :
                  r2 = [r EXCEPT !.hidden_broadcasts = Bump(@, k)]
             \/ r.hidden_broadcasts # << >> /\ r2 = [r EXCEPT !.hidden_broadcasts = Tail(@)]
             \/ r.hidden_broadcasts # << >> /\ r2 = [r EXCEPT !.hidden_broadcasts = Tail(Tail(@))]
             \/ r2 = [r EXCEPT !.hidden_broadcasts = @ \o <<Zero, Zero>>]
    BY <1>3, <1>11, Zenon DEF HiddenBroadcastDamage
  <2> QED BY <1>4, <1>6, <2>1, BroadcastDamageTypes
<1> QED BY <1>5, <1>7, <1>8, <1>9, <1>10, <1>11 DEF TransitDamage

LEMMA FaultHalts ==
  ASSUME ProverInv, NEW p \in Party, Fault(p)
  PROVE  /\ Halted' /\ phase = "evaluating" /\ phase' = phase
         /\ UNCHANGED <<job, proof, verifierVars>>
<1>1. /\ Faultable
      /\ FaultUnchanged
      /\ local_operations' \in [Party -> Seq(LocalOperation)]
      /\ triple_shares' \in [Party -> Seq(TripleShare)]
      /\ opened_values' \in [Party -> Seq(F)]
      /\ input_shares' \in [Party -> Seq(F)]
  <2>0. /\ input_shares \in [Party -> Seq(F)]
        /\ local_operations \in [Party -> Seq(LocalOperation)]
        /\ triple_shares \in [Party -> Seq(TripleShare)]
        /\ opened_values \in [Party -> Seq(F)]
    BY DEF ProverInv, ProverTypeOK
  <2>1. CASE InputShareFault(p)
    <3>1. PICK i \in DOMAIN input_shares[p] : input_shares' = [input_shares EXCEPT ![p] = Bump(@, i)]
      BY <2>1 DEF InputShareFault
    <3>2. Bump(input_shares[p], i) \in Seq(F)
      BY <2>0, BumpType
    <3> QED BY <2>0, <2>1, <3>1, <3>2 DEF InputShareFault, partyVars
  <2>2. CASE OperationFault(p)
    <3>1. PICK i \in DOMAIN local_operations[p] :
            local_operations' = [local_operations EXCEPT ![p][i].share = Plus(@, One)]
      BY <2>2 DEF OperationFault
    <3>2. PICK ops : ops = local_operations[p]
      OBVIOUS
    <3>3. ops \in Seq(LocalOperation) /\ i \in DOMAIN ops
      BY <2>0, <3>2
    <3>4. ops[i] \in LocalOperation
      BY <3>3
    <3>5. ops[i].share \in F
      BY <3>4 DEF LocalOperation
    <3>6. Plus(ops[i].share, One) \in F
      BY <3>5, PlusOne
    <3>7. PICK o2 : o2 = [ops[i] EXCEPT !.share = Plus(@, One)]
      OBVIOUS
    <3>8. o2 \in LocalOperation
      BY <3>4, <3>6, <3>7 DEF LocalOperation
    <3>9. [ops EXCEPT ![i] = o2] \in Seq(LocalOperation)
      BY <3>3, <3>8, ElementReplaced
    <3>10. local_operations' = [local_operations EXCEPT ![p] = [ops EXCEPT ![i] = o2]]
      BY <3>1, <3>2, <3>7
    <3> QED BY <2>0, <2>2, <3>9, <3>10 DEF OperationFault, inputVars
  <2>3. CASE MissingOperationFault(p)
    <3>1. Len(local_operations[p]) # 0
      BY <2>0, <2>3 DEF MissingOperationFault
    <3>2. Tail(local_operations[p]) \in Seq(LocalOperation)
      BY <2>0, <3>1, TailType
    <3> QED BY <2>0, <2>3, <3>2 DEF MissingOperationFault, inputVars
  <2>4. CASE ExtraOperationFault(p)
    <3>1. local_operations[p] \in Seq(LocalOperation) /\ local_operations[p] # << >>
      BY <2>0, <2>4 DEF ExtraOperationFault
    <3>2. Last(local_operations[p]) \in LocalOperation
      BY <3>1 DEF Last
    <3>3. Append(local_operations[p], Last(local_operations[p])) \in Seq(LocalOperation)
      BY <3>1, <3>2
    <3> QED BY <2>0, <2>4, <3>3 DEF ExtraOperationFault, inputVars
  <2>5. CASE TripleFault(p)
    <3>1. PICK f \in {"a", "b", "c"} :
            triple_shares' = [triple_shares EXCEPT ![p][1][f] = Plus(@, One)]
      BY <2>5 DEF TripleFault
    <3>2. PICK ts : ts = triple_shares[p]
      OBVIOUS
    <3>3. ts \in Seq(TripleShare) /\ ts # << >>
      BY <2>0, <2>5, <3>2 DEF TripleFault
    <3>4. 1 \in DOMAIN ts /\ ts[1] \in TripleShare
      BY <3>3
    <3>5. ts[1][f] \in F
      BY <3>4 DEF TripleShare
    <3>6. Plus(ts[1][f], One) \in F
      BY <3>5, PlusOne
    <3>7. PICK t2 : t2 = [ts[1] EXCEPT ![f] = Plus(@, One)]
      OBVIOUS
    <3>8. t2 \in TripleShare
      BY <3>4, <3>6, <3>7 DEF TripleShare
    <3>9. [ts EXCEPT ![1] = t2] \in Seq(TripleShare)
      BY <3>3, <3>4, <3>8, ElementReplaced
    <3>10. triple_shares' = [triple_shares EXCEPT ![p] = [ts EXCEPT ![1] = t2]]
      BY <3>1, <3>2, <3>7
    <3> QED BY <2>0, <2>5, <3>9, <3>10 DEF TripleFault, inputVars
  <2>6. CASE BroadcastFault(p)
    <3>1. PICK i \in DOMAIN opened_values[p] :
            opened_values' = [opened_values EXCEPT ![p] = Bump(@, i)]
      BY <2>6 DEF BroadcastFault
    <3>2. Bump(opened_values[p], i) \in Seq(F)
      BY <2>0, BumpType
    <3> QED BY <2>0, <2>6, <3>1, <3>2 DEF BroadcastFault, inputVars
  <2> QED BY <2>1, <2>2, <2>3, <2>4, <2>5, <2>6 DEF Fault
<1>2. /\ UNCHANGED <<job, proof, phase, error, supply, next_secret, next_public, values, reference,
                     commitments, verifierVars>>
      /\ phase = "evaluating" /\ Len(values) = Len(job.circuit.nodes) /\ proof = << >>
  BY <1>1 DEF FaultUnchanged, cursorVars, Faultable, AllEvaluated
<1>3. ProverTypeOK'
  BY <1>1, <1>2 DEF ProverInv, ProverTypeOK
<1>4. Validated'
  BY <1>2 DEF ProverInv, Validated, NewError
<1> QED BY <1>2, <1>3, <1>4 DEF Halted, Evaluated
-----------------------------------------------------------------------------
(* What becomes of a view that misrecords.                                 *)

\* View v is that of the party at fault: it should have recorded u, which replays.
AtFault(v) ==
  \E u \in PartyView : \E g, w :
    /\ ViewReplays(job, u, g, w) /\ Len(w) = Len(job.circuit.nodes)
    /\ v.party_id = u.party_id
    /\ Misrecords(damage.kind, u, v)

\* The view at fault is about to be committed, or it was opened unless it is the hidden one.
FaultRecorded ==
  damage.kind \in RecordKinds =>
    \/ Halted /\ damage.party \in Party /\ AtFault(build_view(damage.party))
    \/ /\ proof # << >>
       /\ proof[1].challenge # damage.party =>
            \E i \in 1 .. 2 : AtFault(proof[1].opened_views[i].view)
    \/ phase = "failed"

\* A fault makes the view of its party misrecord.
LEMMA FaultMisrecords ==
  ASSUME HonestInv, NEW p \in Party, Fault(p)
  PROVE  FaultRecorded'
<1> SUFFICES ASSUME damage'.kind \in RecordKinds PROVE FaultRecorded'
  BY DEF FaultRecorded
<1>1. ProverInv /\ TraceInv /\ Halted' /\ UNCHANGED <<job, proof>>
  BY FaultHalts DEF HonestInv
<1>2. damage'.party = p
  BY DEF Fault, InputShareFault, OperationFault, MissingOperationFault, ExtraOperationFault,
         TripleFault, BroadcastFault, Happens
<1> DEFINE u == build_view(p)
           v == build_view(p)'
           g == MasksOf(Views)
           w == LocalValues(p)
<1>3. u \in PartyView /\ ViewReplays(job, u, g, w)
  BY <1>1, ViewFacts DEF ProverInv, TraceInv, Views
<1>4. Len(w) = Len(job.circuit.nodes)
  <2>1. w \in Seq(LocalVal) /\ DOMAIN w = DOMAIN values /\ values \in Seq(NodeVal)
    BY <1>1, <1>3 DEF ViewReplays, LocalValues, ProverInv, ProverTypeOK
  <2>2. Len(values) = Len(job.circuit.nodes)
    BY DEF Fault, InputShareFault, OperationFault, MissingOperationFault, ExtraOperationFault,
           TripleFault, BroadcastFault, Faultable, AllEvaluated
  <2> HIDE DEF w
  <2>3. DOMAIN w = 1 .. Len(values) /\ Len(values) \in Nat
    BY <2>1
  <2> QED BY <2>1, <2>2, <2>3, LengthIs
<1>5. /\ v.party_id = u.party_id
      /\ u.input_shares = input_shares[p] /\ v.input_shares = input_shares'[p]
      /\ u.local_operations = local_operations[p] /\ v.local_operations = local_operations'[p]
      /\ u.triple_shares = triple_shares[p] /\ v.triple_shares = triple_shares'[p]
      /\ u.opened_values = opened_values[p] /\ v.opened_values = opened_values'[p]
  BY <1>1 DEF build_view
<1>6. PICK kind : kind = damage'.kind
  OBVIOUS
<1> HIDE DEF u, v
<1>7. Misrecords(kind, u, v)
  <2>0. /\ input_shares \in [Party -> Seq(F)]
        /\ local_operations \in [Party -> Seq(LocalOperation)]
        /\ triple_shares \in [Party -> Seq(TripleShare)]
        /\ opened_values \in [Party -> Seq(F)]
    BY <1>1 DEF ProverInv, ProverTypeOK
  <2>1. CASE InputShareFault(p)
    BY <1>6, <2>1 DEF InputShareFault, Happens, RecordKinds
  <2>2. CASE OperationFault(p)
    <3>1. /\ kind = "operation"
          /\ UNCHANGED <<input_shares, triple_shares, opened_values>>
      BY <1>6, <2>2 DEF OperationFault, Happens, inputVars
    <3>2. PICK i \in DOMAIN local_operations[p] :
            local_operations' = [local_operations EXCEPT ![p][i].share = Plus(@, One)]
      BY <2>2 DEF OperationFault
    <3>3. local_operations'[p] = [local_operations[p] EXCEPT ![i].share = Plus(@, One)]
      BY <2>0, <3>2
    <3>4. \E k \in DOMAIN u.local_operations :
            v.local_operations = [u.local_operations EXCEPT ![k].share = Plus(@, One)]
      BY <1>5, <3>3
    <3> QED BY <1>5, <3>1, <3>4 DEF Misrecords
  <2>3. CASE MissingOperationFault(p)
    <3>1. /\ kind = "missing_operation"
          /\ UNCHANGED <<input_shares, triple_shares, opened_values>>
          /\ local_operations[p] # << >>
          /\ local_operations' = [local_operations EXCEPT ![p] = Tail(@)]
      BY <1>6, <2>3 DEF MissingOperationFault, Happens, inputVars
    <3>2. local_operations'[p] = Tail(local_operations[p])
      BY <2>0, <3>1
    <3> QED BY <1>5, <3>1, <3>2 DEF Misrecords
  <2>4. CASE ExtraOperationFault(p)
    <3>1. /\ kind = "extra_operation"
          /\ UNCHANGED <<input_shares, triple_shares, opened_values>>
          /\ local_operations[p] # << >>
          /\ local_operations' = [local_operations EXCEPT ![p] = Append(@, Last(@))]
      BY <1>6, <2>4 DEF ExtraOperationFault, Happens, inputVars
    <3>2. local_operations'[p]
            = Append(local_operations[p], local_operations[p][Len(local_operations[p])])
      BY <2>0, <3>1 DEF Last
    <3> QED BY <1>5, <3>1, <3>2 DEF Misrecords
  <2>5. CASE TripleFault(p)
    <3>1. /\ kind = "triple"
          /\ UNCHANGED <<input_shares, local_operations, opened_values>>
          /\ triple_shares[p] # << >>
      BY <1>6, <2>5 DEF TripleFault, Happens, inputVars
    <3>2. PICK f \in {"a", "b", "c"} :
            triple_shares' = [triple_shares EXCEPT ![p][1][f] = Plus(@, One)]
      BY <2>5 DEF TripleFault
    <3>3. triple_shares'[p] = [triple_shares[p] EXCEPT ![1][f] = Plus(@, One)]
      BY <2>0, <3>2
    <3>4. \E x \in {"a", "b", "c"} :
            v.triple_shares = [u.triple_shares EXCEPT ![1][x] = Plus(@, One)]
      BY <1>5, <3>3
    <3> QED BY <1>5, <3>1, <3>4 DEF Misrecords
  <2>6. CASE BroadcastFault(p)
    <3>1. /\ kind = "broadcast"
          /\ UNCHANGED <<input_shares, local_operations, triple_shares>>
      BY <1>6, <2>6 DEF BroadcastFault, Happens, inputVars
    <3>2. PICK i \in DOMAIN opened_values[p] :
            opened_values' = [opened_values EXCEPT ![p] = Bump(@, i)]
      BY <2>6 DEF BroadcastFault
    <3>3. opened_values'[p] = [opened_values[p] EXCEPT ![i] = Plus(opened_values[p][i], One)]
      BY <2>0, <3>2 DEF Bump
    <3>4. \E k \in DOMAIN u.opened_values :
            v.opened_values = [u.opened_values EXCEPT ![k] = Plus(u.opened_values[k], One)]
      BY <1>5, <3>3
    <3> QED BY <1>5, <3>1, <3>4 DEF Misrecords
  <2> QED BY <2>1, <2>2, <2>3, <2>4, <2>5, <2>6 DEF Fault
<1>8. /\ u \in PartyView /\ ViewReplays(job', u, g, w) /\ Len(w) = Len(job.circuit.nodes)'
      /\ v.party_id = u.party_id
      /\ Misrecords(damage'.kind, u, v)
  BY <1>1, <1>3, <1>4, <1>5, <1>6, <1>7
<1>9. \E z \in PartyView : \E h, x :
        /\ ViewReplays(job', z, h, x) /\ Len(x) = Len(job'.circuit.nodes)
        /\ v.party_id = z.party_id
        /\ Misrecords(damage'.kind, z, v)
  <2> HIDE DEF g, w
  <2> QED BY <1>8
<1>10. AtFault(build_view(damage.party))'
  <2>1. build_view(damage.party)' = v
    BY <1>1, <1>2 DEF build_view, v, id
  <2> QED BY <1>9, <2>1 DEF AtFault
<1> QED BY <1>1, <1>2, <1>10 DEF FaultRecorded

\* The repetition that opens the view at fault stays the first of its proof.
LEMMA FaultProves ==
  ASSUME Typed, FaultRecorded, ProverNext, UNCHANGED damage
  PROVE  FaultRecorded'
<1> SUFFICES ASSUME damage.kind \in RecordKinds PROVE FaultRecorded'
  BY DEF FaultRecorded
<1>0. UNCHANGED job
  BY DEF ProverNext, new_backend, prove, ShareInput, InputsShared, EvaluateNode, SecretInputNode,
       PublicInputNode, ConstantNode, AddPublic, AddShared, AddMixed, MulPublic, MulMixed,
       MulShared, BeaverMul, Push, CommitViews, finish_repetition, NoChallenge, Fail
<1>1. CASE Halted /\ damage.party \in Party /\ AtFault(build_view(damage.party))
  <2>1. CASE CommitViews
    <3>1. UNCHANGED <<proof, input_shares, local_operations, triple_shares, opened_values>>
      BY <2>1 DEF CommitViews, inputVars, partyVars
    <3>2. build_view(damage.party)' = build_view(damage.party)
      BY <3>1 DEF build_view, id
    <3>3. AtFault(build_view(damage.party))'
      BY <1>0, <1>1, <3>2 DEF AtFault
    <3>4. Halted'
      BY <1>1, <2>1, HaltedCommits
    <3> QED BY <1>1, <3>3, <3>4 DEF FaultRecorded
  <2>2. CASE NoChallenge
    BY <2>2 DEF NoChallenge, Fail, FaultRecorded
  <2>3. ASSUME NEW hidden \in Party, finish_repetition(hidden) PROVE FaultRecorded'
    <3>1. proof = << >> /\ proof' = Append(proof, FinishedRepetition(hidden))
      BY <1>1, <2>3 DEF Halted, finish_repetition
    <3>2. PICK r : r = FinishedRepetition(hidden)
      OBVIOUS
    <3>3. proof' # << >> /\ proof'[1] = r
      BY <3>1, <3>2
    <3>4. /\ r.challenge = hidden
          /\ \A i \in 1 .. 2 : r.opened_views[i].view = build_view(others(hidden)[i])
      BY <3>2 DEF FinishedRepetition, Opening
    <3>5. ASSUME hidden # damage.party
          PROVE  \E i \in 1 .. 2 : AtFault(r.opened_views[i].view)
      <4>1. PICK i \in 1 .. 2 : others(hidden)[i] = damage.party
        BY <1>1, <3>5, OthersFacts
      <4>2. r.opened_views[i].view = build_view(damage.party)
        BY <3>4, <4>1
      <4> QED BY <1>1, <4>2
    <3>6. ASSUME hidden # damage.party
          PROVE  \E i \in 1 .. 2 : AtFault(proof[1].opened_views[i].view)'
      <4>1. PICK i \in 1 .. 2 : AtFault(r.opened_views[i].view)
        BY <3>5, <3>6
      <4>2. PICK v : v = r.opened_views[i].view
        OBVIOUS
      <4>3. AtFault(v) /\ proof'[1].opened_views[i].view = v
        BY <3>3, <4>1, <4>2
      <4> QED BY <1>0, <4>3 DEF AtFault
    <3> QED BY <3>3, <3>4, <3>6 DEF FaultRecorded
  <2> QED BY <1>1, <2>1, <2>2, <2>3, HaltedActs
<1>2. CASE /\ proof # << >>
           /\ proof[1].challenge # damage.party =>
                \E i \in 1 .. 2 : AtFault(proof[1].opened_views[i].view)
  <2>1. proof' # << >> /\ proof'[1] = proof[1]
    <3>1. CASE \E hidden \in job.challenges : finish_repetition(hidden)
      <4>1. PICK hidden \in job.challenges : finish_repetition(hidden)
        BY <3>1
      <4>2. PICK r : r = FinishedRepetition(hidden)
        OBVIOUS
      <4>3. proof' = Append(proof, r) /\ proof \in Seq(Repetition)
        BY <4>1, <4>2, TypedTypes DEF finish_repetition
      <4>4. 1 \in 1 .. Len(proof) /\ Len(proof) \in Nat
        BY <1>2, <4>3
      <4>5. /\ Append(proof, r)[1] = proof[1]
            /\ Append(proof, r) # << >>
        BY <4>3, <4>4
      <4> QED BY <4>3, <4>5
    <3>2. CASE ~ \E hidden \in job.challenges : finish_repetition(hidden)
      <4>1. proof' = proof
        BY <3>2, ZenonT(60) DEF ProverNext, new_backend, prove, ShareInput, InputsShared, EvaluateNode,
             SecretInputNode, PublicInputNode, ConstantNode, AddPublic, AddShared, AddMixed,
             MulPublic, MulMixed, MulShared, BeaverMul, Push, CommitViews, NoChallenge, Fail
      <4> QED BY <1>2, <4>1
    <3> QED BY <3>1, <3>2
  <2>2. ASSUME proof[1].challenge # damage.party
        PROVE  \E i \in 1 .. 2 : AtFault(proof[1].opened_views[i].view)'
    <3>1. PICK i \in 1 .. 2 : AtFault(proof[1].opened_views[i].view)
      BY <1>2, <2>2
    <3>2. PICK v : v = proof[1].opened_views[i].view
      OBVIOUS
    <3>3. AtFault(v) /\ proof'[1].opened_views[i].view = v
      BY <2>1, <3>1, <3>2
    <3> QED BY <1>0, <3>3 DEF AtFault
  <2> QED BY <2>1, <2>2 DEF FaultRecorded
<1> QED BY <1>1, <1>2, ReturnedActs DEF FaultRecorded

LEMMA FaultKept ==
  ASSUME Typed, FaultRecorded, UNCHANGED <<proverVars, damage>>
  PROVE  FaultRecorded'
<1> SUFFICES ASSUME damage.kind \in RecordKinds PROVE FaultRecorded'
  BY DEF FaultRecorded
<1>1. UNCHANGED <<job, proof, phase, error, supply, input_shares, local_operations, triple_shares,
                  opened_values, next_secret, next_public, values, reference, commitments>>
  BY DEF proverVars, inputVars, partyVars, cursorVars
<1>2. build_view(damage.party)' = build_view(damage.party)
  BY <1>1 DEF build_view, id
<1>3. Halted' = Halted
  BY <1>1 DEF Halted, Evaluated, ProverTypeOK, Validated, NewError
<1>4. AtFault(build_view(damage.party))' = AtFault(build_view(damage.party))
  BY <1>1, <1>2 DEF AtFault
<1>5. \A i : AtFault(proof[1].opened_views[i].view)' = AtFault(proof[1].opened_views[i].view)
  BY <1>1 DEF AtFault
<1> QED BY <1>1, <1>3, <1>4, <1>5 DEF FaultRecorded

\* What every execution keeps, damaged or not.
AnyInv ==
  /\ UndamagedInv
  /\ Typed
  /\ VerifierInv
  /\ phase # "done" => stage = "start"
  /\ FaultRecorded

LEMMA AnyInit ==
  ASSUME Init
  PROVE  AnyInv
<1>1. UndamagedInv
  BY UndamagedInit
<1>2. Typed
  BY InitInv, InitInitial DEF Init, Typed
<1>3. VerifierInv /\ stage = "start"
  BY FreshShown DEF Init, VerifierInit
<1>4. FaultRecorded
  BY DEF Init, NoDamage, FaultRecorded, RecordKinds
<1> QED BY <1>1, <1>2, <1>3, <1>4 DEF AnyInv

LEMMA AnyStep ==
  ASSUME AnyInv, [Next]_vars
  PROVE  AnyInv'
<1>0. UndamagedInv /\ Typed /\ VerifierInv /\ FaultRecorded /\ (phase # "done" => stage = "start")
  BY DEF AnyInv
<1>1. UndamagedInv'
  BY <1>0, UndamagedStep
<1>2. CASE Prove
  <2>1. ProverNext /\ UNCHANGED <<verifierVars, damage>>
    BY <1>2 DEF Prove
  <2>2. phase # "done" /\ stage = "start"
    BY <1>0, <2>1, ProverActs
  <2>3. Typed' /\ FaultRecorded'
    BY <1>0, <2>1, TypedProves, FaultProves
  <2>4. VerifierInv' /\ stage' = "start"
    BY <1>0, <2>1, <2>2, FreshKept DEF verifierVars
  <2> QED BY <1>1, <2>3, <2>4 DEF AnyInv
<1>3. ASSUME NEW p \in Party, Fault(p) PROVE AnyInv'
  <2>1. HonestInv /\ ProverInv
    BY <1>0, <1>3, HappensRecorded DEF UndamagedInv, HonestInv
  <2>2. Halted' /\ phase = "evaluating" /\ UNCHANGED verifierVars
    BY <1>3, <2>1, FaultHalts
  <2>3. stage = "start"
    BY <1>0, <2>2
  <2>4. VerifierInv' /\ stage' = "start"
    BY <1>0, <2>2, <2>3, FreshKept DEF verifierVars
  <2>5. FaultRecorded'
    BY <1>3, <2>1, FaultMisrecords
  <2> QED BY <1>1, <2>2, <2>4, <2>5 DEF AnyInv, Typed
<1>4. CASE TransitDamage
  <2>1. HonestInv /\ DoneProof /\ HonestSoFar
    BY <1>0, <1>4, HappensRecorded DEF UndamagedInv
  <2>2. Typed' /\ phase' = "done" /\ stage = "start" /\ UNCHANGED verifierVars
    BY <1>4, <2>1, DamagedTypes
  <2>3. VerifierInv'
    BY <1>0, <2>2, FreshKept
  <2>4. damage'.kind \notin RecordKinds
    <3>1. \E kind \in {"id", "challenge", "commitment", "missing_commitment", "missing_view",
                       "swapped_views", "view", "output_share", "missing_output_share",
                       "hidden_broadcast", "empty_proof"} : \E p : Happens(kind, p)
      BY <1>4 DEF TransitDamage, IdDamage, ChallengeDamage, CommitmentDamage,
           MissingCommitmentDamage, MissingViewDamage, SwappedViewsDamage, ViewDamage,
           OutputShareDamage, MissingOutputShareDamage, HiddenBroadcastDamage, EmptyProofDamage
    <3>2. PICK kind \in {"id", "challenge", "commitment", "missing_commitment", "missing_view",
                         "swapped_views", "view", "output_share", "missing_output_share",
                         "hidden_broadcast", "empty_proof"} : \E p : Happens(kind, p)
      BY <3>1
    <3>3. damage'.kind = kind
      BY <3>2 DEF Happens
    <3> QED BY <3>3 DEF RecordKinds
  <2> QED BY <1>1, <2>2, <2>3, <2>4 DEF AnyInv, FaultRecorded
<1>5. CASE Verify \/ UNCHANGED vars
  <2>1. /\ UNCHANGED <<proverVars, damage>>
        /\ (phase = "done" /\ VerifierNext) \/ UNCHANGED verifierVars
    BY <1>5 DEF Verify, vars
  <2>2. UNCHANGED <<job, proof, phase>>
    BY <2>1 DEF proverVars
  <2>3. job \in Job /\ proof \in Seq(Repetition)
    BY <1>0, TypedTypes
  <2>4. VerifierInv'
    BY <1>0, <2>1, <2>2, <2>3, VerifierInvStep, VerifierInvKept
  <2>5. phase' # "done" => stage' = "start"
    BY <1>0, <2>1, <2>2 DEF verifierVars
  <2>6. Typed' /\ FaultRecorded'
    BY <1>0, <2>1, SameTypes, FaultKept
  <2> QED BY <1>1, <2>4, <2>5, <2>6 DEF AnyInv
<1> QED BY <1>2, <1>3, <1>4, <1>5 DEF Next

\* An accepted verification has been shown all there is to show.
LEMMA AcceptedShown ==
  ASSUME AnyInv, verdict = "Valid"
  PROVE  AllConvince /\ phase = "done"
<1>1. VerifierTypes /\ ShownSoFar /\ stage # "start"
  BY DEF AnyInv, VerifierInv, VerifierTypes
<1>2. stage = "done"
  BY <1>1 DEF VerifierTypes
<1> QED BY <1>1, <1>2 DEF AnyInv, ShownSoFar, Fresh, Opening1, ReplayingOne, Recomputed, BothShown

(* Prover and verifier keep to their types whatever happens to the views or to  *)
(* the proof: every damaged proof is still a proof, a faulty view still a view, *)
(* and the verifier has a verdict exactly when it is done.                      *)
THEOREM MpcithTypeOK == Spec => []TypeOK
<1>1. AnyInv => TypeOK
  BY TypedTypes DEF AnyInv, VerifierInv, VerifierTypes, TypeOK, LocalVal, Cursor
<1> QED BY <1>1, AnyInit, AnyStep, PTL DEF Spec

(* What Ok(Valid) means, whatever became of the proof (verifier.rs verify): the *)
(* statement was validated, there is a repetition, and of each repetition two   *)
(* committed views were opened that each record, with nothing left over, an     *)
(* evaluation of the whole circuit under the same masks, whose output shares    *)
(* and those of the hidden party add up to the expected outputs.                *)
AcceptedProofShows ==
  verdict = "Valid" =>
    /\ statement_validate(job.statement, job.circuit) = "Ok"
    /\ proof # << >>
    /\ \A n \in DOMAIN proof : Convinces(proof[n], n)

THEOREM MpcithAcceptedProofShows == Spec => []AcceptedProofShows
<1>1. AnyInv => AcceptedProofShows
  BY AcceptedShown DEF AcceptedProofShows, AllConvince, JobAccepted
<1> QED BY <1>1, AnyInit, AnyStep, PTL DEF Spec

(* A view that does not record what its party computed from its own inputs is   *)
(* never accepted when it is opened ("any corrupted view is opened unless it    *)
(* belongs to the challenged-hidden party", verifier.rs 10-13), for every       *)
(* circuit: one operation, triple component or broadcast wrong, one operation   *)
(* left out or added.                                                           *)
RecordFaultsCaught ==
  damage.kind \in RecordKinds /\ verdict = "Valid" => proof[1].challenge = damage.party

THEOREM MpcithRecordFaultsCaught == Spec => []RecordFaultsCaught
<1>1. AnyInv => RecordFaultsCaught
  <2> SUFFICES ASSUME AnyInv, damage.kind \in RecordKinds, verdict = "Valid",
                      proof[1].challenge # damage.party
               PROVE  FALSE
    BY DEF RecordFaultsCaught
  <2>1. AllConvince /\ phase = "done" /\ Checked(job)
    BY AcceptedShown, AcceptedJob DEF AllConvince
  <2>2. PICK i \in 1 .. 2 : AtFault(proof[1].opened_views[i].view)
    BY <2>1 DEF AnyInv, FaultRecorded, Halted
  <2>3. PICK r : r = proof[1]
    OBVIOUS
  <2>4. PICK v : v = r.opened_views[i].view
    OBVIOUS
  <2>5. PICK u \in PartyView : \E g, w :
          /\ ViewReplays(job, u, g, w) /\ Len(w) = Len(job.circuit.nodes)
          /\ v.party_id = u.party_id
          /\ Misrecords(damage.kind, u, v)
    BY <2>2, <2>3, <2>4 DEF AtFault
  <2>6. PICK g, w :
          /\ ViewReplays(job, u, g, w) /\ Len(w) = Len(job.circuit.nodes)
          /\ v.party_id = u.party_id
          /\ Misrecords(damage.kind, u, v)
    BY <2>5
  <2>7. 1 \in DOMAIN proof
    BY <2>1, TypedTypes DEF AnyInv, AllConvince
  <2>8. \E x : Shows(r, i, x)
    BY <2>1, <2>3, <2>7 DEF AllConvince, Convinces
  <2>9. PICK x : Shows(r, i, x)
    BY <2>8
  <2>10. v \in PartyView /\ ViewReplays(job, v, GlobalsOf(r), x) /\ Len(x) = Len(job.circuit.nodes)
    BY <2>4, <2>9 DEF Shows
  <2>11. BothReplay(job, u, g, w, v, GlobalsOf(r), x)
    BY <2>1, <2>6, <2>10 DEF BothReplay
  <2> QED BY <2>6, <2>11, MisrecordShows
<1> QED BY <1>1, AnyInit, AnyStep, PTL DEF Spec
=============================================================================
