------------------------ MODULE NonInteractiveProofs ------------------------
(***************************************************************************)
(* For every circuit, witness, number of repetitions and behaviour of the  *)
(* hash, no view is opened before all repetitions are committed, the       *)
(* challenges are those of the whole transcript, an unchanged proof gets   *)
(* the answer that its statement deserves, and one that changed on its way *)
(* needs a challenge asked anew for every repetition.                      *)
(***************************************************************************)
EXTENDS NonInteractive, MpcithVerifierProofs

\* A sequence of anything is still one when something is appended.
LEMMA AppendAny ==
  ASSUME NEW S, NEW s \in Seq(S), NEW x
  PROVE  /\ \E T : Append(s, x) \in Seq(T)
         /\ Len(Append(s, x)) = Len(s) + 1
         /\ \A i \in 1 .. Len(s) : Append(s, x)[i] = s[i]
         /\ Append(s, x)[Len(s) + 1] = x
         /\ Len(s) \in Nat
         /\ DOMAIN s = 1 .. Len(s)
         /\ DOMAIN Append(s, x) = 1 .. Len(s) + 1
<1>1. s \in Seq(S \cup {x}) /\ x \in S \cup {x}
  OBVIOUS
<1>2. Append(s, x) \in Seq(S \cup {x})
  BY <1>1
<1>3. \E T : Append(s, x) \in Seq(T)
  BY <1>2, Zenon
<1> QED
  BY <1>1, <1>2, <1>3

\* The initial states.
LEMMA InitJoint == Init => JointInv
<1> SUFFICES ASSUME Init PROVE JointInv
  OBVIOUS
<1>1. << >> \in Seq(Party)
  OBVIOUS
<1>2. \E S : << >> \in Seq(S)
  BY <1>1, Zenon
<1>3. partials = << >> /\ challenges = << >> /\ sent.repetitions = << >> /\ phase = "new"
      /\ job \in Jobs /\ "repetitions" \in DOMAIN sent
  BY DEF Init, Rep!ProverInit
<1>4. VectorsAreSequences
  BY <1>1, <1>2, <1>3 DEF VectorsAreSequences
<1>5. PhasesInOrder
  BY <1>3 DEF PhasesInOrder, Committing, Opened
<1>6. ChallengesFromTranscript /\ OpenedAsCommitted
  BY <1>3 DEF ChallengesFromTranscript, OpenedAsCommitted
<1> QED
  BY <1>3, <1>4, <1>5, <1>6 DEF JointInv

\* What the simulation of a repetition leaves alone.
LEMMA SimulateFrame ==
  ASSUME Rep!ShareInput \/ Rep!InputsShared \/ Rep!EvaluateNode \/ Rep!CommitViews
  PROVE  /\ job' = job /\ partials' = partials
         /\ phase \in {"sharing", "evaluating"}
         /\ phase' \in {"sharing", "evaluating", "committed"}
<1>1. CASE Rep!ShareInput
  BY <1>1 DEF Rep!ShareInput
<1>2. CASE Rep!InputsShared
  BY <1>2 DEF Rep!InputsShared
<1>3. CASE Rep!CommitViews
  BY <1>3 DEF Rep!CommitViews, Rep!AllEvaluated
<1>4. CASE Rep!EvaluateNode
  <2>1. ASSUME NEW val, NEW ref, NEW op, Rep!AtNode(op), Rep!Push(val, ref)
        PROVE  job' = job /\ partials' = partials /\ phase = "evaluating" /\ phase' = phase
    BY <2>1 DEF Rep!AtNode, Rep!Push
  <2>2. job' = job /\ partials' = partials /\ phase = "evaluating" /\ phase' = phase
    <3>1. CASE Rep!SecretInputNode
      BY <2>1, <3>1 DEF Rep!SecretInputNode
    <3>2. CASE Rep!PublicInputNode
      BY <2>1, <3>2 DEF Rep!PublicInputNode
    <3>3. CASE Rep!ConstantNode
      BY <2>1, <3>3 DEF Rep!ConstantNode
    <3>4. CASE Rep!AddPublic
      BY <2>1, <3>4 DEF Rep!AddPublic
    <3>5. CASE Rep!AddShared
      BY <2>1, <3>5 DEF Rep!AddShared
    <3>6. CASE Rep!AddMixed
      BY <2>1, <3>6 DEF Rep!AddMixed
    <3>7. CASE Rep!MulPublic
      BY <2>1, <3>7 DEF Rep!MulPublic
    <3>8. CASE Rep!MulMixed
      BY <2>1, <3>8 DEF Rep!MulMixed
    <3>9. CASE Rep!MulShared
      BY <2>1, <3>9 DEF Rep!MulShared, Rep!BeaverMul
    <3> QED
      BY <1>4, <3>1, <3>2, <3>3, <3>4, <3>5, <3>6, <3>7, <3>8, <3>9 DEF Rep!EvaluateNode
  <2> QED
    BY <2>2
<1> QED
  BY <1>1, <1>2, <1>3, <1>4

\* Asking the hash never changes an answer it has given.
LEMMA AskKeeps ==
  ASSUME NEW input, NEW answer, Ask(input, answer)
  PROVE  /\ \A q \in DOMAIN oracle : q \in DOMAIN oracle' /\ oracle'[q] = oracle[q]
         /\ input \in DOMAIN oracle' /\ oracle'[input] = answer
BY DEF Ask

\* A step that changes none of the vectors, and only adds answers to the hash, keeps
\* the invariant.
LEMMA FrameStep ==
  ASSUME JointInv, alteration' = alteration, job' = job, partials' = partials,
         challenges' = challenges, sent' = sent,
         \A q \in DOMAIN oracle : q \in DOMAIN oracle' /\ oracle'[q] = oracle[q],
         alteration = "none" => PhasesInOrder'
  PROVE  JointInv'
<1> SUFFICES ASSUME alteration = "none"
             PROVE  job' \in Jobs /\ VectorsAreSequences' /\ ChallengesFromTranscript' /\ OpenedAsCommitted'
  BY DEF JointInv
<1>1. VectorsAreSequences'
  BY DEF JointInv, VectorsAreSequences
<1>2. ChallengesFromTranscript'
  <2> SUFFICES ASSUME NEW i \in DOMAIN challenges
               PROVE  LET asked == fs_input(ProverBackend, job.statement, Sessions(partials), i)
                      IN  asked \in DOMAIN oracle' /\ challenges[i] = oracle'[asked]
    BY DEF ChallengesFromTranscript, Sessions, fs_input
  <2> QED
    BY DEF JointInv, ChallengesFromTranscript
<1>3. OpenedAsCommitted'
  BY DEF JointInv, OpenedAsCommitted
<1> QED
  BY <1>1, <1>2, <1>3 DEF JointInv

\* The repetition just committed joins the transcript, of which nothing is derived yet.
LEMMA CommitPhaseStep == ASSUME JointInv, commit_phase PROVE JointInv'
<1> SUFFICES ASSUME alteration = "none" PROVE JointInv'
  BY DEF JointInv, commit_phase, proverUnchanged, historyVars
<1> DEFINE x == Partial
<1>1. /\ partials' = Append(partials, x) /\ job' = job /\ challenges' = challenges
      /\ sent' = sent /\ phase = "committed"
      /\ phase' = IF CommitsLeft THEN "sharing" ELSE "deriving"
  BY DEF commit_phase, proverUnchanged, jointVars
<1> HIDE DEF x
<1>2. PICK S : partials \in Seq(S)
  BY DEF JointInv, VectorsAreSequences
<1>3. /\ \E T : partials' \in Seq(T)
      /\ Len(partials') = Len(partials) + 1
      /\ Len(partials) \in Nat
  BY <1>1, <1>2, AppendAny
<1>4. challenges = << >> /\ sent.repetitions = << >> /\ Len(partials) < job.repetition_count
  BY <1>1 DEF JointInv, PhasesInOrder, Committing
<1>5. job.repetition_count \in Nat
  BY JobsAssumption DEF JointInv, Job
<1>6. VectorsAreSequences'
  BY <1>1, <1>3 DEF JointInv, VectorsAreSequences
<1>7. PhasesInOrder'
  BY <1>1, <1>3, <1>4, <1>5 DEF PhasesInOrder, Committing, CommitsLeft, Opened
<1>8. ChallengesFromTranscript' /\ OpenedAsCommitted'
  BY <1>1, <1>4 DEF ChallengesFromTranscript, OpenedAsCommitted
<1> QED
  BY <1>1, <1>6, <1>7, <1>8 DEF JointInv

\* The next challenge is the answer for the next repetition of the same transcript.
LEMMA DeriveStep == ASSUME JointInv, derive_all PROVE JointInv'
<1> SUFFICES ASSUME alteration = "none" PROVE JointInv'
  BY DEF JointInv, derive_all, ProverInput, historyVars
<1>1. PICK h \in Party :
        /\ Ask(fs_input(ProverBackend, job.statement, Sessions(partials), Len(challenges) + 1), h)
        /\ challenges' = Append(challenges, h)
  BY DEF derive_all, ProverInput
<1>2. /\ partials' = partials /\ job' = job /\ sent' = sent
      /\ phase = "deriving" /\ phase' = phase /\ Len(challenges) < Len(partials)
  BY DEF derive_all, ProverInput, innerVars
<1>3. /\ challenges \in Seq(Party) /\ challenges' \in Seq(Party)
      /\ Len(challenges') = Len(challenges) + 1
      /\ \A i \in 1 .. Len(challenges) : challenges'[i] = challenges[i]
      /\ challenges'[Len(challenges) + 1] = h
      /\ Len(challenges) \in Nat
      /\ DOMAIN challenges = 1 .. Len(challenges)
      /\ DOMAIN challenges' = 1 .. Len(challenges) + 1
  BY <1>1 DEF JointInv, VectorsAreSequences
<1>4. PICK S : partials \in Seq(S)
  BY DEF JointInv, VectorsAreSequences
<1>5. Len(partials) \in Nat
  BY <1>4
<1>6. VectorsAreSequences'
  BY <1>2, <1>3 DEF JointInv, VectorsAreSequences
<1>7. PhasesInOrder'
  BY <1>2, <1>3, <1>5 DEF JointInv, PhasesInOrder, Committing, Opened
<1>8. ChallengesFromTranscript'
  <2> DEFINE Asked(i) == fs_input(ProverBackend, job.statement, Sessions(partials), i)
  <2>1. \A i \in DOMAIN challenges' : Asked(i) \in DOMAIN oracle' /\ challenges'[i] = oracle'[Asked(i)]
    <3> SUFFICES ASSUME NEW i \in 1 .. Len(challenges) + 1
                 PROVE  Asked(i) \in DOMAIN oracle' /\ challenges'[i] = oracle'[Asked(i)]
      BY <1>3
    <3>1. CASE i = Len(challenges) + 1
      <4>1. Ask(Asked(i), h)
        BY <1>1, <3>1
      <4> HIDE DEF Asked
      <4> QED
        BY <4>1, <1>3, <3>1, AskKeeps
    <3>2. CASE i \in 1 .. Len(challenges)
      <4>1. Asked(i) \in DOMAIN oracle /\ challenges[i] = oracle[Asked(i)]
        BY <3>2, <1>3 DEF JointInv, ChallengesFromTranscript
      <4> QED
        BY <4>1, <1>1, <1>3, <3>2, AskKeeps
    <3> QED
      BY <1>3, <3>1, <3>2
  <2> QED
    BY <2>1, <1>2 DEF ChallengesFromTranscript, Sessions, fs_input
<1>9. OpenedAsCommitted'
  BY <1>2 DEF JointInv, PhasesInOrder, OpenedAsCommitted
<1> QED
  BY <1>2, <1>6, <1>7, <1>8, <1>9 DEF JointInv

\* The next repetition is opened with the challenge derived for it.
LEMMA FinishStep == ASSUME JointInv, finish_repetition PROVE JointInv'
<1> SUFFICES ASSUME alteration = "none" PROVE JointInv'
  BY DEF JointInv, finish_repetition, historyVars
<1> DEFINE r == Finish(partials[Opened + 1], challenges[Opened + 1])
<1>1. /\ partials' = partials /\ job' = job /\ challenges' = challenges /\ oracle' = oracle
      /\ phase = "opening" /\ phase' \in {"opening", "done"} /\ Opened < Len(partials)
      /\ phase' = "done" => Opened + 1 = Len(partials)
      /\ sent' = [sent EXCEPT !.repetitions = Append(@, r)]
  BY DEF finish_repetition
<1>2. /\ r.commitments = partials[Opened + 1].commitments
      /\ r.challenge = challenges[Opened + 1]
  BY DEF Finish
<1> HIDE DEF r
<1>3. sent'.repetitions = Append(sent.repetitions, r) /\ "repetitions" \in DOMAIN sent'
  BY <1>1 DEF JointInv, VectorsAreSequences
<1>4. PICK S : sent.repetitions \in Seq(S)
  BY DEF JointInv, VectorsAreSequences
<1>5. /\ \E T : sent'.repetitions \in Seq(T)
      /\ Len(sent'.repetitions) = Opened + 1
      /\ \A i \in 1 .. Opened : sent'.repetitions[i] = sent.repetitions[i]
      /\ sent'.repetitions[Opened + 1] = r
      /\ Opened \in Nat
      /\ DOMAIN sent.repetitions = 1 .. Opened
      /\ DOMAIN sent'.repetitions = 1 .. Opened + 1
  <2> DEFINE s == sent.repetitions
             t == sent'.repetitions
  <2>1. s \in Seq(S) /\ t = Append(s, r) /\ Opened = Len(s)
    BY <1>3, <1>4 DEF Opened
  <2> HIDE DEF s, t
  <2>2. /\ \E T : Append(s, r) \in Seq(T)
        /\ Len(Append(s, r)) = Len(s) + 1
        /\ \A i \in 1 .. Len(s) : Append(s, r)[i] = s[i]
        /\ Append(s, r)[Len(s) + 1] = r
        /\ Len(s) \in Nat
        /\ DOMAIN s = 1 .. Len(s)
        /\ DOMAIN Append(s, r) = 1 .. Len(s) + 1
    BY <2>1, AppendAny
  <2>3. /\ \E T : t \in Seq(T)
        /\ Len(t) = Opened + 1
        /\ \A i \in 1 .. Opened : t[i] = s[i]
        /\ t[Opened + 1] = r
        /\ Opened \in Nat
        /\ DOMAIN s = 1 .. Opened
        /\ DOMAIN t = 1 .. Opened + 1
    BY <2>1, <2>2
  <2> QED
    BY <2>3 DEF s, t
<1>6. PICK T : partials \in Seq(T)
  BY DEF JointInv, VectorsAreSequences
<1>7. Len(partials) \in Nat
  BY <1>6
<1>8. VectorsAreSequences'
  BY <1>1, <1>3, <1>5 DEF JointInv, VectorsAreSequences
<1>9. PhasesInOrder'
  BY <1>1, <1>3, <1>5, <1>7 DEF JointInv, PhasesInOrder, Committing, Opened
<1>10. ChallengesFromTranscript'
  BY <1>1 DEF JointInv, ChallengesFromTranscript, Sessions, fs_input
<1>11. OpenedAsCommitted'
  <2> SUFFICES ASSUME NEW i \in 1 .. Opened + 1
               PROVE  /\ sent'.repetitions[i].commitments = partials[i].commitments
                      /\ sent'.repetitions[i].challenge = challenges[i]
    BY <1>1, <1>5 DEF OpenedAsCommitted
  <2>1. CASE i = Opened + 1
    BY <2>1, <1>2, <1>5
  <2>2. CASE i \in 1 .. Opened
    BY <2>2, <1>5 DEF JointInv, OpenedAsCommitted
  <2> QED
    BY <1>5, <2>1, <2>2
<1> QED
  BY <1>1, <1>8, <1>9, <1>10, <1>11 DEF JointInv

\* Every step keeps the invariant.
LEMMA JointStep == JointInv /\ [Next]_vars => JointInv'
<1> SUFFICES ASSUME JointInv, [Next]_vars PROVE JointInv'
  OBVIOUS
<1> USE DEF jointVars, checkVars, historyVars
<1>1. CASE prover_new
  <2>1. /\ alteration' = alteration /\ job' = job /\ partials' = partials
        /\ challenges' = challenges /\ sent' = sent /\ oracle' = oracle
        /\ phase = "new" /\ phase' \in {"new", "failed"}
    BY <1>1 DEF prover_new, Refuse, innerVars
  <2>2. alteration = "none" => PhasesInOrder'
    BY <2>1 DEF JointInv, PhasesInOrder, Committing, Opened
  <2> QED
    BY <2>1, <2>2, FrameStep
<1>2. CASE prover_prove
  <2>1. /\ alteration' = alteration /\ job' = job /\ partials' = partials
        /\ challenges' = challenges /\ sent' = sent /\ oracle' = oracle
        /\ phase = "new" /\ phase' \in {"new", "failed"}
    BY <1>2 DEF prover_prove, Refuse, innerVars
  <2>2. alteration = "none" => PhasesInOrder'
    BY <2>1 DEF JointInv, PhasesInOrder, Committing, Opened
  <2> QED
    BY <2>1, <2>2, FrameStep
<1>3. CASE InnerNew
  <2>1. /\ alteration' = alteration /\ job' = job /\ partials' = partials
        /\ challenges' = challenges /\ sent' = sent /\ oracle' = oracle
        /\ phase \in {"new", "ready"} /\ phase' \in {"ready", "sharing", "failed"}
        /\ phase' = "sharing" => job.repetition_count > 0
    BY <1>3 DEF InnerNew, Rep!new_backend, Rep!prove, Rep!Fail, proverUnchanged
  <2>2. alteration = "none" => PhasesInOrder'
    BY <2>1 DEF JointInv, PhasesInOrder, Committing, Opened
  <2> QED
    BY <2>1, <2>2, FrameStep
<1>4. CASE Simulate
  <2>1. /\ alteration' = alteration /\ job' = job /\ partials' = partials
        /\ challenges' = challenges /\ sent' = sent /\ oracle' = oracle
        /\ phase \in {"sharing", "evaluating"}
        /\ phase' \in {"sharing", "evaluating", "committed"}
    BY <1>4, SimulateFrame DEF Simulate, proverUnchanged
  <2>2. alteration = "none" => PhasesInOrder'
    BY <2>1 DEF JointInv, PhasesInOrder, Committing, Opened
  <2> QED
    BY <2>1, <2>2, FrameStep
<1>5. CASE commit_phase
  BY <1>5, CommitPhaseStep
<1>6. CASE derive_all
  BY <1>6, DeriveStep
<1>7. CASE ChallengesDerived
  <2>1. /\ alteration' = alteration /\ job' = job /\ partials' = partials
        /\ challenges' = challenges /\ sent' = sent /\ oracle' = oracle
        /\ phase = "deriving" /\ phase' = "opening" /\ Len(challenges) = Len(partials)
    BY <1>7 DEF ChallengesDerived, proverUnchanged
  <2>2. alteration = "none" => PhasesInOrder'
    BY <2>1 DEF JointInv, PhasesInOrder, Committing, Opened
  <2> QED
    BY <2>1, <2>2, FrameStep
<1>8. CASE finish_repetition
  BY <1>8, FinishStep
<1>9. CASE \E kind \in AlterationKinds : Alter(kind)
  BY <1>9, AlterationAssumption DEF Alter, JointInv
<1>10. CASE Restate
  BY <1>10 DEF Restate, JointInv
<1>11. CASE verify_structure \/ compare_challenges \/ verify_inner \/ conclude
  <2>1. /\ alteration' = alteration /\ job' = job /\ partials' = partials
        /\ challenges' = challenges /\ sent' = sent /\ oracle' = oracle /\ phase' = phase
    BY <1>11 DEF verify_structure, compare_challenges, verify_inner, conclude, checkUnchanged,
                 innerVars
  <2>2. alteration = "none" => PhasesInOrder'
    BY <2>1 DEF JointInv, PhasesInOrder, Committing, Opened
  <2> QED
    BY <2>1, <2>2, FrameStep
<1>12. CASE derive_again
  <2>1. /\ alteration' = alteration /\ job' = job /\ partials' = partials
        /\ challenges' = challenges /\ sent' = sent /\ phase' = phase
    BY <1>12 DEF derive_again, checkUnchanged, innerVars
  <2>2. alteration = "none" => PhasesInOrder'
    BY <2>1 DEF JointInv, PhasesInOrder, Committing, Opened
  <2>3. \E input, h : Ask(input, h)
    BY <1>12, Zenon DEF derive_again
  <2>4. \A q \in DOMAIN oracle : q \in DOMAIN oracle' /\ oracle'[q] = oracle[q]
    BY <2>3, AskKeeps
  <2> QED
    BY <2>1, <2>2, <2>4, FrameStep
<1>13. CASE UNCHANGED vars
  <2>1. /\ alteration' = alteration /\ job' = job /\ partials' = partials
        /\ challenges' = challenges /\ sent' = sent /\ oracle' = oracle /\ phase' = phase
    BY <1>13 DEF vars, innerVars
  <2>2. alteration = "none" => PhasesInOrder'
    BY <2>1 DEF JointInv, PhasesInOrder, Committing, Opened
  <2> QED
    BY <2>1, <2>2, FrameStep
<1> QED
  BY <1>1, <1>2, <1>3, <1>4, <1>5, <1>6, <1>7, <1>8, <1>9, <1>10, <1>11, <1>12, <1>13 DEF Next

\* The invariant gives the property.
LEMMA JointInvGives == JointInv => OpenedAfterAllCommitted
<1> SUFFICES ASSUME JointInv, alteration = "none", sent.repetitions # << >>
             PROVE  OpenedAfterAllCommitted
  BY DEF OpenedAfterAllCommitted
<1>1. phase \in {"opening", "done"} /\ Len(partials) = job.repetition_count
      /\ Len(challenges) = Len(partials) /\ Opened <= Len(partials)
  BY DEF JointInv, PhasesInOrder, Committing
<1>2. PICK S : sent.repetitions \in Seq(S)
  BY DEF JointInv, VectorsAreSequences
<1>3. PICK T : partials \in Seq(T)
  BY DEF JointInv, VectorsAreSequences
<1>4. DOMAIN sent.repetitions \subseteq DOMAIN challenges
  BY <1>1, <1>2, <1>3 DEF JointInv, VectorsAreSequences, Opened
<1> QED
  BY <1>1, <1>4 DEF JointInv, ChallengesFromTranscript, OpenedAsCommitted,
                    OpenedAfterAllCommitted

(* The order of the Fiat-Shamir transform in Prover::prove and                  *)
(* prove_joint_fs: in every behaviour nothing is opened before everything is    *)
(* committed, and each challenge is the hash of the statement and the full      *)
(* transcript, whatever the circuit, the repetition count and the hash.         *)
THEOREM JointOrder == Spec => []OpenedAfterAllCommitted
<1>1. Init => JointInv
  BY InitJoint
<1>2. JointInv /\ [Next]_vars => JointInv'
  BY JointStep
<1>3. JointInv => OpenedAfterAllCommitted
  BY JointInvGives
<1> QED
  BY <1>1, <1>2, <1>3, PTL DEF Spec

\* Only a finished proof is altered, and the prover takes no step after it.
LEMMA AlteredStep == AlteredWhenDone /\ [Next]_vars => AlteredWhenDone'
<1> SUFFICES ASSUME AlteredWhenDone, [Next]_vars PROVE AlteredWhenDone'
  OBVIOUS
<1> USE DEF historyVars, proverUnchanged
<1>1. CASE prover_new \/ prover_prove
  BY <1>1 DEF prover_new, prover_prove, AlteredWhenDone
<1>2. CASE InnerNew
  BY <1>2 DEF InnerNew, Rep!new_backend, Rep!prove, AlteredWhenDone
<1>3. CASE Simulate
  BY <1>3, SimulateFrame DEF Simulate, AlteredWhenDone
<1>4. CASE commit_phase
  BY <1>4 DEF commit_phase, AlteredWhenDone
<1>5. CASE derive_all
  BY <1>5 DEF derive_all, AlteredWhenDone
<1>6. CASE ChallengesDerived \/ finish_repetition
  BY <1>6 DEF ChallengesDerived, finish_repetition, AlteredWhenDone
<1>7. CASE \E kind \in AlterationKinds : Alter(kind)
  BY <1>7 DEF Alter, InTransit, transitUnchanged, innerVars, AlteredWhenDone
<1>8. CASE Restate
  BY <1>8 DEF Restate, InTransit, transitUnchanged, innerVars, AlteredWhenDone
<1>9. CASE verify_structure \/ derive_again \/ compare_challenges \/ verify_inner \/ conclude
  BY <1>9 DEF verify_structure, derive_again, compare_challenges, verify_inner, conclude,
              checkUnchanged, innerVars, AlteredWhenDone
<1>10. CASE UNCHANGED vars
  BY <1>10 DEF vars, innerVars, AlteredWhenDone
<1> QED
  BY <1>1, <1>2, <1>3, <1>4, <1>5, <1>6, <1>7, <1>8, <1>9, <1>10 DEF Next

\* A step that keeps the vectors and the number of repetitions is a stuttering step.
LEMMA OrderStutter ==
  ASSUME job'.repetition_count = job.repetition_count, partials' = partials,
         challenges' = challenges, sent' = sent
  PROVE  UNCHANGED Order!vars
BY DEF Order!vars, Sessions

\* commit_phase makes the next commitment.
LEMMA OrderCommit == ASSUME JointInv, AlteredWhenDone, commit_phase PROVE Order!Commit
<1> DEFINE x == Partial
<1>1. /\ partials' = Append(partials, x) /\ job' = job /\ challenges' = challenges
      /\ sent' = sent /\ phase = "committed" /\ alteration = "none"
  BY DEF commit_phase, proverUnchanged, jointVars, AlteredWhenDone
<1> HIDE DEF x
<1>2. PICK S : partials \in Seq(S)
  BY <1>1 DEF JointInv, VectorsAreSequences
<1>3. /\ Len(partials') = Len(partials) + 1
      /\ \A i \in 1 .. Len(partials) : partials'[i] = partials[i]
      /\ Len(partials) \in Nat
      /\ DOMAIN partials = 1 .. Len(partials)
      /\ DOMAIN partials' = 1 .. Len(partials) + 1
  <2>1. /\ Len(Append(partials, x)) = Len(partials) + 1
        /\ \A i \in 1 .. Len(partials) : Append(partials, x)[i] = partials[i]
        /\ Len(partials) \in Nat
        /\ DOMAIN partials = 1 .. Len(partials)
        /\ DOMAIN Append(partials, x) = 1 .. Len(partials) + 1
    BY <1>2, AppendAny
  <2> QED
    BY <2>1, <1>1
<1>4. challenges = << >> /\ Len(partials) < job.repetition_count /\ job.repetition_count \in Nat
  BY <1>1, JobsAssumption DEF JointInv, PhasesInOrder, Committing, Job
<1>5. Len(Sessions(partials)) = Len(partials) /\ Len(Sessions(partials)') = Len(partials) + 1
  BY <1>3 DEF Sessions
<1>6. SubSeq(Sessions(partials)', 1, Len(partials)) = Sessions(partials)
  BY <1>3, <1>5 DEF Sessions
<1> QED
  BY <1>1, <1>3, <1>4, <1>5, <1>6 DEF Order!Commit, Order!Longer

\* derive_all learns the next challenge.
LEMMA OrderAsk == ASSUME JointInv, AlteredWhenDone, derive_all PROVE Order!Ask
<1>1. /\ partials' = partials /\ job' = job /\ sent' = sent /\ alteration = "none"
      /\ phase = "deriving" /\ Len(challenges) < Len(partials)
  BY DEF derive_all, innerVars, AlteredWhenDone
<1>2. PICK h \in Party : challenges' = Append(challenges, h)
  BY DEF derive_all
<1>3. /\ challenges \in Seq(Party) /\ challenges' \in Seq(Party)
      /\ Len(challenges') = Len(challenges) + 1
      /\ SubSeq(challenges', 1, Len(challenges)) = challenges
  BY <1>1, <1>2 DEF JointInv, VectorsAreSequences
<1>4. PICK S : partials \in Seq(S)
  BY <1>1 DEF JointInv, VectorsAreSequences
<1>5. Len(Sessions(partials)) = Len(partials) /\ Len(partials) = job.repetition_count
  BY <1>1, <1>4 DEF JointInv, PhasesInOrder, Committing, Sessions
<1> QED
  BY <1>1, <1>3, <1>4, <1>5 DEF Order!Ask, Order!Longer, Sessions

\* finish_repetition opens the next repetition to its own commitment and challenge.
LEMMA OrderOpen == ASSUME JointInv, AlteredWhenDone, finish_repetition PROVE Order!Open
<1> DEFINE r == Finish(partials[Opened + 1], challenges[Opened + 1])
           s == sent.repetitions
           t == sent'.repetitions
           Pairs(q) == [i \in DOMAIN q |-> <<q[i].commitments, q[i].challenge>>]
<1>1. /\ partials' = partials /\ job' = job /\ challenges' = challenges
      /\ phase = "opening" /\ Opened < Len(partials) /\ alteration = "none"
      /\ sent' = [sent EXCEPT !.repetitions = Append(@, r)]
  BY DEF finish_repetition, AlteredWhenDone
<1>2. /\ r.commitments = partials[Opened + 1].commitments
      /\ r.challenge = challenges[Opened + 1]
  BY DEF Finish
<1> HIDE DEF r
<1>3. t = Append(s, r)
  BY <1>1 DEF JointInv, VectorsAreSequences
<1>4. PICK S : s \in Seq(S)
  BY <1>1 DEF JointInv, VectorsAreSequences
<1>5. Opened = Len(s)
  BY DEF Opened
<1>6. PICK T : partials \in Seq(T)
  BY <1>1 DEF JointInv, VectorsAreSequences
<1>7. /\ Len(partials) = job.repetition_count /\ Len(challenges) = Len(partials)
      /\ Len(partials) \in Nat
  BY <1>1, <1>6 DEF JointInv, PhasesInOrder, Committing
<1> HIDE DEF s, t
<1>8. /\ Len(t) = Len(s) + 1
      /\ \A i \in 1 .. Len(s) : t[i] = s[i]
      /\ t[Len(s) + 1] = r
      /\ Len(s) \in Nat
      /\ DOMAIN s = 1 .. Len(s)
      /\ DOMAIN t = 1 .. Len(s) + 1
  <2>1. /\ Len(Append(s, r)) = Len(s) + 1
        /\ \A i \in 1 .. Len(s) : Append(s, r)[i] = s[i]
        /\ Append(s, r)[Len(s) + 1] = r
        /\ Len(s) \in Nat
        /\ DOMAIN s = 1 .. Len(s)
        /\ DOMAIN Append(s, r) = 1 .. Len(s) + 1
    BY <1>4, AppendAny
  <2> QED
    BY <2>1, <1>3
<1>9. Len(Pairs(s)) = Len(s)
  BY <1>8
<1>10. Pairs(t) = Append(Pairs(s), <<r.commitments, r.challenge>>)
  BY <1>8, <1>9
<1>11. Sessions(partials)[Opened + 1] = partials[Opened + 1].commitments
       /\ Len(Sessions(partials)) = Len(partials)
  BY <1>1, <1>5, <1>6, <1>8 DEF Sessions
<1>12. Pairs(t) = Append(Pairs(s), <<Sessions(partials)[Len(Pairs(s)) + 1],
                                    challenges[Len(Pairs(s)) + 1]>>)
  BY <1>2, <1>5, <1>9, <1>10, <1>11
<1>13. UNCHANGED <<job.repetition_count, Sessions(partials), challenges>>
  BY <1>1 DEF Sessions
<1> QED
  BY <1>1, <1>5, <1>7, <1>9, <1>12, <1>13 DEF Order!Open, s, t

\* A change in transit happens to a complete proof.
LEMMA OrderLeave ==
  ASSUME JointInv, InTransit, partials' = partials, challenges' = challenges,
         job'.repetition_count = job.repetition_count
  PROVE  Order!Leave
<1> DEFINE s == sent.repetitions
<1>1. PICK S : s \in Seq(S)
  BY DEF InTransit, JointInv, VectorsAreSequences
<1>2. Len(s) = job.repetition_count
  BY DEF InTransit, JointInv, PhasesInOrder, Committing, Opened
<1> HIDE DEF s
<1>3. Len([i \in DOMAIN s |-> <<s[i].commitments, s[i].challenge>>]) = Len(s)
  BY <1>1
<1> QED
  BY <1>2, <1>3 DEF Order!Leave, Sessions, s

\* Every step is a step of the abstract protocol or changes nothing of it.
LEMMA OrderStep ==
  ASSUME JointInv, AlteredWhenDone, [Next]_vars
  PROVE  Order!Next \/ UNCHANGED Order!vars
<1> USE DEF jointVars
<1>1. CASE prover_new \/ prover_prove
  BY <1>1, OrderStutter DEF prover_new, prover_prove, Refuse, innerVars
<1>2. CASE InnerNew
  BY <1>2, OrderStutter DEF InnerNew, Rep!new_backend, Rep!prove, Rep!Fail, proverUnchanged
<1>3. CASE Simulate
  BY <1>3, SimulateFrame, OrderStutter DEF Simulate, proverUnchanged
<1>4. CASE commit_phase
  BY <1>4, OrderCommit DEF Order!Next
<1>5. CASE derive_all
  BY <1>5, OrderAsk DEF Order!Next
<1>6. CASE ChallengesDerived
  BY <1>6, OrderStutter DEF ChallengesDerived, proverUnchanged
<1>7. CASE finish_repetition
  BY <1>7, OrderOpen DEF Order!Next
<1>8. CASE \E kind \in AlterationKinds : Alter(kind)
  <2>1. InTransit /\ partials' = partials /\ challenges' = challenges /\ job' = job
    BY <1>8 DEF Alter, transitUnchanged, innerVars
  <2> QED
    BY <2>1, OrderLeave DEF Order!Next
<1>9. CASE Restate
  <2>1. InTransit /\ partials' = partials /\ challenges' = challenges
    BY <1>9 DEF Restate, transitUnchanged, innerVars
  <2>2. PICK st : job' = [job EXCEPT !.statement = st]
    BY <1>9, Zenon DEF Restate
  <2>3. job \in Job
    BY <2>1, JobsAssumption DEF InTransit, JointInv
  <2>4. job'.repetition_count = job.repetition_count
    BY <2>2, <2>3 DEF Job
  <2> QED
    BY <2>1, <2>4, OrderLeave DEF Order!Next
<1>10. CASE verify_structure \/ derive_again \/ compare_challenges \/ verify_inner \/ conclude
  <2>1. job' = job /\ partials' = partials /\ challenges' = challenges /\ sent' = sent
    BY <1>10 DEF verify_structure, derive_again, compare_challenges, verify_inner, conclude,
                 checkUnchanged, innerVars
  <2> QED
    BY <2>1, OrderStutter
<1>11. CASE UNCHANGED vars
  BY <1>11, OrderStutter DEF vars, innerVars
<1> QED
  BY <1>1, <1>2, <1>3, <1>4, <1>5, <1>6, <1>7, <1>8, <1>9, <1>10, <1>11 DEF Next

(* prove_joint_fs implements the commit-challenge-open protocol: in every       *)
(* behaviour, whatever the circuit, the number of repetitions and the hash, all *)
(* commitments precede the first challenge and all challenges the first         *)
(* opening, nothing is taken back, and each opening answers its own commitment  *)
(* and challenge; only a complete proof is changed afterwards.                  *)
THEOREM JointImplements == Spec => ImplementsCommitOpen
<1>1. Init => JointInv /\ AlteredWhenDone
  BY InitJoint DEF Init, AlteredWhenDone
<1>2. JointInv /\ AlteredWhenDone /\ [Next]_vars => JointInv' /\ AlteredWhenDone'
  BY JointStep, AlteredStep
<1>3. Init => Order!Init
  BY DEF Init, Rep!ProverInit, Order!Init, Sessions
<1>4. JointInv /\ AlteredWhenDone /\ [Next]_vars => [Order!Next]_(Order!vars)
  BY OrderStep
<1> QED
  BY <1>1, <1>2, <1>3, <1>4, PTL DEF Spec, ImplementsCommitOpen, Order!Spec
-----------------------------------------------------------------------------
(* A proof that changed between prover and verifier.                       *)

\* What the verifier asks the hash for the challenge of repetition i.
VerifierInput(i) == fs_input(backend, job.statement, Sessions(sent.repetitions), i)

\* Before Verifier::verify is called.
BeforeVerify == {"new", "ready", "proving"}

\* Until then the hash has only answered the prover.
OracleAsked ==
  alteration = "none" /\ step \in BeforeVerify =>
    /\ fresh = 0
    /\ \A q \in DOMAIN oracle : \E i \in DOMAIN challenges : q = ProverInput(i)

LEMMA AskedKept ==
  ASSUME OracleAsked, step \in BeforeVerify,
         UNCHANGED <<alteration, fresh, oracle, challenges, job, partials>>
  PROVE  OracleAsked'
<1>1. \A i : ProverInput(i)' = ProverInput(i)
  BY DEF ProverInput, fs_input, Sessions
<1> QED BY <1>1 DEF OracleAsked

LEMMA AskedDerive ==
  ASSUME JointInv, OracleAsked, derive_all
  PROVE  OracleAsked'
<1> SUFFICES ASSUME alteration = "none", step \in BeforeVerify, NEW q \in DOMAIN oracle'
             PROVE  fresh' = 0 /\ \E i \in DOMAIN challenges' : q = ProverInput(i)'
  BY DEF OracleAsked, derive_all, historyVars, checkVars
<1> DEFINE n == Len(challenges) + 1
<1>1. PICK h \in Party : Ask(ProverInput(n), h) /\ challenges' = Append(challenges, h)
  BY DEF derive_all
<1>2. UNCHANGED <<fresh, job, partials>>
  BY DEF derive_all, innerVars, historyVars
<1>3. \A i : ProverInput(i)' = ProverInput(i)
  BY <1>2 DEF ProverInput, fs_input, Sessions
<1>4. challenges \in Seq(Party)
  BY DEF JointInv, VectorsAreSequences
<1>5. n \in DOMAIN challenges' /\ DOMAIN challenges \subseteq DOMAIN challenges'
  BY <1>1, <1>4
<1>6. q = ProverInput(n) \/ q \in DOMAIN oracle
  BY <1>1 DEF Ask
<1> QED BY <1>2, <1>3, <1>5, <1>6 DEF OracleAsked

LEMMA AskedStep ==
  ASSUME JointInv, OracleAsked, [Next]_vars
  PROVE  OracleAsked'
<1> SUFFICES ASSUME alteration' = "none", step' \in BeforeVerify PROVE OracleAsked'
  BY DEF OracleAsked
<1>1. CASE \/ prover_new \/ prover_prove \/ InnerNew \/ Simulate \/ ChallengesDerived
           \/ finish_repetition \/ UNCHANGED vars
  <2>1. UNCHANGED <<alteration, fresh, oracle, challenges>>
    BY <1>1 DEF prover_new, prover_prove, InnerNew, Simulate, ChallengesDerived, finish_repetition,
       proverUnchanged, vars, historyVars, jointVars
  <2>2. UNCHANGED <<job, partials>>
    BY <1>1, SimulateFrame DEF prover_new, prover_prove, Refuse, InnerNew, Simulate,
       ChallengesDerived, finish_repetition, innerVars, Rep!new_backend, Rep!prove, Rep!Fail, vars
  <2>3. step \in BeforeVerify
    BY <1>1 DEF prover_new, prover_prove, Refuse, InnerNew, Simulate, ChallengesDerived,
       finish_repetition, proverUnchanged, vars, checkVars, BeforeVerify
  <2> QED BY <2>1, <2>2, <2>3, AskedKept
<1>2. CASE commit_phase
  <2>1. UNCHANGED <<alteration, fresh, oracle, challenges, step>> /\ phase = "committed"
    BY <1>2 DEF commit_phase, proverUnchanged, historyVars, jointVars, checkVars
  <2>2. challenges = << >>
    BY <2>1 DEF JointInv, PhasesInOrder, Committing
  <2>3. fresh = 0 /\ \A q \in DOMAIN oracle : \E i \in DOMAIN challenges : q = ProverInput(i)
    BY <2>1 DEF OracleAsked
  <2>4. DOMAIN challenges = {}
    BY <2>2
  <2>5. ~\E q : q \in DOMAIN oracle
    BY <2>3, <2>4
  <2> QED BY <2>1, <2>3, <2>5 DEF OracleAsked
<1>3. CASE derive_all
  BY <1>3, AskedDerive
<1>4. ~\E kind \in AlterationKinds : Alter(kind)
  BY AlterationAssumption DEF Alter
<1>5. ~Restate
  BY DEF Restate
<1>6. ~(verify_structure \/ derive_again \/ compare_challenges \/ verify_inner \/ conclude)
  BY DEF verify_structure, derive_again, compare_challenges, verify_inner, conclude, Answer,
     BeforeVerify
<1> QED BY <1>1, <1>2, <1>3, <1>4, <1>5, <1>6 DEF Next

\* Nothing that is absorbed for a challenge gets lost.
LEMMA InputInjective ==
  ASSUME NEW b, NEW s, NEW x, NEW i, NEW b2, NEW s2, NEW x2, NEW i2,
         fs_input(b, s, Sessions(x), i) = fs_input(b2, s2, Sessions(x2), i2)
  PROVE  b = b2 /\ s = s2 /\ Sessions(x) = Sessions(x2) /\ i - 1 = i2 - 1
<1> DEFINE S(y) == [k \in DOMAIN Sessions(y) |-> <<k - 1, Sessions(y)[k]>>]
<1>1. b = b2 /\ s = s2 /\ i - 1 = i2 - 1 /\ S(x) = S(x2)
  BY DEF fs_input
<1>2. DOMAIN Sessions(x) = DOMAIN Sessions(x2)
  <2>1. \A y : DOMAIN S(y) = DOMAIN Sessions(y)
    OBVIOUS
  <2> QED BY <1>1, <2>1
<1>3. \A k \in DOMAIN Sessions(x) : Sessions(x)[k] = Sessions(x2)[k]
  <2> SUFFICES ASSUME NEW k \in DOMAIN Sessions(x)
               PROVE  Sessions(x)[k] = Sessions(x2)[k]
    OBVIOUS
  <2>1. S(x)[k] = <<k - 1, Sessions(x)[k]>> /\ S(x2)[k] = <<k - 1, Sessions(x2)[k]>>
    BY <1>2
  <2>2. <<k - 1, Sessions(x)[k]>> = <<k - 1, Sessions(x2)[k]>>
    BY <1>1, <2>1
  <2> QED BY <2>2
<1>4. Sessions(x) = Sessions(x2)
  BY <1>2, <1>3 DEF Sessions
<1> QED BY <1>1, <1>4

(* The four ways in which the verification of a changed proof goes on.     *)

\* The hash is asked for every challenge anew.
Rederived ==
  /\ step \in {"proving", "deriving", "replaying", "answered"}
  /\ step \in {"proving", "deriving"} =>
       /\ outcome = "none"
       /\ derived \in Seq(Party)
       /\ fresh = Len(derived)
       /\ \A i \in Nat : Len(derived) < i => VerifierInput(i) \notin DOMAIN oracle
  /\ step = "replaying" => outcome = "none" /\ fresh = Len(sent.repetitions)
  /\ step = "answered" /\ outcome = "Valid" => fresh = Len(sent.repetitions)

\* The proof does not pass the structural checks.
Misfit ==
  \/ step = "proving" /\ outcome = "none" /\ StructureError # "none"
  \/ step = "answered" /\ outcome # "Valid"

\* A challenge of the proof is not what the hash has answered.
Rechallenged ==
  \/ /\ step \in {"proving", "deriving"}
     /\ outcome = "none"
     /\ \E S : sent.repetitions \in Seq(S)
     /\ derived \in Seq(Party)
     /\ \A i \in DOMAIN derived :
          VerifierInput(i) \in DOMAIN oracle /\ derived[i] = oracle[VerifierInput(i)]
     /\ \E i \in DOMAIN sent.repetitions :
          /\ VerifierInput(i) \in DOMAIN oracle
          /\ oracle[VerifierInput(i)] # sent.repetitions[i].challenge
  \/ step = "answered" /\ outcome # "Valid"

\* The proof as the inner verifier gets it.
InnerProof ==
  [i \in DOMAIN sent.repetitions |-> to_inner_repetition(sent.repetitions[i], i - 1)]

\* The inner verifier does not accept the proof, if the statement is true.
Refuted ==
  /\ step \in {"proving", "deriving", "replaying", "answered"}
  /\ step \in {"proving", "deriving"} =>
       /\ Fresh
       /\ outcome = "none"
       /\ WrongOutputs = {} => Doomed(InnerProof)
  /\ step = "replaying" => outcome = "none" /\ (WrongOutputs = {} => Unaccepted)
  /\ step = "answered" => (WrongOutputs = {} => outcome # "Valid")

AlteredInv == alteration # "none" => Rederived \/ Misfit \/ Rechallenged \/ Refuted

\* Once the proof has changed only the verifier acts.
LEMMA AlteredActs ==
  ASSUME AlteredWhenDone, alteration # "none", [Next]_vars
  PROVE  \/ verify_structure \/ derive_again \/ compare_challenges \/ verify_inner \/ conclude
         \/ UNCHANGED vars
<1>1. phase = "done"
  BY DEF AlteredWhenDone
<1>2. ~(prover_new \/ prover_prove \/ InnerNew \/ commit_phase \/ derive_all \/ ChallengesDerived
        \/ finish_repetition)
  BY <1>1 DEF prover_new, prover_prove, InnerNew, Rep!new_backend, Rep!prove, commit_phase,
     derive_all, ChallengesDerived, finish_repetition
<1>3. ~Simulate
  BY <1>1, SimulateFrame DEF Simulate
<1>4. ~(Restate \/ \E kind \in AlterationKinds : Alter(kind))
  BY DEF Restate, Alter, InTransit
<1> QED BY <1>2, <1>3, <1>4 DEF Next

\* The verifier does not touch what it was given.
LEMMA GivenKept ==
  ASSUME \/ verify_structure \/ derive_again \/ compare_challenges \/ verify_inner \/ conclude
         \/ UNCHANGED vars
  PROVE  /\ UNCHANGED <<job, sent, backend, alteration>>
         /\ WrongOutputs' = WrongOutputs
         /\ StructureError' = StructureError
         /\ \A i : VerifierInput(i)' = VerifierInput(i)
<1>1. UNCHANGED <<job, sent, backend, reference, alteration>>
  <2>1. CASE verify_structure \/ derive_again \/ compare_challenges \/ verify_inner \/ conclude
    <3>1. checkUnchanged
      BY <2>1 DEF verify_structure, derive_again, compare_challenges, verify_inner, conclude
    <3> QED BY <3>1 DEF checkUnchanged, innerVars, jointVars, repetitionVars
  <2>2. CASE UNCHANGED vars
    BY <2>2 DEF vars, jointVars, checkVars, innerVars, repetitionVars, historyVars
  <2> QED BY <2>1, <2>2
<1>2. WrongOutputs' = WrongOutputs
  BY <1>1 DEF WrongOutputs
<1>3. StructureError' = StructureError
  BY <1>1 DEF StructureError, proof_statement_validate
<1>4. \A i : VerifierInput(i)' = VerifierInput(i)
  BY <1>1 DEF VerifierInput, fs_input, Sessions
<1> QED BY <1>1, <1>2, <1>3, <1>4

\* Structural errors are errors.
LEMMA StructureErrors ==
  StructureError # "Valid"
BY DEF StructureError, proof_statement_validate

LEMMA RederivedStep ==
  ASSUME Rederived,
         \/ verify_structure \/ derive_again \/ compare_challenges \/ verify_inner \/ conclude
         \/ UNCHANGED vars
  PROVE  Rederived'
<1> USE GivenKept
<1>1. CASE verify_structure
  BY <1>1, StructureErrors DEF verify_structure, Answer, Rederived
<1>2. CASE derive_again
  <2> DEFINE n == Len(derived) + 1
             input == VerifierInput(n)
  <2>1. /\ step = "deriving" /\ UNCHANGED <<outcome, step>>
        /\ \E h \in Party : Ask(input, h) /\ derived' = Append(derived, h)
        /\ fresh' = IF input \in DOMAIN oracle THEN fresh ELSE fresh + 1
    BY <1>2 DEF derive_again, VerifierInput
  <2>2. PICK h \in Party : Ask(input, h) /\ derived' = Append(derived, h)
    BY <2>1
  <2>3. /\ derived \in Seq(Party) /\ fresh = Len(derived) /\ outcome = "none"
        /\ \A i \in Nat : Len(derived) < i => VerifierInput(i) \notin DOMAIN oracle
    BY <2>1 DEF Rederived
  <2>4. derived' \in Seq(Party) /\ Len(derived') = n /\ n \in Nat /\ Len(derived) < n
    BY <2>2, <2>3
  <2>5. fresh' = n
    BY <2>1, <2>3, <2>4
  <2>6. ASSUME NEW i \in Nat, n < i
        PROVE  VerifierInput(i) \notin DOMAIN oracle'
    <3>1. VerifierInput(i) \notin DOMAIN oracle
      BY <2>3, <2>4, <2>6
    <3>2. i - 1 # n - 1
      BY <2>4, <2>6
    <3>3. VerifierInput(i) # input
      BY <3>2, InputInjective DEF VerifierInput
    <3>4. DOMAIN oracle' = DOMAIN oracle \cup {input}
      BY <2>2 DEF Ask
    <3> QED BY <3>1, <3>3, <3>4
  <2> HIDE DEF n, input
  <2> QED BY <2>1, <2>3, <2>4, <2>5, <2>6 DEF Rederived
<1>3. CASE compare_challenges
  BY <1>3 DEF compare_challenges, Answer, Rederived
<1>4. CASE verify_inner
  BY <1>4 DEF verify_inner, Rederived
<1>5. CASE conclude
  BY <1>5 DEF conclude, Answer, Rederived
<1>6. CASE UNCHANGED vars
  <2>1. UNCHANGED <<step, outcome, derived, fresh, oracle>>
    BY <1>6 DEF vars, checkVars, historyVars
  <2> QED BY <2>1 DEF Rederived
<1> QED BY <1>1, <1>2, <1>3, <1>4, <1>5, <1>6

LEMMA MisfitStep ==
  ASSUME Misfit,
         \/ verify_structure \/ derive_again \/ compare_challenges \/ verify_inner \/ conclude
         \/ UNCHANGED vars
  PROVE  Misfit'
<1> USE GivenKept
<1>1. CASE verify_structure
  BY <1>1, StructureErrors DEF verify_structure, Answer, Misfit
<1>2. ~(derive_again \/ compare_challenges \/ verify_inner \/ conclude)
  BY DEF derive_again, compare_challenges, verify_inner, conclude, Misfit
<1>3. CASE UNCHANGED vars
  <2>1. UNCHANGED <<step, outcome>>
    BY <1>3 DEF vars, checkVars
  <2> QED BY <2>1 DEF Misfit
<1> QED BY <1>1, <1>2, <1>3

LEMMA RechallengedStep ==
  ASSUME Rechallenged,
         \/ verify_structure \/ derive_again \/ compare_challenges \/ verify_inner \/ conclude
         \/ UNCHANGED vars
  PROVE  Rechallenged'
<1> USE GivenKept
<1>1. CASE verify_structure
  <2>1. UNCHANGED <<derived, oracle>>
    BY <1>1 DEF verify_structure
  <2>2. step = "proving" /\ ((step' = "answered" /\ outcome' # "Valid")
                             \/ (step' = "deriving" /\ outcome' = outcome))
    BY <1>1, StructureErrors DEF verify_structure, Answer
  <2> QED BY <2>1, <2>2 DEF Rechallenged
<1>2. CASE derive_again
  <2> DEFINE n == Len(derived) + 1
             input == VerifierInput(n)
  <2>1. /\ step = "deriving" /\ UNCHANGED <<outcome, step>>
        /\ \E h \in Party : Ask(input, h) /\ derived' = Append(derived, h)
    BY <1>2 DEF derive_again, VerifierInput
  <2>2. PICK h \in Party : Ask(input, h) /\ derived' = Append(derived, h)
    BY <2>1
  <2>3. /\ derived \in Seq(Party) /\ outcome = "none"
        /\ \E S : sent.repetitions \in Seq(S)
        /\ \A i \in DOMAIN derived :
             VerifierInput(i) \in DOMAIN oracle /\ derived[i] = oracle[VerifierInput(i)]
        /\ \E i \in DOMAIN sent.repetitions :
             /\ VerifierInput(i) \in DOMAIN oracle
             /\ oracle[VerifierInput(i)] # sent.repetitions[i].challenge
    BY <2>1 DEF Rechallenged
  <2>4. /\ \A q \in DOMAIN oracle : q \in DOMAIN oracle' /\ oracle'[q] = oracle[q]
        /\ input \in DOMAIN oracle' /\ oracle'[input] = h
    BY <2>2, AskKeeps
  <2>5. /\ derived' \in Seq(Party) /\ derived'[n] = h
        /\ \A i \in DOMAIN derived' : i = n \/ (i \in DOMAIN derived /\ derived'[i] = derived[i])
    BY <2>2, <2>3
  <2>6. \A i \in DOMAIN derived' :
          VerifierInput(i) \in DOMAIN oracle' /\ derived'[i] = oracle'[VerifierInput(i)]
    <3> SUFFICES ASSUME NEW i \in DOMAIN derived'
                 PROVE  VerifierInput(i) \in DOMAIN oracle' /\ derived'[i] = oracle'[VerifierInput(i)]
      OBVIOUS
    <3>1. CASE i = n
      <4>1. VerifierInput(i) = input
        BY <3>1
      <4> QED BY <2>4, <2>5, <3>1, <4>1
    <3>2. CASE i \in DOMAIN derived /\ derived'[i] = derived[i]
      BY <2>3, <2>4, <3>2
    <3> QED BY <2>5, <3>1, <3>2
  <2>7. \E i \in DOMAIN sent.repetitions :
          /\ VerifierInput(i) \in DOMAIN oracle'
          /\ oracle'[VerifierInput(i)] # sent.repetitions[i].challenge
    BY <2>3, <2>4
  <2> HIDE DEF n, input
  <2> QED BY <2>1, <2>3, <2>5, <2>6, <2>7 DEF Rechallenged
<1>3. CASE compare_challenges
  <2>1. step = "deriving" /\ Len(derived) = Len(sent.repetitions)
    BY <1>3 DEF compare_challenges
  <2>2. PICK S : sent.repetitions \in Seq(S)
    BY <2>1 DEF Rechallenged
  <2>3. DOMAIN derived = DOMAIN sent.repetitions
    BY <2>1, <2>2 DEF Rechallenged
  <2>4. ~ChallengesAgree
    BY <2>1, <2>3 DEF Rechallenged, ChallengesAgree
  <2> QED BY <1>3, <2>4 DEF compare_challenges, Answer, Rechallenged
<1>4. ~(verify_inner \/ conclude)
  BY DEF verify_inner, conclude, Rechallenged
<1>5. CASE UNCHANGED vars
  <2>1. UNCHANGED <<step, outcome, derived, oracle>>
    BY <1>5 DEF vars, checkVars
  <2> QED BY <2>1 DEF Rechallenged
<1> QED BY <1>1, <1>2, <1>3, <1>4, <1>5

\* What dooms a proof is in the proof and in the job.
LEMMA DoomedKept ==
  ASSUME job' = job, NEW pf, Doomed(pf)
  PROVE  Doomed(pf)'
<1>1. \A r, n, views, w, ref : Forges(r, n, views, w, ref)' = Forges(r, n, views, w, ref)
  BY DEF Forges, Right, Misstates, HiddenShare
<1>2. \A r, n : Opens(r, n)' = Opens(r, n)
  BY DEF Opens
<1>3. \A r, n : Spoiled(r, n) => Spoiled(r, n)'
  BY <1>1, <1>2 DEF Spoiled
<1> QED BY <1>3 DEF Doomed

LEMMA RefutedStep ==
  ASSUME Refuted,
         \/ verify_structure \/ derive_again \/ compare_challenges \/ verify_inner \/ conclude
         \/ UNCHANGED vars
  PROVE  Refuted'
<1>0. /\ UNCHANGED <<job, sent>> /\ WrongOutputs' = WrongOutputs
      /\ InnerProof' = InnerProof
  BY GivenKept DEF InnerProof, to_inner_repetition
<1>1. ASSUME UNCHANGED verifierVars, step \in {"proving", "deriving"},
             step' \in {"proving", "deriving"}, outcome' = outcome
      PROVE  Refuted'
  <2>1. Fresh' /\ outcome' = "none"
    BY <1>1 DEF Refuted, Fresh, Idle, verifierVars
  <2>2. ASSUME WrongOutputs = {} PROVE Doomed(InnerProof)'
    <3>1. PICK pf : pf = InnerProof
      OBVIOUS
    <3>2. Doomed(pf)
      BY <1>1, <2>2, <3>1 DEF Refuted
    <3>3. Doomed(pf)'
      BY <1>0, <3>2, DoomedKept
    <3>4. InnerProof' = pf
      BY <1>0, <3>1
    <3> QED BY <3>3, <3>4 DEF Doomed
  <2> QED BY <1>0, <1>1, <2>1, <2>2 DEF Refuted
<1>2. CASE verify_structure
  <2>1. UNCHANGED verifierVars /\ step = "proving"
    BY <1>2 DEF verify_structure
  <2>2. CASE step' = "deriving" /\ outcome' = outcome
    BY <1>1, <2>1, <2>2
  <2>3. CASE step' = "answered" /\ outcome' # "Valid"
    BY <2>3 DEF Refuted
  <2> QED BY <1>2, <2>2, <2>3, StructureErrors DEF verify_structure, Answer
<1>3. CASE derive_again
  <2>1. UNCHANGED <<verifierVars, step, outcome>> /\ step = "deriving"
    BY <1>3 DEF derive_again
  <2> QED BY <1>1, <2>1
<1>4. CASE compare_challenges
  <2>1. UNCHANGED verifierVars /\ step = "deriving"
    BY <1>4 DEF compare_challenges
  <2>2. CASE step' = "answered" /\ outcome' # "Valid"
    BY <2>2 DEF Refuted
  <2>3. CASE step' = "replaying" /\ proof' = InnerProof /\ outcome' = outcome
    <3>1. Fresh' /\ outcome' = "none"
      BY <2>1, <2>3 DEF Refuted, Fresh, Idle, verifierVars
    <3>2. ASSUME WrongOutputs = {} PROVE Unaccepted'
      <4>1. PICK pf : pf = InnerProof
        OBVIOUS
      <4>2. Doomed(pf)
        BY <2>1, <3>2, <4>1 DEF Refuted
      <4>3. Doomed(pf)' /\ proof' = pf
        BY <1>0, <2>3, <4>1, <4>2, DoomedKept
      <4>4. Doomed(proof)'
        BY <4>3 DEF Doomed
      <4>5. Fresh' /\ Doomed(proof)' => Unaccepted'
        BY DoomedUnaccepted, PTL
      <4> QED BY <3>1, <4>4, <4>5
    <3> QED BY <1>0, <2>3, <3>1, <3>2 DEF Refuted
  <2> QED BY <1>4, <2>2, <2>3 DEF compare_challenges, Answer, InnerProof
<1>5. CASE verify_inner
  <2>1. step = "replaying" /\ VerifierNext /\ UNCHANGED <<proof, outcome, step>>
    BY <1>5 DEF verify_inner
  <2>2. Unaccepted => Unaccepted'
    BY <1>0, <2>1, UnacceptedStep
  <2> QED BY <1>0, <2>1, <2>2 DEF Refuted
<1>6. CASE conclude
  <2>1. /\ step = "replaying" /\ stage = "done" /\ step' = "answered"
        /\ verdict # "Valid" => outcome' # "Valid"
    BY <1>6 DEF conclude, Answer
  <2>2. Unaccepted => verdict # "Valid"
    BY DEF Unaccepted, Fresh, Ahead
  <2> QED BY <1>0, <2>1, <2>2 DEF Refuted
<1>7. CASE UNCHANGED vars
  <2>1. UNCHANGED <<step, outcome, proof, verifierVars>>
    BY <1>7 DEF vars, checkVars
  <2>2. CASE step \in {"proving", "deriving"}
    BY <1>1, <2>1, <2>2
  <2>3. CASE step = "replaying"
    <3>1. Unaccepted => Unaccepted'
      BY <1>0, <2>1, UnacceptedKept
    <3> QED BY <1>0, <2>1, <2>3, <3>1 DEF Refuted
  <2>4. CASE step = "answered"
    BY <1>0, <2>1, <2>4 DEF Refuted
  <2> QED BY <2>2, <2>3, <2>4 DEF Refuted
<1> QED BY <1>2, <1>3, <1>4, <1>5, <1>6, <1>7

\* The rest of the verification.
LEMMA AlteredStays ==
  ASSUME AlteredWhenDone, alteration # "none", AlteredInv, [Next]_vars
  PROVE  AlteredInv'
<1>1. \/ verify_structure \/ derive_again \/ compare_challenges \/ verify_inner \/ conclude
      \/ UNCHANGED vars
  BY AlteredActs
<1> QED BY <1>1, RederivedStep, MisfitStep, RechallengedStep, RefutedStep DEF AlteredInv

LEMMA BumpedDiffers ==
  ASSUME NEW s \in Seq(F), NEW t \in Bumped(s)
  PROVE  /\ t # s /\ t \in Seq(F)
         /\ \E k \in DOMAIN s : t = [s EXCEPT ![k] = Plus(s[k], One)]
<1>1. PICK k \in DOMAIN s : t = [s EXCEPT ![k] = Plus(s[k], One)]
  BY DEF Bumped
<1>2. s[k] \in F
  OBVIOUS
<1>3. Plus(s[k], One) # s[k] /\ Plus(s[k], One) \in F
  BY <1>2, PlusOne
<1>4. t[k] = Plus(s[k], One)
  BY <1>1
<1>5. t \in Seq(F)
  <2> DEFINE y == Plus(s[k], One)
  <2> HIDE DEF y
  <2>1. [s EXCEPT ![k] = y] \in Seq(F)
    BY <1>3 DEF y
  <2> QED BY <1>1, <2>1 DEF y
<1> QED BY <1>1, <1>3, <1>4, <1>5
-----------------------------------------------------------------------------
(* The joint prover as a prover of MpcithProver that is asked its challenges late. *)

\* The challenge of a repetition, or the first party while there is none.
Chosen(i) == IF i \in DOMAIN challenges THEN challenges[i] ELSE 0

\* A committed repetition opened for a challenge, as the inner verifier will see it.
Shown(partial, hidden, i) == to_inner_repetition(Finish(partial, hidden), i - 1)

ShownProof == [i \in DOMAIN partials |-> Shown(partials[i], Chosen(i), i)]

InnerPhase == IF phase \in {"deriving", "opening", "done"} THEN "done" ELSE phase

Remaining == job.repetition_count - Len(partials)

M == INSTANCE MpcithHonestProofs WITH
       proof <- ShownProof, phase <- InnerPhase, error <- "none", supply <- Remaining,
       Damages <- {}, damage <- [kind |-> "none", party |-> 0]

\* The two specifications are about the same executions.
LEMMA SameTypes ==
  M!Party = Party /\ M!Job = Job /\ M!Repetition = Repetition
BY DEF M!Party, Party, M!Job, Job, M!Circuit, Circuit, M!Node, Node, M!NodeId, NodeId,
       M!Statement, Statement, M!CircuitId, CircuitId, M!Repetition, Repetition,
       M!ViewCommitment, ViewCommitment, M!OpenedView, OpenedView, M!PartyView, PartyView,
       M!Randomness, Randomness, M!LocalOperation, LocalOperation, M!TripleShare, TripleShare

LEMMA InnerJobs == Jobs \subseteq M!Job
BY SameTypes, JobsAssumption

\* What MpcithProofs proves of a step holds of the joint prover and verifier.
LEMMA InnerStep ==
  ASSUME M!UndamagedInv, [M!Next]_M!vars
  PROVE  M!UndamagedInv'
BY M!UndamagedStep, InnerJobs, FieldClosed, PlusGroup, TimesMonoid, Distributive, OneNotZero,
   Zenon

\* The steps of one repetition leave all but the repetition alone.
Kept == UNCHANGED <<job, partials, challenges>>

\* What has been committed is shown as before.
LEMMA KeptShown ==
  ASSUME Kept
  PROVE  UNCHANGED <<job, ShownProof, Remaining>>
BY DEF Kept, ShownProof, Remaining, Shown, Chosen, Finish, to_inner_repetition

\* Every committed repetition is shown.
LEMMA ShownLength ==
  ASSUME \E S : partials \in Seq(S)
  PROVE  /\ DOMAIN ShownProof = DOMAIN partials
         /\ Len(ShownProof) = Len(partials)
<1>1. PICK S : partials \in Seq(S)
  OBVIOUS
<1>2. DOMAIN partials = 1 .. Len(partials) /\ Len(partials) \in Nat
  BY <1>1
<1>3. DOMAIN ShownProof = 1 .. Len(partials)
  BY <1>2 DEF ShownProof
<1> DEFINE T == {ShownProof[i] : i \in 1 .. Len(partials)}
<1>4. ShownProof \in [1 .. Len(partials) -> T]
  BY <1>2 DEF ShownProof
<1> HIDE DEF T
<1>5. ShownProof \in Seq(T)
  BY <1>2, <1>4
<1>6. Len(ShownProof) = Len(partials)
  BY <1>2, <1>4, <1>5
<1> QED BY <1>2, <1>3, <1>6

\* The node loop is the one of the inner prover.
LEMMA InnerNodes ==
  ASSUME Rep!EvaluateNode, Kept
  PROVE  M!EvaluateNode
<1>1. UNCHANGED <<job, ShownProof, Remaining>>
  BY KeptShown
<1>2. ASSUME NEW op, Rep!AtNode(op) PROVE M!AtNode(op) /\ InnerPhase = phase
  BY <1>2 DEF Rep!AtNode, M!AtNode, InnerPhase, Rep!out, M!out, Rep!node, M!node
<1>3. ASSUME NEW val, NEW ref, Rep!Push(val, ref), InnerPhase = phase, phase = "evaluating"
      PROVE  M!Push(val, ref)
  BY <1>1, <1>3 DEF Rep!Push, M!Push, InnerPhase, Rep!inputVars, M!inputVars
<1>4. ASSUME NEW op, Rep!AtNode(op) PROVE phase = "evaluating"
  BY <1>4 DEF Rep!AtNode
<1>5. /\ M!out = Rep!out /\ M!node = Rep!node /\ M!va = Rep!va /\ M!vb = Rep!vb
      /\ M!RefAdd = Rep!RefAdd /\ M!RefMul = Rep!RefMul
  BY DEF Rep!out, M!out, Rep!node, M!node, Rep!va, M!va, Rep!vb, M!vb, M!RefAdd, Rep!RefAdd,
         M!RefMul, Rep!RefMul
<1>6. CASE Rep!SecretInputNode
  <2>1. M!SecretInputNode
    BY <1>2, <1>3, <1>4, <1>5, <1>6 DEF Rep!SecretInputNode, M!SecretInputNode,
      Rep!Shared, M!Shared, Rep!partyVars, M!partyVars, Rep!Party, M!Party
  <2> QED BY <2>1 DEF M!EvaluateNode
<1>7. CASE Rep!PublicInputNode
  <2>1. M!PublicInputNode
    BY <1>2, <1>3, <1>4, <1>5, <1>7 DEF Rep!PublicInputNode, M!PublicInputNode,
      Rep!Public, M!Public, Rep!partyVars, M!partyVars, Rep!Party, M!Party
  <2> QED BY <2>1 DEF M!EvaluateNode
<1>8. CASE Rep!ConstantNode
  <2>1. M!ConstantNode
    BY <1>2, <1>3, <1>4, <1>5, <1>8 DEF Rep!ConstantNode, M!ConstantNode,
      Rep!Public, M!Public, Rep!partyVars, M!partyVars, Rep!cursorVars,
      M!cursorVars, Rep!Party, M!Party
  <2> QED BY <2>1 DEF M!EvaluateNode
<1>9. CASE Rep!AddPublic
  <2>1. M!AddPublic
    BY <1>2, <1>3, <1>4, <1>5, <1>9 DEF Rep!AddPublic, M!AddPublic, Rep!Public,
      M!Public, Rep!public_part, M!public_part, Rep!partyVars, M!partyVars,
      Rep!cursorVars, M!cursorVars, Rep!Party, M!Party
  <2> QED BY <2>1 DEF M!EvaluateNode
<1>10. CASE Rep!AddShared
  <2>1. M!AddShared
    BY <1>2, <1>3, <1>4, <1>5, <1>10 DEF Rep!AddShared, M!AddShared, Rep!Shared,
      M!Shared, Rep!operand, M!operand, Rep!RecordOps, M!RecordOps, Rep!AddOp,
      M!AddOp, Rep!cursorVars, M!cursorVars, Rep!Party, M!Party
  <2> QED BY <2>1 DEF M!EvaluateNode
<1>11. CASE Rep!AddMixed
  <2>1. M!AddMixed
    BY <1>2, <1>3, <1>4, <1>5, <1>11 DEF Rep!AddMixed, M!AddMixed, Rep!Shared,
      M!Shared, Rep!operand, M!operand, Rep!public_part, M!public_part, Rep!Absorb,
      M!Absorb, Rep!AddOp, M!AddOp, Rep!cursorVars, M!cursorVars, Rep!Party, M!Party
  <2> QED BY <2>1 DEF M!EvaluateNode
<1>12. CASE Rep!MulPublic
  <2>1. M!MulPublic
    BY <1>2, <1>3, <1>4, <1>5, <1>12 DEF Rep!MulPublic, M!MulPublic, Rep!Public,
      M!Public, Rep!public_part, M!public_part, Rep!partyVars, M!partyVars,
      Rep!cursorVars, M!cursorVars, Rep!Party, M!Party
  <2> QED BY <2>1 DEF M!EvaluateNode
<1>13. CASE Rep!MulMixed
  <2>1. M!MulMixed
    BY <1>2, <1>3, <1>4, <1>5, <1>13 DEF Rep!MulMixed, M!MulMixed, Rep!Shared,
      M!Shared, Rep!operand, M!operand, Rep!public_part, M!public_part,
      Rep!RecordOps, M!RecordOps, Rep!MulPublicOp, M!MulPublicOp, Rep!cursorVars,
      M!cursorVars, Rep!Party, M!Party
  <2> QED BY <2>1 DEF M!EvaluateNode
<1>14. CASE Rep!MulShared
  <2>1. PICK a \in job.coins, b \in job.coins :
          \E ta \in Rep!share3(a), tb \in Rep!share3(b), tc \in Rep!share3(Times(a, b)) :
            Rep!BeaverMul(ta, tb, tc)
    BY <1>14 DEF Rep!MulShared
  <2>2. PICK ta \in Rep!share3(a), tb \in Rep!share3(b), tc \in Rep!share3(Times(a, b)) :
          Rep!BeaverMul(ta, tb, tc)
    BY <2>1
  <2>3. \A v : M!share3(v) = Rep!share3(v)
    BY DEF M!share3, Rep!share3, M!Party, Rep!Party, M!Minus, Rep!Minus
  <2>4. M!BeaverMul(ta, tb, tc)
    BY <1>2, <1>3, <1>4, <1>5, <2>2, SMTT(30) DEF Rep!BeaverMul, M!BeaverMul, Rep!Shared, M!Shared,
       Rep!operand, M!operand, Rep!RecordOps, M!RecordOps, Rep!BeaverMulOp, M!BeaverMulOp,
       Rep!Party, M!Party, Rep!Minus, M!Minus, Rep!Sum3, M!Sum3, Rep!beaver_share,
       M!beaver_share, Rep!Absorb, M!Absorb, Rep!Broadcast, M!Broadcast, Rep!cursorVars,
       M!cursorVars
  <2>5. M!MulShared
    BY <2>2, <2>3, <2>4 DEF M!MulShared
  <2> QED BY <2>5 DEF M!EvaluateNode
<1> QED BY <1>6, <1>7, <1>8, <1>9, <1>10, <1>11, <1>12, <1>13, <1>14 DEF Rep!EvaluateNode

\* A step of the simulation is one of the inner prover.
LEMMA InnerSimulate ==
  ASSUME Rep!ShareInput \/ Rep!InputsShared \/ Rep!EvaluateNode \/ Rep!CommitViews, Kept,
         \E S : partials \in Seq(S)
  PROVE  M!ProverNext
<1>1. UNCHANGED <<job, ShownProof, Remaining>>
  BY KeptShown
<1>2. M!inputVars = Rep!inputVars /\ M!partyVars = Rep!partyVars /\ M!cursorVars = Rep!cursorVars
  BY DEF M!inputVars, M!partyVars, M!cursorVars, Rep!inputVars, Rep!partyVars, Rep!cursorVars
<1>3. CASE Rep!ShareInput
  <2>1. \A v : M!share3(v) = Rep!share3(v)
    BY DEF M!share3, Rep!share3, M!Party, Rep!Party, M!Minus, Rep!Minus
  <2>2. M!ShareInput
    BY <1>1, <1>3, <2>1 DEF Rep!ShareInput, M!ShareInput, InnerPhase, M!Party, Rep!Party,
       M!partyVars, M!cursorVars, Rep!partyVars, Rep!cursorVars
  <2> QED BY <2>2 DEF M!ProverNext
<1>4. CASE Rep!InputsShared
  <2>1. M!InputsShared
    BY <1>1, <1>4 DEF Rep!InputsShared, M!InputsShared, InnerPhase, M!inputVars, Rep!inputVars,
       M!partyVars, M!cursorVars, Rep!partyVars, Rep!cursorVars
  <2> QED BY <2>1 DEF M!ProverNext
<1>5. CASE Rep!EvaluateNode
  BY <1>5, InnerNodes DEF M!ProverNext
<1>6. CASE Rep!CommitViews
  <2>1. M!id = Rep!id /\ \A p : M!build_view(p) = Rep!build_view(p)
    BY ShownLength DEF M!id, Rep!id, M!build_view, Rep!build_view
  <2>2. M!CommitViews
    BY <1>1, <1>6, <2>1 DEF Rep!CommitViews, M!CommitViews, Rep!AllEvaluated, M!AllEvaluated,
       InnerPhase, M!inputVars, Rep!inputVars, M!partyVars, M!cursorVars, Rep!partyVars,
       Rep!cursorVars, M!Party, Rep!Party, M!commit_view, Rep!commit_view,
       M!fresh_randomness, Rep!fresh_randomness
  <2> QED BY <2>2 DEF M!ProverNext
<1> QED BY <1>3, <1>4, <1>5, <1>6

\* A repetition that was committed and is opened later is the one that finish_repetition
\* of the inner prover hands out at once.
LEMMA PartialShown ==
  ASSUME NEW h \in Party, \E S : partials \in Seq(S)
  PROVE  Shown(Partial, h, Len(partials) + 1) = M!FinishedRepetition(h)
<1>1. M!id = Len(partials) /\ Rep!id = Len(partials) /\ Len(partials) \in Nat
  BY ShownLength DEF M!id, Rep!id
<1>2. \A p : M!build_view(p) = Rep!build_view(p)
  BY <1>1 DEF M!build_view, Rep!build_view
<1>3. M!others(h) = others(h) /\ others(h)[1] \in Party /\ others(h)[2] \in Party
  BY DEF M!others, others, Party
<1> DEFINE a == others(h)[1]
           b == others(h)[2]
           shown(p) == [view |-> Rep!build_view(p),
                       randomness |-> fresh_randomness(Len(partials), p)]
           outs == [k \in DOMAIN job.circuit.outputs |->
                      LET val == values[job.circuit.outputs[k]]
                      IN  IF val.shared THEN val.share[h] ELSE Zero]
           r == [id |-> Len(partials),
                 commitments |-> <<commitments[0], commitments[1], commitments[2]>>,
                 challenge |-> h,
                 opened_views |-> <<shown(a), shown(b)>>,
                 hidden_output_shares |-> outs,
                 hidden_broadcasts |-> opened_values[h]]
<1>4. M!FinishedRepetition(h) = r
  BY <1>1, <1>2, <1>3 DEF M!FinishedRepetition, M!Opening, M!HiddenOutputShares,
     M!fresh_randomness, fresh_randomness
<1>5. Shown(Partial, h, Len(partials) + 1) = r
  <2> DEFINE x == Finish(Partial, h)
  <2>1. /\ x.opened_views = [i \in 1 .. 2 |-> Rep!build_view(others(h)[i])]
        /\ x.opening_randomness = [i \in 1 .. 2 |-> fresh_randomness(Len(partials), others(h)[i])]
    BY <1>1, <1>3 DEF Finish, Partial, Rep!fresh_randomness, fresh_randomness, Rep!Party, Party
  <2>2. x.hidden_output_shares = outs
    BY DEF Finish, Partial
  <2>3. /\ x.hidden_broadcasts = opened_values[h] /\ x.challenge = h
        /\ x.commitments = <<commitments[0], commitments[1], commitments[2]>>
    BY DEF Finish, Partial
  <2> HIDE DEF x, outs
  <2>4. [i \in DOMAIN x.opened_views |->
            [view |-> x.opened_views[i], randomness |-> x.opening_randomness[i]]]
          = <<shown(a), shown(b)>>
    BY <2>1
  <2>5. (Len(partials) + 1) - 1 = Len(partials)
    BY <1>1
  <2> HIDE DEF shown, a, b
  <2>6. to_inner_repetition(x, Len(partials)) = r
    BY <2>2, <2>3, <2>4 DEF to_inner_repetition
  <2> QED BY <2>5, <2>6 DEF Shown, x
<1> QED BY <1>4, <1>5

\* What was committed can be opened for any challenge, honestly.
PartialHonest(x, i) ==
  \A h \in Party : Shown(x, h, i) \in Repetition /\ M!Presents(job, Shown(x, h, i), i)

PartialsHonest == \A i \in DOMAIN partials : PartialHonest(partials[i], i)

\* Whatever the challenges, what is shown is honest.
LEMMA ShownHonest ==
  PartialsHonest /\ challenges \in Seq(Party) /\ (\E S : partials \in Seq(S))
    => ShownProof \in Seq(M!Repetition) /\ M!ProofHonest
<1> SUFFICES ASSUME PartialsHonest, challenges \in Seq(Party), \E S : partials \in Seq(S)
             PROVE  ShownProof \in Seq(M!Repetition) /\ M!ProofHonest
  OBVIOUS
<1>1. PICK S : partials \in Seq(S)
  OBVIOUS
<1>2. Len(partials) \in Nat /\ DOMAIN partials = 1 .. Len(partials)
  BY <1>1
<1>3. \A i \in DOMAIN partials : Chosen(i) \in Party
  BY DEF Chosen, Party
<1>4. \A i \in DOMAIN partials : /\ ShownProof[i] \in M!Repetition
                                 /\ M!Presents(job, ShownProof[i], i)
  BY <1>3, SameTypes DEF ShownProof, PartialsHonest, PartialHonest
<1>5. ShownProof \in [1 .. Len(partials) -> M!Repetition]
  BY <1>2, <1>4 DEF ShownProof
<1>6. ShownProof \in Seq(M!Repetition)
  BY <1>2, <1>5
<1>7. DOMAIN ShownProof = DOMAIN partials
  BY DEF ShownProof
<1> QED BY <1>4, <1>6, <1>7 DEF M!ProofHonest

LEMMA ShownHonestNext ==
  (PartialsHonest /\ challenges \in Seq(Party) /\ (\E S : partials \in Seq(S))
    => ShownProof \in Seq(M!Repetition) /\ M!ProofHonest)'
BY ShownHonest, PTL

\* A sequence that is another one with an element more.
LEMMA AppendIs ==
  ASSUME NEW S, NEW s \in Seq(S), NEW x, NEW f, f = [i \in DOMAIN f |-> f[i]],
         DOMAIN f = 1 .. Len(s) + 1, \A i \in 1 .. Len(s) : f[i] = s[i], f[Len(s) + 1] = x
  PROVE  f = Append(s, x)
OBVIOUS

\* The repetition that joins the transcript is one that the inner prover finishes.
LEMMA InnerFinish ==
  ASSUME JointInv, alteration = "none", M!HonestInv, commit_phase
  PROVE  /\ M!finish_repetition(0) /\ UNCHANGED <<job, challenges, verifierVars, step>>
         /\ phase = "committed" /\ partials' = Append(partials, Partial)
<1>1. /\ partials' = Append(partials, Partial) /\ phase = "committed"
      /\ UNCHANGED <<job, challenges, verifierVars, step>>
  BY DEF commit_phase, proverUnchanged, jointVars, checkVars
<1>2. PICK S : partials \in Seq(S)
  BY DEF JointInv, VectorsAreSequences
<1>3. /\ \E T : partials' \in Seq(T)
      /\ Len(partials') = Len(partials) + 1 /\ Len(partials) \in Nat
      /\ \A i \in 1 .. Len(partials) : partials'[i] = partials[i]
      /\ partials'[Len(partials) + 1] = Partial
      /\ DOMAIN partials = 1 .. Len(partials) /\ DOMAIN partials' = 1 .. Len(partials) + 1
  <2> DEFINE x == Partial
  <2>1. partials' = Append(partials, x)
    BY <1>1
  <2> HIDE DEF x
  <2> DEFINE q == Append(partials, x)
  <2>2. /\ \E T : q \in Seq(T)
        /\ Len(q) = Len(partials) + 1
        /\ \A i \in 1 .. Len(partials) : q[i] = partials[i]
        /\ q[Len(partials) + 1] = x
        /\ Len(partials) \in Nat
        /\ DOMAIN partials = 1 .. Len(partials)
        /\ DOMAIN q = 1 .. Len(partials) + 1
    BY <1>2, AppendAny
  <2>3. partials' = q
    BY <2>1
  <2> HIDE DEF q
  <2> QED BY <2>2, <2>3 DEF x
<1>4. challenges = << >> /\ Len(partials) < job.repetition_count /\ job.repetition_count \in Nat
  BY <1>1, JobsAssumption DEF JointInv, PhasesInOrder, Committing, Job
<1>5. DOMAIN ShownProof = 1 .. Len(partials) /\ Len(ShownProof) = Len(partials)
      /\ ShownProof \in Seq(M!Repetition)
  <2>1. ShownProof \in Seq(M!Repetition)
    BY Zenon DEF M!HonestInv, M!ProverInv, M!ProverTypeOK
  <2> QED BY <1>2, <1>3, <2>1, ShownLength
<1>6. \A i : Chosen(i) = 0 /\ Chosen(i)' = 0
  BY <1>1, <1>4 DEF Chosen
<1>7. ShownProof' = Append(ShownProof, M!FinishedRepetition(0))
  <2> DEFINE r == M!FinishedRepetition(0)
             s == ShownProof
             t == ShownProof'
  <2>1. Shown(Partial, 0, Len(partials) + 1) = r
    BY <1>2, PartialShown DEF Party
  <2>2. t = [i \in 1 .. Len(partials) + 1 |-> Shown(partials'[i], 0, i)]
    BY <1>3, <1>6 DEF ShownProof
  <2>3. s = [i \in 1 .. Len(partials) |-> Shown(partials[i], 0, i)]
    BY <1>3, <1>6 DEF ShownProof
  <2>4. t[Len(partials) + 1] = r
    BY <1>3, <2>1, <2>2
  <2>5. \A i \in 1 .. Len(partials) : t[i] = s[i]
    BY <1>3, <2>2, <2>3
  <2>6. t = [i \in DOMAIN t |-> t[i]] /\ DOMAIN t = 1 .. Len(partials) + 1
    BY <2>2
  <2>7. s \in Seq(M!Repetition) /\ Len(s) = Len(partials)
    BY <1>5
  <2> HIDE DEF r, s, t
  <2>8. t = Append(s, r)
    BY <2>4, <2>5, <2>6, <2>7, AppendIs
  <2> QED BY <2>8 DEF r, s, t
<1>8. Len(ShownProof') = Len(partials) + 1
  <2> DEFINE r == M!FinishedRepetition(0)
  <2> HIDE DEF r
  <2>1. ShownProof' = Append(ShownProof, r)
    BY <1>7 DEF r
  <2> QED BY <1>5, <2>1
<1>9. Remaining > 0 /\ Remaining' = Remaining - 1
  BY <1>1, <1>3, <1>4 DEF Remaining
<1>10. InnerPhase = "committed"
  BY <1>1 DEF InnerPhase
<1>11. (Len(ShownProof') < job.repetition_count) <=> CommitsLeft
  BY <1>8 DEF CommitsLeft
<1>12. CASE CommitsLeft
  <2>1. InnerPhase' = "sharing"
    BY <1>12 DEF commit_phase, InnerPhase
  <2> QED BY <1>1, <1>7, <1>9, <1>10, <1>11, <1>12, <2>1 DEF commit_phase, M!finish_repetition,
        M!next_challenge, M!Empty, Rep!Empty, M!Party, Rep!Party
<1>13. CASE ~CommitsLeft
  <2>1. InnerPhase' = "done" /\ UNCHANGED repetitionVars
    BY <1>13 DEF commit_phase, InnerPhase
  <2> QED BY <1>1, <1>7, <1>9, <1>10, <1>11, <1>13, <2>1 DEF M!finish_repetition,
        M!next_challenge, M!inputVars, M!partyVars, M!cursorVars, repetitionVars
<1> QED BY <1>12, <1>13
-----------------------------------------------------------------------------
(* What is proved of the inner prover and verifier.                        *)

Inner == M!HonestInv /\ M!DoneProof /\ M!HonestSoFar

\* The instance counts as undamaged throughout.
LEMMA InnerIs == Inner <=> M!UndamagedInv
BY DEF Inner, M!UndamagedInv, M!NoDamage

LEMMA InnerIsNext == (Inner <=> M!UndamagedInv)'
BY InnerIs, PTL

\* A step of the instance keeps it.
LEMMA InnerKept ==
  ASSUME Inner, [M!Next]_M!vars
  PROVE  Inner'
BY InnerIs, InnerIsNext, InnerStep

\* A repetition may be finished for any challenge.
LEMMA InnerAny ==
  ASSUME M!HonestInv, NEW h \in Party, M!finish_repetition(h)
  PROVE  M!HonestInv'
<1>1. M!AnyNext
  BY SameTypes DEF M!AnyNext
<1> QED BY <1>1, M!HonestAnyStep, InnerJobs, FieldClosed, PlusGroup, TimesMonoid, Distributive,
           OneNotZero, Zenon

\* A challenge may replace another in a finished proof.
LEMMA InnerRechallenged ==
  ASSUME M!HonestInv, InnerPhase = "done",
         UNCHANGED <<job, InnerPhase, Remaining, repetitionVars>>,
         ShownProof' \in Seq(M!Repetition), Len(ShownProof') = Len(ShownProof), M!ProofHonest'
  PROVE  M!HonestInv'
<1>1. UNCHANGED <<job, InnerPhase, "none", Remaining, M!inputVars, M!partyVars, M!cursorVars,
                  values, reference, commitments>>
  BY DEF repetitionVars, M!inputVars, M!partyVars, M!cursorVars
<1> QED BY <1>1, M!RechallengedStep, InnerJobs, FieldClosed, PlusGroup, TimesMonoid, Distributive,
           OneNotZero, Zenon

\* Before the verifier is called its part is in order.
LEMMA InnerFresh ==
  ASSUME M!HonestSoFar, stage = "start", UNCHANGED verifierVars
  PROVE  M!HonestSoFar'
<1>1. UNCHANGED M!verifierVars
  BY DEF M!verifierVars, verifierVars
<1> QED BY <1>1, M!FreshStays, InnerJobs, FieldClosed, PlusGroup, TimesMonoid, Distributive,
           OneNotZero, Zenon

\* The repetition at hand, opened for any challenge, is honest.
LEMMA InnerFinished ==
  ASSUME M!HonestInv, InnerPhase = "committed", NEW h \in Party, \E S : partials \in Seq(S)
  PROVE  /\ M!FinishedRepetition(h) \in Repetition
         /\ M!Presents(job, M!FinishedRepetition(h), Len(partials) + 1)
<1>1. h \in M!Party /\ M!ProverInv /\ M!TraceInv /\ M!SharedMeansSecretDependent
  BY SameTypes DEF M!HonestInv
<1>2. M!Evaluated
  BY <1>1 DEF M!Evaluated, M!ProverInv, M!CursorsCountLeaves
<1>3. M!FinishedRepetition(h) \in M!Repetition
  BY <1>1, <1>2, M!FinishedFacts, InnerJobs, FieldClosed, PlusGroup, TimesMonoid, Distributive,
     OneNotZero, Zenon
<1>4. M!RepetitionFrom(job, M!FinishedRepetition(h), M!id + 1, M!Views,
                       [p \in M!Party |-> M!LocalValues(p)], reference)
  BY <1>1, M!FinishedHonest, InnerJobs, FieldClosed, PlusGroup, TimesMonoid, Distributive,
     OneNotZero, Zenon
<1>5. M!id = Len(partials)
  BY ShownLength DEF M!id
<1>6. M!Presents(job, M!FinishedRepetition(h), M!id + 1)
  BY <1>4 DEF M!Presents
<1> QED BY <1>3, <1>5, <1>6, SameTypes

\* Nothing that the inner prover or verifier sees has changed.
Same == UNCHANGED <<job, partials, challenges, repetitionVars, InnerPhase, verifierVars>>

LEMMA SameInner ==
  ASSUME Inner, Same
  PROVE  Inner'
<1>1. UNCHANGED <<job, ShownProof, Remaining>>
  BY KeptShown DEF Same, Kept
<1>2. UNCHANGED M!vars
  BY <1>1 DEF Same, M!vars, M!proverVars, M!verifierVars, verifierVars, M!inputVars, M!partyVars,
     M!cursorVars, repetitionVars
<1> QED BY <1>2, InnerKept

\* A step of the simulation.
LEMMA ProverInner ==
  ASSUME Inner, M!ProverNext, UNCHANGED verifierVars
  PROVE  Inner'
<1>1. M!Prove
  BY DEF M!Prove, M!verifierVars, verifierVars
<1> QED BY <1>1, InnerKept DEF M!Next

\* Before the first call nothing is committed.
LEMMA InnerInit ==
  ASSUME Init
  PROVE  Inner /\ PartialsHonest
<1>1. /\ job \in Jobs /\ phase = "new" /\ partials = << >> /\ challenges = << >>
      /\ job.repetition_count \in Nat
  BY JobsAssumption DEF Init, Rep!ProverInit, Job
<1>2. ShownProof = << >>
  BY <1>1 DEF ShownProof
<1>3. Remaining \in Nat
  BY <1>1 DEF Remaining
<1>4. M!Initial
  BY <1>1, <1>2, <1>3 DEF Init, Rep!ProverInit, M!Initial, InnerPhase, M!Empty, Rep!Empty, M!Party,
     Rep!Party
<1>5. M!HonestInv
  BY <1>4, M!HonestInit, InnerJobs, FieldClosed, PlusGroup, TimesMonoid, Distributive, OneNotZero,
     Zenon
<1>6. M!DoneProof
  BY <1>1 DEF M!DoneProof, InnerPhase
<1>7. M!HonestSoFar
  BY DEF Init, VerifierInit, M!HonestSoFar, M!Fresh, M!Idle, M!ZeroCursor, ZeroCursor
<1> QED BY <1>1, <1>5, <1>6, <1>7 DEF Inner, PartialsHonest

\* The operators of the instances are the operators here.
LEMMA SameCardinality ==
  \A S : M!Cardinality(S) = Cardinality(S) /\ Rep!Cardinality(S) = Cardinality(S)
<1>1. \A S : M!Cardinality(S) = Cardinality(S)
  BY DEF M!Cardinality, Cardinality
<1>2. \A S : Rep!Cardinality(S) = Cardinality(S)
  BY DEF Rep!Cardinality, Cardinality
<1> QED BY <1>1, <1>2

LEMMA SameValidation ==
  ASSUME NEW s, NEW c
  PROVE  /\ M!statement_validate(s, c) = statement_validate(s, c)
         /\ Rep!statement_validate(s, c) = statement_validate(s, c)
<1>1. M!validate(c) = validate(c)
  <2>1. M!BadGates(c.nodes) = BadGates(c.nodes)
    BY DEF M!BadGates, BadGates, M!operands, operands, M!IsGate, IsGate
  <2>2. M!FirstBadOperand(c.nodes) = FirstBadOperand(c.nodes)
    BY <2>1 DEF M!FirstBadOperand, FirstBadOperand
  <2> QED BY <2>1, <2>2, SameCardinality DEF M!validate, validate, M!Leaves, Leaves
<1>2. Rep!validate(c) = validate(c)
  <2>1. Rep!BadGates(c.nodes) = BadGates(c.nodes)
    BY DEF Rep!BadGates, BadGates, Rep!operands, operands, Rep!IsGate, IsGate
  <2>2. Rep!FirstBadOperand(c.nodes) = FirstBadOperand(c.nodes)
    BY <2>1 DEF Rep!FirstBadOperand, FirstBadOperand
  <2> QED BY <2>1, <2>2, SameCardinality DEF Rep!validate, validate, Rep!Leaves, Leaves
<1> QED BY <1>1, <1>2 DEF M!statement_validate, Rep!statement_validate, statement_validate,
     M!compute_id, Rep!compute_id, compute_id

LEMMA ShownLengthNext ==
  ((\E S : partials \in Seq(S))
     => DOMAIN ShownProof = DOMAIN partials /\ Len(ShownProof) = Len(partials))'
<1>1. (\E S : partials \in Seq(S))
        => DOMAIN ShownProof = DOMAIN partials /\ Len(ShownProof) = Len(partials)
  BY ShownLength
<1> QED BY <1>1, PTL

\* MpcithProver::new_backend and prove, unless they refuse.
LEMMA InnerNewStep ==
  ASSUME Inner, InnerNew, phase' # "failed"
  PROVE  Inner' /\ UNCHANGED <<job, partials, challenges, verifierVars, step>>
<1>1. UNCHANGED <<challenges, verifierVars, step>>
  BY DEF InnerNew, proverUnchanged, jointVars, checkVars
<1>2. M!NewError = Rep!NewError
  BY SameValidation DEF M!NewError, Rep!NewError
<1>3. CASE Rep!new_backend
  <2>1. /\ phase = "new" /\ phase' = "ready" /\ Rep!NewError = "none"
        /\ UNCHANGED <<job, partials, repetitionVars>>
    BY <1>3 DEF Rep!new_backend, Rep!Fail, Rep!inputVars, Rep!partyVars, Rep!cursorVars,
       repetitionVars
  <2>2. UNCHANGED <<job, ShownProof, Remaining>>
    BY <1>1, <2>1, KeptShown DEF Kept
  <2>3. M!new_backend
    BY <1>2, <2>1, <2>2 DEF M!new_backend, InnerPhase, M!inputVars, M!partyVars, M!cursorVars,
       repetitionVars
  <2>4. M!ProverNext
    BY <2>3 DEF M!ProverNext
  <2> QED BY <1>1, <2>1, <2>4, ProverInner
<1>4. CASE Rep!prove
  <2>1. /\ phase = "ready" /\ phase' = "sharing" /\ job.repetition_count > 0
        /\ UNCHANGED <<job, partials, repetitionVars>>
    BY <1>4 DEF Rep!prove, Rep!Fail, Rep!inputVars, Rep!partyVars, Rep!cursorVars,
       repetitionVars
  <2>2. UNCHANGED <<job, ShownProof, Remaining>>
    BY <1>1, <2>1, KeptShown DEF Kept
  <2>3. M!prove
    BY <2>1, <2>2 DEF M!prove, InnerPhase, M!inputVars, M!partyVars, M!cursorVars,
       repetitionVars
  <2>4. M!ProverNext
    BY <2>3 DEF M!ProverNext
  <2> QED BY <1>1, <2>1, <2>4, ProverInner
<1> QED BY <1>3, <1>4 DEF InnerNew

\* A step of commit_repetition.
LEMMA SimulateStep ==
  ASSUME Inner, Simulate, \E S : partials \in Seq(S)
  PROVE  Inner' /\ UNCHANGED <<job, partials, challenges, verifierVars, step>>
<1>1. UNCHANGED <<challenges, verifierVars, step>>
  BY DEF Simulate, proverUnchanged, jointVars, checkVars
<1>2. Rep!ShareInput \/ Rep!InputsShared \/ Rep!EvaluateNode \/ Rep!CommitViews
  BY DEF Simulate
<1>3. UNCHANGED <<job, partials>>
  BY <1>2, SimulateFrame
<1>4. M!ProverNext
  BY <1>1, <1>2, <1>3, InnerSimulate DEF Kept
<1> QED BY <1>1, <1>3, <1>4, ProverInner

\* commit_phase keeps the repetition.
LEMMA CommitStep ==
  ASSUME JointInv, alteration = "none", Inner, PartialsHonest, commit_phase
  PROVE  Inner' /\ PartialsHonest' /\ UNCHANGED <<job, challenges, verifierVars, step>>
<1>1. /\ M!finish_repetition(0) /\ UNCHANGED <<job, challenges, verifierVars, step>>
      /\ phase = "committed" /\ partials' = Append(partials, Partial)
  BY InnerFinish DEF Inner
<1>2. PICK S : partials \in Seq(S)
  BY DEF JointInv, VectorsAreSequences
<1>3. InnerPhase = "committed"
  BY <1>1 DEF InnerPhase
<1>4. M!HonestInv'
  BY <1>1, InnerAny DEF Inner, Party
<1>5. PartialHonest(Partial, Len(partials) + 1)
  BY <1>2, <1>3, InnerFinished, PartialShown DEF Inner, PartialHonest
<1>6. PartialsHonest' /\ Len(partials') # 0 /\ \E T : partials' \in Seq(T)
  <2> DEFINE x == Partial
  <2>1. PartialHonest(x, Len(partials) + 1)
    BY <1>5
  <2>2. partials' = Append(partials, x)
    BY <1>1
  <2> HIDE DEF x
  <2>3. /\ DOMAIN partials' = 1 .. Len(partials) + 1 /\ Len(partials) \in Nat
        /\ \A i \in 1 .. Len(partials) : partials'[i] = partials[i]
        /\ partials'[Len(partials) + 1] = x
        /\ DOMAIN partials = 1 .. Len(partials) /\ Len(partials') = Len(partials) + 1
        /\ \E T : partials' \in Seq(T)
    <3> DEFINE q == Append(partials, x)
    <3>1. /\ \E T : q \in Seq(T)
          /\ Len(q) = Len(partials) + 1
          /\ \A i \in 1 .. Len(partials) : q[i] = partials[i]
          /\ q[Len(partials) + 1] = x
          /\ Len(partials) \in Nat
          /\ DOMAIN partials = 1 .. Len(partials)
          /\ DOMAIN q = 1 .. Len(partials) + 1
      BY <1>2, AppendAny
    <3>2. partials' = q
      BY <2>2
    <3> HIDE DEF q
    <3> QED BY <3>1, <3>2
  <2>4. \A i \in DOMAIN partials' : PartialHonest(partials'[i], i)
    BY <2>1, <2>3 DEF PartialsHonest
  <2>5. \A y, i : PartialHonest(y, i) => PartialHonest(y, i)'
    BY <1>1 DEF PartialHonest
  <2> QED BY <2>3, <2>4, <2>5 DEF PartialsHonest
<1>7. M!DoneProof'
  <2>1. Len(ShownProof') # 0
    BY <1>6, ShownLengthNext
  <2> QED BY <2>1 DEF M!DoneProof
<1>8. M!HonestSoFar'
  BY <1>1, <1>3, InnerFresh DEF Inner, M!HonestSoFar
<1> QED BY <1>1, <1>4, <1>6, <1>7, <1>8 DEF Inner

\* A challenge becomes known, and the repetition it belongs to is opened differently.
LEMMA ChallengeStep ==
  ASSUME JointInv, JointInv', alteration = "none", Inner, PartialsHonest, stage = "start", derive_all
  PROVE  Inner' /\ PartialsHonest'
<1>1. /\ phase = "deriving" /\ alteration' = "none"
      /\ UNCHANGED <<job, phase, partials, repetitionVars, verifierVars>>
  BY DEF derive_all, innerVars, historyVars
<1>2. InnerPhase = "done" /\ UNCHANGED <<InnerPhase, Remaining>>
  BY <1>1 DEF InnerPhase, Remaining
<1>3. PartialsHonest'
  <2>1. \A y, i : PartialHonest(y, i) => PartialHonest(y, i)'
    BY <1>1 DEF PartialHonest
  <2> QED BY <1>1, <2>1 DEF PartialsHonest
<1>4. /\ \E S : partials \in Seq(S)
      /\ \E S : partials' \in Seq(S)
      /\ challenges' \in Seq(Party)
  BY <1>1 DEF JointInv, VectorsAreSequences
<1>5. (ShownProof \in Seq(M!Repetition))' /\ M!ProofHonest'
  BY <1>3, <1>4, ShownHonestNext
<1>6. Len(ShownProof') = Len(ShownProof)
  BY <1>1, <1>4, ShownLength, ShownLengthNext
<1>7. M!HonestInv'
  BY <1>1, <1>2, <1>5, <1>6, InnerRechallenged DEF Inner
<1>8. M!HonestSoFar'
  BY <1>1, InnerFresh DEF Inner
<1>9. M!DoneProof'
  <2>1. Len(ShownProof) # 0
    <3>1. ShownProof # << >> /\ ShownProof \in Seq(M!Repetition)
      BY <1>2, Zenon DEF Inner, M!DoneProof, M!HonestInv, M!ProverInv, M!ProverTypeOK
    <3> QED BY <3>1
  <2> QED BY <1>6, <2>1 DEF M!DoneProof
<1> QED BY <1>3, <1>7, <1>8, <1>9 DEF Inner

LEMMA SameDependence == \A c : M!node_depends_on_secrets(c) = node_depends_on_secrets(c)
BY DEF M!node_depends_on_secrets, node_depends_on_secrets, M!IsGate, IsGate

\* What the verifier looks at, when the proof it holds is the one that was made.
LEMMA SameView ==
  ASSUME proof = ShownProof
  PROVE  /\ M!repetition = repetition /\ M!opened = opened /\ M!view = view /\ M!party = party
         /\ M!vout = vout /\ M!vnode = vnode /\ M!wa = wa /\ M!wb = wb
<1>1. M!repetition = repetition
  BY DEF M!repetition, repetition
<1>2. M!opened = opened
  BY <1>1 DEF M!opened, opened
<1>3. M!view = view
  BY <1>2 DEF M!view, view
<1>4. M!party = party
  BY <1>3 DEF M!party, party
<1>5. M!vout = vout
  BY DEF M!vout, vout
<1>6. M!vnode = vnode
  BY <1>5 DEF M!vnode, vnode
<1>7. M!wa = wa /\ M!wb = wb
  BY <1>6 DEF M!wa, wa, M!wb, wb
<1> QED BY <1>1, <1>2, <1>3, <1>4, <1>5, <1>6, <1>7

LEMMA SameOpenError ==
  ASSUME proof = ShownProof
  PROVE  M!OpenError = OpenError /\ M!Globals = Globals
<1> USE SameView
<1>1. \A o : M!BindingError(o) = BindingError(o)
  BY DEF M!BindingError, BindingError, M!verify_commitment, verify_commitment, M!commit_view,
     commit_view
<1>2. M!others(repetition.challenge) = others(repetition.challenge)
  BY DEF M!others, others
<1>3. M!OpenError = OpenError
  BY <1>1, <1>2, SameTypes DEF M!OpenError, OpenError
<1>4. M!Globals = Globals
  BY DEF M!Globals, Globals
<1> QED BY <1>3, <1>4

LEMMA SameOutputVerdict ==
  ASSUME proof = ShownProof
  PROVE  M!OutputVerdict = OutputVerdict
<1> USE SameView
<1>1. M!SecretOutputs = SecretOutputs
  BY SameDependence DEF M!SecretOutputs, SecretOutputs
<1>2. \A k : M!SharesPresent(k) = SharesPresent(k) /\ M!OutputTotal(k) = OutputTotal(k)
  BY DEF M!SharesPresent, SharesPresent, M!OutputTotal, OutputTotal
<1>3. M!OutputFailures = OutputFailures
  BY <1>1, <1>2 DEF M!OutputFailures, OutputFailures
<1> QED BY <1>1, <1>2, <1>3 DEF M!OutputVerdict, OutputVerdict

LEMMA SameReplay ==
  ASSUME proof = ShownProof
  PROVE  ReplayNode => M!ReplayNode
<1> USE SameView
<1>1. \A op : AtReplay(op) => M!AtReplay(op)
  BY DEF AtReplay, M!AtReplay
<1>2. \A val, cur : Step(val, cur) => M!Step(val, cur)
  BY DEF Step, M!Step
<1>3. \A v : Return(v) => M!Return(v)
  BY DEF Return, M!Return
<1>4. \A x : M!ExpectError(x) = ExpectError(x)
  BY DEF M!ExpectError, ExpectError
<1>5. \A x, val : StepWithOp(x, val) => M!StepWithOp(x, val)
  BY <1>2, <1>3, <1>4 DEF StepWithOp, M!StepWithOp
<1>6. \A v : M!PublicVal(v) = PublicVal(v) /\ M!ShareVal(v) = ShareVal(v)
  BY DEF M!PublicVal, PublicVal, M!ShareVal, ShareVal
<1>7. \A o, s : M!AddOp(o, s) = AddOp(o, s)
  BY DEF M!AddOp, AddOp
<1>8. \A o, v, s : M!MulPublicOp(o, v, s) = MulPublicOp(o, v, s)
  BY DEF M!MulPublicOp, MulPublicOp
<1>9. ReplaySecretInput => M!ReplaySecretInput
  BY <1>1, <1>2, <1>6 DEF ReplaySecretInput, M!ReplaySecretInput
<1>10. ReplayPublicInput => M!ReplayPublicInput
  BY <1>1, <1>2, <1>6 DEF ReplayPublicInput, M!ReplayPublicInput
<1>11. ReplayConstant => M!ReplayConstant
  BY <1>1, <1>2, <1>6 DEF ReplayConstant, M!ReplayConstant
<1>12. ReplayAddPublic => M!ReplayAddPublic
  BY <1>1, <1>2, <1>6 DEF ReplayAddPublic, M!ReplayAddPublic
<1>13. ReplayAddShared => M!ReplayAddShared
  BY <1>1, <1>5, <1>6, <1>7 DEF ReplayAddShared, M!ReplayAddShared
<1>14. ReplayAddMixed => M!ReplayAddMixed
  BY <1>1, <1>2, <1>5, <1>6, <1>7 DEF ReplayAddMixed, M!ReplayAddMixed
<1>15. ReplayMulPublic => M!ReplayMulPublic
  BY <1>1, <1>2, <1>6 DEF ReplayMulPublic, M!ReplayMulPublic
<1>16. ReplayMulMixed => M!ReplayMulMixed
  BY <1>1, <1>5, <1>6, <1>8 DEF ReplayMulMixed, M!ReplayMulMixed
<1>17. ReplayMulShared => M!ReplayMulShared
  <2>1. M!MaskError = MaskError
    BY DEF M!MaskError, MaskError, M!Minus, Minus
  <2>2. \A p, a, b, c, d, e : M!beaver_share(p, a, b, c, d, e) = beaver_share(p, a, b, c, d, e)
    BY DEF M!beaver_share, beaver_share, M!Absorb, Absorb
  <2>3. \A o, t, d, e, z : M!BeaverMulOp(o, t, d, e, z) = BeaverMulOp(o, t, d, e, z)
    BY DEF M!BeaverMulOp, BeaverMulOp
  <2> QED BY <1>1, <1>2, <1>3, <1>4, <1>6, <2>1, <2>2, <2>3 DEF ReplayMulShared, M!ReplayMulShared
<1> QED BY <1>9, <1>10, <1>11, <1>12, <1>13, <1>14, <1>15, <1>16, <1>17
        DEF ReplayNode, M!ReplayNode

\* The verifier called by Verifier::verify is the one of MpcithProofs.
LEMMA SameVerifier ==
  ASSUME proof = ShownProof, VerifierNext
  PROVE  M!VerifierNext
<1> USE SameView
<1>1. \A v : Return(v) => M!Return(v)
  BY DEF Return, M!Return
<1>2. CASE verify
  <2>1. M!verify
    BY <1>1, <1>2, SameValidation DEF verify, M!verify
  <2> QED BY <2>1 DEF M!VerifierNext
<1>3. CASE verify_repetition
  <2>1. M!verify_repetition
    BY <1>1, <1>3, SameOpenError DEF verify_repetition, M!verify_repetition
  <2> QED BY <2>1 DEF M!VerifierNext
<1>4. CASE WrongInputCount
  <2>1. M!WrongInputCount
    BY <1>1, <1>4 DEF WrongInputCount, M!WrongInputCount
  <2> QED BY <2>1 DEF M!VerifierNext
<1>5. CASE ReplayNode
  BY <1>5, SameReplay DEF M!VerifierNext
<1>6. CASE FinishReplay
  <2>1. M!FinishReplay
    BY <1>1, <1>6 DEF FinishReplay, M!FinishReplay, FullyConsumed, M!FullyConsumed, NextView,
       M!NextView, ZeroCursor, M!ZeroCursor
  <2> QED BY <2>1 DEF M!VerifierNext
<1>7. CASE check_outputs
  <2>1. M!check_outputs
    BY <1>1, <1>7, SameOutputVerdict DEF check_outputs, M!check_outputs, NextRepetition,
       M!NextRepetition
  <2> QED BY <2>1 DEF M!VerifierNext
<1> QED BY <1>2, <1>3, <1>4, <1>5, <1>6, <1>7 DEF VerifierNext

LEMMA VerifyStep ==
  ASSUME Inner, InnerPhase = "done", proof = ShownProof, verify_inner
  PROVE  Inner'
<1>1. /\ VerifierNext
      /\ UNCHANGED <<job, InnerPhase, partials, challenges, repetitionVars>>
  BY DEF verify_inner, checkUnchanged, innerVars, jointVars, InnerPhase
<1>2. UNCHANGED <<job, ShownProof, Remaining>>
  BY <1>1, KeptShown DEF Kept
<1>3. UNCHANGED M!proverVars
  BY <1>1, <1>2 DEF M!proverVars, M!inputVars, M!partyVars, M!cursorVars, repetitionVars
<1>4. M!Verify
  BY <1>1, <1>3, SameVerifier DEF M!Verify
<1> QED BY <1>4, InnerKept DEF M!Next
-----------------------------------------------------------------------------
(* From the prover's hand to the verifier's answer.                        *)

\* The proof holds what was committed, opened for the challenges derived.
Handed ==
  /\ sent = [version |-> PROTOCOL_VERSION, backend_id |-> ProverBackend,
             statement |-> job.statement, repetitions |-> sent.repetitions]
  /\ \A i \in DOMAIN sent.repetitions :
       sent.repetitions[i] = Finish(partials[i], challenges[i])

\* How far Verifier::verify is, and what it has found out by then.
Checking ==
  /\ step \in BeforeVerify \cup {"deriving", "replaying", "answered"}
  /\ step \in BeforeVerify => derived = << >>
  /\ step \notin BeforeVerify => phase = "done"
  /\ step \notin {"replaying", "answered"} => stage = "start"
  /\ step # "answered" => outcome = "none"
  /\ step # "new" => proof_statement_validate(job.statement, job.circuit) = "Ok"
  /\ step \in {"deriving", "replaying"} => backend = ProverBackend
  /\ step = "deriving" => /\ derived \in Seq(Party) /\ Len(derived) <= Len(challenges)
                          /\ \A i \in DOMAIN derived : derived[i] = challenges[i]
  /\ step = "replaying" => proof = ShownProof

\* What the verifier will find, unless the prover has refused.
Proved == phase # "failed" => Inner /\ PartialsHonest

Honest == Handed /\ Checking /\ Proved /\ HonestOutcome

HonestRun == alteration = "none" => Honest

LEMMA PartialsKept ==
  ASSUME PartialsHonest, UNCHANGED <<job, partials>>
  PROVE  PartialsHonest'
<1>1. \A y, i : PartialHonest(y, i) => PartialHonest(y, i)'
  BY DEF PartialHonest
<1> QED BY <1>1 DEF PartialsHonest

LEMMA HandedKept ==
  ASSUME Handed, UNCHANGED <<job, sent>>,
         UNCHANGED <<partials, challenges>> \/ sent.repetitions = << >>
  PROVE  Handed'
BY DEF Handed, Finish

\* The verifier waits while the prover works.
LEMMA CheckingKept ==
  ASSUME Checking, UNCHANGED <<job, backend, outcome, derived, proof, stage, step>>,
         phase # "done"
  PROVE  Checking' /\ HonestOutcome'
<1>1. step \in BeforeVerify
  BY DEF Checking
<1> QED BY <1>1 DEF Checking, BeforeVerify, HonestOutcome

\* The prover up to its challenges.
LEMMA ProverSteps ==
  ASSUME JointInv, JointInv', alteration = "none", Honest,
         \/ prover_new \/ prover_prove \/ InnerNew \/ Simulate \/ commit_phase
         \/ derive_all \/ ChallengesDerived
  PROVE  Honest'
<1> USE DEF jointVars, checkVars, historyVars, proverUnchanged
<1>1. sent.repetitions = << >> /\ phase # "done"
  <2>1. phase \in {"new", "ready", "sharing", "evaluating", "committed", "deriving"}
    BY SimulateFrame DEF prover_new, prover_prove, InnerNew, Rep!new_backend, Rep!prove, Simulate,
       commit_phase, derive_all, ChallengesDerived
  <2> QED BY <2>1 DEF JointInv, PhasesInOrder, Committing
<1>2. step \in BeforeVerify /\ outcome = "none" /\ stage = "start"
  BY <1>1 DEF Honest, Checking, BeforeVerify
<1>3. UNCHANGED <<job, sent, backend, outcome, derived, proof, verifierVars>>
  <2>1. ASSUME NEW e, Refuse(e) PROVE job' = job
    BY <2>1 DEF Refuse
  <2> QED BY <2>1, SimulateFrame DEF prover_new, prover_prove, InnerNew, Rep!new_backend, Rep!prove,
         Rep!Fail, Simulate, commit_phase, derive_all, ChallengesDerived
<1>4. Handed'
  BY <1>1, <1>3, HandedKept DEF Honest
<1>5. stage' = stage
  BY <1>3 DEF verifierVars
<1>6. \E S : partials \in Seq(S)
  BY DEF JointInv, VectorsAreSequences
<1>7. CASE prover_new
  <2>1. phase = "new" /\ step = "new"
    BY <1>7 DEF prover_new
  <2>2. CASE step' = "ready" /\ UNCHANGED innerVars
    <3>1. proof_statement_validate(job.statement, job.circuit) = "Ok"
      BY <1>7, <2>2 DEF prover_new, Refuse, innerVars
    <3>2. Checking' /\ HonestOutcome'
      BY <1>2, <1>3, <1>5, <2>1, <2>2, <3>1 DEF Honest, Checking, BeforeVerify, HonestOutcome
    <3>3. UNCHANGED challenges
      BY <1>7 DEF prover_new
    <3>4. Inner' /\ PartialsHonest'
      BY <1>3, <2>1, <2>2, <3>3, SameInner, PartialsKept
      DEF Honest, Proved, Same, innerVars, repetitionVars, InnerPhase
    <3> QED BY <1>4, <3>2, <3>4 DEF Honest, Proved
  <2>3. CASE phase' = "failed" /\ step' = step
    BY <1>1, <1>3, <1>4, <1>5, <2>3, CheckingKept DEF Honest, Proved
  <2> QED BY <1>7, <2>2, <2>3 DEF prover_new, Refuse
<1>8. CASE prover_prove
  <2>1. phase = "new" /\ step = "ready"
    BY <1>8 DEF prover_prove
  <2>2. CASE step' = "proving" /\ UNCHANGED innerVars
    <3>1. Checking' /\ HonestOutcome'
      BY <1>2, <1>3, <1>5, <2>1, <2>2 DEF Honest, Checking, BeforeVerify, HonestOutcome
    <3>3. UNCHANGED challenges
      BY <1>8 DEF prover_prove
    <3>4. Inner' /\ PartialsHonest'
      BY <1>3, <2>1, <2>2, <3>3, SameInner, PartialsKept
      DEF Honest, Proved, Same, innerVars, repetitionVars, InnerPhase
    <3> QED BY <1>4, <3>1, <3>4 DEF Honest, Proved
  <2>3. CASE phase' = "failed" /\ step' = step
    BY <1>1, <1>3, <1>4, <1>5, <2>3, CheckingKept DEF Honest, Proved
  <2> QED BY <1>8, <2>2, <2>3 DEF prover_prove, Refuse
<1>9. ASSUME UNCHANGED step PROVE Checking' /\ HonestOutcome'
  BY <1>1, <1>3, <1>5, <1>9, CheckingKept DEF Honest
<1>10. CASE InnerNew
  <2>1. UNCHANGED step /\ phase # "failed"
    BY <1>10 DEF InnerNew, Rep!new_backend, Rep!prove
  <2>2. phase' # "failed" => Inner' /\ PartialsHonest'
    BY <1>10, <2>1, InnerNewStep, PartialsKept DEF Honest, Proved
  <2> QED BY <1>4, <1>9, <2>1, <2>2 DEF Honest, Proved
<1>11. CASE Simulate
  <2>1. phase # "failed"
    BY <1>11, SimulateFrame DEF Simulate
  <2>2. Inner' /\ PartialsHonest' /\ UNCHANGED step
    BY <1>6, <1>11, <2>1, SimulateStep, PartialsKept DEF Honest, Proved
  <2> QED BY <1>4, <1>9, <2>2 DEF Honest, Proved
<1>12. CASE commit_phase
  <2>1. phase # "failed"
    BY <1>12 DEF commit_phase
  <2>2. Inner' /\ PartialsHonest' /\ UNCHANGED step
    BY <1>12, <2>1, CommitStep DEF Honest, Proved
  <2> QED BY <1>4, <1>9, <2>2 DEF Honest, Proved
<1>13. CASE derive_all
  <2>1. phase # "failed" /\ UNCHANGED step
    BY <1>13 DEF derive_all
  <2>2. Inner' /\ PartialsHonest'
    BY <1>2, <1>13, <2>1, ChallengeStep DEF Honest, Proved
  <2> QED BY <1>4, <1>9, <2>1, <2>2 DEF Honest, Proved
<1>14. CASE ChallengesDerived
  <2>1. /\ phase = "deriving" /\ phase' = "opening"
        /\ UNCHANGED <<step, partials, challenges, repetitionVars>>
    BY <1>14 DEF ChallengesDerived
  <2>2. Inner' /\ PartialsHonest'
    BY <1>3, <2>1, SameInner, PartialsKept DEF Honest, Proved, Same, InnerPhase
  <2> QED BY <1>4, <1>9, <2>1, <2>2 DEF Honest, Proved
<1> QED BY <1>7, <1>8, <1>10, <1>11, <1>12, <1>13, <1>14

\* finish_repetition hands out the next repetition.
LEMMA OpeningStep ==
  ASSUME JointInv, JointInv', alteration = "none", Honest, finish_repetition
  PROVE  Honest'
<1>1. /\ phase = "opening" /\ phase' \in {"opening", "done"} /\ Opened < Len(partials)
      /\ sent' = [sent EXCEPT !.repetitions =
                    Append(@, Finish(partials[Opened + 1], challenges[Opened + 1]))]
      /\ UNCHANGED <<job, proof, repetitionVars, partials, challenges, backend, derived, outcome,
                     step, verifierVars>>
  BY DEF finish_repetition, checkVars
<1>2. PICK S : sent.repetitions \in Seq(S)
  BY DEF JointInv, VectorsAreSequences
<1>3. Handed'
  <2> DEFINE x == Finish(partials[Opened + 1], challenges[Opened + 1])
             q == Append(sent.repetitions, x)
  <2>1. sent' = [version |-> PROTOCOL_VERSION, backend_id |-> ProverBackend,
                 statement |-> job.statement, repetitions |-> q]
    <3> HIDE DEF x, q
    <3>1. sent' = [sent EXCEPT !.repetitions = q]
      BY <1>1 DEF q, x
    <3>2. sent = [version |-> PROTOCOL_VERSION, backend_id |-> ProverBackend,
                  statement |-> job.statement, repetitions |-> sent.repetitions]
      BY DEF Honest, Handed
    <3> QED BY <3>1, <3>2
  <2>2. sent'.repetitions = q
    BY <2>1
  <2> HIDE DEF x
  <2>3. /\ \E T : q \in Seq(T)
        /\ Len(q) = Len(sent.repetitions) + 1
        /\ \A i \in 1 .. Len(sent.repetitions) : q[i] = sent.repetitions[i]
        /\ q[Len(sent.repetitions) + 1] = x
        /\ Len(sent.repetitions) \in Nat
        /\ DOMAIN sent.repetitions = 1 .. Len(sent.repetitions)
        /\ DOMAIN q = 1 .. Len(sent.repetitions) + 1
    BY <1>2, AppendAny
  <2> HIDE DEF q
  <2>4. \A i \in DOMAIN q : q[i] = Finish(partials[i], challenges[i])
    <3> SUFFICES ASSUME NEW i \in DOMAIN q PROVE q[i] = Finish(partials[i], challenges[i])
      OBVIOUS
    <3>1. CASE i = Len(sent.repetitions) + 1
      BY <2>3, <3>1 DEF x, Opened
    <3>2. CASE i # Len(sent.repetitions) + 1
      <4>1. i \in 1 .. Len(sent.repetitions)
        BY <2>3, <3>2
      <4> QED BY <2>3, <4>1 DEF Honest, Handed
    <3> QED BY <3>1, <3>2
  <2>5. \A y, h : Finish(y, h)' = Finish(y, h)
    BY DEF Finish
  <2>6. \A i \in DOMAIN sent'.repetitions :
          sent'.repetitions[i] = Finish(partials'[i], challenges'[i])
    BY <1>1, <2>2, <2>4
  <2>7. sent' = [version |-> PROTOCOL_VERSION, backend_id |-> ProverBackend,
                 statement |-> job'.statement, repetitions |-> sent'.repetitions]
    BY <1>1, <2>1, <2>2
  <2> QED BY <2>6, <2>7 DEF Handed, Finish
<1>4. Checking' /\ HonestOutcome'
  BY <1>1, CheckingKept DEF Honest, verifierVars
<1>5. Inner' /\ PartialsHonest'
  BY <1>1, SameInner, PartialsKept DEF Honest, Proved, Same, InnerPhase
<1> QED BY <1>3, <1>4, <1>5 DEF Honest, Proved

\* A finished proof has all it should have.
LEMMA DoneFacts ==
  ASSUME JointInv, alteration = "none", Honest, phase = "done"
  PROVE  /\ Len(challenges) = Len(partials) /\ Len(sent.repetitions) = Len(partials)
         /\ Len(partials) \in Nat \ {0}
         /\ DOMAIN partials = 1 .. Len(partials) /\ DOMAIN challenges = 1 .. Len(partials)
         /\ DOMAIN sent.repetitions = 1 .. Len(partials)
         /\ Inner /\ PartialsHonest /\ InnerPhase = "done"
<1>1. PICK S : sent.repetitions \in Seq(S)
  BY DEF JointInv, VectorsAreSequences
<1>2. PICK T : partials \in Seq(T)
  BY DEF JointInv, VectorsAreSequences
<1>3. /\ challenges \in Seq(Party)
      /\ Len(challenges) = Len(partials) /\ Len(sent.repetitions) = Len(partials)
  BY DEF JointInv, VectorsAreSequences, PhasesInOrder, Opened
<1>4. Inner /\ PartialsHonest /\ InnerPhase = "done"
  BY DEF Honest, Proved, InnerPhase
<1>5. ShownProof # << >> /\ ShownProof \in Seq(M!Repetition)
  BY <1>4, Zenon DEF Inner, M!DoneProof, M!HonestInv, M!ProverInv, M!ProverTypeOK
<1>6. Len(ShownProof) # 0
  BY <1>5
<1>7. Len(partials) # 0
  BY <1>2, <1>6, ShownLength
<1> QED BY <1>1, <1>2, <1>3, <1>4, <1>7

\* The fields of the proof as it was sent.
LEMMA HandedFacts ==
  ASSUME Handed
  PROVE  /\ sent.version = PROTOCOL_VERSION /\ sent.backend_id = ProverBackend
         /\ sent.statement = job.statement
<1> DEFINE r == sent.repetitions
<1>1. sent = [version |-> PROTOCOL_VERSION, backend_id |-> ProverBackend,
              statement |-> job.statement, repetitions |-> r]
  BY DEF Handed
<1> HIDE DEF r
<1> QED BY <1>1

LEMMA ThreeLong ==
  ASSUME NEW T, NEW q \in [1 .. 3 -> T]
  PROVE  q \in Seq(T) /\ Len(q) = 3
<1>1. 3 \in Nat
  OBVIOUS
<1> DEFINE n == 3
<1>2. q \in [1 .. n -> T] /\ n \in Nat
  BY <1>1
<1> HIDE DEF n
<1>3. q \in Seq(T)
  BY <1>2
<1>4. DOMAIN q = 1 .. n
  BY <1>2
<1>5. Len(q) = n
  BY <1>2, <1>3, <1>4
<1> QED BY <1>3, <1>5 DEF n

\* Every repetition commits to three views.
LEMMA ThreeCommitments ==
  ASSUME NEW x, NEW i, PartialHonest(x, i)
  PROVE  Len(x.commitments) = 3
<1>1. M!Presents(job, Shown(x, 0, i), i)
  BY DEF PartialHonest, Party
<1>2. PICK views : Shown(x, 0, i).commitments
               = [c \in 1 .. 3 |-> M!commit_view(views[c - 1], M!fresh_randomness(i - 1, c - 1))]
  BY <1>1, Zenon DEF M!Presents, M!RepetitionFrom, M!OpenedFrom
<1>3. Shown(x, 0, i).commitments = x.commitments
  BY DEF Shown, to_inner_repetition, Finish
<1> DEFINE q == [c \in 1 .. 3 |-> M!commit_view(views[c - 1], M!fresh_randomness(i - 1, c - 1))]
           T == {q[c] : c \in 1 .. 3}
<1>4. q \in [1 .. 3 -> T] /\ x.commitments = q
  BY <1>2, <1>3
<1> HIDE DEF T, q
<1>5. q \in Seq(T) /\ Len(q) = 3
  BY <1>4, ThreeLong
<1> QED BY <1>4, <1>5

\* Everything a later step of the verification leaves alone.
LEMMA VerifierLeaves ==
  ASSUME verify_structure \/ derive_again \/ compare_challenges \/ verify_inner \/ conclude
  PROVE  /\ phase' = phase
         /\ UNCHANGED <<job, partials, challenges, sent, repetitionVars, backend, reference>>
         /\ InnerPhase' = InnerPhase
<1>1. checkUnchanged
  BY DEF verify_structure, derive_again, compare_challenges, verify_inner, conclude
<1> QED BY <1>1 DEF checkUnchanged, innerVars, jointVars, InnerPhase, repetitionVars

\* An unchanged proof fails the structural checks only for its backend.
LEMMA StructureStep ==
  ASSUME JointInv, alteration = "none", Honest, verify_structure
  PROVE  Honest'
<1>1. /\ phase = "done" /\ step = "proving" /\ UNCHANGED <<proof, derived, verifierVars>>
  BY DEF verify_structure
<1>2. /\ phase' = phase
      /\ UNCHANGED <<job, partials, challenges, sent, repetitionVars, backend, reference>>
      /\ InnerPhase' = InnerPhase
  BY VerifierLeaves
<1>3. Handed' /\ Inner' /\ PartialsHonest'
  BY <1>1, <1>2, DoneFacts, HandedKept, SameInner, PartialsKept DEF Honest, Same
<1>4. derived = << >> /\ outcome = "none" /\ stage = "start"
      /\ proof_statement_validate(job.statement, job.circuit) = "Ok"
  BY <1>1 DEF Honest, Checking, BeforeVerify
<1>5. CASE backend # ProverBackend
  <2>1. step' = "answered"
    BY <1>5, HandedFacts DEF verify_structure, StructureError, Answer, Honest
  <2>2. Checking' /\ HonestOutcome'
    BY <1>1, <1>2, <1>4, <1>5, <2>1 DEF Checking, BeforeVerify, HonestOutcome
  <2> QED BY <1>3, <2>2 DEF Honest, Proved
<1>6. CASE backend = ProverBackend
  <2>1. \A i \in DOMAIN sent.repetitions : Len(sent.repetitions[i].commitments) = 3
    <3> SUFFICES ASSUME NEW i \in DOMAIN sent.repetitions
                 PROVE  Len(sent.repetitions[i].commitments) = 3
      OBVIOUS
    <3>1. sent.repetitions[i].commitments = partials[i].commitments
      BY DEF JointInv, OpenedAsCommitted
    <3>2. PartialHonest(partials[i], i)
      BY <1>1, DoneFacts DEF PartialsHonest
    <3> QED BY <3>1, <3>2, ThreeCommitments
  <2>2. sent.repetitions # << >>
    BY <1>1, DoneFacts
  <2>3. StructureError = "none"
    BY <1>4, <1>6, <2>1, <2>2, HandedFacts DEF StructureError, Honest
  <2>4. step' = "deriving" /\ outcome' = outcome
    BY <2>3 DEF verify_structure
  <2>5. derived' = << >> /\ << >> \in Seq(Party) /\ Len(<< >>) = 0 /\ 0 <= Len(challenges)
    BY <1>1, <1>4, DoneFacts
  <2>6. Checking' /\ HonestOutcome'
    BY <1>1, <1>2, <1>4, <1>6, <2>4, <2>5 DEF Checking, BeforeVerify, HonestOutcome, verifierVars
  <2> QED BY <1>3, <2>6 DEF Honest, Proved
<1> QED BY <1>5, <1>6

\* The verifier hashes what the prover hashed.
LEMMA SameTranscript ==
  ASSUME JointInv, alteration = "none", Honest, phase = "done"
  PROVE  Sessions(sent.repetitions) = Sessions(partials)
BY DoneFacts DEF Sessions, JointInv, OpenedAsCommitted

\* The questions have been asked before, and the answers are the same.
LEMMA DeriveAgainStep ==
  ASSUME JointInv, alteration = "none", Honest, derive_again
  PROVE  Honest'
<1>1. /\ step = "deriving" /\ step' = step /\ Len(derived) < Len(sent.repetitions)
      /\ UNCHANGED <<proof, outcome, verifierVars>>
  BY DEF derive_again
<1>2. /\ phase' = phase
      /\ UNCHANGED <<job, partials, challenges, sent, repetitionVars, backend, reference>>
      /\ InnerPhase' = InnerPhase
  BY VerifierLeaves
<1>3. /\ phase = "done" /\ backend = ProverBackend /\ derived \in Seq(Party)
      /\ Len(derived) <= Len(challenges)
      /\ \A i \in DOMAIN derived : derived[i] = challenges[i]
  BY <1>1 DEF Honest, Checking, BeforeVerify
<1>4. Handed' /\ Inner' /\ PartialsHonest'
  BY <1>1, <1>2, <1>3, DoneFacts, HandedKept, SameInner, PartialsKept DEF Honest, Same
<1> DEFINE n == Len(derived) + 1
<1>5. n \in DOMAIN challenges /\ n <= Len(challenges)
  BY <1>1, <1>3, DoneFacts
<1>6. PICK h \in Party : Ask(ProverInput(n), h) /\ derived' = Append(derived, h)
  BY <1>1, <1>3, SameTranscript DEF derive_again, ProverInput
<1>7. ProverInput(n) \in DOMAIN oracle /\ challenges[n] = oracle[ProverInput(n)]
  BY <1>5 DEF JointInv, ChallengesFromTranscript, ProverInput
<1>8. h = challenges[n]
  BY <1>6, <1>7 DEF Ask
<1>9. /\ derived' \in Seq(Party) /\ Len(derived') <= Len(challenges)
      /\ \A i \in DOMAIN derived' : derived'[i] = challenges[i]
  BY <1>3, <1>5, <1>6, <1>8
<1>10. Checking' /\ HonestOutcome'
  BY <1>1, <1>2, <1>9 DEF Honest, Checking, BeforeVerify, HonestOutcome, verifierVars
<1> QED BY <1>4, <1>10 DEF Honest, Proved

\* The challenges agree, and the proof is handed to the inner verifier.
LEMMA CompareStep ==
  ASSUME JointInv, alteration = "none", Honest, compare_challenges
  PROVE  Honest'
<1>1. /\ step = "deriving" /\ Len(derived) = Len(sent.repetitions)
      /\ UNCHANGED verifierVars
  BY DEF compare_challenges
<1>2. /\ phase' = phase
      /\ UNCHANGED <<job, partials, challenges, sent, repetitionVars, backend, reference>>
      /\ InnerPhase' = InnerPhase
  BY VerifierLeaves
<1>3. /\ phase = "done" /\ backend = ProverBackend /\ derived \in Seq(Party)
      /\ \A i \in DOMAIN derived : derived[i] = challenges[i]
      /\ outcome = "none" /\ stage = "start"
  BY <1>1 DEF Honest, Checking, BeforeVerify
<1>4. Handed' /\ Inner' /\ PartialsHonest'
  BY <1>1, <1>2, <1>3, DoneFacts, HandedKept, SameInner, PartialsKept DEF Honest, Same
<1>5. DOMAIN derived = DOMAIN sent.repetitions
  BY <1>1, <1>3, DoneFacts
<1>6. ChallengesAgree
  BY <1>3, <1>5 DEF ChallengesAgree, JointInv, OpenedAsCommitted
<1>7. /\ step' = "replaying" /\ outcome' = outcome
      /\ proof' = [i \in DOMAIN sent.repetitions |-> to_inner_repetition(sent.repetitions[i], i - 1)]
  BY <1>6 DEF compare_challenges
<1>8. proof' = ShownProof
  <2>1. DOMAIN sent.repetitions = DOMAIN partials /\ DOMAIN challenges = DOMAIN partials
    BY <1>3, DoneFacts
  <2>2. \A i \in DOMAIN partials :
          to_inner_repetition(sent.repetitions[i], i - 1) = Shown(partials[i], Chosen(i), i)
    BY <2>1 DEF Honest, Handed, Shown, Chosen
  <2> QED BY <1>7, <2>1, <2>2 DEF ShownProof
<1>9. ShownProof' = ShownProof
  BY <1>2, KeptShown DEF Kept
<1>10. Checking' /\ HonestOutcome'
  BY <1>1, <1>2, <1>3, <1>7, <1>8, <1>9 DEF Honest, Checking, BeforeVerify, HonestOutcome
<1> QED BY <1>4, <1>10 DEF Honest, Proved

LEMMA InnerVerifyStep ==
  ASSUME JointInv, alteration = "none", Honest, verify_inner
  PROVE  Honest'
<1>1. step = "replaying" /\ UNCHANGED <<proof, derived, outcome, step>>
  BY DEF verify_inner
<1>2. /\ phase' = phase
      /\ UNCHANGED <<job, partials, challenges, sent, repetitionVars, backend, reference>>
      /\ InnerPhase' = InnerPhase
  BY VerifierLeaves
<1>3. phase = "done" /\ proof = ShownProof
  BY <1>1 DEF Honest, Checking, BeforeVerify
<1>4. Inner'
  BY <1>3, DoneFacts, VerifyStep
<1>5. Handed' /\ PartialsHonest'
  BY <1>2, <1>3, DoneFacts, HandedKept, PartialsKept DEF Honest
<1>6. ShownProof' = ShownProof
  BY <1>2, KeptShown DEF Kept
<1>7. Checking' /\ HonestOutcome'
  BY <1>1, <1>2, <1>6 DEF Honest, Checking, BeforeVerify, HonestOutcome
<1> QED BY <1>4, <1>5, <1>7 DEF Honest, Proved

\* The answer is the verdict of the inner verifier.
LEMMA ConcludeStep ==
  ASSUME JointInv, alteration = "none", Honest, conclude
  PROVE  Honest'
<1>1. /\ step = "replaying" /\ stage = "done" /\ step' = "answered"
      /\ outcome' = CASE verdict = "Valid" -> "Valid"
                      [] verdict = "Invalid" -> "OutputMismatch"
                      [] OTHER -> "VerificationFailed"
      /\ UNCHANGED <<proof, derived, verifierVars>>
  BY DEF conclude, Answer
<1>2. /\ phase' = phase
      /\ UNCHANGED <<job, partials, challenges, sent, repetitionVars, backend, reference>>
      /\ InnerPhase' = InnerPhase
  BY VerifierLeaves
<1>3. phase = "done" /\ proof_statement_validate(job.statement, job.circuit) = "Ok"
  BY <1>1 DEF Honest, Checking, BeforeVerify
<1>4. Handed' /\ Inner' /\ PartialsHonest'
  BY <1>1, <1>2, <1>3, DoneFacts, HandedKept, SameInner, PartialsKept DEF Honest, Same
<1>5. verdict = M!Expected
  BY <1>1, <1>3, DoneFacts DEF Inner, M!HonestSoFar, M!Fresh, M!FollowsHonest, M!Follows, M!AtOpen,
     M!AtView, M!AtOutputs, M!Replaying
<1>6. M!WrongOutputs = WrongOutputs /\ M!SecretOutputs = SecretOutputs
  BY SameDependence DEF M!WrongOutputs, WrongOutputs, M!SecretOutputs, SecretOutputs
<1>7. WrongOutputs' = WrongOutputs /\ SecretOutputs' = SecretOutputs
  BY <1>2 DEF WrongOutputs, SecretOutputs
<1>8. outcome' = IF WrongOutputs \cap SecretOutputs = {} THEN "Valid" ELSE "OutputMismatch"
  BY <1>1, <1>5, <1>6 DEF M!Expected
<1>9. HonestOutcome'
  BY <1>7, <1>8 DEF HonestOutcome
<1>10. Checking'
  BY <1>1, <1>2, <1>3 DEF Checking, BeforeVerify
<1> QED BY <1>4, <1>9, <1>10 DEF Honest, Proved

LEMMA StutterHonest ==
  ASSUME Honest, UNCHANGED vars
  PROVE  Honest'
<1>1. /\ phase' = phase
      /\ UNCHANGED <<job, proof, partials, challenges, sent, repetitionVars, reference, backend,
                     derived, outcome, step, alteration, stage, verifierVars>>
  BY DEF vars, innerVars, jointVars, checkVars, historyVars, verifierVars, repetitionVars
<1>2. Handed'
  BY <1>1, HandedKept DEF Honest
<1>3. Proved'
  BY <1>1, SameInner, PartialsKept DEF Honest, Proved, Same, InnerPhase
<1>4. ShownProof' = ShownProof
  BY <1>1, KeptShown DEF Kept
<1>5. Checking'
  BY <1>1, <1>4 DEF Honest, Checking
<1>6. HonestOutcome'
  BY <1>1 DEF Honest, HonestOutcome, WrongOutputs, SecretOutputs
<1> QED BY <1>2, <1>3, <1>5, <1>6 DEF Honest

LEMMA HonestInit ==
  ASSUME Init
  PROVE  HonestRun
<1>1. Inner /\ PartialsHonest
  BY InnerInit
<1>2. Handed
  BY DEF Init, Handed
<1>3. Checking /\ HonestOutcome
  BY DEF Init, VerifierInit, Checking, BeforeVerify, HonestOutcome
<1> QED BY <1>1, <1>2, <1>3 DEF HonestRun, Honest, Proved

\* Every step keeps the invariant.
LEMMA HonestStep ==
  ASSUME JointInv, HonestRun, [Next]_vars
  PROVE  HonestRun'
<1> SUFFICES ASSUME alteration' = "none" PROVE Honest'
  BY DEF HonestRun
<1>1. JointInv'
  BY JointStep
<1>2. CASE \E kind \in AlterationKinds : Alter(kind)
  BY <1>2, AlterationAssumption DEF Alter
<1>3. CASE Restate
  BY <1>3 DEF Restate
<1>4. CASE \/ prover_new \/ prover_prove \/ InnerNew \/ Simulate \/ commit_phase
           \/ derive_all \/ ChallengesDerived
  <2>1. alteration = "none"
    BY <1>4 DEF prover_new, prover_prove, InnerNew, Simulate, commit_phase, derive_all,
       ChallengesDerived, proverUnchanged, historyVars
  <2> QED BY <1>1, <1>4, <2>1, ProverSteps DEF HonestRun
<1>5. CASE finish_repetition
  <2>1. alteration = "none"
    BY <1>5 DEF finish_repetition, historyVars
  <2> QED BY <1>1, <1>5, <2>1, OpeningStep DEF HonestRun
<1>6. CASE verify_structure \/ derive_again \/ compare_challenges \/ verify_inner \/ conclude
  <2>1. alteration = "none"
    BY <1>6 DEF verify_structure, derive_again, compare_challenges, verify_inner, conclude,
       checkUnchanged
  <2> QED BY <1>6, <2>1, StructureStep, DeriveAgainStep, CompareStep, InnerVerifyStep, ConcludeStep
          DEF HonestRun
<1>7. CASE UNCHANGED vars
  <2>1. alteration = "none"
    BY <1>7 DEF vars, historyVars
  <2> QED BY <1>7, <2>1, StutterHonest DEF HonestRun
<1> QED BY <1>2, <1>3, <1>4, <1>5, <1>6, <1>7 DEF Next

(* Completeness of the non-interactive proof, for every commutative ring,       *)
(* circuit, statement, witness, number of repetitions and behaviour of the       *)
(* hash: Verifier::verify of an unchanged proof under the prover's backend       *)
(* returns no structural error and no ChallengeMismatch, and no error of the     *)
(* replay; it is Valid exactly when every secret-dependent output is the         *)
(* expected one, and OutputMismatch otherwise.                                   *)
THEOREM JointHonestOutcome == Spec => []HonestOutcome
<1>1. Init => JointInv /\ HonestRun
  BY InitJoint, HonestInit
<1>2. JointInv /\ HonestRun /\ [Next]_vars => (JointInv /\ HonestRun)'
  BY JointStep, HonestStep
<1>3. HonestRun => HonestOutcome
  BY DEF HonestRun, Honest, HonestOutcome
<1> QED BY <1>1, <1>2, <1>3, PTL DEF Spec
-----------------------------------------------------------------------------
(* What the instance says of a repetition is what MpcithReplay says of it. *)

LEMMA SamePositions ==
  /\ \A j, i : M!nodeOf(j, i) = nodeOf(j, i)
  /\ \A j, p, w, i : M!Recorded(j, p, w, i) = Recorded(j, p, w, i)
  /\ \A j, w, i : M!Multiplied(j, w, i) = Multiplied(j, w, i)
  /\ \A j, op, i : M!InputPosition(j, op, i) = InputPosition(j, op, i)
  /\ \A j, p, w, i : M!OpPosition(j, p, w, i) = OpPosition(j, p, w, i)
  /\ \A j, w, i : M!TriplePosition(j, w, i) = TriplePosition(j, w, i)
<1>1. \A j, i : M!nodeOf(j, i) = nodeOf(j, i)
  BY DEF M!nodeOf, nodeOf
<1>2. \A j, p, w, i : M!Recorded(j, p, w, i) = Recorded(j, p, w, i)
  BY <1>1 DEF M!Recorded, Recorded, M!IsGate, IsGate
<1>3. \A j, w, i : M!Multiplied(j, w, i) = Multiplied(j, w, i)
  BY <1>1 DEF M!Multiplied, Multiplied
<1>4. \A j, op, i : M!InputPosition(j, op, i) = InputPosition(j, op, i)
  BY SameCardinality DEF M!InputPosition, InputPosition, M!LeavesBefore, LeavesBefore
<1>5. \A j, p, w, i : M!OpPosition(j, p, w, i) = OpPosition(j, p, w, i)
  BY <1>2, SameCardinality DEF M!OpPosition, OpPosition, M!RecordedBefore, RecordedBefore
<1>6. \A j, w, i : M!TriplePosition(j, w, i) = TriplePosition(j, w, i)
  BY <1>3, SameCardinality DEF M!TriplePosition, TriplePosition, M!MultipliedBefore, MultipliedBefore
<1> QED BY <1>1, <1>2, <1>3, <1>4, <1>5, <1>6

LEMMA SameNodes ==
  \A j, v, g, w, i : M!NodeReplays(j, v, g, w, i) <=> NodeReplays(j, v, g, w, i)
<1> USE SamePositions
<1>1. ASSUME NEW j, NEW v, NEW w, NEW i
      PROVE  M!LeafReplays(j, v, w, i) <=> LeafReplays(j, v, w, i)
  <2>1. PICK n : n = nodeOf(j, i) /\ M!nodeOf(j, i) = n
    OBVIOUS
  <2>2. PICK s : s = InputPosition(j, "SecretInput", i) /\ M!InputPosition(j, "SecretInput", i) = s
    OBVIOUS
  <2>3. PICK p : p = InputPosition(j, "PublicInput", i) /\ M!InputPosition(j, "PublicInput", i) = p
    OBVIOUS
  <2> QED BY <2>1, <2>2, <2>3 DEF M!LeafReplays, LeafReplays
<1>2. \A p, a, b, c, d, e : M!beaver_share(p, a, b, c, d, e) = beaver_share(p, a, b, c, d, e)
  BY DEF M!beaver_share, beaver_share, M!Absorb, Absorb
<1>3. \A x, y : M!Minus(x, y) = Minus(x, y)
  BY DEF M!Minus, Minus
<1>4. ASSUME NEW j, NEW v, NEW g, NEW w, NEW i
      PROVE  M!BeaverReplays(j, v, g, w, i) <=> BeaverReplays(j, v, g, w, i)
  <2>1. PICK n : n = nodeOf(j, i) /\ M!nodeOf(j, i) = n
    OBVIOUS
  <2>2. PICK t : t = TriplePosition(j, w, i) /\ M!TriplePosition(j, w, i) = t
    OBVIOUS
  <2>3. PICK x, y : /\ x = Minus(w[n.a].v, v.triple_shares[t].a)
                    /\ y = Minus(w[n.b].v, v.triple_shares[t].b)
                    /\ x = M!Minus(w[n.a].v, v.triple_shares[t].a)
                    /\ y = M!Minus(w[n.b].v, v.triple_shares[t].b)
    BY <1>3
  <2>4. PICK z : /\ z = beaver_share(v.party_id, v.triple_shares[t].a, v.triple_shares[t].b,
                                     v.triple_shares[t].c, g[2 * t - 1], g[2 * t])
                 /\ z = M!beaver_share(v.party_id, v.triple_shares[t].a, v.triple_shares[t].b,
                                       v.triple_shares[t].c, g[2 * t - 1], g[2 * t])
    BY <1>2
  <2> QED BY <2>1, <2>2, <2>3, <2>4 DEF M!BeaverReplays, BeaverReplays
<1>5. \A p, x, y : M!AddVal(p, x, y) = AddVal(p, x, y) /\ M!MulVal(x, y) = MulVal(x, y)
  BY DEF M!AddVal, AddVal, M!MulVal, MulVal
<1>6. \A j, v, g, w, i : M!GateReplays(j, v, g, w, i) <=> GateReplays(j, v, g, w, i)
  BY <1>4, <1>5 DEF M!GateReplays, GateReplays
<1>7. \A j, g, w, i : M!ExpectedOp(j, g, w, i) = ExpectedOp(j, g, w, i)
  BY DEF M!ExpectedOp, ExpectedOp, M!AddOp, AddOp, M!MulPublicOp, MulPublicOp, M!BeaverMulOp,
     BeaverMulOp
<1>8. \A j, v, g, w, i : M!RecordReplays(j, v, g, w, i) <=> RecordReplays(j, v, g, w, i)
  BY <1>7 DEF M!RecordReplays, RecordReplays
<1> QED BY <1>1, <1>6, <1>8 DEF M!NodeReplays, NodeReplays

LEMMA SameRepetitions ==
  \A j, r, n, vs, w, ref : M!RepetitionFrom(j, r, n, vs, w, ref) => RepetitionFrom(j, r, n, vs, w, ref)
<1> USE SamePositions, SameTypes
<1>0. M!PartyView = PartyView
  BY DEF M!PartyView, PartyView, M!Party, Party, M!LocalOperation, LocalOperation, M!TripleShare,
     TripleShare, M!NodeId, NodeId
<1>1. \A j, v, g, w : M!ViewReplays(j, v, g, w) = ViewReplays(j, v, g, w)
  BY SameNodes DEF M!ViewReplays, ViewReplays, M!LocalVal, LocalVal
<1>2. \A s : M!Sum3(s) = Sum3(s)
  BY DEF M!Sum3, Sum3
<1>3. \A vs : M!MasksOf(vs) = MasksOf(vs)
  BY <1>2 DEF M!MasksOf, MasksOf
<1>4. \A j, ref : M!IsReference(j, ref) = IsReference(j, ref)
  BY DEF M!IsReference, IsReference, M!ReferenceNode, ReferenceNode
<1>5. \A j, w, ref : M!SharesReference(j, w, ref) = SharesReference(j, w, ref)
  BY <1>2, <1>4, SameDependence DEF M!SharesReference, SharesReference
<1>6. \A h : M!others(h) = others(h)
  BY DEF M!others, others
<1>7. \A v, x : M!commit_view(v, x) = commit_view(v, x) /\ M!fresh_randomness(v, x) = fresh_randomness(v, x)
  BY DEF M!commit_view, commit_view, M!fresh_randomness, fresh_randomness
<1>8. ASSUME NEW j, NEW r, NEW n, NEW vs, NEW w, NEW ref, M!OpenedFrom(j, r, n, vs, w, ref)
      PROVE  OpenedFrom(j, r, n, vs, w, ref)
  BY <1>0, <1>1, <1>3, <1>5, <1>6, <1>7, <1>8 DEF M!OpenedFrom, OpenedFrom
<1>9. \A j, r, vs, w : M!HiddenFrom(j, r, vs, w) = HiddenFrom(j, r, vs, w)
  BY DEF M!HiddenFrom, HiddenFrom
<1> QED BY <1>8, <1>9 DEF M!RepetitionFrom, RepetitionFrom

(* The proof leaves the prover.                                            *)

Departing == JointInv /\ HonestRun /\ OracleAsked /\ InTransit

LEMMA DepartingFacts ==
  ASSUME Departing
  PROVE  /\ alteration = "none" /\ Honest /\ phase = "done" /\ step = "proving"
         /\ derived = << >> /\ fresh = 0 /\ outcome = "none" /\ Fresh
         /\ job \in Job /\ proof_statement_validate(job.statement, job.circuit) = "Ok"
         /\ \A q \in DOMAIN oracle : \E i \in DOMAIN challenges : q = ProverInput(i)
<1>1. alteration = "none" /\ phase = "done" /\ step = "proving" /\ JointInv /\ Honest
  BY DEF Departing, InTransit, HonestRun
<1>2. /\ derived = << >> /\ outcome = "none" /\ stage = "start"
      /\ proof_statement_validate(job.statement, job.circuit) = "Ok"
  BY <1>1 DEF Honest, Checking, BeforeVerify
<1>3. /\ fresh = 0
      /\ \A q \in DOMAIN oracle : \E i \in DOMAIN challenges : q = ProverInput(i)
  BY <1>1 DEF Departing, OracleAsked, BeforeVerify
<1>4. M!HonestSoFar
  BY <1>1, DoneFacts DEF Inner
<1>5. M!Fresh
  BY <1>2, <1>4 DEF M!HonestSoFar, M!Follows, M!FollowsHonest, M!AtOpen, M!AtView, M!AtOutputs,
     M!Replaying
<1>6. Fresh
  BY <1>5 DEF M!Fresh, Fresh, M!Idle, Idle, M!ZeroCursor, ZeroCursor
<1>7. job \in Job
  BY <1>1, JobsAssumption DEF JointInv
<1> QED BY <1>1, <1>2, <1>3, <1>6, <1>7

\* The hash has answered nothing for another backend, statement or transcript.
LEMMA NewQuestions ==
  ASSUME Departing, transitUnchanged,
         \/ backend # ProverBackend
         \/ job'.statement # job.statement
         \/ Sessions(sent'.repetitions) # Sessions(partials)
  PROVE  Rederived'
<1>1. UNCHANGED <<oracle, backend, derived, outcome, step, fresh>>
  BY DEF transitUnchanged, checkVars
<1>2. ASSUME NEW i \in Nat
      PROVE  VerifierInput(i)' \notin DOMAIN oracle
  <2> SUFFICES ASSUME VerifierInput(i)' \in DOMAIN oracle
               PROVE  FALSE
    OBVIOUS
  <2>1. PICK k \in DOMAIN challenges : VerifierInput(i)' = ProverInput(k)
    BY DepartingFacts
  <2>2. VerifierInput(i)' = fs_input(backend, job'.statement, Sessions(sent'.repetitions), i)
    BY <1>1 DEF VerifierInput, fs_input, Sessions
  <2> DEFINE s == job'.statement
             x == sent'.repetitions
  <2>3. fs_input(backend, s, Sessions(x), i) = fs_input(ProverBackend, job.statement, Sessions(partials), k)
    BY <2>1, <2>2 DEF ProverInput
  <2>4. backend = ProverBackend /\ s = job.statement /\ Sessions(x) = Sessions(partials)
    <3> HIDE DEF s, x
    <3> QED BY <2>3, InputInjective
  <2> QED BY <2>4
<1>3. derived' \in Seq(Party) /\ fresh' = Len(derived') /\ step' = "proving" /\ outcome' = "none"
  <2>1. << >> \in Seq(Party) /\ Len(<< >>) = 0
    OBVIOUS
  <2> QED BY <1>1, <2>1, DepartingFacts
<1> QED BY <1>1, <1>2, <1>3 DEF Rederived

LEMMA NewMisfit ==
  ASSUME Departing, transitUnchanged, StructureError' # "none"
  PROVE  Misfit'
<1>1. UNCHANGED <<outcome, step>>
  BY DEF transitUnchanged, checkVars
<1> QED BY <1>1, DepartingFacts DEF Misfit

\* What the structural checks insist on.
LEMMA StructureFits ==
  StructureError = "none" =>
    sent.backend_id = backend /\ sent.version = PROTOCOL_VERSION /\ sent.statement = job.statement
BY DEF StructureError, proof_statement_validate

\* The repetitions of a finished proof.
LEMMA DepartingRepetitions ==
  ASSUME Departing
  PROVE  /\ \E S : sent.repetitions \in Seq(S)
         /\ DOMAIN sent.repetitions = 1 .. Len(sent.repetitions)
         /\ Len(sent.repetitions) \in Nat \ {0}
         /\ Sessions(sent.repetitions) = Sessions(partials)
         /\ sent = [version |-> PROTOCOL_VERSION, backend_id |-> ProverBackend,
                    statement |-> job.statement, repetitions |-> sent.repetitions]
         /\ \A i \in DOMAIN sent.repetitions :
              /\ sent.repetitions[i] = Finish(partials[i], challenges[i])
              /\ challenges[i] \in Party
              /\ PartialHonest(partials[i], i)
              /\ i \in Nat \ {0}
<1>1. JointInv /\ alteration = "none" /\ Honest /\ phase = "done"
  BY DepartingFacts DEF Departing
<1>2. \E S : sent.repetitions \in Seq(S)
  BY <1>1 DEF JointInv, VectorsAreSequences
<1>3. /\ DOMAIN sent.repetitions = 1 .. Len(sent.repetitions)
      /\ Len(sent.repetitions) \in Nat \ {0}
      /\ DOMAIN sent.repetitions = DOMAIN partials
      /\ DOMAIN sent.repetitions = DOMAIN challenges
      /\ PartialsHonest
  BY <1>1, DoneFacts
<1>4. challenges \in Seq(Party)
  BY <1>1 DEF JointInv, VectorsAreSequences
<1>5. \A i \in DOMAIN sent.repetitions :
        /\ challenges[i] \in Party
        /\ PartialHonest(partials[i], i)
        /\ i \in Nat \ {0}
  BY <1>3, <1>4 DEF PartialsHonest
<1> QED BY <1>1, <1>2, <1>3, <1>5, SameTranscript DEF Honest, Handed

\* One repetition of the proof changed.
LEMMA OneChanged ==
  ASSUME Departing, NEW i \in DOMAIN sent.repetitions, NEW rs, NEW n \in WithRepetition(i, rs)
  PROVE  \E r2 \in rs : n.repetitions = [sent.repetitions EXCEPT ![i] = r2]
<1>1. PICK r2 \in rs : n = [sent EXCEPT !.repetitions[i] = r2]
  BY DEF WithRepetition
<1>2. "repetitions" \in DOMAIN sent
  BY DepartingRepetitions
<1> QED BY <1>1, <1>2

\* Repetition r changed in one respect.
OtherRepetition(kind, r, r2) ==
  \/ kind = "challenge" /\ \E h \in Party \ {r.challenge} : r2 = [r EXCEPT !.challenge = h]
  \/ kind = "commitment" /\ \E c \in 1 .. 3 : r2 = [r EXCEPT !.commitments[c].randomness.repetition = @ + 1]
  \/ kind = "missing_commitment" /\ r2 = [r EXCEPT !.commitments = Tail(@)]
  \/ /\ kind = "view"
     /\ \E v \in 1 .. 2 : \E s \in Bumped(r.opened_views[v].input_shares) :
          r2 = [r EXCEPT !.opened_views[v].input_shares = s]
  \/ kind = "opening" /\ r2 = [r EXCEPT !.opening_randomness = <<@[2], @[1]>>]
  \/ kind = "output_share" /\ \E s \in Bumped(r.hidden_output_shares) : r2 = [r EXCEPT !.hidden_output_shares = s]
  \/ kind = "broadcast" /\ \E s \in Bumped(r.hidden_broadcasts) : r2 = [r EXCEPT !.hidden_broadcasts = s]

RepetitionKinds ==
  {"challenge", "commitment", "missing_commitment", "view", "opening",
   "output_share", "broadcast"}

LEMMA OtherRepetitions ==
  ASSUME Departing, NEW kind \in RepetitionKinds, NEW n \in AlteredProofs(kind)
  PROVE  \E i \in DOMAIN sent.repetitions : \E r2 :
           /\ n.repetitions = [sent.repetitions EXCEPT ![i] = r2]
           /\ OtherRepetition(kind, sent.repetitions[i], r2)
<1> DEFINE reps == sent.repetitions
<1>1. \E i \in DOMAIN reps : \E rs :
        /\ n \in WithRepetition(i, rs)
        /\ \A r2 \in rs : OtherRepetition(kind, reps[i], r2)
  <2>1. CASE kind = "challenge"
    <3> DEFINE Challenge(r) == {[r EXCEPT !.challenge = h] : h \in Party \ {r.challenge}}
    <3>1. PICK i \in DOMAIN reps : n \in WithRepetition(i, Challenge(reps[i]))
      BY <2>1 DEF AlteredProofs
    <3>2. \A r : \A r2 \in Challenge(r) : OtherRepetition(kind, r, r2)
      BY <2>1 DEF OtherRepetition
    <3> HIDE DEF Challenge
    <3> QED BY <3>1, <3>2
  <2>2. CASE kind = "commitment"
    <3> DEFINE Commitment(r) == {[r EXCEPT !.commitments[c].randomness.repetition = @ + 1] : c \in 1 .. 3}
    <3>1. PICK i \in DOMAIN reps : n \in WithRepetition(i, Commitment(reps[i]))
      BY <2>2 DEF AlteredProofs
    <3>2. \A r : \A r2 \in Commitment(r) : OtherRepetition(kind, r, r2)
      BY <2>2 DEF OtherRepetition
    <3> HIDE DEF Commitment
    <3> QED BY <3>1, <3>2
  <2>3. CASE kind = "missing_commitment"
    <3> DEFINE MissingCommitment(r) == {[r EXCEPT !.commitments = Tail(@)]}
    <3>1. PICK i \in DOMAIN reps : n \in WithRepetition(i, MissingCommitment(reps[i]))
      BY <2>3 DEF AlteredProofs
    <3>2. \A r : \A r2 \in MissingCommitment(r) : OtherRepetition(kind, r, r2)
      BY <2>3 DEF OtherRepetition
    <3> HIDE DEF MissingCommitment
    <3> QED BY <3>1, <3>2
  <2>4. CASE kind = "view"
    <3> DEFINE Views(r) == UNION {{[r EXCEPT !.opened_views[v].input_shares = s] :
                                      s \in Bumped(r.opened_views[v].input_shares)} : v \in 1 .. 2}
    <3>1. PICK i \in DOMAIN reps : n \in WithRepetition(i, Views(reps[i]))
      BY <2>4 DEF AlteredProofs
    <3>2. \A r : \A r2 \in Views(r) : OtherRepetition(kind, r, r2)
      BY <2>4 DEF OtherRepetition
    <3> HIDE DEF Views
    <3> QED BY <3>1, <3>2
  <2>5. CASE kind = "opening"
    <3> DEFINE Opening(r) == {[r EXCEPT !.opening_randomness = <<@[2], @[1]>>]}
    <3>1. PICK i \in DOMAIN reps : n \in WithRepetition(i, Opening(reps[i]))
      BY <2>5 DEF AlteredProofs
    <3>2. \A r : \A r2 \in Opening(r) : OtherRepetition(kind, r, r2)
      BY <2>5 DEF OtherRepetition
    <3> HIDE DEF Opening
    <3> QED BY <3>1, <3>2
  <2>6. CASE kind = "output_share"
    <3> DEFINE OutputShare(r) == {[r EXCEPT !.hidden_output_shares = s] : s \in Bumped(r.hidden_output_shares)}
    <3>1. PICK i \in DOMAIN reps : n \in WithRepetition(i, OutputShare(reps[i]))
      BY <2>6 DEF AlteredProofs
    <3>2. \A r : \A r2 \in OutputShare(r) : OtherRepetition(kind, r, r2)
      BY <2>6 DEF OtherRepetition
    <3> HIDE DEF OutputShare
    <3> QED BY <3>1, <3>2
  <2>7. CASE kind = "broadcast"
    <3> DEFINE Broadcast(r) == {[r EXCEPT !.hidden_broadcasts = s] : s \in Bumped(r.hidden_broadcasts)}
    <3>1. PICK i \in DOMAIN reps : n \in WithRepetition(i, Broadcast(reps[i]))
      BY <2>7 DEF AlteredProofs
    <3>2. \A r : \A r2 \in Broadcast(r) : OtherRepetition(kind, r, r2)
      BY <2>7 DEF OtherRepetition
    <3> HIDE DEF Broadcast
    <3> QED BY <3>1, <3>2
  <2> QED BY <2>1, <2>2, <2>3, <2>4, <2>5, <2>6, <2>7 DEF RepetitionKinds
<1>2. PICK i \in DOMAIN reps :
        \E rs : n \in WithRepetition(i, rs) /\ \A r2 \in rs : OtherRepetition(kind, reps[i], r2)
  BY <1>1
<1>3. PICK rs : n \in WithRepetition(i, rs) /\ \A r2 \in rs : OtherRepetition(kind, reps[i], r2)
  BY <1>2
<1>4. \E r2 \in rs : n.repetitions = [reps EXCEPT ![i] = r2]
  BY <1>3, OneChanged
<1> QED BY <1>3, <1>4

\* A repetition as it was sent, and the evaluation that it presents.
LEMMA DepartingFields ==
  ASSUME Departing, NEW i \in DOMAIN sent.repetitions, NEW r, r = sent.repetitions[i]
  PROVE  /\ r = [commitments |-> r.commitments, challenge |-> r.challenge,
                 opened_views |-> r.opened_views, opening_randomness |-> r.opening_randomness,
                 hidden_broadcasts |-> r.hidden_broadcasts,
                 hidden_output_shares |-> r.hidden_output_shares]
         /\ DOMAIN r.opened_views = 1 .. 2
         /\ r.opening_randomness = [x \in 1 .. 2 |-> r.opening_randomness[x]]
BY DepartingRepetitions DEF Finish

LEMMA DepartingSent ==
  ASSUME Departing, NEW i \in DOMAIN sent.repetitions, NEW r, r = sent.repetitions[i]
  PROVE  \E views, w, ref :
           /\ Sent(to_inner_repetition(r, i - 1), i, views, w, ref)
           /\ WrongOutputs = {} => Right(ref)
<1> DEFINE R == to_inner_repetition(r, i - 1)
<1>1. R = Shown(partials[i], challenges[i], i)
  BY DepartingRepetitions DEF Shown
<1>2. /\ challenges[i] \in Party /\ PartialHonest(partials[i], i) /\ i \in Nat \ {0}
  BY DepartingRepetitions
<1>3. R \in Repetition /\ M!Presents(job, R, i)
  BY <1>1, <1>2 DEF PartialHonest
<1> HIDE DEF R
<1>4. PICK views, w, ref : M!RepetitionFrom(job, R, i, views, w, ref)
  BY <1>3, Zenon DEF M!Presents
<1>5. RepetitionFrom(job, R, i, views, w, ref)
  BY <1>4, SameRepetitions
<1>6. Checked(job)
  BY DepartingFacts DEF Checked, proof_statement_validate, Job
<1>7. M!HonestInv /\ InnerPhase = "done"
  BY DepartingFacts, DoneFacts DEF Inner, Departing
<1>8. M!OpenedFrom(job, R, i, views, w, ref)
  BY <1>4 DEF M!RepetitionFrom
<1>9. ref = reference
  BY <1>7, <1>8, M!SameReference, InnerJobs, FieldClosed, PlusGroup, TimesMonoid, Distributive,
     OneNotZero, Zenon
<1>10. WrongOutputs = {} => Right(ref)
  BY <1>9 DEF WrongOutputs, Right
<1>11. Sent(R, i, views, w, ref)
  BY <1>2, <1>3, <1>5, <1>6 DEF Sent
<1> QED BY <1>10, <1>11 DEF R

\* A repetition that cannot be accepted has taken the place of the i-th.
LEMMA SpoiledRefutes ==
  ASSUME Departing, transitUnchanged, job' = job,
         NEW i \in DOMAIN sent.repetitions, NEW r2,
         sent'.repetitions = [sent.repetitions EXCEPT ![i] = r2],
         WrongOutputs = {} => Spoiled(to_inner_repetition(r2, i - 1), i)
  PROVE  Refuted'
<1> DEFINE n == Len(sent.repetitions)
           pf == InnerProof'
<1>1. n \in Nat /\ DOMAIN sent.repetitions = 1 .. n
  BY DepartingRepetitions
<1>2. UNCHANGED <<outcome, step, reference, verifierVars>>
  BY DEF transitUnchanged, checkVars, innerVars, repetitionVars
<1>3. Fresh' /\ step' = "proving" /\ outcome' = "none"
  BY <1>2, DepartingFacts DEF Fresh, Idle, verifierVars
<1>4. WrongOutputs' = WrongOutputs
  BY <1>2 DEF WrongOutputs
<1>5. /\ DOMAIN sent'.repetitions = 1 .. n
      /\ sent'.repetitions[i] = r2
  BY <1>1
<1>6. pf = [k \in 1 .. n |-> to_inner_repetition(sent'.repetitions[k], k - 1)]
  BY <1>5 DEF InnerProof, to_inner_repetition
<1>7. pf[i] = to_inner_repetition(r2, i - 1)
  BY <1>1, <1>5, <1>6
<1>8. Len(pf) = n
  <2> DEFINE T == {pf[k] : k \in 1 .. n}
  <2>1. pf \in [1 .. n -> T] /\ DOMAIN pf = 1 .. n
    BY <1>6
  <2> HIDE DEF pf, T, n
  <2>2. pf \in Seq(T)
    BY <1>1, <2>1
  <2> QED BY <1>1, <2>1, <2>2
<1>9. ASSUME WrongOutputs = {} PROVE Doomed(InnerProof)'
  <2>1. PICK q : q = pf
    OBVIOUS
  <2>2. Spoiled(q[i], i) /\ Len(q) = n
    BY <1>7, <1>8, <1>9, <2>1
  <2>3. Doomed(q)
    BY <1>1, <2>2 DEF Doomed
  <2>4. Doomed(q)'
    BY <2>3, DoomedKept
  <2> QED BY <2>1, <2>4 DEF Doomed
<1> QED BY <1>3, <1>4, <1>9 DEF Refuted

\* An opened view that changed.
LEMMA ViewRefutes ==
  ASSUME Departing, NEW i \in DOMAIN sent.repetitions, NEW r, r = sent.repetitions[i], NEW r2,
         NEW v \in 1 .. 2, NEW s \in Bumped(r.opened_views[v].input_shares),
         r2 = [r EXCEPT !.opened_views[v].input_shares = s]
  PROVE  Spoiled(to_inner_repetition(r2, i - 1), i)
<1> DEFINE R == to_inner_repetition(r, i - 1)
           R2 == to_inner_repetition(r2, i - 1)
           x == r.opened_views[v]
<1>1. PICK views, w, ref : Sent(R, i, views, w, ref)
  BY DepartingSent
<1>2. DOMAIN r.opened_views = 1 .. 2
  BY DepartingFields
<1>3. R.opened_views[v] \in OpenedView
  <2> HIDE DEF R
  <2> QED BY <1>1, SentViews
<1>4. R.opened_views[v].view = x
  BY <1>2 DEF to_inner_repetition
<1>5. x \in PartyView
  BY <1>3, <1>4 DEF OpenedView
<1>6. x.input_shares \in Seq(F)
  BY <1>5, ViewTypes
<1>7. s # x.input_shares
  BY <1>6, BumpedDiffers
<1>8. /\ r2.opened_views = [r.opened_views EXCEPT ![v].input_shares = s]
      /\ r2.commitments = r.commitments
  BY DepartingFields
<1>9. r2.opened_views[v] = [x EXCEPT !.input_shares = s] /\ DOMAIN r2.opened_views = 1 .. 2
  BY <1>2, <1>8
<1>10. r2.opened_views[v].input_shares = s /\ r2.opened_views[v].party_id = x.party_id
  BY <1>5, <1>9 DEF PartyView
<1>11. R2.opened_views[v].view = r2.opened_views[v]
  BY <1>9 DEF to_inner_repetition
<1>12. R2.commitments = R.commitments
  BY <1>8 DEF to_inner_repetition
<1>13. R2.opened_views[v].view.party_id = R.opened_views[v].view.party_id
  BY <1>4, <1>10, <1>11
<1>14. R2.opened_views[v].view # R.opened_views[v].view
  BY <1>4, <1>7, <1>10, <1>11
<1> HIDE DEF R, R2
<1>15. ~Opens(R2, i)
  BY <1>1, <1>12, <1>13, <1>14, UnboundView
<1> QED BY <1>15 DEF Spoiled, R2

\* The randomness of the two openings swapped.
LEMMA OpeningRefutes ==
  ASSUME Departing, NEW i \in DOMAIN sent.repetitions, NEW r, r = sent.repetitions[i], NEW r2,
         r2 = [r EXCEPT !.opening_randomness = <<@[2], @[1]>>]
  PROVE  Spoiled(to_inner_repetition(r2, i - 1), i)
<1> DEFINE R == to_inner_repetition(r, i - 1)
           R2 == to_inner_repetition(r2, i - 1)
<1>1. PICK views, w, ref : Sent(R, i, views, w, ref)
  BY DepartingSent
<1>2. DOMAIN r.opened_views = 1 .. 2
  BY DepartingFields
<1>3. /\ r2.opened_views = r.opened_views /\ r2.commitments = r.commitments
      /\ r2.opening_randomness[1] = r.opening_randomness[2]
  BY DepartingFields
<1>4. /\ \A x \in 1 .. 2 : /\ R.opened_views[x].view = r.opened_views[x]
                           /\ R.opened_views[x].randomness = r.opening_randomness[x]
      /\ R2.opened_views[1].view = r.opened_views[1]
      /\ R2.opened_views[1].randomness = r.opening_randomness[2]
      /\ R2.commitments = R.commitments
  BY <1>2, <1>3 DEF to_inner_repetition
<1> HIDE DEF R, R2
<1>5. \A x \in 1 .. 2 : /\ R.opened_views[x].randomness = fresh_randomness(i - 1, others(R.challenge)[x])
                        /\ R.challenge \in Party
  BY <1>1, SentViews
<1>6. others(R.challenge)[1] # others(R.challenge)[2]
  BY <1>5 DEF others, Party
<1>7. R.opened_views[1].randomness # R.opened_views[2].randomness
  BY <1>5, <1>6 DEF fresh_randomness
<1>8. ~Opens(R2, i)
  BY <1>1, <1>4, <1>7, UnboundView
<1> QED BY <1>8 DEF Spoiled, R2

\* What the proof says of the hidden party changed.
LEMMA HiddenRefutes ==
  ASSUME Departing, NEW i \in DOMAIN sent.repetitions, NEW r, r = sent.repetitions[i], NEW r2,
         \/ \E s \in Bumped(r.hidden_output_shares) : r2 = [r EXCEPT !.hidden_output_shares = s]
         \/ \E s \in Bumped(r.hidden_broadcasts) : r2 = [r EXCEPT !.hidden_broadcasts = s],
         WrongOutputs = {}
  PROVE  Spoiled(to_inner_repetition(r2, i - 1), i)
<1> DEFINE R == to_inner_repetition(r, i - 1)
           R2 == to_inner_repetition(r2, i - 1)
<1>1. PICK views, w, ref : Sent(R, i, views, w, ref) /\ Right(ref)
  BY DepartingSent
<1>2. R.hidden_output_shares = r.hidden_output_shares /\ R.hidden_broadcasts = r.hidden_broadcasts
  BY DEF to_inner_repetition
<1>3. R.hidden_broadcasts \in Seq(F) /\ R.hidden_output_shares \in Seq(F)
  <2> HIDE DEF R
  <2> QED BY <1>1, SentFacts
<1>4. CASE \E s \in Bumped(r.hidden_output_shares) : r2 = [r EXCEPT !.hidden_output_shares = s]
  <2>1. PICK s \in Bumped(r.hidden_output_shares) : r2 = [r EXCEPT !.hidden_output_shares = s]
    BY <1>4
  <2>2. \E k \in DOMAIN R.hidden_output_shares :
          s = [R.hidden_output_shares EXCEPT ![k] = Plus(R.hidden_output_shares[k], One)]
    BY <1>2, <1>3, BumpedDiffers
  <2>3. /\ r2.commitments = r.commitments /\ r2.challenge = r.challenge
        /\ r2.opened_views = r.opened_views /\ r2.opening_randomness = r.opening_randomness
        /\ r2.hidden_broadcasts = r.hidden_broadcasts /\ r2.hidden_output_shares = s
    BY <2>1, DepartingFields
  <2>4. SameOpening(R, R2) /\ R2.hidden_output_shares = s
    BY <1>2, <1>3, <2>3 DEF SameOpening, to_inner_repetition
  <2> HIDE DEF R, R2
  <2>5. Spoiled(R2, i)
    BY <1>1, <2>2, <2>4, OutputShareSpoils
  <2> QED BY <2>5 DEF R2
<1>5. CASE \E s \in Bumped(r.hidden_broadcasts) : r2 = [r EXCEPT !.hidden_broadcasts = s]
  <2>1. PICK s \in Bumped(r.hidden_broadcasts) : r2 = [r EXCEPT !.hidden_broadcasts = s]
    BY <1>5
  <2>2. /\ s \in Seq(F)
        /\ \E k \in DOMAIN R.hidden_broadcasts :
             s = [R.hidden_broadcasts EXCEPT ![k] = Plus(R.hidden_broadcasts[k], One)]
    BY <1>2, <1>3, BumpedDiffers
  <2>3. /\ r2.commitments = r.commitments /\ r2.challenge = r.challenge
        /\ r2.opened_views = r.opened_views /\ r2.opening_randomness = r.opening_randomness
        /\ r2.hidden_broadcasts = s
    BY <2>1, DepartingFields
  <2>4. SameOpening(R, R2) /\ R2.hidden_broadcasts = s
    BY <2>2, <2>3 DEF SameOpening, to_inner_repetition
  <2> HIDE DEF R, R2
  <2>5. Spoiled(R2, i)
    BY <1>1, <2>2, <2>4, BroadcastsSpoil
  <2> QED BY <2>5 DEF R2
<1> QED BY <1>4, <1>5

\* The commitments of a repetition name it.
LEMMA DepartingCommitments ==
  ASSUME Departing, NEW i \in DOMAIN sent.repetitions, NEW r, r = sent.repetitions[i]
  PROVE  /\ r.commitments \in Seq(ViewCommitment) /\ Len(r.commitments) = 3
         /\ \A c \in 1 .. 3 : r.commitments[c].randomness.repetition = i - 1
<1> DEFINE R == to_inner_repetition(r, i - 1)
<1>1. PICK views, w, ref : Sent(R, i, views, w, ref)
  BY DepartingSent
<1>2. R.commitments = r.commitments
  BY DEF to_inner_repetition
<1> HIDE DEF R
<1>3. /\ R.commitments \in Seq(ViewCommitment)
      /\ R.commitments = [c \in 1 .. 3 |-> commit_view(views[c - 1], fresh_randomness(i - 1, c - 1))]
  BY <1>1 DEF Sent, RepetitionFrom, OpenedFrom, Repetition
<1>4. \A c \in 1 .. 3 : R.commitments[c].randomness.repetition = i - 1
  BY <1>3 DEF commit_view, fresh_randomness
<1>5. DOMAIN R.commitments = 1 .. 3
  BY <1>3
<1>6. Len(R.commitments) = 3
  BY <1>3, <1>5, LengthIs
<1> QED BY <1>2, <1>3, <1>4, <1>6

\* Other commitments make another transcript.
LEMMA CommitmentRederives ==
  ASSUME Departing, transitUnchanged, NEW i \in DOMAIN sent.repetitions, NEW r2,
         sent'.repetitions = [sent.repetitions EXCEPT ![i] = r2],
         r2.commitments # sent.repetitions[i].commitments
  PROVE  Rederived'
<1>1. Sessions(sent'.repetitions)[i] = r2.commitments
  BY DEF Sessions
<1>2. Sessions(sent.repetitions)[i] = sent.repetitions[i].commitments
  BY DEF Sessions
<1>3. Sessions(sent'.repetitions) # Sessions(partials)
  BY <1>1, <1>2, DepartingRepetitions
<1> QED BY <1>3, NewQuestions

\* A challenge that is not the one of the transcript.
LEMMA ChallengeRechallenges ==
  ASSUME Departing, transitUnchanged, job' = job, backend = ProverBackend,
         NEW i \in DOMAIN sent.repetitions, NEW r2,
         sent'.repetitions = [sent.repetitions EXCEPT ![i] = r2],
         r2.commitments = sent.repetitions[i].commitments,
         r2.challenge # sent.repetitions[i].challenge
  PROVE  Rechallenged'
<1> DEFINE x == sent.repetitions
           y == sent'.repetitions
<1>1. UNCHANGED <<oracle, backend, derived, outcome, step>>
  BY DEF transitUnchanged, checkVars
<1>2. DOMAIN y = DOMAIN x /\ y[i] = r2 /\ \A k \in DOMAIN x : y[k].commitments = x[k].commitments
  OBVIOUS
<1>3. Sessions(y) = Sessions(partials)
  BY <1>2, DepartingRepetitions DEF Sessions
<1>4. VerifierInput(i)' = ProverInput(i)
  BY <1>1, <1>3 DEF VerifierInput, ProverInput, fs_input, Sessions
<1>5. i \in DOMAIN challenges /\ challenges[i] = x[i].challenge
  <2>1. JointInv /\ alteration = "none" /\ Honest /\ phase = "done"
    BY DepartingFacts DEF Departing
  <2> QED BY <2>1, DoneFacts DEF JointInv, OpenedAsCommitted
<1>6. ProverInput(i) \in DOMAIN oracle /\ oracle[ProverInput(i)] = x[i].challenge
  BY <1>5, DepartingFacts DEF Departing, JointInv, ChallengesFromTranscript, ProverInput
<1>7. \E S : y \in Seq(S)
  <2>1. PICK S : x \in Seq(S)
    BY DepartingRepetitions
  <2> DEFINE T == S \cup {r2}
  <2>2. x \in Seq(T) /\ r2 \in T
    BY <2>1
  <2> HIDE DEF T
  <2>3. [x EXCEPT ![i] = r2] \in Seq(T)
    BY <2>2
  <2> QED BY <2>3
<1>8. derived' \in Seq(Party) /\ DOMAIN derived' = {} /\ step' = "proving" /\ outcome' = "none"
  <2>1. << >> \in Seq(Party) /\ DOMAIN << >> = {}
    OBVIOUS
  <2> QED BY <1>1, <2>1, DepartingFacts
<1>9. \E k \in DOMAIN y : /\ VerifierInput(k)' \in DOMAIN oracle'
                          /\ oracle'[VerifierInput(k)'] # y[k].challenge
  BY <1>1, <1>2, <1>4, <1>6
<1> QED BY <1>7, <1>8, <1>9 DEF Rechallenged

\* One repetition of the proof has changed.
LEMMA RepetitionAltered ==
  ASSUME Departing, transitUnchanged, job' = job, backend = ProverBackend,
         NEW kind \in RepetitionKinds, sent' \in AlteredProofs(kind)
  PROVE  Rederived' \/ Rechallenged' \/ Refuted'
<1>1. PICK i \in DOMAIN sent.repetitions :
        \E r2 : /\ sent'.repetitions = [sent.repetitions EXCEPT ![i] = r2]
                /\ OtherRepetition(kind, sent.repetitions[i], r2)
  BY OtherRepetitions
<1>2. PICK r2 : /\ sent'.repetitions = [sent.repetitions EXCEPT ![i] = r2]
                /\ OtherRepetition(kind, sent.repetitions[i], r2)
  BY <1>1
<1>3. PICK r : r = sent.repetitions[i]
  OBVIOUS
<1>4. r.commitments \in Seq(ViewCommitment) /\ Len(r.commitments) = 3
      /\ \A c \in 1 .. 3 : r.commitments[c].randomness.repetition = i - 1
  BY <1>3, DepartingCommitments
<1>5. i \in Nat \ {0}
  BY DepartingRepetitions
<1>6. CASE \E h \in Party \ {r.challenge} : r2 = [r EXCEPT !.challenge = h]
  <2>1. r2.commitments = r.commitments /\ r2.challenge # r.challenge
    BY <1>3, <1>6, DepartingFields
  <2> QED BY <1>2, <1>3, <2>1, ChallengeRechallenges
<1>7. CASE \E c \in 1 .. 3 : r2 = [r EXCEPT !.commitments[c].randomness.repetition = @ + 1]
  <2>1. PICK c \in 1 .. 3 : r2 = [r EXCEPT !.commitments[c].randomness.repetition = @ + 1]
    BY <1>7
  <2>2. r2.commitments = [r.commitments EXCEPT ![c].randomness.repetition = @ + 1]
    BY <1>3, <2>1, DepartingFields
  <2>3. c \in DOMAIN r.commitments /\ r.commitments[c] \in ViewCommitment
    BY <1>4
  <2>4. r2.commitments[c] = [r.commitments[c] EXCEPT !.randomness.repetition = @ + 1]
    BY <2>2, <2>3
  <2>5. r2.commitments[c].randomness.repetition = i - 1 + 1
    BY <1>4, <2>3, <2>4 DEF ViewCommitment, Randomness
  <2>6. r2.commitments # r.commitments
    <3>1. i - 1 + 1 # i - 1
      BY <1>5
    <3> QED BY <1>4, <2>5, <3>1
  <2> QED BY <1>2, <1>3, <2>6, CommitmentRederives
<1>8. CASE r2 = [r EXCEPT !.commitments = Tail(@)]
  <2>1. r2.commitments = Tail(r.commitments)
    BY <1>3, <1>8, DepartingFields
  <2>2. Len(Tail(r.commitments)) = 2
    BY <1>4
  <2>3. Len(r2.commitments) = 2 /\ Len(r.commitments) = 3
    BY <1>4, <2>1, <2>2
  <2>4. r2.commitments # r.commitments
    BY <2>3
  <2> QED BY <1>2, <1>3, <2>4, CommitmentRederives
<1>9. CASE \E v \in 1 .. 2 : \E s \in Bumped(r.opened_views[v].input_shares) :
             r2 = [r EXCEPT !.opened_views[v].input_shares = s]
  <2>1. Spoiled(to_inner_repetition(r2, i - 1), i)
    BY <1>3, <1>9, ViewRefutes
  <2> QED BY <1>2, <2>1, SpoiledRefutes
<1>10. CASE r2 = [r EXCEPT !.opening_randomness = <<@[2], @[1]>>]
  <2>1. Spoiled(to_inner_repetition(r2, i - 1), i)
    BY <1>3, <1>10, OpeningRefutes
  <2> QED BY <1>2, <2>1, SpoiledRefutes
<1>11. CASE \/ \E s \in Bumped(r.hidden_output_shares) : r2 = [r EXCEPT !.hidden_output_shares = s]
            \/ \E s \in Bumped(r.hidden_broadcasts) : r2 = [r EXCEPT !.hidden_broadcasts = s]
  <2>1. WrongOutputs = {} => Spoiled(to_inner_repetition(r2, i - 1), i)
    BY <1>3, <1>11, HiddenRefutes
  <2> QED BY <1>2, <2>1, SpoiledRefutes
<1>12. OtherRepetition(kind, r, r2)
  BY <1>2, <1>3
<1> QED BY <1>6, <1>7, <1>8, <1>9, <1>10, <1>11, <1>12 DEF OtherRepetition

\* More, fewer or reordered repetitions make another transcript.
LEMMA VectorAltered ==
  ASSUME Departing, transitUnchanged,
         NEW kind \in {"empty", "shorter", "longer", "reordered"}, sent' \in AlteredProofs(kind)
  PROVE  Rederived'
<1> DEFINE x == sent.repetitions
           n == Len(x)
           y == sent'.repetitions
<1>1. PICK S : x \in Seq(S)
  BY DepartingRepetitions
<1>2. n \in Nat \ {0} /\ DOMAIN x = 1 .. n /\ Sessions(x) = Sessions(partials)
  BY DepartingRepetitions
<1>3. sent = [version |-> PROTOCOL_VERSION, backend_id |-> ProverBackend,
              statement |-> job.statement, repetitions |-> x]
  BY DepartingRepetitions
<1>4. ASSUME DOMAIN y # DOMAIN x PROVE Rederived'
  <2>1. DOMAIN Sessions(y) = DOMAIN y /\ DOMAIN Sessions(x) = DOMAIN x
    BY DEF Sessions
  <2>2. Sessions(y) # Sessions(partials)
    BY <1>2, <1>4, <2>1
  <2> QED BY <2>2, NewQuestions
<1>5. CASE kind = "empty"
  <2>1. sent' = [sent EXCEPT !.repetitions = << >>]
    BY <1>5 DEF AlteredProofs
  <2>2. y = << >>
    BY <1>3, <2>1
  <2>3. DOMAIN y = {} /\ 1 \in DOMAIN x
    <3>1. DOMAIN << >> = {} /\ 1 \in 1 .. n
      BY <1>2
    <3> QED BY <1>2, <2>2, <3>1
  <2> QED BY <1>4, <2>3
<1>6. CASE kind = "shorter"
  <2>1. \/ sent' = [sent EXCEPT !.repetitions = Tail(@)]
        \/ sent' = [sent EXCEPT !.repetitions = SubSeq(@, 1, Len(@) - 1)]
    BY <1>6 DEF AlteredProofs
  <2>2. y = Tail(x) \/ y = SubSeq(x, 1, n - 1)
    BY <1>3, <2>1
  <2> HIDE DEF x, y
  <2>3. DOMAIN y = 1 .. n - 1
    BY <1>1, <1>2, <2>2
  <2>4. n \in 1 .. n /\ n \notin 1 .. n - 1
    BY <1>2
  <2> QED BY <1>2, <1>4, <2>3, <2>4
<1>7. CASE kind = "longer"
  <2>1. sent' = [sent EXCEPT !.repetitions = Append(@, @[1])]
    BY <1>7 DEF AlteredProofs
  <2>2. y = Append(x, x[1])
    BY <1>3, <2>1
  <2> HIDE DEF x, y
  <2>3. DOMAIN y = 1 .. n + 1
    <3>1. x[1] \in S
      BY <1>1, <1>2
    <3> QED BY <1>1, <1>2, <2>2, <3>1
  <2>4. n + 1 \notin 1 .. n /\ n + 1 \in 1 .. n + 1
    BY <1>2
  <2> QED BY <1>2, <1>4, <2>3, <2>4
<1>8. CASE kind = "reordered"
  <2>1. sent' = [sent EXCEPT !.repetitions = Append(Tail(@), @[1])] /\ sent' # sent
    BY <1>8 DEF AlteredProofs
  <2> DEFINE z == Append(Tail(x), x[1])
  <2>2. y = z /\ z # x
    BY <1>3, <2>1
  <2> HIDE DEF x, y
  <2>3. x[1] \in S /\ Tail(x) \in Seq(S) /\ Len(Tail(x)) = n - 1
    BY <1>1, <1>2
  <2>4. n # 1
    <3> SUFFICES ASSUME n = 1 PROVE z = x
      BY <2>2
    <3>1. PICK t, e : t = Tail(x) /\ e = x[1]
      OBVIOUS
    <3>2. t \in Seq(S) /\ Len(t) = 0 /\ e \in S
      BY <2>3, <3>1
    <3>3. Append(t, e) \in Seq(S) /\ Len(Append(t, e)) = 1 /\ Append(t, e)[1] = e
      BY <3>2
    <3>4. z \in Seq(S) /\ Len(z) = 1 /\ z[1] = x[1]
      BY <3>1, <3>3
    <3> QED BY <1>1, <3>4
  <2>5. z[1] = x[2] /\ 1 \in DOMAIN z /\ 1 \in DOMAIN x /\ 2 \in DOMAIN x
    <3>1. Tail(x)[1] = x[2] /\ 1 \in 1 .. Len(Tail(x))
      BY <1>1, <1>2, <2>3, <2>4
    <3> QED BY <1>2, <2>3, <2>4, <3>1
  <2>6. /\ x[1].commitments[1].randomness.repetition = 1 - 1
        /\ x[2].commitments[1].randomness.repetition = 2 - 1
    <3>1. ASSUME NEW i \in DOMAIN x
          PROVE  x[i].commitments[1].randomness.repetition = i - 1
      <4>1. PICK r : r = x[i]
        OBVIOUS
      <4>2. \A c \in 1 .. 3 : r.commitments[c].randomness.repetition = i - 1
        BY <3>1, <4>1, DepartingCommitments DEF x
      <4> QED BY <4>1, <4>2
    <3> QED BY <2>5, <3>1
  <2>7. Sessions(y)[1] = x[2].commitments /\ Sessions(x)[1] = x[1].commitments
    BY <2>2, <2>5 DEF Sessions
  <2>8. Sessions(y) # Sessions(partials)
    BY <1>2, <2>6, <2>7
  <2> QED BY <2>8, NewQuestions DEF y
<1> QED BY <1>5, <1>6, <1>7, <1>8

\* The proof is for, or is presented with, another statement.
LEMMA StatementAltered ==
  ASSUME Departing, transitUnchanged, job' = job,
         sent' \in AlteredProofs("statement")
  PROVE  Misfit'
<1> DEFINE o == job.statement.expected_outputs
<1>1. sent.statement = job.statement /\ "statement" \in DOMAIN sent
  BY DepartingRepetitions
<1>2. PICK s \in Bumped(o) : sent' = [sent EXCEPT !.statement.expected_outputs = s]
  BY <1>1 DEF AlteredProofs
<1>3. job.statement \in Statement
  BY DepartingFacts DEF Job
<1>4. s # o
  BY <1>3, BumpedDiffers DEF Statement
<1>5. sent'.statement.expected_outputs = s
  BY <1>1, <1>2, <1>3 DEF Statement
<1>6. sent'.statement # job'.statement
  BY <1>4, <1>5
<1>7. (StructureError = "none" => sent.statement = job.statement)'
  BY StructureFits, PTL
<1> QED BY <1>6, <1>7, NewMisfit

LEMMA RestateRederives ==
  ASSUME Departing, Restate
  PROVE  Rederived'
<1> DEFINE t == job.statement
<1>1. PICK s : /\ \/ s = [t EXCEPT !.circuit_id = <<"circuit/v1", << >>, << >> >>]
                  \/ \E o \in Bumped(t.expected_outputs) : s = [t EXCEPT !.expected_outputs = o]
                  \/ \E p \in Bumped(t.public_inputs) : s = [t EXCEPT !.public_inputs = p]
               /\ job' = [job EXCEPT !.statement = s]
  BY DEF Restate
<1>2. job \in Job /\ t \in Statement
  BY DepartingFacts DEF Job
<1>3. job'.statement = s
  BY <1>1, <1>2 DEF Job
<1>4. t.circuit_id = compute_id(job.circuit) /\ validate(job.circuit) = "Ok"
  BY DepartingFacts DEF proof_statement_validate
<1>5. ASSUME s = [t EXCEPT !.circuit_id = <<"circuit/v1", << >>, << >> >>]
      PROVE  s # t
  <2>1. s.circuit_id = <<"circuit/v1", << >>, << >> >>
    BY <1>2, <1>5 DEF Statement
  <2>2. t.circuit_id = <<"circuit/v1", job.circuit.nodes, job.circuit.outputs>>
    BY <1>4 DEF compute_id
  <2>3. job.circuit.outputs # << >>
    BY <1>4 DEF validate
  <2> QED BY <2>1, <2>2, <2>3
<1>6. ASSUME \E o \in Bumped(t.expected_outputs) : s = [t EXCEPT !.expected_outputs = o]
      PROVE  s # t
  <2>1. PICK o \in Bumped(t.expected_outputs) : s = [t EXCEPT !.expected_outputs = o]
    BY <1>6
  <2>2. o # t.expected_outputs
    BY <1>2, BumpedDiffers DEF Statement
  <2>3. s.expected_outputs = o
    BY <1>2, <2>1 DEF Statement
  <2> QED BY <2>2, <2>3
<1>7. ASSUME \E p \in Bumped(t.public_inputs) : s = [t EXCEPT !.public_inputs = p]
      PROVE  s # t
  <2>1. PICK p \in Bumped(t.public_inputs) : s = [t EXCEPT !.public_inputs = p]
    BY <1>7
  <2>2. p # t.public_inputs
    BY <1>2, BumpedDiffers DEF Statement
  <2>3. s.public_inputs = p
    BY <1>2, <2>1 DEF Statement
  <2> QED BY <2>2, <2>3
<1>8. s # t
  BY <1>1, <1>5, <1>6, <1>7
<1>9. transitUnchanged
  BY DEF Restate
<1> QED BY <1>3, <1>8, <1>9, NewQuestions

LEMMA LabelAltered ==
  ASSUME Departing, transitUnchanged, job' = job, backend = ProverBackend,
         NEW kind \in {"backend", "version"}, sent' \in AlteredProofs(kind)
  PROVE  Misfit'
<1>1. (StructureError = "none" => sent.backend_id = backend /\ sent.version = PROTOCOL_VERSION)'
  BY StructureFits, PTL
<1>2. backend' = backend
  BY DEF transitUnchanged, checkVars
<1>3. sent = [version |-> PROTOCOL_VERSION, backend_id |-> ProverBackend,
              statement |-> job.statement, repetitions |-> sent.repetitions]
  BY DepartingRepetitions
<1>4. CASE kind = "backend"
  <2>1. sent' = [sent EXCEPT !.backend_id = "shake256"]
    BY <1>4 DEF AlteredProofs
  <2>2. sent'.backend_id = "shake256"
    BY <1>3, <2>1
  <2> QED BY <1>1, <1>2, <2>2, NewMisfit DEF ProverBackend
<1>5. CASE kind = "version"
  <2>1. sent' = [sent EXCEPT !.version = @ + 1]
    BY <1>5 DEF AlteredProofs
  <2>2. sent'.version = PROTOCOL_VERSION + 1
    BY <1>3, <2>1
  <2>3. sent'.version # PROTOCOL_VERSION
    BY <2>2 DEF PROTOCOL_VERSION
  <2>4. (PROTOCOL_VERSION)' = PROTOCOL_VERSION
    BY DEF PROTOCOL_VERSION
  <2> QED BY <1>1, <2>3, <2>4, NewMisfit
<1> QED BY <1>4, <1>5

\* Whatever happens to the proof on its way, the verification goes one of the four ways.
LEMMA AlterEnters ==
  ASSUME Departing, (\E kind \in AlterationKinds : Alter(kind)) \/ Restate
  PROVE  AlteredInv'
<1>1. CASE Restate
  BY <1>1, RestateRederives DEF AlteredInv
<1>2. CASE \E kind \in AlterationKinds : Alter(kind)
  <2>1. PICK kind \in AlterationKinds : Alter(kind)
    BY <1>2
  <2>2. sent' \in AlteredProofs(kind) /\ job' = job /\ transitUnchanged
    BY <2>1 DEF Alter
  <2>3. CASE backend # ProverBackend
    BY <2>2, <2>3, NewQuestions DEF AlteredInv
  <2>4. CASE backend = ProverBackend
    <3>1. CASE kind \in RepetitionKinds
      BY <2>2, <2>4, <3>1, RepetitionAltered DEF AlteredInv
    <3>2. CASE kind \in {"empty", "shorter", "longer", "reordered"}
      BY <2>2, <3>2, VectorAltered DEF AlteredInv
    <3>3. CASE kind = "statement"
      BY <2>2, <3>3, StatementAltered DEF AlteredInv
    <3>4. CASE kind \in {"backend", "version"}
      BY <2>2, <2>4, <3>4, LabelAltered DEF AlteredInv
    <3>5. \/ kind \in RepetitionKinds
          \/ kind \in {"empty", "shorter", "longer", "reordered", "statement", "backend", "version"}
      <4> SUFFICES ASSUME kind \notin RepetitionKinds,
                          kind \notin {"empty", "shorter", "longer", "reordered", "statement",
                                       "backend", "version"}
                   PROVE  AlteredProofs(kind) = {}
        BY <2>2
      <4> QED BY DEF AlteredProofs, RepetitionKinds
    <3> QED BY <3>1, <3>2, <3>3, <3>4, <3>5
  <2> QED BY <2>3, <2>4
<1> QED BY <1>1, <1>2

LEMMA AlteredInvStep ==
  ASSUME JointInv, HonestRun, OracleAsked, AlteredWhenDone, AlteredInv, [Next]_vars
  PROVE  AlteredInv'
<1>1. CASE alteration # "none"
  BY <1>1, AlteredStays
<1>2. CASE alteration = "none" /\ ((\E kind \in AlterationKinds : Alter(kind)) \/ Restate)
  <2>1. Departing
    BY <1>2 DEF Departing, Alter, Restate
  <2> QED BY <1>2, <2>1, AlterEnters
<1>3. CASE alteration = "none" /\ ~((\E kind \in AlterationKinds : Alter(kind)) \/ Restate)
  <2>1. alteration' = alteration
    BY <1>3 DEF Next, prover_new, prover_prove, InnerNew, Simulate, commit_phase, derive_all,
       ChallengesDerived, finish_repetition, verify_structure, derive_again, compare_challenges,
       verify_inner, conclude, proverUnchanged, checkUnchanged, historyVars, vars
  <2> QED BY <1>3, <2>1 DEF AlteredInv
<1> QED BY <1>1, <1>2, <1>3

(* Transcript binding, for every commutative ring, circuit, statement, witness,  *)
(* number of repetitions and behaviour of the hash: when one thing about a        *)
(* finished proof of a true statement changes on its way to Verifier::verify,     *)
(* the proof is only accepted if every challenge was derived from a question that *)
(* the prover never asked.  So what the transcript absorbs cannot be changed and  *)
(* keep any of its answers, and what it does not absorb (opened views, openings,  *)
(* hidden output shares and broadcasts) cannot be changed at all.                 *)
THEOREM JointAlterationNeedsFresh == Spec => []AlterationNeedsFreshChallenges
<1> DEFINE Inv == JointInv /\ HonestRun /\ OracleAsked /\ AlteredWhenDone /\ AlteredInv
<1>1. Init => Inv
  <2>1. Init => OracleAsked /\ AlteredWhenDone /\ AlteredInv
    BY DEF Init, OracleAsked, AlteredWhenDone, AlteredInv
  <2> QED BY <2>1, InitJoint, HonestInit
<1>2. Inv /\ [Next]_vars => Inv'
  BY JointStep, HonestStep, AskedStep, AlteredStep, AlteredInvStep
<1>3. Inv => AlterationNeedsFreshChallenges
  <2> SUFFICES ASSUME AlteredInv, alteration # "none", outcome = "Valid", WrongOutputs = {}
               PROVE  fresh = Len(sent.repetitions)
    BY DEF AlterationNeedsFreshChallenges
  <2>1. Rederived
    BY DEF AlteredInv, Misfit, Rechallenged, Refuted
  <2> QED BY <2>1 DEF Rederived
<1> QED BY <1>1, <1>2, <1>3, PTL DEF Spec
=============================================================================
