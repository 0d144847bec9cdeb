------------------------------- MODULE Mpcith -------------------------------
(***************************************************************************)
(* Prover and verifier together: a proof is produced, possibly damaged,    *)
(* and verified.  Two kinds of damage are considered, at most one of them  *)
(* per execution:                                                          *)
(*   - a computation fault: what one party's view records differs from     *)
(*     what that party should have computed, before the view is committed; *)
(*   - damage in transit: one component of the finished proof changes.     *)
(***************************************************************************)
EXTENDS MpcithProver, MpcithVerifier

CONSTANT Damages   \* the kinds of damage that may happen

VARIABLE damage    \* what happened: [kind, party], kind "none" if nothing did

vars == <<proverVars, verifierVars, damage>>

NoDamage == [kind |-> "none", party |-> 0]

Init ==
  /\ ProverInit
  /\ VerifierInit
  /\ damage = NoDamage

Happens(kind, p) ==
  /\ kind \in Damages
  /\ damage = NoDamage
  /\ damage' = [kind |-> kind, party |-> p]

Last(s) == s[Len(s)]

Bump(s, i) == [s EXCEPT ![i] = Plus(s[i], One)]
-----------------------------------------------------------------------------
(* Computation faults in the first repetition, after its last node and     *)
(* before its commitments.                                                 *)

Faultable == AllEvaluated /\ proof = << >>

FaultUnchanged == UNCHANGED <<job, proof, phase, error, supply, cursorVars, values, reference,
                              commitments, verifierVars>>

InputShareFault(p) ==
  /\ Faultable
  /\ Happens("input_share", p)
  /\ \E i \in DOMAIN input_shares[p] :
       input_shares' = [input_shares EXCEPT ![p] = Bump(@, i)]
  /\ UNCHANGED partyVars
  /\ FaultUnchanged

OperationFault(p) ==
  /\ Faultable
  /\ Happens("operation", p)
  /\ \E i \in DOMAIN local_operations[p] :
       local_operations' = [local_operations EXCEPT ![p][i].share = Plus(@, One)]
  /\ UNCHANGED <<inputVars, triple_shares, opened_values>>
  /\ FaultUnchanged

MissingOperationFault(p) ==
  /\ Faultable
  /\ Happens("missing_operation", p)
  /\ local_operations[p] # << >>
  /\ local_operations' = [local_operations EXCEPT ![p] = Tail(@)]
  /\ UNCHANGED <<inputVars, triple_shares, opened_values>>
  /\ FaultUnchanged

ExtraOperationFault(p) ==
  /\ Faultable
  /\ Happens("extra_operation", p)
  /\ local_operations[p] # << >>
  /\ local_operations' = [local_operations EXCEPT ![p] = Append(@, Last(@))]
  /\ UNCHANGED <<inputVars, triple_shares, opened_values>>
  /\ FaultUnchanged

TripleFault(p) ==
  /\ Faultable
  /\ Happens("triple", p)
  /\ triple_shares[p] # << >>
  /\ \E f \in {"a", "b", "c"} :
       triple_shares' = [triple_shares EXCEPT ![p][1][f] = Plus(@, One)]
  /\ UNCHANGED <<inputVars, local_operations, opened_values>>
  /\ FaultUnchanged

BroadcastFault(p) ==
  /\ Faultable
  /\ Happens("broadcast", p)
  /\ \E i \in DOMAIN opened_values[p] :
       opened_values' = [opened_values EXCEPT ![p] = Bump(@, i)]
  /\ UNCHANGED <<inputVars, local_operations, triple_shares>>
  /\ FaultUnchanged

Fault(p) ==
  \/ InputShareFault(p) \/ OperationFault(p) \/ MissingOperationFault(p)
  \/ ExtraOperationFault(p) \/ TripleFault(p) \/ BroadcastFault(p)
-----------------------------------------------------------------------------
(* Damage in transit: one component of the first repetition changes.       *)

Replace(r) ==
  /\ proof' = [proof EXCEPT ![1] = r]
  /\ UNCHANGED <<job, phase, error, supply, inputVars, partyVars, cursorVars, values, reference,
                 commitments, verifierVars>>

InTransit == phase = "done" /\ stage = "start"

IdDamage ==
  /\ InTransit
  /\ Happens("id", 0)
  /\ Replace([proof[1] EXCEPT !.id = @ + 1])

ChallengeDamage ==
  /\ InTransit
  /\ Happens("challenge", 0)
  /\ \E h \in Party \ {proof[1].challenge} : Replace([proof[1] EXCEPT !.challenge = h])

CommitmentDamage(p) ==
  /\ InTransit
  /\ Happens("commitment", p)
  /\ Replace([proof[1] EXCEPT !.commitments[p + 1].randomness.repetition = @ + 1])

MissingCommitmentDamage ==
  /\ InTransit
  /\ Happens("missing_commitment", 0)
  /\ Replace([proof[1] EXCEPT !.commitments = Tail(@)])

MissingViewDamage ==
  /\ InTransit
  /\ Happens("missing_view", 0)
  /\ Replace([proof[1] EXCEPT !.opened_views = Tail(@)])

SwappedViewsDamage ==
  /\ InTransit
  /\ Happens("swapped_views", 0)
  /\ Replace([proof[1] EXCEPT !.opened_views = <<@[2], @[1]>>])

ViewDamage ==
  /\ InTransit
  /\ Happens("view", 0)
  /\ \E i \in 1 .. 2 :
       \/ Replace([proof[1] EXCEPT !.opened_views[i].view.repetition_id = @ + 1])
       \/ Replace([proof[1] EXCEPT !.opened_views[i].view.party_id = (@ + 1) % 3])
       \/ Replace([proof[1] EXCEPT !.opened_views[i].randomness.repetition = @ + 1])
       \/ \E k \in DOMAIN proof[1].opened_views[i].view.input_shares :
            Replace([proof[1] EXCEPT !.opened_views[i].view.input_shares = Bump(@, k)])

OutputShareDamage ==
  /\ InTransit
  /\ Happens("output_share", 0)
  /\ \E k \in DOMAIN proof[1].hidden_output_shares :
       Replace([proof[1] EXCEPT !.hidden_output_shares = Bump(@, k)])

MissingOutputShareDamage ==
  /\ InTransit
  /\ Happens("missing_output_share", 0)
  /\ Replace([proof[1] EXCEPT !.hidden_output_shares = Tail(@)])

HiddenBroadcastDamage ==
  /\ InTransit
  /\ Happens("hidden_broadcast", 0)
  /\ \/ \E k \in DOMAIN proof[1].hidden_broadcasts :
          Replace([proof[1] EXCEPT !.hidden_broadcasts = Bump(@, k)])
     \/ proof[1].hidden_broadcasts # << >> /\ Replace([proof[1] EXCEPT !.hidden_broadcasts = Tail(@)])
     \/ proof[1].hidden_broadcasts # << >> /\ Replace([proof[1] EXCEPT !.hidden_broadcasts = Tail(Tail(@))])
     \/ Replace([proof[1] EXCEPT !.hidden_broadcasts = @ \o <<Zero, Zero>>])

EmptyProofDamage ==
  /\ InTransit
  /\ Happens("empty_proof", 0)
  /\ proof' = << >>
  /\ UNCHANGED <<job, phase, error, supply, inputVars, partyVars, cursorVars, values, reference,
                 commitments, verifierVars>>

TransitDamage ==
  \/ IdDamage \/ ChallengeDamage \/ (\E p \in Party : CommitmentDamage(p))
  \/ MissingCommitmentDamage \/ MissingViewDamage \/ SwappedViewsDamage \/ ViewDamage
  \/ OutputShareDamage \/ MissingOutputShareDamage \/ HiddenBroadcastDamage \/ EmptyProofDamage
-----------------------------------------------------------------------------
Prove == ProverNext /\ UNCHANGED <<verifierVars, damage>>

Verify == phase = "done" /\ VerifierNext /\ UNCHANGED <<proverVars, damage>>

Next == Prove \/ (\E p \in Party : Fault(p)) \/ TransitDamage \/ Verify

Spec == Init /\ [][Next]_vars
-----------------------------------------------------------------------------
TypeOK ==
  /\ ProverTypeOK
  /\ stage \in {"start", "open", "replay", "outputs", "done"}
  /\ verdict \in {"none", "Valid", "Invalid"} \cup VerifierErrors
  /\ (stage = "done") = (verdict # "none")
  /\ rep \in Nat \ {0}
  /\ globals \in Seq(F)
  /\ who \in 1 .. 2
  /\ replayed \in Seq([shared : BOOLEAN, v : F])
  /\ cursor \in [secret : Nat, public : Nat, op : Nat, triple : Nat, opened : Nat]
  /\ Len(replays) <= 2

\* Outputs that differ from what the statement expects.
WrongOutputs ==
  {k \in DOMAIN job.circuit.outputs :
     reference[job.circuit.outputs[k]] # job.statement.expected_outputs[k]}

(* Completeness, and what is decided: an undamaged proof never draws an error,  *)
(* it is Valid exactly when every secret-dependent output has its expected      *)
(* value, and Ok(Invalid) otherwise ("a well-formed but semantically wrong      *)
(* proof", verifier.rs verify).                                                 *)
HonestVerdict ==
  damage = NoDamage /\ verdict # "none" =>
    verdict = IF WrongOutputs \cap SecretOutputs = {} THEN "Valid" ELSE "Invalid"

FaultKinds ==
  {"input_share", "operation", "missing_operation", "extra_operation", "triple", "broadcast"}

(* In a proof of a true statement, a view that does not follow from its         *)
(* party's own inputs is never accepted when it is opened ("any corrupted view  *)
(* is opened unless it belongs to the challenged-hidden party", verifier.rs     *)
(* 10-13).                                                                      *)
FaultyViewCaughtWhenOpened ==
  damage.kind \in FaultKinds /\ verdict = "Valid" /\ WrongOutputs = {} =>
    proof[1].challenge = damage.party

(* Every component of a finished proof of a true statement is pinned: the only  *)
(* change an accepted proof can have suffered is to the commitment of the       *)
(* hidden party, which the interactive verifier never opens.                    *)
TransitDamageCaught ==
  damage # NoDamage /\ damage.kind \notin FaultKinds /\ verdict = "Valid" /\ WrongOutputs = {} =>
    damage.kind = "commitment" /\ damage.party = proof[1].challenge

(* verifier.rs check_outputs: "the combined output shares equal the statement's *)
(* expected outputs", for every output of an accepted proof.                    *)
AcceptedOutputsAreExpected == verdict = "Valid" => WrongOutputs = {}
=============================================================================
