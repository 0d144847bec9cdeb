---------------------------- MODULE MpcSimulator ----------------------------
(***************************************************************************)
(* Simulators (crates/mpc: simulator.rs, triples.rs) driven by any         *)
(* sequence of calls of one program.  Every simulator has its own context  *)
(* and its own triple provider; the values they hand out are plain shares  *)
(* and can be given to any of them.  MpcEvaluation makes the calls of      *)
(* evaluate_mpc on the same simulators.                                    *)
(***************************************************************************)
EXTENDS MpcSharing, FiniteSets

CONSTANTS
  Simulators,       \* the simulators of the program
  Called,           \* those of them the program calls itself
  party_count,      \* per simulator: its context's party_count
  provider_count,   \* per simulator: the party_count its provider shares into
  Secrets,          \* values given to input and used as public operands
  MAX_ID,           \* u64::MAX
  MaxValues         \* bound on the shared values the program's own calls make

ASSUME SimulatorAssumption ==
  /\ party_count \in [Simulators -> Nat \ {0, 1}]
  /\ provider_count \in [Simulators -> Nat \ {0, 1}]
  /\ MAX_ID \in Nat
  /\ Secrets \subseteq F
  /\ Called \subseteq Simulators

VARIABLES
  heap,         \* the shared values in existence: [shares, plain, contexts]
  next_id,      \* per simulator: LocalTrustedTripleProvider.next_id
  issued_ids,   \* per simulator: LocalTrustedTripleProvider.issued_ids
  products,     \* history: the triple each product was computed with
  last          \* what the last call returned

simulatorVars == <<heap, next_id, issued_ids, products, last>>
providerVars == <<next_id, issued_ids>>

(***************************************************************************)
(* plain and contexts are history: the value the shares stand for, and the *)
(* simulators whose inputs it was computed from.                           *)
(***************************************************************************)
SimulatorInit ==
  /\ heap = << >>
  /\ next_id = [s \in Simulators |-> 0]
  /\ issued_ids = [s \in Simulators |-> {}]
  /\ products = {}
  /\ last = "Ok"

Keep(shares, plain, contexts) ==
  /\ heap' = Append(heap, [shares |-> shares, plain |-> plain, contexts |-> contexts])
  /\ last' = "Ok"

Error(e) == last' = e /\ UNCHANGED heap

input(s, secret) ==
  /\ \E shares \in share_input(party_count[s], secret) : Keep(shares, secret, {s})
  /\ UNCHANGED <<providerVars, products>>

\* add checks the number of shares and nothing else.
SameContext(x, y) == Len(x.shares) = Len(y.shares)

add(x, y) ==
  /\ IF SameContext(x, y)
     THEN Keep(add_secret(x.shares, y.shares), Plus(x.plain, y.plain), x.contexts \cup y.contexts)
     ELSE Error("ContextMismatch")
  /\ UNCHANGED <<providerVars, products>>

AddPublic(x, v) ==
  /\ Keep(add_public(x.shares, v), Plus(x.plain, v), x.contexts)
  /\ UNCHANGED <<providerVars, products>>

MulPublic(x, v) ==
  /\ Keep(mul_public(x.shares, v), Times(x.plain, v), x.contexts)
  /\ UNCHANGED <<providerVars, products>>
-----------------------------------------------------------------------------
\* A slip to guard against: the id is not advanced.
NextId_stuck(s) == next_id[s]

NextId(s) == next_id[s] + 1

IssueError(s) ==
  IF next_id[s] = MAX_ID THEN "TripleExhaustion"
  ELSE IF next_id[s] \in issued_ids[s] THEN "TripleReuse"
  ELSE "Ok"

issue_id(s) ==
  /\ next_id' = [next_id EXCEPT ![s] = NextId(s)]
  /\ issued_ids' = [issued_ids EXCEPT ![s] = @ \cup {next_id[s]}]

\* mul: the triple is taken before its own number of shares is looked at, so a
\* provider for another number of parties loses it.
mul(s, x, y) ==
  /\ IF ~SameContext(x, y) THEN Error("ContextMismatch") /\ UNCHANGED <<providerVars, products>>
     ELSE IF IssueError(s) # "Ok" THEN Error(IssueError(s)) /\ UNCHANGED <<providerVars, products>>
     ELSE /\ issue_id(s)
          /\ IF provider_count[s] # Len(x.shares)
             THEN Error("ContextMismatch") /\ UNCHANGED products
             ELSE \E t \in Triples(provider_count[s]) :
                    /\ Keep(mul_secret(x.shares, y.shares, t), Times(x.plain, y.plain),
                            x.contexts \cup y.contexts)
                    /\ products' = products \cup {[at |-> Len(heap) + 1, sim |-> s, id |-> next_id[s]]}

\* reveal changes nothing: it is refused (RevealMisuse) unless the number of shares is
\* the simulator's own, and reconstructs otherwise.
RevealAllowed(s, x) == Len(x.shares) = party_count[s]

reveal(x) == sum(x.shares)

Values == {heap[i] : i \in DOMAIN heap}

Room == Len(heap) < MaxValues

Calls ==
  /\ Room
  /\ \/ \E s \in Called, v \in Secrets : input(s, v)
     \/ \E x, y \in Values : add(x, y)
     \/ \E x \in Values, v \in Secrets : AddPublic(x, v) \/ MulPublic(x, v)
     \/ \E s \in Called, x, y \in Values : mul(s, x, y)
-----------------------------------------------------------------------------
SimulatorTypeOK ==
  /\ heap \in Seq([shares : Seq(F), plain : F, contexts : SUBSET Simulators])
  /\ \A i \in DOMAIN heap : \E s \in Simulators : Len(heap[i].shares) = party_count[s]
  /\ next_id \in [Simulators -> 0 .. MAX_ID]
  /\ issued_ids \in [Simulators -> SUBSET (0 .. MAX_ID)]
  /\ last \in {"Ok", "ContextMismatch", "TripleExhaustion", "TripleReuse"}

(* Whatever is computed, in any order and on any simulators that accept the     *)
(* values, revealing a value gives the plain result: no operation counts a      *)
(* public term once per party or opens a mask of the wrong triple.              *)
RevealsPlainValue ==
  \A s \in Simulators : \A x \in Values : RevealAllowed(s, x) => reveal(x) = x.plain

(* "Implementations must never hand out the same triple twice" (triples.rs,     *)
(* TripleProvider): every product has a triple of its own, also after failed    *)
(* multiplications and up to the last identifier, past which a counter of fixed *)
(* width would start again, and the provider's own check for reuse never fires. *)
TriplesUsedOnce ==
  /\ \A p, q \in products : p.sim = q.sim /\ p.id = q.id => p = q
  /\ \A p \in products : p.id \in issued_ids[p.sim]
  /\ \A s \in Simulators : next_id[s] <= MAX_ID
  /\ last # "TripleReuse"

(* What makes the two inductive: every value's shares add up to what it stands  *)
(* for, and no id is issued before its turn.                                    *)
HeapSound == \A i \in DOMAIN heap : sum(heap[i].shares) = heap[i].plain

IdsInOrder ==
  /\ \A s \in Simulators : \A n \in issued_ids[s] : n < next_id[s]
  /\ \A p \in products : p.sim \in Simulators

SimulatorInv == SimulatorTypeOK /\ HeapSound /\ IdsInOrder /\ TriplesUsedOnce

(* "mixing values from different contexts ... is an error" (context.rs): no     *)
(* value is ever computed from inputs that were shared by two simulators.       *)
ContextsNeverMix == \A i \in DOMAIN heap : Cardinality(heap[i].contexts) = 1
=============================================================================
