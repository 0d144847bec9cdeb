-------------------------- MODULE CircuitTheorems --------------------------
(***************************************************************************)
(* What the ring axioms give about three-party additive sharings;          *)
(* induction on the natural numbers, stated with a set where the usual     *)
(* rule has a predicate, and what it gives about recursive functions; and  *)
(* the facts about circuits that the evaluations of a circuit rest on.     *)
(***************************************************************************)
EXTENDS Circuit, FiniteSetTheorems, WellFoundedInduction, TLAPS

\* A sum of two three-term sums may be taken party by party.
LEMMA PlusInterleave ==
  ASSUME NEW a \in F, NEW b \in F, NEW c \in F, NEW d \in F
  PROVE  Plus(Plus(a, b), Plus(c, d)) = Plus(Plus(a, c), Plus(b, d))
<1>1. Plus(Plus(a, b), Plus(c, d)) = Plus(a, Plus(b, Plus(c, d)))
  BY FieldClosed, PlusGroup
<1>2. Plus(b, Plus(c, d)) = Plus(c, Plus(b, d))
  BY FieldClosed, PlusGroup
<1>3. Plus(a, Plus(c, Plus(b, d))) = Plus(Plus(a, c), Plus(b, d))
  BY FieldClosed, PlusGroup
<1> QED BY <1>1, <1>2, <1>3

\* The last two summands may be exchanged.
LEMMA PlusSwap ==
  ASSUME NEW a \in F, NEW b \in F, NEW c \in F
  PROVE  Plus(Plus(a, b), c) = Plus(Plus(a, c), b)
<1>1. Plus(Plus(a, b), c) = Plus(a, Plus(b, c)) /\ Plus(Plus(a, c), b) = Plus(a, Plus(c, b))
  BY PlusGroup
<1> QED BY <1>1, PlusGroup

\* A summand may be cancelled.
LEMMA PlusCancel ==
  ASSUME NEW x \in F, NEW y \in F, NEW z \in F, Plus(x, z) = Plus(y, z)
  PROVE  x = y
<1>1. Neg(z) \in F /\ Plus(z, Neg(z)) = Zero
  BY FieldClosed, PlusGroup
<1>2. Plus(Plus(x, z), Neg(z)) = Plus(x, Plus(z, Neg(z)))
  BY <1>1, PlusGroup
<1>3. Plus(Plus(y, z), Neg(z)) = Plus(y, Plus(z, Neg(z)))
  BY <1>1, PlusGroup
<1> QED BY <1>1, <1>2, <1>3, PlusGroup

\* Adding one changes an element.
LEMMA PlusOne ==
  ASSUME NEW x \in F
  PROVE  Plus(x, One) \in F /\ Plus(x, One) # x
<1>1. Zero \in F /\ One \in F /\ Plus(x, Zero) = x
  BY FieldClosed, PlusGroup
<1>2. Plus(One, x) = Plus(x, One) /\ Plus(Zero, x) = Plus(x, Zero)
  BY <1>1, PlusGroup
<1>3. Plus(x, One) # x
  <2> SUFFICES ASSUME Plus(x, One) = x PROVE FALSE
    OBVIOUS
  <2>1. Plus(One, x) = Plus(Zero, x)
    BY <1>1, <1>2
  <2>2. One = Zero
    BY <1>1, <2>1, PlusCancel
  <2> QED BY <2>2, OneNotZero
<1> QED BY <1>1, <1>3, FieldClosed

\* x - y + y = x.
LEMMA MinusPlus ==
  ASSUME NEW x \in F, NEW y \in F
  PROVE  /\ Minus(x, y) \in F
         /\ Plus(Minus(x, y), y) = x
         /\ Plus(y, Minus(x, y)) = x
<1>1. Minus(x, y) \in F
  BY FieldClosed DEF Minus
<1>2. Plus(Plus(x, Neg(y)), y) = Plus(x, Plus(Neg(y), y))
  BY FieldClosed, PlusGroup
<1>3. Plus(Neg(y), y) = Zero
  BY FieldClosed, PlusGroup
<1>4. Plus(Minus(x, y), y) = x
  BY <1>2, <1>3, FieldClosed, PlusGroup DEF Minus
<1> QED BY <1>1, <1>4, FieldClosed, PlusGroup

\* Negation distributes over a sum.
LEMMA NegPlus ==
  ASSUME NEW x \in F, NEW y \in F
  PROVE  Neg(Plus(x, y)) = Plus(Neg(x), Neg(y))
<1> DEFINE s == Plus(x, y)
           n == Plus(Neg(x), Neg(y))
<1>1. s \in F /\ n \in F /\ Neg(s) \in F /\ Neg(x) \in F /\ Neg(y) \in F
  BY FieldClosed
<1>2. Plus(s, n) = Plus(Plus(x, Neg(x)), Plus(y, Neg(y)))
  BY <1>1, PlusInterleave
<1>3. Plus(s, n) = Zero
  BY <1>2, FieldClosed, PlusGroup
<1>4. Plus(Neg(s), Plus(s, n)) = Plus(Plus(Neg(s), s), n)
  BY <1>1, PlusGroup
<1>5. Plus(Neg(s), s) = Zero
  BY <1>1, PlusGroup
<1>6. Neg(s) = n
  BY <1>1, <1>3, <1>4, <1>5, FieldClosed, PlusGroup
<1> QED BY <1>6

\* Multiplication distributes on the right as well.
LEMMA TimesPlusRight ==
  ASSUME NEW x \in F, NEW y \in F, NEW k \in F
  PROVE  Times(Plus(x, y), k) = Plus(Times(x, k), Times(y, k))
BY FieldClosed, TimesMonoid, Distributive

\* What a sharing reconstructs to is a field element.
LEMMA Sum3Type ==
  ASSUME NEW s \in Sharing
  PROVE  /\ s[0] \in F /\ s[1] \in F /\ s[2] \in F
         /\ Sum3(s) \in F
<1>1. s[0] \in F /\ s[1] \in F /\ s[2] \in F
  BY DEF Sharing, Party
<1> QED BY <1>1, FieldClosed DEF Sum3

\* Adding share by share adds the shared values (prover.rs, Add gate).
LEMMA Sum3Plus ==
  ASSUME NEW s \in Sharing, NEW t \in Sharing
  PROVE  Sum3([p \in Party |-> Plus(s[p], t[p])]) = Plus(Sum3(s), Sum3(t))
<1>1. s[0] \in F /\ s[1] \in F /\ s[2] \in F /\ t[0] \in F /\ t[1] \in F /\ t[2] \in F
  BY Sum3Type
<1>2. Sum3([p \in Party |-> Plus(s[p], t[p])])
        = Plus(Plus(Plus(s[0], t[0]), Plus(s[1], t[1])), Plus(s[2], t[2]))
  BY DEF Sum3, Party
<1>3. Plus(Plus(s[0], t[0]), Plus(s[1], t[1])) = Plus(Plus(s[0], s[1]), Plus(t[0], t[1]))
  BY <1>1, PlusInterleave
<1>4. Plus(s[0], s[1]) \in F /\ Plus(t[0], t[1]) \in F
  BY <1>1, FieldClosed
<1>5. Plus(Plus(Plus(s[0], s[1]), Plus(t[0], t[1])), Plus(s[2], t[2]))
        = Plus(Plus(Plus(s[0], s[1]), s[2]), Plus(Plus(t[0], t[1]), t[2]))
  BY <1>1, <1>4, PlusInterleave
<1> QED BY <1>2, <1>3, <1>5 DEF Sum3

\* Scaling every share scales the shared value (prover.rs, mixed Mul gate).
LEMMA Sum3Times ==
  ASSUME NEW s \in Sharing, NEW k \in F
  PROVE  Sum3([p \in Party |-> Times(s[p], k)]) = Times(Sum3(s), k)
<1>1. s[0] \in F /\ s[1] \in F /\ s[2] \in F /\ Plus(s[0], s[1]) \in F
  BY Sum3Type, FieldClosed
<1>2. Sum3([p \in Party |-> Times(s[p], k)])
        = Plus(Plus(Times(s[0], k), Times(s[1], k)), Times(s[2], k))
  BY DEF Sum3, Party
<1>3. Plus(Times(s[0], k), Times(s[1], k)) = Times(Plus(s[0], s[1]), k)
  BY <1>1, TimesPlusRight
<1>4. Plus(Times(Plus(s[0], s[1]), k), Times(s[2], k)) = Times(Plus(Plus(s[0], s[1]), s[2]), k)
  BY <1>1, TimesPlusRight
<1> QED BY <1>2, <1>3, <1>4 DEF Sum3

\* Masking share by share masks the shared value (prover.rs, d and e).
LEMMA Sum3Minus ==
  ASSUME NEW s \in Sharing, NEW t \in Sharing
  PROVE  Sum3([p \in Party |-> Minus(s[p], t[p])]) = Minus(Sum3(s), Sum3(t))
<1> DEFINE n == [p \in Party |-> Neg(t[p])]
<1>1. t[0] \in F /\ t[1] \in F /\ t[2] \in F /\ n \in Sharing
  BY Sum3Type, FieldClosed DEF Sharing
<1>2. Sum3(n) = Plus(Plus(Neg(t[0]), Neg(t[1])), Neg(t[2]))
  BY DEF Sum3, Party
<1>3. Sum3(n) = Neg(Sum3(t))
  <2>1. Plus(t[0], t[1]) \in F
    BY <1>1, FieldClosed
  <2>2. Neg(Plus(Plus(t[0], t[1]), t[2])) = Plus(Neg(Plus(t[0], t[1])), Neg(t[2]))
    BY <1>1, <2>1, NegPlus
  <2>3. Neg(Plus(t[0], t[1])) = Plus(Neg(t[0]), Neg(t[1]))
    BY <1>1, NegPlus
  <2> QED BY <1>2, <2>2, <2>3 DEF Sum3
<1>4. [p \in Party |-> Minus(s[p], t[p])] = [p \in Party |-> Plus(s[p], n[p])]
  BY DEF Minus
<1>5. Sum3([p \in Party |-> Plus(s[p], n[p])]) = Plus(Sum3(s), Sum3(n))
  BY <1>1, Sum3Plus
<1> QED BY <1>3, <1>4, <1>5 DEF Minus

\* share3 produces a sharing of its argument whatever the random draws are.
LEMMA Share3Sound ==
  ASSUME NEW v \in F, NEW s0 \in F, NEW s1 \in F,
         NEW s \in Sharing, s[0] = s0, s[1] = s1, s[2] = Minus(Minus(v, s0), s1)
  PROVE  Sum3(s) = v
<1>1. Minus(v, s0) \in F /\ Minus(Minus(v, s0), s1) \in F
  BY MinusPlus
<1>2. Plus(Plus(s0, s1), Minus(Minus(v, s0), s1)) = Plus(s0, Plus(s1, Minus(Minus(v, s0), s1)))
  BY <1>1, PlusGroup
<1>3. Plus(s1, Minus(Minus(v, s0), s1)) = Minus(v, s0)
  BY <1>1, MinusPlus
<1>4. Plus(s0, Minus(v, s0)) = v
  BY MinusPlus
<1> QED BY <1>2, <1>3, <1>4 DEF Sum3

\* Absorbing v at party 0 adds v once to the shared value.
LEMMA Sum3Absorb ==
  ASSUME NEW s \in Sharing, NEW v \in F
  PROVE  /\ [p \in Party |-> Absorb(p, s[p], v)] \in Sharing
         /\ Sum3([p \in Party |-> Absorb(p, s[p], v)]) = Plus(Sum3(s), v)
<1>1. s[0] \in F /\ s[1] \in F /\ s[2] \in F /\ Plus(s[0], s[1]) \in F
  BY Sum3Type, FieldClosed
<1>2. [p \in Party |-> Absorb(p, s[p], v)] \in Sharing
  BY FieldClosed DEF Sharing, Absorb
<1>3. Sum3([p \in Party |-> Absorb(p, s[p], v)]) = Plus(Plus(Plus(s[0], v), s[1]), s[2])
  BY DEF Sum3, Party, Absorb
<1>4. Plus(Plus(s[0], v), s[1]) = Plus(Plus(s[0], s[1]), v)
  BY <1>1, PlusSwap
<1>5. Plus(Plus(Plus(s[0], s[1]), v), s[2]) = Plus(Plus(Plus(s[0], s[1]), s[2]), v)
  BY <1>1, PlusSwap
<1> QED BY <1>2, <1>3, <1>4, <1>5 DEF Sum3

\* (A + d)(B + e) = AB + dB + eA + de, in the order the code adds the terms.
LEMMA BeaverExpansion ==
  ASSUME NEW A \in F, NEW B \in F, NEW d \in F, NEW e \in F
  PROVE  Plus(Plus(Plus(Times(A, B), Times(d, B)), Times(e, A)), Times(d, e))
           = Times(Plus(A, d), Plus(B, e))
<1>1. /\ Times(A, B) \in F /\ Times(d, B) \in F /\ Times(e, A) \in F /\ Times(d, e) \in F
      /\ Plus(A, d) \in F
  BY FieldClosed
<1>2. Times(Plus(A, d), Plus(B, e)) = Plus(Times(Plus(A, d), B), Times(Plus(A, d), e))
  BY <1>1, Distributive
<1>3. Times(Plus(A, d), B) = Plus(Times(A, B), Times(d, B))
  BY TimesPlusRight
<1>4. Times(Plus(A, d), e) = Plus(Times(e, A), Times(d, e))
  BY TimesPlusRight, TimesMonoid
<1>5. Plus(Times(A, B), Times(d, B)) \in F
  BY <1>1, FieldClosed
<1>6. Plus(Plus(Plus(Times(A, B), Times(d, B)), Times(e, A)), Times(d, e))
        = Plus(Plus(Times(A, B), Times(d, B)), Plus(Times(e, A), Times(d, e)))
  BY <1>1, <1>5, PlusGroup
<1> QED BY <1>2, <1>3, <1>4, <1>6

\* Beaver multiplication (prover.rs mul_gate): from a sharing of x, a sharing of
\* y and a triple with c = a * b, the parties' results reconstruct to x * y.
LEMMA BeaverSound ==
  ASSUME NEW x \in Sharing, NEW y \in Sharing,
         NEW a \in Sharing, NEW b \in Sharing, NEW c \in Sharing,
         Sum3(c) = Times(Sum3(a), Sum3(b)),
         NEW d \in F, d = Sum3([p \in Party |-> Minus(x[p], a[p])]),
         NEW e \in F, e = Sum3([p \in Party |-> Minus(y[p], b[p])])
  PROVE  Sum3([p \in Party |->
                 Absorb(p, Plus(Plus(c[p], Times(d, b[p])), Times(e, a[p])), Times(d, e))])
           = Times(Sum3(x), Sum3(y))
<1> DEFINE db == [p \in Party |-> Times(b[p], d)]
           ea == [p \in Party |-> Times(a[p], e)]
           cd == [p \in Party |-> Plus(c[p], db[p])]
           z  == [p \in Party |-> Plus(cd[p], ea[p])]
           A == Sum3(a)
           B == Sum3(b)
<1>1. db \in Sharing /\ ea \in Sharing
  BY FieldClosed DEF Sharing
<1>2. cd \in Sharing
  BY <1>1, FieldClosed DEF Sharing
<1>3. z \in Sharing
  BY <1>1, <1>2, FieldClosed DEF Sharing
<1>4. A \in F /\ B \in F /\ Sum3(x) \in F /\ Sum3(y) \in F /\ Times(d, e) \in F
  BY Sum3Type, FieldClosed
<1>5. Sum3(db) = Times(d, B) /\ Sum3(ea) = Times(e, A)
  BY <1>4, Sum3Times, TimesMonoid
<1>6. Sum3(cd) = Plus(Times(A, B), Times(d, B))
  BY <1>1, <1>5, Sum3Plus
<1>7. Sum3(z) = Plus(Plus(Times(A, B), Times(d, B)), Times(e, A))
  BY <1>1, <1>2, <1>5, <1>6, Sum3Plus
<1>8. Sum3([p \in Party |-> Absorb(p, z[p], Times(d, e))]) = Plus(Sum3(z), Times(d, e))
  BY <1>3, <1>4, Sum3Absorb
<1>9. Plus(Sum3(z), Times(d, e)) = Times(Plus(A, d), Plus(B, e))
  BY <1>4, <1>7, BeaverExpansion
<1>10. Plus(A, d) = Sum3(x) /\ Plus(B, e) = Sum3(y)
  BY <1>4, Sum3Minus, MinusPlus
<1>11. ASSUME NEW p \in Party
       PROVE  z[p] = Plus(Plus(c[p], Times(d, b[p])), Times(e, a[p]))
  <2>1. a[p] \in F /\ b[p] \in F
    BY DEF Sharing
  <2>2. Times(b[p], d) = Times(d, b[p]) /\ Times(a[p], e) = Times(e, a[p])
    BY <2>1, TimesMonoid
  <2> QED BY <2>2
<1>12. [p \in Party |-> Absorb(p, z[p], Times(d, e))]
         = [p \in Party |->
              Absorb(p, Plus(Plus(c[p], Times(d, b[p])), Times(e, a[p])), Times(d, e))]
  BY <1>11
<1> QED BY <1>8, <1>9, <1>10, <1>12
-----------------------------------------------------------------------------
\* Every set of natural numbers that is not empty has a least element.
LEMMA LeastElement ==
  ASSUME NEW T, T \subseteq Nat, T # {}
  PROVE  \E x \in T : \A y \in T : ~(y < x)
<1> DEFINE R == {ss \in Nat \X Nat : ss[1] < ss[2]}
<1>1. IsWellFoundedOn(R, Nat)
  BY NatLessThanWellFounded DEF OpToRel
<1> HIDE DEF R
<1>2. \E x \in T : \A y \in T : ~(<<y, x>> \in R)
  BY <1>1, WFMin
<1> QED
  BY <1>2 DEF R

\* Induction over numbers below n, from all smaller ones.
LEMMA StrongInduction ==
  ASSUME NEW D, D \subseteq Nat, NEW T,
         \A i \in D : (\A j \in D : j < i => j \in T) => i \in T
  PROVE  D \subseteq T
<1> SUFFICES ASSUME D \ T # {} PROVE FALSE
  OBVIOUS
<1>1. PICK x \in D \ T : \A y \in D \ T : ~(y < x)
  BY LeastElement
<1>2. \A j \in D : j < x => j \in T
  BY <1>1
<1> QED
  BY <1>1, <1>2

\* Induction: what holds 0 and with n also n + 1 holds every natural number.
LEMMA SetInduction ==
  ASSUME NEW S, 0 \in S, \A n \in Nat : n \in S => n + 1 \in S
  PROVE  Nat \subseteq S
<1> DEFINE T == Nat \ S
<1> SUFFICES ASSUME T # {} PROVE FALSE
  OBVIOUS
<1>1. PICK x \in T : \A y \in T : ~(y < x)
  BY LeastElement
<1>2. x \in Nat /\ x # 0
  OBVIOUS
<1>3. x - 1 \in Nat /\ x - 1 < x
  BY <1>2
<1>4. x - 1 \in S
  BY <1>1, <1>3
<1>5. (x - 1) + 1 \in S
  BY <1>3, <1>4
<1> QED
  BY <1>2, <1>5

\* Induction up to n.
LEMMA RangeInduction ==
  ASSUME NEW n \in Nat, NEW S, 0 \in S, \A i \in 1 .. n : i - 1 \in S => i \in S
  PROVE  0 .. n \subseteq S
<1> DEFINE T == {k \in Nat : k <= n => k \in S}
<1>1. 0 \in T
  OBVIOUS
<1>2. ASSUME NEW k \in Nat, k \in T PROVE k + 1 \in T
  <2>1. k + 1 <= n => k \in S /\ k + 1 \in 1 .. n /\ (k + 1) - 1 = k
    BY <1>2
  <2> QED
    BY <2>1
<1> HIDE DEF T
<1>3. Nat \subseteq T
  BY <1>1, <1>2, SetInduction
<1> QED
  BY <1>3 DEF T

\* A step of a recursive definition of a function from D, numbers up to m, to V: what it
\* gives for i depends only on the values before i.
CausalStep(D, m, V, Step) ==
  /\ D \subseteq Nat /\ m \in Nat /\ \A i \in D : i <= m
  /\ V # {}
  /\ Step \in [[D -> V] \X D -> V]
  /\ \A f, g \in [D -> V] : \A i \in D :
       (\A j \in D : j < i => f[j] = g[j]) => Step[<<f, i>>] = Step[<<g, i>>]

\* Such a definition has a solution.
LEMMA RecursiveFunctionExists ==
  ASSUME NEW D, NEW m, NEW V, NEW Step, CausalStep(D, m, V, Step)
  PROVE  \E f \in [D -> V] : \A i \in D : f[i] = Step[<<f, i>>]
<1> SUFFICES ASSUME D \subseteq Nat, m \in Nat, \A i \in D : i <= m, V # {},
                    Step \in [[D -> V] \X D -> V],
                    \A f, g \in [D -> V] : \A i \in D :
                      (\A j \in D : j < i => f[j] = g[j]) => Step[<<f, i>>] = Step[<<g, i>>]
             PROVE  \E f \in [D -> V] : \A i \in D : f[i] = Step[<<f, i>>]
  BY DEF CausalStep
<1> PICK w \in V : TRUE
  OBVIOUS
<1> DEFINE Solved(k, f) == \A i \in D : i < k => f[i] = Step[<<f, i>>]
           S == {k \in Nat : \E f \in [D -> V] : Solved(k, f)}
<1>1. 0 \in S
  <2>1. [i \in D |-> w] \in [D -> V]
    OBVIOUS
  <2>2. ASSUME NEW i \in D PROVE ~(i < 0)
    <3>1. i \in Nat
      OBVIOUS
    <3> QED
      BY <3>1
  <2>3. Solved(0, [i \in D |-> w])
    BY <2>2
  <2> QED
    BY <2>1, <2>3
<1>2. ASSUME NEW k \in Nat, k \in S
      PROVE  k + 1 \in S
  <2>1. PICK f \in [D -> V] : Solved(k, f)
    BY <1>2
  <2>2. CASE k \notin D
    <3>1. \A i \in D : i < k + 1 => i < k
      BY <2>2
    <3>2. Solved(k + 1, f)
      BY <2>1, <3>1
    <3> QED
      BY <3>2
  <2>3. CASE k \in D
    <3> DEFINE x == Step[<<f, k>>]
               g == [f EXCEPT ![k] = x]
    <3>1. x \in V
      BY <2>3
    <3> HIDE DEF x
    <3>2. g \in [D -> V] /\ g[k] = x /\ \A j \in D : j < k => g[j] = f[j]
      BY <2>3, <3>1
    <3> HIDE DEF g
    <3>3. ASSUME NEW i \in D, i <= k PROVE Step[<<g, i>>] = Step[<<f, i>>]
      <4>1. ASSUME NEW j \in D, j < i PROVE g[j] = f[j]
        <5>1. j \in Nat /\ i \in Nat
          OBVIOUS
        <5>2. j < k
          BY <3>3, <4>1, <5>1
        <5> QED
          BY <5>2, <3>2
      <4> QED
        BY <3>2, <4>1
    <3>4. ASSUME NEW i \in D, i < k + 1 PROVE i = k \/ i < k
      <4>1. i \in Nat
        OBVIOUS
      <4> QED
        BY <3>4, <4>1
    <3>5. ASSUME NEW i \in D, i < k + 1
          PROVE  g[i] = Step[<<g, i>>]
      <4>1. CASE i = k
        BY <4>1, <3>2, <3>3 DEF x
      <4>2. CASE i < k
        <5>1. g[i] = f[i] /\ f[i] = Step[<<f, i>>] /\ i <= k
          BY <4>2, <2>1, <3>2
        <5> QED
          BY <5>1, <3>3
      <4> QED
        BY <3>4, <3>5, <4>1, <4>2
    <3>6. Solved(k + 1, g)
      BY <3>5
    <3> QED
      BY <3>2, <3>6
  <2> QED
    BY <2>2, <2>3
<1> HIDE DEF S
<1>3. Nat \subseteq S
  BY <1>1, <1>2, SetInduction
<1>4. m + 1 \in S
  BY <1>3
<1>5. PICK f \in [D -> V] : Solved(m + 1, f)
  BY <1>4 DEF S
<1>6. ASSUME NEW i \in D PROVE i < m + 1
  <2>1. i \in Nat /\ i <= m
    OBVIOUS
  <2> QED
    BY <2>1
<1> QED
  BY <1>5, <1>6
-----------------------------------------------------------------------------
\* What Circuit::validate guarantees.
LEMMA ValidCircuit ==
  ASSUME NEW c \in Circuit, validate(c) = "Ok"
  PROVE  /\ \A i \in DOMAIN c.nodes : \A x \in operands(c.nodes[i]) : x < i
         /\ Cardinality(Leaves(c.nodes, "SecretInput")) = c.num_secret_inputs
         /\ Cardinality(Leaves(c.nodes, "PublicInput")) = c.num_public_inputs
         /\ \A k \in DOMAIN c.outputs : c.outputs[k] <= Len(c.nodes)
<1>1. c.nodes \in Seq(Node) /\ c.outputs \in Seq(NodeId)
  BY DEF Circuit
<1>2. BadGates(c.nodes) = {}
  BY DEF validate
<1>3. ASSUME NEW i \in DOMAIN c.nodes, NEW x \in operands(c.nodes[i])
      PROVE  x < i
  <2>1. c.nodes[i] \in Node /\ i \in Nat
    BY <1>1
  <2>2. x \in Nat
    BY <2>1 DEF operands, IsGate, Node, NodeId
  <2>3. ~(x >= i)
    BY <1>2 DEF BadGates
  <2> QED BY <2>1, <2>2, <2>3
<1>4. /\ Cardinality(Leaves(c.nodes, "SecretInput")) = c.num_secret_inputs
      /\ Cardinality(Leaves(c.nodes, "PublicInput")) = c.num_public_inputs
  BY <1>2 DEF validate
<1>5. ~ \E k \in DOMAIN c.outputs : c.outputs[k] > Len(c.nodes)
  BY <1>2, <1>4 DEF validate
<1>6. \A k \in DOMAIN c.outputs : c.outputs[k] <= Len(c.nodes)
  BY <1>1, <1>5 DEF NodeId
<1> QED BY <1>3, <1>4, <1>6

\* Passing the node at position n moves exactly the cursor of its kind, and a leaf
\* at position n is not the last of more leaves than there are.
LEMMA LeavesBeforeStep ==
  ASSUME NEW ns \in Seq(Node), NEW n \in 1 .. Len(ns), NEW op
  PROVE  /\ Cardinality(LeavesBefore(ns, op, n)) \in Nat
         /\ ns[n].op = op => /\ Cardinality(LeavesBefore(ns, op, n + 1))
                                  = Cardinality(LeavesBefore(ns, op, n)) + 1
                             /\ Cardinality(LeavesBefore(ns, op, n)) < Cardinality(Leaves(ns, op))
         /\ ns[n].op # op => LeavesBefore(ns, op, n + 1) = LeavesBefore(ns, op, n)
<1> DEFINE B == LeavesBefore(ns, op, n)
<1>1. n \in Nat /\ Len(ns) \in Nat
  OBVIOUS
<1>2. IsFiniteSet(1 .. Len(ns)) /\ IsFiniteSet(1 .. n - 1)
  BY <1>1, FS_Interval
<1>3. IsFiniteSet(B) /\ Cardinality(B) \in Nat
  <2>1. B \subseteq 1 .. n - 1
    BY DEF LeavesBefore
  <2> QED BY <1>2, <2>1, FS_Subset, FS_CardinalityType
<1>4. IsFiniteSet(Leaves(ns, op)) /\ Cardinality(Leaves(ns, op)) \in Nat
  <2>1. Leaves(ns, op) \subseteq 1 .. Len(ns)
    BY DEF Leaves
  <2> QED BY <1>2, <2>1, FS_Subset, FS_CardinalityType
<1>5. ASSUME ns[n].op = op
      PROVE  /\ Cardinality(LeavesBefore(ns, op, n + 1)) = Cardinality(B) + 1
             /\ Cardinality(B) < Cardinality(Leaves(ns, op))
  <2>1. LeavesBefore(ns, op, n + 1) = B \cup {n}
    BY <1>1, <1>5 DEF LeavesBefore
  <2>2. n \notin B
    BY <1>1 DEF LeavesBefore
  <2>3. Cardinality(B \cup {n}) = Cardinality(B) + 1
    BY <1>3, <2>2, FS_AddElement
  <2>4. B \cup {n} \subseteq Leaves(ns, op)
    BY <1>1, <1>5 DEF LeavesBefore, Leaves
  <2>5. Cardinality(B \cup {n}) <= Cardinality(Leaves(ns, op))
    BY <1>4, <2>4, FS_Subset
  <2>6. Cardinality(LeavesBefore(ns, op, n + 1)) = Cardinality(B) + 1
    BY <2>1, <2>3
  <2>7. Cardinality(B) < Cardinality(Leaves(ns, op))
    <3> HIDE DEF B
    <3> QED BY <1>3, <1>4, <2>3, <2>5
  <2> QED BY <2>6, <2>7
<1>6. ASSUME ns[n].op # op
      PROVE  LeavesBefore(ns, op, n + 1) = B
  BY <1>1, <1>6 DEF LeavesBefore
<1> QED BY <1>3, <1>5, <1>6

\* No leaf comes before the first node.
LEMMA NoLeavesBefore ==
  ASSUME NEW ns, NEW op
  PROVE  Cardinality(LeavesBefore(ns, op, 0 + 1)) = 0
<1>1. LeavesBefore(ns, op, 0 + 1) = {}
  BY DEF LeavesBefore
<1> QED BY <1>1, FS_EmptySet

\* The operands of a gate of a valid circuit are earlier nodes.
LEMMA OperandsBefore ==
  ASSUME NEW c \in Circuit, validate(c) = "Ok", NEW i \in DOMAIN c.nodes, IsGate(c.nodes[i])
  PROVE  /\ c.nodes[i].a \in DOMAIN c.nodes /\ c.nodes[i].a < i
         /\ c.nodes[i].b \in DOMAIN c.nodes /\ c.nodes[i].b < i
<1>1. c.nodes \in Seq(Node)
  BY DEF Circuit
<1>2. DOMAIN c.nodes = 1 .. Len(c.nodes) /\ Len(c.nodes) \in Nat
  BY <1>1
<1>3. c.nodes[i] \in Node
  BY <1>1
<1>4. c.nodes[i].a \in NodeId /\ c.nodes[i].b \in NodeId
  BY <1>3 DEF IsGate, Node
<1>5. c.nodes[i].a < i /\ c.nodes[i].b < i
  BY ValidCircuit DEF operands
<1> QED
  BY <1>2, <1>4, <1>5 DEF NodeId

\* node_depends_on_secrets does what its recursion says, for every node at once.
LEMMA DependsEquation ==
  ASSUME NEW c \in Circuit, validate(c) = "Ok", NEW i \in DOMAIN c.nodes
  PROVE  LET dep == node_depends_on_secrets(c)
         IN  dep[i] = \/ c.nodes[i].op = "SecretInput"
                      \/ IsGate(c.nodes[i]) /\ (dep[c.nodes[i].a] \/ dep[c.nodes[i].b])
<1> DEFINE D == DOMAIN c.nodes
           E(f, j) == \/ c.nodes[j].op = "SecretInput"
                      \/ IsGate(c.nodes[j]) /\ (f[c.nodes[j].a] \/ f[c.nodes[j].b])
           Step == [q \in [D -> BOOLEAN] \X D |-> E(q[1], q[2])]
<1>1. c.nodes \in Seq(Node) /\ D = 1 .. Len(c.nodes) /\ Len(c.nodes) \in Nat
  BY DEF Circuit
<1>2. D \subseteq Nat /\ \A j \in D : j <= Len(c.nodes)
  BY <1>1
<1>3. Step \in [[D -> BOOLEAN] \X D -> BOOLEAN]
  <2>1. ASSUME NEW q \in [D -> BOOLEAN] \X D
        PROVE  E(q[1], q[2]) \in BOOLEAN
    OBVIOUS
  <2> HIDE DEF E
  <2> QED
    BY <2>1
<1>4. ASSUME NEW f \in [D -> BOOLEAN], NEW g \in [D -> BOOLEAN], NEW j \in D,
             \A k \in D : k < j => f[k] = g[k]
      PROVE  Step[<<f, j>>] = Step[<<g, j>>]
  <2>1. IsGate(c.nodes[j]) => /\ f[c.nodes[j].a] = g[c.nodes[j].a]
                              /\ f[c.nodes[j].b] = g[c.nodes[j].b]
    BY <1>4, OperandsBefore
  <2>2. E(f, j) = E(g, j)
    BY <2>1
  <2>3. Step[<<f, j>>] = E(f, j) /\ Step[<<g, j>>] = E(g, j)
    <3> HIDE DEF E
    <3> QED
      OBVIOUS
  <2> QED
    BY <2>2, <2>3
<1>5. \E f \in [D -> BOOLEAN] : \A j \in D : f[j] = Step[<<f, j>>]
  <2>1. CausalStep(D, Len(c.nodes), BOOLEAN, Step)
    <3> HIDE DEF D, Step
    <3> QED
      BY <1>1, <1>2, <1>3, <1>4 DEF CausalStep
  <2> HIDE DEF D, Step
  <2> QED
    BY <2>1, RecursiveFunctionExists
<1>6. PICK f \in [D -> BOOLEAN] : \A j \in D : f[j] = Step[<<f, j>>]
  BY <1>5
<1>7. f = [j \in D |-> E(f, j)]
  <2> HIDE DEF E
  <2>1. \A j \in D : f[j] = E(f, j)
    BY <1>6
  <2> QED
    BY <2>1
<1>8. node_depends_on_secrets(c) = CHOOSE g : g = [j \in D |-> E(g, j)]
  BY DEF node_depends_on_secrets
<1>9. node_depends_on_secrets(c) = [j \in D |-> E(node_depends_on_secrets(c), j)]
  <2> HIDE DEF E, D
  <2> QED
    BY <1>7, <1>8
<1>10. node_depends_on_secrets(c)[i] = E(node_depends_on_secrets(c), i)
  <2> HIDE DEF E
  <2> QED
    BY <1>9
<1> QED
  BY <1>10
=============================================================================
