------------------------------ MODULE MpcProofs ------------------------------
(***************************************************************************)
(* The MPC simulators and the evaluation of circuits on them, for every    *)
(* number of parties, every field and every circuit that validates.  First *)
(* what the operations on shares do to the value shared, by induction on   *)
(* the parties; then that every call keeps every value in existence sound; *)
(* then that the loop of evaluate_mpc computes evaluate_reference; last    *)
(* the transcript.                                                         *)
(***************************************************************************)
EXTENDS MpcEvaluation, CircuitTheorems, SequenceTheorems, TLAPS

-----------------------------------------------------------------------------
(* Sharing.                                                                *)

\* The partial sums follow the order of the parties.
LEMMA PartialSumsEquation ==
  ASSUME NEW s \in Seq(F)
  PROVE  /\ PartialSums(s) \in [0 .. Len(s) -> F]
         /\ PartialSums(s)[0] = Zero
         /\ \A i \in 1 .. Len(s) : PartialSums(s)[i] = Plus(PartialSums(s)[i - 1], s[i])
<1> DEFINE D == 0 .. Len(s)
           E(f, i) == IF i = 0 THEN Zero ELSE Plus(f[i - 1], s[i])
           Step == [q \in [D -> F] \X D |-> E(q[1], q[2])]
<1>1. D \subseteq Nat /\ Len(s) \in Nat /\ Zero \in F /\ \A i \in D : i <= Len(s)
  BY FieldClosed
<1>2. ASSUME NEW f \in [D -> F], NEW i \in D
      PROVE  E(f, i) \in F
  <2>1. CASE i = 0
    BY <2>1, FieldClosed
  <2>2. CASE i # 0
    <3>1. i - 1 \in D /\ i \in 1 .. Len(s)
      BY <2>2, <1>1
    <3>2. f[i - 1] \in F /\ s[i] \in F
      BY <3>1
    <3> QED
      BY <3>2, <2>2, FieldClosed
  <2> QED
    BY <2>1, <2>2
<1>3. Step \in [[D -> F] \X D -> F]
  BY <1>2
<1>4. ASSUME NEW f \in [D -> F], NEW g \in [D -> F], NEW i \in D,
             \A j \in D : j < i => f[j] = g[j]
      PROVE  Step[<<f, i>>] = Step[<<g, i>>]
  <2>1. i = 0 \/ (i - 1 \in D /\ i - 1 < i)
    BY <1>1
  <2> QED
    BY <1>4, <2>1
<1>5. \E f \in [D -> F] : \A i \in D : f[i] = Step[<<f, i>>]
  <2>1. CausalStep(D, Len(s), F, Step)
    BY <1>1, <1>3, <1>4 DEF CausalStep
  <2> HIDE DEF D, Step
  <2> QED
    BY <2>1, RecursiveFunctionExists
<1>6. PICK f \in [D -> F] : \A i \in D : f[i] = E(f, i)
  BY <1>5
<1>7. f = [i \in D |-> E(f, i)]
  BY <1>6
<1>8. PartialSums(s) = CHOOSE g : g = [i \in D |-> E(g, i)]
  BY DEF PartialSums
<1>9. PartialSums(s) = [i \in D |-> E(PartialSums(s), i)]
  BY <1>7, <1>8
<1>10. PartialSums(s) \in [D -> F]
  <2> DEFINE G == PartialSums(s)
             T == {i \in D : G[i] \in F}
  <2>1. 0 \in T
    BY <1>1, <1>9
  <2>2. ASSUME NEW i \in 1 .. Len(s), i - 1 \in T
        PROVE  i \in T
    <3>1. i \in D /\ i # 0 /\ s[i] \in F
      BY <1>1
    <3>2. G[i] = Plus(G[i - 1], s[i])
      BY <1>9, <3>1
    <3> QED
      BY <2>2, <3>1, <3>2, FieldClosed
  <2> HIDE DEF T
  <2>3. D \subseteq T
    BY <1>1, <2>1, <2>2, RangeInduction
  <2>4. \A i \in D : G[i] \in F
    BY <2>3 DEF T
  <2>5. G = [i \in D |-> G[i]]
    BY <1>9
  <2> HIDE DEF G, D
  <2> QED
    BY <2>4, <2>5 DEF G
<1>11. ASSUME NEW i \in 1 .. Len(s)
       PROVE  PartialSums(s)[i] = Plus(PartialSums(s)[i - 1], s[i])
  <2>1. i \in D /\ i # 0
    BY <1>1
  <2> HIDE DEF D
  <2> QED
    BY <1>9, <2>1
<1>12. PartialSums(s)[0] = Zero
  <2>1. 0 \in D
    BY <1>1
  <2> HIDE DEF D
  <2> QED
    BY <1>9, <2>1
<1> QED
  BY <1>10, <1>11, <1>12

\* A function that follows the same equations ends in the sum.
LEMMA SumIs ==
  ASSUME NEW s \in Seq(F), NEW h, h[0] = Zero,
         \A i \in 1 .. Len(s) : h[i] = Plus(h[i - 1], s[i])
  PROVE  sum(s) = h[Len(s)]
<1> DEFINE S == {i \in 0 .. Len(s) : PartialSums(s)[i] = h[i]}
<1>1. Len(s) \in Nat
  OBVIOUS
<1>2. 0 \in S
  BY <1>1, PartialSumsEquation
<1>3. ASSUME NEW i \in 1 .. Len(s), i - 1 \in S
      PROVE  i \in S
  <2>1. PartialSums(s)[i] = Plus(PartialSums(s)[i - 1], s[i])
    BY PartialSumsEquation
  <2>2. PartialSums(s)[i] = h[i]
    BY <1>3, <2>1
  <2> QED
    BY <2>2, <1>1
<1> HIDE DEF S
<1>4. 0 .. Len(s) \subseteq S
  BY <1>1, <1>2, <1>3, RangeInduction
<1>5. Len(s) \in S
  BY <1>1, <1>4
<1> QED
  BY <1>5 DEF S, sum

\* What the sum of shares is built from.
LEMMA SumType ==
  ASSUME NEW s \in Seq(F)
  PROVE  sum(s) \in F
<1>1. Len(s) \in 0 .. Len(s)
  OBVIOUS
<1> QED
  BY <1>1, PartialSumsEquation DEF sum

\* add_secret adds the values shared.
LEMMA SumPlus ==
  ASSUME NEW x \in Seq(F), NEW y \in Seq(F), Len(x) = Len(y)
  PROVE  /\ add_secret(x, y) \in Seq(F) /\ Len(add_secret(x, y)) = Len(x)
         /\ sum(add_secret(x, y)) = Plus(sum(x), sum(y))
<1> DEFINE z == add_secret(x, y)
           X == PartialSums(x)
           Y == PartialSums(y)
           h == [i \in 0 .. Len(x) |-> Plus(X[i], Y[i])]
<1>1. z \in Seq(F) /\ Len(z) = Len(x) /\ \A i \in 1 .. Len(x) : z[i] = Plus(x[i], y[i])
  BY FieldClosed DEF add_secret
<1>2. h[0] = Zero
  BY PartialSumsEquation, FieldClosed, PlusGroup
<1>3. ASSUME NEW i \in 1 .. Len(x)
      PROVE  h[i] = Plus(h[i - 1], z[i])
  <2>1. i - 1 \in 0 .. Len(x) /\ i \in 0 .. Len(x) /\ x[i] \in F /\ y[i] \in F
    OBVIOUS
  <2>2. X[i - 1] \in F /\ Y[i - 1] \in F /\ X[i] = Plus(X[i - 1], x[i])
        /\ Y[i] = Plus(Y[i - 1], y[i])
    BY <2>1, PartialSumsEquation
  <2>3. Plus(Plus(X[i - 1], x[i]), Plus(Y[i - 1], y[i]))
          = Plus(Plus(X[i - 1], Y[i - 1]), Plus(x[i], y[i]))
    BY <2>1, <2>2, PlusInterleave, SMTT(30)
  <2> QED
    BY <1>1, <2>1, <2>2, <2>3
<1>4. h[Len(x)] = Plus(sum(x), sum(y))
  BY DEF sum
<1> HIDE DEF h, z
<1>5. sum(z) = h[Len(z)]
  BY <1>1, <1>2, <1>3, SumIs
<1> QED
  BY <1>1, <1>4, <1>5 DEF z

\* Zero absorbs.
LEMMA TimesZero ==
  ASSUME NEW v \in F
  PROVE  Times(Zero, v) = Zero
<1> DEFINE z == Times(Zero, v)
<1>1. z \in F /\ Zero \in F /\ Neg(z) \in F
  BY FieldClosed
<1>2. z = Plus(z, z)
  BY <1>1, TimesPlusRight, PlusGroup
<1>3. Plus(Plus(z, z), Neg(z)) = Plus(z, Plus(z, Neg(z)))
  BY <1>1, PlusGroup
<1>4. Plus(z, Neg(z)) = Zero /\ Plus(z, Zero) = z
  BY <1>1, PlusGroup
<1> QED
  BY <1>2, <1>3, <1>4

\* mul_public scales the value shared.
LEMMA SumTimes ==
  ASSUME NEW x \in Seq(F), NEW v \in F
  PROVE  /\ mul_public(x, v) \in Seq(F) /\ Len(mul_public(x, v)) = Len(x)
         /\ sum(mul_public(x, v)) = Times(sum(x), v)
<1> DEFINE z == mul_public(x, v)
           X == PartialSums(x)
           h == [i \in 0 .. Len(x) |-> Times(X[i], v)]
<1>1. z \in Seq(F) /\ Len(z) = Len(x) /\ \A i \in 1 .. Len(x) : z[i] = Times(x[i], v)
  BY FieldClosed DEF mul_public
<1>2. h[0] = Zero
  BY PartialSumsEquation, TimesZero
<1>3. ASSUME NEW i \in 1 .. Len(x)
      PROVE  h[i] = Plus(h[i - 1], z[i])
  <2>1. i - 1 \in 0 .. Len(x) /\ i \in 0 .. Len(x) /\ x[i] \in F
    OBVIOUS
  <2>2. X[i - 1] \in F /\ X[i] = Plus(X[i - 1], x[i])
    BY <2>1, PartialSumsEquation
  <2>3. Times(Plus(X[i - 1], x[i]), v) = Plus(Times(X[i - 1], v), Times(x[i], v))
    BY <2>1, <2>2, TimesPlusRight
  <2> QED
    BY <1>1, <2>1, <2>2, <2>3
<1>4. h[Len(x)] = Times(sum(x), v)
  BY DEF sum
<1> HIDE DEF h, z
<1>5. sum(z) = h[Len(z)]
  BY <1>1, <1>2, <1>3, SumIs
<1> QED
  BY <1>1, <1>4, <1>5 DEF z

\* Masking share by share masks the value shared.
LEMMA SumMinus ==
  ASSUME NEW x \in Seq(F), NEW y \in Seq(F), Len(x) = Len(y)
  PROVE  /\ [i \in DOMAIN x |-> Minus(x[i], y[i])] \in Seq(F)
         /\ Len([i \in DOMAIN x |-> Minus(x[i], y[i])]) = Len(x)
         /\ sum([i \in DOMAIN x |-> Minus(x[i], y[i])]) = Minus(sum(x), sum(y))
<1> DEFINE n == [i \in DOMAIN y |-> Neg(y[i])]
           z == [i \in DOMAIN x |-> Minus(x[i], y[i])]
           Y == PartialSums(y)
           h == [i \in 0 .. Len(y) |-> Neg(Y[i])]
<1>1. n \in Seq(F) /\ Len(n) = Len(y) /\ \A i \in 1 .. Len(y) : n[i] = Neg(y[i])
  BY FieldClosed
<1>2. Neg(Zero) = Zero
  <2>1. Neg(Zero) \in F /\ Zero \in F
    BY FieldClosed
  <2> QED
    BY <2>1, PlusGroup
<1>3. h[0] = Zero
  BY <1>2, PartialSumsEquation
<1>4. ASSUME NEW i \in 1 .. Len(y)
      PROVE  h[i] = Plus(h[i - 1], n[i])
  <2>1. i - 1 \in 0 .. Len(y) /\ i \in 0 .. Len(y) /\ y[i] \in F
    OBVIOUS
  <2>2. Y[i - 1] \in F /\ Y[i] = Plus(Y[i - 1], y[i])
    BY <2>1, PartialSumsEquation
  <2>3. Neg(Plus(Y[i - 1], y[i])) = Plus(Neg(Y[i - 1]), Neg(y[i]))
    BY <2>1, <2>2, NegPlus
  <2> QED
    BY <1>1, <2>1, <2>2, <2>3
<1>5. h[Len(y)] = Neg(sum(y))
  BY DEF sum
<1>6. add_secret(x, n) = z
  BY <1>1 DEF add_secret, Minus
<1> HIDE DEF h, n, z
<1>7. sum(n) = Neg(sum(y))
  BY <1>1, <1>3, <1>4, <1>5, SumIs
<1>8. z \in Seq(F) /\ Len(z) = Len(x) /\ sum(z) = Plus(sum(x), sum(n))
  BY <1>1, <1>6, SumPlus
<1> QED
  BY <1>7, <1>8 DEF z, Minus

\* add_public adds the public value once, however many parties there are.
LEMMA SumAddPublic ==
  ASSUME NEW x \in Seq(F), NEW v \in F, Len(x) >= 1
  PROVE  /\ add_public(x, v) \in Seq(F) /\ Len(add_public(x, v)) = Len(x)
         /\ sum(add_public(x, v)) = Plus(sum(x), v)
<1> DEFINE z == add_public(x, v)
           X == PartialSums(x)
           h == [i \in 0 .. Len(x) |-> IF i = 0 THEN Zero ELSE Plus(X[i], v)]
<1>1. /\ z \in Seq(F) /\ Len(z) = Len(x) /\ x[1] \in F
      /\ z[1] = Plus(x[1], v)
      /\ \A i \in 2 .. Len(x) : z[i] = x[i]
  BY FieldClosed DEF add_public
<1>2. h[0] = Zero
  OBVIOUS
<1>3. ASSUME NEW i \in 1 .. Len(x)
      PROVE  h[i] = Plus(h[i - 1], z[i])
  <2>1. i - 1 \in 0 .. Len(x) /\ i \in 0 .. Len(x) /\ x[i] \in F /\ i # 0
    OBVIOUS
  <2>2. X[i - 1] \in F /\ X[i] = Plus(X[i - 1], x[i]) /\ X[0] = Zero
    BY <2>1, PartialSumsEquation
  <2>3. h[i] = Plus(Plus(X[i - 1], x[i]), v)
    BY <2>1, <2>2
  <2>4. CASE i = 1
    <3>1. h[i - 1] = Zero /\ X[i - 1] = Zero /\ z[i] = Plus(x[i], v)
      BY <2>4, <2>2, <1>1
    <3>2. Plus(Plus(Zero, x[i]), v) = Plus(Zero, Plus(x[i], v))
      <4>1. x[i] \in F /\ Zero \in F
        BY <2>1, FieldClosed
      <4> QED
        BY <4>1, PlusGroup, Zenon
    <3>3. h[i] = Plus(Plus(Zero, x[i]), v)
      BY <2>3, <3>1
    <3> HIDE DEF h
    <3> QED
      BY <3>1, <3>2, <3>3
  <2>5. CASE i # 1
    <3>1. h[i - 1] = Plus(X[i - 1], v) /\ z[i] = x[i]
      BY <2>5, <2>1, <1>1
    <3> QED
      BY <3>1, <2>1, <2>2, <2>3, PlusSwap
  <2> QED
    BY <2>4, <2>5
<1>4. h[Len(x)] = Plus(sum(x), v)
  BY DEF sum
<1> HIDE DEF h, z
<1>5. sum(z) = h[Len(z)]
  BY <1>1, <1>2, <1>3, SumIs
<1> QED
  BY <1>1, <1>4, <1>5 DEF z

\* One more share.
LEMMA SumAppend ==
  ASSUME NEW r \in Seq(F), NEW v \in F
  PROVE  sum(Append(r, v)) = Plus(sum(r), v)
<1> DEFINE z == Append(r, v)
           n == Len(r)
           R == PartialSums(r)
           h == [i \in 0 .. n + 1 |-> IF i = n + 1 THEN Plus(R[n], v) ELSE R[i]]
<1>1. /\ z \in Seq(F) /\ Len(z) = n + 1 /\ n \in Nat /\ z[n + 1] = v
      /\ \A i \in 1 .. n : z[i] = r[i]
  OBVIOUS
<1>2. h[0] = Zero
  BY <1>1, PartialSumsEquation
<1>3. ASSUME NEW i \in 1 .. n + 1
      PROVE  h[i] = Plus(h[i - 1], z[i])
  <2>1. CASE i = n + 1
    BY <2>1, <1>1
  <2>2. CASE i \in 1 .. n
    <3>1. h[i] = R[i] /\ h[i - 1] = R[i - 1]
      BY <2>2, <1>1
    <3> QED
      BY <2>2, <3>1, <1>1, PartialSumsEquation
  <2> QED
    BY <1>1, <2>1, <2>2
<1>4. h[n + 1] = Plus(sum(r), v)
  BY <1>1 DEF sum
<1> HIDE DEF h, z
<1>5. sum(z) = h[Len(z)]
  BY <1>1, <1>2, <1>3, SumIs
<1> QED
  BY <1>1, <1>4, <1>5 DEF z

\* share_input: whatever the random draws, the shares add up to the secret.
LEMMA ShareInputSound ==
  ASSUME NEW count \in Nat \ {0}, NEW secret \in F, NEW s \in share_input(count, secret)
  PROVE  s \in Seq(F) /\ Len(s) = count /\ sum(s) = secret
<1>1. PICK r \in [1 .. count - 1 -> Coins] : s = Append(r, Minus(secret, sum(r)))
  BY DEF share_input
<1>2. r \in Seq(F) /\ Len(r) = count - 1
  BY CoinsAssumption
<1>3. sum(r) \in F
  BY <1>2, SumType
<1>4. Minus(secret, sum(r)) \in F /\ Plus(sum(r), Minus(secret, sum(r))) = secret
  BY <1>3, MinusPlus
<1>5. s \in Seq(F) /\ Len(s) = count
  BY <1>1, <1>2, <1>4
<1> QED
  BY <1>1, <1>2, <1>4, <1>5, SumAppend

\* mul_secret: with a triple of the right number of shares, the Beaver product of two
\* sharings shares the product.
LEMMA MulSecretSound ==
  ASSUME NEW count \in Nat \ {0}, NEW t \in Triples(count),
         NEW x \in Seq(F), NEW y \in Seq(F), Len(x) = count, Len(y) = count
  PROVE  /\ mul_secret(x, y, t) \in Seq(F) /\ Len(mul_secret(x, y, t)) = count
         /\ sum(mul_secret(x, y, t)) = Times(sum(x), sum(y))
<1>1. PICK a \in Coins, b \in Coins :
        t \in [a : share_input(count, a), b : share_input(count, b),
               c : share_input(count, Times(a, b))]
  <2> DEFINE Shared(a, b) == [a : share_input(count, a), b : share_input(count, b),
                              c : share_input(count, Times(a, b))]
  <2>1. t \in UNION {Shared(a, b) : a, b \in Coins}
    BY DEF Triples
  <2> HIDE DEF Shared
  <2>2. \E a \in Coins, b \in Coins : t \in Shared(a, b)
    BY <2>1
  <2> QED
    BY <2>2 DEF Shared
<1>2. a \in F /\ b \in F /\ Times(a, b) \in F
  BY <1>1, CoinsAssumption, FieldClosed
<1>3. /\ t.a \in share_input(count, a) /\ t.b \in share_input(count, b)
      /\ t.c \in share_input(count, Times(a, b))
  BY <1>1
<1>4. /\ t.a \in Seq(F) /\ Len(t.a) = count /\ sum(t.a) = a
      /\ t.b \in Seq(F) /\ Len(t.b) = count /\ sum(t.b) = b
      /\ t.c \in Seq(F) /\ Len(t.c) = count /\ sum(t.c) = Times(a, b)
  BY <1>2, <1>3, ShareInputSound
<1> DEFINE d == sum([i \in DOMAIN x |-> Minus(x[i], t.a[i])])
           e == sum([i \in DOMAIN x |-> Minus(y[i], t.b[i])])
           z == [i \in DOMAIN x |-> Plus(Plus(t.c[i], Times(d, t.b[i])), Times(e, t.a[i]))]
           X == sum(x)
           Y == sum(y)
<1>5. d = Minus(X, a)
  BY <1>4, SumMinus
<1>6. e = Minus(Y, b)
  <2>1. DOMAIN x = DOMAIN y
    OBVIOUS
  <2> QED
    BY <2>1, <1>4, SumMinus
<1>7. mul_secret(x, y, t) = add_public(z, Times(d, e))
  BY DEF mul_secret
<1>8. X \in F /\ Y \in F
  BY SumType
<1>9. d \in F /\ e \in F /\ Plus(a, d) = X /\ Plus(b, e) = Y /\ Times(d, e) \in F
  BY <1>2, <1>5, <1>6, <1>8, MinusPlus, FieldClosed
<1> HIDE DEF d, e, X, Y
<1> DEFINE db == mul_public(t.b, d)
           ea == mul_public(t.a, e)
           cd == add_secret(t.c, db)
<1>10. /\ db \in Seq(F) /\ Len(db) = count /\ sum(db) = Times(b, d)
       /\ ea \in Seq(F) /\ Len(ea) = count /\ sum(ea) = Times(a, e)
  BY <1>4, <1>9, SumTimes
<1>11. /\ \A i \in 1 .. count : db[i] = Times(t.b[i], d) /\ ea[i] = Times(t.a[i], e)
       /\ DOMAIN t.a = 1 .. count /\ DOMAIN t.b = 1 .. count /\ DOMAIN t.c = 1 .. count
  BY <1>4 DEF mul_public
<1> HIDE DEF db, ea
<1>12. /\ cd \in Seq(F) /\ Len(cd) = count /\ sum(cd) = Plus(Times(a, b), Times(b, d))
       /\ DOMAIN cd = 1 .. count
       /\ \A i \in 1 .. count : cd[i] = Plus(t.c[i], db[i])
  <2>1. Len(t.c) = Len(db)
    BY <1>4, <1>10
  <2>2. /\ add_secret(t.c, db) \in Seq(F) /\ Len(add_secret(t.c, db)) = Len(t.c)
        /\ sum(add_secret(t.c, db)) = Plus(sum(t.c), sum(db))
    BY <2>1, <1>4, <1>10, SumPlus
  <2> QED
    BY <2>2, <1>4, <1>10, <1>11 DEF add_secret
<1> HIDE DEF cd
<1>13. /\ add_secret(cd, ea) \in Seq(F) /\ Len(add_secret(cd, ea)) = count
       /\ sum(add_secret(cd, ea)) = Plus(sum(cd), sum(ea))
  BY <1>10, <1>12, SumPlus
<1>14. ASSUME NEW i \in 1 .. count
       PROVE  Plus(cd[i], ea[i]) = Plus(Plus(t.c[i], Times(d, t.b[i])), Times(e, t.a[i]))
  <2>1. t.a[i] \in F /\ t.b[i] \in F
    BY <1>4
  <2>2. Times(t.b[i], d) = Times(d, t.b[i]) /\ Times(t.a[i], e) = Times(e, t.a[i])
    BY <2>1, <1>9, TimesMonoid
  <2> QED
    BY <2>2, <1>11, <1>12
<1>15. add_secret(cd, ea) = z
  <2>1. DOMAIN x = 1 .. count
    OBVIOUS
  <2> QED
    BY <2>1, <1>12, <1>14 DEF add_secret
<1> HIDE DEF z
<1>16. /\ add_public(z, Times(d, e)) \in Seq(F) /\ Len(add_public(z, Times(d, e))) = count
       /\ sum(add_public(z, Times(d, e))) = Plus(sum(z), Times(d, e))
  BY <1>9, <1>13, <1>15, SumAddPublic
<1>17. sum(z) = Plus(Plus(Times(a, b), Times(d, b)), Times(e, a))
  <2>1. Times(b, d) = Times(d, b) /\ Times(a, e) = Times(e, a)
    BY <1>2, <1>9, TimesMonoid
  <2> QED
    BY <2>1, <1>10, <1>12, <1>13, <1>15
<1>18. Plus(sum(z), Times(d, e)) = Times(X, Y)
  BY <1>2, <1>9, <1>17, BeaverExpansion
<1> QED
  BY <1>7, <1>16, <1>18 DEF X, Y
-----------------------------------------------------------------------------
(* The simulators.                                                         *)

Kept == [shares : Seq(F), plain : F, contexts : SUBSET Simulators]

\* The shares of a value are those of some simulator's parties.
FitsSomewhere(shares) == \E s \in Simulators : Len(shares) = party_count[s]

HeapInv ==
  /\ heap \in Seq(Kept)
  /\ \A i \in DOMAIN heap : FitsSomewhere(heap[i].shares)
  /\ HeapSound
  /\ last \in {"Ok", "ContextMismatch", "TripleExhaustion", "TripleReuse"}

\* What one call does to the values in existence.
Grows ==
  /\ HeapInv'
  /\ \/ heap' = heap /\ last' # "Ok"
     \/ /\ last' = "Ok"
        /\ Len(heap') = Len(heap) + 1
        /\ \A i \in DOMAIN heap : i \in DOMAIN heap' /\ heap'[i] = heap[i]

\* A sound value joins those in existence.
LEMMA KeepStep ==
  ASSUME HeapInv, NEW shares \in Seq(F), NEW plain \in F, NEW contexts \in SUBSET Simulators,
         Keep(shares, plain, contexts), sum(shares) = plain, FitsSomewhere(shares)
  PROVE  /\ Grows /\ last' = "Ok"
         /\ heap'[Len(heap')] = [shares |-> shares, plain |-> plain, contexts |-> contexts]
<1> DEFINE x == [shares |-> shares, plain |-> plain, contexts |-> contexts]
<1>1. x \in Kept /\ x.shares = shares /\ x.plain = plain
  BY DEF Kept
<1>2. heap' = Append(heap, x) /\ last' = "Ok" /\ heap \in Seq(Kept)
  BY DEF Keep, HeapInv
<1> HIDE DEF x
<1>3. /\ heap' \in Seq(Kept) /\ Len(heap') = Len(heap) + 1 /\ Len(heap) \in Nat
      /\ DOMAIN heap = 1 .. Len(heap) /\ DOMAIN heap' = 1 .. Len(heap) + 1
      /\ \A i \in 1 .. Len(heap) : heap'[i] = heap[i]
      /\ heap'[Len(heap) + 1] = x
  BY <1>1, <1>2
<1>4. ASSUME NEW i \in DOMAIN heap'
      PROVE  FitsSomewhere(heap'[i].shares) /\ sum(heap'[i].shares) = heap'[i].plain
  <2>1. CASE i \in DOMAIN heap
    BY <1>3, <2>1 DEF HeapInv, HeapSound
  <2>2. CASE i = Len(heap) + 1
    BY <1>1, <1>3, <2>2
  <2> QED
    BY <1>3, <2>1, <2>2
<1>5. HeapSound' /\ \A i \in DOMAIN heap' : FitsSomewhere(heap'[i].shares)
  BY <1>4 DEF HeapSound
<1>6. HeapInv'
  BY <1>2, <1>3, <1>5 DEF HeapInv
<1> QED
  BY <1>2, <1>3, <1>6 DEF Grows, x

\* A refused call leaves them as they are.
LEMMA ErrorStep ==
  ASSUME HeapInv, NEW e \in {"ContextMismatch", "TripleExhaustion", "TripleReuse"}, Error(e)
  PROVE  Grows /\ last' = e
<1>1. heap' = heap /\ last' = e /\ last' # "Ok"
  BY DEF Error
<1>2. HeapInv'
  BY <1>1 DEF HeapInv, HeapSound
<1> QED
  BY <1>1, <1>2 DEF Grows

\* What is known of a value in existence.
LEMMA ValueFacts ==
  ASSUME HeapInv, NEW i \in DOMAIN heap
  PROVE  /\ heap[i].shares \in Seq(F) /\ heap[i].plain \in F
         /\ heap[i].contexts \in SUBSET Simulators
         /\ Len(heap[i].shares) \in Nat /\ Len(heap[i].shares) >= 2
         /\ FitsSomewhere(heap[i].shares)
         /\ sum(heap[i].shares) = heap[i].plain
<1>1. heap[i] \in Kept
  BY DEF HeapInv
<1>2. FitsSomewhere(heap[i].shares) /\ sum(heap[i].shares) = heap[i].plain
  BY DEF HeapInv, HeapSound
<1>3. PICK s \in Simulators : Len(heap[i].shares) = party_count[s]
  BY <1>2 DEF FitsSomewhere
<1>4. party_count[s] \in Nat \ {0, 1}
  BY SimulatorAssumption
<1> QED
  BY <1>1, <1>2, <1>3, <1>4 DEF Kept

\* A new input is a sound value of its simulator.
LEMMA InputStep ==
  ASSUME HeapInv, NEW s \in Simulators, NEW secret \in F, input(s, secret)
  PROVE  /\ Grows /\ last' = "Ok"
         /\ heap'[Len(heap')].plain = secret /\ heap'[Len(heap')].contexts = {s}
         /\ Len(heap'[Len(heap')].shares) = party_count[s]
<1>1. PICK shares \in share_input(party_count[s], secret) : Keep(shares, secret, {s})
  BY DEF input
<1>2. party_count[s] \in Nat \ {0}
  BY SimulatorAssumption
<1>3. shares \in Seq(F) /\ Len(shares) = party_count[s] /\ sum(shares) = secret
  BY <1>2, ShareInputSound
<1>4. FitsSomewhere(shares) /\ {s} \in SUBSET Simulators
  BY <1>3 DEF FitsSomewhere
<1>5. /\ Grows /\ last' = "Ok"
      /\ heap'[Len(heap')] = [shares |-> shares, plain |-> secret, contexts |-> {s}]
  BY <1>1, <1>3, <1>4, KeepStep
<1> QED
  BY <1>3, <1>5

\* The sum of two sound values is sound, or the two do not fit together.
LEMMA AddStep ==
  ASSUME HeapInv, NEW i \in DOMAIN heap, NEW j \in DOMAIN heap, add(heap[i], heap[j])
  PROVE  /\ Grows
         /\ last' = "Ok" =>
              /\ heap'[Len(heap')].plain = Plus(heap[i].plain, heap[j].plain)
              /\ heap'[Len(heap')].contexts = heap[i].contexts \cup heap[j].contexts
              /\ Len(heap'[Len(heap')].shares) = Len(heap[i].shares)
<1> DEFINE x == heap[i]
           y == heap[j]
           shares == add_secret(x.shares, y.shares)
           plain == Plus(x.plain, y.plain)
           contexts == x.contexts \cup y.contexts
<1>1. CASE SameContext(x, y)
  <2>1. Len(x.shares) = Len(y.shares) /\ Keep(shares, plain, contexts)
    BY <1>1 DEF add, SameContext
  <2>2. /\ x.shares \in Seq(F) /\ y.shares \in Seq(F) /\ FitsSomewhere(x.shares)
        /\ sum(x.shares) = x.plain /\ sum(y.shares) = y.plain
        /\ plain \in F /\ contexts \in SUBSET Simulators
    BY ValueFacts, FieldClosed
  <2>3. shares \in Seq(F) /\ Len(shares) = Len(x.shares) /\ sum(shares) = plain
    BY <2>1, <2>2, SumPlus
  <2>4. FitsSomewhere(shares)
    BY <2>2, <2>3 DEF FitsSomewhere
  <2> HIDE DEF shares, plain, contexts
  <2>5. /\ Grows /\ last' = "Ok"
        /\ heap'[Len(heap')] = [shares |-> shares, plain |-> plain, contexts |-> contexts]
    BY <2>1, <2>2, <2>3, <2>4, KeepStep
  <2> QED
    BY <2>3, <2>5 DEF plain, contexts
<1>2. CASE ~SameContext(x, y)
  BY <1>2, ErrorStep DEF add
<1> QED
  BY <1>1, <1>2

\* A sound value plus a public one is sound.
LEMMA AddPublicStep ==
  ASSUME HeapInv, NEW i \in DOMAIN heap, NEW v \in F, AddPublic(heap[i], v)
  PROVE  Grows /\ last' = "Ok"
<1> DEFINE x == heap[i]
           shares == add_public(x.shares, v)
           plain == Plus(x.plain, v)
<1>1. Keep(shares, plain, x.contexts)
  BY DEF AddPublic
<1>2. /\ x.shares \in Seq(F) /\ Len(x.shares) >= 1 /\ FitsSomewhere(x.shares)
      /\ sum(x.shares) = x.plain /\ plain \in F /\ x.contexts \in SUBSET Simulators
  BY ValueFacts, FieldClosed
<1>3. shares \in Seq(F) /\ Len(shares) = Len(x.shares) /\ sum(shares) = plain
  BY <1>2, SumAddPublic
<1>4. FitsSomewhere(shares)
  BY <1>2, <1>3 DEF FitsSomewhere
<1> HIDE DEF shares, plain
<1> QED
  BY <1>1, <1>2, <1>3, <1>4, KeepStep

\* A sound value times a public one is sound.
LEMMA MulPublicStep ==
  ASSUME HeapInv, NEW i \in DOMAIN heap, NEW v \in F, MulPublic(heap[i], v)
  PROVE  Grows /\ last' = "Ok"
<1> DEFINE x == heap[i]
           shares == mul_public(x.shares, v)
           plain == Times(x.plain, v)
<1>1. Keep(shares, plain, x.contexts)
  BY DEF MulPublic
<1>2. /\ x.shares \in Seq(F) /\ FitsSomewhere(x.shares)
      /\ sum(x.shares) = x.plain /\ plain \in F /\ x.contexts \in SUBSET Simulators
  BY ValueFacts, FieldClosed
<1>3. shares \in Seq(F) /\ Len(shares) = Len(x.shares) /\ sum(shares) = plain
  BY <1>2, SumTimes
<1>4. FitsSomewhere(shares)
  BY <1>2, <1>3 DEF FitsSomewhere
<1> HIDE DEF shares, plain
<1> QED
  BY <1>1, <1>2, <1>3, <1>4, KeepStep

\* The product of two sound values is sound, or the call is refused.
LEMMA MulStep ==
  ASSUME HeapInv, NEW s \in Simulators, NEW i \in DOMAIN heap, NEW j \in DOMAIN heap,
         mul(s, heap[i], heap[j])
  PROVE  /\ Grows
         /\ last' = "Ok" =>
              /\ heap'[Len(heap')].plain = Times(heap[i].plain, heap[j].plain)
              /\ heap'[Len(heap')].contexts = heap[i].contexts \cup heap[j].contexts
              /\ Len(heap'[Len(heap')].shares) = Len(heap[i].shares)
<1> DEFINE x == heap[i]
           y == heap[j]
           plain == Times(x.plain, y.plain)
           contexts == x.contexts \cup y.contexts
<1>1. CASE ~SameContext(x, y)
  BY <1>1, ErrorStep DEF mul
<1>2. CASE SameContext(x, y) /\ IssueError(s) # "Ok"
  <2>1. Error(IssueError(s)) /\ IssueError(s) \in {"TripleExhaustion", "TripleReuse"}
    BY <1>2 DEF mul, IssueError
  <2> QED
    BY <2>1, ErrorStep
<1>3. CASE SameContext(x, y) /\ IssueError(s) = "Ok" /\ provider_count[s] # Len(x.shares)
  BY <1>3, ErrorStep DEF mul
<1>4. CASE SameContext(x, y) /\ IssueError(s) = "Ok" /\ provider_count[s] = Len(x.shares)
  <2>1. PICK t \in Triples(provider_count[s]) :
          Keep(mul_secret(x.shares, y.shares, t), plain, contexts)
    BY <1>4 DEF mul
  <2> DEFINE shares == mul_secret(x.shares, y.shares, t)
  <2>2. /\ x.shares \in Seq(F) /\ y.shares \in Seq(F) /\ FitsSomewhere(x.shares)
        /\ sum(x.shares) = x.plain /\ sum(y.shares) = y.plain
        /\ plain \in F /\ contexts \in SUBSET Simulators
    BY ValueFacts, FieldClosed
  <2>3. provider_count[s] \in Nat \ {0}
    BY SimulatorAssumption
  <2>4. Len(x.shares) = provider_count[s] /\ Len(y.shares) = provider_count[s]
    BY <1>4 DEF SameContext
  <2>5. shares \in Seq(F) /\ Len(shares) = Len(x.shares) /\ sum(shares) = plain
    BY <2>2, <2>3, <2>4, MulSecretSound
  <2>6. FitsSomewhere(shares)
    BY <2>2, <2>5 DEF FitsSomewhere
  <2>7. Keep(shares, plain, contexts)
    BY <2>1
  <2> HIDE DEF shares, plain, contexts
  <2>8. /\ Grows /\ last' = "Ok"
        /\ heap'[Len(heap')] = [shares |-> shares, plain |-> plain, contexts |-> contexts]
    BY <2>2, <2>5, <2>6, <2>7, KeepStep
  <2> QED
    BY <2>5, <2>8 DEF plain, contexts
<1> QED
  BY <1>1, <1>2, <1>3, <1>4

\* What the triple providers keep.
IdInv ==
  /\ next_id \in [Simulators -> 0 .. MAX_ID]
  /\ issued_ids \in [Simulators -> SUBSET (0 .. MAX_ID)]
  /\ IdsInOrder
  /\ TriplesUsedOnce

\* Calls that use no triple leave the providers alone.
LEMMA IdsKept ==
  ASSUME IdInv, UNCHANGED <<providerVars, products>>, last' # "TripleReuse"
  PROVE  IdInv'
BY DEF IdInv, IdsInOrder, TriplesUsedOnce, providerVars

\* The id of a new product has not been issued before, and the check for reuse is quiet.
LEMMA MulIds ==
  ASSUME IdInv, NEW s \in Simulators, NEW x, NEW y, mul(s, x, y)
  PROVE  IdInv'
<1>1. next_id[s] \in 0 .. MAX_ID /\ next_id[s] \notin issued_ids[s] /\ MAX_ID \in Nat
  BY SimulatorAssumption DEF IdInv, IdsInOrder
<1>2. CASE UNCHANGED <<providerVars, products>> /\ last' # "TripleReuse"
  BY <1>2, IdsKept
<1>3. CASE IssueError(s) = "Ok" /\ SameContext(x, y)
  <2>1. issue_id(s) /\ next_id[s] # MAX_ID
    BY <1>3 DEF mul, IssueError
  <2>2. /\ next_id' = [next_id EXCEPT ![s] = next_id[s] + 1]
        /\ issued_ids' = [issued_ids EXCEPT ![s] = issued_ids[s] \cup {next_id[s]}]
    BY <2>1 DEF issue_id, NextId
  <2>3. /\ last' # "TripleReuse"
        /\ \/ products' = products
           \/ \E n : products' = products \cup {[at |-> n, sim |-> s, id |-> next_id[s]]}
    <3>1. CASE provider_count[s] # Len(x.shares)
      BY <1>3, <3>1 DEF mul, Error
    <3>2. CASE provider_count[s] = Len(x.shares)
      BY <1>3, <3>2 DEF mul, Keep
    <3> QED
      BY <3>1, <3>2
  <2>4. /\ next_id' \in [Simulators -> 0 .. MAX_ID]
        /\ issued_ids' \in [Simulators -> SUBSET (0 .. MAX_ID)]
    BY <1>1, <2>1, <2>2 DEF IdInv
  <2>5. ASSUME NEW r \in Simulators, NEW n \in issued_ids'[r]
        PROVE  n < next_id'[r]
    <3>1. CASE r = s
      <4>1. n \in issued_ids[s] \cup {next_id[s]} /\ next_id'[s] = next_id[s] + 1
        BY <2>2, <2>5, <3>1 DEF IdInv
      <4>2. n \in issued_ids[s] => n < next_id[s] /\ n \in 0 .. MAX_ID
        BY DEF IdInv, IdsInOrder
      <4> QED
        BY <1>1, <3>1, <4>1, <4>2
    <3>2. CASE r # s
      BY <2>2, <2>5, <3>2 DEF IdInv, IdsInOrder
    <3> QED
      BY <3>1, <3>2
  <2>6. PICK n : products' \subseteq products \cup {[at |-> n, sim |-> s, id |-> next_id[s]]}
    BY <2>3
  <2> DEFINE new == [at |-> n, sim |-> s, id |-> next_id[s]]
  <2>7. new.sim = s /\ new.id = next_id[s]
    OBVIOUS
  <2> HIDE DEF new
  <2>8. ASSUME NEW p \in products'
        PROVE  p = new \/ (p \in products /\ p.sim \in Simulators /\ p.id \in issued_ids[p.sim])
    BY <2>6 DEF new, IdInv, IdsInOrder, TriplesUsedOnce
  <2>9. ASSUME NEW p \in products'
        PROVE  p.sim \in Simulators /\ p.id \in issued_ids'[p.sim]
    BY <2>2, <2>7, <2>8 DEF IdInv
  <2>10. ASSUME NEW p \in products', NEW q \in products', p.sim = q.sim, p.id = q.id
         PROVE  p = q
    <3>1. CASE p \in products /\ q \in products
      BY <2>10, <3>1 DEF IdInv, TriplesUsedOnce
    <3>2. CASE p = new \/ q = new
      BY <1>1, <2>7, <2>8, <2>10, <3>2
    <3> QED
      BY <2>8, <3>1, <3>2
  <2>11. \A r \in Simulators : next_id'[r] <= MAX_ID
    <3> SUFFICES ASSUME NEW r \in Simulators PROVE next_id'[r] <= MAX_ID
      OBVIOUS
    <3>1. next_id'[r] \in 0 .. MAX_ID
      BY <2>4
    <3> QED
      BY <3>1, <1>1
  <2> QED
    BY <2>3, <2>4, <2>5, <2>9, <2>10, <2>11 DEF IdInv, IdsInOrder, TriplesUsedOnce
<1>4. CASE ~SameContext(x, y)
  BY <1>2, <1>4 DEF mul, Error
<1>5. CASE SameContext(x, y) /\ IssueError(s) # "Ok"
  BY <1>1, <1>2, <1>5 DEF mul, Error, IssueError
<1> QED
  BY <1>3, <1>4, <1>5
-----------------------------------------------------------------------------
(* The evaluation.                                                         *)

\* The parts of a run.
LEMMA RunFacts ==
  ASSUME NEW r \in Runs
  PROVE  /\ r \in Run /\ r.circuit \in Circuit /\ validate(r.circuit) = "Ok"
         /\ r.circuit.nodes \in Seq(Node) /\ r.circuit.outputs \in Seq(NodeId)
         /\ r.secret_inputs \in Seq(F) /\ r.public_inputs \in Seq(F)
         /\ r.sim \in Simulators /\ r.hook \in BOOLEAN
         /\ r # << >>
<1>1. r \in Run /\ validate(r.circuit) = "Ok"
  BY RunsAssumption
<1>2. r.circuit \in Circuit
  BY <1>1 DEF Run
<1>3. r # << >>
  <2>1. "circuit" \in DOMAIN r
    BY <1>1 DEF Run
  <2>2. "circuit" \notin DOMAIN << >>
    OBVIOUS
  <2> QED
    BY <2>1, <2>2
<1> QED
  BY <1>1, <1>2, <1>3 DEF Run, Circuit

\* The input that a leaf reads is there.
LEMMA InputThere ==
  ASSUME NEW r \in Runs, InputsFit(r), NEW i \in DOMAIN r.circuit.nodes
  PROVE  /\ r.circuit.nodes[i].op = "SecretInput" =>
              InputOf(r, r.secret_inputs, "SecretInput", i) \in F
         /\ r.circuit.nodes[i].op = "PublicInput" =>
              InputOf(r, r.public_inputs, "PublicInput", i) \in F
<1> DEFINE ns == r.circuit.nodes
<1>1. /\ r.circuit \in Circuit /\ validate(r.circuit) = "Ok" /\ ns \in Seq(Node)
      /\ r.secret_inputs \in Seq(F) /\ r.public_inputs \in Seq(F)
  BY RunFacts
<1>2. /\ Cardinality(Leaves(ns, "SecretInput")) = Len(r.secret_inputs)
      /\ Cardinality(Leaves(ns, "PublicInput")) = Len(r.public_inputs)
  BY <1>1, ValidCircuit DEF InputsFit
<1>3. i \in 1 .. Len(ns)
  BY <1>1
<1>4. ASSUME NEW seq \in Seq(F), NEW op, ns[i].op = op,
             Cardinality(Leaves(ns, op)) = Len(seq)
      PROVE  InputOf(r, seq, op, i) \in F
  <2> DEFINE k == Cardinality(LeavesBefore(ns, op, i))
  <2>1. k \in Nat /\ k < Len(seq)
    BY <1>1, <1>3, <1>4, LeavesBeforeStep
  <2> HIDE DEF k
  <2>2. seq[k + 1] \in F
    BY <2>1
  <2> QED
    BY <2>2 DEF k, InputOf
<1> QED
  BY <1>1, <1>2, <1>4

\* evaluate_reference does what its recursion says, for every node at once.
LEMMA ReferenceEquation ==
  ASSUME NEW r \in Runs, InputsFit(r)
  PROVE  \A i \in DOMAIN r.circuit.nodes :
           evaluate_reference(r)[i]
             = NodeValue(r, r.circuit.nodes[i], i, evaluate_reference(r))
<1> DEFINE c == r.circuit
           D == DOMAIN c.nodes
           E(f, i) == NodeValue(r, c.nodes[i], i, f)
           Step == [q \in [D -> F] \X D |-> E(q[1], q[2])]
<1>1. /\ c \in Circuit /\ validate(c) = "Ok" /\ c.nodes \in Seq(Node)
      /\ D = 1 .. Len(c.nodes) /\ Len(c.nodes) \in Nat
  BY RunFacts
<1>2. D \subseteq Nat /\ (\A j \in D : j <= Len(c.nodes)) /\ F # {}
  BY <1>1, FieldClosed
<1>3. ASSUME NEW i \in D
      PROVE  /\ c.nodes[i].op \in {"SecretInput", "PublicInput", "Constant", "Add", "Mul"}
             /\ c.nodes[i].op = "Constant" => c.nodes[i].value \in F
             /\ c.nodes[i].op \in {"Add", "Mul"} =>
                  /\ c.nodes[i].a \in D /\ c.nodes[i].a < i
                  /\ c.nodes[i].b \in D /\ c.nodes[i].b < i
  <2>1. c.nodes[i] \in Node
    BY <1>1
  <2>2. c.nodes[i].op \in {"Add", "Mul"} => IsGate(c.nodes[i])
    BY DEF IsGate
  <2> QED
    BY <1>1, <2>1, <2>2, OperandsBefore DEF Node
<1>4. ASSUME NEW f \in [D -> F], NEW i \in D
      PROVE  E(f, i) \in F
  BY <1>3, InputThere, FieldClosed DEF NodeValue
<1>5. Step \in [[D -> F] \X D -> F]
  <2> HIDE DEF E, D
  <2> QED
    BY <1>4
<1>6. ASSUME NEW f \in [D -> F], NEW g \in [D -> F], NEW i \in D,
             \A j \in D : j < i => f[j] = g[j]
      PROVE  Step[<<f, i>>] = Step[<<g, i>>]
  <2>1. E(f, i) = E(g, i)
    BY <1>3, <1>6 DEF NodeValue
  <2> HIDE DEF E
  <2> QED
    BY <2>1
<1>7. \E f \in [D -> F] : \A i \in D : f[i] = Step[<<f, i>>]
  <2> HIDE DEF D, Step
  <2>1. CausalStep(D, Len(c.nodes), F, Step)
    BY <1>1, <1>2, <1>5, <1>6 DEF CausalStep
  <2> QED
    BY <2>1, RecursiveFunctionExists
<1>8. PICK f \in [D -> F] : \A i \in D : f[i] = Step[<<f, i>>]
  BY <1>7
<1>9. f = [i \in D |-> E(f, i)]
  <2> HIDE DEF E
  <2>1. \A i \in D : f[i] = E(f, i)
    BY <1>8
  <2> QED
    BY <2>1
<1>10. evaluate_reference(r) = CHOOSE g : g = [i \in D |-> E(g, i)]
  BY DEF evaluate_reference
<1>11. evaluate_reference(r) = [i \in D |-> E(evaluate_reference(r), i)]
  <2> HIDE DEF E, D
  <2> QED
    BY <1>9, <1>10
<1> QED
  <2> HIDE DEF D
  <2>1. \A i \in D : evaluate_reference(r)[i] = E(evaluate_reference(r), i)
    <3> HIDE DEF E
    <3> QED
      BY <1>11
  <2> QED
    BY <2>1 DEF D

\* The invariant of the simulators in two halves.
LEMMA SimulatorHalves == SimulatorInv <=> HeapInv /\ IdInv
BY DEF SimulatorInv, SimulatorTypeOK, HeapInv, IdInv, Kept, FitsSomewhere

\* What the loop of evaluate_mpc knows at a node.
LEMMA LoopFacts ==
  ASSUME EvaluationInv, result = "running", index <= Len(nodes)
  PROVE  /\ HeapInv /\ IdInv /\ run \in Runs /\ InputsFit(run)
         /\ index \in 1 .. Len(nodes) /\ nodes \in Seq(Node) /\ node \in Node
         /\ run.sim \in Simulators
         /\ values \in Seq(DOMAIN heap)
         /\ next_secret = Cardinality(LeavesBefore(nodes, "SecretInput", index))
         /\ next_public = Cardinality(LeavesBefore(nodes, "PublicInput", index))
         /\ next_secret \in Nat /\ next_public \in Nat
         /\ IsGate(node) =>
              /\ node.a \in DOMAIN values /\ node.b \in DOMAIN values
              /\ values[node.a] \in DOMAIN heap /\ values[node.b] \in DOMAIN heap
<1>1. HeapInv /\ IdInv
  BY SimulatorHalves DEF EvaluationInv
<1>2. run \in Runs /\ InputsFit(run)
  BY DEF EvaluationInv, StagesInOrder
<1>3. nodes \in Seq(Node) /\ run.circuit \in Circuit /\ validate(run.circuit) = "Ok"
      /\ run.sim \in Simulators
  BY <1>2, RunFacts DEF nodes
<1>4. values \in Seq(DOMAIN heap) /\ next_secret \in Nat /\ next_public \in Nat
  BY DEF EvaluationInv, TypeOK
<1>5. index \in 1 .. Len(nodes) /\ index = Len(values) + 1
  BY <1>3, <1>4 DEF index
<1>6. node \in Node
  BY <1>3, <1>5 DEF node
<1>7. ASSUME IsGate(node)
      PROVE  node.a \in DOMAIN values /\ node.b \in DOMAIN values
  <2>1. /\ node.a \in DOMAIN nodes /\ node.a < index
        /\ node.b \in DOMAIN nodes /\ node.b < index
    BY <1>3, <1>5, <1>7, OperandsBefore DEF node, nodes
  <2> QED
    BY <2>1, <1>3, <1>4, <1>5
<1> QED
  BY <1>1, <1>2, <1>3, <1>4, <1>5, <1>6, <1>7 DEF EvaluationInv, CursorsCountLeaves

\* A node evaluated, or the end of the evaluation at a fault.
LEMMA EvaluatedStep ==
  ASSUME EvaluationInv, result = "running", index <= Len(nodes),
         Grows, IdInv', NEW kind, Evaluated(kind),
         last' = "Ok" =>
           /\ heap'[Len(heap')].plain = NodeValue(run, node, index, evaluate_reference(run))
           /\ heap'[Len(heap')].contexts = {run.sim}
           /\ Len(heap'[Len(heap')].shares) = party_count[run.sim],
         next_secret' = IF node.op = "SecretInput" THEN next_secret + 1 ELSE next_secret,
         next_public' = IF node.op = "PublicInput" THEN next_public + 1 ELSE next_public
  PROVE  EvaluationInv'
<1> DEFINE ref == evaluate_reference(run)
<1>1. /\ HeapInv /\ run \in Runs /\ InputsFit(run) /\ index \in 1 .. Len(nodes)
      /\ nodes \in Seq(Node) /\ values \in Seq(DOMAIN heap)
      /\ next_secret \in Nat /\ next_public \in Nat
      /\ next_secret = Cardinality(LeavesBefore(nodes, "SecretInput", index))
      /\ next_public = Cardinality(LeavesBefore(nodes, "PublicInput", index))
  BY LoopFacts
<1>2. run' = run /\ revealed' = revealed /\ revealed = << >>
  BY DEF Evaluated, EvaluationInv, StagesInOrder
<1>3. index = Len(values) + 1 /\ Len(values) \in Nat
  BY <1>1 DEF index
<1>4. heap \in Seq(Kept) /\ heap' \in Seq(Kept)
  BY <1>1 DEF Grows, HeapInv
<1>5. DOMAIN heap \subseteq DOMAIN heap' /\ \A i \in DOMAIN heap : heap'[i] = heap[i]
  BY DEF Grows
<1>6. \/ /\ last' = "Ok" /\ values' = Append(values, Len(heap')) /\ result' = "running"
         /\ Len(heap') \in DOMAIN heap'
      \/ last' # "Ok" /\ values' = values /\ result' = "MpcFault"
  BY <1>4 DEF Evaluated, Grows
<1>7. /\ values' \in Seq(DOMAIN heap')
      /\ Len(values') <= Len(nodes)
      /\ \A i \in DOMAIN values' :
           \/ i \in DOMAIN values /\ values'[i] = values[i]
           \/ last' = "Ok" /\ i = index /\ values'[i] = Len(heap')
      /\ result' = "running" => Len(values') = index
  <2>1. values \in Seq(DOMAIN heap') /\ Len(nodes) \in Nat
    BY <1>1, <1>5
  <2> DEFINE v == values
             w == values'
  <2>2. CASE last' = "Ok"
    <3>1. w = Append(v, Len(heap')) /\ Len(heap') \in DOMAIN heap' /\ v \in Seq(DOMAIN heap')
          /\ index = Len(v) + 1
      BY <2>1, <2>2, <1>3, <1>6
    <3> HIDE DEF v, w
    <3>2. w \in Seq(DOMAIN heap') /\ Len(w) = index /\ DOMAIN w = 1 .. index
          /\ DOMAIN v = 1 .. Len(v) /\ Len(v) \in Nat
          /\ (\A i \in 1 .. Len(v) : w[i] = v[i]) /\ w[index] = Len(heap')
      BY <3>1
    <3>3. /\ w \in Seq(DOMAIN heap') /\ Len(w) = index
          /\ \A i \in DOMAIN w : \/ i \in DOMAIN v /\ w[i] = v[i]
                                 \/ i = index /\ w[i] = Len(heap')
      BY <3>1, <3>2
    <3> QED
      BY <3>3, <2>2, <1>1 DEF v, w
  <2>3. CASE last' # "Ok"
    BY <2>1, <2>3, <1>1, <1>3, <1>6
  <2> QED
    BY <2>2, <2>3
<1>8. TypeOK' /\ SimulatorInv'
  <2>1. SimulatorInv'
    BY DEF Grows, SimulatorInv, SimulatorTypeOK, HeapInv, IdInv, Kept, FitsSomewhere
  <2>2. result' \in {"running", "MpcFault"} /\ revealed' \in Seq(F)
        /\ next_secret' \in Nat /\ next_public' \in Nat
    BY <1>1, <1>2, <1>6
  <2> QED
    BY <1>7, <2>1, <2>2 DEF TypeOK, SimulatorInv
<1>9. StagesInOrder'
  <2>1. InputsFit(run') /\ nodes' = nodes /\ Len(revealed') <= Len(run'.circuit.outputs)
    <3>1. run.circuit.outputs \in Seq(NodeId)
      BY <1>1, RunFacts
    <3> QED
      BY <1>1, <1>2, <3>1 DEF nodes
  <2> QED
    BY <1>1, <1>2, <1>6, <1>7, <2>1 DEF StagesInOrder, InputsFit
<1>10. CursorsCountLeaves'
  <2> SUFFICES ASSUME result' = "running"
               PROVE  /\ next_secret' = Cardinality(LeavesBefore(nodes, "SecretInput", index + 1))
                      /\ next_public' = Cardinality(LeavesBefore(nodes, "PublicInput", index + 1))
    BY <1>2, <1>6, <1>7 DEF CursorsCountLeaves, nodes, index
  <2>1. next_secret' = Cardinality(LeavesBefore(nodes, "SecretInput", index + 1))
    BY <1>1, LeavesBeforeStep DEF node
  <2>2. next_public' = Cardinality(LeavesBefore(nodes, "PublicInput", index + 1))
    BY <1>1, LeavesBeforeStep DEF node
  <2> QED
    BY <2>1, <2>2
<1>11. ASSUME NEW i \in DOMAIN values'
       PROVE  /\ heap'[values'[i]].plain = ref[i]
              /\ heap'[values'[i]].contexts = {run.sim}
              /\ Len(heap'[values'[i]].shares) = party_count[run.sim]
  <2>1. CASE i \in DOMAIN values /\ values'[i] = values[i]
    <3>1. values[i] \in DOMAIN heap
      BY <1>1, <2>1
    <3> QED
      BY <2>1, <3>1, <1>5 DEF EvaluationInv, ValuesAreReference, Operand
  <2>2. CASE last' = "Ok" /\ i = index /\ values'[i] = Len(heap')
    <3>1. ref[index] = NodeValue(run, node, index, ref)
      BY <1>1, ReferenceEquation DEF node, nodes
    <3> QED
      BY <2>2, <3>1
  <2> QED
    BY <1>7, <2>1, <2>2
<1>12. ValuesAreReference'
  BY <1>2, <1>11 DEF ValuesAreReference, Operand
<1>13. RevealedAreReference'
  BY <1>2 DEF RevealedAreReference
<1> QED
  BY <1>8, <1>9, <1>10, <1>12, <1>13 DEF EvaluationInv

\* A leaf, which is shared like an input whatever its kind.
LEMMA LeafStep ==
  ASSUME EvaluationInv, NEW v \in F, result = "running", index <= Len(nodes),
         v = NodeValue(run, node, index, evaluate_reference(run)), input(run.sim, v),
         Evaluated("Input"),
         next_secret' = IF node.op = "SecretInput" THEN next_secret + 1 ELSE next_secret,
         next_public' = IF node.op = "PublicInput" THEN next_public + 1 ELSE next_public
  PROVE  EvaluationInv'
<1>1. HeapInv /\ IdInv /\ run.sim \in Simulators
  BY LoopFacts
<1>2. /\ Grows /\ last' = "Ok"
      /\ heap'[Len(heap')].plain = v /\ heap'[Len(heap')].contexts = {run.sim}
      /\ Len(heap'[Len(heap')].shares) = party_count[run.sim]
  BY <1>1, InputStep
<1>3. IdInv'
  BY <1>1, <1>2, IdsKept DEF input
<1> QED
  BY <1>2, <1>3, EvaluatedStep

\* The three kinds of leaf read the value the reference reads.
LEMMA LeafNodes ==
  ASSUME EvaluationInv, SecretInputNode \/ PublicInputNode \/ ConstantNode
  PROVE  EvaluationInv'
<1>1. result = "running" /\ index <= Len(nodes)
  BY DEF SecretInputNode, PublicInputNode, ConstantNode, AtNode
<1>2. /\ run \in Runs /\ InputsFit(run) /\ index \in DOMAIN nodes /\ node \in Node
      /\ next_secret = Cardinality(LeavesBefore(nodes, "SecretInput", index))
      /\ next_public = Cardinality(LeavesBefore(nodes, "PublicInput", index))
  BY <1>1, LoopFacts
<1>3. CASE SecretInputNode
  <2> DEFINE v == run.secret_inputs[next_secret + 1]
  <2>1. node.op = "SecretInput" /\ input(run.sim, v) /\ Evaluated("Input")
        /\ next_secret' = next_secret + 1 /\ next_public' = next_public
    BY <1>3 DEF SecretInputNode, AtNode, Consumed
  <2>2. v = InputOf(run, run.secret_inputs, "SecretInput", index)
    BY <1>2 DEF InputOf, nodes
  <2>3. v \in F
    BY <1>2, <2>1, <2>2, InputThere DEF node, nodes
  <2>4. v = NodeValue(run, node, index, evaluate_reference(run))
    BY <2>1, <2>2 DEF NodeValue
  <2> HIDE DEF v
  <2> QED
    BY <1>1, <2>1, <2>3, <2>4, LeafStep
<1>4. CASE PublicInputNode
  <2> DEFINE v == run.public_inputs[next_public + 1]
  <2>1. node.op = "PublicInput" /\ input(run.sim, v) /\ Evaluated("Input")
        /\ next_public' = next_public + 1 /\ next_secret' = next_secret
    BY <1>4 DEF PublicInputNode, AtNode, Consumed
  <2>2. v = InputOf(run, run.public_inputs, "PublicInput", index)
    BY <1>2 DEF InputOf, nodes
  <2>3. v \in F
    BY <1>2, <2>1, <2>2, InputThere DEF node, nodes
  <2>4. v = NodeValue(run, node, index, evaluate_reference(run))
    BY <2>1, <2>2 DEF NodeValue
  <2> HIDE DEF v
  <2> QED
    BY <1>1, <2>1, <2>3, <2>4, LeafStep
<1>5. CASE ConstantNode
  <2> DEFINE v == node.value
  <2>1. node.op = "Constant" /\ input(run.sim, v) /\ Evaluated("Input")
        /\ next_public' = next_public /\ next_secret' = next_secret
    BY <1>5 DEF ConstantNode, AtNode
  <2>2. v \in F
    BY <1>2, <2>1 DEF Node
  <2>3. v = NodeValue(run, node, index, evaluate_reference(run))
    BY <2>1 DEF NodeValue
  <2> HIDE DEF v
  <2> QED
    BY <1>1, <2>1, <2>2, <2>3, LeafStep
<1> QED
  BY <1>3, <1>4, <1>5

\* The two kinds of gate compute what the reference computes.
LEMMA GateNodes ==
  ASSUME EvaluationInv, AddNode \/ MulNode
  PROVE  EvaluationInv'
<1> DEFINE ref == evaluate_reference(run)
           i == values[node.a]
           j == values[node.b]
<1>1. result = "running" /\ index <= Len(nodes) /\ IsGate(node) /\ Evaluated("Operation")
      /\ next_public' = next_public /\ next_secret' = next_secret
      /\ node.op # "SecretInput" /\ node.op # "PublicInput"
  BY DEF AddNode, MulNode, AtNode, IsGate
<1>2. /\ HeapInv /\ IdInv /\ run.sim \in Simulators
      /\ node.a \in DOMAIN values /\ node.b \in DOMAIN values
      /\ i \in DOMAIN heap /\ j \in DOMAIN heap
  BY <1>1, LoopFacts
<1>3. /\ heap[i].plain = ref[node.a] /\ heap[j].plain = ref[node.b]
      /\ heap[i].contexts = {run.sim} /\ heap[j].contexts = {run.sim}
      /\ Len(heap[i].shares) = party_count[run.sim]
  BY <1>2 DEF EvaluationInv, ValuesAreReference, Operand
<1> HIDE DEF ref
<1>4. CASE AddNode
  <2>1. add(heap[i], heap[j]) /\ node.op = "Add"
    BY <1>4 DEF AddNode, AtNode, Operand
  <2>2. /\ Grows
        /\ last' = "Ok" =>
             /\ heap'[Len(heap')].plain = Plus(heap[i].plain, heap[j].plain)
             /\ heap'[Len(heap')].contexts = heap[i].contexts \cup heap[j].contexts
             /\ Len(heap'[Len(heap')].shares) = Len(heap[i].shares)
    <3> HIDE DEF i, j
    <3> QED
      BY <1>2, <2>1, AddStep
  <2>3. IdInv'
    <3>1. last' # "TripleReuse"
      BY <2>1 DEF add, Keep, Error
    <3> QED
      BY <1>2, <2>1, <3>1, IdsKept DEF add
  <2>4. NodeValue(run, node, index, ref) = Plus(ref[node.a], ref[node.b])
    BY <2>1 DEF NodeValue
  <2> QED
    BY <1>1, <1>3, <2>2, <2>3, <2>4, EvaluatedStep DEF ref
<1>5. CASE MulNode
  <2>1. mul(run.sim, heap[i], heap[j]) /\ node.op = "Mul"
    BY <1>5 DEF MulNode, AtNode, Operand
  <2>2. /\ Grows
        /\ last' = "Ok" =>
             /\ heap'[Len(heap')].plain = Times(heap[i].plain, heap[j].plain)
             /\ heap'[Len(heap')].contexts = heap[i].contexts \cup heap[j].contexts
             /\ Len(heap'[Len(heap')].shares) = Len(heap[i].shares)
    <3> HIDE DEF i, j
    <3> QED
      BY <1>2, <2>1, MulStep
  <2>3. IdInv'
    BY <1>2, <2>1, MulIds
  <2>4. NodeValue(run, node, index, ref) = Times(ref[node.a], ref[node.b])
    BY <2>1 DEF NodeValue
  <2> QED
    BY <1>1, <1>3, <2>2, <2>3, <2>4, EvaluatedStep DEF ref
<1> QED
  BY <1>4, <1>5

\* The program's own calls.
LEMMA CallsStep ==
  ASSUME HeapInv, IdInv, Calls
  PROVE  HeapInv' /\ IdInv'
<1>1. Called \subseteq Simulators /\ Secrets \subseteq F
  BY SimulatorAssumption
<1>2. ASSUME NEW s \in Called, NEW v \in Secrets, input(s, v)
      PROVE  HeapInv' /\ IdInv'
  BY <1>1, <1>2, InputStep, IdsKept DEF input, Grows
<1>3. ASSUME NEW i \in DOMAIN heap, NEW j \in DOMAIN heap, add(heap[i], heap[j])
      PROVE  HeapInv' /\ IdInv'
  <2>1. last' # "TripleReuse"
    BY <1>3 DEF add, Keep, Error
  <2>2. IdInv'
    BY <1>3, <2>1, IdsKept DEF add
  <2>3. HeapInv'
    BY <1>3, AddStep DEF Grows
  <2> QED
    BY <2>2, <2>3
<1>4. ASSUME NEW i \in DOMAIN heap, NEW v \in Secrets,
             AddPublic(heap[i], v) \/ MulPublic(heap[i], v)
      PROVE  HeapInv' /\ IdInv'
  <2>1. Grows /\ last' = "Ok"
    BY <1>1, <1>4, AddPublicStep, MulPublicStep
  <2>2. IdInv'
    BY <1>4, <2>1, IdsKept DEF AddPublic, MulPublic
  <2> QED
    BY <2>1, <2>2 DEF Grows
<1>5. ASSUME NEW s \in Called, NEW i \in DOMAIN heap, NEW j \in DOMAIN heap,
             mul(s, heap[i], heap[j])
      PROVE  HeapInv' /\ IdInv'
  <2>1. IdInv'
    BY <1>1, <1>5, MulIds
  <2>2. HeapInv'
    BY <1>1, <1>5, MulStep DEF Grows
  <2> QED
    BY <2>1, <2>2
<1>6. \A x \in Values : \E i \in DOMAIN heap : x = heap[i]
  BY DEF Values
<1>7. CASE \E s \in Called, v \in Secrets : input(s, v)
  BY <1>2, <1>7
<1>8. CASE \E x, y \in Values : add(x, y)
  BY <1>3, <1>6, <1>8
<1>9. CASE \E x \in Values, v \in Secrets : AddPublic(x, v) \/ MulPublic(x, v)
  BY <1>4, <1>6, <1>9
<1>10. CASE \E s \in Called, x, y \in Values : mul(s, x, y)
  BY <1>5, <1>6, <1>10
<1> QED
  BY <1>7, <1>8, <1>9, <1>10 DEF Calls

\* The evaluation has not begun.
LEMMA BeforeStep ==
  ASSUME EvaluationInv, Before
  PROVE  EvaluationInv'
<1>1. HeapInv' /\ IdInv'
  BY CallsStep, SimulatorHalves DEF EvaluationInv, Before
<1>2. SimulatorInv'
  BY <1>1 DEF SimulatorInv, SimulatorTypeOK, HeapInv, IdInv, Kept, FitsSomewhere
<1>3. UNCHANGED evaluationVars /\ result = "idle" /\ values = << >> /\ revealed = << >>
      /\ values' = << >> /\ revealed' = << >>
  BY DEF Before, EvaluationInv, StagesInOrder, evaluationVars
<1>4. TypeOK'
  BY <1>2, <1>3 DEF TypeOK, EvaluationInv, SimulatorInv, evaluationVars
<1>5. StagesInOrder' /\ CursorsCountLeaves'
  BY <1>3 DEF StagesInOrder, CursorsCountLeaves, EvaluationInv, evaluationVars, InputsFit,
              nodes, index
<1>6. ValuesAreReference' /\ RevealedAreReference'
  BY <1>3 DEF ValuesAreReference, RevealedAreReference
<1> QED
  BY <1>2, <1>4, <1>5, <1>6 DEF EvaluationInv

\* The state of the simulators is left alone.
LEMMA SimulatorsKept ==
  ASSUME SimulatorInv, UNCHANGED simulatorVars
  PROVE  SimulatorInv'
BY DEF SimulatorInv, SimulatorTypeOK, HeapSound, IdsInOrder, TriplesUsedOnce, simulatorVars

\* evaluate_mpc is called.
LEMMA CallStep ==
  ASSUME EvaluationInv, NEW r \in Runs, evaluate_mpc(r)
  PROVE  EvaluationInv'
<1>1. /\ result = "idle" /\ run' = r /\ UNCHANGED <<simulatorVars, events>>
      /\ values = << >> /\ revealed = << >> /\ values' = << >> /\ revealed' = << >>
      /\ next_secret' = 0 /\ next_public' = 0
      /\ result' = IF InputsFit(r) THEN "running" ELSE "InvalidInputCount"
  BY DEF evaluate_mpc, EvaluationInv, StagesInOrder, CursorsCountLeaves
<1>2. SimulatorInv'
  BY <1>1, SimulatorsKept DEF EvaluationInv
<1>3. TypeOK'
  BY <1>1, <1>2 DEF TypeOK, SimulatorInv
<1>4. r.circuit.nodes \in Seq(Node) /\ r.circuit.outputs \in Seq(NodeId)
  BY RunFacts
<1>5. StagesInOrder'
  BY <1>1, <1>4 DEF StagesInOrder, InputsFit, nodes
<1>6. CursorsCountLeaves'
  <2>1. index' = 0 + 1 /\ nodes' = r.circuit.nodes
    BY <1>1 DEF index, nodes
  <2> QED
    BY <1>1, <2>1, NoLeavesBefore DEF CursorsCountLeaves
<1>7. ValuesAreReference' /\ RevealedAreReference'
  BY <1>1 DEF ValuesAreReference, RevealedAreReference
<1> QED
  BY <1>2, <1>3, <1>5, <1>6, <1>7 DEF EvaluationInv

\* evaluate_mpc returns.
LEMMA OutputsStep ==
  ASSUME EvaluationInv, Outputs
  PROVE  EvaluationInv'
<1>1. /\ result = "running" /\ result' = "Ok" /\ Len(values) = Len(nodes)
      /\ UNCHANGED <<simulatorVars, run, values, next_secret, next_public, revealed>>
  BY DEF Outputs
<1>2. heap' = heap
  BY <1>1 DEF simulatorVars
<1>3. SimulatorInv'
  BY <1>1, SimulatorsKept DEF EvaluationInv
<1>4. TypeOK'
  BY <1>1, <1>2, <1>3 DEF TypeOK, SimulatorInv, EvaluationInv
<1>5. StagesInOrder' /\ CursorsCountLeaves'
  BY <1>1 DEF StagesInOrder, CursorsCountLeaves, EvaluationInv, InputsFit, nodes
<1>6. ValuesAreReference' /\ RevealedAreReference'
  BY <1>1, <1>2 DEF ValuesAreReference, RevealedAreReference, EvaluationInv, Operand
<1> QED
  BY <1>3, <1>4, <1>5, <1>6 DEF EvaluationInv

\* The caller sees the reference value of the output.
LEMMA RevealStep ==
  ASSUME EvaluationInv, reveal_output
  PROVE  EvaluationInv'
<1> DEFINE k == Len(revealed) + 1
           o == run.circuit.outputs[k]
           x == reveal(Operand(o))
<1>1. /\ result = "Ok" /\ result' = "Ok" /\ revealed' = Append(revealed, x)
      /\ Len(revealed) < Len(run.circuit.outputs)
      /\ UNCHANGED <<simulatorVars, run, values, next_secret, next_public>>
  BY DEF reveal_output
<1>2. heap' = heap
  BY <1>1 DEF simulatorVars
<1>3. SimulatorInv'
  BY <1>1, SimulatorsKept DEF EvaluationInv
<1>4. run \in Runs /\ Len(values) = Len(nodes) /\ values \in Seq(DOMAIN heap)
      /\ revealed \in Seq(F) /\ HeapInv
  BY <1>1, SimulatorHalves DEF EvaluationInv, StagesInOrder, TypeOK
<1>5. /\ run.circuit \in Circuit /\ validate(run.circuit) = "Ok"
      /\ run.circuit.outputs \in Seq(NodeId) /\ nodes \in Seq(Node)
  BY <1>4, RunFacts DEF nodes
<1>6. k \in DOMAIN run.circuit.outputs
  BY <1>1, <1>4, <1>5
<1>7. o \in DOMAIN values
  <2>1. o \in NodeId /\ o <= Len(nodes)
    BY <1>5, <1>6, ValidCircuit DEF nodes
  <2> HIDE DEF o
  <2> QED
    BY <2>1, <1>4, <1>5 DEF NodeId
<1>8. values[o] \in DOMAIN heap
  BY <1>4, <1>7
<1>9. x \in F /\ x = evaluate_reference(run)[o]
  <2>1. heap[values[o]].plain \in F /\ sum(heap[values[o]].shares) = heap[values[o]].plain
    BY <1>4, <1>8, ValueFacts
  <2>2. heap[values[o]].plain = evaluate_reference(run)[o]
    BY <1>7 DEF EvaluationInv, ValuesAreReference, Operand
  <2> QED
    BY <2>1, <2>2 DEF reveal, Operand
<1> HIDE DEF x
<1>10. /\ revealed' \in Seq(F) /\ Len(revealed') = k
       /\ Len(revealed') <= Len(run.circuit.outputs)
       /\ \A n \in DOMAIN revealed' : \/ n \in DOMAIN revealed /\ revealed'[n] = revealed[n]
                                      \/ n = k /\ revealed'[n] = x
  BY <1>1, <1>4, <1>5, <1>9
<1>11. TypeOK'
  BY <1>1, <1>2, <1>3, <1>10 DEF TypeOK, SimulatorInv, EvaluationInv
<1>12. StagesInOrder' /\ CursorsCountLeaves'
  <2>1. StagesInOrder'
    BY <1>1, <1>10 DEF StagesInOrder, EvaluationInv, InputsFit, nodes
  <2> QED
    BY <1>1, <2>1 DEF CursorsCountLeaves
<1>13. ValuesAreReference'
  BY <1>1, <1>2 DEF ValuesAreReference, EvaluationInv, Operand
<1>14. RevealedAreReference'
  BY <1>1, <1>9, <1>10 DEF RevealedAreReference, EvaluationInv
<1> QED
  BY <1>3, <1>11, <1>12, <1>13, <1>14 DEF EvaluationInv

\* Every step of the evaluation and of the program before it.
LEMMA EvaluationStep ==
  ASSUME EvaluationInv, [Next]_vars
  PROVE  EvaluationInv'
<1>1. CASE UNCHANGED vars
  <2>1. UNCHANGED <<simulatorVars, evaluationVars, heap>>
    BY <1>1 DEF vars, simulatorVars
  <2>2. SimulatorInv'
    BY <2>1, SimulatorsKept DEF EvaluationInv
  <2> QED
    BY <2>1, <2>2 DEF EvaluationInv, SimulatorInv, TypeOK, StagesInOrder, CursorsCountLeaves,
                     ValuesAreReference, RevealedAreReference, evaluationVars, InputsFit,
                     nodes, index, Operand
<1>2. CASE Next
  BY <1>2, BeforeStep, CallStep, LeafNodes, GateNodes, OutputsStep, RevealStep DEF Next
<1> QED
  BY <1>1, <1>2

\* It holds before any call.
LEMMA EvaluationStart == Init => EvaluationInv
<1> SUFFICES ASSUME Init PROVE EvaluationInv
  OBVIOUS
<1>1. SimulatorInv
  BY SimulatorAssumption DEF Init, SimulatorInit, SimulatorInv, SimulatorTypeOK, HeapSound,
                             IdsInOrder, TriplesUsedOnce
<1> QED
  BY <1>1 DEF Init, EvaluationInv, SimulatorInv, TypeOK, StagesInOrder, CursorsCountLeaves,
              ValuesAreReference, RevealedAreReference

\* Circuit evaluation is correct at every step: the shares of every value in existence
\* add up to what the value stands for, triples are issued in order, and every node
\* that evaluate_mpc has passed holds, in shares of its own simulator, what
\* evaluate_reference computes for it.
THEOREM EvaluationCorrect == Spec => []EvaluationInv
<1>1. EvaluationInv /\ [Next]_vars => EvaluationInv'
  BY EvaluationStep
<1> QED
  BY <1>1, EvaluationStart, PTL DEF Spec

\* For any number of parties and any sequence of calls on any simulators, what reveal
\* reconstructs is the plain result: no operation counts a public term once per party,
\* and the Beaver product of every triple the provider hands out is the product.
THEOREM RevealsPlain == Spec => []RevealsPlainValue
<1>1. EvaluationInv => RevealsPlainValue
  BY DEF EvaluationInv, SimulatorInv, HeapSound, RevealsPlainValue, Values, reveal
<1> QED
  BY <1>1, EvaluationCorrect, PTL

\* LocalTrustedTripleProvider never hands out the same triple twice, its own check for
\* reuse never fires, and its counter stops at u64::MAX.
THEOREM TriplesFresh == Spec => []TriplesUsedOnce
<1>1. EvaluationInv => TriplesUsedOnce
  BY DEF EvaluationInv, SimulatorInv
<1> QED
  BY <1>1, EvaluationCorrect, PTL

\* The outputs evaluate_mpc lets its caller reveal are those of evaluate_reference, for
\* every circuit that validates, every input and every earlier use of the simulator.
THEOREM EvaluationRevealsReference == Spec => []RevealsReference
<1>1. EvaluationInv => RevealsReference
  BY DEF EvaluationInv, ValuesAreReference, RevealedAreReference, RevealsReference
<1> QED
  BY <1>1, EvaluationCorrect, PTL
-----------------------------------------------------------------------------
(* The transcript.                                                         *)

Event == {"Operation", "Input", "Output", "Open"} \X Nat

\* A longer prefix of a sequence.
LEMMA LongerPrefix ==
  ASSUME NEW S, NEW c \in Seq(S), NEW n \in 0 .. Len(c), NEW t \in Seq(S),
         n + Len(t) <= Len(c), \A k \in 1 .. Len(t) : t[k] = c[n + k]
  PROVE  SubSeq(c, 1, n) \o t = SubSeq(c, 1, n + Len(t))
<1> DEFINE p == SubSeq(c, 1, n)
           q == SubSeq(c, 1, n + Len(t))
           u == p \o t
<1>1. p \in Seq(S) /\ Len(p) = n /\ \A i \in 1 .. n : p[i] = c[i]
  OBVIOUS
<1>2. q \in Seq(S) /\ Len(q) = n + Len(t) /\ \A i \in 1 .. n + Len(t) : q[i] = c[i]
  OBVIOUS
<1> HIDE DEF p, q
<1>3. /\ u \in Seq(S) /\ Len(u) = n + Len(t)
      /\ \A i \in 1 .. n + Len(t) : u[i] = IF i <= n THEN p[i] ELSE t[i - n]
  BY <1>1, ConcatProperties
<1> HIDE DEF u
<1>4. ASSUME NEW i \in 1 .. n + Len(t)
      PROVE  u[i] = c[i]
  <2>1. CASE i <= n
    BY <1>1, <1>3, <2>1
  <2>2. CASE i > n
    <3>1. i - n \in 1 .. Len(t) /\ n + (i - n) = i
      BY <2>2
    <3>2. t[i - n] = c[n + (i - n)]
      BY <3>1
    <3>3. u[i] = t[i - n]
      BY <1>3, <2>2
    <3> QED
      BY <3>1, <3>2, <3>3
  <2> QED
    BY <2>1, <2>2
<1>5. \A i \in 1 .. Len(u) : u[i] = q[i]
  BY <1>2, <1>3, <1>4
<1>6. Len(u) = Len(q)
  BY <1>2, <1>3
<1>7. u = q
  BY <1>2, <1>3, <1>5, <1>6, SeqEqual
<1> QED
  BY <1>7 DEF p, q, u

\* The complete transcript, position by position.
LEMMA CanonicalFacts ==
  ASSUME run \in Runs
  PROVE  /\ CanonicalEvents \in Seq(Event)
         /\ Len(CanonicalEvents) = Len(nodes) + Len(run.circuit.outputs) + Len(run.circuit.outputs)
         /\ Len(nodes) \in Nat /\ Len(run.circuit.outputs) \in Nat
         /\ \A i \in 1 .. Len(nodes) :
              CanonicalEvents[i] = <<IF IsGate(nodes[i]) THEN "Operation" ELSE "Input", i>>
         /\ \A k \in 1 .. Len(run.circuit.outputs) :
              /\ CanonicalEvents[Len(nodes) + k] = <<"Output", run.circuit.outputs[k]>>
              /\ CanonicalEvents[Len(nodes) + Len(run.circuit.outputs) + k]
                   = <<"Open", run.circuit.outputs[k]>>
<1> DEFINE out == run.circuit.outputs
           A == [i \in DOMAIN nodes |-> <<IF IsGate(nodes[i]) THEN "Operation" ELSE "Input", i>>]
           B == [k \in DOMAIN out |-> <<"Output", out[k]>>]
           C == [k \in DOMAIN out |-> <<"Open", out[k]>>]
           m == Len(nodes)
           n == Len(out)
<1>1. nodes \in Seq(Node) /\ out \in Seq(NodeId)
  BY RunFacts DEF nodes
<1>2. m \in Nat /\ n \in Nat /\ DOMAIN nodes = 1 .. m /\ DOMAIN out = 1 .. n
  BY <1>1
<1>3. /\ A \in Seq(Event) /\ Len(A) = m
      /\ \A i \in 1 .. m : A[i] = <<IF IsGate(nodes[i]) THEN "Operation" ELSE "Input", i>>
  <2>1. A \in [1 .. m -> Event]
    BY <1>2 DEF Event
  <2> QED
    BY <1>2, <2>1
<1>4. ASSUME NEW k \in 1 .. n
      PROVE  out[k] \in Nat
  BY <1>1 DEF NodeId
<1>5. B \in Seq(Event) /\ Len(B) = n /\ \A k \in 1 .. n : B[k] = <<"Output", out[k]>>
  <2>1. B \in [1 .. n -> Event]
    BY <1>2, <1>4 DEF Event
  <2> QED
    BY <1>2, <2>1
<1>6. C \in Seq(Event) /\ Len(C) = n /\ \A k \in 1 .. n : C[k] = <<"Open", out[k]>>
  <2>1. C \in [1 .. n -> Event]
    BY <1>2, <1>4 DEF Event
  <2> QED
    BY <1>2, <2>1
<1>7. CanonicalEvents = (A \o B) \o C
  BY DEF CanonicalEvents
<1> HIDE DEF A, B, C
<1>8. /\ A \o B \in Seq(Event) /\ Len(A \o B) = m + n
      /\ \A i \in 1 .. m + n : (A \o B)[i] = IF i <= m THEN A[i] ELSE B[i - m]
  <2>1. /\ A \o B \in Seq(Event) /\ Len(A \o B) = Len(A) + Len(B)
        /\ \A i \in 1 .. Len(A) + Len(B) :
             (A \o B)[i] = IF i <= Len(A) THEN A[i] ELSE B[i - Len(A)]
    <3>1. A \in Seq(Event) /\ B \in Seq(Event)
      BY <1>3, <1>5
    <3> QED
      BY <3>1, ConcatProperties
  <2> HIDE DEF m, n
  <2> QED
    BY <1>3, <1>5, <2>1
<1> DEFINE AB == A \o B
<1> HIDE DEF AB
<1>9. /\ AB \o C \in Seq(Event) /\ Len(AB \o C) = m + n + n
      /\ \A i \in 1 .. m + n + n : (AB \o C)[i] = IF i <= m + n THEN AB[i] ELSE C[i - (m + n)]
  <2>1. AB \in Seq(Event) /\ Len(AB) = m + n
    BY <1>8 DEF AB
  <2>2. /\ AB \o C \in Seq(Event) /\ Len(AB \o C) = Len(AB) + Len(C)
        /\ \A i \in 1 .. Len(AB) + Len(C) :
             (AB \o C)[i] = IF i <= Len(AB) THEN AB[i] ELSE C[i - Len(AB)]
    <3>1. AB \in Seq(Event) /\ C \in Seq(Event)
      BY <1>6, <2>1
    <3> QED
      BY <3>1, ConcatProperties
  <2> HIDE DEF m, n
  <2> QED
    BY <1>6, <2>1, <2>2
<1> DEFINE D == AB \o C
<1>10. CanonicalEvents = D
  BY <1>7 DEF AB
<1> HIDE DEF D, m, n
<1>11. /\ Len(D) = m + n + n /\ D \in Seq(Event)
       /\ \A i \in 1 .. m + n + n : D[i] = IF i <= m + n THEN AB[i] ELSE C[i - (m + n)]
       /\ \A i \in 1 .. m + n : AB[i] = IF i <= m THEN A[i] ELSE B[i - m]
  BY <1>8, <1>9 DEF D, AB
<1>12. ASSUME NEW i \in 1 .. m
       PROVE  D[i] = A[i]
  BY <1>2, <1>11
<1>13. ASSUME NEW k \in 1 .. n
       PROVE  D[m + k] = B[k] /\ D[m + n + k] = C[k]
  <2>1. m + k \in 1 .. m + n /\ m + k \in 1 .. m + n + n /\ ~(m + k <= m) /\ (m + k) - m = k
    BY <1>2
  <2>2. m + n + k \in 1 .. m + n + n /\ ~(m + n + k <= m + n) /\ (m + n + k) - (m + n) = k
    BY <1>2
  <2> QED
    BY <1>11, <2>1, <2>2
<1> QED
  BY <1>2, <1>3, <1>5, <1>6, <1>10, <1>11, <1>12, <1>13 DEF m, n

\* A transcript that is recorded grows along the complete one.
LEMMA RecordNext ==
  ASSUME run \in Runs, NEW n \in Nat, n < Len(CanonicalEvents),
         events = SubSeq(CanonicalEvents, 1, n)
  PROVE  Append(events, CanonicalEvents[n + 1]) = SubSeq(CanonicalEvents, 1, n + 1)
<1> DEFINE C == CanonicalEvents
           e == C[n + 1]
           p == SubSeq(C, 1, n)
           q == SubSeq(C, 1, n + 1)
<1>1. C \in Seq(Event)
  BY CanonicalFacts
<1> HIDE DEF C
<1>2. e \in Event /\ Len(C) \in Nat
  BY <1>1 DEF C
<1>3. p \in Seq(Event) /\ Len(p) = n /\ \A i \in 1 .. n : p[i] = C[i]
  BY <1>1, <1>2 DEF C
<1>4. q \in Seq(Event) /\ Len(q) = n + 1 /\ \A i \in 1 .. n + 1 : q[i] = C[i]
  BY <1>1, <1>2 DEF C
<1> DEFINE z == Append(p, e)
<1> HIDE DEF p, q, e
<1>5. z \in Seq(Event) /\ Len(z) = n + 1 /\ z[n + 1] = e /\ \A i \in 1 .. n : z[i] = p[i]
  BY <1>2, <1>3
<1> HIDE DEF z
<1>6. \A i \in 1 .. n + 1 : z[i] = q[i]
  BY <1>3, <1>4, <1>5 DEF e
<1>7. z = q
  BY <1>4, <1>5, <1>6
<1> QED
  BY <1>7 DEF p, q, z, e, C

\* A node evaluated is the next event, a fault is none.
LEMMA RecordNode ==
  ASSUME EvaluationInv, TranscriptFollowsCircuit, result = "running", index <= Len(nodes),
         Evaluated(IF IsGate(node) THEN "Operation" ELSE "Input")
  PROVE  TranscriptFollowsCircuit'
<1> DEFINE kind == IF IsGate(node) THEN "Operation" ELSE "Input"
<1>1. /\ run \in Runs /\ index \in 1 .. Len(nodes) /\ values \in Seq(DOMAIN heap)
      /\ index = Len(values) + 1 /\ Len(values) \in Nat
  BY LoopFacts DEF index
<1>2. run # << >> /\ run.hook \in BOOLEAN
  BY <1>1, RunFacts
<1>3. run' = run /\ CanonicalEvents' = CanonicalEvents
  BY DEF Evaluated, CanonicalEvents, nodes
<1>4. \/ last' = "Ok" /\ values' = Append(values, Len(heap')) /\ events' = record(kind, index)
         /\ result' # "Ok"
      \/ values' = values /\ events' = events /\ result' # "Ok"
  BY DEF Evaluated, FaultEvents
<1>5. CASE ~run.hook
  BY <1>2, <1>3, <1>4, <1>5 DEF TranscriptFollowsCircuit, record
<1>6. CASE run.hook /\ values' = values /\ events' = events /\ result' # "Ok"
  BY <1>2, <1>3, <1>6 DEF TranscriptFollowsCircuit
<1>7. CASE run.hook /\ values' = Append(values, Len(heap')) /\ events' = record(kind, index)
           /\ result' # "Ok"
  <2>1. events = SubSeq(CanonicalEvents, 1, Len(values))
    BY <1>2, <1>7 DEF TranscriptFollowsCircuit
  <2>2. CanonicalEvents[Len(values) + 1] = <<kind, index>> /\ Len(values) < Len(CanonicalEvents)
    BY <1>1, CanonicalFacts DEF node
  <2>3. Append(events, <<kind, index>>) = SubSeq(CanonicalEvents, 1, Len(values) + 1)
    BY <1>1, <2>1, <2>2, RecordNext
  <2>4. Len(values') = Len(values) + 1
    BY <1>1, <1>7
  <2> QED
    BY <1>2, <1>3, <1>7, <2>3, <2>4 DEF TranscriptFollowsCircuit, record
<1> QED
  BY <1>2, <1>4, <1>5, <1>6, <1>7

\* The outputs are recorded after the last node.
LEMMA RecordOutputs ==
  ASSUME EvaluationInv, TranscriptFollowsCircuit, Outputs
  PROVE  TranscriptFollowsCircuit'
<1> DEFINE out == run.circuit.outputs
           t == [k \in DOMAIN out |-> <<"Output", out[k]>>]
           C == CanonicalEvents
<1>1. /\ run \in Runs /\ run' = run /\ result # "Ok" /\ result' = "Ok"
      /\ Len(values) = Len(nodes) /\ revealed = << >> /\ revealed' = << >>
      /\ events' = IF run.hook THEN events \o t ELSE events
  BY DEF Outputs, EvaluationInv, StagesInOrder
<1>2. run # << >> /\ run.hook \in BOOLEAN /\ out \in Seq(NodeId)
  BY <1>1, RunFacts
<1>3. C' = C /\ nodes' = nodes
  BY <1>1 DEF CanonicalEvents, nodes
<1>4. CASE ~run.hook
  BY <1>1, <1>2, <1>4 DEF TranscriptFollowsCircuit
<1>5. CASE run.hook
  <2>1. events = SubSeq(C, 1, Len(nodes))
    BY <1>1, <1>2, <1>5 DEF TranscriptFollowsCircuit
  <2>2. /\ C \in Seq(Event) /\ Len(nodes) \in Nat /\ Len(out) \in Nat
        /\ Len(C) = Len(nodes) + Len(out) + Len(out)
        /\ \A k \in 1 .. Len(out) : C[Len(nodes) + k] = <<"Output", out[k]>>
    BY <1>1, CanonicalFacts
  <2>3. t \in Seq(Event) /\ Len(t) = Len(out) /\ \A k \in 1 .. Len(out) : t[k] = <<"Output", out[k]>>
    <3>1. DOMAIN out = 1 .. Len(out) /\ \A k \in 1 .. Len(out) : out[k] \in Nat
      BY <1>2 DEF NodeId
    <3>2. t \in [1 .. Len(out) -> Event]
      BY <3>1 DEF Event
    <3> QED
      BY <2>2, <3>1, <3>2
  <2> DEFINE m == Len(nodes)
             n == Len(out)
  <2> HIDE DEF t, C, m, n
  <2>4. m \in 0 .. Len(C) /\ m + Len(t) <= Len(C) /\ \A k \in 1 .. Len(t) : t[k] = C[m + k]
    <3>1. /\ m \in Nat /\ n \in Nat /\ Len(C) = m + n + n /\ Len(t) = n
          /\ \A k \in 1 .. n : t[k] = C[m + k]
      BY <2>2, <2>3 DEF m, n
    <3>2. m \in 0 .. m + n + n /\ m + n <= m + n + n
      BY <3>1
    <3> QED
      BY <3>1, <3>2
  <2>5. SubSeq(C, 1, m) \o t = SubSeq(C, 1, m + Len(t))
    BY <2>2, <2>3, <2>4, LongerPrefix
  <2>6. events' = SubSeq(C, 1, Len(nodes) + Len(out) + Len(revealed'))
    BY <1>1, <1>5, <2>1, <2>2, <2>3, <2>5 DEF m
  <2> QED
    BY <1>1, <1>2, <1>3, <1>5, <2>6 DEF TranscriptFollowsCircuit, C
<1> QED
  BY <1>2, <1>4, <1>5

\* Each reveal is recorded after the outputs.
LEMMA RecordReveal ==
  ASSUME EvaluationInv, TranscriptFollowsCircuit, reveal_output
  PROVE  TranscriptFollowsCircuit'
<1> DEFINE out == run.circuit.outputs
           k == Len(revealed) + 1
           n == Len(nodes) + Len(out) + Len(revealed)
           x == reveal(Operand(out[k]))
<1>1. /\ run \in Runs /\ run' = run /\ result = "Ok" /\ result' = "Ok"
      /\ revealed \in Seq(F) /\ Len(revealed) < Len(out)
      /\ revealed' = Append(revealed, x) /\ events' = record("Open", out[k])
  BY DEF reveal_output, EvaluationInv, StagesInOrder, TypeOK
<1>2. run # << >> /\ run.hook \in BOOLEAN
  BY <1>1, RunFacts
<1>3. CanonicalEvents' = CanonicalEvents /\ nodes' = nodes
  BY <1>1 DEF CanonicalEvents, nodes
<1>4. CASE ~run.hook
  BY <1>1, <1>2, <1>4 DEF TranscriptFollowsCircuit, record
<1>5. CASE run.hook
  <2>1. events = SubSeq(CanonicalEvents, 1, n)
    BY <1>1, <1>2, <1>5 DEF TranscriptFollowsCircuit
  <2>2. /\ n \in Nat /\ n < Len(CanonicalEvents) /\ k \in 1 .. Len(out)
        /\ n + 1 = Len(nodes) + Len(out) + k
    <3> DEFINE a == Len(nodes)
               b == Len(out)
               c == Len(revealed)
    <3>1. /\ a \in Nat /\ b \in Nat /\ c \in Nat /\ c < b
          /\ Len(CanonicalEvents) = a + b + b
      BY <1>1, CanonicalFacts
    <3> HIDE DEF a, b, c
    <3>2. /\ a + b + c \in Nat /\ a + b + c < a + b + b /\ c + 1 \in 1 .. b
          /\ a + b + c + 1 = a + b + (c + 1)
      BY <3>1
    <3> QED
      BY <3>1, <3>2 DEF a, b, c
  <2>3. CanonicalEvents[n + 1] = <<"Open", out[k]>>
    BY <1>1, <2>2, CanonicalFacts
  <2>4. Len(revealed') = k
    <3> HIDE DEF x
    <3>1. Len(Append(revealed, x)) = k
      BY <1>1
    <3> QED
      BY <1>1, <3>1
  <2> HIDE DEF n, k
  <2>5. Append(events, <<"Open", out[k]>>) = SubSeq(CanonicalEvents, 1, n + 1)
    BY <1>1, <2>1, <2>2, <2>3, RecordNext
  <2> QED
    BY <1>1, <1>2, <1>3, <1>5, <2>2, <2>4, <2>5 DEF TranscriptFollowsCircuit, record
<1> QED
  BY <1>2, <1>4, <1>5

\* Every step of the evaluation.
LEMMA TranscriptStep ==
  ASSUME EvaluationInv, TranscriptFollowsCircuit, [Next]_vars
  PROVE  TranscriptFollowsCircuit'
<1>1. CASE Before
  BY <1>1 DEF Before, evaluationVars, EvaluationInv, StagesInOrder, TranscriptFollowsCircuit
<1>2. ASSUME NEW r \in Runs, evaluate_mpc(r)
      PROVE  TranscriptFollowsCircuit'
  <2>1. events' = << >> /\ values' = << >> /\ result' # "Ok"
    BY <1>2 DEF evaluate_mpc, EvaluationInv, StagesInOrder
  <2> QED
    BY <2>1, SubSeqEmpty DEF TranscriptFollowsCircuit
<1>3. CASE SecretInputNode \/ PublicInputNode \/ ConstantNode
  BY <1>3, RecordNode DEF SecretInputNode, PublicInputNode, ConstantNode, AtNode, IsGate
<1>4. CASE AddNode \/ MulNode
  BY <1>4, RecordNode DEF AddNode, MulNode, AtNode, IsGate
<1>5. CASE UNCHANGED vars
  BY <1>5 DEF vars, evaluationVars, TranscriptFollowsCircuit, CanonicalEvents, nodes
<1> QED
  BY <1>1, <1>2, <1>3, <1>4, <1>5, RecordOutputs, RecordReveal DEF Next

\* The hook's transcript is a function of the circuit and of how far the evaluation got:
\* neither inputs, random draws, earlier use of the simulator nor a fault shows in it.
THEOREM TranscriptDeterministic == Spec => []TranscriptFollowsCircuit
<1>1. Init => TranscriptFollowsCircuit
  BY DEF Init, TranscriptFollowsCircuit
<1>2. EvaluationInv /\ TranscriptFollowsCircuit /\ [Next]_vars => TranscriptFollowsCircuit'
  BY TranscriptStep
<1> QED
  BY <1>1, <1>2, EvaluationCorrect, PTL DEF Spec
=============================================================================
