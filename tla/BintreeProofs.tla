---------------------------- MODULE BintreeProofs ----------------------------
(***************************************************************************)
(* bintree.c for every set of keys and values and any number of calls and  *)
(* walks.  The descents and the reversal of bits are recursive functions,  *)
(* each of which calls itself last with a smaller argument, so they are    *)
(* first shown to be what their definitions say; then follow the shape of  *)
(* the tree of numbers, what the calls do to it, and the walk.             *)
(***************************************************************************)
EXTENDS Bintree, TLAPS, WellFoundedInduction

-----------------------------------------------------------------------------
(* Recursion *)

LEMMA StrongInduction ==
  ASSUME NEW S \in SUBSET Nat, \A n \in Nat : (\A m \in Nat : m < n => m \in S) => n \in S
  PROVE  S = Nat
<1> SUFFICES ASSUME Nat \ S # {}
             PROVE  FALSE
  OBVIOUS
<1> DEFINE R == {ss \in Nat \X Nat : ss[1] < ss[2]}
<1>1. IsWellFoundedOn(R, Nat)
  BY NatLessThanWellFounded, Zenon DEF OpToRel
<1>2. PICK m \in Nat \ S : \A n \in Nat \ S : <<n, m>> \notin R
  <2>1. Nat \ S \subseteq Nat
    OBVIOUS
  <2> HIDE DEF R
  <2> QED
    BY <1>1, <2>1, WFMin, Zenon
<1>3. \A n \in Nat : n < m => n \in S
  BY <1>2
<1> QED
  BY <1>2, <1>3

\* A function that calls itself last, with an argument of smaller size.
Shrinks(S, V, size, next, base) ==
    /\ size \in [S -> Nat] /\ next \in [S -> S] /\ base \in [S -> V]
    /\ \A s \in S : size[s] > 0 => size[next[s]] < size[s]

Recurs(f, S, size, next, base) ==
    \A s \in S : f[s] = IF size[s] = 0 THEN base[s] ELSE f[next[s]]

\* There is one.
LEMMA TailRecursion ==
  ASSUME NEW S, NEW V, NEW size, NEW next, NEW base, Shrinks(S, V, size, next, base)
  PROVE  \E f \in [S -> V] : Recurs(f, S, size, next, base)
<1> USE DEF Shrinks
<1> DEFINE Upto(n) == {s \in S : size[s] <= n}
           Fits(g, n) == /\ g \in [Upto(n) -> V]
                         /\ \A s \in Upto(n) : g[s] = IF size[s] = 0 THEN base[s] ELSE g[next[s]]
           Have == {n \in Nat : \E g : Fits(g, n)}
<1>1. ASSUME NEW n \in Nat, \A m \in Nat : m < n => m \in Have
      PROVE  n \in Have
  <2>1. CASE n = 0
    <3> DEFINE g == [s \in Upto(0) |-> base[s]]
    <3>1. g \in [Upto(0) -> V]
      OBVIOUS
    <3>2. \A s \in Upto(0) : size[s] = 0 /\ g[s] = base[s]
      OBVIOUS
    <3> HIDE DEF g
    <3>3. Fits(g, 0)
      BY <3>1, <3>2
    <3> QED
      BY <2>1, <3>3
  <2>2. CASE n # 0
    <3>1. n - 1 \in Nat /\ n - 1 < n
      BY <2>2
    <3>2. PICK h : Fits(h, n - 1)
      BY <1>1, <3>1
    <3> DEFINE g == [s \in Upto(n) |-> IF size[s] <= n - 1 THEN h[s] ELSE h[next[s]]]
    <3>3. ASSUME NEW s \in Upto(n)
          PROVE  /\ size[s] <= n - 1 => s \in Upto(n - 1)
                 /\ size[s] > 0 => next[s] \in Upto(n - 1) /\ next[s] \in Upto(n)
                 /\ ~(size[s] <= n - 1) => size[s] > 0
      <4>1. size[s] \in Nat /\ next[s] \in S /\ size[next[s]] \in Nat
        OBVIOUS
      <4> QED
        BY <2>2, <4>1
    <3>4. h \in [Upto(n - 1) -> V]
      BY <3>2
    <3>5. \A s \in Upto(n - 1) : h[s] = IF size[s] = 0 THEN base[s] ELSE h[next[s]]
      BY <3>2
    <3> HIDE DEF Upto
    <3>6. g \in [Upto(n) -> V]
      <4>1. \A s \in Upto(n) : (IF size[s] <= n - 1 THEN h[s] ELSE h[next[s]]) \in V
        BY <3>3, <3>4
      <4> QED
        BY <4>1
    <3>7. ASSUME NEW s \in Upto(n)
          PROVE  g[s] = IF size[s] = 0 THEN base[s] ELSE g[next[s]]
      <4>2. ASSUME size[s] > 0
            PROVE  g[next[s]] = h[next[s]]
        <5> DEFINE x == next[s]
        <5>1. x \in Upto(n) /\ x \in Upto(n - 1)
          BY <3>3, <4>2
        <5>2. size[x] <= n - 1
          BY <5>1 DEF Upto
        <5> HIDE DEF x
        <5>3. g[x] = h[x]
          BY <5>1, <5>2
        <5> QED
          BY <5>3 DEF x
      <4>3. CASE size[s] <= n - 1
        BY <3>3, <3>5, <4>2, <4>3 DEF Upto
      <4>4. CASE ~(size[s] <= n - 1)
        <5>1. size[s] > 0 /\ size[s] # 0
          BY <3>3, <4>4
        <5> QED
          BY <4>2, <4>4, <5>1
      <4> QED
        BY <4>3, <4>4
    <3> HIDE DEF g
    <3>8. Fits(g, n)
      BY <3>6, <3>7
    <3> QED
      BY <3>8
  <2> QED
    BY <2>1, <2>2
<1>2. Have = Nat
  <2>1. Have \in SUBSET Nat
    OBVIOUS
  <2> HIDE DEF Have
  <2> QED
    BY <1>1, <2>1, StrongInduction
<1> DEFINE Agree(n) == \A s \in S, i \in Nat, j \in Nat : \A g, h :
                          size[s] = n /\ n <= i /\ n <= j /\ Fits(g, i) /\ Fits(h, j) => g[s] = h[s]
           Same == {n \in Nat : Agree(n)}
<1>3. ASSUME NEW n \in Nat, \A m \in Nat : m < n => m \in Same
      PROVE  n \in Same
  <2> HIDE DEF Fits
  <2> SUFFICES ASSUME NEW s \in S, NEW i \in Nat, NEW j \in Nat, NEW g, NEW h,
                      size[s] = n, n <= i, n <= j, Fits(g, i), Fits(h, j)
               PROVE  g[s] = h[s]
    OBVIOUS
  <2> USE DEF Fits
  <2>1. s \in Upto(i) /\ s \in Upto(j)
    OBVIOUS
  <2>2. /\ g[s] = IF size[s] = 0 THEN base[s] ELSE g[next[s]]
        /\ h[s] = IF size[s] = 0 THEN base[s] ELSE h[next[s]]
    BY <2>1
  <2>3. CASE size[s] = 0
    BY <2>2, <2>3
  <2>4. CASE size[s] > 0
    <3>1. next[s] \in S /\ size[next[s]] \in Nat /\ size[next[s]] < n
      BY <2>4
    <3> HIDE DEF Fits
    <3>2. size[next[s]] \in Same /\ size[next[s]] <= i /\ size[next[s]] <= j
      <4>1. size[next[s]] \in Same
        <5> HIDE DEF Same
        <5> QED
          BY <1>3, <3>1, Zenon
      <4>2. size[next[s]] <= i /\ size[next[s]] <= j
        BY <3>1
      <4> QED
        BY <4>1, <4>2
    <3>3. g[next[s]] = h[next[s]]
      BY <3>1, <3>2
    <3> QED
      BY <2>2, <2>4, <3>3
  <2> QED
    BY <2>3, <2>4
<1>4. Same = Nat
  <2>1. Same \in SUBSET Nat
    OBVIOUS
  <2> HIDE DEF Same
  <2> QED
    BY <1>3, <2>1, StrongInduction
<1> DEFINE G(n) == CHOOSE g : Fits(g, n)
<1>5. \A n \in Nat : Fits(G(n), n)
  <2> HIDE DEF Fits
  <2> QED
    BY <1>2
<1>6. \A s \in S, n \in Nat : size[s] <= n => G(size[s])[s] = G(n)[s]
  <2> HIDE DEF Fits, G
  <2> TAKE s \in S, n \in Nat
  <2> HAVE size[s] <= n
  <2>1. size[s] \in Same /\ size[s] \in Nat /\ size[s] <= size[s]
    BY <1>4
  <2> QED
    BY <1>5, <2>1
<1> DEFINE f == [s \in S |-> G(size[s])[s]]
<1>7. f \in [S -> V]
  <2>1. ASSUME NEW s \in S
        PROVE  G(size[s])[s] \in V
    <3>1. size[s] \in Nat /\ s \in Upto(size[s])
      OBVIOUS
    <3>2. G(size[s]) \in [Upto(size[s]) -> V]
      BY <1>5, <3>1
    <3> HIDE DEF G, Upto
    <3> QED
      BY <3>1, <3>2
  <2> HIDE DEF G
  <2> QED
    BY <2>1
<1>8. ASSUME NEW s \in S
      PROVE  f[s] = IF size[s] = 0 THEN base[s] ELSE f[next[s]]
  <2>1. size[s] \in Nat /\ s \in Upto(size[s]) /\ next[s] \in S /\ size[next[s]] \in Nat
    OBVIOUS
  <2>2. G(size[s])[s] = IF size[s] = 0 THEN base[s] ELSE G(size[s])[next[s]]
    BY <1>5, <2>1
  <2>3. size[s] > 0 => G(size[next[s]])[next[s]] = G(size[s])[next[s]]
    <3> HIDE DEF G
    <3> QED
      BY <1>6, <2>1
  <2> HIDE DEF G
  <2>4. f[s] = G(size[s])[s] /\ f[next[s]] = G(size[next[s]])[next[s]]
    BY <2>1
  <2> HIDE DEF f
  <2>5. CASE size[s] = 0
    BY <2>2, <2>4, <2>5
  <2>6. CASE size[s] > 0
    BY <2>2, <2>3, <2>4, <2>6
  <2> QED
    BY <2>1, <2>5, <2>6
<1> HIDE DEF f
<1> QED
  BY <1>7, <1>8 DEF Recurs

\* It takes its values where the base has them.
LEMMA TailTyped ==
  ASSUME NEW S, NEW V, NEW size, NEW next, NEW base, Shrinks(S, V, size, next, base),
         NEW f, Recurs(f, S, size, next, base)
  PROVE  \A s \in S : f[s] \in V
<1> USE DEF Shrinks, Recurs
<1> DEFINE Have == {n \in Nat : \A s \in S : size[s] = n => f[s] \in V}
<1>1. ASSUME NEW n \in Nat, \A m \in Nat : m < n => m \in Have
      PROVE  n \in Have
  <2> SUFFICES ASSUME NEW s \in S, size[s] = n
               PROVE  f[s] \in V
    OBVIOUS
  <2>1. next[s] \in S /\ size[next[s]] \in Nat /\ base[s] \in V
    OBVIOUS
  <2>2. CASE n = 0
    BY <2>1, <2>2
  <2>3. CASE n # 0
    <3>1. size[next[s]] < n
      BY <2>3
    <3>2. size[next[s]] \in Have
      BY <1>1, <2>1, <3>1
    <3>3. f[next[s]] \in V
      BY <2>1, <3>2
    <3> QED
      BY <2>3, <3>3
  <2> QED
    BY <2>2, <2>3
<1>2. Have = Nat
  <2>1. Have \in SUBSET Nat
    OBVIOUS
  <2> HIDE DEF Have
  <2> QED
    BY <1>1, <2>1, StrongInduction
<1>3. \A s \in S : size[s] \in Have
  BY <1>2
<1> QED
  BY <1>3

Pairs == Nat \X Nat

\* A number is its last bit and the number above it.
LEMMA Halves ==
  ASSUME NEW n \in Nat
  PROVE  /\ n \div 2 \in Nat /\ n % 2 \in {0, 1} /\ n = 2 * (n \div 2) + (n % 2)
         /\ n > 0 => n \div 2 < n
         /\ (2 * n) \div 2 = n /\ (2 * n) % 2 = 0
         /\ (2 * n + 1) \div 2 = n /\ (2 * n + 1) % 2 = 1
OBVIOUS

\* The descent of bintreeAdd and bintreeGet is what its definition says.
LEMMA DescendIs ==
  ASSUME NEW n \in Nat, NEW k \in Nat
  PROVE  /\ Descend[<<n, k>>] \in Nat
         /\ Descend[<<n, 0>>] = n
         /\ k > 0 => Descend[<<n, k>>] = Descend[<<2 * n + (k % 2), k \div 2>>]
<1> DEFINE size == [s \in Pairs |-> s[2]]
           next == [s \in Pairs |-> <<2 * s[1] + (s[2] % 2), s[2] \div 2>>]
           base == [s \in Pairs |-> s[1]]
<1>1. size \in [Pairs -> Nat] /\ next \in [Pairs -> Pairs] /\ base \in [Pairs -> Nat]
  BY Halves DEF Pairs
<1>2. ASSUME NEW s \in Pairs
      PROVE  /\ size[s] = s[2] /\ base[s] = s[1] /\ next[s] = <<2 * s[1] + (s[2] % 2), s[2] \div 2>>
             /\ size[s] > 0 => size[next[s]] < size[s]
  BY Halves DEF Pairs
<1> HIDE DEF size, next, base
<1>3. Shrinks(Pairs, Nat, size, next, base)
  BY <1>1, <1>2 DEF Shrinks
<1>4. PICK f \in [Pairs -> Nat] : Recurs(f, Pairs, size, next, base)
  BY <1>3, TailRecursion, Zenon
<1>5. f = [s \in Nat \X Nat |-> IF s[2] = 0 THEN s[1] ELSE f[<<2 * s[1] + (s[2] % 2), s[2] \div 2>>]]
  BY <1>2, <1>4 DEF Pairs, Recurs
<1>6. Descend = [s \in Nat \X Nat |-> IF s[2] = 0 THEN s[1]
                                      ELSE Descend[<<2 * s[1] + (s[2] % 2), s[2] \div 2>>]]
  BY <1>5, Zenon DEF Descend
<1>7. Recurs(Descend, Pairs, size, next, base)
  BY <1>2, <1>6 DEF Pairs, Recurs
<1>8. \A s \in Pairs : Descend[s] \in Nat
  BY <1>3, <1>7, TailTyped, Zenon
<1>9. <<n, k>> \in Pairs /\ <<n, 0>> \in Pairs
  BY DEF Pairs
<1> HIDE DEF Pairs
<1>10. Descend[<<n, k>>] \in Nat
  BY <1>8, <1>9, Zenon
<1>11. /\ Descend[<<n, 0>>] = IF size[<<n, 0>>] = 0 THEN base[<<n, 0>>] ELSE Descend[next[<<n, 0>>]]
       /\ Descend[<<n, k>>] = IF size[<<n, k>>] = 0 THEN base[<<n, k>>] ELSE Descend[next[<<n, k>>]]
  BY <1>7, <1>9 DEF Recurs
<1>12. /\ size[<<n, 0>>] = 0 /\ base[<<n, 0>>] = n /\ size[<<n, k>>] = k
       /\ next[<<n, k>>] = <<2 * n + (k % 2), k \div 2>>
  BY <1>2, <1>9
<1>13. k > 0 => size[<<n, k>>] # 0
  BY <1>12
<1> QED
  BY <1>10, <1>11, <1>12, <1>13

\* So is reverseInt.
LEMMA ReverseIs ==
  ASSUME NEW n \in Nat, NEW k \in Nat
  PROVE  /\ Reverse[<<n, k>>] \in Nat
         /\ Reverse[<<0, k>>] = k
         /\ n > 0 => Reverse[<<n, k>>] = Reverse[<<n \div 2, 2 * k + (n % 2)>>]
<1> DEFINE size == [s \in Pairs |-> s[1]]
           next == [s \in Pairs |-> <<s[1] \div 2, 2 * s[2] + (s[1] % 2)>>]
           base == [s \in Pairs |-> s[2]]
<1>1. size \in [Pairs -> Nat] /\ next \in [Pairs -> Pairs] /\ base \in [Pairs -> Nat]
  BY Halves DEF Pairs
<1>2. ASSUME NEW s \in Pairs
      PROVE  /\ size[s] = s[1] /\ base[s] = (s[2]) /\ next[s] = <<s[1] \div 2, 2 * s[2] + (s[1] % 2)>>
             /\ size[s] > 0 => size[next[s]] < size[s]
  BY Halves DEF Pairs
<1> HIDE DEF size, next, base
<1>3. Shrinks(Pairs, Nat, size, next, base)
  BY <1>1, <1>2 DEF Shrinks
<1>4. PICK f \in [Pairs -> Nat] : Recurs(f, Pairs, size, next, base)
  BY <1>3, TailRecursion, Zenon
<1>5. f = [s \in Nat \X Nat |-> IF s[1] = 0 THEN s[2]
                       ELSE f[<<s[1] \div 2, 2 * s[2] + (s[1] % 2)>>]]
  BY <1>2, <1>4, Halves DEF Pairs, Recurs
<1>6. Reverse = [s \in Nat \X Nat |-> IF s[1] = 0 THEN s[2]
                       ELSE Reverse[<<s[1] \div 2, 2 * s[2] + (s[1] % 2)>>]]
  BY <1>5, Zenon DEF Reverse
<1>7. Recurs(Reverse, Pairs, size, next, base)
  BY <1>2, <1>6, Halves DEF Pairs, Recurs
<1>8. \A s \in Pairs : Reverse[s] \in Nat
  BY <1>3, <1>7, TailTyped, Zenon
<1>9. <<n, k>> \in Pairs /\ <<0, k>> \in Pairs
  BY DEF Pairs
<1> HIDE DEF Pairs
<1>10. Reverse[<<n, k>>] \in Nat
  BY <1>8, <1>9, Zenon
<1>11. /\ Reverse[<<0, k>>] = IF size[<<0, k>>] = 0 THEN base[<<0, k>>] ELSE Reverse[next[<<0, k>>]]
       /\ Reverse[<<n, k>>] = IF size[<<n, k>>] = 0 THEN base[<<n, k>>] ELSE Reverse[next[<<n, k>>]]
  BY <1>7, <1>9 DEF Recurs
<1>12. /\ size[<<0, k>>] = 0 /\ base[<<0, k>>] = k /\ size[<<n, k>>] = n
       /\ next[<<n, k>>] = <<n \div 2, 2 * k + (n % 2)>>
  BY <1>2, <1>9
<1>13. n > 0 => size[<<n, k>>] # 0
  BY <1>12
<1> QED
  BY <1>10, <1>11, <1>12, <1>13

\* So is the way from a node to the ancestors with numbers that are not above another's.
LEMMA LiftIs ==
  ASSUME NEW n \in Nat, NEW k \in Nat
  PROVE  /\ Lift[<<n, k>>] \in Nat
         /\ k <= n => Lift[<<n, k>>] = k
         /\ k > n => Lift[<<n, k>>] = Lift[<<n, k \div 2>>]
<1> DEFINE size == [s \in Pairs |-> (IF s[2] <= s[1] THEN 0 ELSE s[2])]
           next == [s \in Pairs |-> <<s[1], s[2] \div 2>>]
           base == [s \in Pairs |-> s[2]]
<1>1. size \in [Pairs -> Nat] /\ next \in [Pairs -> Pairs] /\ base \in [Pairs -> Nat]
  BY Halves DEF Pairs
<1>2. ASSUME NEW s \in Pairs
      PROVE  /\ size[s] = (IF s[2] <= s[1] THEN 0 ELSE s[2]) /\ base[s] = (s[2]) /\ next[s] = <<s[1], s[2] \div 2>>
             /\ size[s] > 0 => size[next[s]] < size[s]
  BY Halves DEF Pairs
<1> HIDE DEF size, next, base
<1>3. Shrinks(Pairs, Nat, size, next, base)
  BY <1>1, <1>2 DEF Shrinks
<1>4. PICK f \in [Pairs -> Nat] : Recurs(f, Pairs, size, next, base)
  BY <1>3, TailRecursion, Zenon
<1>5. f = [s \in Nat \X Nat |-> IF s[2] <= s[1] THEN s[2] ELSE f[<<s[1], s[2] \div 2>>]]
  BY <1>2, <1>4, Halves DEF Pairs, Recurs
<1>6. Lift = [s \in Nat \X Nat |-> IF s[2] <= s[1] THEN s[2] ELSE Lift[<<s[1], s[2] \div 2>>]]
  BY <1>5, Zenon DEF Lift
<1>7. Recurs(Lift, Pairs, size, next, base)
  BY <1>2, <1>6, Halves DEF Pairs, Recurs
<1>8. \A s \in Pairs : Lift[s] \in Nat
  BY <1>3, <1>7, TailTyped, Zenon
<1>9. <<n, k>> \in Pairs /\ <<n, k \div 2>> \in Pairs
  BY Halves DEF Pairs
<1> HIDE DEF Pairs
<1>10. Lift[<<n, k>>] \in Nat
  BY <1>8, <1>9, Zenon
<1>11. Lift[<<n, k>>] = IF size[<<n, k>>] = 0 THEN base[<<n, k>>] ELSE Lift[next[<<n, k>>]]
  BY <1>7, <1>9 DEF Recurs
<1>12. /\ base[<<n, k>>] = k /\ next[<<n, k>>] = <<n, k \div 2>>
       /\ size[<<n, k>>] = IF k <= n THEN 0 ELSE k
  BY <1>2, <1>9
<1>13. k > n => size[<<n, k>>] # 0 /\ ~(k <= n)
  BY <1>12
<1> QED
  BY <1>10, <1>11, <1>12, <1>13

\* So is the comparison of two keys bit by bit.
LEMMA BeginsIs ==
  ASSUME NEW n \in Nat, NEW k \in Nat
  PROVE  /\ Begins[<<0, k>>]
         /\ n > 0 => (Begins[<<n, k>>] <=> n % 2 = k % 2 /\ Begins[<<n \div 2, k \div 2>>])
<1> DEFINE size == [s \in Pairs |-> (IF s[1] = 0 \/ s[1] % 2 # s[2] % 2 THEN 0 ELSE s[1])]
           next == [s \in Pairs |-> <<s[1] \div 2, s[2] \div 2>>]
           base == [s \in Pairs |-> (s[1] = 0)]
<1>1. size \in [Pairs -> Nat] /\ next \in [Pairs -> Pairs] /\ base \in [Pairs -> BOOLEAN]
  BY Halves DEF Pairs
<1>2. ASSUME NEW s \in Pairs
      PROVE  /\ size[s] = (IF s[1] = 0 \/ s[1] % 2 # s[2] % 2 THEN 0 ELSE s[1]) /\ base[s] = ((s[1] = 0)) /\ next[s] = <<s[1] \div 2, s[2] \div 2>>
             /\ size[s] > 0 => size[next[s]] < size[s]
  BY Halves DEF Pairs
<1> HIDE DEF size, next, base
<1>3. Shrinks(Pairs, BOOLEAN, size, next, base)
  BY <1>1, <1>2 DEF Shrinks
<1>4. PICK f \in [Pairs -> BOOLEAN] : Recurs(f, Pairs, size, next, base)
  BY <1>3, TailRecursion, Zenon
<1>5. f = [s \in Nat \X Nat |-> IF s[1] = 0 \/ s[1] % 2 # s[2] % 2 THEN s[1] = 0
                       ELSE f[<<s[1] \div 2, s[2] \div 2>>]]
  BY <1>2, <1>4, Halves DEF Pairs, Recurs
<1>6. Begins = [s \in Nat \X Nat |-> IF s[1] = 0 \/ s[1] % 2 # s[2] % 2 THEN s[1] = 0
                       ELSE Begins[<<s[1] \div 2, s[2] \div 2>>]]
  BY <1>5, Zenon DEF Begins
<1>7. Recurs(Begins, Pairs, size, next, base)
  BY <1>2, <1>6, Halves DEF Pairs, Recurs
<1>8. \A s \in Pairs : Begins[s] \in BOOLEAN
  BY <1>3, <1>7, TailTyped, Zenon
<1>9. <<n, k>> \in Pairs /\ <<0, k>> \in Pairs
  BY Halves DEF Pairs
<1> HIDE DEF Pairs
<1>10. Begins[<<n, k>>] \in BOOLEAN /\ Begins[<<0, k>>] \in BOOLEAN
  BY <1>8, <1>9, Zenon
<1>11. /\ size[<<n, k>>] = 0 => Begins[<<n, k>>] = base[<<n, k>>]
       /\ size[<<n, k>>] # 0 => Begins[<<n, k>>] = Begins[next[<<n, k>>]]
       /\ size[<<0, k>>] = 0 => Begins[<<0, k>>] = base[<<0, k>>]
  BY <1>7, <1>9, Zenon DEF Recurs
<1>12. /\ base[<<n, k>>] = (n = 0) /\ next[<<n, k>>] = <<n \div 2, k \div 2>>
       /\ size[<<n, k>>] = IF n = 0 \/ n % 2 # k % 2 THEN 0 ELSE n
       /\ base[<<0, k>>] = (0 = 0) /\ size[<<0, k>>] = 0
  BY <1>2, <1>9
<1>13. Begins[<<0, k>>]
  BY <1>11, <1>12, Zenon
<1>14. CASE n > 0 /\ n % 2 # k % 2
  <2>1. size[<<n, k>>] = 0 /\ n # 0
    BY <1>12, <1>14
  <2>2. ~Begins[<<n, k>>]
    BY <1>11, <1>12, <2>1, Zenon
  <2> QED
    BY <1>13, <1>14, <2>2
<1>15. CASE n > 0 /\ n % 2 = k % 2
  <2>1. size[<<n, k>>] # 0
    BY <1>12, <1>15
  <2>2. Begins[<<n, k>>] = Begins[<<n \div 2, k \div 2>>]
    BY <1>11, <1>12, <2>1, Zenon
  <2> QED
    BY <1>13, <1>15, <2>2
<1> QED
  BY <1>13, <1>14, <1>15

-----------------------------------------------------------------------------
(* The tree of numbers: n has the children 2n and 2n + 1 *)

LEMMA UpIs ==
  ASSUME NEW a \in Nat, NEW b \in Nat
  PROVE  /\ AtOrAbove(a, a)
         /\ AtOrAbove(a, b) => a <= b
         /\ b > a => (AtOrAbove(a, b) <=> AtOrAbove(a, b \div 2))
<1>1. b > a \/ b = a \/ b < a
  OBVIOUS
<1>2. /\ b > a => Lift[<<a, b>>] = Lift[<<a, b \div 2>>]
      /\ b <= a => Lift[<<a, b>>] = b
  BY LiftIs
<1>3. Lift[<<a, a>>] = a
  <2>1. a <= a
    OBVIOUS
  <2> QED
    BY <2>1, LiftIs, Zenon
<1> QED
  BY <1>1, <1>2, <1>3 DEF AtOrAbove

\* Below a node are its children and what is below them.
LEMMA UpChildren ==
  ASSUME NEW a \in Nat \ {0}, NEW b \in Nat
  PROVE  AtOrAbove(a, b) <=> a = b \/ AtOrAbove(2 * a, b) \/ AtOrAbove(2 * a + 1, b)
<1> DEFINE P(n) == AtOrAbove(a, n) <=> a = n \/ AtOrAbove(2 * a, n) \/ AtOrAbove(2 * a + 1, n)
           S == {n \in Nat : P(n)}
<1>0. 2 * a \in Nat /\ 2 * a + 1 \in Nat /\ 2 * a > a
  OBVIOUS
<1>1. ASSUME NEW n \in Nat, \A m \in Nat : m < n => m \in S
      PROVE  P(n)
  <2>1. CASE n <= a
    <3>1. ~AtOrAbove(2 * a, n) /\ ~AtOrAbove(2 * a + 1, n)
      BY <1>0, <2>1, UpIs
    <3>2. AtOrAbove(a, n) <=> a = n
      BY <2>1, UpIs
    <3> QED
      BY <3>1, <3>2
  <2>2. CASE n > a
    <3> DEFINE h == n \div 2
    <3>1. h \in Nat /\ h < n /\ n \in {2 * h, 2 * h + 1}
      BY <2>2, Halves
    <3> HIDE DEF h
    <3>2. P(h)
      BY <1>1, <3>1
    <3>3. AtOrAbove(a, n) <=> AtOrAbove(a, h)
      BY <2>2, UpIs DEF h
    <3>4. CASE h = a
      <4>1. n = 2 * a \/ n = 2 * a + 1
        BY <3>1, <3>4
      <4>2. AtOrAbove(a, h) /\ (AtOrAbove(2 * a, n) \/ AtOrAbove(2 * a + 1, n))
        BY <1>0, <3>4, <4>1, UpIs
      <4> QED
        BY <3>3, <4>2
    <3>5. CASE h # a
      <4>1. n # 2 * a /\ n # 2 * a + 1 /\ n # a
        BY <2>2, <3>1, <3>5
      <4>2. ASSUME NEW c \in {2 * a, 2 * a + 1}
            PROVE  AtOrAbove(c, n) <=> AtOrAbove(c, h)
        <5>1. c \in Nat /\ c # n
          BY <4>1
        <5>2. CASE n > c
          BY <5>1, <5>2, UpIs DEF h
        <5>3. CASE n < c
          <6>1. ~AtOrAbove(c, n) /\ ~AtOrAbove(c, h)
            BY <3>1, <5>1, <5>3, UpIs
          <6> QED
            BY <6>1
        <5> QED
          BY <5>1, <5>2, <5>3
      <4> QED
        BY <3>2, <3>3, <3>5, <4>1, <4>2
    <3> QED
      BY <3>4, <3>5
  <2> QED
    BY <2>1, <2>2
<1>2. S = Nat
  <2>1. S \in SUBSET Nat
    OBVIOUS
  <2>2. \A n \in Nat : (\A m \in Nat : m < n => m \in S) => n \in S
    BY <1>1
  <2> HIDE DEF S
  <2> QED
    BY <2>1, <2>2, StrongInduction
<1>3. b \in S
  BY <1>2
<1> QED
  BY <1>3

\* The two subtrees of a node have nothing in common.
LEMMA UpEither ==
  ASSUME NEW a \in Nat \ {0}, NEW b \in Nat
  PROVE  ~(AtOrAbove(2 * a, b) /\ AtOrAbove(2 * a + 1, b))
<1> DEFINE P(n) == ~(AtOrAbove(2 * a, n) /\ AtOrAbove(2 * a + 1, n))
           S == {n \in Nat : P(n)}
<1>0. 2 * a \in Nat /\ 2 * a + 1 \in Nat /\ (2 * a + 1) \div 2 = a /\ a < 2 * a
  BY Halves
<1>1. ASSUME NEW n \in Nat, \A m \in Nat : m < n => m \in S
      PROVE  P(n)
  <2>1. CASE n < 2 * a + 1
    BY <1>0, <2>1, UpIs
  <2>2. CASE n = 2 * a + 1
    <3>1. AtOrAbove(2 * a, n) <=> AtOrAbove(2 * a, a)
      BY <1>0, <2>2, UpIs
    <3>2. ~AtOrAbove(2 * a, a)
      BY <1>0, UpIs
    <3> QED
      BY <3>1, <3>2
  <2>3. CASE n > 2 * a + 1
    <3>1. n \div 2 \in Nat /\ n \div 2 < n
      BY <2>3, Halves
    <3>2. P(n \div 2)
      BY <1>1, <3>1
    <3>3. /\ AtOrAbove(2 * a, n) <=> AtOrAbove(2 * a, n \div 2)
          /\ AtOrAbove(2 * a + 1, n) <=> AtOrAbove(2 * a + 1, n \div 2)
      BY <1>0, <2>3, UpIs
    <3> QED
      BY <3>2, <3>3
  <2> QED
    BY <2>1, <2>2, <2>3
<1>2. S = Nat
  <2>1. S \in SUBSET Nat
    OBVIOUS
  <2>2. \A n \in Nat : (\A m \in Nat : m < n => m \in S) => n \in S
    BY <1>1
  <2> HIDE DEF S
  <2> QED
    BY <2>1, <2>2, StrongInduction
<1>3. b \in S
  BY <1>2
<1> QED
  BY <1>3

\* Above what is above, and the way up is a chain.
LEMMA UpTrans ==
  ASSUME NEW a \in Nat, NEW b \in Nat, NEW c \in Nat, AtOrAbove(b, c)
  PROVE  /\ AtOrAbove(a, b) => AtOrAbove(a, c)
         /\ AtOrAbove(a, c) /\ a <= b => AtOrAbove(a, b)
<1> DEFINE P(n) == AtOrAbove(b, n) => /\ AtOrAbove(a, b) => AtOrAbove(a, n)
                                      /\ AtOrAbove(a, n) /\ a <= b => AtOrAbove(a, b)
           S == {n \in Nat : P(n)}
<1>1. ASSUME NEW n \in Nat, \A m \in Nat : m < n => m \in S
      PROVE  P(n)
  <2>1. CASE n <= b
    <3>1. AtOrAbove(b, n) => b = n
      BY <2>1, UpIs
    <3> QED
      BY <3>1
  <2>2. CASE n > b
    <3>1. n \div 2 \in Nat /\ n \div 2 < n
      BY <2>2, Halves
    <3>2. P(n \div 2)
      BY <1>1, <3>1
    <3>3. AtOrAbove(b, n) <=> AtOrAbove(b, n \div 2)
      BY <2>2, UpIs
    <3>4. a <= b => (AtOrAbove(a, n) <=> AtOrAbove(a, n \div 2))
      BY <2>2, UpIs
    <3>5. AtOrAbove(a, b) => a <= b
      BY UpIs
    <3> QED
      BY <3>2, <3>3, <3>4, <3>5
  <2> QED
    BY <2>1, <2>2
<1>2. S = Nat
  <2>1. S \in SUBSET Nat
    OBVIOUS
  <2>2. \A n \in Nat : (\A m \in Nat : m < n => m \in S) => n \in S
    BY <1>1
  <2> HIDE DEF S
  <2> QED
    BY <2>1, <2>2, StrongInduction
<1>3. c \in S
  BY <1>2
<1> QED
  BY <1>3

\* The root is above everything.
LEMMA UpRoot ==
  ASSUME NEW b \in Nat \ {0}
  PROVE  AtOrAbove(Root, b)
<1> DEFINE S == {n \in Nat : n > 0 => AtOrAbove(1, n)}
<1>1. ASSUME NEW n \in Nat, \A m \in Nat : m < n => m \in S
      PROVE  n > 0 => AtOrAbove(1, n)
  <2>1. CASE n <= 1
    BY <2>1, UpIs
  <2>2. CASE n > 1
    <3>1. n \div 2 \in Nat /\ n \div 2 < n /\ n \div 2 > 0
      BY <2>2, Halves
    <3>2. AtOrAbove(1, n \div 2)
      BY <1>1, <3>1
    <3> QED
      BY <2>2, <3>2, UpIs
  <2> QED
    BY <2>1, <2>2
<1>2. S = Nat
  <2>1. S \in SUBSET Nat
    OBVIOUS
  <2>2. \A n \in Nat : (\A m \in Nat : m < n => m \in S) => n \in S
    BY <1>1
  <2> HIDE DEF S
  <2> QED
    BY <2>1, <2>2, StrongInduction
<1>3. b \in S
  BY <1>2
<1> QED
  BY <1>3 DEF Root

\* Where each node hangs on a linked parent, it hangs on all of its ancestors.
LEMMA UpLinked ==
  ASSUME NEW N \in SUBSET (Nat \ {0}), \A n \in N \ {Root} : n \div 2 \in N,
         NEW a \in Nat \ {0}, NEW b \in N, AtOrAbove(a, b)
  PROVE  a \in N
<1> DEFINE S == {n \in Nat : n \in N /\ AtOrAbove(a, n) => a \in N}
<1>1. ASSUME NEW n \in Nat, \A m \in Nat : m < n => m \in S
      PROVE  n \in N /\ AtOrAbove(a, n) => a \in N
  <2>1. CASE n <= a
    BY <2>1, UpIs
  <2>2. CASE n > a
    <3>1. n \div 2 \in Nat /\ n \div 2 < n
      BY <2>2, Halves
    <3>2. AtOrAbove(a, n) <=> AtOrAbove(a, n \div 2)
      BY <2>2, UpIs
    <3>3. n \div 2 \in S
      BY <1>1, <3>1
    <3>4. n \in N => n \div 2 \in N
      BY <2>2 DEF Root
    <3> QED
      BY <3>2, <3>3, <3>4
  <2> QED
    BY <2>1, <2>2
<1>2. S = Nat
  <2>1. S \in SUBSET Nat
    OBVIOUS
  <2>2. \A n \in Nat : (\A m \in Nat : m < n => m \in S) => n \in S
    BY <1>1
  <2> HIDE DEF S
  <2> QED
    BY <2>1, <2>2, StrongInduction
<1>3. b \in S
  BY <1>2
<1> QED
  BY <1>3

-----------------------------------------------------------------------------
(* Keys and their nodes *)

\* A descent leads below where it begins.
LEMMA DescendBelow ==
  ASSUME NEW n \in Nat \ {0}, NEW k \in Nat
  PROVE  /\ Descend[<<n, k>>] \in Nat \ {0}
         /\ AtOrAbove(n, Descend[<<n, k>>])
         /\ k > 0 => Descend[<<n, k>>] > n
<1> DEFINE P(j) == \A m \in Nat \ {0} : /\ Descend[<<m, j>>] \in Nat \ {0}
                                        /\ AtOrAbove(m, Descend[<<m, j>>])
                                        /\ j > 0 => Descend[<<m, j>>] > m
           S == {j \in Nat : P(j)}
<1>1. ASSUME NEW j \in Nat, \A i \in Nat : i < j => i \in S
      PROVE  P(j)
  <2> SUFFICES ASSUME NEW m \in Nat \ {0}
               PROVE  /\ Descend[<<m, j>>] \in Nat \ {0}
                      /\ AtOrAbove(m, Descend[<<m, j>>])
                      /\ j > 0 => Descend[<<m, j>>] > m
    OBVIOUS
  <2>1. CASE j = 0
    <3>1. Descend[<<m, j>>] = m
      BY <2>1, DescendIs
    <3> QED
      BY <2>1, <3>1, UpIs
  <2>2. CASE j > 0
    <3> DEFINE c == 2 * m + (j % 2)
               h == j \div 2
    <3>1. h \in Nat /\ h < j /\ c \in Nat \ {0} /\ c > m /\ (c = 2 * m \/ c = 2 * m + 1)
      BY <2>2, Halves
    <3>2. Descend[<<m, j>>] = Descend[<<c, h>>]
      BY <2>2, DescendIs
    <3> HIDE DEF c, h
    <3> DEFINE d == Descend[<<c, h>>]
    <3>3. d \in Nat \ {0} /\ AtOrAbove(c, d)
      BY <1>1, <3>1
    <3> HIDE DEF d
    <3>4. c <= d
      BY <3>1, <3>3, UpIs
    <3>5. AtOrAbove(m, d)
      BY <3>1, <3>3, UpChildren
    <3>6. d > m
      BY <3>1, <3>3, <3>4
    <3> QED
      BY <3>2, <3>3, <3>5, <3>6 DEF d
  <2> QED
    BY <2>1, <2>2
<1>2. S = Nat
  <2>1. S \in SUBSET Nat
    OBVIOUS
  <2>2. \A j \in Nat : (\A i \in Nat : i < j => i \in S) => j \in S
    BY <1>1
  <2> HIDE DEF S
  <2> QED
    BY <2>1, <2>2, StrongInduction
<1>3. k \in S
  BY <1>2
<1> QED
  BY <1>3

\* Of two keys whose bits begin alike the longer is the greater.
LEMMA BeginsAre ==
  ASSUME NEW j \in Nat, NEW k \in Nat
  PROVE  /\ Begins[<<j, k>>] => j <= k
         /\ Begins[<<j, j>>]
<1> DEFINE P(n) == /\ \A m \in Nat : Begins[<<n, m>>] => n <= m
                   /\ Begins[<<n, n>>]
           S == {n \in Nat : P(n)}
<1>1. ASSUME NEW n \in Nat, \A i \in Nat : i < n => i \in S
      PROVE  P(n)
  <2>1. CASE n = 0
    BY <2>1, BeginsIs
  <2>2. CASE n > 0
    <3>1. n \div 2 \in Nat /\ n \div 2 < n /\ n = 2 * (n \div 2) + (n % 2) /\ n % 2 \in {0, 1}
      BY <2>2, Halves
    <3>2. P(n \div 2)
      BY <1>1, <3>1
    <3>3. ASSUME NEW m \in Nat, Begins[<<n, m>>]
          PROVE  n <= m
      <4>1. m \div 2 \in Nat /\ m = 2 * (m \div 2) + (m % 2)
        BY Halves
      <4>2. n % 2 = m % 2 /\ Begins[<<n \div 2, m \div 2>>]
        BY <2>2, <3>3, BeginsIs
      <4>3. n \div 2 <= m \div 2
        BY <3>2, <4>1, <4>2
      <4> DEFINE x == n \div 2
                 y == m \div 2
                 z == n % 2
      <4>4. x \in Nat /\ y \in Nat /\ z \in {0, 1} /\ n = 2 * x + z /\ m = 2 * y + z /\ x <= y
        BY <3>1, <4>1, <4>2, <4>3
      <4> HIDE DEF x, y, z
      <4> QED
        BY <4>4
    <3>4. Begins[<<n, n>>]
      BY <2>2, <3>2, BeginsIs
    <3> QED
      BY <3>3, <3>4
  <2> QED
    BY <2>1, <2>2
<1>2. S = Nat
  <2>1. S \in SUBSET Nat
    OBVIOUS
  <2>2. \A n \in Nat : (\A i \in Nat : i < n => i \in S) => n \in S
    BY <1>1
  <2> HIDE DEF S
  <2> QED
    BY <2>1, <2>2, StrongInduction
<1>3. j \in S
  BY <1>2
<1> QED
  BY <1>3

\* From one node the descents of two keys lead one above the other just when the
\* bits of the one begin the other.
LEMMA DescendUp ==
  ASSUME NEW n \in Nat \ {0}, NEW j \in Nat, NEW k \in Nat
  PROVE  AtOrAbove(Descend[<<n, j>>], Descend[<<n, k>>]) <=> Begins[<<j, k>>]
<1> DEFINE P(i) == \A m \in Nat \ {0}, l \in Nat :
                       AtOrAbove(Descend[<<m, i>>], Descend[<<m, l>>]) <=> Begins[<<i, l>>]
           S == {i \in Nat : P(i)}
<1>1. ASSUME NEW i \in Nat, \A h \in Nat : h < i => h \in S
      PROVE  P(i)
  <2> SUFFICES ASSUME NEW m \in Nat \ {0}, NEW l \in Nat
               PROVE  AtOrAbove(Descend[<<m, i>>], Descend[<<m, l>>]) <=> Begins[<<i, l>>]
    OBVIOUS
  <2>1. CASE i = 0
    <3>1. Descend[<<m, i>>] = m
      BY <2>1, DescendIs
    <3>2. Begins[<<i, l>>]
      BY <2>1, BeginsIs
    <3> QED
      BY <3>1, <3>2, DescendBelow
  <2>2. CASE i > 0 /\ l = 0
    <3>1. Descend[<<m, l>>] = m /\ Descend[<<m, i>>] \in Nat /\ Descend[<<m, i>>] > m
      BY <2>2, DescendIs, DescendBelow
    <3>2. ~AtOrAbove(Descend[<<m, i>>], m)
      BY <3>1, UpIs
    <3>3. ~Begins[<<i, l>>]
      <4>1. Begins[<<i, l>>] => i <= l
        BY BeginsAre
      <4> QED
        BY <2>2, <4>1
    <3> QED
      BY <3>1, <3>2, <3>3
  <2>3. CASE i > 0 /\ l > 0
    <3> DEFINE c == 2 * m + (i % 2)
               d == 2 * m + (l % 2)
    <3>1. /\ i \div 2 \in Nat /\ i \div 2 < i /\ l \div 2 \in Nat
          /\ i % 2 \in {0, 1} /\ l % 2 \in {0, 1}
          /\ c \in Nat \ {0} /\ d \in Nat \ {0}
      BY <2>3, Halves
    <3>2. /\ Descend[<<m, i>>] = Descend[<<c, i \div 2>>]
          /\ Descend[<<m, l>>] = Descend[<<d, l \div 2>>]
          /\ Begins[<<i, l>>] <=> i % 2 = l % 2 /\ Begins[<<i \div 2, l \div 2>>]
      BY <2>3, DescendIs, BeginsIs
    <3>3. CASE i % 2 = l % 2
      <4>1. c = d
        BY <3>3
      <4>2. P(i \div 2)
        BY <1>1, <3>1
      <4> HIDE DEF c, d
      <4>3. AtOrAbove(Descend[<<c, i \div 2>>], Descend[<<c, l \div 2>>]) <=> Begins[<<i \div 2, l \div 2>>]
        BY <3>1, <4>2
      <4> QED
        BY <3>2, <3>3, <4>1, <4>3
    <3>4. CASE i % 2 # l % 2
      <4>1. (c = 2 * m /\ d = 2 * m + 1) \/ (c = 2 * m + 1 /\ d = 2 * m)
        BY <3>1, <3>4
      <4> DEFINE x == Descend[<<c, i \div 2>>]
                 y == Descend[<<d, l \div 2>>]
      <4> HIDE DEF c, d
      <4>2. x \in Nat /\ y \in Nat /\ AtOrAbove(c, x) /\ AtOrAbove(d, y)
        BY <3>1, DescendBelow
      <4> HIDE DEF x, y
      <4>3. AtOrAbove(x, y) => AtOrAbove(c, y)
        BY <3>1, <4>2, UpTrans
      <4>4. ~AtOrAbove(x, y)
        BY <4>1, <4>2, <4>3, UpEither
      <4> QED
        BY <3>2, <3>4, <4>4 DEF x, y
    <3> QED
      BY <3>3, <3>4
  <2> QED
    BY <2>1, <2>2, <2>3
<1>2. S = Nat
  <2>1. S \in SUBSET Nat
    OBVIOUS
  <2>2. \A i \in Nat : (\A h \in Nat : h < i => h \in S) => i \in S
    BY <1>1
  <2> HIDE DEF S
  <2> QED
    BY <2>1, <2>2, StrongInduction
<1>3. j \in S
  BY <1>2
<1> QED
  BY <1>3

\* reverseInt takes back, in any o, the bits that a descent has spelt.
LEMMA ReverseSpells ==
  ASSUME NEW n \in Nat \ {0}, NEW k \in Nat, NEW o \in Nat
  PROVE  \E r \in Nat : Reverse[<<Descend[<<n, k>>], o>>] = Reverse[<<n, r>>] /\ Begins[<<k, r>>]
<1> DEFINE P(i) == \A m \in Nat \ {0} : \E r \in Nat :
                       Reverse[<<Descend[<<m, i>>], o>>] = Reverse[<<m, r>>] /\ Begins[<<i, r>>]
           S == {i \in Nat : P(i)}
<1>1. ASSUME NEW i \in Nat, \A h \in Nat : h < i => h \in S
      PROVE  P(i)
  <2> SUFFICES ASSUME NEW m \in Nat \ {0}
               PROVE  \E r \in Nat : Reverse[<<Descend[<<m, i>>], o>>] = Reverse[<<m, r>>]
                                     /\ Begins[<<i, r>>]
    OBVIOUS
  <2>1. CASE i = 0
    BY <2>1, DescendIs, BeginsIs
  <2>2. CASE i > 0
    <3> DEFINE b == i % 2
               h == i \div 2
               c == 2 * m + b
    <3>1. h \in Nat /\ h < i /\ b \in {0, 1}
      BY <2>2, Halves
    <3>2. c \in Nat \ {0} /\ c \div 2 = m /\ c % 2 = b
      BY <3>1, Halves
    <3>3. Descend[<<m, i>>] = Descend[<<c, h>>]
      BY <2>2, DescendIs
    <3>4. P(h)
      BY <1>1, <3>1
    <3> HIDE DEF h, c
    <3>5. PICK r \in Nat : Reverse[<<Descend[<<c, h>>], o>>] = Reverse[<<c, r>>] /\ Begins[<<h, r>>]
      BY <3>2, <3>4
    <3>6. Reverse[<<c, r>>] = Reverse[<<m, 2 * r + b>>]
      <4>1. c > 0
        BY <3>2
      <4>2. Reverse[<<c, r>>] = Reverse[<<c \div 2, 2 * r + (c % 2)>>]
        BY <3>2, <4>1, ReverseIs
      <4> QED
        BY <3>2, <4>2
    <3>7. 2 * r + b \in Nat /\ (2 * r + b) \div 2 = r /\ (2 * r + b) % 2 = b
      BY <3>1, Halves
    <3>8. Begins[<<i, 2 * r + b>>]
      BY <2>2, <3>5, <3>7, BeginsIs DEF h
    <3> QED
      BY <3>3, <3>5, <3>6, <3>7, <3>8
  <2>3. i = 0 \/ i > 0
    OBVIOUS
  <2> QED
    BY <2>1, <2>2, <2>3, Zenon
<1>2. S = Nat
  <2>1. S \in SUBSET Nat
    OBVIOUS
  <2>2. \A i \in Nat : (\A h \in Nat : h < i => h \in S) => i \in S
    BY <1>1
  <2> HIDE DEF S
  <2> QED
    BY <2>1, <2>2, StrongInduction
<1>3. k \in S
  <2> HIDE DEF S
  <2> QED
    BY <1>2
<1> QED
  BY <1>3

\* Keys and nodes: each key has its own, and paths of keys are ways of nodes.
LEMMA NodeIs ==
  ASSUME NEW j \in Nat \ {0}, NEW k \in Nat \ {0}
  PROVE  /\ NodeOf(k) \in Nat \ {0, Root}
         /\ AtOrAbove(NodeOf(j), NodeOf(k)) <=> j = k \/ OnPath(j, k)
         /\ NodeOf(j) = NodeOf(k) => j = k
<1>1. NodeOf(k) \in Nat \ {0} /\ NodeOf(k) > 1 /\ NodeOf(j) \in Nat \ {0}
  BY DescendBelow DEF NodeOf, Root
<1>2. /\ AtOrAbove(NodeOf(j), NodeOf(k)) <=> Begins[<<j, k>>]
      /\ AtOrAbove(NodeOf(k), NodeOf(j)) <=> Begins[<<k, j>>]
  BY DescendUp DEF NodeOf, Root
<1>3. /\ Begins[<<j, k>>] => j <= k
      /\ Begins[<<k, j>>] => k <= j
      /\ Begins[<<k, k>>]
  BY BeginsAre
<1>4. NodeOf(j) = NodeOf(k) => j = k
  <2> SUFFICES ASSUME NodeOf(j) = NodeOf(k)
               PROVE  j = k
    OBVIOUS
  <2>1. AtOrAbove(NodeOf(j), NodeOf(k)) /\ AtOrAbove(NodeOf(k), NodeOf(j))
    BY <1>1, UpIs
  <2> QED
    BY <1>2, <1>3, <2>1
<1>5. AtOrAbove(NodeOf(j), NodeOf(k)) <=> j = k \/ OnPath(j, k)
  BY <1>2, <1>3 DEF OnPath
<1> QED
  BY <1>1, <1>4, <1>5 DEF Root

-----------------------------------------------------------------------------
(* The tree and the calls *)

\* The walk's numbers name nodes that hang together up to the root.
Shape == /\ tree \in [Nodes -> Values \cup {Null}]
         /\ Root \in Nodes /\ Nodes \subseteq Nat \ {0}
         /\ \A n \in Nodes \ {Root} : n \div 2 \in Nodes

\* At or below each node there is data, so that no branch is dead.
Alive == \A n \in Nodes \ {Root} : \E e \in Holding : AtOrAbove(n, e)

\* Data is where some key has it.
Keyed == \A e \in Holding : \E k \in Keys : k <= MaxKey /\ e = NodeOf(k)

TreeInv == Shape /\ Alive /\ Keyed

LEMMA NodesAbove ==
  ASSUME Shape, NEW a \in Nat \ {0}, NEW b \in Nodes, AtOrAbove(a, b)
  PROVE  a \in Nodes
<1>1. Nodes \in SUBSET (Nat \ {0}) /\ \A n \in Nodes \ {Root} : n \div 2 \in Nodes
  BY DEF Shape
<1> QED
  BY <1>1, UpLinked

\* What bintreeAdd makes of the tree, but for the data it stores.
LEMMA GrownIs ==
  ASSUME Shape, NEW n \in Nat \ {0}
  PROVE  /\ Grown(n) \in [Nodes \cup {m \in Root..n : AtOrAbove(m, n)} -> Values \cup {Null}]
         /\ n \in DOMAIN Grown(n)
         /\ \A m \in DOMAIN Grown(n) : m \in Nodes \/ (m \in Nat \ {0} /\ AtOrAbove(m, n))
         /\ \A m \in Nodes : m \in DOMAIN Grown(n) /\ Grown(n)[m] = tree[m]
         /\ \A m \in DOMAIN Grown(n) \ Nodes : Grown(n)[m] = Null
         /\ Root \in DOMAIN Grown(n)
         /\ \A m \in DOMAIN Grown(n) \ {Root} : m \div 2 \in DOMAIN Grown(n)
<1> DEFINE W == {m \in Root..n : AtOrAbove(m, n)}
           N == Nodes \cup W
<1>1. W \subseteq Nat \ {0} /\ n \in W /\ \A m \in W : AtOrAbove(m, n)
  BY UpIs DEF Root
<1>2. Grown(n) = [m \in N |-> IF m \in Nodes THEN tree[m] ELSE Null]
  BY DEF Grown
<1>3. ASSUME NEW m \in W \ {Root}
      PROVE  m \div 2 \in W
  <2>1. m \in Nat /\ m > 1 /\ m <= n
    BY DEF Root
  <2>2. m \div 2 \in Nat /\ m \div 2 >= 1 /\ m \div 2 < m /\ m \div 2 <= n
    BY <2>1, Halves
  <2>3. AtOrAbove(m \div 2, m)
    <3>1. AtOrAbove(m \div 2, m) <=> AtOrAbove(m \div 2, m \div 2)
      BY <2>1, <2>2, UpIs
    <3> QED
      BY <2>2, <3>1, UpIs
  <2>4. AtOrAbove(m \div 2, n)
    BY <2>1, <2>2, <2>3, UpTrans
  <2> QED
    BY <2>2, <2>4 DEF Root
<1> HIDE DEF W
<1>4. \A m \in N \ {Root} : m \div 2 \in N
  BY <1>3 DEF Shape
<1>5. \A m \in N : (IF m \in Nodes THEN tree[m] ELSE Null) \in Values \cup {Null}
  BY DEF Shape
<1>6. Root \in N /\ \A m \in N : m \in Nodes \/ m \in W
  BY DEF Shape
<1> HIDE DEF N
<1>7. Grown(n) \in [N -> Values \cup {Null}] /\ DOMAIN Grown(n) = N
  BY <1>2, <1>5
<1>8. \A m \in N : Grown(n)[m] = IF m \in Nodes THEN tree[m] ELSE Null
  BY <1>2
<1>9. Nodes \subseteq N /\ n \in N
  BY <1>1 DEF N
<1> QED
  BY <1>1, <1>4, <1>6, <1>7, <1>8, <1>9 DEF N, W

\* The nodes that go with n lie on the way to it.
LEMMA FreedIs ==
  ASSUME Shape, NEW n \in Nat \ {0}
  PROVE  /\ Freed(n) \subseteq Nodes \ {Root}
         /\ \A m \in Freed(n) : n \in Nodes /\ AtOrAbove(m, n) /\ \A d \in Nodes : AtOrAbove(m, d) => AtOrAbove(d, n)
         /\ \A m \in Nodes \ Freed(n) : n \in Nodes /\ m # Root /\ AtOrAbove(m, n) =>
                \E d \in Nodes : AtOrAbove(m, d) /\ ~AtOrAbove(d, n)
BY DEF Freed, Bare

LEMMA KeysAre ==
  ASSUME NEW k \in Keys
  PROVE  k \in Nat \ {0} /\ NodeOf(k) \in Nat \ {0, Root}
<1>1. k \in Nat \ {0}
  BY BintreeAssumption
<1> QED
  BY <1>1, NodeIs

\* The invariant speaks of nothing but the tree.
LEMMA TreeSame ==
  ASSUME TreeInv, UNCHANGED tree
  PROVE  TreeInv'
BY DEF TreeInv, Shape, Alive, Keyed, Nodes, Holding

LEMMA AddKeeps ==
  ASSUME TreeInv, NEW k \in Keys, NEW v \in Values, Add(k, v)
  PROVE  TreeInv'
<1> DEFINE n == NodeOf(k)
           G == Grown(n)
<1>1. n \in Nat \ {0, Root}
  BY KeysAre
<1>2. /\ G \in [DOMAIN G -> Values \cup {Null}] /\ n \in DOMAIN G
      /\ \A m \in DOMAIN G : m \in Nodes \/ (m \in Nat \ {0} /\ AtOrAbove(m, n))
      /\ \A m \in Nodes : m \in DOMAIN G /\ G[m] = tree[m]
      /\ \A m \in DOMAIN G \ Nodes : G[m] = Null
      /\ Root \in DOMAIN G
      /\ \A m \in DOMAIN G \ {Root} : m \div 2 \in DOMAIN G
  <2>1. n \in Nat \ {0} /\ Shape
    BY <1>1 DEF TreeInv
  <2> HIDE DEF n
  <2> QED
    BY <2>1, GrownIs
<1>3. CASE UNCHANGED tree
  BY <1>3, TreeSame
<1>4. CASE k <= MaxKey /\ ~UNCHANGED tree
  <2>0. \/ tree' = [G EXCEPT ![n] = v]
        \/ G[n] # Null /\ tree' = G
    BY <1>4 DEF Add
  <2> HIDE DEF G, n
  <2>1. /\ tree' \in [DOMAIN G -> Values \cup {Null}]
        /\ DOMAIN tree' = DOMAIN G
        /\ \A m \in DOMAIN G : m # n => tree'[m] = G[m]
        /\ tree'[n] # Null
    BY <1>2, <2>0, BintreeAssumption
  <2>2. Nodes' = DOMAIN G
    BY <2>1 DEF Nodes
  <2>3. \A e \in Holding : e \in Holding'
    BY <1>2, <2>1, <2>2 DEF Holding
  <2>4. n \in Holding'
    BY <1>2, <2>1, <2>2 DEF Holding
  <2>5. Shape'
    <3>1. DOMAIN G \subseteq Nat \ {0}
      BY <1>2 DEF TreeInv, Shape
    <3> QED
      BY <1>2, <2>1, <2>2, <3>1 DEF Shape
  <2>6. Alive'
    <3> SUFFICES ASSUME NEW m \in Nodes', m # Root
                 PROVE  \E e \in Holding' : AtOrAbove(m, e)
      BY DEF Alive
    <3>1. CASE m \in Nodes
      BY <2>3, <3>1 DEF TreeInv, Alive
    <3>2. CASE m \notin Nodes
      BY <1>2, <2>2, <2>4, <3>2
    <3> QED
      BY <3>1, <3>2
  <2>7. Keyed'
    <3> SUFFICES ASSUME NEW e \in Holding'
                 PROVE  \E j \in Keys : j <= MaxKey /\ e = NodeOf(j)
      BY DEF Keyed
    <3>1. CASE e = n
      BY <1>4, <3>1 DEF n
    <3>2. CASE e # n
      <4>1. e \in DOMAIN G /\ G[e] # Null
        BY <2>1, <2>2, <3>2 DEF Holding
      <4>2. e \in Holding
        BY <1>2, <4>1 DEF Holding
      <4> QED
        BY <4>2 DEF TreeInv, Keyed
    <3> QED
      BY <3>1, <3>2
  <2> QED
    BY <2>5, <2>6, <2>7 DEF TreeInv
<1> QED
  BY <1>3, <1>4 DEF Add

\* A node that stays though it lies on the way to n leads to data off that way.
LEMMA LeftAlive ==
  ASSUME TreeInv, NEW n \in Nodes, NEW m \in Nodes \ (Freed(n) \cup {Root})
  PROVE  \E e \in Holding : AtOrAbove(m, e) /\ ~AtOrAbove(e, n)
<1> USE DEF TreeInv
<1>1. n \in Nat \ {0} /\ m \in Nat \ {0}
  BY DEF Shape
<1>2. PICK x \in Nodes : AtOrAbove(m, x) /\ ~AtOrAbove(x, n)
  <2>1. CASE AtOrAbove(m, n)
    BY <1>1, <2>1, FreedIs
  <2>2. CASE ~AtOrAbove(m, n)
    BY <1>1, <2>2, UpIs
  <2> QED
    BY <2>1, <2>2
<1>3. x \in Nat \ {0} /\ x # Root
  BY <1>1, <1>2, UpRoot DEF Shape
<1>4. PICK e \in Holding : AtOrAbove(x, e)
  BY <1>3 DEF Alive
<1>5. e \in Nat \ {0}
  BY DEF Holding, Shape
<1>6. AtOrAbove(m, e)
  BY <1>1, <1>2, <1>3, <1>4, <1>5, UpTrans
<1>7. ~AtOrAbove(e, n)
  BY <1>1, <1>2, <1>3, <1>4, <1>5, UpTrans
<1> QED
  BY <1>6, <1>7

\* What bintreeDel makes of the tree.
LEMMA WithoutIs ==
  ASSUME TreeInv, NEW n \in Nat \ {0, Root}, tree' = Without(n)
  PROVE  /\ Nodes' = Nodes \ Freed(n)
         /\ \A m \in Nodes' : tree'[m] = IF m = n THEN Null ELSE tree[m]
         /\ TreeInv'
<1> USE DEF TreeInv
<1>1. Nodes' = Nodes \ Freed(n)
  BY DEF Without, Nodes
<1>2. \A m \in Nodes' : tree'[m] = IF m = n THEN Null ELSE tree[m]
  BY <1>1 DEF Without
<1>3. Freed(n) \subseteq Nodes \ {Root}
  BY FreedIs
<1>4. Shape'
  <2>1. ASSUME NEW m \in Nodes', m # Root, m \div 2 \in Freed(n)
        PROVE  FALSE
    <3> DEFINE h == m \div 2
    <3>1. m \in Nat \ {0, 1} /\ m \in Nodes \ Freed(n)
      BY <1>1, <2>1 DEF Shape, Root
    <3>2. h \in Nat \ {0} /\ h < m
      BY <3>1, Halves
    <3>3. AtOrAbove(h, m)
      <4>1. AtOrAbove(h, m) <=> AtOrAbove(h, h)
        BY <3>1, <3>2, UpIs
      <4> QED
        BY <3>2, <4>1, UpIs
    <3>4. n \in Nodes /\ \A d \in Nodes : AtOrAbove(h, d) => AtOrAbove(d, n)
      BY <2>1, FreedIs
    <3> HIDE DEF h
    <3>5. PICK e \in Holding : AtOrAbove(m, e) /\ ~AtOrAbove(e, n)
      BY <2>1, <3>1, <3>4, LeftAlive
    <3>6. e \in Nodes /\ e \in Nat
      BY DEF Holding, Shape
    <3>7. AtOrAbove(h, e)
      BY <3>1, <3>2, <3>3, <3>5, <3>6, UpTrans
    <3> QED
      BY <3>4, <3>5, <3>6, <3>7
  <2>2. \A m \in Nodes' \ {Root} : m \div 2 \in Nodes'
    BY <1>1, <2>1 DEF Shape
  <2>3. tree' \in [Nodes' -> Values \cup {Null}]
    <3>1. \A m \in Nodes \ Freed(n) : (IF m = n THEN Null ELSE tree[m]) \in Values \cup {Null}
      BY DEF Shape
    <3> QED
      BY <1>1, <3>1 DEF Without
  <2> QED
    BY <1>1, <1>3, <2>2, <2>3 DEF Shape
<1>5. Alive'
  <2> SUFFICES ASSUME NEW m \in Nodes', m # Root
               PROVE  \E e \in Holding' : AtOrAbove(m, e)
    BY DEF Alive
  <2>1. PICK e \in Holding : AtOrAbove(m, e) /\ (n \in Nodes => ~AtOrAbove(e, n))
    <3>1. CASE n \in Nodes
      BY <1>1, <3>1, LeftAlive
    <3>2. CASE n \notin Nodes
      BY <1>1, <3>2 DEF Alive
    <3> QED
      BY <3>1, <3>2
  <2>2. e # n /\ e \notin Freed(n)
    BY <2>1, FreedIs, UpIs DEF Holding
  <2>3. e \in Holding'
    BY <1>1, <1>2, <2>2 DEF Holding
  <2> QED
    BY <2>1, <2>3
<1>6. Keyed'
  <2>1. Holding' \subseteq Holding
    BY <1>1, <1>2 DEF Holding
  <2> QED
    BY <2>1 DEF Keyed
<1> QED
  BY <1>1, <1>2, <1>4, <1>5, <1>6

LEMMA DelKeeps ==
  ASSUME TreeInv, NEW k \in Keys, Delete(k)
  PROVE  TreeInv'
<1>1. CASE k > MaxKey
  BY <1>1, TreeSame DEF Delete
<1>2. CASE ~(k > MaxKey)
  <2>1. tree' = Without(NodeOf(k)) /\ NodeOf(k) \in Nat \ {0, Root}
    BY <1>2, KeysAre DEF Delete
  <2> QED
    BY <2>1, WithoutIs
<1> QED
  BY <1>1, <1>2

LEMMA EraseKeeps ==
  ASSUME Null \notin Values, tree' = [n \in {Root} |-> Null]
  PROVE  TreeInv'
<1>1. Nodes' = {Root} /\ tree'[Root] = Null /\ tree' \in [Nodes' -> Values \cup {Null}]
  BY DEF Nodes
<1>2. Holding' = {}
  BY <1>1 DEF Holding
<1> QED
  BY <1>1, <1>2 DEF TreeInv, Shape, Alive, Keyed, Root

\* What a step of a walk does to the tree: nothing, or the deletion its callback makes.
LEMMA EnterDoes ==
  ASSUME Enter
  PROVE  UNCHANGED <<tree, call, ret>> \/ \E k \in Keys : Delete(k)
BY DEF Enter, Callback

LEMMA WalkDoes ==
  ASSUME Walk
  PROVE  UNCHANGED <<tree, call, ret>> \/ \E k \in Keys : Delete(k)
<1>1. ~Enter => UNCHANGED <<tree, call, ret>>
  BY DEF Walk, Begin, Child0, Child1, Back, End
<1> QED
  BY <1>1, EnterDoes

LEMMA TreeKept ==
  ASSUME TreeInv, [Next]_vars
  PROVE  TreeInv'
<1>1. CASE UNCHANGED tree
  BY <1>1, TreeSame
<1>2. CASE Erase
  BY <1>2, EraseKeeps, BintreeAssumption DEF Erase
<1>3. ASSUME NEW k \in Keys, NEW v \in Values, Add(k, v)
      PROVE  TreeInv'
  BY <1>3, AddKeeps
<1>4. ASSUME NEW k \in Keys, Del(k)
      PROVE  TreeInv'
  BY <1>4, DelKeeps DEF Del
<1>5. ASSUME NEW k \in Keys, Get(k)
      PROVE  UNCHANGED tree
  BY <1>5 DEF Get
<1>6. Walk => TreeInv'
  BY <1>1, WalkDoes, DelKeeps
<1> QED
  BY <1>1, <1>2, <1>3, <1>4, <1>5, <1>6 DEF Next, vars

-----------------------------------------------------------------------------
(* Types *)

TypeInv == TreeInv /\ TypeOK

LEMMA TypeInit ==
  ASSUME Init
  PROVE  TypeInv
<1>1. Nodes = {Root} /\ tree[Root] = Null /\ tree \in [Nodes -> Values \cup {Null}]
  BY DEF Init, Nodes
<1>2. Holding = {}
  BY <1>1 DEF Holding
<1>3. TreeInv
  BY <1>1, <1>2 DEF TreeInv, Shape, Alive, Keyed, Root
<1>4. TypeOK
  BY <1>1 DEF Init, TypeOK, Root, Asks
<1> QED
  BY <1>3, <1>4 DEF TypeInv

\* The types of all but the tree.
Others == /\ call \in {"none", "add", "get", "del", "erase"} \X (Keys \cup {0})
          /\ ret \in Keys \cup Values \cup {Null, 0, 1}
          /\ asks \in Asks
          /\ here \in Nat
          /\ stage \in {"none", "enter", "child0", "child1", "back", "left", "lost"}
          /\ seen \subseteq Nat
          /\ shown \in Nat

LEMMA TypeParts == TreeInv => (TypeOK <=> Others)
BY DEF TypeOK, Others, TreeInv, Shape

LEMMA OthersKept ==
  ASSUME TypeInv, [Next]_vars
  PROVE  Others'
<1>0. Others
  BY TypeParts DEF TypeInv
<1> USE DEF Others
<1>1. CASE UNCHANGED vars
  BY <1>0, <1>1 DEF vars
<1>2. CASE Erase
  BY <1>0, <1>2 DEF Erase, walk
<1>3. ASSUME NEW k \in Keys, NEW v \in Values, Add(k, v)
      PROVE  Others'
  BY <1>0, <1>3 DEF Add, walk
<1>4. ASSUME NEW k \in Keys, Del(k)
      PROVE  Others'
  BY <1>0, <1>4 DEF Del, Delete, walk
<1>5. ASSUME NEW k \in Keys, Get(k)
      PROVE  Others'
  <2>1. Linked(k) => tree[NodeOf(k)] \in Values \cup {Null}
    BY DEF Linked, TypeInv, TreeInv, Shape
  <2>2. ret' \in Values \cup {Null}
    BY <1>5, <2>1 DEF Get
  <2> QED
    BY <1>0, <1>5, <2>2 DEF Get, walk
<1>6. CASE Begin
  BY <1>0, <1>6 DEF Begin, Root
<1>7. CASE Enter
  <2>1. shown' \in Nat
    <3>1. ASSUME NEW g \in Garbage
          PROVE  KeyOf(here, g) \in Nat
      <4>1. g \in Nat
        BY BintreeAssumption
      <4>2. Reverse[<<here, g>>] \in Nat
        BY <1>0, <4>1, ReverseIs
      <4> QED
        BY <4>2, Halves DEF KeyOf
    <3> QED
      BY <1>0, <1>7, <3>1 DEF Enter
  <2>2. seen' \subseteq Nat
    BY <1>0, <1>7 DEF Enter
  <2>3. /\ call' \in {"none", "add", "get", "del", "erase"} \X (Keys \cup {0})
        /\ ret' \in Keys \cup Values \cup {Null, 0, 1}
    BY <1>0, <1>7, EnterDoes DEF Delete
  <2>4. stage' \in {"child0", "left"} /\ asks' = asks /\ here' = here
    BY <1>7 DEF Enter, Callback
  <2> QED
    BY <1>0, <2>1, <2>2, <2>3, <2>4
<1>8. ASSUME Leave
      PROVE  here' \in Nat /\ stage' \in {"left", "child1", "back"}
  BY <1>0, <1>8, Halves DEF Leave, Root
<1>9. CASE Child0
  BY <1>0, <1>9 DEF Child0, Into, Stray
<1>10. CASE Child1
  BY <1>0, <1>8, <1>10 DEF Child1, Into, Stray
<1>11. CASE Back
  BY <1>0, <1>8, <1>11 DEF Back
<1>12. CASE End
  BY <1>0, <1>12 DEF End, Root, Asks
<1> QED
  BY <1>1, <1>2, <1>3, <1>4, <1>5, <1>6, <1>7, <1>9, <1>10, <1>11, <1>12 DEF Next, Walk

LEMMA TypeKept ==
  ASSUME TypeInv, [Next]_vars
  PROVE  TypeInv'
<1>1. TreeInv' /\ Others'
  BY TreeKept, OthersKept DEF TypeInv
<1>2. TypeOK'
  BY <1>1 DEF TypeOK, Others, TreeInv, Shape
<1> QED
  BY <1>1, <1>2 DEF TypeInv

\* The variables of the tree and of a walk keep their types, for any keys and values
\* and whatever reverseInt starts from.
THEOREM BintreeTypeOK == Spec => []TypeOK
<1>1. TypeInv => TypeOK
  BY DEF TypeInv
<1> QED
  BY <1>1, TypeInit, TypeKept, PTL DEF Spec

\* bintreeDel leaves no branch without data and no node without its parent, after any
\* calls with any keys.
THEOREM BintreeNoDeadBranch == Spec => []NoDeadBranch
<1>1. TypeInv => NoDeadBranch
  <2> SUFFICES ASSUME TreeInv, NEW n \in Nodes, n # Root
               PROVE  /\ n \div 2 \in Nodes
                      /\ tree[n] = Null => 2 * n \in Nodes \/ 2 * n + 1 \in Nodes
    BY DEF TypeInv, NoDeadBranch
  <2>1. n \in Nat \ {0} /\ n \div 2 \in Nodes
    BY DEF TreeInv, Shape
  <2>2. ASSUME tree[n] = Null
        PROVE  2 * n \in Nodes \/ 2 * n + 1 \in Nodes
    <3>1. PICK e \in Holding : AtOrAbove(n, e)
      BY DEF TreeInv, Alive
    <3>2. e \in Nodes /\ e \in Nat /\ e # n
      BY <2>2 DEF Holding, TreeInv, Shape
    <3>3. AtOrAbove(2 * n, e) \/ AtOrAbove(2 * n + 1, e)
      BY <2>1, <3>1, <3>2, UpChildren
    <3>4. 2 * n \in Nat \ {0} /\ 2 * n + 1 \in Nat \ {0}
      BY <2>1
    <3> QED
      BY <3>2, <3>3, <3>4, NodesAbove DEF TreeInv
  <2> QED
    BY <2>1, <2>2
<1> QED
  BY <1>1, TypeInit, TypeKept, PTL DEF Spec

-----------------------------------------------------------------------------
(* The walk *)

\* d comes before h in the order of the walk and is not h or below it: it is above h,
\* or in the subtree of a child 0 whose sibling's subtree holds h.
Before(h, d) == \/ d # h /\ AtOrAbove(d, h)
                \/ \E m \in Nat \ {0} : AtOrAbove(2 * m, d) /\ AtOrAbove(2 * m + 1, h)

\* A walk at stage s of node h has come past d.
Passed(h, s, d) == \/ Before(h, d)
                   \/ s # "enter" /\ d = h
                   \/ s \in {"child1", "back"} /\ AtOrAbove(2 * h, d)
                   \/ s = "back" /\ AtOrAbove(2 * h + 1, d)

Going == stage \in {"enter", "child0", "child1", "back"}

\* A walk has shown the data it has come past.  It is on a linked node, unless its
\* callback has removed that, and has not found what it looks for.
WalkInv == /\ stage = "none" => here = Root /\ seen = {}
           /\ Going => /\ here \in Nat \ {0}
                       /\ stage = "enter" \/ asks[1] # "remove" => here \in Nodes
                       /\ \A d \in Holding \cup seen : d \in seen <=> Passed(here, stage, d)
                       /\ asks[1] = "find" => \A n \in seen : tree[n] # asks[2]
           /\ seen \subseteq Nat \ {0, Root}
           /\ IF asks[1] = "remove" THEN seen \cap Holding = {} ELSE seen \subseteq Holding
           /\ stage = "left" => ShowsAll /\ Finds /\ RemovesAll
           /\ stage = "lost" => asks[1] = "remove"

\* What comes before a child.
LEMMA BeforeChild ==
  ASSUME NEW h \in Nat \ {0}, NEW d \in Nat \ {0}
  PROVE  /\ Before(2 * h, d) <=> Before(h, d) \/ d = h
         /\ Before(2 * h + 1, d) <=> Before(h, d) \/ d = h \/ AtOrAbove(2 * h, d)
<1>1. ASSUME NEW c \in {2 * h, 2 * h + 1}, NEW a \in Nat, a # c
      PROVE  AtOrAbove(a, c) <=> AtOrAbove(a, h)
  <2>1. c \in Nat /\ c > h /\ c \div 2 = h
    BY Halves
  <2>2. CASE a < c
    BY <2>1, <2>2, UpIs
  <2>3. CASE a > c
    <3>1. ~AtOrAbove(a, c) /\ ~AtOrAbove(a, h)
      BY <2>1, <2>3, UpIs
    <3> QED
      BY <3>1
  <2> QED
    BY <1>1, <2>1, <2>2, <2>3
<1>2. AtOrAbove(h, h)
  BY UpIs
<1>3. ASSUME NEW c \in {2 * h, 2 * h + 1}
      PROVE  d # c /\ AtOrAbove(d, c) <=> d = h \/ (d # h /\ AtOrAbove(d, h))
  <2>1. h # c
    OBVIOUS
  <2>2. d # c => (AtOrAbove(d, c) <=> AtOrAbove(d, h))
    BY <1>1
  <2>3. d = c => ~AtOrAbove(d, h) /\ d # h
    BY UpIs
  <2> QED
    BY <1>2, <2>1, <2>2, <2>3
<1>4. ASSUME NEW m \in Nat \ {0}
      PROVE  /\ AtOrAbove(2 * m + 1, 2 * h) <=> AtOrAbove(2 * m + 1, h)
             /\ m # h => (AtOrAbove(2 * m + 1, 2 * h + 1) <=> AtOrAbove(2 * m + 1, h))
  <2>1. 2 * m + 1 \in Nat /\ 2 * m + 1 # 2 * h /\ (m # h => 2 * m + 1 # 2 * h + 1)
    OBVIOUS
  <2> QED
    BY <1>1, <2>1
<1>5. AtOrAbove(2 * h + 1, 2 * h + 1) /\ ~AtOrAbove(2 * h + 1, h)
  BY UpIs
<1>6. Before(2 * h, d) <=> Before(h, d) \/ d = h
  BY <1>3, <1>4 DEF Before
<1>7. Before(2 * h + 1, d) <=> Before(h, d) \/ d = h \/ AtOrAbove(2 * h, d)
  BY <1>3, <1>4, <1>5 DEF Before
<1> QED
  BY <1>6, <1>7

\* How the passes of the walk carry on from one another.
LEMMA PassedOn ==
  ASSUME NEW h \in Nat \ {0}, NEW d \in Nat \ {0}
  PROVE  /\ Passed(h, "child0", d) <=> Passed(h, "enter", d) \/ d = h
         /\ Passed(2 * h, "enter", d) <=> Passed(h, "child0", d)
         /\ Passed(2 * h + 1, "enter", d) <=> Passed(h, "child1", d)
         /\ Passed(h, "child1", d) <=> Passed(2 * h, "back", d)
         /\ Passed(h, "back", d) <=> Passed(2 * h + 1, "back", d)
         /\ Passed(h, "child1", d) <=> Passed(h, "child0", d) \/ AtOrAbove(2 * h, d)
         /\ Passed(h, "back", d) <=> Passed(h, "child1", d) \/ AtOrAbove(2 * h + 1, d)
<1>1. /\ Before(2 * h, d) <=> Before(h, d) \/ d = h
      /\ Before(2 * h + 1, d) <=> Before(h, d) \/ d = h \/ AtOrAbove(2 * h, d)
  BY BeforeChild
<1>2. ASSUME NEW c \in Nat \ {0}
      PROVE  Passed(c, "back", d) <=> Before(c, d) \/ AtOrAbove(c, d)
  BY UpChildren DEF Passed
<1>3. 2 * h \in Nat \ {0} /\ 2 * h + 1 \in Nat \ {0}
  OBVIOUS
<1>4. /\ Passed(2 * h, "back", d) <=> Before(2 * h, d) \/ AtOrAbove(2 * h, d)
      /\ Passed(2 * h + 1, "back", d) <=> Before(2 * h + 1, d) \/ AtOrAbove(2 * h + 1, d)
  BY <1>2, <1>3
<1> QED
  BY <1>1, <1>4 DEF Passed

\* A walk that goes on at stage s of node h.
LEMMA GoesOn ==
  ASSUME TypeInv, WalkInv, Going, UNCHANGED <<tree, asks, seen>>,
         NEW h \in Nat \ {0}, here' = h,
         NEW s \in {"enter", "child0", "child1", "back"}, stage' = s,
         s = "enter" \/ asks[1] # "remove" => h \in Nodes,
         \A d \in Holding \cup seen : d \in seen <=> Passed(h, s, d)
  PROVE  WalkInv'
<1>1. Nodes' = Nodes /\ Holding' = Holding
  BY DEF Nodes, Holding
<1>3. Going' /\ stage' # "none" /\ stage' # "left" /\ stage' # "lost"
  BY DEF Going
<1>4. \A d \in (Holding \cup seen)' : d \in seen' <=> Passed(here', stage', d)
  BY <1>1
<1> QED
  BY <1>1, <1>3, <1>4 DEF WalkInv, Passed, Before

\* A walk that leaves a node with all below it done goes on where its parent is.
LEMMA LeaveOn ==
  ASSUME TypeInv, WalkInv, Going, Leave, UNCHANGED <<tree, asks, seen>>,
         \A d \in Holding \cup seen : d \in seen <=> Passed(here, "back", d)
  PROVE  WalkInv'
<1>1. /\ here \in Nat \ {0} /\ Holding \subseteq Nat \ {0} /\ Holding' = Holding /\ Nodes' = Nodes
      /\ seen \subseteq Nat \ {0}
  BY DEF TypeInv, TreeInv, Shape, Holding, Nodes, WalkInv
<1>2. CASE here = Root
  <2>1. stage' = "left"
    BY <1>2 DEF Leave
  <2>2. ASSUME NEW d \in Holding
        PROVE  Passed(here, "back", d)
    <3>1. d \in Nat \ {0}
      BY <1>1
    <3>2. AtOrAbove(here, d)
      BY <1>2, <3>1, UpRoot
    <3> QED
      BY <1>1, <3>1, <3>2, UpChildren DEF Passed
  <2>3. Holding \subseteq seen
    BY <2>2
  <2>4. asks \in Asks
    BY DEF TypeInv, TypeOK
  <2>5. IF asks[1] = "remove" THEN Holding = {} ELSE seen = Holding
    <3>1. IF asks[1] = "remove" THEN seen \cap Holding = {} ELSE seen \subseteq Holding
      BY DEF WalkInv
    <3>2. CASE asks[1] = "remove"
      <4>1. seen \cap Holding = {}
        BY <3>1, <3>2
      <4>2. Holding = {}
        BY <2>3, <4>1
      <4> QED
        BY <3>2, <4>2
    <3>3. CASE asks[1] # "remove"
      <4>1. seen = Holding
        BY <2>3, <3>1, <3>3
      <4> QED
        BY <3>3, <4>1
    <3> QED
      BY <3>2, <3>3
  <2>6. asks[1] = "find" => \A n \in seen : tree[n] # asks[2]
    BY DEF WalkInv
  <2>7. (ShowsAll /\ Finds /\ RemovesAll)'
    BY <1>1, <2>5, <2>6 DEF ShowsAll, Finds, RemovesAll
  <2>8. ~Going' /\ stage' # "none" /\ stage' # "lost"
    BY <2>1 DEF Going
  <2> QED
    BY <1>1, <2>1, <2>7, <2>8 DEF WalkInv
<1>3. CASE here # Root
  <2> DEFINE h == here \div 2
  <2>1. h \in Nat \ {0} /\ (here % 2 = 0 => here = 2 * h) /\ (here % 2 # 0 => here = 2 * h + 1)
    BY <1>1, <1>3, Halves DEF Root
  <2>2. asks[1] # "remove" => h \in Nodes
    BY <1>3 DEF TypeInv, TreeInv, Shape, WalkInv
  <2>3. here' = h /\ stage' = IF here % 2 = 0 THEN "child1" ELSE "back"
    BY <1>3 DEF Leave
  <2> HIDE DEF h
  <2>4. ASSUME NEW d \in Holding \cup seen
        PROVE  Passed(h, stage', d) <=> Passed(here, "back", d)
    <3>1. d \in Nat \ {0}
      BY <1>1
    <3>2. CASE here % 2 = 0
      <4>1. Passed(h, "child1", d) <=> Passed(2 * h, "back", d)
        BY <2>1, <3>1, PassedOn
      <4> QED
        BY <2>1, <2>3, <3>2, <4>1
    <3>3. CASE here % 2 # 0
      <4>1. Passed(h, "back", d) <=> Passed(2 * h + 1, "back", d)
        BY <2>1, <3>1, PassedOn
      <4> QED
        BY <2>1, <2>3, <3>3, <4>1
    <3> QED
      BY <3>2, <3>3
  <2>5. CASE stage' = "child1"
    BY <2>1, <2>2, <2>3, <2>4, <2>5, GoesOn
  <2>6. CASE stage' = "back"
    BY <2>1, <2>2, <2>3, <2>4, <2>6, GoesOn
  <2> QED
    BY <2>3, <2>5, <2>6
<1> QED
  BY <1>2, <1>3

\* Nothing is below a node that is not linked.
LEMMA NoneBelow ==
  ASSUME TypeInv, NEW c \in Nat \ {0}, c \notin Nodes, NEW d \in Holding
  PROVE  ~AtOrAbove(c, d)
BY NodesAbove DEF TypeInv, TreeInv, Holding

\* The key that a walk passes with the data of a key k.
LEMMA KeyShown ==
  ASSUME NEW k \in Keys, NEW g \in Garbage
  PROVE  /\ AtOrAbove(NodeOf(k), NodeOf(KeyOf(NodeOf(k), g)))
         /\ KeyOf(NodeOf(k), g) # 0
<1>1. k \in Nat \ {0} /\ g \in Nat
  BY BintreeAssumption
<1>2. PICK r \in Nat : Reverse[<<NodeOf(k), g>>] = Reverse[<<1, r>>] /\ Begins[<<k, r>>]
  BY <1>1, ReverseSpells DEF NodeOf, Root
<1>3. 1 \div 2 = 0 /\ 1 % 2 = 1 /\ 2 * r + 1 \in Nat /\ (2 * r + 1) \div 2 = r
  OBVIOUS
<1>4. Reverse[<<1, r>>] = 2 * r + 1
  <2>1. Reverse[<<1, r>>] = Reverse[<<0, 2 * r + 1>>]
    <3>1. \A m \in Nat : m > 0 => Reverse[<<m, r>>] = Reverse[<<m \div 2, 2 * r + (m % 2)>>]
      BY ReverseIs
    <3>2. Reverse[<<1, r>>] = Reverse[<<1 \div 2, 2 * r + (1 % 2)>>]
      BY <3>1
    <3> QED
      BY <1>3, <3>2
  <2>2. Reverse[<<0, 2 * r + 1>>] = 2 * r + 1
    BY <1>3, ReverseIs
  <2> QED
    BY <2>1, <2>2
<1>5. KeyOf(NodeOf(k), g) = r
  BY <1>2, <1>3, <1>4 DEF KeyOf
<1>6. AtOrAbove(NodeOf(k), NodeOf(r))
  BY <1>1, <1>2, DescendUp DEF NodeOf, Root
<1>7. r # 0
  <2>1. CASE r = 0
    <3>1. AtOrAbove(NodeOf(k), Root)
      BY <1>2, <1>6, <2>1, DescendIs DEF NodeOf, Root
    <3>2. NodeOf(k) \in Nat \ {0, Root}
      BY KeysAre
    <3> QED
      BY <3>1, <3>2, UpIs DEF Root
  <2> QED
    BY <2>1
<1> QED
  BY <1>5, <1>6, <1>7

\* A walk that comes to a node has not come past it.
LEMMA NotPassed ==
  ASSUME NEW h \in Nat \ {0}
  PROVE  ~Passed(h, "enter", h)
BY UpEither DEF Passed, Before

\* The callback sees the data of the node it is at.
LEMMA EnterOn ==
  ASSUME TypeInv, WalkInv, Enter
  PROVE  WalkInv'
<1>1. /\ here \in Nat \ {0} /\ here \in Nodes /\ Going
      /\ \A d \in Holding \cup seen : d \in seen <=> Passed(here, "enter", d)
      /\ asks[1] = "find" => \A n \in seen : tree[n] # asks[2]
      /\ IF asks[1] = "remove" THEN seen \cap Holding = {} ELSE seen \subseteq Holding
      /\ asks \in Asks /\ asks' = asks /\ here' = here
  BY DEF Enter, WalkInv, Going, TypeInv, TypeOK
<1>2. ASSUME NEW d \in Holding \cup seen \cup {here}
      PROVE  Passed(here, "child0", d) <=> d \in seen \/ d = here
  <2>1. d \in Nat \ {0}
    BY <1>1 DEF TypeInv, TreeInv, Shape, Holding, WalkInv
  <2> QED
    BY <1>1, <2>1, PassedOn
<1>3. CASE tree[here] = Null
  <2>1. stage' = "child0" /\ UNCHANGED <<tree, asks, seen>>
    BY <1>3 DEF Enter
  <2>2. here \notin Holding \cup seen
    BY <1>1, <1>3, NotPassed DEF Holding
  <2>3. \A d \in Holding \cup seen : d \in seen <=> Passed(here, "child0", d)
    BY <1>2, <2>2
  <2> QED
    BY <1>1, <2>1, <2>3, GoesOn
<1>4. CASE tree[here] # Null
  <2>1. seen' = seen \cup {here} /\ Callback
    BY <1>4 DEF Enter
  <2>2. here \in Holding
    BY <1>1, <1>4 DEF Holding
  <2>3. here # Root
    BY <2>2, KeysAre DEF TypeInv, TreeInv, Keyed
  <2>4. seen' \subseteq Nat \ {0, Root}
    BY <1>1, <2>1, <2>3 DEF WalkInv
  <2>5. CASE asks[1] = "remove"
    <3>1. PICK k \in Keys : Linked(k) /\ NodeOf(k) = here /\ Delete(k)
      BY <2>1, <2>5 DEF Callback
    <3>2. stage' = "child0"
      BY <2>1, <2>5 DEF Callback
    <3>3. tree' = Without(here)
      BY <3>1, KeysAre DEF Delete, Linked, MaxKey
    <3>4. /\ Nodes' = Nodes \ Freed(here)
          /\ \A m \in Nodes' : tree'[m] = IF m = here THEN Null ELSE tree[m]
      <4>1. TreeInv /\ here \in Nat \ {0, Root}
        BY <1>1, <2>3 DEF TypeInv
      <4> QED
        BY <3>3, <4>1, WithoutIs
    <3>5. Holding' \subseteq Holding \ {here}
      BY <3>4 DEF Holding
    <3>6. \A d \in (Holding \cup seen)' : d \in seen' <=> Passed(here, "child0", d)
      BY <1>1, <1>2, <2>1, <3>5
    <3>7. seen' \cap Holding' = {}
      BY <1>1, <2>1, <2>5, <3>5
    <3>9. Going' /\ stage' # "enter" /\ stage' # "none" /\ stage' # "left" /\ stage' # "lost"
      BY <3>2 DEF Going
    <3>10. asks'[1] = "remove"
      BY <1>1, <2>5
    <3> QED
      BY <1>1, <2>4, <3>2, <3>6, <3>7, <3>9, <3>10 DEF WalkInv, Passed, Before
  <2>6. CASE asks[1] # "remove"
    <3>1. /\ UNCHANGED tree
          /\ stage' = IF asks = <<"find", tree[here]>> /\ shown' # 0 THEN "left" ELSE "child0"
      BY <2>1, <2>6 DEF Callback
    <3>2. Nodes' = Nodes /\ Holding' = Holding
      BY <3>1 DEF Nodes, Holding
    <3>3. seen' \subseteq Holding'
      BY <1>1, <2>1, <2>2, <2>6, <3>2
    <3>4. CASE stage' = "left"
      <4>1. asks = <<"find", tree[here]>>
        BY <3>1, <3>4
      <4>2. asks[1] = "find" /\ asks[2] = tree[here]
        BY <4>1
      <4>3. (ShowsAll /\ Finds /\ RemovesAll)'
        BY <1>1, <2>1, <3>1, <4>2 DEF ShowsAll, Finds, RemovesAll
      <4>4. ~Going' /\ stage' # "none" /\ stage' # "lost"
        BY <3>4 DEF Going
      <4> QED
        BY <1>1, <2>4, <2>6, <3>3, <4>3, <4>4 DEF WalkInv
    <3>5. CASE stage' = "child0"
      <4>1. asks[1] = "find" => asks[2] # tree[here]
        <5>1. tree[here] \in Values
          BY <1>1, <1>4 DEF TypeInv, TypeOK
        <5>2. shown' # 0
          <6>1. PICK k \in Keys : here = NodeOf(k)
            BY <2>2 DEF TypeInv, TreeInv, Keyed
          <6>2. PICK g \in Garbage : shown' = KeyOf(here, g)
            BY <1>4 DEF Enter
          <6> QED
            BY <6>1, <6>2, KeyShown
        <5>3. asks # <<"find", tree[here]>>
          BY <3>1, <3>5, <5>2
        <5> QED
          BY <1>1, <5>3 DEF Asks
      <4>2. asks'[1] = "find" => \A n \in seen' : tree'[n] # asks'[2]
        BY <1>1, <2>1, <3>1, <4>1
      <4>3. \A d \in (Holding \cup seen)' : d \in seen' <=> Passed(here, "child0", d)
        BY <1>2, <2>1, <3>2
      <4>4. Going' /\ stage' # "none" /\ stage' # "left" /\ stage' # "lost"
        BY <3>5 DEF Going
      <4> QED
        BY <1>1, <2>4, <2>6, <3>2, <3>3, <3>5, <4>2, <4>3, <4>4 DEF WalkInv, Passed, Before
    <3> QED
      BY <3>1, <3>4, <3>5
  <2> QED
    BY <2>5, <2>6
<1> QED
  BY <1>3, <1>4

LEMMA WalkKept ==
  ASSUME TypeInv, WalkInv, [Next]_vars
  PROVE  WalkInv'
<1>0. Nodes \subseteq Nat \ {0} /\ Root \in Nodes /\ Holding \subseteq Nodes
  BY DEF TypeInv, TreeInv, Shape, Holding
<1>1. CASE UNCHANGED vars
  BY <1>1 DEF vars, WalkInv, Going, Passed, Before, Nodes, Holding, ShowsAll, Finds, RemovesAll
<1>2. CASE stage = "none" /\ UNCHANGED walk
  <2>1. stage' = "none" /\ here' = Root /\ seen' = {} /\ ~Going'
    BY <1>2 DEF walk, WalkInv, Going
  <2> QED
    BY <2>1 DEF WalkInv
<1>3. CASE Begin
  <2>1. /\ here' = Root /\ stage' = "enter" /\ seen' = {} /\ Nodes' = Nodes /\ Holding' = Holding
    BY <1>3 DEF Begin, WalkInv, Nodes, Holding
  <2>2. ASSUME NEW d \in Holding, Passed(Root, "enter", d)
        PROVE  FALSE
    <3>1. d \in Nat \ {0} /\ Before(Root, d)
      BY <1>0, <2>2 DEF Passed
    <3>2. ~(d # Root /\ AtOrAbove(d, Root))
      BY <3>1, UpIs DEF Root
    <3>3. ASSUME NEW m \in Nat \ {0}
          PROVE  ~AtOrAbove(2 * m + 1, Root)
      BY UpIs DEF Root
    <3> QED
      BY <3>1, <3>2, <3>3 DEF Before
  <2>3. \A d \in (Holding \cup seen)' : d \in seen' <=> Passed(Root, "enter", d)
    BY <2>1, <2>2
  <2> QED
    BY <1>0, <2>1, <2>3 DEF WalkInv, Going, Passed, Before
<1>4. Going => /\ here \in Nat \ {0}
               /\ \A d \in Holding \cup seen : d \in seen <=> Passed(here, stage, d)
               /\ asks[1] # "remove" => here \in Nodes
  BY DEF WalkInv
<1>5. ASSUME NEW d \in Holding \cup seen
      PROVE  d \in Nat \ {0}
  BY <1>0 DEF WalkInv
<1>6. CASE Enter
  BY <1>6, EnterOn
<1>7. ASSUME Going, Stray, UNCHANGED <<tree, asks, seen>>
      PROVE  WalkInv'
  <2>1. stage' = "lost" /\ here' = here /\ here \notin Nodes
    BY <1>7 DEF Stray
  <2>2. asks[1] = "remove"
    BY <1>4, <1>7, <2>1
  <2> QED
    BY <1>7, <2>1, <2>2 DEF WalkInv, Going, Holding, Nodes
<1>8. CASE Child0
  <2>1. Going /\ stage = "child0" /\ UNCHANGED <<tree, asks, seen>>
    BY <1>8 DEF Child0, Going
  <2>2. CASE Into(0)
    <3>1. 2 * here \in Nodes /\ here' = 2 * here /\ stage' = "enter" /\ 2 * here \in Nat \ {0}
      BY <1>4, <2>1, <2>2 DEF Into
    <3>2. \A d \in Holding \cup seen : d \in seen <=> Passed(2 * here, "enter", d)
      BY <1>4, <1>5, <2>1, PassedOn
    <3> QED
      BY <2>1, <3>1, <3>2, GoesOn
  <2>3. CASE 2 * here \notin Nodes /\ stage' = "child1" /\ UNCHANGED here
    <3>1. 2 * here \in Nat \ {0}
      BY <1>4, <2>1
    <3>2. \A d \in Holding : ~AtOrAbove(2 * here, d)
      BY <2>3, <3>1, NoneBelow
    <3>3. \A d \in Holding \cup seen : Passed(here, "child1", d) <=> Passed(here, "child0", d) \/ AtOrAbove(2 * here, d)
      BY <1>4, <1>5, <2>1, PassedOn
    <3>4. \A d \in Holding \cup seen : d \in seen <=> Passed(here, "child1", d)
      BY <1>4, <2>1, <3>2, <3>3
    <3> QED
      BY <1>4, <2>1, <2>3, <3>4, GoesOn
  <2> QED
    BY <1>7, <1>8, <2>1, <2>2, <2>3 DEF Child0
<1>9. CASE Child1
  <2>1. Going /\ stage = "child1" /\ UNCHANGED <<tree, asks, seen>>
    BY <1>9 DEF Child1, Going
  <2>2. CASE Into(1)
    <3>1. 2 * here + 1 \in Nodes /\ here' = 2 * here + 1 /\ stage' = "enter" /\ 2 * here + 1 \in Nat \ {0}
      BY <1>4, <2>1, <2>2 DEF Into
    <3>2. \A d \in Holding \cup seen : d \in seen <=> Passed(2 * here + 1, "enter", d)
      BY <1>4, <1>5, <2>1, PassedOn
    <3> QED
      BY <2>1, <3>1, <3>2, GoesOn
  <2>3. CASE 2 * here + 1 \notin Nodes /\ Leave
    <3>1. 2 * here + 1 \in Nat \ {0}
      BY <1>4, <2>1
    <3>2. \A d \in Holding : ~AtOrAbove(2 * here + 1, d)
      BY <2>3, <3>1, NoneBelow
    <3>3. \A d \in Holding \cup seen : Passed(here, "back", d) <=> Passed(here, "child1", d) \/ AtOrAbove(2 * here + 1, d)
      BY <1>4, <1>5, <2>1, PassedOn
    <3>4. \A d \in Holding \cup seen : d \in seen <=> Passed(here, "back", d)
      BY <1>4, <2>1, <3>2, <3>3
    <3> QED
      BY <2>1, <2>3, <3>4, LeaveOn
  <2> QED
    BY <1>7, <1>9, <2>1, <2>2, <2>3 DEF Child1
<1>10. CASE Back
  <2>1. Going /\ stage = "back" /\ UNCHANGED <<tree, asks, seen>> /\ Leave
    BY <1>10 DEF Back, Going
  <2> QED
    BY <1>4, <2>1, LeaveOn
<1>11. CASE End
  <2>1. stage' = "none" /\ here' = Root /\ seen' = {} /\ ~Going'
    BY <1>11 DEF End, Going
  <2> QED
    BY <2>1 DEF WalkInv
<1> QED
  BY <1>1, <1>2, <1>3, <1>6, <1>8, <1>9, <1>10, <1>11 DEF Next, Walk, Erase, Add, Get, Del, walk

LEMMA SpellingKept ==
  ASSUME TypeInv, WalkInv, ShownSpells, [Next]_vars
  PROVE  ShownSpells'
<1>1. CASE UNCHANGED walk
  BY <1>1 DEF walk, ShownSpells
<1>2. CASE Enter
  <2>1. here' = here /\ here \in Nodes
    BY <1>2 DEF Enter, WalkInv, Going
  <2>2. CASE tree[here] = Null
    <3>1. seen' = seen /\ here \notin seen
      BY <1>2, <2>2, NotPassed DEF Enter, WalkInv, Going
    <3> QED
      BY <2>1, <3>1 DEF ShownSpells
  <2>3. CASE tree[here] # Null
    <3>1. PICK k \in Keys : here = NodeOf(k)
      BY <2>1, <2>3 DEF TypeInv, TreeInv, Keyed, Holding
    <3>2. PICK g \in Garbage : shown' = KeyOf(here, g)
      BY <1>2, <2>3 DEF Enter
    <3> QED
      BY <2>1, <3>1, <3>2, KeyShown DEF ShownSpells
  <2> QED
    BY <2>2, <2>3
<1>3. ASSUME Leave, UNCHANGED seen
      PROVE  ShownSpells'
  BY <1>3 DEF Leave, ShownSpells, WalkInv
<1>4. CASE Child0
  BY <1>4 DEF Child0, Into, Stray, ShownSpells
<1>5. CASE Child1
  BY <1>3, <1>5 DEF Child1, Into, Stray, ShownSpells
<1>6. CASE Back
  BY <1>3, <1>6 DEF Back
<1>7. CASE Begin \/ End
  BY <1>7 DEF Begin, End, ShownSpells
<1> QED
  BY <1>1, <1>2, <1>4, <1>5, <1>6, <1>7 DEF Next, Walk, vars, walk, Erase, Add, Get, Del

\* Every walk over any tree that any calls have made: one whose callback returns 0 shows
\* each key's data and nothing else, one that looks for a value stops at the first that
\* has it, one that removes what it is shown and survives has emptied the tree, and no
\* other reads freed memory.  The key it passes spells the way to the data, as far as
\* the node is deep, for any keys and anything that the o of reverseInt holds.
THEOREM BintreeWalkShowsAll == Spec => []WalkShowsAll
<1>1. Init => WalkInv /\ ShownSpells
  BY DEF Init, WalkInv, ShownSpells, Going
<1>2. WalkInv /\ ShownSpells => WalkShowsAll
  BY DEF WalkInv, WalkShowsAll
<1> QED
  BY <1>1, <1>2, TypeInit, TypeKept, WalkKept, SpellingKept, PTL DEF Spec

-----------------------------------------------------------------------------
(* The map that the callers see *)

Mapped == [k \in Keys |-> IF Linked(k) THEN tree[NodeOf(k)] ELSE Null]

Stored == {k \in Keys : Mapped[k] # Null}

LEMMA SameTree ==
  /\ Abstract!MaxKey = MaxKey /\ Abstract!Begins = Begins
  /\ \A a, b : Abstract!OnPath(a, b) <=> OnPath(a, b)
  /\ \A S, k : Abstract!Removed(S, k) = Removed(S, k)
<1>1. Abstract!MaxKey = MaxKey /\ Abstract!Begins = Begins
  BY DEF Abstract!MaxKey, MaxKey, Abstract!Begins, Begins
<1>2. \A a, b : Abstract!OnPath(a, b) <=> OnPath(a, b)
  BY <1>1 DEF Abstract!OnPath, OnPath
<1>3. \A S, k : Abstract!Removed(S, k) = Removed(S, k)
  BY <1>2 DEF Abstract!Removed, Removed
<1> QED
  BY <1>1, <1>2, <1>3

\* A key is stored where its node has data.
LEMMA StoredIs ==
  ASSUME NEW k \in Keys
  PROVE  /\ Mapped[k] = IF k <= MaxKey /\ NodeOf(k) \in Nodes THEN tree[NodeOf(k)] ELSE Null
         /\ k \in Stored <=> k <= MaxKey /\ NodeOf(k) \in Holding
BY DEF Mapped, Stored, Linked, Holding

LEMMA InitMaps ==
  ASSUME Init
  PROVE  Abstract!Init
<1>1. \A k \in Keys : NodeOf(k) \notin Nodes
  BY KeysAre DEF Init, Nodes
<1>2. Mapped = [k \in Keys |-> Null]
  BY <1>1 DEF Mapped, Linked
<1> QED
  BY <1>2 DEF Init, Abstract!Init, Mapped

LEMMA AddMaps ==
  ASSUME TypeInv, NEW k \in Keys, NEW v \in Values, Add(k, v)
  PROVE  Abstract!Add(k, v)
<1> DEFINE n == NodeOf(k)
           G == Grown(n)
<1>0. n \in Nat \ {0, Root} /\ MaxKey \in Nat /\ k \in Nat
  BY KeysAre DEF MaxKey
<1>1. /\ n \in DOMAIN G
      /\ \A m \in Nodes : m \in DOMAIN G /\ G[m] = tree[m]
      /\ \A m \in DOMAIN G \ Nodes : G[m] = Null
  <2>1. n \in Nat \ {0} /\ Shape
    BY <1>0 DEF TypeInv, TreeInv
  <2> HIDE DEF n
  <2> QED
    BY <2>1, GrownIs
<1>2. \A j \in Keys : NodeOf(j) = n => j = k
  BY KeysAre, NodeIs
<1>3. G \in [DOMAIN G -> Values \cup {Null}]
  <2>1. n \in Nat \ {0} /\ Shape
    BY <1>0 DEF TypeInv, TreeInv
  <2> HIDE DEF n
  <2> QED
    BY <2>1, GrownIs
<1> HIDE DEF G
<1>4. CASE k > MaxKey
  <2>1. UNCHANGED tree /\ ret' = 0 /\ call' = <<"add", k>>
    BY <1>0, <1>4 DEF Add
  <2>2. Mapped' = Mapped
    BY <2>1 DEF Mapped, Linked, Nodes
  <2> QED
    BY <1>4, <2>1, <2>2, SameTree DEF Abstract!Add, Mapped
<1>5. CASE k <= MaxKey /\ G[n] = Null
  <2>1. tree' = [G EXCEPT ![n] = v] /\ ret' = k /\ call' = <<"add", k>>
    BY <1>0, <1>5 DEF Add, G
  <2>2. Nodes' = DOMAIN G
    BY <2>1 DEF Nodes
  <2>3. Mapped[k] = Null
    BY <1>1, <1>5, StoredIs
  <2>4. ASSUME NEW j \in Keys
        PROVE  (IF Linked(j) THEN tree[NodeOf(j)] ELSE Null)' = IF j = k THEN v ELSE Mapped[j]
    <3>1. CASE j = k
      BY <1>1, <1>5, <2>1, <2>2, <3>1 DEF Linked
    <3>2. CASE j # k
      <4>1. NodeOf(j) # n
        BY <1>2, <3>2
      <4>2. NodeOf(j) \in DOMAIN G => tree'[NodeOf(j)] = G[NodeOf(j)]
        BY <2>1, <4>1
      <4> QED
        BY <1>1, <2>2, <3>2, <4>2, StoredIs DEF Linked
    <3> QED
      BY <3>1, <3>2
  <2>5. Mapped' = [Mapped EXCEPT ![k] = v]
    BY <2>4 DEF Mapped
  <2> QED
    BY <1>5, <2>1, <2>3, <2>5, SameTree DEF Abstract!Add, Mapped
<1>6. CASE k <= MaxKey /\ G[n] # Null
  <2>1. tree' = G /\ ret' = 0 /\ call' = <<"add", k>>
    BY <1>0, <1>6 DEF Add, G
  <2>2. Nodes' = DOMAIN G
    BY <2>1 DEF Nodes
  <2>3. Mapped[k] # Null
    BY <1>1, <1>6, StoredIs
  <2>4. ASSUME NEW j \in Keys
        PROVE  (IF Linked(j) THEN tree[NodeOf(j)] ELSE Null)' = Mapped[j]
    BY <1>1, <2>1, <2>2, StoredIs DEF Linked
  <2>5. Mapped' = Mapped
    BY <2>4 DEF Mapped
  <2> QED
    BY <2>1, <2>3, <2>5 DEF Abstract!Add, Mapped
<1> QED
  BY <1>0, <1>4, <1>5, <1>6

\* bintreeDel frees the nodes of just the keys that Removed names.
LEMMA FreedRemoved ==
  ASSUME TypeInv, NEW k \in Keys, k <= MaxKey, NEW j \in Stored
  PROVE  NodeOf(j) \in Freed(NodeOf(k)) \cup {NodeOf(k)} <=> j \in Removed(Stored, k)
<1> DEFINE n == NodeOf(k)
           m == NodeOf(j)
<1>0. j \in Keys /\ Stored \subseteq Keys
  BY DEF Stored
<1>1. /\ j \in Nat \ {0} /\ k \in Nat \ {0} /\ n \in Nat \ {0, Root} /\ m \in Nat \ {0, Root}
      /\ AtOrAbove(m, n) <=> j = k \/ OnPath(j, k)
      /\ m = n => j = k
      /\ m \in Holding
  BY <1>0, KeysAre, NodeIs, StoredIs
<1>2. Shape /\ Holding \subseteq Nodes /\ Nodes \subseteq Nat \ {0}
  BY DEF TypeInv, TreeInv, Holding, Shape
<1>3. \A i \in Stored : /\ i \in Nat \ {0} /\ NodeOf(i) \in Nodes /\ NodeOf(i) \in Nat \ {0}
                        /\ AtOrAbove(m, NodeOf(i)) <=> j = i \/ OnPath(j, i)
                        /\ AtOrAbove(n, NodeOf(i)) <=> k = i \/ OnPath(k, i)
                        /\ AtOrAbove(NodeOf(i), n) <=> i = k \/ OnPath(i, k)
                        /\ NodeOf(i) = n => i = k
  BY <1>0, <1>2, KeysAre, NodeIs, StoredIs
<1>4. \A e \in Holding : \E i \in Stored : e = NodeOf(i)
  BY StoredIs DEF TypeInv, TreeInv, Keyed
<1>5. /\ \A x \in Freed(n) : n \in Nodes /\ AtOrAbove(x, n) /\ \A d \in Nodes : AtOrAbove(x, d) => AtOrAbove(d, n)
      /\ \A x \in Nodes \ Freed(n) : n \in Nodes /\ x # Root /\ AtOrAbove(x, n) =>
             \E d \in Nodes : AtOrAbove(x, d) /\ ~AtOrAbove(d, n)
  BY <1>1, <1>2, FreedIs
<1> HIDE DEF n, m
<1>6. CASE j = k
  <2>1. m = n
    BY <1>6 DEF m, n
  <2>2. j \in Removed(Stored, k)
    BY <1>6 DEF Removed
  <2> QED
    BY <2>1, <2>2 DEF m, n
<1>7. ASSUME j # k, m \in Freed(n)
      PROVE  j \in Removed(Stored, k)
  <2>1. AtOrAbove(m, n) /\ \A d \in Nodes : AtOrAbove(m, d) => AtOrAbove(d, n)
    BY <1>5, <1>7
  <2>2. OnPath(j, k)
    BY <1>1, <1>7, <2>1
  <2>3. k \in Stored
    <3>1. n \in Nodes
      BY <1>5, <1>7
    <3>2. PICK e \in Holding : AtOrAbove(n, e)
      BY <1>1, <3>1 DEF TypeInv, TreeInv, Alive
    <3>3. e \in Nodes /\ e \in Nat
      BY <1>2
    <3>4. AtOrAbove(m, e)
      BY <1>1, <2>1, <3>2, <3>3, UpTrans
    <3>5. AtOrAbove(e, n)
      BY <2>1, <3>3, <3>4
    <3>6. e = n
      BY <1>1, <3>2, <3>3, <3>5, UpIs
    <3> QED
      BY <1>3, <1>4, <3>6
  <2>4. ~\E i \in Stored : OnPath(k, i)
    <3> SUFFICES ASSUME NEW i \in Stored, OnPath(k, i)
                 PROVE  FALSE
      OBVIOUS
    <3>1. AtOrAbove(n, NodeOf(i)) /\ NodeOf(i) # n
      BY <1>3, OnPath(k, i) DEF OnPath, n
    <3>2. AtOrAbove(m, NodeOf(i))
      BY <1>1, <1>3, <2>1, <3>1, UpTrans
    <3>3. AtOrAbove(NodeOf(i), n)
      BY <1>3, <2>1, <3>2
    <3>4. NodeOf(i) = n
      BY <1>1, <1>3, <3>1, <3>3, UpIs
    <3> QED
      BY <3>1, <3>4
  <2>5. \A i \in Stored : OnPath(j, i) => i = k \/ OnPath(i, k)
    BY <1>3, <2>1
  <2> QED
    BY <2>2, <2>3, <2>4, <2>5 DEF Removed
<1>8. ASSUME j # k, j \in Removed(Stored, k)
      PROVE  m \in Freed(n)
  <2>1. /\ k \in Stored /\ OnPath(j, k)
        /\ \A i \in Stored : OnPath(j, i) => i = k \/ OnPath(i, k)
    BY <1>8 DEF Removed
  <2>2. n \in Nodes /\ AtOrAbove(m, n)
    BY <1>1, <1>3, <2>1 DEF n
  <2> SUFFICES ASSUME m \notin Freed(n)
               PROVE  FALSE
    OBVIOUS
  <2>3. m \in Nodes /\ m # Root
    BY <1>1, <1>2
  <2>4. PICK d \in Nodes : AtOrAbove(m, d) /\ ~AtOrAbove(d, n)
    BY <1>5, <2>2, <2>3
  <2>5. d \in Nat \ {0} /\ d # Root
    BY <1>1, <1>2, <2>4, UpRoot
  <2>6. PICK e \in Holding : AtOrAbove(d, e)
    BY <2>5 DEF TypeInv, TreeInv, Alive
  <2>7. PICK i \in Stored : e = NodeOf(i)
    BY <1>4
  <2>8. e \in Nat /\ AtOrAbove(m, e) /\ ~AtOrAbove(e, n)
    BY <1>1, <1>3, <2>4, <2>5, <2>6, <2>7, UpTrans
  <2>9. j # i
    <3>1. j = i => e = m
      BY <2>7 DEF m
    <3>2. AtOrAbove(m, n)
      BY <2>2
    <3> QED
      BY <2>8, <3>1, <3>2
  <2>10. OnPath(j, i) /\ ~(i = k \/ OnPath(i, k))
    BY <1>3, <2>7, <2>8, <2>9
  <2> QED
    BY <2>1, <2>10
<1>9. j # k => m # n
  BY <1>1
<1> QED
  BY <1>6, <1>7, <1>8, <1>9 DEF m, n

LEMMA DelMaps ==
  ASSUME TypeInv, NEW k \in Keys, Delete(k)
  PROVE  Abstract!Del(k)
<1> DEFINE n == NodeOf(k)
           R == Removed(Stored, k)
<1>0. n \in Nat \ {0, Root} /\ MaxKey \in Nat /\ k \in Nat
  BY KeysAre DEF MaxKey
<1>1. Abstract!Stored = Stored
  BY DEF Abstract!Stored, Stored, Mapped
<1>2. ret' \in {0, 1} /\ call' = <<"del", k>>
  BY DEF Delete
<1>3. \A j \in Keys \ Stored : Mapped[j] = Null
  BY DEF Stored
<1>4. CASE k > MaxKey
  <2>1. tree' = tree
    BY <1>4 DEF Delete
  <2>2. Mapped' = Mapped
    BY <2>1 DEF Mapped, Linked, Nodes
  <2>3. k \notin Stored
    BY <1>0, <1>4, StoredIs
  <2>4. R = {}
    BY <2>3 DEF Removed
  <2> HIDE DEF R
  <2>5. Mapped' = [j \in Keys |-> IF j \in R THEN Null ELSE Mapped[j]]
    BY <2>2, <2>4 DEF Mapped
  <2> QED
    BY <1>1, <1>2, <2>5, SameTree DEF Abstract!Del, Mapped, R
<1>5. CASE k <= MaxKey
  <2>1. tree' = Without(n)
    BY <1>0, <1>5 DEF Delete
  <2>2. /\ Nodes' = Nodes \ Freed(n)
        /\ \A m \in Nodes' : tree'[m] = IF m = n THEN Null ELSE tree[m]
    <3>1. TreeInv
      BY DEF TypeInv
    <3> HIDE DEF n
    <3> QED
      BY <1>0, <2>1, <3>1, WithoutIs
  <2>3. \A j \in Stored : NodeOf(j) \in Freed(n) \cup {n} <=> j \in R
    BY <1>5, FreedRemoved
  <2> HIDE DEF n, R
  <2>4. ASSUME NEW j \in Keys
        PROVE  (IF Linked(j) THEN tree[NodeOf(j)] ELSE Null)' = IF j \in R THEN Null ELSE Mapped[j]
    <3>1. Linked(j)' <=> j <= MaxKey /\ NodeOf(j) \in Nodes \ Freed(n)
      BY <2>2 DEF Linked
    <3>2. Linked(j)' => tree'[NodeOf(j)] = IF NodeOf(j) = n THEN Null ELSE tree[NodeOf(j)]
      BY <2>2, <3>1
    <3>3. CASE j \notin Stored
      <4>1. Mapped[j] = Null
        BY <1>3, <3>3
      <4>2. Linked(j)' => tree[NodeOf(j)] = Null
        BY <3>1, <4>1, StoredIs
      <4> QED
        BY <3>2, <4>1, <4>2
    <3>4. CASE j \in Stored /\ j \in R
      BY <2>3, <3>1, <3>2, <3>4
    <3>5. CASE j \in Stored /\ j \notin R
      <4>1. NodeOf(j) \notin Freed(n) /\ NodeOf(j) # n
        BY <2>3, <3>5
      <4>2. j <= MaxKey /\ NodeOf(j) \in Nodes /\ Mapped[j] = tree[NodeOf(j)]
        BY <3>5, StoredIs DEF Holding
      <4> QED
        BY <3>1, <3>2, <3>5, <4>1, <4>2
    <3> QED
      BY <3>3, <3>4, <3>5
  <2>5. Mapped' = [j \in Keys |-> IF j \in R THEN Null ELSE Mapped[j]]
    BY <2>4 DEF Mapped
  <2> QED
    BY <1>1, <1>2, <2>5, SameTree DEF Abstract!Del, Mapped, R
<1> QED
  BY <1>0, <1>4, <1>5

LEMMA StepMaps ==
  ASSUME TypeInv, [Next]_vars
  PROVE  [Abstract!Next]_(Abstract!vars)
<1>1. ASSUME UNCHANGED <<tree, call, ret>>
      PROVE  UNCHANGED Abstract!vars
  <2>1. Mapped' = Mapped
    BY <1>1 DEF Mapped, Linked, Nodes
  <2> QED
    BY <1>1, <2>1 DEF Abstract!vars, Mapped
<1>2. CASE Erase
  <2>1. \A k \in Keys : NodeOf(k) \notin Nodes'
    BY <1>2, KeysAre DEF Erase, Nodes
  <2>2. Mapped' = [k \in Keys |-> Null]
    BY <2>1 DEF Mapped, Linked
  <2> QED
    BY <1>2, <2>2 DEF Erase, Abstract!Next, Abstract!Erase, Mapped
<1>3. ASSUME NEW k \in Keys, NEW v \in Values, Add(k, v)
      PROVE  Abstract!Next
  BY <1>3, AddMaps DEF Abstract!Next
<1>4. ASSUME NEW k \in Keys, Del(k)
      PROVE  Abstract!Next
  BY <1>4, DelMaps DEF Del, Abstract!Next
<1>5. ASSUME NEW k \in Keys, Get(k)
      PROVE  Abstract!Next
  <2>1. UNCHANGED tree /\ call' = <<"get", k>> /\ ret' = Mapped[k]
    BY <1>5 DEF Get, Mapped
  <2>2. Mapped' = Mapped
    BY <2>1 DEF Mapped, Linked, Nodes
  <2>3. Abstract!Get(k)
    BY <2>1, <2>2 DEF Abstract!Get, Mapped
  <2> QED
    BY <2>3 DEF Abstract!Next
<1>6. Walk => UNCHANGED <<tree, call, ret>> \/ Abstract!Next
  BY WalkDoes, DelMaps DEF Abstract!Next
<1>7. UNCHANGED vars => UNCHANGED <<tree, call, ret>>
  BY DEF vars
<1> QED
  BY <1>1, <1>2, <1>3, <1>4, <1>5, <1>6, <1>7 DEF Next

\* Node by node, bintree.c is the map with lossy deletion that KeyMap says it is: every
\* call of it, with any keys and values, is a call of KeyMap with the same result.
THEOREM BintreeRefines == Spec => ImplementsKeyMap
<1>1. Init => Abstract!Init
  BY InitMaps
<1>2. TypeInv /\ [Next]_vars => [Abstract!Next]_(Abstract!vars)
  BY StepMaps
<1> QED
  BY <1>1, <1>2, TypeInit, TypeKept, PTL DEF Spec, ImplementsKeyMap, Abstract!Spec
=============================================================================
