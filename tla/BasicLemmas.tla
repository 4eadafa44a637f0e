----------------------------- MODULE BasicLemmas ------------------------------
(***************************************************************************)
(* What the proofs about the components share: least elements and induction *)
(* on the naturals, what a definition by recursion denotes, the remainder of*)
(* a division, and the part of a sequence that is in a set.                *)
(***************************************************************************)
EXTENDS Integers, Selection, SequenceTheorems, WellFoundedInduction, TLAPS

(* A non-empty set of naturals has a least element.                         *)
LEMMA LeastElement ==
  ASSUME NEW T, T \subseteq Nat, T # {}
  PROVE  \E m \in T : \A n \in T : m <= n
  <1> DEFINE R == OpToRel(<, Nat)
  <1>1. IsWellFoundedOn(R, Nat)
    BY NatLessThanWellFounded
  <1>2. PICK m \in T : \A n \in T : ~ (<<n, m>> \in R)
    <2> HIDE DEF R
    <2> QED BY <1>1, WFMin
  <1>3. \A n \in T : ~ (n < m)
    BY <1>2 DEF OpToRel
  <1> QED
    BY <1>3

(* Induction up to a bound, over a set instead of a predicate.              *)
LEMMA BoundedInduction ==
  ASSUME NEW m \in Nat, NEW P, 0 \in P,
         \A n \in 0 .. m - 1 : n \in P => n + 1 \in P
  PROVE  0 .. m \subseteq P
  <1> DEFINE T == {n \in 0 .. m : n \notin P}
  <1> SUFFICES ASSUME T # {} PROVE FALSE
    OBVIOUS
  <1>0. T \subseteq Nat
    OBVIOUS
  <1>1. PICK n \in T : \A k \in T : n <= k
    <2> HIDE DEF T
    <2> QED
      BY <1>0, LeastElement
  <1>2. n # 0 /\ n - 1 \in 0 .. m - 1
    BY <1>1
  <1>3. n - 1 \in P
    BY <1>1, <1>2
  <1> QED
    BY <1>1, <1>2, <1>3

(* Functions for the steps of an iteration: the number of the step and the  *)
(* result so far give the next one.                                         *)
Steps(S, m) == [(1 .. m) \X S -> S]

(* m steps of a function h, from x, have a function of their results: what a*)
(* definition by recursion needs to denote something.                       *)
LEMMA IterationExists ==
  ASSUME NEW S, NEW x \in S, NEW m \in Nat, NEW h \in Steps(S, m)
  PROVE  \E f \in [0 .. m -> S] :
           f[0] = x /\ \A n \in 1 .. m : f[n] = h[<<n, f[n - 1]>>]
  <1> USE DEF Steps
  <1> DEFINE Goes(f, k) == f[0] = x /\ \A n \in 1 .. k : f[n] = h[<<n, f[n - 1]>>]
             P == {k \in 0 .. m : \E f \in [0 .. k -> S] : Goes(f, k)}
  <1>1. 0 \in P
    <2> DEFINE g == [i \in 0 .. 0 |-> x]
    <2>1. g \in [0 .. 0 -> S] /\ g[0] = x
      OBVIOUS
    <2>2. \A n \in 1 .. 0 : g[n] = h[<<n, g[n - 1]>>]
      OBVIOUS
    <2> HIDE DEF g
    <2>3. \E f \in [0 .. 0 -> S] : Goes(f, 0)
      BY <2>1, <2>2
    <2> QED
      BY <2>3
  <1>2. ASSUME NEW k \in 0 .. m - 1, k \in P
        PROVE  k + 1 \in P
    <2>1. PICK f \in [0 .. k -> S] : Goes(f, k)
      BY <1>2
    <2> DEFINE y == h[<<k + 1, f[k]>>]
               g == [i \in 0 .. k + 1 |-> IF i = k + 1 THEN y ELSE f[i]]
    <2>2. y \in S
      OBVIOUS
    <2>3. g \in [0 .. k + 1 -> S]
      BY <2>2
    <2>4. g[0] = x
      BY <2>1
    <2>5. ASSUME NEW n \in 1 .. k + 1
          PROVE  g[n] = h[<<n, g[n - 1]>>]
      <3>1. CASE n = k + 1
        <4>1. g[n] = y /\ g[n - 1] = f[k]
          BY <3>1
        <4> QED
          BY <3>1, <4>1
      <3>2. CASE n \in 1 .. k
        <4>1. g[n] = f[n] /\ g[n - 1] = f[n - 1]
          BY <3>2
        <4> QED
          BY <2>1, <3>2, <4>1
      <3> QED
        BY <3>1, <3>2
    <2> HIDE DEF g
    <2>6. \E e \in [0 .. k + 1 -> S] : Goes(e, k + 1)
      BY <2>3, <2>4, <2>5
    <2> HIDE DEF Goes
    <2> QED
      BY <2>6
  <1>3. 0 .. m \subseteq P
    <2> HIDE DEF P
    <2> QED
      BY <1>1, <1>2, BoundedInduction
  <1>4. m \in P
    <2> HIDE DEF P
    <2> QED
      BY <1>3
  <1> QED
    BY <1>4

(* ... and only one.                                                        *)
LEMMA IterationUnique ==
  ASSUME NEW S, NEW x \in S, NEW m \in Nat, NEW h \in Steps(S, m),
         NEW f \in [0 .. m -> S], f[0] = x,
         \A n \in 1 .. m : f[n] = h[<<n, f[n - 1]>>],
         NEW g, g[0] = x,
         \A n \in 1 .. m : g[n - 1] \in S => g[n] = h[<<n, g[n - 1]>>]
  PROVE  \A n \in 0 .. m : g[n] = f[n]
  <1> USE DEF Steps
  <1> DEFINE P == {n \in 0 .. m : g[n] = f[n]}
  <1>1. 0 \in P
    OBVIOUS
  <1>2. ASSUME NEW n \in 0 .. m - 1, n \in P
        PROVE  n + 1 \in P
    <2>1. n + 1 \in 1 .. m /\ (n + 1) - 1 = n
      OBVIOUS
    <2>2. g[n] = f[n] /\ f[n] \in S
      BY <1>2
    <2>3. f[n + 1] = h[<<n + 1, f[n]>>] /\ g[n + 1] = h[<<n + 1, g[n]>>]
      BY <2>1, <2>2
    <2>4. n + 1 \in 0 .. m
      OBVIOUS
    <2>5. g[n + 1] = f[n + 1]
      BY <2>2, <2>3, Zenon
    <2> QED
      BY <2>4, <2>5
  <1>3. 0 .. m \subseteq P
    <2> HIDE DEF P
    <2> QED
      BY <1>1, <1>2, BoundedInduction
  <1> QED
    BY <1>3

(* The same without end, for steps that do not look at their number.        *)
Maps(S) == [S -> S]

LEMMA RecursionOnNat ==
  ASSUME NEW S, NEW x \in S, NEW h \in Maps(S)
  PROVE  \E f \in [Nat -> S] : f[0] = x /\ \A n \in Nat : f[n + 1] = h[f[n]]
  <1> USE DEF Maps
  <1> DEFINE Good(g, m) == /\ g \in [0 .. m -> S] /\ g[0] = x
                           /\ \A n \in 1 .. m : g[n] = h[g[n - 1]]
  <1>1. ASSUME NEW m \in Nat
        PROVE  \E g : Good(g, m)
    <2> DEFINE e == [p \in (1 .. m) \X S |-> h[p[2]]]
    <2>1. e \in Steps(S, m)
      BY DEF Steps
    <2>2. \A n \in 1 .. m, y \in S : e[<<n, y>>] = h[y]
      OBVIOUS
    <2> HIDE DEF e
    <2>3. PICK g \in [0 .. m -> S] : g[0] = x /\ \A n \in 1 .. m : g[n] = e[<<n, g[n - 1]>>]
      BY <2>1, IterationExists
    <2>4. \A n \in 1 .. m : g[n - 1] \in S
      OBVIOUS
    <2>5. \A n \in 1 .. m : g[n] = h[g[n - 1]]
      BY <2>2, <2>3, <2>4
    <2>6. Good(g, m)
      BY <2>3, <2>5
    <2> HIDE DEF Good
    <2> QED
      BY <2>6
  <1>2. ASSUME NEW m \in Nat, NEW g, NEW e, Good(g, m), Good(e, m + 1)
        PROVE  g[m] = e[m]
    <2> DEFINE P == {n \in 0 .. m : g[n] = e[n]}
    <2>1. 0 \in P
      BY <1>2
    <2>2. ASSUME NEW n \in 0 .. m - 1, n \in P
          PROVE  n + 1 \in P
      <3>1. n + 1 \in 1 .. m /\ n + 1 \in 1 .. m + 1 /\ (n + 1) - 1 = n /\ n + 1 \in 0 .. m
        OBVIOUS
      <3>2. g[n + 1] = h[g[n]] /\ e[n + 1] = h[e[n]]
        BY <1>2, <3>1
      <3> QED
        BY <2>2, <3>1, <3>2
    <2> HIDE DEF P
    <2>3. m \in P
      BY <2>1, <2>2, BoundedInduction
    <2> QED
      BY <2>3 DEF P
  <1> DEFINE pick == [m \in Nat |-> CHOOSE g : Good(g, m)]
             f    == [m \in Nat |-> pick[m][m]]
  <1>3. \A m \in Nat : Good(pick[m], m)
    <2> HIDE DEF Good
    <2> QED
      BY <1>1
  <1>4. f \in [Nat -> S]
    <2> HIDE DEF pick
    <2>1. \A m \in Nat : pick[m][m] \in S
      BY <1>3
    <2> QED
      BY <2>1
  <1>5. f[0] = x
    <2> HIDE DEF pick
    <2> QED
      BY <1>3
  <1>6. ASSUME NEW n \in Nat
        PROVE  f[n + 1] = h[f[n]]
    <2> HIDE DEF pick
    <2>1. Good(pick[n], n) /\ Good(pick[n + 1], n + 1)
      BY <1>3
    <2>2. pick[n][n] = pick[n + 1][n]
      <3> HIDE DEF Good
      <3> QED
        BY <1>2, <2>1
    <2>3. pick[n + 1][n + 1] = h[pick[n + 1][n]]
      <3>1. n + 1 \in 1 .. n + 1 /\ (n + 1) - 1 = n
        OBVIOUS
      <3> QED
        BY <2>1, <3>1
    <2> QED
      BY <2>2, <2>3
  <1> HIDE DEF f
  <1> QED
    BY <1>4, <1>5, <1>6

-----------------------------------------------------------------------------

(* Quotient and remainder exist ...                                         *)
LEMMA DivMod ==
  ASSUME NEW n \in Nat \ {0}, NEW x \in Nat
  PROVE  /\ x \div n \in Nat
         /\ x % n \in 0 .. n - 1
         /\ x = n * (x \div n) + (x % n)
  <1>1. x \div n \in Nat
    OBVIOUS
  <1>2. x % n \in 0 .. n - 1
    OBVIOUS
  <1>3. x = n * (x \div n) + (x % n)
    OBVIOUS
  <1> QED
    BY <1>1, <1>2, <1>3

(* ... and are unique.                                                      *)
LEMMA DivModUnique ==
  ASSUME NEW n \in Nat \ {0}, NEW c \in Nat, NEW d \in Nat,
         NEW s \in 0 .. n - 1, NEW t \in 0 .. n - 1,
         n * c + s = n * d + t
  PROVE  s = t
  <1>1. n * c - n * d = n * (c - d) /\ n * d - n * c = n * (d - c)
    OBVIOUS
  <1>2. c - d > 0 => n * (c - d) >= n
    OBVIOUS
  <1>3. d - c > 0 => n * (d - c) >= n
    OBVIOUS
  <1>4. c = d
    BY <1>1, <1>2, <1>3
  <1> QED
    BY <1>4

(* A number below n is its own remainder.                                   *)
LEMMA ModOfSmall ==
  ASSUME NEW n \in Nat \ {0}, NEW x \in Nat, x < n
  PROVE  x % n = x
<1>1. x = n * (x \div n) + (x % n) /\ x \div n \in Nat /\ x % n \in 0 .. n - 1
  BY DivMod
<1>2. n * 0 + x = n * (x \div n) + (x % n)
  BY <1>1
<1>3. x \in 0 .. n - 1 OBVIOUS
<1>4. QED BY <1>1, <1>2, <1>3, DivModUnique

(* A multiple of n does not show in the remainder.                          *)
LEMMA ModOfMultiple ==
  ASSUME NEW n \in Nat \ {0}, NEW a \in Nat, NEW b \in Nat
  PROVE  (n * a + b) % n = b % n
  <1> DEFINE y == n * a + b
  <1>0. y \in Nat
    OBVIOUS
  <1>1. y = n * (y \div n) + (y % n) /\ y \div n \in Nat /\ y % n \in 0 .. n - 1
    BY <1>0, DivMod
  <1>2. b = n * (b \div n) + (b % n) /\ b \div n \in Nat /\ b % n \in 0 .. n - 1
    BY DivMod
  <1>3. y = n * (a + b \div n) + (b % n)
    <2>1. n * (a + b \div n) = n * a + n * (b \div n)
      BY <1>2
    <2>2. n * a \in Nat /\ n * (b \div n) \in Nat
      BY <1>2
    <2>3. y = n * a + (n * (b \div n) + (b % n))
      BY <1>2
    <2> HIDE DEF y
    <2> QED
      BY <2>1, <2>2, <2>3, <1>2
  <1>4. a + b \div n \in Nat
    BY <1>2
  <1> HIDE DEF y
  <1>5. n * (y \div n) + (y % n) = n * (a + b \div n) + (b % n)
    BY <1>1, <1>3
  <1>6. y % n = b % n
    BY <1>1, <1>2, <1>4, <1>5, DivModUnique
  <1> QED
    BY <1>6 DEF y

(* The quotient and the remainder of a sum that shows them.                 *)
LEMMA DivModOfSum ==
  ASSUME NEW n \in Nat \ {0}, NEW a \in Nat, NEW r \in 0 .. n - 1
  PROVE  (n * a + r) \div n = a /\ (n * a + r) % n = r
  <1> DEFINE y == n * a + r
  <1>0. y \in Nat
    OBVIOUS
  <1>1. y = n * (y \div n) + (y % n) /\ y \div n \in Nat /\ y % n \in 0 .. n - 1
    BY <1>0, DivMod
  <1>2. n * (y \div n) + (y % n) = n * a + r
    BY <1>1
  <1> HIDE DEF y
  <1>3. y % n = r
    BY <1>1, <1>2, DivModUnique
  <1>4. n * (y \div n) = n * a
    <2> DEFINE p == n * (y \div n)
               q == n * a
    <2>1. p \in Nat /\ q \in Nat
      BY <1>1
    <2>2. p + r = q + r
      BY <1>2, <1>3
    <2> HIDE DEF p, q
    <2>3. p = q
      BY <2>1, <2>2
    <2> QED
      BY <2>3 DEF p, q
  <1>5. y \div n = a
    <2> DEFINE c == y \div n
    <2>0. c \in Nat /\ n * c = n * a
      BY <1>1, <1>4
    <2> HIDE DEF c
    <2>1. n * c - n * a = n * (c - a) /\ n * a - n * c = n * (a - c)
      BY <2>0
    <2>2. c - a > 0 => n * (c - a) >= n
      BY <2>0
    <2>3. a - c > 0 => n * (a - c) >= n
      BY <2>0
    <2>4. c = a
      BY <2>0, <2>1, <2>2, <2>3
    <2> QED
      BY <2>4 DEF c
  <1> QED
    BY <1>3, <1>5 DEF y

(* Reducing a summand first changes nothing.                                *)
LEMMA ModOfSum ==
  ASSUME NEW n \in Nat \ {0}, NEW x \in Nat, NEW y \in Nat
  PROVE  ((x % n) + y) % n = (x + y) % n
  <1>1. x = n * (x \div n) + (x % n) /\ x \div n \in Nat /\ x % n \in Nat
    BY DivMod
  <1> DEFINE q == x \div n
             r == (x % n) + y
  <1>2. (n * q + r) % n = r % n
    <2>1. q \in Nat /\ r \in Nat
      BY <1>1
    <2> HIDE DEF q, r
    <2> QED
      BY <2>1, ModOfMultiple
  <1>3. n * (x \div n) \in Nat
    BY <1>1
  <1>4. n * (x \div n) + ((x % n) + y) = x + y
    BY <1>1, <1>3
  <1> QED
    BY <1>2, <1>4

(* Reducing modulo a multiple of n first changes nothing modulo n.          *)
LEMMA ModOfMod ==
  ASSUME NEW n \in Nat \ {0}, NEW m \in Nat \ {0}, m % n = 0, NEW x \in Nat
  PROVE  (x % m) % n = x % n
  <1>1. x = m * (x \div m) + (x % m) /\ x \div m \in Nat /\ x % m \in Nat
    BY DivMod
  <1>2. m = n * (m \div n) /\ m \div n \in Nat
    BY DivMod
  <1>3. PICK k \in Nat : m = n * k
    BY <1>2
  <1>4. PICK q \in Nat : x = m * q + (x % m)
    BY <1>1
  <1>5. m * q = n * (k * q) /\ k * q \in Nat
    BY <1>3
  <1>6. (n * (k * q) + (x % m)) % n = (x % m) % n
    BY <1>1, <1>5, ModOfMultiple
  <1> QED
    BY <1>4, <1>5, <1>6

(* Offsets smaller than n have different remainders from any start.         *)
LEMMA ModInjective ==
  ASSUME NEW n \in Nat \ {0}, NEW x \in Nat, NEW j \in Nat, NEW k \in Nat,
         j < k, k - j < n
  PROVE  (x + j) % n # (x + k) % n
  <1> SUFFICES ASSUME (x + j) % n = (x + k) % n PROVE FALSE
    OBVIOUS
  <1>1. PICK c \in Nat, r \in 0 .. n - 1 : x + j = n * c + r /\ r = (x + j) % n
    BY DivMod, x + j \in Nat
  <1>2. PICK d \in Nat : x + k = n * d + r
    <2>1. /\ (x + k) \div n \in Nat
          /\ x + k = n * ((x + k) \div n) + ((x + k) % n)
      BY DivMod, x + k \in Nat
    <2> QED
      BY <1>1, <2>1
  <1>3. k - j = n * d - n * c /\ n * d - n * c = n * (d - c)
    BY <1>1, <1>2
  <1>4. d - c > 0 => n * (d - c) >= n
    OBVIOUS
  <1>5. d - c <= 0 => n * (d - c) <= 0
    OBVIOUS
  <1> QED
    BY <1>3, <1>4, <1>5

-----------------------------------------------------------------------------

(* The stages of Only: what is kept of the first n elements.                *)
Stages(kept, V, s, C) ==
  /\ kept \in [0 .. Len(s) -> Seq(V)]
  /\ kept[0] = <<>>
  /\ \A n \in 1 .. Len(s) :
       kept[n] = IF s[n] \in C THEN Append(kept[n - 1], s[n]) ELSE kept[n - 1]
  /\ Only(s, C) = kept[Len(s)]

LEMMA OnlyHasStages ==
  ASSUME NEW V, NEW s \in Seq(V), NEW C
  PROVE  \E kept : Stages(kept, V, s, C)
  <1> DEFINE m == Len(s)
             S == Seq(V)
             h == [p \in (1 .. m) \X S |->
                     IF s[p[1]] \in C THEN Append(p[2], s[p[1]]) ELSE p[2]]
  <1>0. m \in Nat /\ <<>> \in S
    OBVIOUS
  <1>1. h \in Steps(S, m)
    BY DEF Steps
  <1>2. \E f \in [0 .. m -> S] :
          f[0] = <<>> /\ \A n \in 1 .. m : f[n] = h[<<n, f[n - 1]>>]
    <2> HIDE DEF m, h, S
    <2> QED
      BY <1>0, <1>1, IterationExists
  <1>3. PICK f \in [0 .. m -> S] :
          f[0] = <<>> /\ \A n \in 1 .. m : f[n] = h[<<n, f[n - 1]>>]
    BY <1>2
  <1>4. ASSUME NEW n \in 1 .. m
        PROVE  f[n] = IF s[n] \in C THEN Append(f[n - 1], s[n]) ELSE f[n - 1]
    <2>1. <<n, f[n - 1]>> \in (1 .. m) \X S
      <3>1. n - 1 \in 0 .. m
        BY <1>0
      <3> HIDE DEF m, S
      <3> QED
        BY <3>1
    <2>2. f[n] = h[<<n, f[n - 1]>>]
      BY <1>3
    <2> QED
      BY <2>1, <2>2
  <1> DEFINE Stage(g) == [n \in 0 .. m |->
                            IF n = 0 THEN <<>>
                            ELSE IF s[n] \in C THEN Append(g[n - 1], s[n]) ELSE g[n - 1]]
  <1>5. f = Stage(f)
    <2>1. ASSUME NEW n \in 0 .. m
          PROVE  f[n] = IF n = 0 THEN <<>>
                        ELSE IF s[n] \in C THEN Append(f[n - 1], s[n]) ELSE f[n - 1]
      <3>1. CASE n = 0
        BY <1>3, <3>1
      <3>2. CASE n # 0
        <4>1. n \in 1 .. m
          BY <1>0, <3>2
        <4> QED
          BY <1>4, <3>2, <4>1
      <3> QED
        BY <3>1, <3>2
    <2> QED
      BY <2>1
  <1> DEFINE k == CHOOSE g : g = Stage(g)
  <1>6. k = Stage(k)
    <2> HIDE DEF Stage
    <2> QED
      BY <1>5
  <1>7. Only(s, C) = k[m]
    BY DEF Only
  <1>8. \A n \in 0 .. m : k[n] = f[n]
    <2>2. k[0] = <<>>
      <3>1. Stage(k)[0] = <<>>
        BY <1>0
      <3> HIDE DEF k, Stage
      <3> QED
        BY <1>6, <3>1
    <2>3. ASSUME NEW n \in 1 .. m, k[n - 1] \in S
          PROVE  k[n] = h[<<n, k[n - 1]>>]
      <3>1. Stage(k)[n] = IF s[n] \in C THEN Append(k[n - 1], s[n]) ELSE k[n - 1]
        BY <1>0
      <3>2. k[n] = Stage(k)[n]
        <4> HIDE DEF k, Stage
        <4> QED
          BY <1>6
      <3>3. h[<<n, k[n - 1]>>]
              = IF s[n] \in C THEN Append(k[n - 1], s[n]) ELSE k[n - 1]
        <4> HIDE DEF k
        <4> QED
          BY <2>3
      <3> QED
        BY <3>1, <3>2, <3>3
    <2> HIDE DEF k, h, m, S, Stage
    <2>4. \A n \in 1 .. m : k[n - 1] \in S => k[n] = h[<<n, k[n - 1]>>]
      BY <2>3
    <2>5. PICK x \in S : x = <<>>
      BY <1>0
    <2>6. /\ f[0] = x /\ \A n \in 1 .. m : f[n] = h[<<n, f[n - 1]>>]
          /\ k[0] = x
      BY <1>3, <2>2, <2>5
    <2> QED
      BY <1>0, <1>1, <2>4, <2>6, IterationUnique, SMTT(60)
  <1> HIDE DEF k
  <1>9. Stages(f, V, s, C)
    BY <1>0, <1>3, <1>4, <1>7, <1>8 DEF Stages
  <1> QED
    BY <1>9

(* Appending to two sequences that are joined appends to the second one.    *)
AppendsToSecond(s, t, v) == Append(s \o t, v) = s \o Append(t, v)

LEMMA AppendOfConcat ==
  ASSUME NEW V, NEW s \in Seq(V), NEW t \in Seq(V), NEW v \in V
  PROVE  AppendsToSecond(s, t, v)
  <1> DEFINE x == <<v>>
  <1>1. x \in Seq(V) /\ s \o t \in Seq(V)
    OBVIOUS
  <1>2. Append(s \o t, v) = (s \o t) \o x /\ Append(t, v) = t \o x
    BY <1>1, AppendIsConcat
  <1>3. \A p, q, r \in Seq(V) : (p \o q) \o r = p \o (q \o r)
    BY ConcatAssociative, SMTT(30)
  <1> HIDE DEF x
  <1>4. (s \o t) \o x = s \o (t \o x)
    BY <1>1, <1>3, Zenon
  <1> QED
    BY <1>2, <1>4 DEF AppendsToSecond

(* An element goes from the head of a sequence to the end of the one before *)
(* it.                                                                      *)
LEMMA ConcatOfHead ==
  ASSUME NEW V, NEW s \in Seq(V), NEW t \in Seq(V), NEW v \in V
  PROVE  s \o (<<v>> \o t) = Append(s, v) \o t
  <1> DEFINE x == <<v>>
  <1>1. x \in Seq(V) /\ Append(s, v) = s \o x
    BY AppendIsConcat
  <1>2. \A p, q, r \in Seq(V) : (p \o q) \o r = p \o (q \o r)
    BY ConcatAssociative, SMTT(30)
  <1> HIDE DEF x
  <1>3. (s \o x) \o t = s \o (x \o t)
    BY <1>1, <1>2, Zenon
  <1> QED
    BY <1>1, <1>3 DEF x

(* Only of an empty sequence, and its type.                                 *)
LEMMA OnlyIsSeq ==
  ASSUME NEW V, NEW s \in Seq(V), NEW C
  PROVE  /\ Only(s, C) \in Seq(V)
         /\ s = <<>> => Only(s, C) = <<>>
  <1>1. PICK f : Stages(f, V, s, C)
    BY OnlyHasStages
  <1>2. Len(s) \in 0 .. Len(s)
    OBVIOUS
  <1> QED
    BY <1>1, <1>2 DEF Stages

(* An element that is appended is kept last, or not at all.                 *)
LEMMA OnlyOfAppend ==
  ASSUME NEW V, NEW s \in Seq(V), NEW v \in V, NEW C
  PROVE  Only(Append(s, v), C) = IF v \in C THEN Append(Only(s, C), v) ELSE Only(s, C)
  <1> DEFINE t == Append(s, v)
             m == Len(s)
  <1>0. t \in Seq(V) /\ Len(t) = m + 1 /\ m \in Nat /\ t[m + 1] = v
        /\ \A n \in 1 .. m : t[n] = s[n]
    OBVIOUS
  <1>1. PICK f : Stages(f, V, s, C)
    BY OnlyHasStages
  <1>2. PICK g : Stages(g, V, t, C)
    <2> HIDE DEF t
    <2> QED
      BY <1>0, OnlyHasStages
  <1> HIDE DEF t
  <1> DEFINE P == {n \in 0 .. m : f[n] = g[n]}
  <1>3. 0 \in P
    BY <1>0, <1>1, <1>2 DEF Stages
  <1>4. ASSUME NEW n \in 0 .. m - 1, n \in P
        PROVE  n + 1 \in P
    <2>1. n + 1 \in 1 .. m /\ n + 1 \in 1 .. Len(t) /\ (n + 1) - 1 = n /\ n + 1 \in 0 .. m
      BY <1>0
    <2>2. f[n + 1] = IF s[n + 1] \in C THEN Append(f[n], s[n + 1]) ELSE f[n]
      BY <1>1, <2>1 DEF Stages
    <2>3. g[n + 1] = IF t[n + 1] \in C THEN Append(g[n], t[n + 1]) ELSE g[n]
      BY <1>2, <2>1 DEF Stages
    <2>4. t[n + 1] = s[n + 1] /\ f[n] = g[n]
      BY <1>0, <1>4, <2>1
    <2>5. f[n + 1] = g[n + 1]
      BY <2>2, <2>3, <2>4
    <2> QED
      BY <2>1, <2>5
  <1>5. f[m] = g[m]
    <2>1. 0 .. m \subseteq P
      <3> HIDE DEF P, m
      <3> QED
        BY <1>0, <1>3, <1>4, BoundedInduction
    <2> QED
      BY <1>0, <2>1
  <1>6. g[m + 1] = IF v \in C THEN Append(g[m], v) ELSE g[m]
    <2>1. m + 1 \in 1 .. Len(t) /\ (m + 1) - 1 = m
      BY <1>0
    <2> QED
      BY <1>0, <1>2, <2>1 DEF Stages
  <1>7. Only(t, C) = IF v \in C THEN Append(Only(s, C), v) ELSE Only(s, C)
    BY <1>0, <1>1, <1>2, <1>5, <1>6 DEF Stages
  <1> QED
    BY <1>7 DEF t

(* The first element of a sequence is kept first, or not at all.            *)
LEMMA OnlyOfHead ==
  ASSUME NEW V, NEW s \in Seq(V), s # <<>>, NEW C
  PROVE  Only(s, C) = IF Head(s) \in C THEN <<Head(s)>> \o Only(Tail(s), C)
                      ELSE Only(Tail(s), C)
  <1> DEFINE t == Tail(s)
             a == Head(s)
             m == Len(s)
  <1>0. t \in Seq(V) /\ Len(t) = m - 1 /\ m \in Nat /\ m >= 1 /\ s[1] = a /\ a \in V
        /\ \A n \in 1 .. m - 1 : t[n] = s[n + 1]
    OBVIOUS
  <1>1. PICK f : Stages(f, V, s, C)
    BY OnlyHasStages
  <1>2. PICK g : Stages(g, V, t, C)
    <2> HIDE DEF t
    <2> QED
      BY <1>0, OnlyHasStages
  <1> HIDE DEF t, a
  <1> DEFINE first == IF a \in C THEN <<a>> ELSE <<>>
  <1>a. /\ first \in Seq(V)
        /\ a \in C => first = <<a>>
        /\ a \notin C => first = <<>>
    BY <1>0
  <1> HIDE DEF first
  <1> DEFINE P == {n \in 0 .. m - 1 : f[n + 1] = first \o g[n]}
  <1>3. 0 \in P
    <2>1. f[1] = IF s[1] \in C THEN Append(f[0], s[1]) ELSE f[0]
      <3>1. 1 \in 1 .. m /\ 1 - 1 = 0
        BY <1>0
      <3> QED
        BY <1>1, <3>1 DEF Stages
    <2>2. f[1] = first
      BY <1>0, <1>1, <1>a, <2>1 DEF Stages
    <2>3. first \o g[0] = first
      BY <1>0, <1>2, <1>a DEF Stages
    <2> QED
      BY <1>0, <2>2, <2>3
  <1>4. ASSUME NEW n \in 0 .. (m - 1) - 1, n \in P
        PROVE  n + 1 \in P
    <2>1. /\ n + 2 \in 1 .. m /\ n + 1 \in 1 .. Len(t) /\ (n + 1) - 1 = n
          /\ (n + 2) - 1 = n + 1 /\ n + 1 \in 0 .. m - 1 /\ n \in 0 .. Len(t)
      BY <1>0
    <2>2. f[n + 2] = IF s[n + 2] \in C THEN Append(f[n + 1], s[n + 2]) ELSE f[n + 1]
      BY <1>1, <2>1 DEF Stages
    <2>3. g[n + 1] = IF t[n + 1] \in C THEN Append(g[n], t[n + 1]) ELSE g[n]
      BY <1>2, <2>1 DEF Stages
    <2>4. t[n + 1] = s[n + 2] /\ f[n + 1] = first \o g[n] /\ s[n + 2] \in V
      BY <1>0, <1>4, <2>1
    <2>5. g[n] \in Seq(V) /\ first \in Seq(V)
      BY <1>0, <1>a, <1>2, <2>1 DEF Stages
    <2>6. Append(first \o g[n], s[n + 2]) = first \o Append(g[n], s[n + 2])
      <3>1. PICK y \in Seq(V) : y = g[n]
        BY <2>5
      <3>2. PICK e \in V : e = s[n + 2]
        BY <2>4
      <3>3. AppendsToSecond(first, y, e)
        BY <1>a, AppendOfConcat
      <3> QED
        BY <3>1, <3>2, <3>3 DEF AppendsToSecond
    <2>7. f[n + 2] = first \o g[n + 1]
      <3> QED
        BY <2>2, <2>3, <2>4, <2>6
    <2> QED
      BY <2>1, <2>7
  <1>5. f[m] = first \o g[m - 1]
    <2>1. 0 .. m - 1 \subseteq P
      <3> DEFINE k == m - 1
      <3>1. k \in Nat
        BY <1>0
      <3> HIDE DEF P, m
      <3>2. \A n \in 0 .. k - 1 : n \in P => n + 1 \in P
        BY <1>4
      <3> HIDE DEF k
      <3>3. 0 .. k \subseteq P
        BY <1>3, <3>1, <3>2, BoundedInduction
      <3> QED
        BY <3>3 DEF k
    <2>2. m - 1 \in P
      <3> HIDE DEF P
      <3> QED
        BY <1>0, <2>1
    <2>3. (m - 1) + 1 = m
      BY <1>0
    <2> QED
      BY <2>2, <2>3
  <1>6. Only(s, C) = first \o Only(t, C)
    BY <1>0, <1>1, <1>2, <1>5 DEF Stages
  <1>7. Only(t, C) \in Seq(V)
    BY <1>0, OnlyIsSeq
  <1>8. <<>> \o Only(t, C) = Only(t, C)
    BY <1>7
  <1> QED
    BY <1>6, <1>8, <1>a DEF t, a

(* Of a sequence whose elements are not in the set up to one place and are  *)
(* from there on, the rest is kept.                                         *)
LEMMA OnlyOfEnd ==
  ASSUME NEW V, NEW s \in Seq(V), NEW C, NEW k \in 0 .. Len(s),
         \A i \in 1 .. k : s[i] \notin C, \A i \in k + 1 .. Len(s) : s[i] \in C
  PROVE  Only(s, C) = SubSeq(s, k + 1, Len(s))
  <1> DEFINE m == Len(s)
  <1>0. m \in Nat /\ k \in Nat /\ k <= m
    OBVIOUS
  <1>1. PICK f : Stages(f, V, s, C)
    BY OnlyHasStages
  <1>2. /\ f[0] = <<>> /\ Only(s, C) = f[m]
        /\ \A n \in 1 .. m : f[n] = IF s[n] \in C THEN Append(f[n - 1], s[n]) ELSE f[n - 1]
    BY <1>1 DEF Stages
  <1>3. ASSUME NEW n \in 0 .. m
        PROVE  /\ SubSeq(s, k + 1, n) \in Seq(V)
               /\ Len(SubSeq(s, k + 1, n)) = IF n <= k THEN 0 ELSE n - k
               /\ \A i \in 1 .. Len(SubSeq(s, k + 1, n)) : SubSeq(s, k + 1, n)[i] = s[k + i]
    BY <1>0
  <1> DEFINE P == {n \in 0 .. m : f[n] = SubSeq(s, k + 1, n)}
  <1>4. 0 \in P
    <2>1. 0 \in 0 .. m /\ 0 <= k
      BY <1>0
    <2>2. SubSeq(s, k + 1, 0) \in Seq(V) /\ Len(SubSeq(s, k + 1, 0)) = 0
      BY <1>3, <2>1
    <2>3. SubSeq(s, k + 1, 0) = <<>>
      BY <2>2, EmptySeq
    <2> QED
      BY <1>2, <2>1, <2>3
  <1>5. ASSUME NEW n \in 0 .. m - 1, n \in P
        PROVE  n + 1 \in P
    <2>1. n + 1 \in 1 .. m /\ n + 1 \in 0 .. m /\ (n + 1) - 1 = n /\ n \in 0 .. m
      BY <1>0
    <2>2. f[n] = SubSeq(s, k + 1, n)
      BY <1>5
    <2> HIDE DEF P
    <2>3. CASE n < k
      <3>1. s[n + 1] \notin C
        BY <1>0, <2>3
      <3>2. f[n + 1] = SubSeq(s, k + 1, n)
        BY <1>2, <2>1, <2>2, <3>1
      <3>3. Len(SubSeq(s, k + 1, n)) = 0 /\ Len(SubSeq(s, k + 1, n + 1)) = 0
        BY <1>0, <1>3, <2>1, <2>3
      <3>4. SubSeq(s, k + 1, n) = <<>> /\ SubSeq(s, k + 1, n + 1) = <<>>
        BY <1>3, <2>1, <3>3, EmptySeq
      <3> QED
        BY <2>1, <3>2, <3>4 DEF P
    <2>4. CASE k <= n
      <3> DEFINE a == SubSeq(s, k + 1, n)
                 b == SubSeq(s, k + 1, n + 1)
                 c == Append(a, s[n + 1])
      <3>1. s[n + 1] \in C /\ s[n + 1] \in V
        BY <1>0, <2>1, <2>4
      <3>2. f[n + 1] = c
        BY <1>2, <2>1, <2>2, <3>1
      <3>3. /\ a \in Seq(V) /\ Len(a) = n - k /\ \A i \in 1 .. n - k : a[i] = s[k + i]
            /\ b \in Seq(V) /\ Len(b) = n + 1 - k /\ \A i \in 1 .. n + 1 - k : b[i] = s[k + i]
        <4>1. Len(a) = n - k /\ Len(b) = n + 1 - k
          BY <1>0, <1>3, <2>1, <2>4
        <4> QED
          BY <1>3, <2>1, <4>1
      <3> HIDE DEF a, b
      <3>4. /\ c \in Seq(V) /\ Len(c) = n + 1 - k
            /\ \A i \in 1 .. n - k : c[i] = a[i]
            /\ c[n + 1 - k] = s[n + 1]
        BY <1>0, <2>4, <3>1, <3>3
      <3> HIDE DEF c
      <3>5. \A i \in 1 .. Len(b) : b[i] = c[i]
        <4> SUFFICES ASSUME NEW i \in 1 .. n + 1 - k PROVE b[i] = c[i]
          BY <3>3
        <4>1. CASE i \in 1 .. n - k
          BY <3>3, <3>4, <4>1
        <4>2. CASE i = n + 1 - k
          <5>1. k + i = n + 1
            BY <1>0, <4>2
          <5> QED
            BY <3>3, <3>4, <4>2, <5>1
        <4> QED
          BY <1>0, <4>1, <4>2
      <3>6. b = c
        BY <3>3, <3>4, <3>5, SeqEqual
      <3> QED
        BY <2>1, <3>2, <3>6 DEF P, b
    <2> QED
      BY <1>0, <2>3, <2>4
  <1>6. m \in P
    <2> HIDE DEF P
    <2>1. m \in 0 .. m
      BY <1>0
    <2> QED
      BY <1>0, <1>4, <1>5, <2>1, BoundedInduction
  <1> QED
    BY <1>2, <1>6
=============================================================================
