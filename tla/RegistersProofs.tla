-------------------------- MODULE RegistersProofs --------------------------
(***************************************************************************)
(* The arithmetic handlers follow the ISA, for registers of every width    *)
(* that RegisterConstants allows.                                          *)
(*                                                                         *)
(* FollowsISA is inductive together with the types and the fact that X0    *)
(* never loses its level (RegInv): what an instruction writes follows from *)
(* what its operands have in common with those of the reference.  That is  *)
(* arithmetic modulo 2^XLEN, modulo 2^WLEN and, for the logical operations,*)
(* bit by bit.                                                             *)
(***************************************************************************)
EXTENDS Registers, TLAPS, WellFoundedInduction

(* Every set of natural numbers has a least element,                       *)
LEMMA Least ==
  ASSUME NEW T \in SUBSET Nat, T # {}
  PROVE  \E m \in T : \A k \in T : ~(k < m)
<1> DEFINE R == OpToRel(<, Nat)
<1>1. IsWellFoundedOn(R, Nat)
  BY NatLessThanWellFounded
<1>2. \A k, m \in Nat : k < m => <<k, m>> \in R
  BY DEF OpToRel
<1> HIDE DEF R
<1>3. \E x \in T : \A y \in T : ~(<<y, x>> \in R)
  BY <1>1, WFMin
<1> QED
  BY <1>2, <1>3

(* so that a set that has 0 and is closed under the next number has all.   *)
LEMMA Induction ==
  ASSUME NEW S \in SUBSET Nat, 0 \in S, \A n \in S : n + 1 \in S
  PROVE  S = Nat
<1> DEFINE T == Nat \ S
<1> SUFFICES ASSUME T # {} PROVE FALSE
  OBVIOUS
<1>1. PICK m \in T : \A k \in T : ~(k < m)
  BY Least
<1>2. m \in Nat /\ m # 0 /\ m - 1 \in Nat /\ m - 1 \notin T
  BY <1>1
<1> QED
  BY <1>2

(* f starts with c and follows the steps g up to n.                        *)
UpTo(n, f, S, c, g) ==
  /\ f \in [Nat -> S] /\ f[0] = c
  /\ \A i \in Nat : i < n => f[i + 1] = g[i][f[i]]

(* f starts with c and follows the steps g.                                *)
Follows(f, S, c, g) ==
  f \in [Nat -> S] /\ f[0] = c /\ \A n \in Nat : f[n + 1] = g[n][f[n]]

(* Steps on a set define a function of the natural numbers.                *)
LEMMA Recursion ==
  ASSUME NEW S, NEW c \in S, NEW g \in [Nat -> [S -> S]]
  PROVE  \E f : Follows(f, S, c, g)
<1> DEFINE Up(n, f) == UpTo(n, f, S, c, g)
           D == {n \in Nat : \E f : Up(n, f)}
           Same(i) == \A n \in Nat : \A f, h : i <= n /\ Up(n, f) /\ Up(n, h) => f[i] = h[i]
           E == {i \in Nat : Same(i)}
<1>1. \A n \in Nat : \E f : Up(n, f)
  <2>1. 0 \in D
    <3>1. Up(0, [i \in Nat |-> c])
      BY DEF UpTo
    <3> QED
      BY <3>1
  <2>2. ASSUME NEW n \in D PROVE n + 1 \in D
    <3>1. PICK f : Up(n, f)
      OBVIOUS
    <3> DEFINE h == [f EXCEPT ![n + 1] = g[n][f[n]]]
    <3>2. n \in Nat /\ f \in [Nat -> S] /\ f[0] = c
      BY <3>1 DEF UpTo
    <3>3. g[n] \in [S -> S] /\ f[n] \in S
      BY <3>2
    <3>4. h \in [Nat -> S]
      BY <3>2, <3>3
    <3>5. h[0] = c /\ h[n + 1] = g[n][f[n]] /\ \A i \in Nat : i <= n => h[i] = f[i]
      BY <3>2
    <3> HIDE DEF h
    <3>6. ASSUME NEW i \in Nat, i < n + 1 PROVE h[i + 1] = g[i][h[i]]
      <4>1. CASE i = n
        BY <3>2, <3>5, <4>1
      <4>2. CASE i < n
        <5>1. f[i + 1] = g[i][f[i]]
          BY <3>1, <4>2 DEF UpTo
        <5> QED
          BY <3>2, <3>5, <4>2, <5>1
      <4> QED
        BY <3>2, <3>6, <4>1, <4>2
    <3>7. Up(n + 1, h)
      BY <3>4, <3>5, <3>6 DEF UpTo
    <3> QED
      BY <3>2, <3>7
  <2> HIDE DEF D
  <2>3. D = Nat
    BY <2>1, <2>2, Induction DEF D
  <2> QED
    BY <2>3 DEF D
<1>2. \A i \in Nat : Same(i)
  <2>1. Same(0)
    BY DEF UpTo
  <2>2. ASSUME NEW i \in Nat, Same(i) PROVE Same(i + 1)
    <3> SUFFICES ASSUME NEW n \in Nat, NEW f, NEW h, i + 1 <= n, Up(n, f), Up(n, h)
                 PROVE  f[i + 1] = h[i + 1]
      OBVIOUS
    <3>1. f[i] = h[i]
      BY <2>2
    <3>2. f[i + 1] = g[i][f[i]] /\ h[i + 1] = g[i][h[i]]
      BY DEF UpTo
    <3> QED
      BY <3>1, <3>2
  <2> HIDE DEF Same
  <2>3. E \in SUBSET Nat /\ 0 \in E /\ \A i \in E : i + 1 \in E
    BY <2>1, <2>2
  <2> HIDE DEF E
  <2>4. E = Nat
    BY <2>3, Induction
  <2> QED
    BY <2>4 DEF E
<1> DEFINE F(n) == CHOOSE f : Up(n, f)
           G == [n \in Nat |-> F(n)[n]]
<1>3. \A n \in Nat : Up(n, F(n))
  BY <1>1
<1>4. \A n \in Nat : \A f : Up(n + 1, f) => Up(n, f)
  BY DEF UpTo
<1> HIDE DEF Up, F
<1>5. ASSUME NEW n \in Nat PROVE G[n + 1] = g[n][G[n]]
  <2>1. Up(n + 1, F(n + 1)) /\ Up(n, F(n))
    BY <1>3
  <2>2. Up(n, F(n + 1))
    BY <2>1, <1>4
  <2>3. F(n + 1)[n] = F(n)[n]
    BY <2>1, <2>2, <1>2
  <2>4. F(n + 1)[n + 1] = g[n][F(n + 1)[n]]
    BY <2>1 DEF Up, UpTo
  <2> QED
    BY <2>3, <2>4
<1>6. G \in [Nat -> S] /\ G[0] = c
  BY <1>3 DEF Up, UpTo
<1> QED
  BY <1>5, <1>6 DEF Follows

-----------------------------------------------------------------------------
(* The recursive definition of the powers of two defines them.             *)
LEMMA Pow2Def == Pow2 = [n \in Nat |-> IF n = 0 THEN 1 ELSE 2 * Pow2[n - 1]]
<1> DEFINE g == [n \in Nat |-> [v \in Nat |-> 2 * v]]
           Solves(f) == f = [n \in Nat |-> IF n = 0 THEN 1 ELSE 2 * f[n - 1]]
<1>1. g \in [Nat -> [Nat -> Nat]] /\ \A n, v \in Nat : g[n][v] = 2 * v
  OBVIOUS
<1> HIDE DEF g
<1>2. PICK f : f \in [Nat -> Nat] /\ f[0] = 1 /\ \A n \in Nat : f[n + 1] = g[n][f[n]]
  <2>1. 1 \in Nat
    OBVIOUS
  <2>2. \E f : Follows(f, Nat, 1, g)
    BY <1>1, <2>1, Recursion, Zenon
  <2> QED
    BY <2>2 DEF Follows
<1>3. \A n \in Nat : f[n] = IF n = 0 THEN 1 ELSE 2 * f[n - 1]
  <2> SUFFICES ASSUME NEW n \in Nat, n # 0 PROVE f[n] = 2 * f[n - 1]
    BY <1>2
  <2>1. n - 1 \in Nat /\ (n - 1) + 1 = n
    OBVIOUS
  <2> QED
    BY <1>1, <1>2, <2>1
<1>4. Solves(f)
  BY <1>2, <1>3
<1>5. Pow2 = CHOOSE f_ : Solves(f_)
  BY DEF Pow2
<1> HIDE DEF Solves
<1>6. Solves(Pow2)
  BY <1>4, <1>5
<1> QED
  BY <1>6 DEF Solves

(* The first power of two and each next one.                               *)
LEMMA Pow2Rec == Pow2[0] = 1 /\ \A n \in Nat : Pow2[n + 1] = 2 * Pow2[n]
BY Pow2Def

(* Powers of two are positive numbers.                                     *)
LEMMA Pow2Type == \A n \in Nat : Pow2[n] \in Nat /\ Pow2[n] > 0
<1> DEFINE E == {n \in Nat : Pow2[n] \in Nat /\ Pow2[n] > 0}
<1>1. E \in SUBSET Nat /\ 0 \in E /\ \A n \in E : n + 1 \in E
  BY Pow2Rec
<1> HIDE DEF E
<1>2. E = Nat
  BY <1>1, Induction
<1> QED
  BY <1>2 DEF E

(* A sum of exponents is a product of powers.                              *)
LEMMA Pow2Add == \A m, n \in Nat : Pow2[m + n] = Pow2[m] * Pow2[n]
<1> SUFFICES ASSUME NEW m \in Nat PROVE \A n \in Nat : Pow2[m + n] = Pow2[m] * Pow2[n]
  OBVIOUS
<1> DEFINE E == {n \in Nat : Pow2[m + n] = Pow2[m] * Pow2[n]}
<1>1. 0 \in E
  BY Pow2Rec, Pow2Type
<1>2. ASSUME NEW n \in E PROVE n + 1 \in E
  <2>1. m + n \in Nat /\ m + (n + 1) = (m + n) + 1
    OBVIOUS
  <2>2. Pow2[m + (n + 1)] = 2 * (Pow2[m] * Pow2[n])
    BY <2>1, Pow2Rec
  <2>3. Pow2[n + 1] = 2 * Pow2[n] /\ Pow2[m] \in Nat /\ Pow2[n] \in Nat
    BY Pow2Rec, Pow2Type
  <2>4. Pow2[m] * (2 * Pow2[n]) = 2 * (Pow2[m] * Pow2[n])
    BY <2>3
  <2> QED
    BY <2>2, <2>3, <2>4
<1>3. E \in SUBSET Nat
  OBVIOUS
<1> HIDE DEF E
<1>4. E = Nat
  BY <1>1, <1>2, <1>3, Induction
<1> QED
  BY <1>4 DEF E

-----------------------------------------------------------------------------
(* Quotient and remainder are determined by their equation.                *)
LEMMA Cut ==
  ASSUME NEW k \in Nat \ {0}, NEW x \in Int, NEW q \in Int, NEW r \in 0 .. k - 1, x = k * q + r
  PROVE  x \div k = q /\ x % k = r
<1> DEFINE g == x \div k
           h == x % k
<1>1. g \in Int /\ h \in 0 .. k - 1 /\ x = k * g + h
  OBVIOUS
<1> HIDE DEF g, h
<1>2. k * q \in Int /\ k * g \in Int /\ k * (g - q) = k * g - k * q
  BY <1>1
<1>3. -k < k * (g - q) /\ k * (g - q) < k
  BY <1>1, <1>2
<1>4. g = q
  <2>1. CASE g - q >= 1
    <3>1. k * (g - q) >= k * 1
      BY <1>1, <2>1
    <3> QED
      BY <1>1, <1>3, <3>1
  <2>2. CASE g - q <= -1
    <3>1. k * (g - q) <= k * (-1)
      BY <1>1, <2>2
    <3> QED
      BY <1>1, <1>3, <3>1
  <2> QED
    BY <1>1, <2>1, <2>2
<1> QED
  BY <1>1, <1>4 DEF g, h

(* Division with remainder.                                                *)
LEMMA Divide ==
  ASSUME NEW k \in Nat \ {0}, NEW x \in Int
  PROVE  /\ x \div k \in Int /\ x % k \in Int /\ x % k \in Nat /\ x % k < k
         /\ x = k * (x \div k) + (x % k)
OBVIOUS

(* A multiple of k comes out of the quotient and leaves the remainder.     *)
LEMMA TakeOut ==
  ASSUME NEW k \in Nat \ {0}, NEW x \in Int, NEW y \in Int
  PROVE  (k * y + x) \div k = y + x \div k /\ (k * y + x) % k = x % k
<1> DEFINE g == x \div k
           h == x % k
<1>1. g \in Int /\ h \in 0 .. k - 1 /\ x = k * g + h
  OBVIOUS
<1> HIDE DEF g, h
<1>2. k * y \in Int /\ k * g \in Int /\ k * (y + g) = k * y + k * g
  BY <1>1
<1>3. k * y + x = k * (y + g) + h
  BY <1>1, <1>2
<1>4. k * y + x \in Int /\ y + g \in Int
  BY <1>1, <1>2
<1> DEFINE z == k * y + x
<1>5. z \in Int /\ z = k * (y + g) + h
  BY <1>3, <1>4
<1> HIDE DEF z
<1>6. z \div k = y + g /\ z % k = h
  BY <1>1, <1>4, <1>5, Cut
<1> QED
  BY <1>6 DEF g, h, z

(* What an operation makes of two bits.                                    *)
Tables == [{0, 1} -> [{0, 1} -> {0, 1}]]

(* A bit is 0 or 1.                                                        *)
LEMMA BitType == \A v, n \in Nat : Bit(v, n) \in {0, 1}
<1> TAKE v, n \in Nat
<1> DEFINE q == v \div Pow2[n]
<1>1. q \in Int
  BY Pow2Type
<1> HIDE DEF q
<1>2. q % 2 \in {0, 1}
  BY <1>1
<1> QED
  BY <1>2 DEF Bit, q

(* Bit n of a result, and the sum over the lower bits.                     *)
Digit(t, a, b, n) == Pow2[n] * t[Bit(a, n)][Bit(b, n)]

Partial(t, a, b) ==
  CHOOSE sum : sum = [n \in Nat |-> IF n = 0 THEN 0
                                    ELSE sum[n - 1] + Pow2[n - 1] * t[Bit(a, n - 1)][Bit(b, n - 1)]]

(* A bit of the result stands for nothing or for its power of two.         *)
LEMMA DigitType ==
  ASSUME NEW t \in Tables, NEW a \in Nat, NEW b \in Nat, NEW n \in Nat
  PROVE  Digit(t, a, b, n) \in {0, Pow2[n]} /\ Digit(t, a, b, n) \in Nat
<1>1. t[Bit(a, n)][Bit(b, n)] \in {0, 1}
  BY BitType DEF Tables
<1> DEFINE y == t[Bit(a, n)][Bit(b, n)]
<1> HIDE DEF y
<1>2. Pow2[n] * y \in {0, Pow2[n]}
  BY <1>1, Pow2Type DEF y
<1> QED
  BY <1>2, Pow2Type DEF Digit, y

(* The sum over the bits adds them one by one.                             *)
LEMMA PartialDef ==
  ASSUME NEW t \in Tables, NEW a \in Nat, NEW b \in Nat
  PROVE  /\ Partial(t, a, b)[0] = 0
         /\ \A n \in Nat : Partial(t, a, b)[n + 1] = Partial(t, a, b)[n] + Digit(t, a, b, n)
<1> DEFINE d == [n \in Nat |-> Digit(t, a, b, n)]
           g == [n \in Nat |-> [v \in Nat |-> v + d[n]]]
           Solves(f) == f = [n \in Nat |-> IF n = 0 THEN 0
                                   ELSE f[n - 1] + Pow2[n - 1] * t[Bit(a, n - 1)][Bit(b, n - 1)]]
           p == Partial(t, a, b)
<1>0. d \in [Nat -> Nat] /\ \A n \in Nat : d[n] = Digit(t, a, b, n)
  BY DigitType
<1> HIDE DEF d
<1>1. g \in [Nat -> [Nat -> Nat]] /\ \A n, v \in Nat : g[n][v] = v + d[n]
  BY <1>0
<1> HIDE DEF g
<1>2. PICK f : f \in [Nat -> Nat] /\ f[0] = 0 /\ \A n \in Nat : f[n + 1] = g[n][f[n]]
  <2>1. 0 \in Nat
    OBVIOUS
  <2>2. \E f : Follows(f, Nat, 0, g)
    BY <1>1, <2>1, Recursion, Zenon
  <2> QED
    BY <2>2 DEF Follows
<1>3. \A n \in Nat : f[n] = IF n = 0 THEN 0 ELSE f[n - 1] + Digit(t, a, b, n - 1)
  <2> SUFFICES ASSUME NEW n \in Nat, n # 0 PROVE f[n] = f[n - 1] + Digit(t, a, b, n - 1)
    BY <1>2
  <2>1. n - 1 \in Nat /\ (n - 1) + 1 = n
    OBVIOUS
  <2>2. f[n - 1] \in Nat /\ f[(n - 1) + 1] = g[n - 1][f[n - 1]]
    BY <1>2, <2>1
  <2>3. g[n - 1][f[n - 1]] = f[n - 1] + d[n - 1]
    BY <1>1, <2>1, <2>2, Zenon
  <2> QED
    BY <1>0, <2>1, <2>2, <2>3, Zenon
<1>4. Solves(f)
  BY <1>2, <1>3, Zenon DEF Digit
<1>5. p = CHOOSE f_ : Solves(f_)
  BY DEF Partial
<1> HIDE DEF Solves
<1>6. Solves(p)
  BY <1>4, <1>5
<1> HIDE DEF p
<1>7. p[0] = 0 /\ \A n \in Nat : p[n + 1] = p[n] + Digit(t, a, b, n)
  <2>1. \A n \in Nat : p[n] = IF n = 0 THEN 0 ELSE p[n - 1] + Digit(t, a, b, n - 1)
    BY <1>6, Zenon DEF Solves, Digit
  <2>2. \A n \in Nat : n + 1 \in Nat /\ n + 1 # 0 /\ (n + 1) - 1 = n
    OBVIOUS
  <2>3. 0 \in Nat
    OBVIOUS
  <2> QED
    BY <2>1, <2>2, <2>3, Zenon
<1> QED
  BY <1>7 DEF p

(* The bits below n fill a number below 2^n,                               *)
LEMMA PartialBound ==
  ASSUME NEW t \in Tables, NEW a \in Nat, NEW b \in Nat
  PROVE  \A n \in Nat : Partial(t, a, b)[n] \in Nat /\ Partial(t, a, b)[n] < Pow2[n]
<1> DEFINE p == Partial(t, a, b)
           E == {n \in Nat : p[n] \in Nat /\ p[n] < Pow2[n]}
<1>1. p[0] = 0 /\ \A n \in Nat : p[n + 1] = p[n] + Digit(t, a, b, n)
  BY PartialDef
<1> HIDE DEF p
<1>2. 0 \in E
  BY <1>1, Pow2Type
<1>3. ASSUME NEW n \in E PROVE n + 1 \in E
  <2>1. Digit(t, a, b, n) \in {0, Pow2[n]} /\ Pow2[n] \in Nat /\ Pow2[n + 1] = 2 * Pow2[n]
    BY DigitType, Pow2Type, Pow2Rec
  <2> QED
    BY <1>1, <2>1
<1>4. E \in SUBSET Nat
  OBVIOUS
<1> HIDE DEF E
<1>5. E = Nat
  BY <1>2, <1>3, <1>4, Induction
<1> QED
  BY <1>5 DEF E, p

(* and the bits from m on add a multiple of 2^m to it.                     *)
LEMMA PartialAbove ==
  ASSUME NEW t \in Tables, NEW a \in Nat, NEW b \in Nat, NEW m \in Nat
  PROVE  \A n \in Nat : Partial(t, a, b)[m + n] % Pow2[m] = Partial(t, a, b)[m]
<1> DEFINE p == Partial(t, a, b)
           k == Pow2[m]
           E == {n \in Nat : p[m + n] % k = p[m]}
<1>1. \A n \in Nat : p[n] \in Nat /\ p[n] < Pow2[n] /\ p[n + 1] = p[n] + Digit(t, a, b, n)
  BY PartialDef, PartialBound
<1> HIDE DEF p
<1>2. k \in Nat \ {0}
  BY Pow2Type
<1>3. 0 \in E
  <2>1. p[m] \in Nat /\ p[m] < k /\ m + 0 = m
    BY <1>1
  <2> HIDE DEF k
  <2> QED
    BY <1>2, <2>1
<1>4. ASSUME NEW n \in E PROVE n + 1 \in E
  <2>1. n \in Nat /\ m + n \in Nat /\ m + (n + 1) = (m + n) + 1
    OBVIOUS
  <2>2. PICK y \in {0, Pow2[n]} : Digit(t, a, b, m + n) = k * y
    <3>1. Digit(t, a, b, m + n) \in {0, Pow2[m + n]}
      BY <2>1, DigitType, Zenon
    <3>2. Pow2[m + n] = k * Pow2[n]
      BY <2>1, Pow2Add, Zenon
    <3>3. k * 0 = 0
      BY <1>2
    <3> QED
      BY <3>1, <3>2, <3>3, Zenon
  <2>3. y \in Int /\ k * y \in Int
    BY <1>2, Pow2Type
  <2>4. p[m + (n + 1)] = k * y + p[m + n]
    BY <1>1, <2>1, <2>2, <2>3
  <2> DEFINE z == p[m + n]
  <2> HIDE DEF k
  <2>5. z \in Int
    BY <1>1, <2>1
  <2> HIDE DEF z
  <2>6. (k * y + z) % k = z % k
    BY <1>2, <2>3, <2>5, TakeOut, Zenon
  <2> QED
    BY <2>1, <2>4, <2>6 DEF z
<1>5. E \in SUBSET Nat
  OBVIOUS
<1> HIDE DEF E
<1>6. E = Nat
  BY <1>3, <1>4, <1>5, Induction
<1> QED
  BY <1>6 DEF E, p

(* Numbers that have the same bits below m.                                *)
SameBits(a, c, m) == \A i \in Nat : i < m => Bit(a, i) = Bit(c, i)

(* The bits of a result come from the same bits of the operands.           *)
LEMMA PartialSame ==
  ASSUME NEW t \in Tables, NEW a \in Nat, NEW b \in Nat,
         NEW c \in Nat, NEW d \in Nat, NEW m \in Nat,
         SameBits(a, c, m), SameBits(b, d, m)
  PROVE  Partial(t, a, b)[m] = Partial(t, c, d)[m]
<1> DEFINE p == Partial(t, a, b)
           q == Partial(t, c, d)
           E == {n \in Nat : n <= m => p[n] = q[n]}
<1>1. /\ p[0] = 0 /\ \A n \in Nat : p[n + 1] = p[n] + Digit(t, a, b, n)
      /\ q[0] = 0 /\ \A n \in Nat : q[n + 1] = q[n] + Digit(t, c, d, n)
  <2>1. p[0] = 0 /\ \A n \in Nat : p[n + 1] = p[n] + Digit(t, a, b, n)
    BY PartialDef, Zenon
  <2>2. q[0] = 0 /\ \A n \in Nat : q[n + 1] = q[n] + Digit(t, c, d, n)
    BY PartialDef, Zenon
  <2> QED
    BY <2>1, <2>2, Zenon
<1> HIDE DEF p, q
<1>2. 0 \in E
  BY <1>1
<1>3. ASSUME NEW n \in E PROVE n + 1 \in E
  <2>1. n < m => Digit(t, a, b, n) = Digit(t, c, d, n)
    BY DEF Digit, SameBits
  <2> QED
    BY <1>1, <2>1
<1>4. E \in SUBSET Nat
  OBVIOUS
<1> HIDE DEF E
<1>5. E = Nat
  BY <1>2, <1>3, <1>4, Induction
<1> QED
  BY <1>5 DEF E, p, q

-----------------------------------------------------------------------------
(* The number of values of a register and of a word, and the values of     *)
(* their sign bits.                                                        *)
Span == Pow2[XLEN]
WordSpan == Pow2[WLEN]
Sign == Pow2[XLEN - 1]
WordSign == Pow2[WLEN - 1]

(* How the powers of two of the two widths relate.                         *)
LEMMA Widths ==
  /\ WLEN \in Nat \ {0} /\ XLEN \in Nat \ {0} /\ XLEN = 2 * WLEN
  /\ Span \in Nat \ {0} /\ WordSpan \in Nat \ {0}
  /\ Sign \in Nat \ {0} /\ WordSign \in Nat \ {0}
  /\ Span = WordSpan * WordSpan /\ Sign = WordSpan * WordSign
  /\ Span = 2 * Sign /\ WordSpan = 2 * WordSign
<1>1. WLEN \in Nat \ {0} /\ XLEN = 2 * WLEN
  BY RegisterConstants
<1>2. /\ XLEN \in Nat \ {0} /\ XLEN = WLEN + WLEN /\ XLEN - 1 \in Nat /\ WLEN - 1 \in Nat
      /\ (XLEN - 1) + 1 = XLEN /\ (WLEN - 1) + 1 = WLEN /\ XLEN - 1 = WLEN + (WLEN - 1)
  BY <1>1
<1>3. /\ Span \in Nat \ {0} /\ WordSpan \in Nat \ {0}
      /\ Sign \in Nat \ {0} /\ WordSign \in Nat \ {0}
  BY <1>1, <1>2, Pow2Type DEF Span, WordSpan, Sign, WordSign
<1>4. Span = WordSpan * WordSpan
  BY <1>1, <1>2, Pow2Add, Zenon DEF Span, WordSpan
<1>5. Sign = WordSpan * WordSign
  BY <1>1, <1>2, Pow2Add, Zenon DEF Sign, WordSpan, WordSign
<1>6. Span = 2 * Sign
  BY <1>2, Pow2Rec, Zenon DEF Span, Sign
<1>7. WordSpan = 2 * WordSign
  BY <1>2, Pow2Rec, Zenon DEF WordSpan, WordSign
<1> QED
  BY <1>1, <1>2, <1>3, <1>4, <1>5, <1>6, <1>7

(* The conversions in terms of these powers.                               *)
LEMMA Defs ==
  /\ Values = 0 .. Span - 1
  /\ \A v : Low(v) = v % WordSpan
  /\ \A v : Unsignify(v) = v % Span
  /\ \A v : Signify(v) = IF v < Sign THEN v ELSE v - Span
  /\ \A v : SignWord(v) = IF Low(v) < WordSign THEN Low(v) ELSE Low(v) + Span - WordSpan
BY DEF Values, Low, Unsignify, Signify, SignWord, Span, WordSpan, Sign, WordSign

(* The low half of a number is below 2^WLEN                                *)
LEMMA LowType ==
  ASSUME NEW v \in Int
  PROVE  Low(v) \in Nat /\ Low(v) < WordSpan
BY Widths, Defs, Divide

(* and is all there is of a number below it.                               *)
LEMMA LowIs ==
  ASSUME NEW v \in Nat, v < WordSpan
  PROVE  Low(v) = v
BY Widths, Defs

(* A result cut to the width of a register is a value of one.              *)
LEMMA UnsignifyType ==
  ASSUME NEW v \in Int
  PROVE  Unsignify(v) \in Values
BY Widths, Defs, Divide

(* A value of a register is not cut.                                       *)
LEMMA UnsignifyIs ==
  ASSUME NEW v \in Values
  PROVE  Unsignify(v) = v
BY Widths, Defs

(* Values of registers are natural numbers.                                *)
LEMMA ValuesInt == \A v \in Values : v \in Nat /\ v \in Int
BY Widths, Defs

(* A multiple of 2^WLEN does not reach the low half.                       *)
LEMMA LowMultiple ==
  ASSUME NEW x \in Int, NEW q \in Int
  PROVE  Low(WordSpan * q + x) = Low(x)
BY Widths, Defs, TakeOut

(* A number is its low half and a multiple of 2^WLEN.                      *)
LEMMA LowSplit ==
  ASSUME NEW x \in Int
  PROVE  x \div WordSpan \in Int /\ Low(x) \in Int /\ x = WordSpan * (x \div WordSpan) + Low(x)
BY Widths, Defs, Divide, Zenon

(* Numbers with the same low half differ by a multiple of 2^WLEN.          *)
LEMMA LowDiff ==
  ASSUME NEW x \in Int, NEW y \in Int, Low(x) = Low(y)
  PROVE  \E q \in Int : WordSpan * q \in Int /\ x = WordSpan * q + y
<1> DEFINE g == x \div WordSpan
           h == y \div WordSpan
           r == Low(x)
<1>1. g \in Int /\ h \in Int /\ r \in Int /\ x = WordSpan * g + r /\ y = WordSpan * h + r
  BY LowSplit, Zenon
<1> HIDE DEF g, h, r
<1>2. /\ g - h \in Int /\ WordSpan * (g - h) = WordSpan * g - WordSpan * h
      /\ WordSpan * g \in Int /\ WordSpan * h \in Int
  BY <1>1, Widths
<1>3. x = WordSpan * (g - h) + y /\ WordSpan * (g - h) \in Int
  BY <1>1, <1>2
<1> QED
  BY <1>2, <1>3

(* Cutting a result to a register keeps its low half.                      *)
LEMMA LowUnsignify ==
  ASSUME NEW x \in Int
  PROVE  Low(Unsignify(x)) = Low(x)
<1> DEFINE q == x \div Span
           r == x % Span
<1>1. q \in Int /\ r \in Int /\ x = Span * q + r
  BY Widths, Divide, Zenon
<1> HIDE DEF q, r
<1>2. WordSpan * q \in Int /\ Span * q = WordSpan * (WordSpan * q)
  BY <1>1, Widths
<1>3. Low(WordSpan * (WordSpan * q) + r) = Low(r)
  BY <1>1, <1>2, LowMultiple, Zenon
<1> QED
  BY <1>1, <1>2, <1>3, Defs DEF r

(* The low half of a sum or difference comes from the low halves.          *)
LEMMA LowAdd ==
  ASSUME NEW a \in Int, NEW b \in Int, NEW c \in Int, NEW d \in Int,
         Low(a) = Low(c), Low(b) = Low(d)
  PROVE  Low(a + b) = Low(c + d) /\ Low(a - b) = Low(c - d)
<1>1. PICK p \in Int : WordSpan * p \in Int /\ a = WordSpan * p + c
  BY LowDiff
<1>2. PICK q \in Int : WordSpan * q \in Int /\ b = WordSpan * q + d
  BY LowDiff
<1>3. /\ WordSpan * (p + q) = WordSpan * p + WordSpan * q
      /\ WordSpan * (p - q) = WordSpan * p - WordSpan * q
  BY Widths
<1>4. a + b = WordSpan * (p + q) + (c + d) /\ a - b = WordSpan * (p - q) + (c - d)
  BY <1>1, <1>2, <1>3
<1>5. p + q \in Int /\ p - q \in Int /\ c + d \in Int /\ c - d \in Int
  OBVIOUS
<1>6. \A x, y \in Int : Low(WordSpan * y + x) = Low(x)
  BY LowMultiple
<1>7. Low(WordSpan * (p + q) + (c + d)) = Low(c + d)
  BY <1>5, <1>6, Zenon
<1>8. Low(WordSpan * (p - q) + (c - d)) = Low(c - d)
  BY <1>5, <1>6, Zenon
<1> QED
  BY <1>4, <1>7, <1>8, Zenon

(* The low half of a multiple comes from the low half.                     *)
LEMMA LowTimes ==
  ASSUME NEW a \in Int, NEW c \in Int, NEW k \in Int, Low(a) = Low(c)
  PROVE  Low(a * k) = Low(c * k)
<1>1. PICK p \in Int : WordSpan * p \in Int /\ a = WordSpan * p + c
  BY LowDiff
<1>2. (WordSpan * p + c) * k = WordSpan * (p * k) + c * k /\ p * k \in Int /\ c * k \in Int
  BY Widths
<1>3. Low(WordSpan * (p * k) + c * k) = Low(c * k)
  BY <1>2, LowMultiple, Zenon
<1> QED
  BY <1>1, <1>2, <1>3, Zenon

(* The low half of a number has its bits below WLEN.                       *)
LEMMA LowBit ==
  ASSUME NEW v \in Nat, NEW i \in Nat, i < WLEN
  PROVE  Bit(v, i) = Bit(Low(v), i)
<1> DEFINE P == Pow2[i]
           k == Pow2[WLEN - i - 1]
           q == v \div WordSpan
           r == Low(v)
           e == r \div P
<1>1. /\ i \in Nat /\ i + 1 \in Nat /\ WLEN - i - 1 \in Nat
      /\ (i + 1) + (WLEN - i - 1) = WLEN
  BY Widths
<1>2. P \in Nat \ {0} /\ k \in Nat \ {0} /\ WordSpan = Pow2[i + 1] * k /\ Pow2[i + 1] = 2 * P
  <2>1. P \in Nat \ {0} /\ k \in Nat \ {0}
    BY <1>1, Pow2Type
  <2>2. WordSpan = Pow2[i + 1] * k
    BY <1>1, Pow2Add, Zenon DEF WordSpan
  <2> QED
    BY <1>1, <2>1, <2>2, Pow2Rec
<1>3. q \in Int /\ r \in Int /\ v = WordSpan * q + r
  BY LowSplit
<1> HIDE DEF P, k, q, r
<1>4. e \in Int
  BY <1>2, <1>3, Divide, Zenon
<1>5. k * q \in Int /\ WordSpan * q = P * (2 * (k * q))
  BY <1>2, <1>3
<1>6. 2 * (k * q) \in Int /\ v = P * (2 * (k * q)) + r
  BY <1>3, <1>5
<1>7. v \div P = 2 * (k * q) + e
  BY <1>2, <1>3, <1>6, TakeOut, Zenon
<1> HIDE DEF e
<1>8. (2 * (k * q) + e) % 2 = e % 2
  <2> DEFINE z == k * q
  <2>1. z \in Int
    BY <1>5
  <2> HIDE DEF z
  <2>2. (2 * z + e) % 2 = e % 2
    BY <1>4, <2>1
  <2> QED
    BY <2>2 DEF z
<1> QED
  BY <1>7, <1>8 DEF Bit, P, r, e

(* A bitwise operation is the sum over all bits of a register.             *)
LEMMA BitwiseIs ==
  ASSUME NEW t, NEW a, NEW b
  PROVE  Bitwise(t, a, b) = Partial(t, a, b)[XLEN]
BY DEF Bitwise, Partial

(* Its result fits a register,                                             *)
LEMMA BitwiseType ==
  ASSUME NEW t \in Tables, NEW a \in Values, NEW b \in Values
  PROVE  Bitwise(t, a, b) \in Values
<1>1. a \in Nat /\ b \in Nat /\ XLEN \in Nat
  BY ValuesInt, Widths
<1>2. Partial(t, a, b)[XLEN] \in Nat /\ Partial(t, a, b)[XLEN] < Pow2[XLEN]
  BY <1>1, PartialBound, Zenon
<1> QED
  BY <1>2, BitwiseIs, Widths, Defs DEF Span

(* the low half of the result is the sum over the lower bits               *)
LEMMA BitwiseLow ==
  ASSUME NEW t \in Tables, NEW a \in Nat, NEW b \in Nat
  PROVE  Low(Bitwise(t, a, b)) = Partial(t, a, b)[WLEN]
<1>1. WLEN \in Nat /\ XLEN = WLEN + WLEN
  BY Widths
<1>2. \A n \in Nat : Partial(t, a, b)[WLEN + n] % Pow2[WLEN] = Partial(t, a, b)[WLEN]
  BY <1>1, PartialAbove
<1>3. Partial(t, a, b)[WLEN + WLEN] % Pow2[WLEN] = Partial(t, a, b)[WLEN]
  BY <1>1, <1>2, Zenon
<1> QED
  BY <1>1, <1>3, BitwiseIs, Defs DEF WordSpan

(* and comes from the low halves of the operands.                          *)
LEMMA LowBitwise ==
  ASSUME NEW t \in Tables, NEW a \in Values, NEW b \in Values,
         NEW c \in Values, NEW d \in Values,
         Low(a) = Low(c), Low(b) = Low(d)
  PROVE  Low(Bitwise(t, a, b)) = Low(Bitwise(t, c, d))
<1>1. /\ a \in Nat /\ b \in Nat /\ c \in Nat /\ d \in Nat
      /\ WLEN \in Nat /\ XLEN = WLEN + WLEN
  BY ValuesInt, Widths
<1>2. SameBits(a, c, WLEN) /\ SameBits(b, d, WLEN)
  BY <1>1, LowBit DEF SameBits
<1>3. Partial(t, a, b)[WLEN] = Partial(t, c, d)[WLEN]
  BY <1>1, <1>2, PartialSame
<1> QED
  BY <1>1, <1>3, BitwiseLow
  
(* The tables of the operators of C++.                                     *)
AndTable == [x \in {0, 1} |-> [y \in {0, 1} |-> x * y]]
OrTable  == [x \in {0, 1} |-> [y \in {0, 1} |-> x + y - x * y]]
XorTable == [x \in {0, 1} |-> [y \in {0, 1} |-> IF x = y THEN 0 ELSE 1]]

(* The three operations by their tables.                                   *)
LEMMA TablesAre ==
  /\ AndTable \in Tables /\ OrTable \in Tables /\ XorTable \in Tables
  /\ \A a, b : And(a, b) = Bitwise(AndTable, a, b)
  /\ \A a, b : Or(a, b) = Bitwise(OrTable, a, b)
  /\ \A a, b : Xor(a, b) = Bitwise(XorTable, a, b)
<1>1. AndTable \in Tables
  BY DEF AndTable, Tables
<1>2. OrTable \in Tables
  BY DEF OrTable, Tables
<1>3. XorTable \in Tables
  BY DEF XorTable, Tables
<1> QED
  BY <1>1, <1>2, <1>3 DEF And, Or, Xor, AndTable, OrTable, XorTable

(* The reference's exclusive or: what is in one of the operands but not in *)
(* both.                                                                   *)
LEMMA XorSplits ==
  ASSUME NEW a \in Values, NEW b \in Values
  PROVE  Xor(a, b) = Or(a, b) - And(a, b)
<1> DEFINE p == Partial(AndTable, a, b)
           q == Partial(OrTable, a, b)
           s == Partial(XorTable, a, b)
           E == {n \in Nat : s[n] + p[n] = q[n]}
<1>0. a \in Nat /\ b \in Nat /\ XLEN \in Nat
  BY ValuesInt, Widths
<1>1. /\ p[0] = 0 /\ \A n \in Nat : p[n + 1] = p[n] + Digit(AndTable, a, b, n)
      /\ q[0] = 0 /\ \A n \in Nat : q[n + 1] = q[n] + Digit(OrTable, a, b, n)
      /\ s[0] = 0 /\ \A n \in Nat : s[n + 1] = s[n] + Digit(XorTable, a, b, n)
  <2>1. p[0] = 0 /\ \A n \in Nat : p[n + 1] = p[n] + Digit(AndTable, a, b, n)
    BY <1>0, TablesAre, PartialDef, Zenon
  <2>2. q[0] = 0 /\ \A n \in Nat : q[n + 1] = q[n] + Digit(OrTable, a, b, n)
    BY <1>0, TablesAre, PartialDef, Zenon
  <2>3. s[0] = 0 /\ \A n \in Nat : s[n + 1] = s[n] + Digit(XorTable, a, b, n)
    BY <1>0, TablesAre, PartialDef, Zenon
  <2> QED
    BY <2>1, <2>2, <2>3, Zenon
<1>2. \A n \in Nat : p[n] \in Nat /\ q[n] \in Nat /\ s[n] \in Nat
  BY <1>0, TablesAre, PartialBound
<1> HIDE DEF p, q, s
<1>3. \A n \in Nat :
        Digit(XorTable, a, b, n) + Digit(AndTable, a, b, n) = Digit(OrTable, a, b, n)
  <2> TAKE n \in Nat
  <2> DEFINE x == Bit(a, n)
             y == Bit(b, n)
             k == Pow2[n]
  <2>1. x \in {0, 1} /\ y \in {0, 1} /\ k \in Nat
    BY <1>0, BitType, Pow2Type
  <2> HIDE DEF x, y, k
  <2>2. k * XorTable[x][y] + k * AndTable[x][y] = k * OrTable[x][y]
    BY <2>1 DEF XorTable, AndTable, OrTable
  <2> QED
    BY <2>2 DEF Digit, x, y, k
<1>4. \A n \in Nat : /\ Digit(XorTable, a, b, n) \in Nat /\ Digit(AndTable, a, b, n) \in Nat
                     /\ Digit(OrTable, a, b, n) \in Nat
  BY <1>0, TablesAre, DigitType
<1>5. 0 \in E
  BY <1>1
<1>6. ASSUME NEW n \in E PROVE n + 1 \in E
  <2>1. n \in Nat /\ n + 1 \in Nat /\ s[n] + p[n] = q[n]
    OBVIOUS
  <2> DEFINE u == Digit(XorTable, a, b, n)
             v == Digit(AndTable, a, b, n)
             w == Digit(OrTable, a, b, n)
  <2>2. u \in Nat /\ v \in Nat /\ w \in Nat /\ u + v = w
    BY <1>3, <1>4, <2>1
  <2>3. s[n + 1] = s[n] + u /\ p[n + 1] = p[n] + v /\ q[n + 1] = q[n] + w
    BY <1>1, <2>1
  <2>4. s[n] \in Nat /\ p[n] \in Nat /\ q[n] \in Nat
    BY <1>2, <2>1
  <2> HIDE DEF E, u, v, w
  <2> DEFINE e == s[n]
             f == p[n]
             g == q[n]
  <2>5. e \in Nat /\ f \in Nat /\ g \in Nat /\ e + f = g
    BY <2>1, <2>4
  <2>6. s[n + 1] = e + u /\ p[n + 1] = f + v /\ q[n + 1] = g + w
    BY <2>3
  <2> HIDE DEF e, f, g
  <2>7. (e + u) + (f + v) = g + w
    BY <2>2, <2>5
  <2>8. s[n + 1] + p[n + 1] = q[n + 1]
    BY <2>6, <2>7, Zenon
  <2> QED
    BY <2>1, <2>8 DEF E
<1>7. E \in SUBSET Nat
  OBVIOUS
<1> HIDE DEF E
<1>8. E = Nat
  BY <1>5, <1>6, <1>7, Induction
<1>9. s[XLEN] + p[XLEN] = q[XLEN]
  BY <1>0, <1>8 DEF E
<1>10. And(a, b) = p[XLEN] /\ Or(a, b) = q[XLEN] /\ Xor(a, b) = s[XLEN]
  BY TablesAre, BitwiseIs DEF p, q, s
<1> QED
  BY <1>0, <1>2, <1>9, <1>10

-----------------------------------------------------------------------------
(* A host shifts by at most XLEN bits, and by the amount if it is less.    *)
LEMMA AmountsType ==
  ASSUME NEW n \in Nat
  PROVE  /\ \A m \in Amounts(n) : m \in Nat /\ m <= XLEN
         /\ n < XLEN => Amounts(n) = {n}
<1>1. n % XLEN \in Nat /\ n % XLEN < XLEN
  BY Widths, Divide
<1> QED
  BY <1>1, Widths DEF Amounts

(* A quotient of a natural number is not larger than it.                   *)
LEMMA QuotientType ==
  ASSUME NEW a \in Nat, NEW k \in Nat \ {0}
  PROVE  a \div k \in Nat /\ a \div k <= a
<1> DEFINE q == a \div k
           r == a % k
<1>0. a \in Int
  OBVIOUS
<1>1. q \in Int /\ r \in Nat /\ r < k /\ a = k * q + r
  BY <1>0, Divide, Zenon
<1> HIDE DEF q, r
<1>2. q >= 0
  <2> SUFFICES ASSUME q <= -1 PROVE FALSE
    BY <1>1
  <2>1. k * q <= k * (-1)
    BY <1>1
  <2>2. k * q \in Int
    BY <1>1
  <2> QED
    BY <1>1, <2>1, <2>2
<1>3. k * q >= 1 * q /\ k * q \in Int
  BY <1>1, <1>2
<1>4. q <= a
  BY <1>1, <1>2, <1>3
<1> QED
  BY <1>1, <1>2, <1>4 DEF q

(* Shifting by nothing.                                                    *)
LEMMA Quotient1 ==
  ASSUME NEW a \in Int
  PROVE  a \div 1 = a
OBVIOUS

(* The quotient of a number below k * m by k is below m.                   *)
LEMMA QuotientBelow ==
  ASSUME NEW a \in Nat, NEW k \in Nat \ {0}, NEW m \in Nat, a < k * m
  PROVE  a \div k < m
<1> DEFINE q == a \div k
           r == a % k
<1>0. a \in Int
  OBVIOUS
<1>1. q \in Int /\ r \in Nat /\ r < k /\ a = k * q + r
  BY <1>0, Divide, Zenon
<1> HIDE DEF q, r
<1> SUFFICES ASSUME q >= m PROVE FALSE
  BY <1>1 DEF q
<1>2. k * q >= k * m /\ k * q \in Int /\ k * m \in Int
  BY <1>1
<1> QED
  BY <1>1, <1>2

(* An amount in a register with a right low half is right: the assumption  *)
(* on the widths.                                                          *)
LEMMA ShiftAmount ==
  ASSUME NEW b \in Values, NEW d \in Values, Low(b) = Low(d)
  PROVE  /\ b < XLEN => d % XLEN = b
         /\ b < WLEN => d % WLEN = b
<1> DEFINE k == WordSpan \div XLEN
<1>0. b \in Nat /\ d \in Nat /\ b \in Int /\ d \in Int
  BY ValuesInt
<1>1. k \in Int /\ WordSpan = XLEN * k
  <2>1. WordSpan % XLEN = 0
    BY RegisterConstants DEF WordSpan
  <2>2. k \in Int /\ WordSpan % XLEN \in Int /\ WordSpan = XLEN * k + (WordSpan % XLEN)
    <3>1. WordSpan \in Int /\ XLEN \in Nat \ {0}
      BY Widths
    <3> QED
      BY <3>1, Divide, Zenon
  <2> HIDE DEF k
  <2> QED
    BY <2>1, <2>2, Widths
<1> HIDE DEF k
<1>2. PICK q \in Int : WordSpan * q \in Int /\ d = WordSpan * q + b
  BY <1>0, LowDiff
<1>3. /\ k * q \in Int /\ WordSpan * q = XLEN * (k * q)
      /\ 2 * (k * q) \in Int /\ XLEN * (k * q) = WLEN * (2 * (k * q))
  BY <1>1, Widths
<1>4. ASSUME b < XLEN PROVE d % XLEN = b
  <2>1. XLEN \in Nat \ {0} /\ b \in 0 .. XLEN - 1 /\ d = XLEN * (k * q) + b
    BY <1>0, <1>2, <1>3, <1>4, Widths
  <2> QED
    BY <1>0, <1>3, <2>1, Cut, Zenon
<1>5. ASSUME b < WLEN PROVE d % WLEN = b
  <2> DEFINE z == 2 * (k * q)
  <2>1. WLEN \in Nat \ {0} /\ b \in 0 .. WLEN - 1 /\ d = WLEN * z + b /\ z \in Int
    BY <1>0, <1>2, <1>3, <1>5, Widths
  <2> HIDE DEF z
  <2> QED
    BY <1>0, <2>1, Cut, Zenon
<1> QED
  BY <1>4, <1>5

(* The sign extension of a word is a register with that word in its low    *)
(* half.                                                                   *)
LEMMA SignWordFacts ==
  ASSUME NEW v \in Int
  PROVE  /\ SignWord(v) \in Values
         /\ Low(SignWord(v)) = Low(v)
         /\ Low(v) < WordSign => SignWord(v) = Low(v)
         /\ Low(v) >= WordSign => SignWord(v) = Low(v) + Span - WordSpan
<1> DEFINE w == Low(v)
<1>1. /\ w \in Nat /\ w < WordSpan
      /\ SignWord(v) = IF w < WordSign THEN w ELSE w + Span - WordSpan
  BY LowType, Defs
<1>2. Low(w) = w
  BY <1>1, LowIs
<1> HIDE DEF w
<1>3. /\ WordSpan - 1 \in Int /\ WordSpan * (WordSpan - 1) = Span - WordSpan
      /\ Span >= WordSpan /\ WordSpan * (WordSpan - 1) \in Int
  BY Widths
<1>4. Low(w + Span - WordSpan) = w
  <2>1. w + Span - WordSpan = WordSpan * (WordSpan - 1) + w
    BY <1>1, <1>3, Widths
  <2>2. Low(WordSpan * (WordSpan - 1) + w) = Low(w)
    BY <1>1, <1>3, LowMultiple
  <2> QED
    BY <1>2, <2>1, <2>2
<1>5. w \in Values /\ w + Span - WordSpan \in Values
  BY <1>1, <1>3, Widths, Defs
<1>6. CASE w < WordSign
  BY <1>1, <1>2, <1>5, <1>6, Widths DEF w
<1>7. CASE ~(w < WordSign)
  BY <1>1, <1>4, <1>5, <1>7, Widths DEF w
<1> QED
  BY <1>6, <1>7

(* Sign extension looks only at the low half.                              *)
LEMMA SignWordLow ==
  ASSUME NEW u, NEW v, Low(u) = Low(v)
  PROVE  SignWord(u) = SignWord(v)
BY Defs

(* exec_SLT compares as the reference: signed order is the order of the    *)
(* shifted numbers.                                                        *)
LEMMA LessIs ==
  ASSUME NEW a \in Values, NEW b \in Values
  PROVE  Less(a, b) = Flag((a + Sign) % Span < (b + Sign) % Span)
<1>1. \A v \in Values : (v + Sign) % Span = Signify(v) + Sign /\ Signify(v) \in Int
  <2> TAKE v \in Values
  <2>1. v \in Nat /\ v < Span /\ Signify(v) = IF v < Sign THEN v ELSE v - Span
    BY Defs, Widths
  <2>2. CASE v < Sign
    BY <2>1, <2>2, Widths
  <2>3. CASE ~(v < Sign)
    <3> DEFINE x == v + Sign
               r == v - Sign
    <3>1. x = Span * 1 + r /\ r \in 0 .. Span - 1 /\ x \in Int /\ 1 \in Int /\ Span \in Nat \ {0}
      BY <2>1, <2>3, Widths
    <3> HIDE DEF x, r
    <3>2. x % Span = r
      BY <3>1, Cut
    <3> QED
      BY <2>1, <2>3, <3>2, Widths DEF x, r
  <2> QED
    BY <2>2, <2>3
<1> DEFINE x == (a + Sign) % Span
           y == (b + Sign) % Span
<1>2. x = Signify(a) + Sign /\ y = Signify(b) + Sign /\ Signify(a) \in Int /\ Signify(b) \in Int
  BY <1>1
<1> HIDE DEF x, y
<1>3. (Signify(a) < Signify(b)) <=> (x < y)
  BY <1>2, Widths
<1> QED
  BY <1>3 DEF Less, Flag, x, y

(* An arithmetic shift by n fills in n ones when the number is negative.   *)
LEMMA ArithmeticIs ==
  ASSUME NEW a \in Values, NEW n \in Nat, n <= XLEN
  PROVE  /\ a < Sign => Unsignify(Signify(a) \div Pow2[n]) = a \div Pow2[n]
         /\ a >= Sign => Unsignify(Signify(a) \div Pow2[n])
                         = (a \div Pow2[n]) + Span - Pow2[XLEN - n]
<1> DEFINE k == Pow2[n]
           m == Pow2[XLEN - n]
           g == a \div k
<1>1. XLEN - n \in Nat /\ n + (XLEN - n) = XLEN
  BY Widths
<1>2. k \in Nat \ {0} /\ m \in Nat \ {0} /\ Span = k * m
  <2>1. k \in Nat \ {0} /\ m \in Nat \ {0}
    BY <1>1, Pow2Type
  <2>2. Span = k * m
    BY <1>1, Pow2Add, Zenon DEF Span
  <2> QED
    BY <2>1, <2>2
<1>3. a \in Nat /\ a < Span /\ Signify(a) = IF a < Sign THEN a ELSE a - Span
  BY Defs, Widths
<1> HIDE DEF k, m
<1>4. g \in Nat /\ g <= a /\ g < m
  BY <1>2, <1>3, QuotientType, QuotientBelow
<1>5. m <= Span
  <2>1. k * m >= 1 * m
    BY <1>2
  <2> QED
    BY <1>2, <2>1
<1>6. ASSUME a < Sign PROVE Unsignify(Signify(a) \div k) = g
  <2>1. g \in Values
    BY <1>3, <1>4, Defs, Widths
  <2> QED
    BY <1>3, <1>6, <2>1, UnsignifyIs
<1>7. ASSUME a >= Sign PROVE Unsignify(Signify(a) \div k) = g + Span - m
  <2>1. Signify(a) = k * (-m) + a /\ -m \in Int /\ a \in Int
    <3>1. k * (-m) = -(k * m)
      BY <1>2
    <3> QED
      BY <1>2, <1>3, <1>7, <3>1, Widths
  <2>2. (k * (-m) + a) \div k = -m + a \div k
    BY <1>2, <2>1, TakeOut, Zenon
  <2>3. Signify(a) \div k = g - m
    BY <1>4, <2>1, <2>2, <1>2
  <2> HIDE DEF g
  <2> DEFINE x == g - m
             r == g + Span - m
  <2>4. x = Span * (-1) + r /\ r \in 0 .. Span - 1 /\ x \in Int /\ -1 \in Int /\ Span \in Nat \ {0}
    BY <1>2, <1>4, <1>5, Widths
  <2> HIDE DEF x, r
  <2>5. x % Span = r
    BY <2>4, Cut
  <2> QED
    BY <2>3, <2>5, Defs DEF x, r
<1> QED
  BY <1>6, <1>7 DEF g, k, m

-----------------------------------------------------------------------------
Levels == {None, Half, Exact}

(* The reference's arithmetic shift: ones are filled in for a negative     *)
(* number.                                                                 *)
Filled(v, n) ==
  IF v < Sign THEN v \div Pow2[n] ELSE (v \div Pow2[n]) + Span - Pow2[XLEN - n]

(* A register and its reference, as far as level l says.                   *)
Agree(a, c, l) ==
  /\ a \in Values /\ c \in Values /\ l \in {Half, Exact}
  /\ Low(a) = Low(c) /\ (l = Exact => a = c)

(* A result and its reference, as far as level l says.                     *)
Good(res, ref, l) ==
  /\ res \in Values /\ ref \in Values /\ l \in Levels
  /\ l = Exact => res = ref
  /\ l = Half => Low(res) = Low(ref)

(* The weaker of two levels.                                               *)
LEMMA WeakerIs ==
  ASSUME NEW l \in {Half, Exact}, NEW k \in {Half, Exact}
  PROVE  /\ Weaker(l, k) \in {Half, Exact}
         /\ Weaker(l, k) = Exact <=> l = Exact /\ k = Exact
BY DEF Weaker, Half, Exact

(* The levels are different.                                               *)
LEMMA LevelsDiffer == None # Half /\ None # Exact /\ Half # Exact
BY DEF None, Half, Exact

(* exec_ADDI, exec_ADD and exec_SUB.                                       *)
LEMMA GoodSum ==
  ASSUME NEW a, NEW b, NEW c, NEW d, NEW l, NEW k,
         Agree(a, c, l), Agree(b, d, k)
  PROVE  /\ Good(Unsignify(a + b), (c + d) % Span, Weaker(l, k))
         /\ Good(Unsignify(a - b), (c - d) % Span, Weaker(l, k))
<1>1. a \in Int /\ b \in Int /\ c \in Int /\ d \in Int /\ Low(a) = Low(c) /\ Low(b) = Low(d)
  BY ValuesInt DEF Agree
<1>2. Low(a + b) = Low(c + d) /\ Low(a - b) = Low(c - d)
  BY <1>1, LowAdd
<1>3. a + b \in Int /\ a - b \in Int /\ c + d \in Int /\ c - d \in Int
  BY <1>1
<1>4. /\ Low(Unsignify(a + b)) = Low(Unsignify(c + d))
      /\ Low(Unsignify(a - b)) = Low(Unsignify(c - d))
  BY <1>2, <1>3, LowUnsignify
<1>5. /\ Unsignify(a + b) \in Values /\ Unsignify(c + d) \in Values
      /\ Unsignify(a - b) \in Values /\ Unsignify(c - d) \in Values
  BY <1>3, UnsignifyType
<1>6. (c + d) % Span = Unsignify(c + d) /\ (c - d) % Span = Unsignify(c - d)
  BY Defs
<1>7. Weaker(l, k) \in Levels /\ (Weaker(l, k) = Exact => a = c /\ b = d)
  BY WeakerIs DEF Agree, Levels
<1> QED
  BY <1>4, <1>5, <1>6, <1>7 DEF Good

(* A flag fits a register.                                                 *)
LEMMA FlagType ==
  ASSUME NEW x
  PROVE  Flag(x) \in Values
<1>1. 0 \in Values /\ 1 \in Values
  BY Widths, Defs
<1> QED
  BY <1>1 DEF Flag

(* exec_SLTI, exec_SLT, exec_SLTIU and exec_SLTU.                          *)
LEMMA GoodCompare ==
  ASSUME NEW a, NEW b, NEW c, NEW d, NEW l, NEW k,
         Agree(a, c, l), Agree(b, d, k)
  PROVE  LET e == IF Weaker(l, k) = Exact THEN Exact ELSE None IN
         /\ Good(Less(a, b), Flag((c + Sign) % Span < (d + Sign) % Span), e)
         /\ Good(Flag(a < b), Flag(c < d), e)
<1> DEFINE e == IF Weaker(l, k) = Exact THEN Exact ELSE None
<1>1. a \in Values /\ b \in Values /\ c \in Values /\ d \in Values
  BY DEF Agree
<1>2. e \in Levels /\ (e = Exact => a = c /\ b = d) /\ e # Half
  BY WeakerIs, LevelsDiffer DEF Agree, Levels
<1>3. /\ Flag((c + Sign) % Span < (d + Sign) % Span) = Less(c, d)
      /\ Less(a, b) \in Values /\ Less(c, d) \in Values
  <2>1. Less(a, b) \in Values /\ Less(c, d) \in Values
    BY FlagType, Zenon DEF Less
  <2> QED
    BY <1>1, <2>1, LessIs, Zenon
<1>4. Flag(a < b) \in Values /\ Flag(c < d) \in Values
  BY FlagType, Zenon
<1> HIDE DEF e
<1> QED
  BY <1>2, <1>3, <1>4 DEF Good, e

(* Any operation bit by bit,                                               *)
LEMMA GoodBitwise ==
  ASSUME NEW t \in Tables, NEW a, NEW b, NEW c, NEW d, NEW l, NEW k,
         Agree(a, c, l), Agree(b, d, k)
  PROVE  Good(Bitwise(t, a, b), Bitwise(t, c, d), Weaker(l, k))
<1>1. /\ a \in Values /\ b \in Values /\ c \in Values /\ d \in Values
      /\ Low(a) = Low(c) /\ Low(b) = Low(d)
  BY DEF Agree
<1>2. Bitwise(t, a, b) \in Values /\ Bitwise(t, c, d) \in Values
  BY <1>1, BitwiseType
<1>3. Low(Bitwise(t, a, b)) = Low(Bitwise(t, c, d))
  BY <1>1, LowBitwise
<1>4. Weaker(l, k) \in Levels /\ (Weaker(l, k) = Exact => a = c /\ b = d)
  BY WeakerIs DEF Agree, Levels
<1> QED
  BY <1>2, <1>3, <1>4 DEF Good

(* in particular exec_OR, exec_AND, exec_XOR and those with immediates.    *)
LEMMA GoodLogic ==
  ASSUME NEW a, NEW b, NEW c, NEW d, NEW l, NEW k,
         Agree(a, c, l), Agree(b, d, k)
  PROVE  /\ Good(Or(a, b), Or(c, d), Weaker(l, k))
         /\ Good(And(a, b), And(c, d), Weaker(l, k))
         /\ Good(Xor(a, b), Or(c, d) - And(c, d), Weaker(l, k))
<1>1. c \in Values /\ d \in Values
  BY DEF Agree
<1>2. Xor(c, d) = Or(c, d) - And(c, d)
  BY <1>1, XorSplits
<1>3. Good(Or(a, b), Or(c, d), Weaker(l, k))
  BY TablesAre, GoodBitwise
<1>4. Good(And(a, b), And(c, d), Weaker(l, k))
  BY TablesAre, GoodBitwise
<1>5. Good(Xor(a, b), Xor(c, d), Weaker(l, k))
  BY TablesAre, GoodBitwise
<1> QED
  BY <1>2, <1>3, <1>4, <1>5

(* A shift by b bits where the instruction says d, x telling that the two  *)
(* are the same.                                                           *)
Shift(b, d, x) ==
  /\ b \in Nat /\ d \in Nat /\ x \in BOOLEAN
  /\ x => b < XLEN /\ d % XLEN = b

(* What is known of the amounts of a shift.                                *)
LEMMA ShiftIs ==
  ASSUME NEW b, NEW d, NEW x, Shift(b, d, x), NEW m \in Amounts(b)
  PROVE  /\ m \in Nat /\ m <= XLEN /\ d % XLEN \in Nat /\ d % XLEN <= XLEN
         /\ Pow2[m] \in Nat \ {0} /\ Pow2[d % XLEN] \in Nat \ {0}
         /\ x => m = d % XLEN
<1>1. m \in Nat /\ m <= XLEN /\ (x => m = d % XLEN)
  BY AmountsType DEF Shift
<1>2. d % XLEN \in Nat /\ d % XLEN < XLEN
  BY Divide, Widths DEF Shift
<1> QED
  BY <1>1, <1>2, Pow2Type, Widths

(* exec_SLLI and exec_SLL.                                                 *)
LEMMA GoodLeft ==
  ASSUME NEW a, NEW c, NEW l, Agree(a, c, l),
         NEW b, NEW d, NEW x, Shift(b, d, x), NEW m \in Amounts(b)
  PROVE  Good(Unsignify(a * Pow2[m]), (c * Pow2[d % XLEN]) % Span, IF x THEN l ELSE None)
<1> DEFINE p == Pow2[m]
           q == Pow2[d % XLEN]
<1>1. p \in Int /\ q \in Int /\ (x => p = q)
  BY ShiftIs
<1>2. a \in Int /\ c \in Int /\ Low(a) = Low(c) /\ l \in {Half, Exact} /\ (l = Exact => a = c)
  BY ValuesInt DEF Agree
<1> HIDE DEF p, q
<1>3. a * p \in Int /\ c * q \in Int /\ Low(a * p) = Low(c * p)
  <2>1. a * p \in Int /\ c * q \in Int
    BY <1>1, <1>2
  <2>2. Low(a * p) = Low(c * p)
    BY <1>1, <1>2, LowTimes, Zenon
  <2> QED
    BY <2>1, <2>2
<1>4. Unsignify(a * p) \in Values /\ Unsignify(c * q) \in Values
  BY <1>3, UnsignifyType
<1>5. x => Low(Unsignify(a * p)) = Low(Unsignify(c * q))
  BY <1>1, <1>3, LowUnsignify
<1>6. (c * q) % Span = Unsignify(c * q)
  BY Defs
<1>7. Good(Unsignify(a * p), Unsignify(c * q), IF x THEN l ELSE None)
  BY <1>1, <1>2, <1>4, <1>5, LevelsDiffer DEF Good, Levels
<1> QED
  BY <1>6, <1>7 DEF p, q

(* A value shifted to the right fits a register,                           *)
LEMMA RightType ==
  ASSUME NEW a \in Values, NEW m \in Nat
  PROVE  a \div Pow2[m] \in Values
<1>1. a \in Nat /\ a < Span /\ Pow2[m] \in Nat \ {0}
  BY Widths, Defs, Pow2Type
<1>2. a \div Pow2[m] \in Nat /\ a \div Pow2[m] <= a
  BY <1>1, QuotientType
<1> QED
  BY <1>1, <1>2, Widths, Defs

(* with its sign too.                                                      *)
LEMMA ArithmeticType ==
  ASSUME NEW a \in Values, NEW m \in Nat
  PROVE  Unsignify(Signify(a) \div Pow2[m]) \in Values
<1>1. Signify(a) \in Int
  BY Defs, Widths
<1>2. Signify(a) \div Pow2[m] \in Int
  BY <1>1, Pow2Type, Divide
<1> QED
  BY <1>2, UnsignifyType

(* exec_SRLI, exec_SRL, exec_SRAI and exec_SRA.                            *)
LEMMA GoodRight ==
  ASSUME NEW a, NEW c, NEW l, Agree(a, c, l),
         NEW b, NEW d, NEW x, Shift(b, d, x), NEW m \in Amounts(b)
  PROVE  LET n == d % XLEN
             e == IF x /\ l = Exact THEN Exact ELSE None IN
         /\ Good(a \div Pow2[m], c \div Pow2[n], e)
         /\ Good(Unsignify(Signify(a) \div Pow2[m]),
                 Filled(c, n), e)
<1> DEFINE n == d % XLEN
           e == IF x /\ l = Exact THEN Exact ELSE None
           u == Unsignify(Signify(a) \div Pow2[m])
           v == Unsignify(Signify(c) \div Pow2[n])
<1>1. m \in Nat /\ n \in Nat /\ n <= XLEN /\ (x => m = n)
  BY ShiftIs
<1>2. a \in Values /\ c \in Values /\ (l = Exact => a = c)
  BY DEF Agree
<1>3. e \in Levels /\ e # Half /\ (e = Exact => a = c /\ m = n)
  BY <1>1, <1>2, LevelsDiffer DEF Levels
<1> HIDE DEF n, e
<1>4. a \div Pow2[m] \in Values /\ c \div Pow2[n] \in Values /\ u \in Values /\ v \in Values
  BY <1>1, <1>2, RightType, ArithmeticType
<1>5. v = Filled(c, n)
  <2>1. c \in Nat
    BY <1>2, ValuesInt
  <2> HIDE DEF v
  <2>2. c < Sign => v = c \div Pow2[n]
    BY <1>1, <1>2, ArithmeticIs DEF v
  <2>3. c >= Sign => v = (c \div Pow2[n]) + Span - Pow2[XLEN - n]
    BY <1>1, <1>2, ArithmeticIs DEF v
  <2> QED
    BY <2>1, <2>2, <2>3, Widths DEF Filled
<1>6. Good(a \div Pow2[m], c \div Pow2[n], e)
  BY <1>3, <1>4 DEF Good
<1>7. Good(u, v, e)
  BY <1>3, <1>4 DEF Good
<1> QED
  BY <1>5, <1>6, <1>7 DEF n, e

(* The level of a word operation, right telling that its low half is       *)
(* right.                                                                  *)
WordLevel(right, res) == IF ~right THEN None ELSE IF res < WordSign THEN Exact ELSE Half

(* The low half of a number is a value of a register.                      *)
LEMMA LowValue ==
  ASSUME NEW v \in Int
  PROVE  Low(v) \in Values /\ Low(Low(v)) = Low(v)
<1> DEFINE w == Low(v)
<1>1. w \in Nat /\ w < WordSpan
  BY LowType
<1> HIDE DEF w
<1>2. WordSpan * WordSpan >= WordSpan * 1
  BY Widths
<1>3. w \in Values
  BY <1>1, <1>2, Defs, Widths
<1>4. Low(w) = w
  BY <1>1, LowIs
<1> QED
  BY <1>3, <1>4 DEF w

(* The signed number that a register stands for.                           *)
LEMMA SignifyIs ==
  ASSUME NEW v \in Values
  PROVE  /\ Signify(v) \in Int
         /\ v < Sign => Signify(v) = v
         /\ v >= Sign => Signify(v) = v - Span
<1>1. v \in Int /\ Signify(v) = IF v < Sign THEN v ELSE v - Span
  BY ValuesInt, Defs
<1> QED
  BY <1>1, Widths

(* The result of a word operation that is right in the low half is right   *)
(* altogether when it is not negative.                                     *)
LEMMA GoodWord ==
  ASSUME NEW v \in Int, NEW u \in Int, NEW right \in BOOLEAN, right => Low(v) = Low(u)
  PROVE  Good(Low(v), SignWord(u), WordLevel(right, Low(v)))
<1>1. Low(v) \in Nat /\ Low(v) < WordSpan /\ Low(u) \in Nat /\ Low(u) < WordSpan
  BY LowType
<1>2. Low(Low(v)) = Low(v) /\ Low(v) \in Values
  BY LowValue
<1>3. /\ SignWord(u) \in Values /\ Low(SignWord(u)) = Low(u)
      /\ Low(u) < WordSign => SignWord(u) = Low(u)
  BY SignWordFacts
<1>4. /\ WordLevel(right, Low(v)) \in Levels
      /\ WordLevel(right, Low(v)) # None => right
      /\ WordLevel(right, Low(v)) = Exact => Low(v) < WordSign
  BY LevelsDiffer DEF WordLevel, Levels
<1> QED
  BY <1>1, <1>2, <1>3, <1>4, LevelsDiffer DEF Good

(* The operands of a word operation agree in their low halves.             *)
LowAgree(a, c) == a \in Values /\ c \in Values /\ Low(a) = Low(c)

(* exec_ADDIW, exec_ADDW and exec_SUBW.                                    *)
LEMMA GoodWordSum ==
  ASSUME NEW a, NEW b, NEW c, NEW d, LowAgree(a, c), LowAgree(b, d)
  PROVE  /\ Good(Low(Unsignify(a + b)), SignWord(c + d),
                 WordLevel(TRUE, Low(Unsignify(a + b))))
         /\ Good(Low(Unsignify(a - b)), SignWord(c - d),
                 WordLevel(TRUE, Low(Unsignify(a - b))))
<1>1. a \in Int /\ b \in Int /\ c \in Int /\ d \in Int /\ Low(a) = Low(c) /\ Low(b) = Low(d)
  BY ValuesInt DEF LowAgree
<1>2. Low(a + b) = Low(c + d) /\ Low(a - b) = Low(c - d)
  BY <1>1, LowAdd
<1>3. a + b \in Int /\ a - b \in Int /\ c + d \in Int /\ c - d \in Int
  BY <1>1
<1>4. /\ Low(Unsignify(a + b)) = Low(c + d) /\ Unsignify(a + b) \in Int
      /\ Low(Unsignify(a - b)) = Low(c - d) /\ Unsignify(a - b) \in Int
  BY <1>2, <1>3, LowUnsignify, UnsignifyType, ValuesInt
<1> QED
  BY <1>3, <1>4, GoodWord

(* A word shift by b bits where the instruction says d.                    *)
WordShift(b, d) == b \in Nat /\ d \in Nat /\ (b < WLEN => d % WLEN = b)

(* What is known of the amounts of a word shift.                           *)
LEMMA WordShiftIs ==
  ASSUME NEW b, NEW d, WordShift(b, d), NEW m \in Amounts(b)
  PROVE  /\ m \in Nat /\ m <= XLEN /\ d % WLEN \in Nat /\ d % WLEN <= XLEN
         /\ Pow2[m] \in Nat \ {0} /\ Pow2[d % WLEN] \in Nat \ {0}
         /\ b < WLEN => m = b /\ d % WLEN = b
<1>1. m \in Nat /\ m <= XLEN /\ (b < XLEN => m = b)
  BY AmountsType DEF WordShift
<1>2. d % WLEN \in Nat /\ d % WLEN < WLEN
  BY Divide, Widths DEF WordShift
<1> QED
  BY <1>1, <1>2, Pow2Type, Widths DEF WordShift

(* exec_SLLIW and exec_SLLW.                                               *)
LEMMA GoodWordLeft ==
  ASSUME NEW a, NEW c, LowAgree(a, c), NEW b, NEW d, WordShift(b, d), NEW m \in Amounts(b)
  PROVE  LET res == Low(Unsignify(a * Pow2[m])) IN
         Good(res, SignWord(c * Pow2[d % WLEN]), WordLevel(b < WLEN, res))
<1> DEFINE p == Pow2[m]
           q == Pow2[d % WLEN]
           v == Unsignify(a * p)
           x == (b < WLEN)
<1>1. p \in Int /\ q \in Int /\ (x => p = q) /\ x \in BOOLEAN
  BY WordShiftIs
<1>2. a \in Int /\ c \in Int /\ Low(a) = Low(c)
  BY ValuesInt DEF LowAgree
<1> HIDE DEF p, q, x
<1>3. a * p \in Int /\ c * q \in Int
  BY <1>1, <1>2
<1>4. Low(a * p) = Low(c * p)
  BY <1>1, <1>2, LowTimes, Zenon
<1>5. v \in Int /\ Low(v) = Low(a * p)
  BY <1>3, UnsignifyType, ValuesInt, LowUnsignify
<1> HIDE DEF v
<1>6. x => Low(v) = Low(c * q)
  BY <1>1, <1>4, <1>5
<1>7. Good(Low(v), SignWord(c * q), WordLevel(x, Low(v)))
  BY <1>1, <1>3, <1>5, <1>6, GoodWord, Zenon
<1> QED
  BY <1>7 DEF p, q, v, x

(* exec_SRLIW and exec_SRLW: nothing may come down from the upper half.    *)
LEMMA GoodWordRight ==
  ASSUME NEW a, NEW c, LowAgree(a, c), NEW b, NEW d, WordShift(b, d), NEW m \in Amounts(b)
  PROVE  LET res == Low(a \div Pow2[m]) IN
         Good(res, SignWord(Low(c) \div Pow2[d % WLEN]),
              WordLevel(b < WLEN /\ (b = 0 \/ a = Low(a)), res))
<1> DEFINE p == Pow2[m]
           q == Pow2[d % WLEN]
           v == a \div p
           u == Low(c) \div q
           x == b < WLEN /\ (b = 0 \/ a = Low(a))
<1>0. Pow2[0] = 1
  BY Pow2Rec
<1>1. /\ p \in Nat \ {0} /\ q \in Nat \ {0} /\ x \in BOOLEAN
      /\ x => p = q /\ (p = 1 \/ a = Low(a))
  BY <1>0, WordShiftIs
<1>2. a \in Int /\ c \in Int /\ a \in Nat /\ Low(a) = Low(c) /\ Low(c) \in Int
  BY ValuesInt, LowType DEF LowAgree
<1> HIDE DEF p, q, x
<1>3. v \in Int /\ u \in Int
  BY <1>1, <1>2, Divide
<1>4. x => Low(v) = Low(u)
  <2> SUFFICES ASSUME x PROVE Low(v) = Low(u)
    OBVIOUS
  <2>1. CASE a = Low(a)
    BY <1>1, <1>2, <2>1
  <2>2. CASE p = 1
    <3>1. v = a /\ u = Low(c)
      BY <1>1, <1>2, <2>2, Quotient1
    <3>2. Low(Low(a)) = Low(a)
      BY <1>2, LowType, LowIs
    <3> QED
      BY <1>2, <3>1, <3>2
  <2> QED
    BY <1>1, <2>1, <2>2
<1> HIDE DEF u, v
<1>5. Good(Low(v), SignWord(u), WordLevel(x, Low(v)))
  BY <1>1, <1>3, <1>4, GoodWord, Zenon
<1> QED
  BY <1>5 DEF p, q, v, u, x

(* A negative number shifted to the right stays negative and does not      *)
(* sink.                                                                   *)
LEMMA NegativeQuotient ==
  ASSUME NEW y \in Int, y < 0, NEW k \in Nat \ {0}
  PROVE  y \div k \in Int /\ y <= y \div k /\ y \div k < 0
<1> DEFINE q == y \div k
           r == y % k
<1>1. q \in Int /\ r \in Nat /\ r < k /\ y = k * q + r
  BY Divide, Zenon
<1> HIDE DEF q, r
<1>2. q < 0
  <2> SUFFICES ASSUME q >= 0 PROVE FALSE
    BY <1>1
  <2>1. k * q >= 0 /\ k * q \in Int
    BY <1>1
  <2> QED
    BY <1>1, <2>1
<1>3. y <= q
  <2> SUFFICES ASSUME q <= y - 1 PROVE FALSE
    BY <1>1
  <2>1. k * q <= k * (y - 1) /\ k * q \in Int /\ k * (y - 1) = k * y - k /\ k * y \in Int
    BY <1>1
  <2>2. k * y <= 1 * y
    BY <1>1
  <2> QED
    BY <1>1, <2>1, <2>2
<1> QED
  BY <1>1, <1>2, <1>3 DEF q

(* The low half of a word that has been shifted with its sign is negative  *)
(* when the word is, and all there is of it otherwise.                     *)
LEMMA ArithmeticWord ==
  ASSUME NEW a \in Values, a = SignWord(a), NEW n \in Nat, n <= XLEN,
         Low(Unsignify(Signify(a) \div Pow2[n])) < WordSign
  PROVE  Unsignify(Signify(a) \div Pow2[n]) = Low(Unsignify(Signify(a) \div Pow2[n]))
<1> DEFINE A == Unsignify(Signify(a) \div Pow2[n])
           g == Signify(a) \div Pow2[n]
           w == Low(a)
<1>0. WordSign <= Sign /\ WordSpan <= Span /\ WordSign < WordSpan
  <2>1. WordSpan * WordSign >= 1 * WordSign /\ WordSpan * WordSpan >= WordSpan * 1
    BY Widths
  <2> QED
    BY <2>1, Widths
<1>1. a \in Nat /\ a \in Int /\ Pow2[n] \in Nat \ {0} /\ w \in Nat /\ w < WordSpan
  BY ValuesInt, Pow2Type, LowType
<1>2. CASE w < WordSign
  <2>1. a = w
    BY <1>1, <1>2, SignWordFacts
  <2>2. a < Sign
    BY <1>0, <1>1, <1>2, <2>1, Widths
  <2>3. A = a \div Pow2[n]
    BY <2>2, ArithmeticIs
  <2>4. A \in Nat /\ A <= a
    BY <1>1, <2>3, QuotientType
  <2> HIDE DEF A
  <2>5. A < WordSpan
    BY <1>0, <1>1, <1>2, <2>1, <2>4, Widths
  <2>6. Low(A) = A
    BY <2>4, <2>5, LowIs
  <2> QED
    BY <2>6 DEF A
<1>3. CASE ~(w < WordSign)
  <2>1. a = w + Span - WordSpan
    BY <1>1, <1>3, SignWordFacts, Widths
  <2>2. Signify(a) = w - WordSpan
    <3>1. a >= Sign
      BY <1>0, <1>1, <1>3, <2>1, Widths
    <3>2. Signify(a) = a - Span
      BY <3>1, SignifyIs
    <3> QED
      BY <1>1, <2>1, <3>2, Widths
  <2>3. w - WordSpan \in Int /\ w - WordSpan < 0 /\ -WordSign <= w - WordSpan
    BY <1>1, <1>3, Widths
  <2>4. g \in Int /\ -WordSign <= g /\ g < 0
    BY <1>1, <2>2, <2>3, NegativeQuotient, Widths
  <2> HIDE DEF g, w
  <2> DEFINE z == g + WordSpan
  <2>5. z \in Nat /\ z < WordSpan /\ z >= WordSign /\ g = WordSpan * (-1) + z /\ -1 \in Int
    BY <2>4, Widths
  <2> HIDE DEF z
  <2>6. Low(g) = z
    BY <2>5, LowMultiple, LowIs
  <2>7. Low(A) = z
    BY <2>4, <2>6, LowUnsignify DEF g
  <2> QED
    BY <2>5, <2>7, Widths
<1> QED
  BY <1>2, <1>3

(* Signify and Unsignify are inverse to each other.                        *)
LEMMA Unsign ==
  ASSUME NEW a \in Values
  PROVE  Unsignify(Signify(a)) = a
<1>1. /\ a \in Nat /\ a < Span /\ a \in 0 .. Span - 1
      /\ Signify(a) = IF a < Sign THEN a ELSE a - Span
  BY Defs, Widths
<1>2. CASE a < Sign
  BY <1>1, <1>2, UnsignifyIs
<1>3. CASE ~(a < Sign)
  <2> DEFINE x == a - Span
  <2>1. x = Span * (-1) + a /\ x \in Int /\ -1 \in Int /\ Span \in Nat \ {0}
    BY <1>1, Widths
  <2> HIDE DEF x
  <2>2. x % Span = a
    BY <1>1, <2>1, Cut
  <2> QED
    BY <1>1, <1>3, <2>2, Defs DEF x
<1> QED
  BY <1>2, <1>3

(* exec_SRAIW and exec_SRAW: the upper half must hold the sign.            *)
LEMMA GoodWordArithmetic ==
  ASSUME NEW a, NEW c, LowAgree(a, c), NEW b, NEW d, WordShift(b, d), NEW m \in Amounts(b)
  PROVE  LET res == Low(Unsignify(Signify(a) \div Pow2[m]))
             s == SignWord(c)
             n == d % WLEN IN
         Good(res, Filled(s, n),
              WordLevel(b < WLEN /\ (b = 0 \/ a = SignWord(a)), res))
<1> DEFINE A == Unsignify(Signify(a) \div Pow2[m])
           s == SignWord(c)
           n == d % WLEN
           R == Unsignify(Signify(s) \div Pow2[n])
           x == b < WLEN /\ (b = 0 \/ a = SignWord(a))
           res == Low(A)
<1>0. Pow2[0] = 1
  BY Pow2Rec
<1>1. /\ m \in Nat /\ m <= XLEN /\ n \in Nat /\ n <= XLEN /\ x \in BOOLEAN
      /\ x => m = n /\ (m = 0 \/ a = SignWord(a))
  BY WordShiftIs
<1>2. a \in Values /\ c \in Values /\ a \in Int /\ c \in Int /\ s = SignWord(a) /\ Low(a) = Low(c)
  BY ValuesInt, SignWordLow DEF LowAgree
<1> HIDE DEF n, x, s
<1>3. s \in Values /\ Low(s) = Low(a) /\ (Low(a) < WordSign => s = Low(a)) /\ s \in Nat
  BY <1>2, SignWordFacts, ValuesInt
<1>4. R = Filled(s, n)
  <2> HIDE DEF R
  <2>1. s < Sign => R = s \div Pow2[n]
    BY <1>1, <1>3, ArithmeticIs DEF R
  <2>2. s >= Sign => R = (s \div Pow2[n]) + Span - Pow2[XLEN - n]
    BY <1>1, <1>3, ArithmeticIs DEF R
  <2> QED
    BY <1>3, <2>1, <2>2, Widths DEF Filled
<1>5. A \in Values /\ R \in Values /\ A \in Int
  BY <1>1, <1>2, <1>3, ArithmeticType, ValuesInt
<1>6. ASSUME x PROVE Low(R) = Low(A) /\ (res < WordSign => R = res)
  <2>1. CASE m = 0
    <3>1. Signify(a) \in Int /\ Signify(s) \in Int
      BY <1>2, <1>3, SignifyIs
    <3>2. A = a /\ R = s
      BY <1>0, <1>1, <1>2, <1>3, <1>6, <2>1, <3>1, Quotient1, Unsign
    <3> QED
      BY <1>3, <3>2
  <2>2. CASE a = SignWord(a)
    <3>1. s = a /\ A = R
      BY <1>1, <1>2, <1>6, <2>2
    <3>2. res < WordSign => A = res
      BY <1>1, <1>2, <2>2, ArithmeticWord
    <3> QED
      BY <3>1, <3>2
  <2> QED
    BY <1>1, <1>6, <2>1, <2>2
<1> HIDE DEF A, R
<1>7. Low(A) \in Nat /\ Low(A) \in Values /\ Low(Low(A)) = Low(A)
  BY <1>5, LowType, LowValue
<1>8. /\ WordLevel(x, res) \in Levels
      /\ WordLevel(x, res) # None => x
      /\ WordLevel(x, res) = Exact => res < WordSign
  BY LevelsDiffer DEF WordLevel, Levels
<1>9. Good(res, R, WordLevel(x, res))
  BY <1>5, <1>6, <1>7, <1>8, LevelsDiffer DEF Good
<1> QED
  BY <1>4, <1>9 DEF A, n, s, x

-----------------------------------------------------------------------------
(* The operations of the 64 bit handlers.                                  *)
Ops64 == ImmOps \cup ShiftOps \cup RegOps

Shifts64 == {"SLLI", "SRLI", "SRAI", "SLL", "SRL", "SRA"}

(* What the operands of an instruction must be for its result to follow.   *)
Operands64(op, a, b, c, d, n, l, k) ==
  /\ op \in Ops64 /\ Agree(a, c, l)
  /\ op \in Shifts64 => Shift(b, d, b = n /\ b < XLEN)
  /\ op \notin Shifts64 => Agree(b, d, k)

(* The results of the 64 bit handlers follow the reference as far as       *)
(* Level64 says,                                                           *)
LEMMA Good64 ==
  ASSUME NEW op, NEW a, NEW b, NEW c, NEW d, NEW n, NEW l, NEW k,
         Operands64(op, a, b, c, d, n, l, k), NEW res \in Result64(op, a, b)
  PROVE  Good(res, Reference(op, c, d), Level64(op, a, b, n, l, k))
<1> DEFINE x == b = n /\ b < XLEN
           level64 == Level64(op, a, b, n, l, k)
<1>0. Agree(a, c, l)
  BY DEF Operands64
<1>1. CASE op \in {"ADDI", "ADD"}
  <2>1. Result64(op, a, b) = {Unsignify(a + b)}
    BY <1>1 DEF Result64, Sum
  <2>2. Reference(op, c, d) = (c + d) % Span
    BY <1>1 DEF Reference, Span, Sign
  <2>3. level64 = Weaker(l, k)
    BY <1>1 DEF Level64
  <2>4. Agree(b, d, k)
    BY <1>1 DEF Operands64, Shifts64
  <2> HIDE DEF level64
  <2>5. Good(Unsignify(a + b), (c + d) % Span, Weaker(l, k))
    BY <1>0, <2>4, GoodSum, Zenon
  <2> QED
    BY <2>1, <2>2, <2>3, <2>5 DEF level64
<1>2. CASE op \in {"SUB"}
  <2>1. Result64(op, a, b) = {Unsignify(a - b)}
    BY <1>2 DEF Result64
  <2>2. Reference(op, c, d) = (c - d) % Span
    BY <1>2 DEF Reference, Span, Sign
  <2>3. level64 = Weaker(l, k)
    BY <1>2 DEF Level64
  <2>4. Agree(b, d, k)
    BY <1>2 DEF Operands64, Shifts64
  <2> HIDE DEF level64
  <2>5. Good(Unsignify(a - b), (c - d) % Span, Weaker(l, k))
    BY <1>0, <2>4, GoodSum, Zenon
  <2> QED
    BY <2>1, <2>2, <2>3, <2>5 DEF level64
<1>3. CASE op \in {"SLTI", "SLT"}
  <2>1. Result64(op, a, b) = {Less(a, b)}
    BY <1>3 DEF Result64
  <2>2. Reference(op, c, d) = Flag((c + Sign) % Span < (d + Sign) % Span)
    BY <1>3 DEF Reference, Span, Sign
  <2>3. level64 = IF Weaker(l, k) = Exact THEN Exact ELSE None
    BY <1>3 DEF Level64
  <2>4. Agree(b, d, k)
    BY <1>3 DEF Operands64, Shifts64
  <2> HIDE DEF level64
  <2>5. Good(Less(a, b), Flag((c + Sign) % Span < (d + Sign) % Span),
             IF Weaker(l, k) = Exact THEN Exact ELSE None)
    BY <1>0, <2>4, GoodCompare, Zenon
  <2> QED
    BY <2>1, <2>2, <2>3, <2>5 DEF level64
<1>4. CASE op \in {"SLTIU", "SLTU"}
  <2>1. Result64(op, a, b) = {Flag(a < b)}
    BY <1>4 DEF Result64
  <2>2. Reference(op, c, d) = Flag(c < d)
    BY <1>4 DEF Reference, Span, Sign
  <2>3. level64 = IF Weaker(l, k) = Exact THEN Exact ELSE None
    BY <1>4 DEF Level64
  <2>4. Agree(b, d, k)
    BY <1>4 DEF Operands64, Shifts64
  <2> HIDE DEF level64
  <2>5. Good(Flag(a < b), Flag(c < d), IF Weaker(l, k) = Exact THEN Exact ELSE None)
    BY <1>0, <2>4, GoodCompare, Zenon
  <2> QED
    BY <2>1, <2>2, <2>3, <2>5 DEF level64
<1>5. CASE op \in {"ORI", "OR"}
  <2>1. Result64(op, a, b) = {Or(a, b)}
    BY <1>5 DEF Result64
  <2>2. Reference(op, c, d) = Or(c, d)
    BY <1>5 DEF Reference, Span, Sign
  <2>3. level64 = Weaker(l, k)
    BY <1>5 DEF Level64
  <2>4. Agree(b, d, k)
    BY <1>5 DEF Operands64, Shifts64
  <2> HIDE DEF level64
  <2>5. Good(Or(a, b), Or(c, d), Weaker(l, k))
    BY <1>0, <2>4, GoodLogic, Zenon
  <2> QED
    BY <2>1, <2>2, <2>3, <2>5 DEF level64
<1>6. CASE op \in {"ANDI", "AND"}
  <2>1. Result64(op, a, b) = {And(a, b)}
    BY <1>6 DEF Result64
  <2>2. Reference(op, c, d) = And(c, d)
    BY <1>6 DEF Reference, Span, Sign
  <2>3. level64 = Weaker(l, k)
    BY <1>6 DEF Level64
  <2>4. Agree(b, d, k)
    BY <1>6 DEF Operands64, Shifts64
  <2> HIDE DEF level64
  <2>5. Good(And(a, b), And(c, d), Weaker(l, k))
    BY <1>0, <2>4, GoodLogic, Zenon
  <2> QED
    BY <2>1, <2>2, <2>3, <2>5 DEF level64
<1>7. CASE op \in {"XORI", "XOR"}
  <2>1. Result64(op, a, b) = {Xor(a, b)}
    BY <1>7 DEF Result64
  <2>2. Reference(op, c, d) = Or(c, d) - And(c, d)
    BY <1>7 DEF Reference, Span, Sign
  <2>3. level64 = Weaker(l, k)
    BY <1>7 DEF Level64
  <2>4. Agree(b, d, k)
    BY <1>7 DEF Operands64, Shifts64
  <2> HIDE DEF level64
  <2>5. Good(Xor(a, b), Or(c, d) - And(c, d), Weaker(l, k))
    BY <1>0, <2>4, GoodLogic, Zenon
  <2> QED
    BY <2>1, <2>2, <2>3, <2>5 DEF level64
<1>8. CASE op \in {"SLLI", "SLL"}
  <2>1. Result64(op, a, b) = Left(a, b)
    BY <1>8 DEF Result64
  <2>2. Reference(op, c, d) = (c * Pow2[d % XLEN]) % Span
    BY <1>8 DEF Reference, Span, Sign
  <2>3. level64 = IF x THEN l ELSE None
    BY <1>8 DEF Level64
  <2>4. Shift(b, d, x)
    BY <1>8 DEF Operands64, Shifts64
  <2>5. PICK m \in Amounts(b) : res = Unsignify(a * Pow2[m])
    BY <2>1 DEF Left
  <2> HIDE DEF x, level64
  <2>6. Good(res, (c * Pow2[d % XLEN]) % Span, IF x THEN l ELSE None)
    BY <1>0, <2>4, <2>5, GoodLeft
  <2> QED
    BY <2>2, <2>3, <2>6 DEF level64
<1>9. CASE op \in {"SRLI", "SRL"}
  <2>1. Result64(op, a, b) = Right(a, b)
    BY <1>9 DEF Result64
  <2>2. Reference(op, c, d) = c \div Pow2[d % XLEN]
    BY <1>9 DEF Reference, Span, Sign
  <2>3. level64 = IF x /\ l = Exact THEN Exact ELSE None
    BY <1>9 DEF Level64
  <2>4. Shift(b, d, x)
    BY <1>9 DEF Operands64, Shifts64
  <2>5. PICK m \in Amounts(b) : res = a \div Pow2[m]
    BY <2>1 DEF Right
  <2> HIDE DEF x, level64
  <2>6. Good(res, c \div Pow2[d % XLEN], IF x /\ l = Exact THEN Exact ELSE None)
    BY <1>0, <2>4, <2>5, GoodRight, Zenon
  <2> QED
    BY <2>2, <2>3, <2>6 DEF level64
<1>10. CASE op \in {"SRAI", "SRA"}
  <2>1. Result64(op, a, b) = Arithmetic(a, b)
    BY <1>10 DEF Result64
  <2>2. Reference(op, c, d) = Filled(c, d % XLEN)
    BY <1>10 DEF Reference, Span, Sign, Filled
  <2>3. level64 = IF x /\ l = Exact THEN Exact ELSE None
    BY <1>10 DEF Level64
  <2>4. Shift(b, d, x)
    BY <1>10 DEF Operands64, Shifts64
  <2>5. PICK m \in Amounts(b) : res = Unsignify(Signify(a) \div Pow2[m])
    BY <2>1 DEF Arithmetic
  <2> HIDE DEF x, level64
  <2>6. Good(res, Filled(c, d % XLEN), IF x /\ l = Exact THEN Exact ELSE None)
    BY <1>0, <2>4, <2>5, GoodRight, Zenon
  <2> QED
    BY <2>2, <2>3, <2>6 DEF level64
<1> QED
  BY <1>1, <1>2, <1>3, <1>4, <1>5, <1>6, <1>7, <1>8, <1>9, <1>10
  DEF Operands64, Ops64, ImmOps, ShiftOps, RegOps

(* The operations of the 32 bit handlers.                                  *)
Ops32 == WordImmOps \cup WordOps

Sums32 == {"ADDIW", "ADDW", "SUBW"}

(* What the operands of a word instruction must be.                        *)
Operands32(op, a, b, c, d) ==
  /\ op \in Ops32 /\ LowAgree(a, c)
  /\ op \in Sums32 => LowAgree(b, d)
  /\ op \notin Sums32 => WordShift(b, d)

(* and those of the 32 bit handlers as far as Level32 says.                *)
LEMMA Good32 ==
  ASSUME NEW op, NEW a, NEW b, NEW c, NEW d, Operands32(op, a, b, c, d),
         NEW res \in Result32(op, a, b)
  PROVE  Good(res, Reference(op, c, d), Level32(op, a, b, res))
<1> DEFINE level32 == Level32(op, a, b, res)
<1>0. LowAgree(a, c)
  BY DEF Operands32
<1>1. CASE op \in {"ADDIW", "ADDW"}
  <2>1. Result32(op, a, b) = {Low(v) : v \in {Sum(a, b)}}
    BY <1>1 DEF Result32
  <2>2. Reference(op, c, d) = SignWord(c + d)
    BY <1>1 DEF Reference, Span, Sign
  <2>3. level32 = WordLevel(TRUE, res)
    BY <1>1 DEF Level32, WordLevel, WordSign
  <2>4. LowAgree(b, d)
    BY <1>1 DEF Operands32, Sums32
  <2>5. res = Low(Unsignify(a + b))
    BY <2>1 DEF Sum
  <2> HIDE DEF level32
  <2>6. Good(res, SignWord(c + d), WordLevel(TRUE, res))
    BY <1>0, <2>4, <2>5, GoodWordSum, Zenon
  <2> QED
    BY <2>2, <2>3, <2>6 DEF level32
<1>2. CASE op \in {"SUBW"}
  <2>1. Result32(op, a, b) = {Low(v) : v \in {Unsignify(a - b)}}
    BY <1>2 DEF Result32
  <2>2. Reference(op, c, d) = SignWord(c - d)
    BY <1>2 DEF Reference, Span, Sign
  <2>3. level32 = WordLevel(TRUE, res)
    BY <1>2 DEF Level32, WordLevel, WordSign
  <2>4. LowAgree(b, d)
    BY <1>2 DEF Operands32, Sums32
  <2>5. res = Low(Unsignify(a - b))
    BY <2>1
  <2> HIDE DEF level32
  <2>6. Good(res, SignWord(c - d), WordLevel(TRUE, res))
    BY <1>0, <2>4, <2>5, GoodWordSum, Zenon
  <2> QED
    BY <2>2, <2>3, <2>6 DEF level32
<1>3. CASE op \in {"SLLIW", "SLLW"}
  <2>1. Result32(op, a, b) = {Low(v) : v \in Left(a, b)}
    BY <1>3 DEF Result32
  <2>2. Reference(op, c, d) = SignWord(c * Pow2[d % WLEN])
    BY <1>3 DEF Reference, Span, Sign
  <2>3. level32 = WordLevel(b < WLEN, res)
    BY <1>3 DEF Level32, WordLevel, WordSign
  <2>4. WordShift(b, d)
    BY <1>3 DEF Operands32, Sums32
  <2>5. PICK m \in Amounts(b) : res = Low(Unsignify(a * Pow2[m]))
    BY <2>1 DEF Left
  <2> HIDE DEF level32
  <2>6. Good(res, SignWord(c * Pow2[d % WLEN]), WordLevel(b < WLEN, res))
    BY <1>0, <2>4, <2>5, GoodWordLeft, Zenon
  <2> QED
    BY <2>2, <2>3, <2>6 DEF level32
<1>4. CASE op \in {"SRLIW", "SRLW"}
  <2>1. Result32(op, a, b) = {Low(v) : v \in Right(a, b)}
    BY <1>4 DEF Result32
  <2>2. Reference(op, c, d) = SignWord(Low(c) \div Pow2[d % WLEN])
    BY <1>4 DEF Reference, Span, Sign
  <2>3. level32 = WordLevel(b < WLEN /\ (b = 0 \/ a = Low(a)), res)
    BY <1>4 DEF Level32, WordLevel, WordSign
  <2>4. WordShift(b, d)
    BY <1>4 DEF Operands32, Sums32
  <2>5. PICK m \in Amounts(b) : res = Low(a \div Pow2[m])
    BY <2>1 DEF Right
  <2> HIDE DEF level32
  <2>6. Good(res, SignWord(Low(c) \div Pow2[d % WLEN]),
             WordLevel(b < WLEN /\ (b = 0 \/ a = Low(a)), res))
    BY <1>0, <2>4, <2>5, GoodWordRight, Zenon
  <2> QED
    BY <2>2, <2>3, <2>6 DEF level32
<1>5. CASE op \in {"SRAIW", "SRAW"}
  <2>1. Result32(op, a, b) = {Low(v) : v \in Arithmetic(a, b)}
    BY <1>5 DEF Result32
  <2>2. Reference(op, c, d) = Filled(SignWord(c), d % WLEN)
    BY <1>5 DEF Reference, Span, Sign, Filled
  <2>3. level32 = WordLevel(b < WLEN /\ (b = 0 \/ a = SignWord(a)), res)
    BY <1>5 DEF Level32, WordLevel, WordSign
  <2>4. WordShift(b, d)
    BY <1>5 DEF Operands32, Sums32
  <2>5. PICK m \in Amounts(b) : res = Low(Unsignify(Signify(a) \div Pow2[m]))
    BY <2>1 DEF Arithmetic
  <2> HIDE DEF level32
  <2>6. Good(res, Filled(SignWord(c), d % WLEN),
             WordLevel(b < WLEN /\ (b = 0 \/ a = SignWord(a)), res))
    BY <1>0, <2>4, <2>5, GoodWordArithmetic, Zenon
  <2> QED
    BY <2>2, <2>3, <2>6 DEF level32
<1> QED
  BY <1>1, <1>2, <1>3, <1>4, <1>5 DEF Operands32, Ops32, WordImmOps, WordOps

-----------------------------------------------------------------------------
(* The inductive invariant.                                                *)
RegInv == RegTypeOK /\ FollowsISA /\ level[0] = Exact

(* Registers are read in agreement with the reference.                     *)
LEMMA ReadAgrees ==
  ASSUME RegInv, NEW r \in Regs
  PROVE  Agree(GPRF_read(r), isa[r], level[r]) /\ LowAgree(GPRF_read(r), isa[r])
<1>1. registers[r] \in Values /\ isa[r] \in Values /\ level[r] \in {Half, Exact}
  BY DEF RegInv, RegTypeOK
<1>2. 0 \in Values
  BY Widths, Defs
<1>3. GPRF_read(r) \in Values
  BY <1>1, <1>2 DEF GPRF_read
<1>4. /\ level[r] = Exact => GPRF_read(r) = isa[r]
      /\ level[r] = Half => Low(GPRF_read(r)) = Low(isa[r])
  BY DEF RegInv, FollowsISA
<1>5. Low(GPRF_read(r)) = Low(isa[r])
  BY <1>1, <1>4
<1> QED
  BY <1>1, <1>3, <1>4, <1>5 DEF Agree, LowAgree

(* Writing a result that follows the reference, to X0 too, keeps the       *)
(* invariant.                                                              *)
LEMMA WriteKeeps ==
  ASSUME RegInv, NEW rd \in Regs, NEW res, NEW ref, NEW l, Good(res, ref, l),
         GPRF_write(rd, res), Follow(rd, res, ref, l)
  PROVE  RegInv'
<1>1. /\ registers \in [Regs -> Values] /\ isa \in [Regs -> Values]
      /\ level \in [Regs -> {Half, Exact}]
      /\ 0 \in Regs /\ level[0] = Exact
  BY RegisterConstants DEF RegInv, RegTypeOK
<1>2. /\ res \in Values /\ ref \in Values /\ l \in Levels
      /\ l = Exact => res = ref
      /\ l = Half => Low(res) = Low(ref)
  BY DEF Good
<1>3. registers' = [registers EXCEPT ![rd] = res]
  BY DEF GPRF_write
<1>4. registers' \in [Regs -> Values]
  BY <1>1, <1>2, <1>3
<1>5. CASE rd = 0
  <2>1. isa' = isa /\ level' = level
    BY <1>5 DEF Follow
  <2>2. \A r \in Regs : GPRF_read(r)' = GPRF_read(r)
    BY <1>1, <1>3, <1>5 DEF GPRF_read
  <2>3. RegTypeOK'
    BY <1>1, <1>4, <2>1 DEF RegTypeOK
  <2>4. FollowsISA'
    BY <2>1, <2>2 DEF RegInv, FollowsISA, Low
  <2> QED
    BY <1>1, <2>1, <2>3, <2>4 DEF RegInv
<1>6. CASE rd # 0
  <2> DEFINE v == IF l = None THEN res ELSE ref
             e == IF l = None THEN Exact ELSE l
  <2>1. isa' = [isa EXCEPT ![rd] = v] /\ level' = [level EXCEPT ![rd] = e]
    BY <1>6 DEF Follow
  <2>2. /\ v \in Values /\ e \in {Half, Exact}
        /\ e = Exact => res = v
        /\ e = Half => Low(res) = Low(v)
    BY <1>2, LevelsDiffer DEF Levels
  <2> HIDE DEF v, e
  <2>3. RegTypeOK'
    BY <1>1, <1>4, <2>1, <2>2 DEF RegTypeOK
  <2>4. level'[0] = Exact
    BY <1>1, <1>6, <2>1
  <2>5. GPRF_read(rd)' = res /\ isa'[rd] = v /\ level'[rd] = e
    BY <1>1, <1>3, <1>6, <2>1 DEF GPRF_read
  <2>6. \A r \in Regs \ {rd} : /\ GPRF_read(r)' = GPRF_read(r)
                               /\ isa'[r] = isa[r] /\ level'[r] = level[r]
    BY <1>1, <1>3, <2>1 DEF GPRF_read
  <2>7. FollowsISA'
    <3> SUFFICES ASSUME NEW r \in Regs
                 PROVE  /\ level'[r] = Exact => GPRF_read(r)' = isa'[r]
                        /\ level'[r] = Half => Low(GPRF_read(r)') = Low(isa'[r])
      BY DEF FollowsISA, Low
    <3>1. CASE r = rd
      BY <2>2, <2>5, <3>1
    <3>2. CASE r # rd
      BY <2>6, <3>2 DEF RegInv, FollowsISA
    <3> QED
      BY <3>1, <3>2
  <2> QED
    BY <2>3, <2>4, <2>7 DEF RegInv
<1> QED
  BY <1>5, <1>6

(* The fields of an instruction.                                           *)
LEMMA InstrType ==
  ASSUME NEW i \in Instrs
  PROVE  /\ i.rd \in Regs /\ i.rs1 \in Regs /\ i.rs2 \in Regs /\ i.imm \in Int
         /\ i.op \in ShiftOps => i.imm \in Nat /\ i.imm < XLEN
         /\ i.op \in WordImmOps \ {"ADDIW"} => i.imm \in Nat /\ i.imm < WLEN
BY RegisterConstants, Widths

(* The operands of exec_IMM agree.                                         *)
LEMMA ImmOperands ==
  ASSUME RegInv, NEW i \in Instrs, i.op \in ImmOps
  PROVE  Operands64(i.op, GPRF_read(i.rs1), Unsignify(i.imm), isa[i.rs1], Unsignify(i.imm),
                    Unsignify(i.imm), level[i.rs1], Exact)
<1>1. Unsignify(i.imm) \in Values
  BY InstrType, UnsignifyType
<1>2. Agree(Unsignify(i.imm), Unsignify(i.imm), Exact)
  BY <1>1 DEF Agree
<1>3. Agree(GPRF_read(i.rs1), isa[i.rs1], level[i.rs1])
  BY InstrType, ReadAgrees
<1>4. i.op \in Ops64 /\ i.op \notin Shifts64
  BY DEF Ops64, Shifts64, ImmOps
<1> QED
  BY <1>2, <1>3, <1>4 DEF Operands64

(* The remainder of a number below the divisor.                            *)
LEMMA SmallRemainder ==
  ASSUME NEW v \in Nat, NEW k \in Nat \ {0}, v < k
  PROVE  v % k = v
OBVIOUS

(* Those of exec_SHIFT agree, where five bits are enough for the amount,   *)
LEMMA ShiftOperands ==
  ASSUME RegInv, NEW i \in Instrs, i.op \in ShiftOps
  PROVE  Operands64(i.op, GPRF_read(i.rs1), i.imm % WLEN, isa[i.rs1], i.imm,
                    i.imm, level[i.rs1], Exact)
<1> DEFINE b == i.imm % WLEN
           d == i.imm
<1>1. d \in Nat /\ d < XLEN
  BY InstrType
<1> HIDE DEF d
<1>2. d % XLEN = d /\ d % WLEN \in Nat
  BY <1>1, Widths, SmallRemainder, Divide
<1>3. b \in Nat
  BY <1>2 DEF d
<1> HIDE DEF b
<1>4. Shift(b, d, b = d /\ b < XLEN)
  BY <1>1, <1>2, <1>3 DEF Shift
<1>5. Agree(GPRF_read(i.rs1), isa[i.rs1], level[i.rs1])
  BY InstrType, ReadAgrees
<1>6. i.op \in Ops64 /\ i.op \in Shifts64
  BY DEF Ops64, Shifts64, ShiftOps
<1>7. Operands64(i.op, GPRF_read(i.rs1), b, isa[i.rs1], d, d, level[i.rs1], Exact)
  BY <1>4, <1>5, <1>6 DEF Operands64
<1> QED
  BY <1>7 DEF b, d

(* those of exec_REG as far as the levels of the registers say,            *)
LEMMA RegOperands ==
  ASSUME RegInv, NEW i \in Instrs, i.op \in RegOps
  PROVE  Operands64(i.op, GPRF_read(i.rs1), GPRF_read(i.rs2), isa[i.rs1], isa[i.rs2],
                    GPRF_read(i.rs2), level[i.rs1], level[i.rs2])
<1> DEFINE b == GPRF_read(i.rs2)
           d == isa[i.rs2]
<1>1. /\ Agree(GPRF_read(i.rs1), isa[i.rs1], level[i.rs1])
      /\ Agree(b, d, level[i.rs2])
  BY InstrType, ReadAgrees
<1> HIDE DEF b, d
<1>2. b \in Values /\ d \in Values /\ Low(b) = Low(d)
  BY <1>1 DEF Agree
<1>3. b < XLEN => d % XLEN = b
  BY <1>2, ShiftAmount
<1>4. Shift(b, d, b = b /\ b < XLEN)
  BY <1>2, <1>3, ValuesInt DEF Shift
<1>5. i.op \in Ops64
  BY DEF Ops64
<1>6. Operands64(i.op, GPRF_read(i.rs1), b, isa[i.rs1], d, b, level[i.rs1], level[i.rs2])
  BY <1>1, <1>4, <1>5 DEF Operands64
<1> QED
  BY <1>6 DEF b, d

(* those of exec_WORDIMM in their low halves, where the immediate is the   *)
(* amount,                                                                 *)
LEMMA WordImmOperands ==
  ASSUME RegInv, NEW i \in Instrs, i.op \in WordImmOps
  PROVE  Operands32(i.op, GPRF_read(i.rs1),
                    IF i.op = "SRAIW" THEN i.imm + XLEN ELSE Unsignify(i.imm),
                    isa[i.rs1], Unsignify(i.imm))
<1> DEFINE d == Unsignify(i.imm)
           b == IF i.op = "SRAIW" THEN i.imm + XLEN ELSE d
<1>1. d \in Values /\ d \in Nat
  BY InstrType, UnsignifyType, ValuesInt
<1>2. LowAgree(GPRF_read(i.rs1), isa[i.rs1])
  BY InstrType, ReadAgrees
<1>3. i.op \in Ops32 /\ (i.op \in Sums32 => i.op = "ADDIW")
  BY DEF Ops32, Sums32, WordImmOps
<1>4. i.op \in Sums32 => LowAgree(b, d)
  BY <1>1, <1>3 DEF LowAgree
<1>5. i.op \notin Sums32 => WordShift(b, d)
  <2>1. CASE i.op = "SRAIW"
    <3>1. i.imm \in Nat /\ b = i.imm + XLEN
      BY <2>1, InstrType
    <3>2. b \in Nat /\ ~(b < WLEN)
      BY <3>1, Widths
    <3> QED
      BY <1>1, <3>2 DEF WordShift
  <2>2. CASE i.op # "SRAIW"
    <3>1. b = d
      BY <2>2
    <3> HIDE DEF b, d
    <3> QED
      BY <1>1, <3>1, SmallRemainder, Widths DEF WordShift
  <2> QED
    BY <2>1, <2>2
<1> HIDE DEF b, d
<1>6. Operands32(i.op, GPRF_read(i.rs1), b, isa[i.rs1], d)
  BY <1>2, <1>3, <1>4, <1>5 DEF Operands32
<1> QED
  BY <1>6 DEF b, d

(* and those of exec_WORD in their low halves.                             *)
LEMMA WordOperands ==
  ASSUME RegInv, NEW i \in Instrs, i.op \in WordOps
  PROVE  Operands32(i.op, GPRF_read(i.rs1), GPRF_read(i.rs2), isa[i.rs1], isa[i.rs2])
<1> DEFINE b == GPRF_read(i.rs2)
           d == isa[i.rs2]
<1>1. LowAgree(GPRF_read(i.rs1), isa[i.rs1]) /\ LowAgree(b, d)
  BY InstrType, ReadAgrees
<1> HIDE DEF b, d
<1>2. b \in Values /\ d \in Values /\ Low(b) = Low(d)
  BY <1>1 DEF LowAgree
<1>3. b < WLEN => d % WLEN = b
  BY <1>2, ShiftAmount
<1>4. WordShift(b, d)
  BY <1>2, <1>3, ValuesInt DEF WordShift
<1>5. i.op \in Ops32
  BY DEF Ops32
<1>6. Operands32(i.op, GPRF_read(i.rs1), b, isa[i.rs1], d)
  BY <1>1, <1>4, <1>5 DEF Operands32
<1> QED
  BY <1>6 DEF b, d

(* Registers with any contents start in agreement with the reference.      *)
LEMMA RegInvInit == RegInit => RegInv
<1> SUFFICES ASSUME RegInit PROVE RegInv
  OBVIOUS
<1>1. 0 \in Regs /\ InitVals \subseteq Values
  BY RegisterConstants
<1>2. 0 \in Values
  BY Widths, Defs
<1>3. registers \in [Regs -> Values]
  BY <1>1 DEF RegInit
<1>4. isa \in [Regs -> Values]
  BY <1>2, <1>3 DEF RegInit
<1>5. level \in [Regs -> {Half, Exact}] /\ level[0] = Exact
  BY <1>1 DEF RegInit
<1>6. FollowsISA
  BY LevelsDiffer DEF RegInit, FollowsISA, GPRF_read
<1> QED
  BY <1>3, <1>4, <1>5, <1>6 DEF RegInv, RegTypeOK

(* Every handler keeps the agreement.                                      *)
LEMMA RegInvStep == RegInv /\ [RegNext]_regVars => RegInv'
<1> SUFFICES ASSUME RegInv, [RegNext]_regVars PROVE RegInv'
  OBVIOUS
<1>1. ASSUME NEW i \in Instrs, exec_IMM(i) PROVE RegInv'
  <2> DEFINE a == GPRF_read(i.rs1)
             b == Unsignify(i.imm)
             ref == Reference(i.op, isa[i.rs1], b)
             l == Level64(i.op, a, b, b, level[i.rs1], Exact)
  <2>1. PICK res \in Result64(i.op, a, b) :
               GPRF_write(i.rd, res) /\ Follow(i.rd, res, ref, l)
    BY <1>1 DEF exec_IMM
  <2>2. Operands64(i.op, a, b, isa[i.rs1], b, b, level[i.rs1], Exact)
    BY <1>1, ImmOperands DEF exec_IMM
  <2> HIDE DEF a, b
  <2>3. Good(res, ref, l)
    BY <2>2, Good64, Zenon
  <2> HIDE DEF ref, l
  <2> QED
    BY <2>1, <2>3, InstrType, WriteKeeps
<1>2. ASSUME NEW i \in Instrs, exec_SHIFT(i) PROVE RegInv'
  <2> DEFINE a == GPRF_read(i.rs1)
             b == i.imm % WLEN
             ref == Reference(i.op, isa[i.rs1], i.imm)
             l == Level64(i.op, a, b, i.imm, level[i.rs1], Exact)
  <2>1. PICK res \in Result64(i.op, a, b) :
               GPRF_write(i.rd, res) /\ Follow(i.rd, res, ref, l)
    BY <1>2 DEF exec_SHIFT, ImmAmount
  <2>2. Operands64(i.op, a, b, isa[i.rs1], i.imm, i.imm, level[i.rs1], Exact)
    BY <1>2, ShiftOperands DEF exec_SHIFT, ImmAmount
  <2> HIDE DEF a, b
  <2>3. Good(res, ref, l)
    BY <2>2, Good64, Zenon
  <2> HIDE DEF ref, l
  <2> QED
    BY <2>1, <2>3, InstrType, WriteKeeps
<1>3. ASSUME NEW i \in Instrs, exec_REG(i) PROVE RegInv'
  <2> DEFINE a == GPRF_read(i.rs1)
             b == GPRF_read(i.rs2)
             ref == Reference(i.op, isa[i.rs1], isa[i.rs2])
             l == Level64(i.op, a, b, b, level[i.rs1], level[i.rs2])
  <2>1. PICK res \in Result64(i.op, a, b) :
               GPRF_write(i.rd, res) /\ Follow(i.rd, res, ref, l)
    BY <1>3 DEF exec_REG
  <2>2. Operands64(i.op, a, b, isa[i.rs1], isa[i.rs2], b, level[i.rs1], level[i.rs2])
    BY <1>3, RegOperands DEF exec_REG
  <2> HIDE DEF a, b
  <2>3. Good(res, ref, l)
    BY <2>2, Good64, Zenon
  <2> HIDE DEF ref, l
  <2> QED
    BY <2>1, <2>3, InstrType, WriteKeeps
<1>4. ASSUME NEW i \in Instrs, exec_WORDIMM(i) PROVE RegInv'
  <2> DEFINE a == GPRF_read(i.rs1)
             b == IF i.op = "SRAIW" THEN i.imm + XLEN ELSE Unsignify(i.imm)
             ref == Reference(i.op, isa[i.rs1], Unsignify(i.imm))
             l(res) == Level32(i.op, a, b, res)
  <2>1. PICK res \in Result32(i.op, a, b) :
               GPRF_write(i.rd, res) /\ Follow(i.rd, res, ref, l(res))
    BY <1>4 DEF exec_WORDIMM, WordImmediate
  <2>2. Operands32(i.op, a, b, isa[i.rs1], Unsignify(i.imm))
    BY <1>4, WordImmOperands DEF exec_WORDIMM, WordImmediate
  <2> HIDE DEF a, b
  <2>3. Good(res, ref, l(res))
    BY <2>2, Good32, Zenon
  <2> HIDE DEF ref, l
  <2> QED
    BY <2>1, <2>3, InstrType, WriteKeeps
<1>5. ASSUME NEW i \in Instrs, exec_WORD(i) PROVE RegInv'
  <2> DEFINE a == GPRF_read(i.rs1)
             b == GPRF_read(i.rs2)
             ref == Reference(i.op, isa[i.rs1], isa[i.rs2])
             l(res) == Level32(i.op, a, b, res)
  <2>1. PICK res \in Result32(i.op, a, b) :
               GPRF_write(i.rd, res) /\ Follow(i.rd, res, ref, l(res))
    BY <1>5 DEF exec_WORD
  <2>2. Operands32(i.op, a, b, isa[i.rs1], isa[i.rs2])
    BY <1>5, WordOperands DEF exec_WORD
  <2> HIDE DEF a, b
  <2>3. Good(res, ref, l(res))
    BY <2>2, Good32, Zenon
  <2> HIDE DEF ref, l
  <2> QED
    BY <2>1, <2>3, InstrType, WriteKeeps
<1>6. CASE UNCHANGED regVars
  BY <1>6 DEF regVars, RegInv, RegTypeOK, FollowsISA, GPRF_read, Low
<1> QED
  BY <1>1, <1>2, <1>3, <1>4, <1>5, <1>6 DEF RegNext

(* The invariant that carries FollowsISA from one instruction to the next. *)
THEOREM RegInvariant == RegSpec => []RegInv
BY RegInvInit, RegInvStep, PTL DEF RegSpec

(* Results of the handlers fit the registers they are written to.          *)
THEOREM RegTyping == RegSpec => []RegTypeOK
<1>1. RegInv => RegTypeOK
  BY DEF RegInv
<1> QED
  BY <1>1, RegInvariant, PTL

(* Along any program of arithmetic instructions, for registers of every    *)
(* width allowed, the handlers of hart.cpp compute what the ISA asks for   *)
(* in all the bits that the history of a register promises, and X0 reads   *)
(* as zero.                                                                *)
THEOREM RegFollowsISA == RegSpec => []FollowsISA
<1>1. RegInv => FollowsISA
  BY DEF RegInv
<1> QED
  BY <1>1, RegInvariant, PTL

-----------------------------------------------------------------------------
(* The reference takes a shift amount modulo the width.                    *)
LEMMA SameShift ==
  ASSUME NEW op \in Shifts64, NEW a, NEW b, NEW d, b % XLEN = d % XLEN
  PROVE  Reference(op, a, b) = Reference(op, a, d)
BY DEF Reference, Shifts64

(* A shift by XLEN bits leaves zeros, or the sign.                         *)
LEMMA AllShiftedOut ==
  ASSUME NEW a \in Values
  PROVE  /\ Unsignify(a * Pow2[XLEN]) = 0
         /\ a \div Pow2[XLEN] = 0
         /\ a < Sign => Unsignify(Signify(a) \div Pow2[XLEN]) = 0
         /\ a >= Sign => Unsignify(Signify(a) \div Pow2[XLEN]) = Span - 1
<1>1. a \in Nat /\ a \in Int /\ a < Span /\ Span \in Nat \ {0} /\ XLEN \in Nat
  BY Widths, Defs
<1>2. a \div Span = 0
  <2>1. a < Span * 1 /\ 1 \in Nat
    BY <1>1
  <2>2. a \div Span \in Nat
    BY <1>1, QuotientType
  <2>3. a \div Span < 1
    BY <1>1, <2>1, QuotientBelow
  <2> QED
    BY <2>2, <2>3
<1>3. Unsignify(a * Span) = 0
  <2> DEFINE x == a * Span
  <2>1. x = Span * a + 0 /\ x \in Int /\ 0 \in 0 .. Span - 1
    BY <1>1
  <2> HIDE DEF x
  <2>2. x % Span = 0
    BY <1>1, <2>1, Cut, Zenon
  <2> QED
    BY <2>2, Defs DEF x
<1>4. Pow2[XLEN] = Span /\ XLEN - XLEN = 0 /\ Pow2[0] = 1
  BY <1>1, Pow2Rec DEF Span
<1>5. /\ a < Sign => Unsignify(Signify(a) \div Pow2[XLEN]) = a \div Pow2[XLEN]
      /\ a >= Sign => Unsignify(Signify(a) \div Pow2[XLEN])
                      = (a \div Pow2[XLEN]) + Span - Pow2[XLEN - XLEN]
  BY <1>1, ArithmeticIs
<1>6. 0 + Span - 1 = Span - 1
  BY <1>1
<1> QED
  BY <1>2, <1>3, <1>4, <1>5, <1>6

(* What a 64 bit handler gives for its operands, whatever they are.        *)
LEMMA OneInstruction ==
  ASSUME NEW op \in Ops64, NEW a \in Values, NEW b \in Nat,
         op \notin Shifts64 => b \in Values,
         NEW res \in Result64(op, a, b)
  PROVE  \/ res = Reference(op, a, b)
         \/ op \in Shifts64 /\ b >= XLEN /\ res = ShiftedOut(op, a)
<1>0. Agree(a, a, Exact)
  BY DEF Agree
<1>1. CASE op \notin Shifts64
  <2>1. Agree(b, b, Exact)
    BY <1>1 DEF Agree
  <2>2. Operands64(op, a, b, a, b, b, Exact, Exact)
    BY <1>0, <1>1, <2>1 DEF Operands64
  <2>3. Level64(op, a, b, b, Exact, Exact) = Exact
    BY <1>1 DEF Level64, Weaker, Ops64, ImmOps, ShiftOps, RegOps, Shifts64
  <2> QED
    BY <2>2, <2>3, Good64 DEF Good
<1>2. ASSUME op \in Shifts64, NEW n \in Nat, n < XLEN, NEW r \in Result64(op, a, n)
      PROVE  r = Reference(op, a, n)
  <2>1. n % XLEN = n
    BY <1>2, Widths, SmallRemainder
  <2>2. Operands64(op, a, n, a, n, n, Exact, Exact)
    BY <1>0, <1>2, <2>1 DEF Operands64, Shift
  <2>3. Level64(op, a, n, n, Exact, Exact) = Exact
    BY <1>2 DEF Level64, Shifts64
  <2> QED
    BY <1>2, <2>2, <2>3, Good64 DEF Good
<1>3. CASE op \in Shifts64 /\ b < XLEN
  BY <1>2, <1>3
<1>4. CASE op \in Shifts64 /\ ~(b < XLEN)
  <2> DEFINE n == b % XLEN
  <2>1. n \in Nat /\ n < XLEN /\ n % XLEN = n
    <3>1. b % XLEN \in Nat /\ b % XLEN < XLEN
      BY Widths, Divide
    <3> QED
      BY <3>1, Widths, SmallRemainder
  <2>2. Amounts(b) = {n, XLEN} /\ Amounts(n) = {n}
    BY <1>4, <2>1 DEF Amounts
  <2> HIDE DEF n
  <2>3. res \in Result64(op, a, n) \/ res = ShiftedOut(op, a)
    <3>1. a < Sign \/ a >= Sign
      BY Widths, Defs
    <3>2. CASE op \in {"SLLI", "SLL"}
      BY <2>2, <3>2, AllShiftedOut DEF Result64, Left, ShiftedOut
    <3>3. CASE op \in {"SRLI", "SRL"}
      BY <2>2, <3>3, AllShiftedOut DEF Result64, Right, ShiftedOut
    <3>4. CASE op \in {"SRAI", "SRA"}
      <4>1. ShiftedOut(op, a) = IF a >= Sign THEN Span - 1 ELSE 0
        BY <3>4 DEF ShiftedOut, Sign, Span
      <4>2. /\ Result64(op, a, b) = Arithmetic(a, b)
            /\ Result64(op, a, n) = Arithmetic(a, n)
        BY <3>4 DEF Result64
      <4>3. PICK m \in {n, XLEN} : res = Unsignify(Signify(a) \div Pow2[m])
        BY <2>2, <4>2 DEF Arithmetic
      <4>4. CASE m = n
        BY <2>2, <4>2, <4>3, <4>4 DEF Arithmetic
      <4>5. CASE m = XLEN
        <5>1. a \in Nat /\ Sign \in Nat
          BY ValuesInt, Widths
        <5> QED
          BY <3>1, <4>1, <4>3, <4>5, <5>1, AllShiftedOut
      <4> QED
        BY <4>3, <4>4, <4>5
    <3> QED
      BY <1>4, <3>2, <3>3, <3>4 DEF Shifts64
  <2>4. Reference(op, a, n) = Reference(op, a, b)
    BY <1>4, <2>1, SameShift DEF n
  <2>5. b >= XLEN
    BY <1>4, Widths
  <2> QED
    BY <1>2, <1>4, <2>1, <2>3, <2>4, <2>5
<1> QED
  BY <1>1, <1>3, <1>4

(* A word handler works on whole registers as the one without W does and   *)
(* keeps the low half.                                                     *)
LEMMA WordOfWide ==
  ASSUME NEW op \in Ops32, NEW a, NEW b
  PROVE  /\ Wide(op) \in Ops64
         /\ Result32(op, a, b) = {Low(v) : v \in Result64(Wide(op), a, b)}
BY DEF Ops32, WordImmOps, WordOps, Wide, Ops64, ImmOps, ShiftOps, RegOps, Result32, Result64

(* The operands that the reference and the handler of an instruction use:  *)
(* the same, but for SRAIW, whose handler sees one more bit.               *)
LEMMA OperandsAre ==
  ASSUME RegTypeOK, NEW i \in Instrs
  PROVE  LET op == Wide(i.op)
             b  == CASE i.op \in RegOps \cup WordOps -> GPRF_read(i.rs2)
                     [] i.op \in ShiftOps            -> i.imm % WLEN
                     [] OTHER                        -> Unsignify(i.imm)
             h  == IF i.op = "SRAIW" THEN i.imm + XLEN ELSE b
         IN  /\ op \in Ops64 /\ b \in Nat /\ h \in Nat
             /\ op \notin Shifts64 => h \in Values
             /\ op \in Shifts64 => h % XLEN = b % XLEN
             /\ op \notin Shifts64 => h = b
             /\ op \in Shifts64 /\ h >= XLEN => TooFar(i)
             /\ Results(i) = IF i.op \in Ops32
                             THEN {Low(v) : v \in Result64(op, GPRF_read(i.rs1), h)}
                             ELSE Result64(op, GPRF_read(i.rs1), h)
<1> DEFINE op == Wide(i.op)
           a  == GPRF_read(i.rs1)
           b  == CASE i.op \in RegOps \cup WordOps -> GPRF_read(i.rs2)
                   [] i.op \in ShiftOps            -> i.imm % WLEN
                   [] OTHER                        -> Unsignify(i.imm)
           h  == IF i.op = "SRAIW" THEN i.imm + XLEN ELSE b
           Goal == /\ op \in Ops64 /\ b \in Nat /\ h \in Nat
                   /\ op \notin Shifts64 => h \in Values
                   /\ op \in Shifts64 => h % XLEN = b % XLEN
                   /\ op \notin Shifts64 => h = b
                   /\ op \in Shifts64 /\ h >= XLEN => TooFar(i)
                   /\ Results(i) = IF i.op \in Ops32 THEN {Low(v) : v \in Result64(op, a, h)}
                                   ELSE Result64(op, a, h)
<1>1. GPRF_read(i.rs2) \in Values /\ Unsignify(i.imm) \in Values
  <2>1. 0 \in Values
    BY Widths, Defs
  <2> QED
    BY <2>1, InstrType, UnsignifyType DEF RegTypeOK, GPRF_read
<1>2. \A v \in Values : v \in Nat
  BY ValuesInt
<1>3. CASE i.op \in ImmOps
  <2>1. i.op \notin Ops32 /\ op = i.op /\ op \in Ops64 /\ op \notin Shifts64
    BY <1>3 DEF ImmOps, Ops32, WordImmOps, WordOps, Wide, Ops64, Shifts64
  <2>2. b = Unsignify(i.imm) /\ h = b
    BY <1>3 DEF ImmOps, RegOps, WordOps, ShiftOps
  <2>3. Results(i) = Result64(i.op, a, Unsignify(i.imm))
    BY <1>3 DEF Results, ImmOps, ShiftOps, RegOps, WordImmOps, WordOps
  <2> HIDE DEF op, a, b, h
  <2>4. Goal
    BY <1>1, <1>2, <2>1, <2>2, <2>3
  <2> QED
    BY <2>4 DEF op, a, b, h
<1>4. CASE i.op \in ShiftOps
  <2>1. i.op \notin Ops32 /\ op = i.op /\ op \in Ops64 /\ op \in Shifts64
    BY <1>4 DEF ShiftOps, Ops32, WordImmOps, WordOps, Wide, Ops64, Shifts64
  <2>2. b = i.imm % WLEN /\ h = b
    BY <1>4 DEF ShiftOps, RegOps, WordOps
  <2>3. i.imm % WLEN \in Nat /\ i.imm % WLEN < WLEN
    BY InstrType, Widths, Divide
  <2>4. Results(i) = Result64(i.op, a, i.imm % WLEN)
    BY <1>4 DEF Results, ImmAmount, ImmOps, ShiftOps, RegOps, WordImmOps, WordOps
  <2> HIDE DEF op, a, b, h
  <2>5. ~(h >= XLEN)
    BY <2>2, <2>3, Widths
  <2>6. Goal
    BY <2>1, <2>2, <2>3, <2>4, <2>5
  <2> QED
    BY <2>6 DEF op, a, b, h
<1>5. CASE i.op \in RegOps
  <2>1. /\ i.op \notin Ops32 /\ op = i.op /\ op \in Ops64
        /\ op \in Shifts64 => op \in {"SLL", "SRL", "SRA"}
    BY <1>5 DEF RegOps, Ops32, WordImmOps, WordOps, Wide, Ops64, Shifts64
  <2>2. b = GPRF_read(i.rs2) /\ h = b
    BY <1>5 DEF ImmOps, ShiftOps, RegOps, WordImmOps, WordOps
  <2>3. Results(i) = Result64(i.op, a, GPRF_read(i.rs2))
    BY <1>5 DEF Results, ImmOps, ShiftOps, RegOps, WordImmOps, WordOps
  <2>4. op \in Shifts64 /\ h >= XLEN => TooFar(i)
    BY <2>1, <2>2 DEF TooFar
  <2> HIDE DEF op, a, b, h
  <2>5. Goal
    BY <1>1, <1>2, <2>1, <2>2, <2>3, <2>4
  <2> QED
    BY <2>5 DEF op, a, b, h
<1>6. CASE i.op \in WordOps
  <2>1. i.op \in Ops32 /\ i.op # "SRAIW"
    BY <1>6 DEF Ops32, WordOps
  <2>2. b = GPRF_read(i.rs2) /\ h = b
    BY <1>6, <2>1 DEF ImmOps, ShiftOps, RegOps, WordImmOps, WordOps
  <2>3. Results(i) = Result32(i.op, a, GPRF_read(i.rs2))
    BY <1>6 DEF Results, ImmOps, ShiftOps, RegOps, WordImmOps, WordOps
  <2>4. op \in Shifts64 => i.op \in {"SLLW", "SRLW", "SRAW"}
    BY <1>6 DEF Shifts64, Wide, WordOps
  <2>5. op \in Shifts64 /\ h >= XLEN => TooFar(i)
    BY <2>2, <2>4 DEF TooFar
  <2>6. op \in Ops64 /\ Results(i) = {Low(v) : v \in Result64(op, a, GPRF_read(i.rs2))}
    BY <2>1, <2>3, WordOfWide
  <2> HIDE DEF op, a, b, h
  <2>7. Goal
    BY <1>1, <1>2, <2>1, <2>2, <2>5, <2>6
  <2> QED
    BY <2>7 DEF op, a, b, h
<1>7. CASE i.op \in WordImmOps
  <2>1. i.op \in Ops32 /\ (op \in Shifts64 <=> i.op # "ADDIW")
    BY <1>7 DEF Ops32, WordImmOps, Shifts64, Wide
  <2>2. b = Unsignify(i.imm)
    BY <1>7 DEF WordImmOps, RegOps, WordOps, ShiftOps
  <2>3. Results(i) = Result32(i.op, a, WordImmediate(i)) /\ WordImmediate(i) = h
    BY <1>7, <2>2 DEF Results, WordImmediate, ImmOps, ShiftOps, RegOps, WordImmOps, WordOps
  <2>4. i.op # "ADDIW" => i.imm \in Nat /\ i.imm < WLEN /\ Unsignify(i.imm) = i.imm
    <3>1. i.op # "ADDIW" => i.imm \in Nat /\ i.imm < WLEN
      BY <1>7, InstrType
    <3>2. i.imm \in Int /\ i.imm < Sign
      BY RegisterConstants DEF Sign
    <3>3. i.op # "ADDIW" => i.imm \in Values
      BY <3>1, <3>2, Widths, Defs
    <3> QED
      BY <3>1, <3>3, UnsignifyIs
  <2>5. i.op = "SRAIW" => h = i.imm + XLEN /\ TooFar(i)
    BY DEF TooFar
  <2>6. i.op # "SRAIW" => h = b
    OBVIOUS
  <2>7. op \in Ops64 /\ Results(i) = {Low(v) : v \in Result64(op, a, h)}
    BY <2>1, <2>3, WordOfWide
  <2> HIDE DEF op, a, b, h
  <2>8. CASE i.op = "SRAIW"
    <3>1. /\ i.imm \in Nat /\ i.imm < XLEN /\ b = i.imm /\ h = i.imm + XLEN
          /\ h = XLEN * 1 + i.imm /\ h \in Nat /\ h \in Int /\ i.imm \in 0 .. XLEN - 1
      BY <2>2, <2>4, <2>5, <2>8, Widths
    <3>2. h % XLEN = i.imm /\ i.imm % XLEN = i.imm
      <4>1. XLEN \in Nat \ {0} /\ 1 \in Int
        BY Widths
      <4>2. h % XLEN = i.imm
        BY <3>1, <4>1, Cut
      <4> QED
        BY <3>1, <4>1, <4>2, SmallRemainder
    <3>3. Goal
      BY <2>1, <2>5, <2>7, <2>8, <3>1, <3>2
    <3> QED
      BY <3>3 DEF op, a, b, h
  <2>9. CASE i.op # "SRAIW"
    <3>1. h = b /\ b \in Values /\ b \in Nat
      BY <1>1, <1>2, <2>2, <2>6, <2>9
    <3>2. op \in Shifts64 => ~(h >= XLEN)
      BY <2>1, <2>2, <2>4, <3>1, Widths
    <3>3. Goal
      BY <2>1, <2>7, <3>1, <3>2
    <3> QED
      BY <3>3 DEF op, a, b, h
  <2> QED
    BY <2>8, <2>9
<1> QED
  BY <1>3, <1>4, <1>5, <1>6, <1>7, RegisterConstants

(* For registers of every width allowed, and whatever they hold, a single  *)
(* instruction departs from the ISA only where hart.cpp takes five bits of *)
(* an amount, shifts by XLEN bits or more, or clears the upper half of a   *)
(* word result.                                                            *)
THEOREM RegKnownDepartures == RegSpec => []KnownDepartures
<1>1. ASSUME RegTypeOK PROVE KnownDepartures
  <2> SUFFICES ASSUME NEW i \in Instrs
               PROVE  LET op == Wide(i.op)
                          a  == GPRF_read(i.rs1)
                          b  == CASE i.op \in RegOps \cup WordOps -> GPRF_read(i.rs2)
                                  [] i.op \in ShiftOps            -> i.imm % WLEN
                                  [] OTHER                        -> Unsignify(i.imm)
                      IN  \A res \in Results(i) :
                            \E v \in {Reference(op, a, b)}
                                     \cup (IF TooFar(i) THEN {ShiftedOut(op, a)} ELSE {}) :
                              res = IF i.op \in WordImmOps \cup WordOps THEN Low(v) ELSE v
    BY DEF KnownDepartures
  <2> DEFINE op == Wide(i.op)
             a  == GPRF_read(i.rs1)
             b  == CASE i.op \in RegOps \cup WordOps -> GPRF_read(i.rs2)
                     [] i.op \in ShiftOps            -> i.imm % WLEN
                     [] OTHER                        -> Unsignify(i.imm)
             h  == IF i.op = "SRAIW" THEN i.imm + XLEN ELSE b
             Expected == {Reference(op, a, b)}
                         \cup (IF TooFar(i) THEN {ShiftedOut(op, a)} ELSE {})
  <2>1. /\ op \in Ops64 /\ b \in Nat /\ h \in Nat
        /\ op \notin Shifts64 => h \in Values
        /\ op \in Shifts64 => h % XLEN = b % XLEN
        /\ op \notin Shifts64 => h = b
        /\ op \in Shifts64 /\ h >= XLEN => TooFar(i)
        /\ Results(i) = IF i.op \in Ops32 THEN {Low(v) : v \in Result64(op, a, h)}
                        ELSE Result64(op, a, h)
    BY <1>1, OperandsAre
  <2>2. a \in Values
    <3>1. 0 \in Values
      BY Widths, Defs
    <3> QED
      BY <1>1, <3>1, InstrType DEF RegTypeOK, GPRF_read
  <2> HIDE DEF op, a, b, h
  <2>3. Reference(op, a, h) = Reference(op, a, b)
    BY <2>1, SameShift
  <2>4. \A v \in Result64(op, a, h) : v \in Expected
    BY <1>1, <2>1, <2>2, <2>3, OneInstruction
  <2>5. \A res \in Results(i) :
          \E v \in Expected : res = IF i.op \in WordImmOps \cup WordOps THEN Low(v) ELSE v
    BY <2>1, <2>4 DEF Ops32
  <2> QED
    BY <2>5 DEF op, a, b, h
<1> QED
  BY <1>1, RegTyping, PTL
=============================================================================
