---------------------------- MODULE Arithmetic ----------------------------
(***************************************************************************)
(* Facts about numbers that the provers do not find by themselves.         *)
(* Counting: what a counter of limited width (uint32_t, size_t) shows      *)
(* after many small additions is the true count modulo its range.          *)
(* Induction: over the members of a set, since the provers take no         *)
(* operator for a parameter; and that functions which are defined by       *)
(* recursion over the numbers are there.                                   *)
(***************************************************************************)
EXTENDS Integers, WellFoundedInduction, TLAPS

\* Division with remainder.
LEMMA DivMod ==
    ASSUME NEW a \in Int, NEW m \in Nat \ {0}
    PROVE  /\ a = m * (a \div m) + (a % m)
           /\ a % m \in 0 .. m - 1
           /\ a \div m \in Int
BY SMT

\* A positive multiple of m is at least m, a negative one at most -m.
LEMMA MultipleAbove ==
    ASSUME NEW q \in Int, NEW m \in Nat \ {0}, q >= 1
    PROVE  m * q >= m
BY SMT

\* The negative half of the fact above.
LEMMA MultipleBelow ==
    ASSUME NEW q \in Int, NEW m \in Nat \ {0}, q <= -1
    PROVE  m * q <= 0 - m
BY SMT

\* A remainder is unique.
LEMMA RemainderUnique ==
    ASSUME NEW m \in Nat \ {0}, NEW p \in Int, NEW q \in Int,
           NEW r \in 0 .. m - 1, NEW s \in 0 .. m - 1,
           m * q + r = m * p + s
    PROVE  r = s
<1>1. m * (q - p) = s - r
  BY SMT
<1>2. q - p \in Int
  OBVIOUS
<1>3. ~(q - p >= 1)
  BY <1>1, <1>2, MultipleAbove, SMT
<1>4. ~(q - p <= -1)
  BY <1>1, <1>2, MultipleBelow, SMT
<1>5. q - p = 0
  BY <1>2, <1>3, <1>4
<1>6. m * (q - p) = 0
  BY <1>5
<1> QED
  BY <1>1, <1>6

\* Counting modulo m in steps is counting modulo m at once.
LEMMA ModPlus ==
    ASSUME NEW a \in Nat, NEW k \in Nat, NEW m \in Nat \ {0}
    PROVE  ((a % m) + k) % m = (a + k) % m
<1> DEFINE b == (a % m) + k
           d == a + k
<1>1. a = m * (a \div m) + (a % m) /\ a % m \in 0 .. m - 1 /\ a \div m \in Int
  BY DivMod
<1>2. b \in Int /\ d \in Int
  BY <1>1
<1>3. b = m * (b \div m) + (b % m) /\ b % m \in 0 .. m - 1 /\ b \div m \in Int
  BY <1>2, DivMod
<1>4. d = m * (d \div m) + (d % m) /\ d % m \in 0 .. m - 1 /\ d \div m \in Int
  <2> HIDE DEF d
  <2> QED
    BY <1>2, DivMod DEF d
<1>5. d = m * ((a \div m) + (b \div m)) + (b % m)
  BY <1>1, <1>3
<1>6. (a \div m) + (b \div m) \in Int
  BY <1>1, <1>3
<1> HIDE DEF b, d
<1>7. b % m = d % m
  BY <1>3, <1>4, <1>5, <1>6, RemainderUnique
<1> QED
  BY <1>7 DEF b, d

-----------------------------------------------------------------------------
\* A set of natural numbers has a least element.
LEMMA Least ==
    ASSUME NEW T \in SUBSET Nat, T # {}
    PROVE  \E x \in T : \A y \in T : x <= y
<1> DEFINE R == OpToRel(<, Nat)
<1>1. IsWellFoundedOn(R, Nat)
  BY NatLessThanWellFounded
<1>2. PICK x \in T : \A y \in T : <<y, x>> \notin R
  <2> HIDE DEF R
  <2> QED
    BY <1>1, WFMin
<1>3. ASSUME NEW y \in T PROVE x <= y
  <2>1. ~(y < x)
    BY <1>2, Zenon DEF OpToRel
  <2> QED
    BY <2>1
<1> QED
  BY <1>3

\* A set of numbers up to n has a greatest element.
LEMMA Greatest ==
    ASSUME NEW n \in Nat, NEW T \in SUBSET (0 .. n), T # {}
    PROVE  \E x \in T : \A y \in T : x >= y
<1> DEFINE D == {n - x : x \in T}
<1>1. D \in SUBSET Nat
  <2>1. \A x \in T : n - x \in Nat
    OBVIOUS
  <2> QED
    BY <2>1
<1>2. D # {}
  OBVIOUS
<1>3. PICK d \in D : \A e \in D : d <= e
  <2> HIDE DEF D
  <2> QED
    BY <1>1, <1>2, Least
<1>4. PICK x \in T : d = n - x
  BY <1>3
<1>5. \A y \in T : n - x <= n - y
  BY <1>3, <1>4
<1> QED
  BY <1>5

\* Induction from 0 up to n.
LEMMA InductionTo ==
    ASSUME NEW n \in Nat, NEW S,
           0 \in S, \A k \in 0 .. n - 1 : k \in S => k + 1 \in S
    PROVE  0 .. n \subseteq S
<1> DEFINE T == (0 .. n) \ S
<1>1. SUFFICES ASSUME T # {} PROVE FALSE
  OBVIOUS
<1>2. PICK x \in T : \A y \in T : x <= y
  <2>1. T \in SUBSET Nat
    OBVIOUS
  <2> HIDE DEF T
  <2> QED
    BY <1>1, <2>1, Least
<1>3. x # 0 /\ x - 1 \in 0 .. n - 1
  OBVIOUS
<1>4. x - 1 \in S
  BY <1>2, <1>3
<1> QED
  BY <1>3, <1>4

\* Induction over all natural numbers.
LEMMA Induction ==
    ASSUME NEW S, 0 \in S, \A k \in Nat : k \in S => k + 1 \in S
    PROVE  Nat \subseteq S
<1>1. SUFFICES ASSUME NEW n \in Nat PROVE n \in S
  OBVIOUS
<1>2. 0 .. n \subseteq S
  BY InductionTo
<1> QED
  BY <1>2

\* The function g on D, which is Nat or 0 .. n, is defined by this recursion.
Computes(g, D, base, step) ==
    g = [k \in D |-> IF k = 0 THEN base ELSE step[<<k, g[k - 1]>>]]

\* A function that is defined by recursion over the numbers exists.
LEMMA Recursion ==
    ASSUME NEW T, NEW base \in T, NEW step \in [Nat \X T -> T]
    PROVE  \E f \in [Nat -> T] : Computes(f, Nat, base, step)
<1> DEFINE Good(g, n) == Computes(g, 0 .. n, base, step)
<1>1. \A n \in Nat : \E g \in [0 .. n -> T] : Good(g, n)
  <2> DEFINE S == {n \in Nat : \E g \in [0 .. n -> T] : Good(g, n)}
  <2>1. 0 \in S
    <3>1. [k \in 0 .. 0 |-> base] \in [0 .. 0 -> T]
      OBVIOUS
    <3>2. Good([k \in 0 .. 0 |-> base], 0)
      BY DEF Computes
    <3> QED
      BY <3>1, <3>2
  <2>2. ASSUME NEW n \in Nat, n \in S PROVE n + 1 \in S
    <3>1. PICK g \in [0 .. n -> T] : Good(g, n)
      BY <2>2
    <3> DEFINE h == [k \in 0 .. n + 1 |-> IF k = n + 1 THEN step[<<n + 1, g[n]>>] ELSE g[k]]
    <3>2. h \in [0 .. n + 1 -> T]
      <4>1. step[<<n + 1, g[n]>>] \in T
        OBVIOUS
      <4>2. \A k \in 0 .. n + 1 : k # n + 1 => k \in 0 .. n
        OBVIOUS
      <4> QED
        BY <4>1, <4>2
    <3>3. ASSUME NEW k \in 0 .. n + 1
          PROVE  h[k] = IF k = 0 THEN base ELSE step[<<k, h[k - 1]>>]
      <4>1. CASE k = n + 1
        <5>1. k # 0 /\ k - 1 = n /\ n \in 0 .. n + 1 /\ n # n + 1
          BY <4>1
        <5>2. h[k - 1] = g[n]
          BY <5>1
        <5>3. h[k] = step[<<k, g[n]>>]
          BY <4>1
        <5> QED
          BY <5>1, <5>2, <5>3
      <4>2. CASE k # n + 1
        <5>1. k \in 0 .. n /\ h[k] = g[k]
          BY <4>2
        <5>2. g[k] = IF k = 0 THEN base ELSE step[<<k, g[k - 1]>>]
          BY <3>1, <5>1 DEF Computes
        <5>3. k # 0 => h[k - 1] = g[k - 1]
          BY <5>1
        <5> QED
          BY <5>1, <5>2, <5>3
      <4> QED
        BY <4>1, <4>2
    <3>4. Good(h, n + 1)
      <4>1. h = [k \in 0 .. n + 1 |-> h[k]]
        OBVIOUS
      <4> HIDE DEF h
      <4> QED
        BY <3>3, <4>1 DEF Computes
    <3> HIDE DEF h
    <3> QED
      BY <3>2, <3>4
  <2> HIDE DEF S
  <2>3. Nat \subseteq S
    BY <2>1, <2>2, Induction
  <2> QED
    BY <2>3 DEF S
<1>2. ASSUME NEW n \in Nat, NEW m \in Nat, n <= m,
             NEW g \in [0 .. n -> T], Good(g, n), NEW h \in [0 .. m -> T], Good(h, m)
      PROVE  \A k \in 0 .. n : g[k] = h[k]
  <2> DEFINE S == {k \in 0 .. n : g[k] = h[k]}
  <2>1. \A k \in 0 .. n : g[k] = IF k = 0 THEN base ELSE step[<<k, g[k - 1]>>]
    BY <1>2 DEF Computes
  <2>2. \A k \in 0 .. n : h[k] = IF k = 0 THEN base ELSE step[<<k, h[k - 1]>>]
    BY <1>2 DEF Computes
  <2>3. 0 \in S
    <3>1. 0 \in 0 .. n /\ 0 \in 0 .. m
      BY <1>2
    <3>2. g[0] = base /\ h[0] = base
      BY <2>1, <2>2, <3>1
    <3> QED
      BY <3>1, <3>2
  <2>4. ASSUME NEW k \in 0 .. n - 1, k \in S PROVE k + 1 \in S
    <3>1. k + 1 \in 0 .. n /\ k + 1 # 0 /\ (k + 1) - 1 = k
      OBVIOUS
    <3> QED
      BY <2>1, <2>2, <2>4, <3>1
  <2> HIDE DEF S
  <2>5. 0 .. n \subseteq S
    BY <2>3, <2>4, InductionTo
  <2> QED
    BY <2>5 DEF S
<1> DEFINE G == [n \in Nat |-> CHOOSE g \in [0 .. n -> T] : Good(g, n)]
           f == [n \in Nat |-> G[n][n]]
<1>3. \A n \in Nat : G[n] \in [0 .. n -> T] /\ Good(G[n], n)
  <2> HIDE DEF Computes
  <2> QED
    BY <1>1, Zenon
<1>4. f \in [Nat -> T]
  BY <1>3
<1>5. ASSUME NEW k \in Nat
      PROVE  f[k] = IF k = 0 THEN base ELSE step[<<k, f[k - 1]>>]
  <2>1. G[k][k] = IF k = 0 THEN base ELSE step[<<k, G[k][k - 1]>>]
    <3>1. k \in 0 .. k /\ Good(G[k], k)
      BY <1>3
    <3> HIDE DEF G
    <3> QED
      BY <3>1 DEF Computes
  <2>2. ASSUME k # 0 PROVE G[k][k - 1] = f[k - 1]
    <3>1. k - 1 \in Nat /\ k - 1 <= k /\ k - 1 \in 0 .. k - 1
      BY <2>2
    <3>2. G[k - 1] \in [0 .. k - 1 -> T] /\ Good(G[k - 1], k - 1)
      BY <1>3, <3>1
    <3>3. G[k] \in [0 .. k -> T] /\ Good(G[k], k)
      BY <1>3
    <3>4. G[k - 1][k - 1] = G[k][k - 1]
      <4> HIDE DEF G, Good
      <4> QED
        BY <1>2, <3>1, <3>2, <3>3
    <3> QED
      BY <3>1, <3>4
  <2>3. f[k] = G[k][k]
    OBVIOUS
  <2> HIDE DEF f, G
  <2> QED
    BY <2>1, <2>2, <2>3
<1>6. f = [k \in Nat |-> IF k = 0 THEN base ELSE step[<<k, f[k - 1]>>]]
  <2>1. f = [k \in Nat |-> f[k]]
    OBVIOUS
  <2> HIDE DEF f
  <2> QED
    BY <1>5, <2>1
<1> HIDE DEF f
<1> QED
  BY <1>4, <1>6 DEF Computes

\* The same up to n, where step needs to be known only so far.
LEMMA RecursionTo ==
    ASSUME NEW n \in Nat, NEW T, NEW base \in T, NEW step \in [(1 .. n) \X T -> T]
    PROVE  \E f \in [0 .. n -> T] : Computes(f, 0 .. n, base, step)
<1> DEFINE all == [a \in Nat \X T |-> IF a[1] \in 1 .. n THEN step[a] ELSE base]
<1>1. all \in [Nat \X T -> T]
  <2>1. ASSUME NEW a \in Nat \X T, a[1] \in 1 .. n PROVE a \in (1 .. n) \X T
    BY <2>1
  <2> QED
    BY <2>1
<1> HIDE DEF all
<1>2. PICK f \in [Nat -> T] : Computes(f, Nat, base, all)
  BY <1>1, Recursion
<1> DEFINE g == [k \in 0 .. n |-> f[k]]
<1>3. g \in [0 .. n -> T]
  OBVIOUS
<1>4. ASSUME NEW k \in 0 .. n
      PROVE  g[k] = IF k = 0 THEN base ELSE step[<<k, g[k - 1]>>]
  <2>1. g[k] = IF k = 0 THEN base ELSE all[<<k, f[k - 1]>>]
    <3>1. f[k] = IF k = 0 THEN base ELSE all[<<k, f[k - 1]>>]
      BY <1>2 DEF Computes
    <3> QED
      BY <3>1
  <2>2. ASSUME k # 0 PROVE all[<<k, f[k - 1]>>] = step[<<k, g[k - 1]>>]
    <3>1. k \in 1 .. n /\ k - 1 \in 0 .. n /\ k - 1 \in Nat
      BY <2>2
    <3>2. g[k - 1] = f[k - 1] /\ f[k - 1] \in T
      BY <3>1
    <3> QED
      BY <3>1, <3>2 DEF all
  <2> HIDE DEF g
  <2> QED
    BY <2>1, <2>2
<1>5. g = [k \in 0 .. n |-> g[k]]
  OBVIOUS
<1> HIDE DEF g
<1> QED
  BY <1>3, <1>4, <1>5 DEF Computes

-----------------------------------------------------------------------------
\* A power of two: no odd number divides it but one.
PowerOfTwo(w) == \A d \in 2 .. w : w % d = 0 => d % 2 = 0

\* An odd factor does not matter for what v divides.
OddCancelsFor(v) == \A x, y, z \in Nat :
                        x * (2 * y + 1) = v * z => \E q \in Nat : x = v * q

\* An odd factor does not matter for what a power of two divides.
LEMMA OddCancels ==
    ASSUME NEW w \in Nat \ {0}, PowerOfTwo(w)
    PROVE  OddCancelsFor(w)
<1> DEFINE Bad == {v \in Nat \ {0} : PowerOfTwo(v) /\ ~OddCancelsFor(v)}
<1>1. SUFFICES ASSUME Bad # {} PROVE FALSE
  BY Zenon
<1>2. PICK v \in Bad : \A u \in Bad : v <= u
  <2>1. Bad \in SUBSET Nat
    OBVIOUS
  <2> HIDE DEF Bad
  <2> QED
    BY <1>1, <2>1, Least
<1>3. v \in Nat \ {0} /\ PowerOfTwo(v) /\ ~OddCancelsFor(v)
  BY <1>2
<1>14. \A u \in Nat \ {0} : u < v /\ PowerOfTwo(u) => OddCancelsFor(u)
  BY <1>2, <1>3
<1> HIDE DEF Bad
<1>4. PICK x \in Nat, y \in Nat, z \in Nat :
          x * (2 * y + 1) = v * z /\ \A q \in Nat : x # v * q
  BY <1>3 DEF OddCancelsFor
<1>5. v # 1
  <2>1. SUFFICES ASSUME v = 1 PROVE FALSE
    OBVIOUS
  <2>2. x = v * x
    BY <2>1
  <2> QED
    BY <1>4, <2>2
<1>6. PICK u \in Nat \ {0} : v = 2 * u /\ u < v
  <2>1. v \in 2 .. v /\ v % v = 0
    BY <1>3, <1>5
  <2>2. v % 2 = 0
    BY <2>1, <1>3 DEF PowerOfTwo
  <2>3. v = 2 * (v \div 2) /\ v \div 2 \in Nat \ {0}
    BY <2>1, <2>2
  <2> QED
    BY <2>3
<1>7. PowerOfTwo(u)
  <2>1. SUFFICES ASSUME NEW d \in 2 .. u, u % d = 0 PROVE d % 2 = 0
    BY DEF PowerOfTwo
  <2>2. u = d * (u \div d) /\ u \div d \in Int
    BY <2>1, DivMod
  <2>3. v = d * (2 * (u \div d)) + 0
    BY <1>6, <2>2
  <2>4. v = d * (v \div d) + (v % d) /\ v % d \in 0 .. d - 1 /\ v \div d \in Int
    <3>1. d \in Nat \ {0} /\ v \in Int
      BY <1>3
    <3> QED
      BY <3>1, DivMod
  <2>5. v % d = 0
    <3>1. 2 * (u \div d) \in Int /\ d \in Nat \ {0} /\ 0 \in 0 .. d - 1
      BY <2>2
    <3> DEFINE t == 2 * (u \div d)
    <3> HIDE DEF t
    <3>2. t \in Int /\ d * t + 0 = d * (v \div d) + (v % d)
      BY <2>3, <2>4, <3>1 DEF t
    <3> QED
      BY <2>4, <3>1, <3>2, RemainderUnique
  <2> QED
    BY <1>3, <1>6, <2>5 DEF PowerOfTwo
<1>8. OddCancelsFor(u)
  BY <1>6, <1>7, <1>14
<1>9. PICK r \in Nat : x = 2 * r
  <2>1. x * (2 * y + 1) = 2 * (x * y) + x /\ x * y \in Nat
    OBVIOUS
  <2>2. v * z = 2 * (u * z) /\ u * z \in Nat
    BY <1>6
  <2>3. x = 2 * (u * z - x * y) /\ u * z - x * y \in Int
    BY <1>4, <2>1, <2>2
  <2> DEFINE r == u * z - x * y
  <2> HIDE DEF r
  <2>4. x = 2 * r /\ r \in Int
    BY <2>3 DEF r
  <2>5. r \in Nat
    BY <2>4
  <2> QED
    BY <2>4, <2>5
<1>10. r * (2 * y + 1) = u * z
  <2>1. 2 * (r * (2 * y + 1)) = 2 * (u * z)
    <3>1. x * (2 * y + 1) = 2 * (r * (2 * y + 1))
      BY <1>9
    <3>2. v * z = 2 * (u * z)
      BY <1>6
    <3> QED
      BY <1>4, <3>1, <3>2
  <2>2. r * (2 * y + 1) \in Nat /\ u * z \in Nat
    OBVIOUS
  <2> QED
    BY <2>1, <2>2
<1>11. PICK q \in Nat : r = u * q
  BY <1>6, <1>8, <1>10 DEF OddCancelsFor
<1>12. x = v * q
  BY <1>6, <1>9, <1>11
<1> QED
  BY <1>4, <1>12

\* Of two numbers in a row one is even.
LEMMA Triangular ==
    ASSUME NEW k \in Nat
    PROVE  (k * (k + 1)) \div 2 \in Nat /\ k * (k + 1) = 2 * ((k * (k + 1)) \div 2)
<1>1. PICK x \in Nat : k = 2 * x \/ k = 2 * x + 1
  <2>1. k = 2 * (k \div 2) \/ k = 2 * (k \div 2) + 1
    OBVIOUS
  <2> QED
    BY <2>1
<1>2. PICK y \in Nat : k * (k + 1) = 2 * y
  <2>1. CASE k = 2 * x
    <3>1. k * (k + 1) = 2 * (x * (k + 1)) /\ x * (k + 1) \in Nat
      BY <2>1
    <3> QED
      BY <3>1
  <2>2. CASE k = 2 * x + 1
    <3>1. k * (k + 1) = k * (2 * (x + 1))
      BY <2>2
    <3>2. k * (2 * (x + 1)) = 2 * (k * (x + 1)) /\ k * (x + 1) \in Nat
      OBVIOUS
    <3> QED
      BY <3>1, <3>2
  <2> QED
    BY <1>1, <2>1, <2>2
<1> DEFINE t == k * (k + 1)
<1>3. t = 2 * y
  BY <1>2
<1> HIDE DEF t
<1>4. t \div 2 = y
  BY <1>3
<1> QED
  BY <1>3, <1>4 DEF t

\* In a table of m buckets, a power of two, triangular distances under m lead
\* to different buckets: the difference of two of them is half of a product of
\* an odd and an even number, both too small to be a multiple of m.
LEMMA TriangularProbes ==
    ASSUME NEW m \in Nat \ {0}, PowerOfTwo(m), NEW h \in Nat,
           NEW i \in 0 .. m - 1, NEW k \in 0 .. m - 1, i < k
    PROVE  (h + (i * (i + 1)) \div 2) % m # (h + (k * (k + 1)) \div 2) % m
<1> DEFINE ti == (i * (i + 1)) \div 2
           tk == (k * (k + 1)) \div 2
<1>1. ti \in Nat /\ tk \in Nat /\ i * (i + 1) = 2 * ti /\ k * (k + 1) = 2 * tk
  <2>1. i \in Nat /\ k \in Nat
    OBVIOUS
  <2> QED
    BY <2>1, Triangular
<1> DEFINE a == h + ti
           b == h + tk
<1> HIDE DEF ti, tk
<1> SUFFICES ASSUME a % m = b % m PROVE FALSE
  BY DEF ti, tk
<1>2. a \in Int /\ b \in Int /\ b - a = tk - ti
  BY <1>1
<1> HIDE DEF a, b
<1>3. a = m * (a \div m) + (a % m) /\ a \div m \in Int /\ a % m \in 0 .. m - 1
  BY <1>2, DivMod
<1>4. b = m * (b \div m) + (b % m) /\ b \div m \in Int /\ b % m \in 0 .. m - 1
  BY <1>2, DivMod
<1> DEFINE c == (b \div m) - (a \div m)
<1>5. c \in Int /\ tk - ti = m * c
  BY <1>2, <1>3, <1>4
<1> HIDE DEF c
<1> DEFINE d == k - i
           s == k + i + 1
<1>6. d \in 1 .. m - 1 /\ s \in 1 .. 2 * m - 2 /\ s + d = 2 * k + 1
  OBVIOUS
<1>7. d * s = 2 * (m * c)
  <2>1. d * s = k * (k + 1) - i * (i + 1)
    OBVIOUS
  <2>2. k * (k + 1) - i * (i + 1) = 2 * (tk - ti)
    BY <1>1
  <2> QED
    BY <1>5, <2>1, <2>2
<1> HIDE DEF d, s
<1>8. c \in Nat
  <2>1. d * s >= 1 /\ d * s \in Nat
    BY <1>6
  <2>2. SUFFICES ASSUME c <= -1 PROVE FALSE
    BY <1>5
  <2>3. m * c <= 0 - m
    BY <1>5, <2>2, MultipleBelow
  <2>4. m * c \in Int /\ m >= 1
    BY <1>5
  <2> DEFINE ds == d * s
             mc == m * c
  <2>5. ds >= 1 /\ mc \in Int /\ ds = 2 * mc /\ mc <= 0 - m /\ ds \in Nat
    BY <1>7, <2>1, <2>3, <2>4
  <2> HIDE DEF ds, mc
  <2> QED
    BY <2>4, <2>5
<1>9. \A x, y \in Nat : x * (2 * y + 1) = m * c => \E q \in Nat : x = m * q
  <2>1. OddCancelsFor(m)
    BY OddCancels
  <2> QED
    BY <1>8, <2>1 DEF OddCancelsFor
<1>10. \A x \in Nat \ {0} : (\E q \in Nat : x = m * q) => x >= m
  <2>1. SUFFICES ASSUME NEW x \in Nat \ {0}, NEW q \in Nat, x = m * q PROVE x >= m
    OBVIOUS
  <2>2. q # 0
    BY <2>1
  <2> QED
    BY <2>1, <2>2, MultipleAbove
<1>11. CASE \E y \in Nat : d = 2 * y + 1
  <2>1. PICK y \in Nat : d = 2 * y + 1
    BY <1>11
  <2>2. PICK x \in Nat \ {0} : s = 2 * x
    <3>1. s = 2 * (k - y) /\ k - y \in Int
      BY <1>6, <2>1
    <3> DEFINE x == k - y
    <3> HIDE DEF x
    <3>2. s = 2 * x /\ x \in Int
      BY <3>1 DEF x
    <3>3. x \in Nat \ {0}
      BY <1>6, <3>2
    <3> QED
      BY <3>2, <3>3
  <2>3. x * (2 * y + 1) = m * c
    <3>1. 2 * (x * (2 * y + 1)) = 2 * (m * c)
      BY <1>7, <2>1, <2>2
    <3>2. x * (2 * y + 1) \in Nat /\ m * c \in Nat
      BY <1>8
    <3> QED
      BY <3>1, <3>2
  <2>4. x >= m
    BY <1>9, <1>10, <2>3
  <2> QED
    BY <1>6, <2>2, <2>4
<1>12. CASE \E x \in Nat : d = 2 * x
  <2>1. PICK x \in Nat : d = 2 * x
    BY <1>12
  <2>2. PICK y \in Nat : s = 2 * y + 1
    <3>1. s = 2 * (k - x) + 1 /\ k - x \in Int
      BY <1>6, <2>1
    <3> DEFINE y == k - x
    <3> HIDE DEF y
    <3>2. s = 2 * y + 1 /\ y \in Int
      BY <3>1 DEF y
    <3>3. y \in Nat
      BY <1>6, <3>2
    <3> QED
      BY <3>2, <3>3
  <2>3. x * (2 * y + 1) = m * c
    <3>1. 2 * (x * (2 * y + 1)) = 2 * (m * c)
      BY <1>7, <2>1, <2>2
    <3>2. x * (2 * y + 1) \in Nat /\ m * c \in Nat
      BY <1>8
    <3> QED
      BY <3>1, <3>2
  <2>4. x # 0
    BY <1>6, <2>1
  <2>5. \E q \in Nat : x = m * q
    BY <1>9, <2>3
  <2>6. x >= m
    BY <1>10, <2>4, <2>5
  <2> QED
    BY <1>6, <2>1, <2>6
<1>13. (\E y \in Nat : d = 2 * y + 1) \/ (\E x \in Nat : d = 2 * x)
  <2>1. d \in Nat
    BY <1>6
  <2>2. d = 2 * (d \div 2) \/ d = 2 * (d \div 2) + 1
    BY <2>1
  <2> QED
    BY <2>1, <2>2
<1> QED
  BY <1>11, <1>12, <1>13
=============================================================================
