------------------------------ MODULE Numbers -------------------------------
(***************************************************************************)
(* Facts about natural numbers that several proofs cite: induction, stated *)
(* about sets and functions, and division.                                 *)
(***************************************************************************)
EXTENDS Naturals, TLAPS, WellFoundedInduction

\* A set of natural numbers that is not empty has a least element.
LEMMA LeastElement ==
  ASSUME NEW T \in SUBSET Nat, T # {}
  PROVE  \E x \in T : \A y \in T : x <= y
<1> DEFINE R == {ss \in Nat \X Nat : ss[1] < ss[2]}
<1>1. IsWellFoundedOn(R, Nat)
  BY NatLessThanWellFounded, Zenon DEF OpToRel
<1>2. \A x, y \in Nat : x < y => <<x, y>> \in R
  OBVIOUS
<1> HIDE DEF R
<1>3. PICK x \in T : \A y \in T : ~(<<y, x>> \in R)
  BY <1>1, WFMin
<1>4. ASSUME NEW y \in T PROVE x <= y
  <2>1. x \in Nat /\ y \in Nat
    OBVIOUS
  <2>2. ~(y < x)
    BY <1>2, <1>3, <2>1
  <2> QED BY <2>1, <2>2
<1> QED BY <1>4

\* A set that holds 0 and the successor of each natural number in it holds
\* every natural number.
LEMMA Induct ==
  ASSUME NEW S, 0 \in S, \A n \in Nat : n \in S => n + 1 \in S
  PROVE  Nat \subseteq S
<1> SUFFICES ASSUME ~(Nat \subseteq S) PROVE FALSE
  OBVIOUS
<1> DEFINE T == Nat \ S
<1>1. T \in SUBSET Nat /\ T # {}
  OBVIOUS
<1>2. PICK x \in T : \A y \in T : x <= y
  BY <1>1, LeastElement
<1>3. x \in Nat /\ x \notin S /\ x # 0
  OBVIOUS
<1>4. x - 1 \in Nat /\ x - 1 \notin T
  BY <1>2, <1>3
<1>5. x - 1 \in S
  BY <1>4
<1>6. (x - 1) + 1 \in S
  BY <1>4, <1>5
<1> QED BY <1>3, <1>6

\* The same from a number on, for the numbers up to another.
LEMMA InductUpTo ==
  ASSUME NEW S, NEW m \in Nat, NEW b \in Nat, b \in S,
         \A n \in b .. m - 1 : n \in S => n + 1 \in S
  PROVE  b .. m \subseteq S
<1> DEFINE T == {n \in Nat : b + n \in S \/ b + n > m}
<1>1. 0 \in T
  OBVIOUS
<1>2. ASSUME NEW n \in Nat, n \in T PROVE n + 1 \in T
  <2>1. CASE b + n >= m
    BY <2>1
  <2>2. CASE b + n < m
    <3>1. b + n \in S /\ b + n \in b .. m - 1
      BY <1>2, <2>2
    <3>2. (b + n) + 1 \in S
      BY <3>1
    <3> QED BY <3>2
  <2> QED BY <2>1, <2>2
<1> HIDE DEF T
<1>3. Nat \subseteq T
  BY <1>1, <1>2, Induct
<1>4. ASSUME NEW k \in b .. m PROVE k \in S
  <2>1. k - b \in Nat /\ b + (k - b) = k
    OBVIOUS
  <2>2. k - b \in T
    BY <1>3, <2>1
  <2> QED BY <2>1, <2>2 DEF T
<1> QED BY <1>4

\* f starts at v and goes on by the step function F, up to m.
Follows(f, v, F, m) ==
  /\ f[0] = v
  /\ \A i \in 0 .. m - 1 : f[i + 1] = F[i][f[i]]

\* A step function defines a function on 0 .. n by primitive recursion.
LEMMA FiniteRecursion ==
  ASSUME NEW V, NEW v \in V, NEW F \in [Nat -> [V -> V]], NEW m \in Nat
  PROVE  \E f \in [0 .. m -> V] : Follows(f, v, F, m)
<1> DEFINE Rec(f, n) == /\ f[0] = v
                        /\ \A i \in 0 .. n - 1 : f[i + 1] = F[i][f[i]]
           S == {n \in Nat : \E f \in [0 .. n -> V] : Rec(f, n)}
<1>1. 0 \in S
  <2> DEFINE f == [i \in 0 .. 0 |-> v]
  <2>1. f \in [0 .. 0 -> V] /\ Rec(f, 0)
    OBVIOUS
  <2> QED BY <2>1
<1>2. ASSUME NEW n \in Nat, n \in S PROVE n + 1 \in S
  <2>1. PICK f \in [0 .. n -> V] : Rec(f, n)
    BY <1>2
  <2> DEFINE g == [i \in 0 .. n + 1 |-> IF i <= n THEN f[i] ELSE F[n][f[n]]]
  <2>2. f[n] \in V /\ F[n][f[n]] \in V
    OBVIOUS
  <2>3. g \in [0 .. n + 1 -> V]
    BY <2>2
  <2>4. g[0] = v
    BY <2>1
  <2>5. ASSUME NEW i \in 0 .. n PROVE g[i + 1] = F[i][g[i]]
    <3>1. g[i] = f[i]
      OBVIOUS
    <3>2. CASE i < n
      <4>1. i \in 0 .. n - 1 /\ i + 1 \in 0 .. n + 1 /\ i + 1 <= n
        BY <3>2
      <4>2. f[i + 1] = F[i][f[i]] /\ g[i + 1] = f[i + 1]
        BY <2>1, <4>1
      <4> QED BY <3>1, <4>2
    <3>3. CASE i = n
      <4>1. g[n + 1] = F[n][f[n]]
        OBVIOUS
      <4> QED BY <3>1, <3>3, <4>1
    <3> QED BY <3>2, <3>3
  <2> HIDE DEF g
  <2>6. Rec(g, n + 1)
    BY <2>4, <2>5
  <2> QED BY <2>3, <2>6
<1> HIDE DEF S
<1>3. m \in S
  BY <1>1, <1>2, Induct
<1> QED BY <1>3 DEF S, Follows

-----------------------------------------------------------------------------
(* Division and products.                                                  *)

\* Division and remainder.
LEMMA DivMod ==
  ASSUME NEW n \in Nat \ {0}
  PROVE  /\ \A x \in Nat : /\ x \div n \in Nat /\ x % n \in 0 .. n - 1
                           /\ x = (x \div n) * n + (x % n)
         /\ \A q \in Nat, r \in 0 .. n - 1 :
               (q * n + r) \div n = q /\ (q * n + r) % n = r
<1>1. \A x \in Nat : x \div n \in Nat /\ x % n \in 0 .. n - 1
  OBVIOUS
<1>2. \A x \in Nat : x = (x \div n) * n + (x % n)
  OBVIOUS
<1>3. \A q \in Nat, r \in 0 .. n - 1 : (q * n + r) \div n = q
  OBVIOUS
<1>4. \A q \in Nat, r \in 0 .. n - 1 : (q * n + r) % n = r
  OBVIOUS
<1> QED BY <1>1, <1>2, <1>3, <1>4

\* Products.
LEMMA Products ==
  /\ \A x, y \in Nat : x * y \in Nat
  /\ \A x, y \in Nat : (x + 1) * y = x * y + y
  /\ \A x, y, n \in Nat : x <= y => x * n <= y * n
<1>1. \A x, y \in Nat : x * y \in Nat
  OBVIOUS
<1>2. \A x, y \in Nat : (x + 1) * y = x * y + y
  OBVIOUS
<1>3. \A x, y, n \in Nat : x <= y => x * n <= y * n
  OBVIOUS
<1> QED BY <1>1, <1>2, <1>3

\* Dividing twice.
LEMMA NestedDiv ==
  ASSUME NEW a \in Nat \ {0}, NEW b \in Nat \ {0}, NEW v \in Nat
  PROVE  (v \div a) \div b = v \div (a * b)
<1> DEFINE q == v \div a
           r == v % a
           p == q \div b
           s == q % b
           m == a * b
<1>1. q \in Nat /\ r \in 0 .. a - 1 /\ v = q * a + r
  BY DivMod
<1>2. p \in Nat /\ s \in 0 .. b - 1 /\ q = p * b + s
  <2> HIDE DEF q
  <2> QED BY <1>1, DivMod
<1> HIDE DEF q, r, p, s
<1>3. m \in Nat \ {0}
  OBVIOUS
<1>4. v = p * m + (s * a + r)
  <2>1. (p * b + s) * a = p * (a * b) + s * a
    BY <1>2
  <2> QED BY <1>1, <1>2, <2>1
<1>5. s * a \in Nat /\ s * a <= (b - 1) * a
  BY <1>2, Products
<1>6. (b - 1) * a = m - a
  OBVIOUS
<1>7. s * a + r \in 0 .. m - 1
  <2> DEFINE x == s * a
             y == (b - 1) * a
  <2>1. x \in Nat /\ x <= y /\ y = m - a
    BY <1>5, <1>6
  <2> HIDE DEF x, y, m
  <2>2. x + r \in 0 .. m - 1
    BY <1>1, <1>3, <2>1
  <2> QED BY <2>2 DEF x
<1> DEFINE z == s * a + r
<1> HIDE DEF z, m
<1>8. (p * m + z) \div m = p
  BY <1>2, <1>3, <1>7, DivMod DEF z
<1>9. v \div m = p
  BY <1>4, <1>8 DEF z
<1> QED BY <1>9 DEF m, p, q

\* Multiples of n.
LEMMA Multiples ==
  ASSUME NEW n \in Nat \ {0}
  PROVE  /\ \A q \in Nat : q * n \in Nat /\ (q * n) % n = 0
         /\ \A a \in Nat : a % n = 0 => (a + n) % n = 0
         /\ \A a, v \in Nat : a % n = 0 /\ v % n = 0 /\ a <= v /\ v < a + n => v = a
         /\ \A x \in Nat : /\ x - (x % n) \in Nat
                           /\ (x - (x % n)) % n = 0
                           /\ x >= n => x - (x % n) >= n
         /\ \A x, y \in Nat : x <= y /\ y % n = 0 => ((x + n - 1) \div n) * n <= y
<1>1. \A q \in Nat : q * n \in Nat /\ (q * n) % n = 0
  <2> SUFFICES ASSUME NEW q \in Nat PROVE q * n \in Nat /\ (q * n) % n = 0
    OBVIOUS
  <2>1. 0 \in 0 .. n - 1 /\ q * n \in Nat
    BY Products
  <2>2. (q * n + 0) % n = 0
    BY <2>1, DivMod
  <2>3. q * n + 0 = q * n
    BY <2>1
  <2> QED BY <2>1, <2>2, <2>3
<1>2. ASSUME NEW a \in Nat
      PROVE  /\ a \div n \in Nat /\ a % n \in 0 .. n - 1 /\ (a \div n) * n \in Nat
             /\ a = (a \div n) * n + (a % n)
  BY DivMod, Products
<1>3. ASSUME NEW a \in Nat, a % n = 0 PROVE (a + n) % n = 0
  <2> DEFINE q == a \div n
  <2>1. q \in Nat /\ a = q * n
    BY <1>2, <1>3
  <2> HIDE DEF q
  <2>2. (q + 1) * n = a + n
    BY <2>1, Products
  <2>3. ((q + 1) * n) % n = 0
    BY <1>1, <2>1
  <2> QED BY <2>2, <2>3
<1>4. ASSUME NEW a \in Nat, NEW v \in Nat, a % n = 0, v % n = 0, a <= v, v < a + n
      PROVE  v = a
  <2> DEFINE q == a \div n
             p == v \div n
  <2>1. q \in Nat /\ a = q * n /\ p \in Nat /\ v = p * n
    BY <1>2, <1>4
  <2> HIDE DEF q, p
  <2>2. CASE p >= q + 1
    <3>1. (q + 1) * n <= p * n /\ (q + 1) * n = q * n + n
      BY <2>1, <2>2, Products
    <3> QED BY <1>4, <2>1, <3>1
  <2>3. CASE p <= q
    <3>1. p * n <= q * n
      BY <2>1, <2>3, Products
    <3> QED BY <1>4, <2>1, <3>1
  <2> QED BY <2>1, <2>2, <2>3
<1>5. ASSUME NEW x \in Nat
      PROVE  x - (x % n) \in Nat /\ (x - (x % n)) % n = 0 /\ (x >= n => x - (x % n) >= n)
  <2> DEFINE q == x \div n
             r == x % n
             y == q * n
  <2>1. q \in Nat /\ r \in 0 .. n - 1 /\ y \in Nat /\ x = y + r
    BY <1>2
  <2>2. y % n = 0
    BY <1>1, <2>1
  <2>3. q >= 1 => y >= n
    <3> HIDE DEF q
    <3>1. q >= 1 => 1 * n <= q * n
      BY <2>1, Products
    <3> QED BY <3>1
  <2>4. q = 0 => y = 0
    BY <2>1
  <2> HIDE DEF q, r, y
  <2>5. x - r = y
    BY <2>1
  <2>6. x >= n => y >= n
    BY <2>1, <2>3, <2>4
  <2> QED BY <2>1, <2>2, <2>5, <2>6 DEF r
<1>6. ASSUME NEW x \in Nat, NEW y \in Nat, x <= y, y % n = 0
      PROVE  ((x + n - 1) \div n) * n <= y
  <2> DEFINE z == x + n - 1
             q == z \div n
             p == y \div n
  <2>1. z \in Nat /\ p \in Nat /\ y = p * n
    BY <1>2, <1>6
  <2>2. q \in Nat /\ q * n <= z
    <3> HIDE DEF z
    <3>1. q \in Nat /\ z % n \in 0 .. n - 1 /\ q * n \in Nat /\ z = q * n + (z % n)
      BY <1>2, <2>1
    <3> DEFINE w == q * n
    <3> HIDE DEF w
    <3> QED BY <3>1, <2>1 DEF w
  <2> HIDE DEF q, p
  <2>3. CASE q >= p + 1
    <3>1. (p + 1) * n <= q * n /\ (p + 1) * n = p * n + n
      BY <2>1, <2>2, <2>3, Products
    <3>2. FALSE
      <4> DEFINE u == p * n
                 w == q * n
      <4>1. u + n <= w /\ w <= z /\ y = u
        BY <2>1, <2>2, <3>1
      <4>2. u \in Nat /\ w \in Nat
        BY <2>1, <2>2, Products
      <4> HIDE DEF u, w
      <4> QED BY <1>6, <4>1, <4>2
    <3> QED BY <3>2
  <2>4. CASE q <= p
    BY <2>1, <2>2, <2>4, Products DEF q
  <2> QED BY <2>1, <2>2, <2>3, <2>4 DEF q
<1> QED BY <1>1, <1>3, <1>4, <1>5, <1>6

\* Quotients by n.
LEMMA Quotients ==
  ASSUME NEW n \in Nat \ {0}
  PROVE  /\ \A x \in Nat : x \div n \in Nat
         /\ \A q \in Nat : q * n \in Nat /\ (q * n) \div n = q
         /\ \A q, x \in Nat : x >= q * n => x \div n >= q
         /\ \A q, x \in Nat : x < q * n => x \div n < q
         /\ \A x, y \in Nat : x <= y => x \div n <= y \div n
<1>1. ASSUME NEW x \in Nat
      PROVE  /\ x \div n \in Nat /\ x % n \in 0 .. n - 1
             /\ (x \div n) * n \in Nat
             /\ x = (x \div n) * n + (x % n)
  BY DivMod, Products
<1>2. ASSUME NEW q \in Nat PROVE q * n \in Nat /\ (q * n) \div n = q
  <2>1. q * n \in Nat /\ 0 \in 0 .. n - 1
    BY Products
  <2>2. (q * n + 0) \div n = q
    BY <2>1, DivMod
  <2>3. q * n + 0 = q * n
    BY <2>1
  <2> QED BY <2>1, <2>2, <2>3
<1>3. ASSUME NEW q \in Nat, NEW x \in Nat, x >= q * n PROVE x \div n >= q
  <2> DEFINE r == x \div n
  <2>1. r \in Nat /\ r * n \in Nat /\ x % n \in 0 .. n - 1 /\ x = r * n + (x % n)
    BY <1>1
  <2> HIDE DEF r
  <2> SUFFICES ASSUME r < q PROVE FALSE
    BY <2>1 DEF r
  <2>2. (r + 1) * n <= q * n /\ (r + 1) * n = r * n + n
    BY <2>1, Products
  <2> QED BY <1>2, <1>3, <2>1, <2>2
<1>4. ASSUME NEW q \in Nat, NEW x \in Nat, x < q * n PROVE x \div n < q
  <2> DEFINE r == x \div n
  <2>1. r \in Nat /\ r * n \in Nat /\ x % n \in 0 .. n - 1 /\ x = r * n + (x % n)
    BY <1>1
  <2> HIDE DEF r
  <2> SUFFICES ASSUME r >= q PROVE FALSE
    BY <2>1 DEF r
  <2>2. q * n <= r * n
    BY <2>1, Products
  <2> QED BY <1>2, <1>4, <2>1, <2>2
<1>5. ASSUME NEW x \in Nat, NEW y \in Nat, x <= y PROVE x \div n <= y \div n
  <2> DEFINE r == x \div n
  <2>1. r \in Nat /\ r * n \in Nat /\ x >= r * n
    <3>1. r \in Nat /\ r * n \in Nat /\ x % n \in 0 .. n - 1 /\ x = r * n + (x % n)
      BY <1>1
    <3> HIDE DEF r
    <3> QED BY <3>1
  <2> HIDE DEF r
  <2>2. y >= r * n
    BY <1>5, <2>1
  <2> QED BY <1>1, <1>3, <2>1, <2>2 DEF r
<1> QED BY <1>1, <1>2, <1>3, <1>4, <1>5

\* The numbers from a multiple of n to the next have its quotient.
LEMMA InBlock ==
  ASSUME NEW n \in Nat \ {0}, NEW c \in Nat, c % n = 0, NEW v \in Nat, c <= v, v < c + n
  PROVE  v \div n = c \div n /\ v % n = v - c
<1> DEFINE q == c \div n
           r == v - c
<1>1. r \in 0 .. n - 1 /\ v = c + r
  OBVIOUS
<1>2. q \in Nat /\ c = q * n
  <2>1. q \in Nat /\ c = q * n + (c % n)
    BY DivMod
  <2>2. q * n \in Nat
    BY <2>1, Products
  <2> QED BY <2>1, <2>2
<1> HIDE DEF q, r
<1>3. (q * n + r) \div n = q /\ (q * n + r) % n = r
  BY <1>1, <1>2, DivMod
<1> QED BY <1>1, <1>2, <1>3 DEF q, r

\* There is room for n between two multiples of n.
LEMMA RoomAbove ==
  ASSUME NEW n \in Nat \ {0}, NEW c \in Nat, NEW m \in Nat, c % n = 0, m % n = 0, c < m
  PROVE  c + n <= m
<1> DEFINE p == c \div n
           q == m \div n
<1>1. p \in Nat /\ q \in Nat /\ c = p * n + (c % n) /\ m = q * n + (m % n)
  BY DivMod
<1>2. p * n \in Nat /\ q * n \in Nat
  BY <1>1, Products
<1>3. c = p * n /\ m = q * n
  BY <1>1, <1>2
<1> HIDE DEF p, q
<1>4. p < q
  <2> SUFFICES ASSUME q <= p PROVE FALSE
    BY <1>1
  <2>1. q * n <= p * n
    BY <1>1, Products
  <2> QED BY <1>2, <1>3, <2>1
<1>5. p + 1 <= q /\ p + 1 \in Nat
  BY <1>1, <1>4
<1>6. (p + 1) * n <= q * n /\ (p + 1) * n = p * n + n
  BY <1>1, <1>5, Products
<1> QED BY <1>3, <1>6

\* A number is known by its quotient and its remainder; one of four digits to
\* the base n by its digits.
LEMMA FourDigits ==
  ASSUME NEW n \in Nat \ {0}, NEW v \in Nat, NEW w \in Nat,
         ((v \div n) \div n) \div n < n, ((w \div n) \div n) \div n < n,
         v % n = w % n, (v \div n) % n = (w \div n) % n,
         ((v \div n) \div n) % n = ((w \div n) \div n) % n,
         (((v \div n) \div n) \div n) % n = (((w \div n) \div n) \div n) % n
  PROVE  v = w
<1>1. ASSUME NEW x \in Nat, NEW y \in Nat, x \div n = y \div n, x % n = y % n PROVE x = y
  <2>1. x = (x \div n) * n + (x % n) /\ y = (y \div n) * n + (y % n)
    BY DivMod
  <2> QED BY <1>1, <2>1
<1> DEFINE v1 == v \div n
           v2 == v1 \div n
           v3 == v2 \div n
           w1 == w \div n
           w2 == w1 \div n
           w3 == w2 \div n
<1>2. v1 \in Nat /\ w1 \in Nat
  BY DivMod
<1>3. v2 \in Nat /\ w2 \in Nat
  <2> HIDE DEF v1, w1
  <2> QED BY <1>2, DivMod
<1>4. v3 \in Nat /\ w3 \in Nat
  <2> HIDE DEF v2, w2
  <2> QED BY <1>3, DivMod
<1>5. v3 = w3
  <2>1. v3 < n /\ w3 < n /\ v3 % n = w3 % n
    OBVIOUS
  <2> HIDE DEF v3, w3
  <2>2. v3 % n = v3 /\ w3 % n = w3
    BY <1>4, <2>1
  <2> QED BY <2>1, <2>2
<1>6. v2 = w2
  <2>1. v2 \div n = w2 \div n /\ v2 % n = w2 % n
    BY <1>5
  <2> HIDE DEF v2, w2
  <2> QED BY <1>1, <1>3, <2>1
<1>7. v1 = w1
  <2>1. v1 \div n = w1 \div n /\ v1 % n = w1 % n
    BY <1>6
  <2> HIDE DEF v1, w1
  <2> QED BY <1>1, <1>2, <2>1
<1> QED BY <1>1, <1>7

\* h is the function on 0 .. m that is given below R and goes on by F from what
\* it is at the quotient.
Divides(h, base, F, R, m) ==
  \A n \in 0 .. m : h[n] = IF n < R THEN base[n] ELSE F[n][h[n \div R]]

\* The same for every natural number.
DividesAll(h, base, F, R) ==
  \A n \in Nat : h[n] = IF n < R THEN base[n] ELSE F[n][h[n \div R]]

\* A quotient is smaller than what is divided.
LEMMA QuotientSmaller ==
  ASSUME NEW R \in Nat, R >= 2, NEW n \in Nat, n >= R
  PROVE  n \div R \in Nat /\ n \div R < n
<1> DEFINE q == n \div R
<1>1. q \in Nat /\ n % R \in 0 .. R - 1 /\ n = q * R + (n % R)
  <2>1. R \in Nat \ {0}
    OBVIOUS
  <2> QED BY <2>1, DivMod
<1> HIDE DEF q
<1>2. q * 2 <= q * R
  <2>1. 2 * q <= R * q
    BY <1>1, Products
  <2>2. 2 * q = q * 2 /\ R * q = q * R
    BY <1>1
  <2> QED BY <2>1, <2>2
<1> DEFINE a == q * R
<1>3. a \in Nat /\ q * 2 <= a /\ a <= n
  <2>1. a \in Nat
    BY <1>1, Products
  <2> QED BY <1>1, <1>2, <2>1
<1> HIDE DEF a
<1>4. q < n
  BY <1>1, <1>3
<1> QED BY <1>1, <1>4 DEF q

\* Two such functions agree.
LEMMA DivisionAgrees ==
  ASSUME NEW base, NEW F, NEW R \in Nat, R >= 2, NEW m \in Nat, NEW l \in Nat,
         NEW g, NEW h, Divides(g, base, F, R, m), Divides(h, base, F, R, l)
  PROVE  \A n \in Nat : n <= m /\ n <= l => g[n] = h[n]
<1> SUFFICES ASSUME NEW z \in Nat, z <= m, z <= l, g[z] # h[z] PROVE FALSE
  OBVIOUS
<1> DEFINE T == {n \in 0 .. m : n <= l /\ g[n] # h[n]}
<1>1. z \in T /\ T \in SUBSET Nat
  OBVIOUS
<1>2. PICK n \in T : \A y \in T : n <= y
  <2> HIDE DEF T
  <2> QED BY <1>1, LeastElement
<1>3. n \in 0 .. m /\ n \in 0 .. l /\ g[n] # h[n] /\ n \in Nat
  OBVIOUS
<1>4. /\ g[n] = IF n < R THEN base[n] ELSE F[n][g[n \div R]]
      /\ h[n] = IF n < R THEN base[n] ELSE F[n][h[n \div R]]
  BY <1>3 DEF Divides
<1>5. n >= R
  BY <1>3, <1>4
<1>6. PICK q \in Nat : q = n \div R /\ q < n
  BY <1>3, <1>5, QuotientSmaller
<1>7. q \in 0 .. m /\ q <= l /\ q \notin T
  BY <1>2, <1>3, <1>6
<1>8. g[q] = h[q]
  BY <1>7
<1> QED BY <1>3, <1>4, <1>6, <1>8

\* A function that is given below R and goes on from the quotient exists.
LEMMA RecursionByDivision ==
  ASSUME NEW V, NEW R \in Nat, R >= 2, NEW base \in [Nat -> V], NEW F \in [Nat -> [V -> V]]
  PROVE  \E h \in [Nat -> V] : DividesAll(h, base, F, R)
<1> DEFINE S == {m \in Nat : \E h \in [0 .. m -> V] : Divides(h, base, F, R, m)}
<1>1. 0 \in S
  <2> DEFINE h == [n \in 0 .. 0 |-> base[0]]
  <2>1. h \in [0 .. 0 -> V]
    OBVIOUS
  <2>2. \A n \in 0 .. 0 : n = 0 /\ n < R /\ h[n] = base[n]
    OBVIOUS
  <2>3. Divides(h, base, F, R, 0)
    BY <2>2 DEF Divides
  <2> QED BY <2>1, <2>3
<1>2. ASSUME NEW m \in Nat, m \in S PROVE m + 1 \in S
  <2>1. PICK g \in [0 .. m -> V] : Divides(g, base, F, R, m)
    BY <1>2
  <2> DEFINE e == IF m + 1 < R THEN base[m + 1] ELSE F[m + 1][g[(m + 1) \div R]]
             h == [n \in 0 .. m + 1 |-> IF n <= m THEN g[n] ELSE e]
  <2>2. e \in V
    <3>1. CASE m + 1 < R
      BY <3>1
    <3>2. CASE ~(m + 1 < R)
      <4>1. m + 1 \in Nat /\ m + 1 >= R
        BY <3>2
      <4>2. PICK q \in Nat : q = (m + 1) \div R /\ q < m + 1
        BY <4>1, QuotientSmaller
      <4>3. q \in 0 .. m
        BY <4>2
      <4>4. F[m + 1] \in [V -> V] /\ g[q] \in V
        BY <4>1, <4>3
      <4>5. F[m + 1][g[q]] \in V
        BY <4>4
      <4> QED BY <3>2, <4>2, <4>5
    <3> QED BY <3>1, <3>2
  <2> HIDE DEF e
  <2>3. h \in [0 .. m + 1 -> V]
    BY <2>2
  <2>4. ASSUME NEW n \in 0 .. m + 1
        PROVE  h[n] = IF n < R THEN base[n] ELSE F[n][h[n \div R]]
    <3>0. n \in Nat
      OBVIOUS
    <3>1. n >= R => \E q \in Nat : q = n \div R /\ q < n /\ q <= m /\ h[q] = g[q]
      <4> SUFFICES ASSUME n >= R
                   PROVE  \E q \in Nat : q = n \div R /\ q < n /\ q <= m /\ h[q] = g[q]
        OBVIOUS
      <4>1. PICK q \in Nat : q = n \div R /\ q < n
        BY <3>0, QuotientSmaller
      <4>2. q <= m /\ q \in 0 .. m + 1
        BY <4>1
      <4>3. h[q] = g[q]
        BY <4>2
      <4> QED BY <4>1, <4>2, <4>3
    <3>2. CASE n <= m
      <4>1. n \in 0 .. m /\ h[n] = g[n]
        BY <3>2
      <4>2. g[n] = IF n < R THEN base[n] ELSE F[n][g[n \div R]]
        BY <2>1, <4>1 DEF Divides
      <4> HIDE DEF h
      <4>3. CASE n < R
        BY <4>1, <4>2, <4>3
      <4>4. CASE n >= R
        <5>1. PICK q \in Nat : q = n \div R /\ h[q] = g[q]
          BY <3>1, <4>4
        <5>2. ~(n < R)
          BY <3>0, <4>4
        <5> QED BY <4>1, <4>2, <5>1, <5>2
      <4> QED BY <3>0, <4>3, <4>4
    <3>3. CASE ~(n <= m)
      <4>1. n = m + 1 /\ h[n] = e
        BY <3>3
      <4> HIDE DEF h
      <4>3. CASE n < R
        BY <4>1, <4>3 DEF e
      <4>4. CASE n >= R
        <5>1. PICK q \in Nat : q = n \div R /\ h[q] = g[q]
          BY <3>1, <4>4
        <5>2. ~(n < R)
          BY <3>0, <4>4
        <5> QED BY <4>1, <5>1, <5>2 DEF e
      <4> QED BY <3>0, <4>3, <4>4
    <3> QED BY <3>2, <3>3
  <2> HIDE DEF h
  <2>5. Divides(h, base, F, R, m + 1)
    BY <2>4 DEF Divides
  <2> QED BY <2>3, <2>5
<1> HIDE DEF S
<1>3. Nat \subseteq S
  BY <1>1, <1>2, Induct
<1>4. \A m \in Nat : \E h \in [0 .. m -> V] : Divides(h, base, F, R, m)
  BY <1>3 DEF S
<1> DEFINE H(m) == CHOOSE h \in [0 .. m -> V] : Divides(h, base, F, R, m)
<1>5. \A m \in Nat : H(m) \in [0 .. m -> V] /\ Divides(H(m), base, F, R, m)
  BY <1>4
<1> HIDE DEF H
<1> DEFINE h == [n \in Nat |-> H(n)[n]]
<1>6. h \in [Nat -> V]
  <2> SUFFICES ASSUME NEW n \in Nat PROVE H(n)[n] \in V
    OBVIOUS
  <2>1. n \in 0 .. n
    OBVIOUS
  <2> QED BY <1>5, <2>1
<1>7. ASSUME NEW n \in Nat PROVE h[n] = IF n < R THEN base[n] ELSE F[n][h[n \div R]]
  <2>1. n \in 0 .. n /\ Divides(H(n), base, F, R, n) /\ h[n] = H(n)[n]
    BY <1>5
  <2>2. H(n)[n] = IF n < R THEN base[n] ELSE F[n][H(n)[n \div R]]
    BY <2>1 DEF Divides
  <2>3. n >= R => h[n \div R] = H(n)[n \div R]
    <3> SUFFICES ASSUME n >= R PROVE h[n \div R] = H(n)[n \div R]
      OBVIOUS
    <3>1. PICK q \in Nat : q = n \div R /\ q < n
      BY QuotientSmaller
    <3>2. Divides(H(q), base, F, R, q) /\ h[q] = H(q)[q] /\ q <= n /\ q <= q
      BY <1>5, <3>1
    <3>3. H(q)[q] = H(n)[q]
      <4> PICK g1 : g1 = H(q)
        OBVIOUS
      <4> PICK g2 : g2 = H(n)
        OBVIOUS
      <4>1. Divides(g1, base, F, R, q) /\ Divides(g2, base, F, R, n)
        BY <2>1, <3>2
      <4>2. \A x \in Nat : x <= q /\ x <= n => g1[x] = g2[x]
        <5> HIDE DEF H, h
        <5> QED BY ONLY <4>1, q \in Nat, n \in Nat, R \in Nat, R >= 2, DivisionAgrees
      <4> QED BY <3>1, <3>2, <4>2
    <3> QED BY <3>1, <3>2, <3>3
  <2> HIDE DEF h
  <2> QED BY <2>1, <2>2, <2>3
<1> HIDE DEF h
<1> QED BY <1>6, <1>7 DEF DividesAll

=============================================================================
