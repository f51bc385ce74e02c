------------------------------ MODULE NatFacts ------------------------------
(* Facts about natural numbers that the proofs of this project share: least *)
(* elements, induction over an interval for a SET of numbers (the library's *)
(* induction theorems have an operator parameter, which the installed       *)
(* provers cannot instantiate), recursion over an interval, remainders.     *)
EXTENDS Integers, WellFoundedInduction, TLAPS

\* Every set of numbers that is not empty has a least element.
LEMMA LeastNat ==
    ASSUME NEW T \in SUBSET Nat, T # {}
    PROVE  \E m \in T : \A k \in T : m <= k
<1> DEFINE R == OpToRel(<, Nat)
<1>1. IsWellFoundedOn(R, Nat)
  BY NatLessThanWellFounded
<1>2. \A x, y \in Nat : x < y => <<x, y>> \in R
  BY DEF OpToRel
<1> HIDE DEF R
<1>3. PICK x \in T : \A y \in T : ~ (<<y, x>> \in R)
  BY <1>1, WFMin
<1>4. T \subseteq Nat
  OBVIOUS
<1>5. ASSUME NEW k \in T PROVE x <= k
  <2>1. x \in Nat /\ k \in Nat
    BY <1>4
  <2>2. ~ (k < x)
    BY <2>1, <1>2, <1>3
  <2> QED
    BY <2>1, <2>2
<1> QED
  BY <1>5

\* Induction, for the set of the numbers that have the property.
LEMMA NatSetInduction ==
    ASSUME NEW T \in SUBSET Nat, 0 \in T, \A n \in Nat : n \in T => n + 1 \in T
    PROVE  T = Nat
<1> SUFFICES ASSUME Nat \ T # {} PROVE FALSE
  OBVIOUS
<1>1. PICK m \in Nat \ T : \A k \in Nat \ T : m <= k
  <2> DEFINE U == Nat \ T
  <2> U \in SUBSET Nat /\ U # {}
    OBVIOUS
  <2> HIDE DEF U
  <2> \E m \in U : \A k \in U : m <= k
    BY LeastNat
  <2> QED
    BY DEF U
<1>2. m # 0
  OBVIOUS
<1>3. m - 1 \in Nat /\ m - 1 \in T
  BY <1>1, <1>2
<1> QED
  BY <1>3

\* The same from 0 up to n.
LEMMA IntervalInduction ==
    ASSUME NEW n \in Nat, NEW T, 0 \in T,
           \A i \in 1 .. n : i - 1 \in T => i \in T
    PROVE  0 .. n \subseteq T
<1> DEFINE U == {i \in Nat : i <= n => i \in T}
<1>1. U \in SUBSET Nat /\ 0 \in U
  OBVIOUS
<1>2. ASSUME NEW i \in Nat, i \in U PROVE i + 1 \in U
  <2>1. CASE i + 1 <= n
    <3>1. i + 1 \in 1 .. n /\ (i + 1) - 1 = i /\ i <= n
      BY <2>1
    <3> QED
      BY <3>1, <1>2
  <2> QED
    BY <2>1
<1> HIDE DEF U
<1>3. U = Nat
  BY <1>1, <1>2, NatSetInduction
<1> QED
  BY <1>3 DEF U

\* f is x0 at 0 and goes from i - 1 to i by the function step[i].
IsRecursion(f, n, X, x0, step) ==
    /\ f \in [0 .. n -> X]
    /\ f[0] = x0
    /\ \A i \in 1 .. n : f[i] = step[i][f[i - 1]]

\* A recursive definition over 0 .. n has a solution.
LEMMA RecursionExists ==
    ASSUME NEW n \in Nat, NEW X, NEW x0 \in X, NEW step \in [1 .. n -> [X -> X]]
    PROVE  \E f : IsRecursion(f, n, X, x0, step)
<1> DEFINE P(m) == \E f : IsRecursion(f, m, X, x0, step)
           T == {m \in 0 .. n : P(m)}
<1>1. P(0)
  <2> DEFINE f == [i \in 0 .. 0 |-> x0]
  <2>1. f \in [0 .. 0 -> X] /\ f[0] = x0
    OBVIOUS
  <2>2. \A i \in 1 .. 0 : f[i] = step[i][f[i - 1]]
    OBVIOUS
  <2> HIDE DEF f
  <2> QED
    BY <2>1, <2>2 DEF IsRecursion
<1>2. ASSUME NEW m \in 1 .. n, P(m - 1) PROVE P(m)
  <2>1. PICK f : IsRecursion(f, m - 1, X, x0, step)
    BY <1>2
  <2> DEFINE g == [i \in 0 .. m |-> IF i = m THEN step[m][f[m - 1]] ELSE f[i]]
  <2>2. f \in [0 .. m - 1 -> X] /\ f[0] = x0
    BY <2>1 DEF IsRecursion
  <2>3. \A i \in 1 .. m - 1 : f[i] = step[i][f[i - 1]]
    BY <2>1 DEF IsRecursion
  <2>4. g \in [0 .. m -> X]
    <3>1. m - 1 \in 0 .. m - 1 /\ f[m - 1] \in X /\ step[m][f[m - 1]] \in X
      BY <2>2
    <3>2. \A i \in 0 .. m : i # m => i \in 0 .. m - 1
      OBVIOUS
    <3> QED
      BY <3>1, <3>2, <2>2
  <2>5. g[0] = x0
    BY <2>2
  <2>6. ASSUME NEW i \in 1 .. m PROVE g[i] = step[i][g[i - 1]]
    <3>1. i - 1 \in 0 .. m - 1 /\ g[i - 1] = f[i - 1]
      OBVIOUS
    <3>2. CASE i = m
      BY <3>1, <3>2
    <3>3. CASE i # m
      <4>1. i \in 1 .. m - 1 /\ g[i] = f[i]
        BY <3>3
      <4> QED
        BY <4>1, <3>1, <2>3
    <3> QED
      BY <3>2, <3>3
  <2> HIDE DEF g
  <2> QED
    BY <2>4, <2>5, <2>6 DEF IsRecursion
<1> HIDE DEF P
<1>3. 0 \in T
  BY <1>1
<1>4. \A i \in 1 .. n : i - 1 \in T => i \in T
  BY <1>2
<1> HIDE DEF T
<1>5. 0 .. n \subseteq T
  BY <1>3, <1>4, IntervalInduction
<1>6. P(n)
  BY <1>5 DEF T
<1> QED
  BY <1>6 DEF P

\* Of the numbers up to n in a set that is not empty, one is the greatest.
LEMMA GreatestUpTo ==
    ASSUME NEW n \in Int, NEW T \in SUBSET Int, T # {}, \A k \in T : k <= n
    PROVE  \E m \in T : \A k \in T : k <= m
<1> DEFINE U == {i \in Nat : n - i \in T}
<1>1. U \in SUBSET Nat /\ U # {}
  <2>1. PICK k \in T : TRUE
    OBVIOUS
  <2>2. k \in Int /\ n - k \in Nat /\ n - (n - k) = k
    BY <2>1
  <2> QED
    BY <2>2
<1>2. \A k \in T : n - k \in U
  OBVIOUS
<1>3. \A i \in U : i \in Nat /\ n - i \in T
  OBVIOUS
<1> HIDE DEF U
<1>4. PICK i \in U : \A j \in U : i <= j
  BY <1>1, LeastNat
<1>5. ASSUME NEW k \in T PROVE k <= n - i
  BY <1>2, <1>3, <1>4
<1> QED
  BY <1>3, <1>5

-----------------------------------------------------------------------------
(* Quotients and remainders *)

\* Division with remainder.
LEMMA DivMod ==
    ASSUME NEW a \in Int, NEW d \in Nat \ {0}
    PROVE  /\ a \div d \in Int /\ a % d \in 0 .. d - 1
           /\ a = d * (a \div d) + (a % d)
BY Z3

\* Multiples of d are d apart.
LEMMA ProductGap ==
    ASSUME NEW a \in Int, NEW b \in Int, NEW d \in Nat \ {0}, a < b
    PROVE  d * a + d <= d * b
<1>1. PICK k \in Nat : b = a + 1 + k
  <2> b - a - 1 \in Nat /\ b = a + 1 + (b - a - 1) OBVIOUS
  <2> QED OBVIOUS
<1>2. d * b = d * a + d + d * k
  BY <1>1
<1>3. d * k >= 0
  OBVIOUS
<1>4. d * a \in Int /\ d * b \in Int /\ d * k \in Int
  OBVIOUS
<1> QED
  BY <1>2, <1>3, <1>4

\* The remainder and the quotient are the only ones.
LEMMA DivModUnique ==
    ASSUME NEW a \in Int, NEW d \in Nat \ {0}, NEW q \in Int, NEW r \in 0 .. d - 1, a = d * q + r
    PROVE  a % d = r /\ a \div d = q
<1>1. a \div d \in Int /\ a % d \in 0 .. d - 1 /\ a = d * (a \div d) + (a % d)
  BY DivMod
<1> DEFINE p == a \div d
           m == a % d
<1>2. p \in Int /\ m \in 0 .. d - 1 /\ d * p + m = d * q + r
  BY <1>1
<1> HIDE DEF p, m
<1>4. d * p \in Int /\ d * q \in Int
  BY <1>2
<1>3. p = q
  <2>1. ~ (p < q)
    <3> SUFFICES ASSUME p < q PROVE FALSE OBVIOUS
    <3> d * p + d <= d * q BY <1>2, ProductGap
    <3> QED
      BY <1>2, <1>4
  <2>2. ~ (q < p)
    <3> SUFFICES ASSUME q < p PROVE FALSE OBVIOUS
    <3> d * q + d <= d * p BY <1>2, ProductGap
    <3> QED
      BY <1>2, <1>4
  <2> QED
    BY <2>1, <2>2, <1>2
<1>5. m = r
  BY <1>2, <1>3, <1>4
<1> QED
  BY <1>3, <1>5 DEF p, m

\* A multiple of d does not change a remainder.
LEMMA ModShift ==
    ASSUME NEW a \in Int, NEW d \in Nat \ {0}, NEW k \in Int
    PROVE  (a + d * k) % d = a % d
<1> DEFINE q == a \div d
           r == a % d
<1>1. q \in Int /\ r \in 0 .. d - 1 /\ a = d * q + r
  BY DivMod
<1> HIDE DEF q, r
<1>2. a + d * k = d * (q + k) + r /\ a + d * k \in Int /\ q + k \in Int
  BY <1>1
<1>3. (a + d * k) % d = r
  BY <1>1, <1>2, DivModUnique
<1> QED
  BY <1>3 DEF r

\* Two numbers less than d apart have different remainders.
LEMMA ModSeparates ==
    ASSUME NEW a \in Int, NEW b \in Int, NEW d \in Nat \ {0}, a < b, b < a + d
    PROVE  a % d # b % d
<1> SUFFICES ASSUME a % d = b % d PROVE FALSE
  OBVIOUS
<1> DEFINE p == a \div d
           q == b \div d
           r == b % d
<1>1. p \in Int /\ q \in Int /\ r \in 0 .. d - 1 /\ a = d * p + r /\ b = d * q + r
  BY DivMod
<1> HIDE DEF p, q, r
<1>2. d * p \in Int /\ d * q \in Int /\ d * p < d * q /\ d * q < d * p + d
  BY <1>1
<1>3. ~ (p < q)
  BY <1>1, <1>2, ProductGap
<1>4. p # q
  BY <1>2
<1>5. ~ (q < p)
  BY <1>1, <1>2, ProductGap
<1> QED
  BY <1>1, <1>3, <1>4, <1>5

\* A number below d is its own remainder.
LEMMA ModSmall ==
    ASSUME NEW d \in Nat \ {0}, NEW a \in 0 .. d - 1
    PROVE  a % d = a
<1>1. a \in Int /\ a = d * 0 + a OBVIOUS
<1> QED
  BY <1>1, DivModUnique

\* Reducing modulo a multiple of d first changes nothing: a free-running index
\* of a ring whose size divides its range.
LEMMA ModMod ==
    ASSUME NEW a \in Int, NEW d \in Nat \ {0}, NEW m \in Nat \ {0}, m % d = 0
    PROVE  (a % m) % d = a % d
<1> DEFINE k == m \div d
           q == a \div m
<1>1. k \in Int /\ m = d * k
  BY DivMod
<1>2. q \in Int /\ a % m \in Int /\ a = m * q + (a % m)
  BY DivMod
<1> HIDE DEF k, q
<1>3. m * q = d * (k * q) /\ k * q \in Int
  BY <1>1, <1>2
<1>4. ((a % m) + d * (k * q)) % d = (a % m) % d
  BY <1>2, <1>3, ModShift
<1>5. a = (a % m) + d * (k * q)
  BY <1>2, <1>3
<1> QED
  BY <1>4, <1>5, Zenon

\* u and v have the same remainder.  (An abbreviation the provers match on.)
Congruent(u, v, d) == u % d = v % d

\* A remainder may be taken before a sum or a difference.
LEMMA ModAbsorbs ==
    ASSUME NEW a \in Int, NEW b \in Int, NEW d \in Nat \ {0}
    PROVE  /\ Congruent((a % d) + b, a + b, d)
           /\ Congruent(b - (a % d), b - a, d)
<1> DEFINE q == a \div d
           r == a % d
<1>1. q \in Int /\ r \in Int /\ a = d * q + r
  BY DivMod
<1> HIDE DEF q, r
<1>2. r + b \in Int /\ b - r \in Int /\ -q \in Int
  BY <1>1
<1>3. a + b = (r + b) + d * q /\ b - a = (b - r) + d * (-q)
  BY <1>1
<1>4. ((r + b) + d * q) % d = (r + b) % d
  BY <1>1, <1>2, ModShift
<1>5. ((b - r) + d * (-q)) % d = (b - r) % d
  BY <1>2, ModShift
<1> QED
  BY <1>3, <1>4, <1>5 DEF r, Congruent

\* An index reduced early, modulo a multiple of d, reaches the same cell.
LEMMA ModPlus ==
    ASSUME NEW a \in Int, NEW b \in Int, NEW d \in Nat \ {0}, NEW m \in Nat \ {0}, m % d = 0
    PROVE  Congruent((a % m) + b, a + b, d)
<1> DEFINE u == (a % m) + b
           v == a + b
<1>1. u \in Int /\ v \in Int
  BY DivMod
<1>2. u % m = v % m
  BY ModAbsorbs DEF Congruent
<1> HIDE DEF u, v
<1>3. (u % m) % d = u % d /\ (v % m) % d = v % d
  BY <1>1, ModMod
<1>4. Congruent(u, v, d)
  BY <1>2, <1>3 DEF Congruent
<1> QED
  BY <1>4 DEF u, v
=============================================================================
