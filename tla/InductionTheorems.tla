--------------------------- MODULE InductionTheorems ---------------------------
(***************************************************************************)
(* Induction over the natural numbers and over finite sets, stated about   *)
(* sets so that they can be cited, and what the sums of Totals are.        *)
(***************************************************************************)
EXTENDS Totals, FiniteSets, TLAPS, WellFoundedInduction, FiniteSetTheorems

\* A set of natural numbers has a least one.  The sets 1..n of its members are
\* finite sets, and those are well-founded by inclusion.
LEMMA LeastNatural ==
    ASSUME NEW T \in SUBSET Nat, T # {}
    PROVE  \E x \in T : \A y \in T : x <= y
<1> DEFINE UpTo(n) == 1..n
           Intervals == {UpTo(n) : n \in T}
<1>1. Intervals \subseteq FiniteSubsetsOf(Nat) /\ Intervals # {}
  <2>1. ASSUME NEW n \in T PROVE UpTo(n) \in FiniteSubsetsOf(Nat)
    <3>1. IsFiniteSet(1..n)
      BY FS_Interval
    <3> QED
      BY <3>1 DEF FiniteSubsetsOf
  <2> QED
    BY <2>1
<1>2. PICK U \in Intervals : \A V \in Intervals : ~(<<V, U>> \in StrictSubsetOrdering(Nat))
  <2> HIDE DEF Intervals
  <2> QED
    BY <1>1, FS_StrictSubsetOrderingWellFounded, WFMin
<1>3. PICK x \in T : U = UpTo(x)
  BY <1>2
<1>4. ASSUME NEW y \in T, y < x PROVE FALSE
  <2>1. UpTo(y) \subseteq UpTo(x) /\ UpTo(y) # UpTo(x) /\ UpTo(x) \subseteq Nat
    BY <1>4
  <2>2. <<UpTo(y), UpTo(x)>> \in StrictSubsetOrdering(Nat)
    BY <2>1 DEF StrictSubsetOrdering
  <2> QED
    BY <1>2, <1>3, <2>2
<1> QED
  BY <1>4

\* A set that has 0, and with every number the next one, has them all.
LEMMA NatInductionOnSet ==
    ASSUME NEW S, 0 \in S, \A n \in Nat : n \in S => n + 1 \in S
    PROVE  Nat \subseteq S
<1> SUFFICES ASSUME Nat \ S # {} PROVE FALSE
  OBVIOUS
<1>1. PICK x \in Nat \ S : \A y \in Nat \ S : x <= y
  BY LeastNatural
<1>2. x - 1 \in Nat /\ x - 1 \in S
  BY <1>1
<1> QED
  BY <1>1, <1>2

-----------------------------------------------------------------------------
(* Sums of sequences *)

\* What the sums of the first n numbers are, for each n.
Sums(numbers, f) ==
    \A n \in 0..Len(numbers) : f[n] = IF n = 0 THEN 0 ELSE f[n - 1] + numbers[n]

\* The function Total defines by recursion exists.
LEMMA TotalExists ==
    ASSUME NEW numbers \in Seq(Int)
    PROVE  \E f : Sums(numbers, f) /\ Total(numbers) = f[Len(numbers)]
<1> DEFINE Exists(m) ==
             \E f : f = [n \in 0..m |-> IF n = 0 THEN 0 ELSE f[n - 1] + numbers[n]]
<1>1. Exists(0)
  <2>1. [n \in 0..0 |-> 0]
          = [n \in 0..0 |-> IF n = 0 THEN 0 ELSE [k \in 0..0 |-> 0][n - 1] + numbers[n]]
    OBVIOUS
  <2> QED
    BY <2>1
<1>2. ASSUME NEW m \in Nat, Exists(m) PROVE Exists(m + 1)
  <2>1. PICK f : f = [n \in 0..m |-> IF n = 0 THEN 0 ELSE f[n - 1] + numbers[n]]
    BY <1>2
  <2> DEFINE g == [n \in 0..m + 1 |-> IF n = m + 1 THEN f[m] + numbers[m + 1] ELSE f[n]]
  <2>2. \A n \in 0..m + 1 : g[n] = IF n = 0 THEN 0 ELSE g[n - 1] + numbers[n]
    BY <2>1
  <2>3. g = [n \in 0..m + 1 |-> IF n = 0 THEN 0 ELSE g[n - 1] + numbers[n]]
    BY <2>2
  <2> QED
    BY <2>3
<1>3. Nat \subseteq {m \in Nat : Exists(m)}
  <2> HIDE DEF Exists
  <2>1. 0 \in {m \in Nat : Exists(m)}
    BY <1>1
  <2>2. \A n \in Nat : n \in {m \in Nat : Exists(m)} => n + 1 \in {m \in Nat : Exists(m)}
    BY <1>2
  <2> QED
    BY <2>1, <2>2, NatInductionOnSet
<1>4. PICK f : f = [n \in 0..Len(numbers) |->
                       IF n = 0 THEN 0 ELSE f[n - 1] + numbers[n]]
  BY <1>3
<1> DEFINE F == CHOOSE h : h = [n \in 0..Len(numbers) |->
                                 IF n = 0 THEN 0 ELSE h[n - 1] + numbers[n]]
<1>5. F = [n \in 0..Len(numbers) |-> IF n = 0 THEN 0 ELSE F[n - 1] + numbers[n]]
  BY <1>4
<1>6. Total(numbers) = F[Len(numbers)]
  BY DEF Total
<1> HIDE DEF F
<1>7. Sums(numbers, F)
  <2>1. ASSUME NEW n \in 0..Len(numbers)
        PROVE  F[n] = IF n = 0 THEN 0 ELSE F[n - 1] + numbers[n]
    <3> DEFINE body == [k \in 0..Len(numbers) |-> IF k = 0 THEN 0 ELSE F[k - 1] + numbers[k]]
    <3>1. F[n] = body[n]
      BY <1>5
    <3> QED
      BY <3>1
  <2> QED
    BY <2>1 DEF Sums
<1> QED
  BY <1>6, <1>7

\* Functions that obey the same recursion are the same where both are defined.
LEMMA SameSums ==
    ASSUME NEW p \in Seq(Int), NEW q \in Seq(Int), NEW m \in Nat, m <= Len(p), m <= Len(q),
           \A n \in 1..m : p[n] = q[n],
           NEW f, Sums(p, f), NEW g, Sums(q, g)
    PROVE  f[m] = g[m] /\ f[m] \in Int
<1> DEFINE S == {n \in Nat : n <= m => f[n] = g[n] /\ f[n] \in Int}
<1>1. /\ \A n \in 0..m : f[n] = IF n = 0 THEN 0 ELSE f[n - 1] + p[n]
      /\ \A n \in 0..m : g[n] = IF n = 0 THEN 0 ELSE g[n - 1] + q[n]
  BY DEF Sums
<1>2. 0 \in S
  BY <1>1
<1>3. ASSUME NEW n \in Nat, n \in S PROVE n + 1 \in S
  <2> SUFFICES ASSUME n + 1 <= m PROVE f[n + 1] = g[n + 1] /\ f[n + 1] \in Int
    OBVIOUS
  <2>1. n + 1 \in 1..m /\ p[n + 1] = q[n + 1] /\ p[n + 1] \in Int
    OBVIOUS
  <2>2. f[n] = g[n] /\ f[n] \in Int
    BY <1>3
  <2>3. f[n + 1] = f[n] + p[n + 1] /\ g[n + 1] = g[n] + q[n + 1]
    BY <1>1, <2>1
  <2> QED
    BY <2>1, <2>2, <2>3
<1>4. m \in S
  BY <1>2, <1>3, NatInductionOnSet
<1> QED
  BY <1>4

LEMMA TotalIsInt ==
    ASSUME NEW numbers \in Seq(Int)
    PROVE  Total(numbers) \in Int
BY TotalExists, SameSums

LEMMA TotalOfEmpty == Total(<<>>) = 0
<1>1. <<>> \in Seq(Int) /\ Len(<<>>) = 0
  OBVIOUS
<1>2. PICK f : Sums(<<>>, f) /\ Total(<<>>) = f[0]
  BY <1>1, TotalExists
<1> QED
  BY <1>1, <1>2 DEF Sums

LEMMA TotalOfAppend ==
    ASSUME NEW numbers \in Seq(Int), NEW x \in Int
    PROVE  Total(Append(numbers, x)) = Total(numbers) + x
<1> DEFINE longer == Append(numbers, x)
           n == Len(numbers)
<1>1. /\ longer \in Seq(Int) /\ Len(longer) = n + 1 /\ n \in Nat
      /\ longer[n + 1] = x /\ \A k \in 1..n : longer[k] = numbers[k]
  OBVIOUS
<1> HIDE DEF longer
<1>2. PICK f : Sums(numbers, f) /\ Total(numbers) = f[n]
  BY TotalExists
<1>3. PICK g : Sums(longer, g) /\ Total(longer) = g[n + 1]
  BY <1>1, TotalExists
<1>4. f[n] = g[n]
  <2>1. \A k \in 1..n : numbers[k] = longer[k]
    BY <1>1
  <2>2. n <= Len(numbers) /\ n <= Len(longer)
    BY <1>1
  <2> HIDE DEF n
  <2> QED
    BY <1>1, <1>2, <1>3, <2>1, <2>2, SameSums
<1>5. g[n + 1] = g[n] + x
  BY <1>1, <1>3 DEF Sums
<1> QED
  BY <1>2, <1>3, <1>4, <1>5 DEF longer

\* One number is one more.
LEMMA TotalOfOneMore ==
    ASSUME NEW p \in Seq(Int), NEW q \in Seq(Int), Len(q) = Len(p), NEW j \in 1..Len(p),
           \A n \in 1..Len(p) : q[n] = IF n = j THEN p[n] + 1 ELSE p[n]
    PROVE  Total(q) = Total(p) + 1
<1>1. PICK f : Sums(p, f) /\ Total(p) = f[Len(p)]
  BY TotalExists
<1>2. PICK g : Sums(q, g) /\ Total(q) = g[Len(p)]
  BY TotalExists
<1>3. /\ \A n \in 0..Len(p) : f[n] = IF n = 0 THEN 0 ELSE f[n - 1] + p[n]
      /\ \A n \in 0..Len(p) : g[n] = IF n = 0 THEN 0 ELSE g[n - 1] + q[n]
  BY <1>1, <1>2 DEF Sums
<1> DEFINE Good(n) == f[n] \in Int /\ g[n] = IF n < j THEN f[n] ELSE f[n] + 1
           S == {n \in Nat : n <= Len(p) => Good(n)}
<1>4. 0 \in S
  BY <1>3
<1>5. ASSUME NEW n \in Nat, n \in S PROVE n + 1 \in S
  <2> SUFFICES ASSUME n + 1 <= Len(p) PROVE Good(n + 1)
    OBVIOUS
  <2>1. /\ n + 1 \in 1..Len(p) /\ p[n + 1] \in Int
        /\ q[n + 1] = IF n + 1 = j THEN p[n + 1] + 1 ELSE p[n + 1]
    OBVIOUS
  <2>2. f[n + 1] = f[n] + p[n + 1] /\ g[n + 1] = g[n] + q[n + 1]
    BY <1>3, <2>1
  <2>3. f[n] \in Int /\ g[n] = IF n < j THEN f[n] ELSE f[n] + 1
    BY <1>5
  <2>4. j \in Int
    OBVIOUS
  <2> DEFINE a == f[n]
             b == g[n]
             x == p[n + 1]
             y == q[n + 1]
             c == f[n + 1]
             d == g[n + 1]
  <2>5. /\ x \in Int /\ y = IF n + 1 = j THEN x + 1 ELSE x
        /\ c = a + x /\ d = b + y
        /\ a \in Int /\ b = IF n < j THEN a ELSE a + 1
    BY <2>1, <2>2, <2>3
  <2> HIDE DEF a, b, x, y, c, d
  <2>6. c \in Int /\ d = IF n + 1 < j THEN c ELSE c + 1
    BY <2>4, <2>5
  <2> QED
    BY <2>6 DEF c, d
<1>6. Nat \subseteq S
  <2> HIDE DEF S
  <2> QED
    BY <1>4, <1>5, NatInductionOnSet
<1>7. Good(Len(p))
  <2>1. Len(p) \in Nat
    OBVIOUS
  <2> QED
    BY <1>6, <2>1
<1> QED
  BY <1>1, <1>2, <1>7

LEMMA TotalOfZeros ==
    ASSUME NEW p \in Seq(Int), \A n \in 1..Len(p) : p[n] = 0
    PROVE  Total(p) = 0
<1>1. PICK f : Sums(p, f) /\ Total(p) = f[Len(p)]
  BY TotalExists
<1>2. \A n \in 0..Len(p) : f[n] = IF n = 0 THEN 0 ELSE f[n - 1] + p[n]
  BY <1>1 DEF Sums
<1> DEFINE S == {n \in Nat : n <= Len(p) => f[n] = 0}
<1>3. 0 \in S
  BY <1>2
<1>4. ASSUME NEW n \in Nat, n \in S PROVE n + 1 \in S
  <2> SUFFICES ASSUME n + 1 <= Len(p) PROVE f[n + 1] = 0
    OBVIOUS
  <2>1. n + 1 \in 1..Len(p) /\ n + 1 \in 0..Len(p) /\ n + 1 # 0 /\ (n + 1) - 1 = n
    OBVIOUS
  <2>2. f[n] = 0 /\ p[n + 1] = 0
    BY <1>4, <2>1
  <2>3. f[n + 1] = f[n] + p[n + 1]
    BY <1>2, <2>1
  <2> QED
    BY <2>2, <2>3
<1>5. Nat \subseteq S
  <2> HIDE DEF S
  <2> QED
    BY <1>3, <1>4, NatInductionOnSet
<1>6. Len(p) \in Nat
  OBVIOUS
<1> QED
  BY <1>1, <1>5, <1>6

-----------------------------------------------------------------------------
(* Powers of two *)

\* The first powers, in a function.
Powers(n, f) ==
    /\ DOMAIN f = 0..n
    /\ \A k \in 0..n : f[k] \in Nat /\ f[k] = IF k = 0 THEN 1 ELSE 2 * f[k - 1]

LEMMA SamePowers ==
    ASSUME NEW m \in Nat, NEW n \in Nat, NEW f, NEW g, Powers(m, f), Powers(n, g),
           NEW k \in Nat, k <= m, k <= n
    PROVE  f[k] = g[k]
<1> DEFINE S == {i \in Nat : i <= m /\ i <= n => f[i] = g[i]}
<1>1. 0 \in S
  BY DEF Powers
<1>2. ASSUME NEW i \in Nat, i \in S PROVE i + 1 \in S
  BY <1>2 DEF Powers
<1>3. k \in S
  <2> HIDE DEF S
  <2> QED
    BY <1>1, <1>2, NatInductionOnSet
<1> QED
  BY <1>3

LEMMA PowersExist ==
    ASSUME NEW n \in Nat
    PROVE  \E f : Powers(n, f)
<1> DEFINE S == {m \in Nat : \E f : Powers(m, f)}
<1>1. 0 \in S
  <2>1. Powers(0, [k \in 0..0 |-> 1])
    BY DEF Powers
  <2> QED
    BY <2>1
<1>2. ASSUME NEW m \in Nat, m \in S PROVE m + 1 \in S
  <2>1. PICK f : Powers(m, f)
    BY <1>2
  <2> DEFINE g == [k \in 0..m + 1 |-> IF k = m + 1 THEN 2 * f[m] ELSE f[k]]
  <2>2. Powers(m + 1, g)
    <3> SUFFICES ASSUME NEW k \in 0..m + 1
                 PROVE  g[k] \in Nat /\ g[k] = IF k = 0 THEN 1 ELSE 2 * g[k - 1]
      BY DEF Powers
    <3>1. CASE k = m + 1
      BY <2>1, <3>1 DEF Powers
    <3>2. CASE k # m + 1
      BY <2>1, <3>2 DEF Powers
    <3> QED
      BY <3>1, <3>2
  <2> QED
    BY <2>2
<1>3. n \in S
  <2> HIDE DEF S
  <2> QED
    BY <1>1, <1>2, NatInductionOnSet
<1> QED
  BY <1>3

\* The function that PowerOfTwo defines by recursion exists.
LEMMA PowerOfTwoFacts ==
    /\ PowerOfTwo[0] = 1
    /\ \A n \in Nat : PowerOfTwo[n] \in Nat /\ PowerOfTwo[n + 1] = 2 * PowerOfTwo[n]
<1> DEFINE upTo(n) == CHOOSE f : Powers(n, f)
           P == [n \in Nat |-> upTo(n)[n]]
<1>1. ASSUME NEW n \in Nat PROVE Powers(n, upTo(n))
  BY PowersExist
<1> HIDE DEF upTo
<1>2. ASSUME NEW n \in Nat, NEW k \in 0..n PROVE P[k] = upTo(n)[k]
  <2>1. k \in Nat /\ k <= n
    OBVIOUS
  <2>2. upTo(k)[k] = upTo(n)[k]
    BY <1>1, <2>1, SamePowers
  <2> QED
    BY <2>1, <2>2
<1>3. ASSUME NEW n \in Nat
      PROVE  P[n] \in Nat /\ P[n] = IF n = 0 THEN 1 ELSE 2 * P[n - 1]
  <2>1. P[n] = upTo(n)[n] /\ upTo(n)[n] \in Nat
        /\ upTo(n)[n] = IF n = 0 THEN 1 ELSE 2 * upTo(n)[n - 1]
    BY <1>1 DEF Powers
  <2>2. n # 0 => P[n - 1] = upTo(n)[n - 1]
    BY <1>2
  <2> HIDE DEF P
  <2> QED
    BY <2>1, <2>2
<1>4. P = [n \in Nat |-> IF n = 0 THEN 1 ELSE 2 * P[n - 1]]
  <2> DEFINE body == [n \in Nat |-> IF n = 0 THEN 1 ELSE 2 * P[n - 1]]
  <2>1. \A n \in Nat : P[n] = body[n]
    BY <1>3
  <2>2. DOMAIN P = Nat /\ P = [n \in Nat |-> P[n]]
    OBVIOUS
  <2> HIDE DEF P
  <2> QED
    BY <2>1, <2>2
<1> DEFINE chosen == CHOOSE f : f = [n \in Nat |-> IF n = 0 THEN 1 ELSE 2 * f[n - 1]]
<1>5. PowerOfTwo = chosen
  BY DEF PowerOfTwo
<1>6. chosen = [n \in Nat |-> IF n = 0 THEN 1 ELSE 2 * chosen[n - 1]]
  <2> HIDE DEF P
  <2> QED
    BY <1>4
<1> HIDE DEF chosen
<1>7. ASSUME NEW n \in Nat
      PROVE  chosen[n] = IF n = 0 THEN 1 ELSE 2 * chosen[n - 1]
  <2> DEFINE body == [k \in Nat |-> IF k = 0 THEN 1 ELSE 2 * chosen[k - 1]]
  <2>1. chosen[n] = body[n]
    BY <1>6
  <2> QED
    BY <2>1
<1> DEFINE S == {n \in Nat : chosen[n] \in Nat}
<1>8. 0 \in S /\ \A n \in Nat : n \in S => n + 1 \in S
  BY <1>7
<1>9. Nat \subseteq S
  <2> HIDE DEF S
  <2> QED
    BY <1>8, NatInductionOnSet
<1> QED
  BY <1>5, <1>7, <1>9

\* A larger exponent gives at least twice the power.
LEMMA PowersGrow ==
    ASSUME NEW m \in Nat, NEW n \in Nat, m < n
    PROVE  2 * PowerOfTwo[m] <= PowerOfTwo[n]
<1> DEFINE S == {k \in Nat : m < k => 2 * PowerOfTwo[m] <= PowerOfTwo[k]}
<1>1. 0 \in S
  OBVIOUS
<1>2. ASSUME NEW k \in Nat, k \in S PROVE k + 1 \in S
  <2>1. PowerOfTwo[k] \in Nat /\ PowerOfTwo[k + 1] = 2 * PowerOfTwo[k] /\ PowerOfTwo[m] \in Nat
    BY PowerOfTwoFacts
  <2>2. CASE m = k
    BY <2>1, <2>2
  <2>3. CASE m # k
    BY <1>2, <2>1, <2>3
  <2> QED
    BY <2>2, <2>3
<1>3. n \in S
  <2> HIDE DEF S
  <2> QED
    BY <1>1, <1>2, NatInductionOnSet
<1> QED
  BY <1>3

\* Every number below a power of two is between two powers.
LEMMA LogExists ==
    ASSUME NEW m \in Nat, NEW n \in Nat, 1 <= n, n < PowerOfTwo[m]
    PROVE  \E x \in 0..m - 1 : PowerOfTwo[x] <= n /\ n < PowerOfTwo[x + 1]
<1> DEFINE S == {k \in Nat : n < PowerOfTwo[k]}
<1>1. S \in SUBSET Nat /\ S # {}
  OBVIOUS
<1>2. PICK k \in S : \A j \in S : k <= j
  <2> HIDE DEF S
  <2> QED
    BY <1>1, LeastNatural
<1>3. k <= m /\ k # 0
  BY <1>2, PowerOfTwoFacts
<1>4. k - 1 \in Nat /\ k - 1 \notin S
  BY <1>2, <1>3
<1>5. PowerOfTwo[k - 1] <= n
  BY <1>4, PowerOfTwoFacts
<1> QED
  BY <1>2, <1>3, <1>4, <1>5

===============================================================================
