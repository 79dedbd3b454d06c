----------------------------- MODULE NumberFacts -----------------------------
(***************************************************************************)
(* Facts about numbers that several proofs need and the library does not   *)
(* have: least elements, division with remainder, and the functions that   *)
(* recursion over 0 .. N defines.                                          *)
(***************************************************************************)
EXTENDS Integers, WellFoundedInduction, TLAPS

\* A set of naturals that is not empty has a least element.
LEMMA LeastNumber ==
    ASSUME NEW S, S \subseteq Nat, S # {}
    PROVE  \E x \in S : \A y \in S : x <= y
<1>1. PICK x \in S : \A y \in S : ~ (<<y, x>> \in OpToRel(<, Nat))
  BY NatLessThanWellFounded, WFMin
<1>2. \A y \in S : ~ (y < x)
  BY <1>1 DEF OpToRel
<1> QED BY <1>2

-----------------------------------------------------------------------------
(***************************************************************************)
(* Division with remainder.                                                *)
(***************************************************************************)
\* Quotient and remainder put a number together again.
LEMMA Divided ==
    ASSUME NEW n \in Nat \ {0}, NEW x \in Int
    PROVE  /\ x \div n \in Int /\ x % n \in Nat /\ x % n < n
           /\ x = n * (x \div n) + (x % n)
OBVIOUS

\* There is one way to do so.
LEMMA DivisionIsUnique ==
    ASSUME NEW n \in Nat \ {0}, NEW x \in Int, NEW q \in Int, NEW r \in Nat,
           r < n, x = n * q + r
    PROVE  x \div n = q /\ x % n = r
<1> DEFINE other == x \div n
           below == x % n
<1>1. /\ other \in Int /\ below \in Nat /\ below < n
      /\ x = n * other + below
  BY Divided
<1> HIDE DEF other, below
<1>2. n * (q - other) = below - r
  BY <1>1
<1> DEFINE gap == q - other
<1>3. gap \in Int /\ n * gap < n /\ - n < n * gap
  BY <1>1, <1>2
<1> HIDE DEF gap
<1>4. gap = 0
  <2>1. CASE gap >= 1
    <3>1. n * gap >= n
      BY <1>3, <2>1
    <3> QED BY <1>3, <3>1
  <2>2. CASE gap <= -1
    <3>1. n * gap <= - n
      BY <1>3, <2>2
    <3> QED BY <1>3, <3>1
  <2> QED BY <1>3, <2>1, <2>2
<1>5. other = q
  BY <1>1, <1>4 DEF gap
<1>6. below = r
  BY <1>1, <1>5
<1> QED BY <1>5, <1>6 DEF other, below

\* Dividing twice is dividing by the product.
LEMMA DivisionNests ==
    ASSUME NEW a \in Nat \ {0}, NEW b \in Nat \ {0}, NEW x \in Int
    PROVE  /\ (x \div a) \div b = x \div (a * b)
           /\ x % (a * b) = (x % a) + a * ((x \div a) % b)
<1> DEFINE q == x \div a
           r == x % a
           top == q \div b
           digit == q % b
<1>1. q \in Int /\ r \in Nat /\ r < a /\ x = a * q + r
  BY Divided
<1> HIDE DEF q, r
<1>2. top \in Int /\ digit \in Nat /\ digit < b /\ q = b * top + digit
  BY <1>1, Divided
<1> HIDE DEF top, digit
<1>3. a * b \in Nat \ {0} /\ a * digit + r \in Nat
  BY <1>1, <1>2
<1>4. a * digit + r < a * b
  <2>1. a * (digit + 1) <= a * b
    BY <1>2
  <2>2. a * (digit + 1) = a * digit + a
    BY <1>2
  <2> QED BY <1>1, <1>2, <1>3, <2>1, <2>2
<1>5. x = (a * b) * top + (a * digit + r)
  <2>1. a * q = (a * b) * top + a * digit
    BY <1>1, <1>2
  <2> QED BY <1>1, <1>2, <2>1
<1>6. x \div (a * b) = top /\ x % (a * b) = a * digit + r
  BY <1>2, <1>3, <1>4, <1>5, DivisionIsUnique
<1>7. a * digit + r = r + a * digit
  BY <1>1, <1>2
<1> QED BY <1>6, <1>7 DEF top, digit, q, r

\* A number below twice the modulus loses it at most once.
LEMMA ModOnce ==
    ASSUME NEW n \in Nat \ {0}, NEW x \in Nat, x < 2 * n
    PROVE  x % n = IF x < n THEN x ELSE x - n
<1>1. CASE x < n
  BY <1>1
<1>2. CASE x >= n
  BY <1>2
<1> QED BY <1>1, <1>2

-----------------------------------------------------------------------------
(***************************************************************************)
(* Recursion over the numbers up to N: it has a solution, and what every   *)
(* step keeps holds at the end.                                            *)
(***************************************************************************)
Steps(N, T) == [1 .. N -> [T -> T]]
Runs(N, T, base, step) ==
    {f \in [0 .. N -> T] :
        \A n \in 0 .. N : f[n] = IF n = 0 THEN base ELSE step[n][f[n - 1]]}

LEMMA RecursionExists ==
    ASSUME NEW T, NEW base \in T, NEW N \in Nat, NEW step \in Steps(N, T)
    PROVE  Runs(N, T, base, step) # {}
<1> DEFINE Solves(f, m) ==
             \A n \in 0 .. m : f[n] = IF n = 0 THEN base ELSE step[n][f[n - 1]]
           Has(m) == \E f \in [0 .. m -> T] : Solves(f, m)
           Bad == {m \in 0 .. N : ~ Has(m)}
<1> USE DEF Steps
<1>1. Bad = {}
  <2>1. SUFFICES ASSUME Bad # {} PROVE FALSE
    OBVIOUS
  <2>2. PICK m \in Bad : \A k \in Bad : m <= k
    <3>1. Bad \subseteq Nat
      OBVIOUS
    <3> HIDE DEF Bad
    <3> QED BY <2>1, <3>1, LeastNumber
  <2>3. m \in 0 .. N /\ ~ Has(m)
    OBVIOUS
  <2>4. m # 0
    <3>1. [n \in 0 .. 0 |-> base] \in [0 .. 0 -> T] /\ Solves([n \in 0 .. 0 |-> base], 0)
      OBVIOUS
    <3>2. Has(0)
      BY <3>1
    <3> HIDE DEF Has
    <3> QED BY <2>3, <3>2
  <2>5. m - 1 \in 0 .. N /\ Has(m - 1)
    <3>1. m - 1 \in 0 .. N /\ ~ (m <= m - 1)
      BY <2>3, <2>4
    <3> HIDE DEF Has
    <3> QED BY <2>2, <3>1
  <2>6. PICK f \in [0 .. m - 1 -> T] : Solves(f, m - 1)
    BY <2>5
  <2> DEFINE g == [n \in 0 .. m |-> IF n = m THEN step[m][f[m - 1]] ELSE f[n]]
  <2>7. m \in 1 .. N /\ f[m - 1] \in T
    BY <2>3, <2>4
  <2>8. g \in [0 .. m -> T]
    <3>1. step[m][f[m - 1]] \in T
      BY <2>7
    <3>2. \A n \in 0 .. m : n # m => n \in 0 .. m - 1
      BY <2>3
    <3> QED BY <3>1, <3>2
  <2>9. Solves(g, m)
    <3> SUFFICES ASSUME NEW n \in 0 .. m
                 PROVE  g[n] = IF n = 0 THEN base ELSE step[n][g[n - 1]]
      OBVIOUS
    <3>1. CASE n = m
      <4>1. g[m] = step[m][f[m - 1]] /\ g[m - 1] = f[m - 1]
        BY <2>7
      <4> QED BY <2>4, <3>1, <4>1
    <3>2. CASE n # m
      <4>1. n \in 0 .. m - 1 /\ g[n] = f[n]
        BY <2>3, <3>2
      <4>2. f[n] = IF n = 0 THEN base ELSE step[n][f[n - 1]]
        BY <2>6, <4>1
      <4>3. n # 0 => g[n - 1] = f[n - 1]
        BY <2>3, <4>1
      <4> HIDE DEF g
      <4> QED BY <4>1, <4>2, <4>3
    <3> QED BY <3>1, <3>2
  <2>10. Has(m)
    <3> HIDE DEF g, Solves
    <3> QED BY <2>8, <2>9
  <2> HIDE DEF Has
  <2> QED BY <2>3, <2>10
<1>2. Has(N)
  <2> HIDE DEF Has
  <2> QED BY <1>1
<1> QED BY <1>2 DEF Runs

\* P[n] is the set of what may have come out after n steps.
LEMMA RecursionKeeps ==
    ASSUME NEW N \in Nat, NEW f, NEW P, f[0] \in P[0],
           \A n \in 1 .. N : f[n - 1] \in P[n - 1] => f[n] \in P[n]
    PROVE  f[N] \in P[N]
<1> DEFINE Bad == {n \in 0 .. N : f[n] \notin P[n]}
<1>1. SUFFICES ASSUME Bad # {} PROVE FALSE
  OBVIOUS
<1>2. PICK m \in Bad : \A k \in Bad : m <= k
  <2>1. Bad \subseteq Nat
    OBVIOUS
  <2> HIDE DEF Bad
  <2> QED BY <1>1, <2>1, LeastNumber
<1>3. m \in 1 .. N
  OBVIOUS
<1>4. m - 1 \in 0 .. N /\ ~ (m <= m - 1)
  BY <1>3
<1> QED BY <1>2, <1>3, <1>4

-----------------------------------------------------------------------------
(***************************************************************************)
(* Powers.                                                                 *)
(***************************************************************************)
\* Powers of n up to the Nth, as a recursive definition has them.
Power(n, N) ==
    CHOOSE p : p = [i \in 0 .. N |-> IF i = 0 THEN 1 ELSE n * p[i - 1]]

Powers(n, N) ==
    {p \in [0 .. N -> Nat \ {0}] :
        p[0] = 1 /\ \A i \in 1 .. N : p[i] = n * p[i - 1]}

\* The recursion has a solution, so they are its values.
LEMMA PowersMultiply ==
    ASSUME NEW n \in Nat \ {0}, NEW N \in Nat
    PROVE  Power(n, N) \in Powers(n, N)
<1> DEFINE T == Nat \ {0}
           step == [i \in 1 .. N |-> [x \in T |-> n * x]]
           Solves(p) == p = [i \in 0 .. N |-> IF i = 0 THEN 1 ELSE n * p[i - 1]]
           power == CHOOSE p : Solves(p)
<1>1. step \in Steps(N, T) /\ 1 \in T
  BY DEF Steps
<1>2. Runs(N, T, 1, step) # {}
  <2> HIDE DEF T, step
  <2> QED BY <1>1, RecursionExists
<1>3. PICK f \in [0 .. N -> T] :
        \A i \in 0 .. N : f[i] = IF i = 0 THEN 1 ELSE step[i][f[i - 1]]
  <2> HIDE DEF step, T
  <2> QED BY <1>2 DEF Runs
<1>4. \A i \in 1 .. N : i - 1 \in 0 .. N /\ step[i][f[i - 1]] = n * f[i - 1]
  OBVIOUS
<1>5. Solves(f)
  <2> DEFINE F == [i \in 0 .. N |-> IF i = 0 THEN 1 ELSE n * f[i - 1]]
  <2>1. \A i \in 0 .. N : i = 0 \/ i \in 1 .. N
    OBVIOUS
  <2>2. \A i \in 0 .. N : f[i] = F[i]
    <3> HIDE DEF step, T
    <3> QED BY <1>3, <1>4, <2>1
  <2>3. f = [i \in 0 .. N |-> f[i]] /\ F = [i \in 0 .. N |-> F[i]]
    OBVIOUS
  <2>4. f = F
    <3> HIDE DEF F, T
    <3> QED BY <2>2, <2>3
  <2> QED BY <2>4
<1>6. Solves(power)
  <2> HIDE DEF Solves
  <2> QED BY <1>5
<1>7. Power(n, N) = power
  BY DEF Power
<1> HIDE DEF power
<1>8. power[0] = 1 /\ \A i \in 1 .. N : power[i] = n * power[i - 1]
  BY <1>6
<1>9. ASSUME NEW m \in 0 .. N PROVE power[m] \in T
  <2> DEFINE P == [i \in 0 .. N |-> T]
  <2>1. \A i \in 1 .. m : power[i - 1] \in P[i - 1] => power[i] \in P[i]
    <3> SUFFICES ASSUME NEW i \in 1 .. m, power[i - 1] \in P[i - 1]
                 PROVE  power[i] \in P[i]
      OBVIOUS
    <3>1. i \in 1 .. N /\ i \in 0 .. N /\ i - 1 \in 0 .. N
      OBVIOUS
    <3>2. power[i - 1] \in T /\ power[i] = n * power[i - 1]
      BY <1>8, <3>1
    <3>3. power[i] \in T
      <4> DEFINE x == power[i - 1]
      <4> HIDE DEF x
      <4>1. x \in T => n * x \in T
        OBVIOUS
      <4> QED BY <3>2, <4>1 DEF x
    <3> QED BY <3>1, <3>3
  <2>2. m \in Nat /\ power[0] \in P[0] /\ P[m] = T
    BY <1>8
  <2> HIDE DEF P
  <2>3. power[m] \in P[m]
    BY <2>1, <2>2, RecursionKeeps
  <2> QED BY <2>2, <2>3
<1>10. power = [i \in 0 .. N |-> power[i]]
  BY <1>6
<1> HIDE DEF Solves
<1>11. power \in [0 .. N -> T]
  BY <1>9, <1>10
<1> QED BY <1>7, <1>8, <1>11 DEF Powers

\* Powers with exponents that add up.
LEMMA PowersAdd ==
    ASSUME NEW n \in Nat \ {0}, NEW N \in Nat, NEW p \in Powers(n, N),
           NEW a \in Nat, NEW b \in Nat, a + b <= N
    PROVE  p[a] * p[b] = p[a + b]
<1>1. /\ p \in [0 .. N -> Nat \ {0}] /\ p[0] = 1
      /\ \A i \in 1 .. N : p[i] = n * p[i - 1]
  BY DEF Powers
<1> DEFINE product == [i \in 0 .. b |-> p[a] * p[i]]
           P == [i \in 0 .. b |-> {p[a + i]}]
<1>2. product[0] \in P[0]
  <2>1. p[a] \in Nat /\ a + 0 = a
    BY <1>1
  <2> QED BY <1>1, <2>1
<1>3. ASSUME NEW i \in 1 .. b, product[i - 1] \in P[i - 1]
      PROVE  product[i] \in P[i]
  <2>1. /\ i \in 0 .. b /\ i - 1 \in 0 .. b /\ i \in 1 .. N /\ i - 1 \in 0 .. N
        /\ a + i \in 1 .. N /\ (a + i) - 1 = a + (i - 1)
    OBVIOUS
  <2>2. p[a] * p[i - 1] = p[a + (i - 1)]
    BY <1>3, <2>1
  <2>3. p[i] = n * p[i - 1] /\ p[a + i] = n * p[a + (i - 1)]
    BY <1>1, <2>1
  <2>4. p[a] \in Nat /\ p[i - 1] \in Nat
    BY <1>1, <2>1
  <2>5. p[a] * (n * p[i - 1]) = n * (p[a] * p[i - 1])
    BY <2>4
  <2>6. p[a] * p[i] = p[a + i]
    BY <2>2, <2>3, <2>5
  <2> QED BY <2>1, <2>6
<1>4. product[b] \in P[b]
  <2> HIDE DEF product, P
  <2> QED BY <1>2, <1>3, RecursionKeeps
<1> QED BY <1>4
=============================================================================
