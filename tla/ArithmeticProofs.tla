--------------------------- MODULE ArithmeticProofs ---------------------------
(***************************************************************************)
(* Arithmetic.  For words of any width: the flags of ADD and ADDI tell     *)
(* exactly when the unsigned and the signed sum do not fit, the flags of   *)
(* CMP and SUB decide every comparison of two words, products, quotients   *)
(* and remainders are the integers' as far as a word holds them, and a     *)
(* shift is that many shifts by one.  For any two registers and any values *)
(* in them: the code t32-cc writes for an operator of C computes what the  *)
(* operator means.                                                         *)
(***************************************************************************)
EXTENDS OperatorCheck, NumberFacts, SequenceTheorems, TLAPS

-----------------------------------------------------------------------------
(***************************************************************************)
(* The ALU, on every pair of operands that AluCheck presents.              *)
(***************************************************************************)
\* The invariant these theorems need: the operands are words.
Operands == left \in Words /\ right \in Words

\* The successor of a word is a word.
LEMMA OperandsInvariant == PairSpec => []Operands
<1>1. M \in Nat \ {0} /\ 0 \in Words
  BY WordAssumption DEF M, Words
<1>2. FirstPair => Operands
  BY <1>1 DEF FirstPair, Operands
<1>3. ASSUME Operands, [NextPair]_operands PROVE Operands'
  <2>1. CASE NextPair
    <3>1. right + 1 \in Nat
      BY <1>1, <1>3 DEF Operands, Words
    <3>2. (right + 1) % M \in Words
      BY <1>1, <3>1 DEF Words
    <3> QED BY <1>3, <2>1, <3>2 DEF Operands, NextPair
  <2>2. CASE UNCHANGED operands
    BY <1>3, <2>2 DEF operands, Operands
  <2> QED BY <1>3, <2>1, <2>2
<1> QED BY <1>2, <1>3, PTL DEF PairSpec

-----------------------------------------------------------------------------
(***************************************************************************)
(* Sums and differences of two words wrap at most once.                    *)
(***************************************************************************)
\* A number above minus the modulus gains it at most once.
LEMMA WrapUnder ==
    ASSUME NEW n \in Nat \ {0}, NEW x \in Int, - n < x, x < n
    PROVE  x % n = IF x >= 0 THEN x ELSE x + n
<1>1. CASE x >= 0
  BY <1>1
<1>2. CASE x < 0
  BY <1>2
<1> QED BY <1>1, <1>2

\* The sum of two words loses the modulus when it does not fit.
LEMMA SumWraps ==
    ASSUME NEW a \in Words, NEW b \in Words
    PROVE  (a + b) % M = IF a + b >= M THEN (a + b) - M ELSE a + b
<1> DEFINE sum == a + b
<1>1. M \in Nat \ {0} /\ sum \in Nat /\ sum < 2 * M
  BY WordAssumption DEF M, Words
<1> HIDE DEF sum
<1>2. sum % M = IF sum < M THEN sum ELSE sum - M
  BY <1>1, ModOnce
<1>3. sum % M = IF sum >= M THEN sum - M ELSE sum
  BY <1>1, <1>2
<1> QED BY <1>3 DEF sum

\* Likewise a difference of words.
LEMMA DifferenceWraps ==
    ASSUME NEW a \in Words, NEW b \in Words
    PROVE  (a - b) % M = IF a - b >= 0 THEN a - b ELSE a - b + M
<1>1. M \in Nat \ {0} /\ a - b \in Int /\ - M < a - b /\ a - b < M
  BY WordAssumption DEF M, Words
<1> QED BY <1>1, WrapUnder

-----------------------------------------------------------------------------
\* ADD, for all operands.
LEMMA AddIsAddition == Operands => AddMeansAddition
<1> SUFFICES ASSUME Operands PROVE AddMeansAddition
  OBVIOUS
<1>1. /\ left \in Nat /\ right \in Nat /\ SignBit \in Nat /\ SignBit > 0
      /\ left < 2 * SignBit /\ right < 2 * SignBit
  BY WordAssumption DEF Operands, Words, M
<1> DEFINE sum == (left + right) % M
<1>2. sum = IF left + right >= 2 * SignBit THEN (left + right) - 2 * SignBit
                                           ELSE left + right
  BY <1>1, SumWraps DEF Operands, M
<1>3. AluAdd(left, right)
        = Outcome(sum, left + right >= M,
                  Top(left) = Top(right) /\ Top(left) # Top(sum))
  BY DEF AluAdd
<1> HIDE DEF sum
<1>4. /\ AluAdd(left, right).result = sum
      /\ AluAdd(left, right).flags.carry = (left + right >= M)
      /\ AluAdd(left, right).flags.overflow
            = (Top(left) = Top(right) /\ Top(left) # Top(sum))
  BY <1>3 DEF Outcome
<1>5. (left + right >= M) <=> sum # left + right
  BY <1>1, <1>2 DEF M
<1>6. (Top(left) = Top(right) /\ Top(left) # Top(sum))
        <=> Signed(left) + Signed(right) \notin SignedWords
  BY <1>1, <1>2 DEF Top, Signed, SignedWords, M
<1>7. ~(Top(left) = Top(right) /\ Top(left) # Top(sum))
        => Signed(sum) = Signed(left) + Signed(right)
  BY <1>1, <1>2 DEF Top, Signed, M
<1> QED BY <1>4, <1>5, <1>6, <1>7 DEF AddMeansAddition

\* CMP, for all operands.
LEMMA CompareIsOrder == Operands => CompareMeansOrder
<1> SUFFICES ASSUME Operands PROVE CompareMeansOrder
  OBVIOUS
<1>1. /\ left \in Nat /\ right \in Nat /\ SignBit \in Nat /\ SignBit > 0
      /\ left < 2 * SignBit /\ right < 2 * SignBit
  BY WordAssumption DEF Operands, Words, M
<1> DEFINE rest == (left - right) % M
<1>2. rest = IF left >= right THEN left - right ELSE left - right + 2 * SignBit
  <2>1. rest = IF left - right >= 0 THEN left - right ELSE left - right + M
    BY DifferenceWraps DEF Operands
  <2> QED BY <1>1, <2>1 DEF M
<1>3. AluSub(left, right)
        = Outcome(rest, left >= right,
                  Top(left) # Top(right) /\ Top(left) # Top(rest))
  BY DEF AluSub
<1> HIDE DEF rest
<1>4. /\ AluSub(left, right).flags.zero = (rest = 0)
      /\ AluSub(left, right).flags.carry = (left >= right)
      /\ AluSub(left, right).flags.negative = Top(rest)
      /\ AluSub(left, right).flags.overflow
            = (Top(left) # Top(right) /\ Top(left) # Top(rest))
  BY <1>3 DEF Outcome
<1>5. rest = 0 <=> left = right
  BY <1>1, <1>2
<1>6. ~(left >= right) <=> left < right
  BY <1>1
<1>7. (Top(rest) # (Top(left) # Top(right) /\ Top(left) # Top(rest)))
        <=> Signed(left) < Signed(right)
  BY <1>1, <1>2 DEF Top, Signed, M
<1> QED BY <1>4, <1>5, <1>6, <1>7 DEF CompareMeansOrder

-----------------------------------------------------------------------------
(***************************************************************************)
(* Words as signed numbers, their products and quotients.                  *)
(***************************************************************************)
\* Numbers that differ by words wrap to the same word.
LEMMA SameWord ==
    ASSUME NEW x \in Int, NEW y \in Int, NEW k \in Int, x = y + M * k
    PROVE  x % M = y % M
<1>1. M \in Nat \ {0}
  BY WordAssumption DEF M
<1>2. PICK q \in Int, r \in Nat : r < M /\ y = M * q + r
  BY <1>1, Divided
<1>3. y % M = r
  BY <1>1, <1>2, DivisionIsUnique
<1>4. x = M * (q + k) + r
  BY <1>1, <1>2
<1>5. x % M = r
  BY <1>1, <1>2, <1>4, DivisionIsUnique
<1> QED BY <1>3, <1>5

\* A word read as a signed number.
LEMMA SignedIsWord ==
    ASSUME NEW w \in Words
    PROVE  /\ Signed(w) \in Int
           /\ - SignBit <= Signed(w) /\ Signed(w) < SignBit
           /\ \E k \in Int : Signed(w) = w + M * k
<1>1. SignBit \in Nat \ {0} /\ M = 2 * SignBit /\ w \in Nat /\ w < M
  BY WordAssumption DEF M, Words
<1>2. CASE Top(w)
  <2>1. Signed(w) = w + M * (-1)
    BY <1>1, <1>2 DEF Signed
  <2> QED BY <1>1, <1>2, <2>1 DEF Top
<1>3. CASE ~ Top(w)
  <2>1. Signed(w) = w + M * 0
    BY <1>1, <1>3 DEF Signed
  <2> QED BY <1>1, <1>3, <2>1 DEF Top
<1> QED BY <1>2, <1>3

\* A number a signed word can hold is read back from its word.
LEMMA HeldIsRead ==
    ASSUME NEW x \in Int, - SignBit <= x, x < SignBit
    PROVE  x % M \in Words /\ Signed(x % M) = x
<1>1. SignBit \in Nat \ {0} /\ M = 2 * SignBit /\ M \in Nat \ {0}
  BY WordAssumption DEF M
<1>2. CASE x >= 0
  <2>1. x = M * 0 + x /\ x < M
    BY <1>1, <1>2
  <2>2. x % M = x
    BY <1>1, <1>2, <2>1, DivisionIsUnique
  <2> QED BY <1>1, <1>2, <2>1, <2>2 DEF Words, Signed, Top
<1>3. CASE x < 0
  <2>1. x = M * (-1) + (x + M) /\ x + M \in Nat /\ x + M < M /\ x + M >= SignBit
    BY <1>1, <1>3
  <2>2. x % M = x + M
    BY <1>1, <1>3, <2>1, DivisionIsUnique
  <2> QED BY <1>1, <1>3, <2>1, <2>2 DEF Words, Signed, Top
<1> QED BY <1>2, <1>3

\* The low word of a product, whichever way the factors are read.
LEMMA ProductWraps ==
    ASSUME NEW a \in Words, NEW b \in Words
    PROVE  (Signed(a) * Signed(b)) % M = (a * b) % M
<1>1. /\ M \in Nat \ {0} /\ a \in Nat /\ b \in Nat
      /\ Signed(a) \in Int /\ Signed(b) \in Int
  BY WordAssumption, SignedIsWord DEF M, Words
<1>2. PICK j \in Int, k \in Int : Signed(a) = a + M * j /\ Signed(b) = b + M * k
  BY SignedIsWord
<1> DEFINE extra == (a * k) + (j * b) + (j * (M * k))
<1>3. extra \in Int
  BY <1>1, <1>2
<1>4. Signed(a) * Signed(b) = (a * b) + M * extra
  <2>1. Signed(a) * Signed(b) = (a + M * j) * (b + M * k)
    BY <1>2
  <2> QED BY <1>1, <1>2, <2>1
<1> HIDE DEF extra
<1>5. Signed(a) * Signed(b) \in Int /\ a * b \in Int
  BY <1>1
<1> QED BY <1>3, <1>4, <1>5, SameWord

\* MUL and MULU.
LEMMA ProductsAgreed == Operands => ProductsAgree
<1> SUFFICES ASSUME Operands PROVE ProductsAgree
  OBVIOUS
<1>1. /\ M \in Nat \ {0} /\ left \in Words /\ right \in Words
      /\ left \in Nat /\ right \in Nat
      /\ Signed(left) \in Int /\ Signed(right) \in Int
  BY WordAssumption, SignedIsWord DEF M, Words, Operands
<1> DEFINE product == Signed(left) * Signed(right)
           plain == left * right
<1>2. product \in Int /\ plain \in Nat /\ product % M = plain % M
  BY <1>1, ProductWraps
<1>3. /\ Mul(left, right).result = product % M
      /\ Mul(left, right).flags.overflow
            = (product > SignBit - 1 \/ product < - SignBit)
      /\ MulU(left, right).result = plain % M
      /\ MulU(left, right).flags.carry = (plain \div M # 0)
  BY DEF Mul, MulU, Outcome
<1> HIDE DEF product, plain
<1>4. (product > SignBit - 1 \/ product < - SignBit)
        <=> product # Signed(product % M)
  <2>1. SignBit \in Nat
    BY WordAssumption
  <2>2. CASE - SignBit <= product /\ product < SignBit
    BY <1>2, <2>1, <2>2, HeldIsRead
  <2>3. CASE ~ (- SignBit <= product /\ product < SignBit)
    <3>1. product % M \in Words
      BY <1>1, <1>2, Divided DEF Words
    <3>2. - SignBit <= Signed(product % M) /\ Signed(product % M) < SignBit
      BY <3>1, SignedIsWord
    <3> QED BY <1>2, <2>1, <2>3, <3>2
  <2> QED BY <2>2, <2>3
<1>5. (plain \div M # 0) <=> plain # plain % M
  <2> DEFINE high == plain \div M
             low == plain % M
  <2>1. high \in Int /\ low \in Nat /\ plain = M * high + low
    BY <1>1, <1>2, Divided
  <2> HIDE DEF high, low
  <2>2. high >= 1 => M * high >= M
    BY <1>1, <2>1
  <2>3. high <= -1 => M * high <= - M
    BY <1>1, <2>1
  <2>4. high # 0 <=> plain # low
    BY <1>1, <2>1, <2>2, <2>3
  <2> QED BY <2>4 DEF high, low
<1> QED BY <1>2, <1>3, <1>4, <1>5 DEF ProductsAgree, product, plain

\* C's division of one signed word by another that is not zero.
LEMMA Truncated ==
    ASSUME NEW x \in Int, NEW d \in Int, d # 0
    PROVE  /\ Truncate(x, d) \in Int
           /\ x - (Truncate(x, d) * d) \in
                 (IF d > 0 THEN 1 - d .. d - 1 ELSE 1 + d .. - d - 1)
           /\ x - (Truncate(x, d) * d) # 0 => (x - (Truncate(x, d) * d) < 0 <=> x < 0)
           /\ \A top \in Nat : /\ - top <= x /\ x < top /\ ~ (x = - top /\ d = -1)
                               => - top <= Truncate(x, d) /\ Truncate(x, d) < top
           /\ \A top \in Nat : /\ - top <= x /\ x < top
                               => /\ - top <= x - (Truncate(x, d) * d)
                                  /\ x - (Truncate(x, d) * d) < top
<1> DEFINE n == IF d < 0 THEN - d ELSE d
           y == IF x < 0 THEN - x ELSE x
           q == y \div n
           r == y % n
           t == IF (x < 0) = (d < 0) THEN q ELSE - q
           rest == x - (t * d)
<1>1. n \in Nat \ {0} /\ y \in Nat
  OBVIOUS
<1>2. Truncate(x, d) = t
  BY DEF Truncate
<1>3. q \in Int /\ r \in Nat /\ r < n /\ y = n * q + r
  <2> HIDE DEF n, y
  <2> QED BY <1>1, Divided
<1> HIDE DEF q, r
<1>4. q \in Nat
  <2> HIDE DEF n, y
  <2>1. q < 0 => n * q <= - n
    BY <1>1, <1>3
  <2> QED BY <1>1, <1>3, <2>1
<1>5. q <= n * q /\ (n >= 2 /\ q # 0 => q < n * q)
  <2> HIDE DEF n, y
  <2>1. n = 1 => n * q = q
    BY <1>4
  <2>2. n >= 2 => n * q >= 2 * q
    BY <1>1, <1>4
  <2> QED BY <1>1, <1>4, <2>1, <2>2
<1>6. t \in Int /\ t * d = IF x < 0 THEN - (n * q) ELSE n * q
  BY <1>4
<1>7. rest = IF x < 0 THEN - r ELSE r
  BY <1>3, <1>4, <1>6
<1>8. rest \in (IF d > 0 THEN 1 - d .. d - 1 ELSE 1 + d .. - d - 1)
  BY <1>3, <1>7
<1>9. rest # 0 => (rest < 0 <=> x < 0)
  BY <1>3, <1>7
<1>10. n * q <= y /\ r <= y
  BY <1>1, <1>3, <1>4, <1>5
<1>11. ASSUME NEW top \in Nat, - top <= x, x < top
       PROVE  /\ - top <= rest /\ rest < top
              /\ ~ (x = - top /\ d = -1) => - top <= t /\ t < top
  <2>1. - top <= rest /\ rest < top
    BY <1>3, <1>7, <1>10, <1>11
  <2>2. q <= y /\ (y = q /\ q # 0 => n = 1)
    BY <1>1, <1>3, <1>4, <1>5, <1>10
  <2>3. ASSUME ~ (x = - top /\ d = -1) PROVE - top <= t /\ t < top
    <3>1. q <= top
      BY <1>11, <2>2, <1>4
    <3>2. CASE q = top /\ t = q
      <4>1. y = q /\ x = - top /\ q # 0
        BY <1>11, <2>2, <1>4, <3>2
      <4>2. n = 1 /\ d < 0
        BY <1>4, <2>2, <3>2, <4>1
      <4> QED BY <2>3, <4>1, <4>2
    <3> QED BY <1>4, <1>11, <3>1, <3>2
  <2> QED BY <2>1, <2>3
<1> QED BY <1>2, <1>6, <1>8, <1>9, <1>11

\* DIV, and the remainder computed from it.
LEMMA DivisionIsC ==
    ASSUME NEW a \in Words, NEW b \in Words, ~ DivFaults(a, b)
    PROVE  LET x == Signed(a)
               d == Signed(b)
               t == Truncate(x, d)
               quotient == Div(a, b).result
           IN  /\ d # 0 /\ x \in Int /\ d \in Int /\ t \in Int
               /\ quotient \in Words /\ Signed(quotient) = t
               /\ Signed(AluSub(a, Mul(quotient, b).result).result) = x - (t * d)
<1> DEFINE x == Signed(a)
           d == Signed(b)
           t == Truncate(x, d)
           quotient == t % M
           product == Signed(quotient) * d
           rest == (a - (product % M)) % M
<1>1. /\ SignBit \in Nat \ {0} /\ M \in Nat \ {0} /\ a \in Nat
      /\ x \in Int /\ - SignBit <= x /\ x < SignBit /\ d \in Int
  BY WordAssumption, SignedIsWord DEF M, Words
<1>2. d # 0 /\ ~ (x = - SignBit /\ d = - 1)
  <2>1. b # 0 /\ ~ (x = - SignBit /\ d = - 1)
    BY DEF DivFaults
  <2>2. b < M /\ b \in Nat /\ M = 2 * SignBit
    BY <1>1 DEF Words, M
  <2>3. d # 0
    BY <2>1, <2>2, <1>1 DEF Signed
  <2> QED BY <2>1, <2>3
<1>3. /\ Div(a, b).result = quotient
      /\ \A w : Mul(w, b).result = (Signed(w) * d) % M
      /\ \A w : AluSub(a, w).result = (a - w) % M
  BY DEF Div, Mul, AluSub, Outcome
<1> HIDE DEF x, d
<1>4. /\ t \in Int /\ - SignBit <= t /\ t < SignBit
      /\ - SignBit <= x - (t * d) /\ x - (t * d) < SignBit
  BY <1>1, <1>2, Truncated
<1> HIDE DEF t
<1>5. quotient \in Words /\ Signed(quotient) = t
  BY <1>4, HeldIsRead
<1>6. Signed(rest) = x - (t * d)
  <2>1. product = t * d /\ product \in Int
    BY <1>1, <1>4, <1>5
  <2> HIDE DEF product
  <2>2. /\ product \div M \in Int /\ product % M \in Nat
        /\ product = M * (product \div M) + (product % M)
    <3>1. M \in Nat \ {0}
      BY <1>1
    <3> QED BY <2>1, <3>1, Divided
  <2>3. PICK k \in Int : x = a + M * k
    BY <1>1, SignedIsWord DEF x
  <2>4. PICK j \in Int, low \in Nat : low = product % M /\ product = M * j + low
    BY <2>2
  <2>5. (x - product) % M = (a - (product % M)) % M
    <3>1. k - j \in Int /\ x - product \in Int /\ a - low \in Int
      BY <1>1, <2>1, <2>3, <2>4
    <3>2. x - product = (a - low) + M * (k - j)
      BY <1>1, <2>1, <2>3, <2>4
    <3> QED BY <2>4, <3>1, <3>2, SameWord
  <2>6. Signed((x - product) % M) = x - product
    BY <1>1, <1>4, <2>1, HeldIsRead
  <2> QED BY <2>1, <2>5, <2>6
<1>7. rest = AluSub(a, Mul(quotient, b).result).result
  BY <1>3
<1> HIDE DEF quotient, rest
<1> QED BY <1>1, <1>2, <1>3, <1>4, <1>5, <1>6, <1>7 DEF x, d, t

LEMMA RemainderIsC == Operands => RemainderMeansC
<1> SUFFICES ASSUME Operands, ~ DivFaults(left, right) PROVE RemainderMeansC
  BY DEF RemainderMeansC
<1> DEFINE x == Signed(left)
           d == Signed(right)
           t == Truncate(x, d)
           quotient == Div(left, right).result
           rest == AluSub(left, Mul(quotient, right).result).result
<1>1. /\ d # 0 /\ x \in Int /\ d \in Int /\ t \in Int
      /\ Signed(quotient) = t /\ Signed(rest) = x - (t * d)
  BY DivisionIsC DEF Operands
<1> HIDE DEF x, d
<1>2. /\ x - (t * d) \in (IF d > 0 THEN 1 - d .. d - 1 ELSE 1 + d .. - d - 1)
      /\ x - (t * d) # 0 => (x - (t * d) < 0 <=> x < 0)
  BY <1>1, Truncated
<1> HIDE DEF t
<1>3. x = t * d + (x - (t * d))
  BY <1>1
<1> HIDE DEF quotient, rest
<1> QED BY <1>1, <1>2, <1>3 DEF RemainderMeansC, x, d, quotient, rest

-----------------------------------------------------------------------------
(***************************************************************************)
(* Powers of two.                                                          *)
(***************************************************************************)
\* PowerOfTwo multiplies by two from one on.
LEMMA PowersOfTwo == PowerOfTwo \in Powers(2, WordBits)
<1>1. PowerOfTwo = Power(2, WordBits)
  BY DEF PowerOfTwo, Power
<1> QED BY <1>1, WordAssumption, PowersMultiply

\* A word is a number below the power of its width.
LEMMA WordPowers ==
    /\ PowerOfTwo \in [0 .. WordBits -> Nat \ {0}] /\ PowerOfTwo[0] = 1
    /\ \A i \in 1 .. WordBits : PowerOfTwo[i] = 2 * PowerOfTwo[i - 1]
    /\ M = PowerOfTwo[WordBits] /\ WordBits \in Nat \ {0} /\ M \in Nat \ {0}
<1>1. /\ PowerOfTwo \in [0 .. WordBits -> Nat \ {0}] /\ PowerOfTwo[0] = 1
      /\ \A i \in 1 .. WordBits : PowerOfTwo[i] = 2 * PowerOfTwo[i - 1]
  BY PowersOfTwo DEF Powers
<1>2. WordBits \in 1 .. WordBits /\ SignBit = PowerOfTwo[WordBits - 1]
  BY WordAssumption
<1>3. M = PowerOfTwo[WordBits]
  BY <1>1, <1>2 DEF M
<1> QED BY <1>1, <1>3, WordAssumption DEF M

\* The sums of the lower powers of a set of bits.
OnesSums(ones) ==
    {low \in [0 .. WordBits -> Nat] :
        /\ low[0] = 0
        /\ \A i \in 1 .. WordBits :
              low[i] = low[i - 1] + (IF i - 1 \in ones THEN PowerOfTwo[i - 1] ELSE 0)}

\* The word of a set of bits adds up their powers, from the lowest on.
LEMMA OnesAdd ==
    ASSUME NEW ones
    PROVE  \E low \in OnesSums(ones) : FromOnes(ones) = low[WordBits]
<1> DEFINE N == WordBits
           weight(i) == IF i - 1 \in ones THEN PowerOfTwo[i - 1] ELSE 0
           step == [i \in 1 .. N |-> [x \in Nat |-> x + weight(i)]]
           Solves(f) == f = [i \in 0 .. N |-> IF i = 0 THEN 0 ELSE f[i - 1] + weight(i)]
           low == CHOOSE f : Solves(f)
<1>1. \A i \in 1 .. N : /\ i \in 0 .. N /\ i - 1 \in 0 .. N
                        /\ weight(i) \in Nat /\ weight(i) <= PowerOfTwo[i - 1]
  BY WordPowers
<1>2. N \in Nat
  BY WordPowers
<1>3. FromOnes(ones) = low[N]
  BY DEF FromOnes
<1> HIDE DEF N, weight
<1>4. step \in Steps(N, Nat)
  BY <1>1 DEF Steps
<1>5. Runs(N, Nat, 0, step) # {}
  <2> HIDE DEF step
  <2> QED BY <1>2, <1>4, RecursionExists
<1>6. PICK f \in [0 .. N -> Nat] :
        \A i \in 0 .. N : f[i] = IF i = 0 THEN 0 ELSE step[i][f[i - 1]]
  <2> HIDE DEF step
  <2> QED BY <1>5 DEF Runs
<1>7. \A i \in 1 .. N : step[i][f[i - 1]] = f[i - 1] + weight(i)
  BY <1>1
<1>8. Solves(f)
  <2> DEFINE F == [i \in 0 .. N |-> IF i = 0 THEN 0 ELSE f[i - 1] + weight(i)]
  <2>1. \A i \in 0 .. N : i = 0 \/ i \in 1 .. N
    BY <1>2
  <2>2. \A i \in 0 .. N : f[i] = F[i]
    <3> HIDE DEF step
    <3> QED BY <1>6, <1>7, <2>1
  <2>3. f = [i \in 0 .. N |-> f[i]] /\ F = [i \in 0 .. N |-> F[i]]
    OBVIOUS
  <2>4. f = F
    <3> HIDE DEF F
    <3> QED BY <2>2, <2>3
  <2> QED BY <2>4
<1>9. Solves(low)
  <2> HIDE DEF Solves
  <2> QED BY <1>8
<1> HIDE DEF low
<1>10. low[0] = 0 /\ \A i \in 1 .. N : low[i] = low[i - 1] + weight(i)
  BY <1>1, <1>2, <1>9
<1>11. ASSUME NEW m \in 0 .. N PROVE low[m] \in Nat
  <2> DEFINE P == [i \in 0 .. N |-> Nat]
  <2>1. ASSUME NEW i \in 1 .. m, low[i - 1] \in P[i - 1] PROVE low[i] \in P[i]
    BY <1>1, <1>2, <1>10, <2>1
  <2>2. low[0] \in P[0] /\ m \in Nat /\ P[m] = Nat
    BY <1>2, <1>10
  <2> HIDE DEF P
  <2>3. low[m] \in P[m]
    BY <2>1, <2>2, RecursionKeeps
  <2> QED BY <2>2, <2>3
<1>12. low = [i \in 0 .. N |-> low[i]]
  BY <1>9
<1> HIDE DEF Solves
<1>13. low \in [0 .. N -> Nat]
  BY <1>11, <1>12
<1>14. low \in OnesSums(ones)
  BY <1>10, <1>13 DEF N, weight, OnesSums
<1> QED BY <1>3, <1>14 DEF N

\* Below a bit there is less than its power.
LEMMA OnesBelow ==
    ASSUME NEW ones, NEW low \in OnesSums(ones), NEW n \in 0 .. WordBits
    PROVE  low[n] \in 0 .. PowerOfTwo[n] - 1
<1> DEFINE P == [i \in 0 .. n |-> 0 .. PowerOfTwo[i] - 1]
<1>1. low[0] \in P[0] /\ P[n] = 0 .. PowerOfTwo[n] - 1 /\ n \in Nat
  BY WordPowers DEF OnesSums
<1>2. ASSUME NEW i \in 1 .. n, low[i - 1] \in P[i - 1] PROVE low[i] \in P[i]
  <2> DEFINE weight == IF i - 1 \in ones THEN PowerOfTwo[i - 1] ELSE 0
  <2>1. /\ i \in 1 .. WordBits /\ i \in 0 .. n /\ i - 1 \in 0 .. n /\ i - 1 \in 0 .. WordBits
    BY WordPowers
  <2>2. /\ PowerOfTwo[i] = 2 * PowerOfTwo[i - 1] /\ PowerOfTwo[i - 1] \in Nat
        /\ P[i] = 0 .. PowerOfTwo[i] - 1 /\ P[i - 1] = 0 .. PowerOfTwo[i - 1] - 1
    BY <2>1, WordPowers
  <2>3. low[i] = low[i - 1] + weight
    BY <2>1 DEF OnesSums
  <2>4. weight \in Nat /\ weight <= PowerOfTwo[i - 1]
    BY <2>2
  <2> HIDE DEF P, weight
  <2> QED BY <1>2, <2>2, <2>3, <2>4
<1> HIDE DEF P
<1>3. low[n] \in P[n]
  BY <1>1, <1>2, RecursionKeeps
<1> QED BY <1>1, <1>3

\* Any set of bits makes a word.
LEMMA OnesMakeWord == \A ones : FromOnes(ones) \in Words
<1> SUFFICES ASSUME NEW ones PROVE FromOnes(ones) \in Words
  OBVIOUS
<1>1. PICK low \in OnesSums(ones) : FromOnes(ones) = low[WordBits]
  BY OnesAdd
<1>2. WordBits \in 0 .. WordBits /\ M = PowerOfTwo[WordBits]
  BY WordPowers
<1> QED BY <1>1, <1>2, OnesBelow DEF Words

\* And these bits are the ones of the word.
LEMMA OnesAreBits ==
    ASSUME NEW ones, NEW i \in BitIds
    PROVE  Bit(FromOnes(ones), i) = IF i \in ones THEN 1 ELSE 0
<1> DEFINE p == PowerOfTwo[i]
           b == IF i \in ones THEN 1 ELSE 0
           N == WordBits - (i + 1)
<1>1. PICK low \in OnesSums(ones) : FromOnes(ones) = low[WordBits]
  BY OnesAdd
<1>2. /\ i \in 0 .. WordBits /\ i + 1 \in 1 .. WordBits /\ (i + 1) - 1 = i /\ N \in Nat
      /\ i \in Nat /\ WordBits \in Nat
  BY WordPowers DEF BitIds
<1>3. p \in Nat \ {0} /\ PowerOfTwo[i + 1] = 2 * p
  BY <1>2, WordPowers
<1> DEFINE r == low[i]
<1>4. r \in 0 .. p - 1
  BY <1>2, OnesBelow
<1>5. low[i + 1] = r + (IF i \in ones THEN p ELSE 0)
  BY <1>2 DEF OnesSums
<1> DEFINE Sum(q) == r + p * (b + 2 * q)
           P == [j \in 0 .. N |-> {Sum(q) : q \in Nat}]
           f == [j \in 0 .. N |-> low[i + 1 + j]]
<1> HIDE DEF p, r
<1>6. f[0] \in P[0]
  <2>1. f[0] = low[i + 1] /\ P[0] = {Sum(q) : q \in Nat}
    BY <1>2
  <2>2. Sum(0) = low[i + 1]
    <3>1. CASE i \in ones
      <4>1. b + 2 * 0 = 1 /\ p * 1 = p
        BY <1>3, <3>1
      <4> HIDE DEF b
      <4> QED BY <1>5, <3>1, <4>1
    <3>2. CASE i \notin ones
      <4>1. b + 2 * 0 = 0 /\ p * 0 = 0
        BY <1>3, <3>2
      <4> HIDE DEF b
      <4> QED BY <1>5, <3>2, <4>1
    <3> QED BY <3>1, <3>2
  <2> HIDE DEF f, P, Sum
  <2>3. 0 \in Nat
    OBVIOUS
  <2> QED BY <2>1, <2>2, <2>3
<1>7. ASSUME NEW j \in 1 .. N, f[j - 1] \in P[j - 1] PROVE f[j] \in P[j]
  <2> DEFINE n == i + 1 + j
  <2>1. /\ n \in 1 .. WordBits /\ n - 1 = i + 1 + (j - 1) /\ j \in 0 .. N /\ j - 1 \in 0 .. N
        /\ n - 1 \in 0 .. WordBits /\ (i + 1) + (j - 1) <= WordBits
        /\ i + 1 \in Nat /\ j - 1 \in Nat /\ j - 1 \in 0 .. WordBits
    BY <1>2
  <2>2. f[j] = low[n] /\ f[j - 1] = low[n - 1] /\ P[j] = {Sum(q) : q \in Nat}
        /\ P[j - 1] = {Sum(q) : q \in Nat}
    BY <2>1
  <2> HIDE DEF f, P
  <2>3. PICK q \in Nat : low[n - 1] = Sum(q)
    BY <1>7, <2>2
  <2>4. low[n] = low[n - 1] + (IF n - 1 \in ones THEN PowerOfTwo[n - 1] ELSE 0)
    BY <2>1 DEF OnesSums
  <2>5. PowerOfTwo[n - 1] = PowerOfTwo[i + 1] * PowerOfTwo[j - 1]
    <3>1. PowerOfTwo[i + 1] * PowerOfTwo[j - 1] = PowerOfTwo[(i + 1) + (j - 1)]
      <4>1. i + 1 \in Nat /\ j - 1 \in Nat /\ (i + 1) + (j - 1) <= WordBits
        BY <2>1
      <4> QED BY <4>1, <1>2, PowersOfTwo, PowersAdd
    <3> QED BY <2>1, <3>1
  <2> DEFINE t == PowerOfTwo[j - 1]
  <2>6. t \in Nat
    BY <2>1, WordPowers
  <2> HIDE DEF t, n
  <2>7. PowerOfTwo[n - 1] = 2 * (p * t) /\ p * t \in Nat
    BY <1>3, <2>5, <2>6 DEF t
  <2>8. Sum(q + t) = Sum(q) + 2 * (p * t)
    <3>1. b \in Nat
      OBVIOUS
    <3> HIDE DEF b
    <3>2. p * (b + 2 * (q + t)) = p * (b + 2 * q) + 2 * (p * t)
      BY <1>3, <2>6, <3>1
    <3>3. p * (b + 2 * q) \in Nat
      BY <1>3, <3>1
    <3> QED BY <1>4, <2>7, <3>2, <3>3
  <2>9. low[n] = Sum(q) \/ low[n] = Sum(q + t)
    <3> HIDE DEF Sum
    <3>1. Sum(q) = low[n - 1] /\ low[n - 1] \in Nat
      BY <2>1, <2>3 DEF OnesSums
    <3> QED BY <2>4, <2>7, <2>8, <3>1
  <2>10. q + t \in Nat
    BY <2>6
  <2> HIDE DEF Sum
  <2> QED BY <2>2, <2>9, <2>10
<1>8. low[WordBits] \in {Sum(q) : q \in Nat}
  <2>1. f[N] = low[WordBits] /\ P[N] = {Sum(q) : q \in Nat} /\ N \in Nat
    BY <1>2
  <2>2. f[N] \in P[N]
    <3> HIDE DEF f, P
    <3> QED BY <1>2, <1>6, <1>7, RecursionKeeps
  <2> HIDE DEF f, P
  <2> QED BY <2>1, <2>2
<1>9. PICK q \in Nat : FromOnes(ones) = r + p * (b + 2 * q)
  BY <1>1, <1>8
<1>10. b \in {0, 1} /\ (b = IF i \in ones THEN 1 ELSE 0)
  OBVIOUS
<1> HIDE DEF b
<1>11. FromOnes(ones) \div p = b + 2 * q
  <2> DEFINE high == b + 2 * q
  <2>1. high \in Int /\ r \in Nat /\ r < p /\ p \in Nat \ {0}
    BY <1>3, <1>4, <1>10
  <2> HIDE DEF high
  <2>2. r + p * high = p * high + r /\ p * high + r \in Int
    BY <2>1
  <2>3. FromOnes(ones) = r + p * high
    BY <1>9 DEF high
  <2>4. FromOnes(ones) = p * high + r /\ FromOnes(ones) \in Int
    BY <2>2, <2>3
  <2>5. FromOnes(ones) \div p = high
    BY <2>1, <2>4, DivisionIsUnique
  <2> QED BY <2>5 DEF high
<1>12. (b + 2 * q) % 2 = b
  BY <1>10
<1> QED BY <1>10, <1>11, <1>12 DEF Bit, p

\* What every ALU instruction leaves in its register is a word.
LEMMA ResultsAreWords ==
    ASSUME NEW a \in Words, NEW b \in Words
    PROVE  /\ \A out \in {AluAdd(a, b), AluSub(a, b), Mul(a, b), MulU(a, b), And(a, b),
                          Or(a, b), Xor(a, b), Not(a), Shl(a, b), Shr(a, b), Sar(a, b)} :
                 out.result \in Words
           /\ ~ DivFaults(a, b) => Div(a, b).result \in Words
           /\ ~ DivUFaults(a, b) => DivU(a, b).result \in Words
<1>1. /\ M \in Nat \ {0} /\ a \in Nat /\ b \in Nat /\ a < M
      /\ Signed(a) \in Int /\ Signed(b) \in Int
  BY WordPowers, SignedIsWord DEF Words
<1>2. \A x \in Int : x % M \in Words
  BY <1>1, Divided DEF Words
<1>3. \A p \in Nat \ {0} : a \div p \in Words
  <2> SUFFICES ASSUME NEW p \in Nat \ {0} PROVE a \div p \in Words
    OBVIOUS
  <2> DEFINE q == a \div p
             r == a % p
  <2>1. q \in Int /\ r \in Nat /\ r < p /\ a = p * q + r
    BY <1>1, Divided
  <2> HIDE DEF q, r
  <2>2. q >= 0
    <3>1. q <= -1 => p * q <= - p
      BY <2>1
    <3> QED BY <1>1, <2>1, <3>1
  <2>3. q <= p * q
    BY <2>1, <2>2
  <2> QED BY <1>1, <2>1, <2>2, <2>3 DEF q, Words
<1> DEFINE power == PowerOfTwo[Count(b)]
<1>4. power \in Nat \ {0}
  <2>1. b % WordBits \in Nat /\ b % WordBits < WordBits
    BY <1>1, WordPowers, Divided
  <2>2. b % WordBits \in 0 .. WordBits
    BY <2>1, WordPowers
  <2> QED BY <2>2, WordPowers DEF Count
<1>5. /\ a + b \in Int /\ a - b \in Int /\ a * b \in Int /\ a * power \in Int
      /\ Signed(a) * Signed(b) \in Int
  BY <1>1, <1>4
<1>6. Signed(a) \div power \in Int
  BY <1>1, <1>4, Divided
<1>8. AluAdd(a, b).result \in Words /\ AluSub(a, b).result \in Words
  BY <1>2, <1>5 DEF AluAdd, AluSub, Outcome
<1>9. Mul(a, b).result \in Words /\ MulU(a, b).result \in Words
  BY <1>2, <1>5 DEF Mul, MulU, Outcome
<1>10. \A ones : BitwiseOf(ones).result \in Words
  BY OnesMakeWord DEF BitwiseOf, Outcome
<1>11. /\ Shl(a, b).result = (a * power) % M /\ Shr(a, b).result = a \div power
       /\ Sar(a, b).result = (Signed(a) \div power) % M
  BY DEF Shl, Shr, Sar, Outcome
<1> HIDE DEF power
<1>12. Shl(a, b).result \in Words /\ Shr(a, b).result \in Words /\ Sar(a, b).result \in Words
  BY <1>2, <1>3, <1>4, <1>5, <1>6, <1>11
<1>13. ~ DivFaults(a, b) => Div(a, b).result \in Words
  <2>1. SUFFICES ASSUME ~ DivFaults(a, b) PROVE Div(a, b).result \in Words
    OBVIOUS
  <2>2. Signed(b) # 0
    <3>1. b # 0 /\ M = 2 * SignBit /\ SignBit \in Nat /\ b < M
      BY <2>1, <1>1, WordAssumption DEF DivFaults, M, Words
    <3> QED BY <1>1, <3>1 DEF Signed
  <2>3. Truncate(Signed(a), Signed(b)) \in Int
    BY <1>1, <2>2, Truncated
  <2> QED BY <1>2, <2>3 DEF Div, Outcome
<1>14. ~ DivUFaults(a, b) => DivU(a, b).result \in Words
  BY <1>1, <1>3 DEF DivUFaults, DivU, Outcome
<1> QED BY <1>8, <1>9, <1>10, <1>12, <1>13, <1>14 DEF And, Or, Xor, Not

-----------------------------------------------------------------------------
(***************************************************************************)
(* Shifts by one.                                                          *)
(***************************************************************************)
\* The bits below and above bit n of a word.
LEMMA WordSplits ==
    ASSUME NEW n \in 1 .. WordBits - 1
    PROVE  /\ n - 1 \in 0 .. WordBits /\ n \in 0 .. WordBits /\ WordBits - n \in 0 .. WordBits
           /\ {PowerOfTwo[n - 1], PowerOfTwo[n], PowerOfTwo[WordBits - n]} \subseteq Nat \ {0}
           /\ PowerOfTwo[n] = 2 * PowerOfTwo[n - 1]
           /\ SignBit = PowerOfTwo[n - 1] * PowerOfTwo[WordBits - n]
<1>1. /\ n - 1 \in 0 .. WordBits /\ n \in 1 .. WordBits /\ WordBits - n \in 0 .. WordBits
      /\ n \in 0 .. WordBits
  BY WordPowers
<1>2. /\ n - 1 \in Nat /\ WordBits - n \in Nat /\ WordBits \in Nat
      /\ (n - 1) + (WordBits - n) = WordBits - 1 /\ WordBits - 1 <= WordBits
  BY WordPowers
<1>3. PowerOfTwo[n - 1] * PowerOfTwo[WordBits - n] = PowerOfTwo[WordBits - 1]
  <2>1. 2 \in Nat \ {0}
    OBVIOUS
  <2> QED BY <1>2, <2>1, PowersOfTwo, PowersAdd
<1> QED BY <1>1, <1>3, WordPowers, WordAssumption

\* Left: the word doubles, and the bit that leaves it is its top bit.
LEMMA LeftByOne ==
    ASSUME NEW a \in Words, NEW n \in 1 .. WordBits - 1
    PROVE  LET w == (a * PowerOfTwo[n - 1]) % M
           IN  /\ w \in Words
               /\ (2 * w) % M = (a * PowerOfTwo[n]) % M
               /\ Top(w) <=> Bit(a, WordBits - n) = 1
<1> DEFINE p == PowerOfTwo[n - 1]
           q == PowerOfTwo[WordBits - n]
           w == (a * p) % M
           high == a \div q
           low == a % q
           above == high \div 2
           bit == high % 2
<1>1. /\ p \in Nat \ {0} /\ q \in Nat \ {0} /\ PowerOfTwo[n] = 2 * p
      /\ SignBit = p * q /\ M = 2 * SignBit /\ M \in Nat \ {0} /\ SignBit \in Nat \ {0}
      /\ a \in Nat
  <2>1. {p, q} \subseteq Nat \ {0} /\ PowerOfTwo[n] = 2 * p /\ SignBit = p * q
    BY WordSplits
  <2> QED BY <2>1, WordAssumption, WordPowers DEF M, Words
<1> HIDE DEF p, q
<1>2. high \in Int /\ low \in Nat /\ low < q /\ a = q * high + low
  BY <1>1, Divided
<1>3. Bit(a, WordBits - n) = bit
  BY DEF Bit, q
<1> HIDE DEF high, low
<1>4. above \in Int /\ bit \in Nat /\ bit < 2 /\ high = 2 * above + bit
  BY <1>2, Divided
<1> HIDE DEF above, bit
<1>5. p * low \in Nat /\ p * low < SignBit
  <2>1. p * (low + 1) <= p * q
    BY <1>1, <1>2
  <2>2. p * (low + 1) = p * low + p
    BY <1>1, <1>2
  <2> QED BY <1>1, <1>2, <2>1, <2>2
<1>6. a * p = M * above + (SignBit * bit + p * low)
  <2>1. a * p = (p * q) * high + p * low
    BY <1>1, <1>2
  <2>2. a * p = SignBit * (2 * above + bit) + p * low
    BY <1>1, <1>4, <2>1
  <2> QED BY <1>1, <1>2, <1>4, <2>2
<1>7. w = SignBit * bit + p * low
  <2> DEFINE x == a * p
             rest == SignBit * bit + p * low
  <2>1. rest \in Nat /\ rest < M
    <3>1. bit = 0 \/ bit = 1
      BY <1>4
    <3> QED BY <1>1, <1>5, <3>1
  <2>2. x \in Int /\ x = M * above + rest
    BY <1>1, <1>6
  <2> HIDE DEF x, rest
  <2>3. x % M = rest
    BY <1>1, <1>4, <2>1, <2>2, DivisionIsUnique
  <2> QED BY <2>3 DEF x, rest
<1>8. Top(w) <=> bit = 1
  <2>1. bit = 0 \/ bit = 1
    BY <1>4
  <2> QED BY <1>1, <1>5, <1>7, <2>1 DEF Top
<1>9. w \in Words
  BY <1>1, Divided DEF Words
<1>10. (2 * w) % M = (a * PowerOfTwo[n]) % M
  <2>1. PICK k \in Int : a * p = M * k + w
    <3> DEFINE x == a * p
    <3>1. x \in Int
      BY <1>1
    <3> HIDE DEF x
    <3>2. \E k \in Int : x = M * k + (x % M)
      BY <1>1, <3>1, Divided
    <3> QED BY <3>2 DEF x
  <2>2. w \in Int
    BY <1>9, <1>1 DEF Words
  <2> HIDE DEF w
  <2>3. a * PowerOfTwo[n] = 2 * w + M * (2 * k)
    <3>1. a * PowerOfTwo[n] = 2 * (a * p)
      BY <1>1
    <3> QED BY <1>1, <2>1, <2>2, <3>1
  <2>4. a * PowerOfTwo[n] \in Int /\ 2 * w \in Int /\ 2 * k \in Int
    BY <1>1, <2>2
  <2> QED BY <2>3, <2>4, SameWord
<1> QED BY <1>3, <1>8, <1>9, <1>10 DEF p

\* Right: the word halves, and the bit that leaves it is its lowest.
LEMMA RightByOne ==
    ASSUME NEW a \in Words, NEW n \in 1 .. WordBits - 1
    PROVE  LET w == a \div PowerOfTwo[n - 1]
           IN  /\ w \div 2 = a \div PowerOfTwo[n]
               /\ w % 2 = 1 <=> Bit(a, n - 1) = 1
<1>1. /\ PowerOfTwo[n - 1] \in Nat \ {0} /\ PowerOfTwo[n] = PowerOfTwo[n - 1] * 2
      /\ a \in Int
  BY WordSplits DEF Words
<1>2. (a \div PowerOfTwo[n - 1]) \div 2 = a \div PowerOfTwo[n]
  <2>1. 2 \in Nat \ {0}
    OBVIOUS
  <2>2. \A p \in Nat \ {0} : (a \div p) \div 2 = a \div (p * 2)
    BY <1>1, <2>1, DivisionNests
  <2> QED BY <1>1, <2>2
<1> QED BY <1>2 DEF Bit

\* A quotient of a signed word is one.
LEMMA SignedQuotient ==
    ASSUME NEW x \in Int, - SignBit <= x, x < SignBit, NEW p \in Nat \ {0}
    PROVE  x \div p \in Int /\ - SignBit <= x \div p /\ x \div p < SignBit
<1> DEFINE q == x \div p
           r == x % p
<1>1. q \in Int /\ r \in Nat /\ r < p /\ x = p * q + r
  BY Divided
<1> HIDE DEF q, r
<1>2. SignBit \in Nat
  BY WordAssumption
<1>3. CASE q >= 0
  <2>1. q <= p * q
    BY <1>1, <1>3
  <2> QED BY <1>1, <1>2, <1>3, <2>1 DEF q
<1>4. CASE q < 0
  <2>1. p * (q + 1) <= q + 1
    <3>1. q + 1 <= 0
      BY <1>1, <1>4
    <3> QED BY <1>1, <3>1
  <2>2. p * (q + 1) = p * q + p
    BY <1>1
  <2>3. x < q + 1
    BY <1>1, <2>1, <2>2
  <2> QED BY <1>1, <1>2, <1>4, <2>3 DEF q
<1> QED BY <1>1, <1>3, <1>4

\* Halving a word and keeping its top bit halves the number it stands for.
LEMMA HalvesSigned ==
    ASSUME NEW w \in Words
    PROVE  (Signed(w) \div 2) % M
             = IF Top(w) THEN w \div 2 + SignBit ELSE w \div 2
<1> DEFINE h == w \div 2
           b == w % 2
<1>1. SignBit \in Nat \ {0} /\ M = 2 * SignBit /\ M \in Nat \ {0} /\ w \in Nat /\ w < M
  BY WordAssumption DEF M, Words
<1>2. h \in Int /\ b \in Nat /\ b < 2 /\ w = 2 * h + b
  BY <1>1, Divided
<1> HIDE DEF h, b
<1>3. CASE Top(w)
  <2>1. Signed(w) = 2 * (h - SignBit) + b /\ h - SignBit \in Int /\ Signed(w) \in Int
    BY <1>1, <1>2, <1>3 DEF Signed
  <2>2. Signed(w) \div 2 = h - SignBit
    <3>1. 2 \in Nat \ {0} /\ b \in Nat /\ b < 2
      BY <1>2
    <3> QED BY <2>1, <3>1, DivisionIsUnique
  <2> DEFINE x == h - SignBit
             y == h + SignBit
  <2>3. x \in Int /\ y \in Nat /\ y < M /\ x = M * (-1) + y
    BY <1>1, <1>2
  <2> HIDE DEF x, y
  <2>4. x % M = y
    BY <1>1, <2>3, DivisionIsUnique
  <2> QED BY <1>3, <2>2, <2>4 DEF x, y, h
<1>4. CASE ~ Top(w)
  <2>1. Signed(w) = w /\ h \in Nat /\ h < M /\ h = M * 0 + h
    BY <1>1, <1>2, <1>4 DEF Signed
  <2>2. h % M = h
    BY <1>1, <2>1, DivisionIsUnique
  <2> QED BY <1>4, <2>1, <2>2 DEF h
<1> QED BY <1>3, <1>4

\* Right and signed: the number halves, rounding down, and the bit that
\* leaves the word is its lowest.
LEMMA SignedByOne ==
    ASSUME NEW a \in Words, NEW n \in 1 .. WordBits - 1
    PROVE  LET w == (Signed(a) \div PowerOfTwo[n - 1]) % M
           IN  /\ w \in Words
               /\ (IF Top(w) THEN w \div 2 + SignBit ELSE w \div 2)
                     = (Signed(a) \div PowerOfTwo[n]) % M
               /\ w % 2 = 1 <=> Bit(a, n - 1) = 1
<1> DEFINE p == PowerOfTwo[n - 1]
           q == PowerOfTwo[WordBits - n]
           x == Signed(a)
           quotient == x \div p
           w == quotient % M
<1>1. /\ p \in Nat \ {0} /\ q \in Nat \ {0} /\ PowerOfTwo[n] = p * 2
      /\ M = p * (2 * q) /\ M = 2 * SignBit /\ M \in Nat \ {0} /\ SignBit \in Nat
  <2>1. {p, q} \subseteq Nat \ {0} /\ PowerOfTwo[n] = 2 * p /\ SignBit = p * q
    BY WordSplits
  <2> HIDE DEF p, q
  <2>2. p \in Nat \ {0} /\ q \in Nat \ {0}
    BY <2>1
  <2>3. M = 2 * SignBit /\ M \in Nat \ {0} /\ SignBit \in Nat
    BY WordAssumption DEF M
  <2>4. p * (2 * q) = 2 * (p * q) /\ 2 * p = p * 2
    BY <2>2
  <2> QED BY <2>1, <2>2, <2>3, <2>4
<1>2. /\ x \in Int /\ - SignBit <= x /\ x < SignBit /\ a \in Int
      /\ \E k \in Int : x = a + M * k
  BY SignedIsWord DEF Words
<1> HIDE DEF p, q, x
<1>3. quotient \in Int /\ - SignBit <= quotient /\ quotient < SignBit
  BY <1>1, <1>2, SignedQuotient
<1>4. w \in Words /\ Signed(w) = quotient
  BY <1>3, HeldIsRead
<1>5. (IF Top(w) THEN w \div 2 + SignBit ELSE w \div 2) = (x \div PowerOfTwo[n]) % M
  <2>1. quotient \div 2 = x \div (p * 2)
    <3>1. 2 \in Nat \ {0}
      OBVIOUS
    <3> QED BY <1>1, <1>2, <3>1, DivisionNests
  <2>2. (quotient \div 2) % M = IF Top(w) THEN w \div 2 + SignBit ELSE w \div 2
    <3> HIDE DEF w, quotient
    <3> QED BY <1>4, HalvesSigned
  <2> QED BY <1>1, <2>1, <2>2
<1>6. w % 2 = (a \div p) % 2
  <2>1. PICK k \in Int : x = a + M * k
    BY <1>2
  <2> DEFINE s == a \div p
             r == a % p
  <2>2. s \in Int /\ r \in Nat /\ r < p /\ a = p * s + r
    BY <1>1, <1>2, Divided
  <2> HIDE DEF s, r
  <2> DEFINE shifted == s + (2 * q) * k
  <2>3. x = p * shifted + r
    <3>1. M * k = p * ((2 * q) * k)
      BY <1>1, <2>1
    <3> QED BY <1>1, <2>1, <2>2, <3>1
  <2>4. shifted \in Int
    BY <1>1, <2>1, <2>2
  <2>5. quotient = shifted
    <3> HIDE DEF shifted
    <3> QED BY <1>1, <1>2, <2>2, <2>3, <2>4, DivisionIsUnique
  <2>6. PICK j \in Int : quotient = M * j + w
    BY <1>1, <1>3, Divided
  <2>7. w \in Int
    BY <1>1, <1>4 DEF Words
  <2> HIDE DEF w, quotient
  <2> DEFINE b == s % 2
             h == s \div 2
  <2>8. h \in Int /\ b \in Nat /\ b < 2 /\ s = 2 * h + b
    BY <2>2, Divided
  <2> HIDE DEF b, h
  <2> DEFINE rest == (h + q * k) - (SignBit * j)
  <2>9. rest \in Int /\ w = 2 * rest + b
    BY <1>1, <2>1, <2>5, <2>6, <2>7, <2>8
  <2> HIDE DEF rest
  <2>10. w % 2 = b
    BY <2>7, <2>8, <2>9, DivisionIsUnique
  <2> QED BY <2>10 DEF b, s
<1>7. Bit(a, n - 1) = (a \div p) % 2
  BY DEF Bit, p
<1> QED BY <1>4, <1>5, <1>6, <1>7 DEF p, x

\* Shift by shift, what the instructions compute at once.
LEMMA ShiftsCompose == Operands => ShiftsByOne
<1> SUFFICES ASSUME Operands PROVE ShiftsByOne
  OBVIOUS
<1> DEFINE out(n) == n # 0 /\ Bit(left, n - 1) = 1
           Shifted(n) == [shl |-> (left * PowerOfTwo[n]) % M,
                          shlOut |-> n # 0 /\ Bit(left, WordBits - n) = 1,
                          shr |-> left \div PowerOfTwo[n], shrOut |-> out(n),
                          sar |-> (Signed(left) \div PowerOfTwo[n]) % M,
                          sarOut |-> out(n)]
           low(w) == w % 2 = 1
           half(w) == w \div 2
           ashr(w) == IF Top(w) THEN half(w) + SignBit ELSE half(w)
           step(s) == [shl |-> (2 * s.shl) % M, shlOut |-> Top(s.shl),
                       shr |-> half(s.shr), shrOut |-> low(s.shr),
                       sar |-> ashr(s.sar), sarOut |-> low(s.sar)]
           start == [shl |-> left, shlOut |-> FALSE, shr |-> left, shrOut |-> FALSE,
                     sar |-> left, sarOut |-> FALSE]
           Solves(f) == f = [n \in BitIds |-> IF n = 0 THEN start ELSE step(f[n - 1])]
           after == CHOOSE f : Solves(f)
<1>1. left \in Words /\ right \in Words
  BY DEF Operands
<1>2. Shifted(0) = start
  <2>1. /\ M \in Nat \ {0} /\ left \in Nat /\ left < M /\ Signed(left) \in Int
        /\ PowerOfTwo[0] = 1
    BY <1>1, WordPowers, SignedIsWord DEF Words
  <2>2. left * PowerOfTwo[0] = left /\ left \div PowerOfTwo[0] = left
    BY <2>1
  <2>3. Signed(left) \div PowerOfTwo[0] = Signed(left)
    <3>1. Signed(left) = 1 * Signed(left) + 0 /\ 1 \in Nat \ {0} /\ 0 \in Nat /\ 0 < 1
      BY <2>1
    <3> QED BY <2>1, <3>1, DivisionIsUnique
  <2>4. left % M = left
    BY <2>1
  <2>5. Signed(left) % M = left
    <3>1. PICK k \in Int : Signed(left) = left + M * k
      BY <1>1, SignedIsWord
    <3>2. Signed(left) % M = left % M
      <4> DEFINE x == Signed(left)
      <4>1. x \in Int /\ left \in Int /\ x = left + M * k
        BY <2>1, <3>1
      <4> HIDE DEF x
      <4>2. x % M = left % M
        BY <4>1, SameWord
      <4> QED BY <4>2 DEF x
    <3> QED BY <2>4, <3>2
  <2> QED BY <2>2, <2>3, <2>4, <2>5
<1>3. ASSUME NEW n \in 1 .. WordBits - 1 PROVE step(Shifted(n - 1)) = Shifted(n)
  <2>1. n # 0
    OBVIOUS
  <2>2. LET w == (left * PowerOfTwo[n - 1]) % M
        IN  (2 * w) % M = (left * PowerOfTwo[n]) % M
            /\ (Top(w) <=> Bit(left, WordBits - n) = 1)
    BY <1>1, LeftByOne
  <2>3. LET w == left \div PowerOfTwo[n - 1]
        IN  half(w) = left \div PowerOfTwo[n] /\ (low(w) <=> Bit(left, n - 1) = 1)
    BY <1>1, RightByOne
  <2>4. LET w == (Signed(left) \div PowerOfTwo[n - 1]) % M
        IN  ashr(w) = (Signed(left) \div PowerOfTwo[n]) % M
            /\ (low(w) <=> Bit(left, n - 1) = 1)
    BY <1>1, SignedByOne
  <2> DEFINE s == Shifted(n - 1)
  <2>5. /\ (2 * s.shl) % M = Shifted(n).shl /\ Top(s.shl) = Shifted(n).shlOut
        /\ half(s.shr) = Shifted(n).shr /\ low(s.shr) = Shifted(n).shrOut
        /\ ashr(s.sar) = Shifted(n).sar /\ low(s.sar) = Shifted(n).sarOut
    BY <2>1, <2>2, <2>3, <2>4 DEF Top
  <2>6. Shifted(n) = [shl |-> Shifted(n).shl, shlOut |-> Shifted(n).shlOut,
                      shr |-> Shifted(n).shr, shrOut |-> Shifted(n).shrOut,
                      sar |-> Shifted(n).sar, sarOut |-> Shifted(n).sarOut]
    OBVIOUS
  <2> HIDE DEF s, half, low, ashr, Shifted
  <2> QED BY <2>5, <2>6 DEF s
<1> HIDE DEF Shifted, start, step
<1> DEFINE F == [n \in BitIds |-> Shifted(n)]
<1>4. /\ \A n \in BitIds : n = 0 \/ n \in 1 .. WordBits - 1
      /\ \A n \in 1 .. WordBits - 1 : n \in BitIds /\ n - 1 \in BitIds
      /\ 0 \in BitIds
  BY WordPowers DEF BitIds
<1>5. Solves(F)
  <2>1. \A n \in BitIds : F[n] = IF n = 0 THEN start ELSE step(F[n - 1])
    BY <1>2, <1>3, <1>4
  <2> QED BY <2>1
<1>6. Solves(after)
  <2> HIDE DEF F, Solves
  <2> QED BY <1>5
<1> HIDE DEF after
<1>7. after[0] = start /\ \A n \in 1 .. WordBits - 1 : after[n] = step(after[n - 1])
  BY <1>4, <1>6
<1>8. ASSUME NEW n \in BitIds PROVE after[n] = Shifted(n)
  <2> DEFINE P == [k \in BitIds |-> {Shifted(k)}]
  <2>1. after[0] \in P[0] /\ P[n] = {Shifted(n)} /\ n \in Nat
    BY <1>2, <1>4, <1>7 DEF BitIds
  <2>2. ASSUME NEW k \in 1 .. n, after[k - 1] \in P[k - 1] PROVE after[k] \in P[k]
    <3>1. k \in 1 .. WordBits - 1 /\ k \in BitIds /\ k - 1 \in BitIds
      BY WordPowers DEF BitIds
    <3>2. after[k - 1] = Shifted(k - 1)
      BY <2>2, <3>1
    <3>3. after[k] = Shifted(k)
      BY <1>3, <1>7, <3>1, <3>2
    <3> QED BY <3>1, <3>3
  <2> HIDE DEF P
  <2>3. after[n] \in P[n]
    BY <2>1, <2>2, RecursionKeeps
  <2> QED BY <2>1, <2>3
<1> DEFINE times == Count(right)
<1>9. times \in BitIds
  <2>1. right % WordBits \in Nat /\ right % WordBits < WordBits
    BY <1>1, WordPowers, Divided DEF Words
  <2> QED BY <2>1, WordPowers DEF Count, BitIds
<1>10. after[times] = Shifted(times)
  BY <1>8, <1>9
<1>11. /\ Shl(left, right).result = Shifted(times).shl
       /\ Shl(left, right).flags.carry = Shifted(times).shlOut
       /\ Shr(left, right).result = Shifted(times).shr
       /\ Shr(left, right).flags.carry = Shifted(times).shrOut
       /\ Sar(left, right).result = Shifted(times).sar
       /\ Sar(left, right).flags.carry = Shifted(times).sarOut
  BY DEF Shl, Shr, Sar, Outcome, Shifted
<1> HIDE DEF times, Solves
<1> QED BY <1>10, <1>11 DEF ShiftsByOne, after, Solves, step, start, times

\* The logic instructions.
LEMMA LogicActsOnBits == Operands => LogicIsBitwise
<1>1. \A ones : BitwiseOf(ones).result = FromOnes(ones)
  BY DEF BitwiseOf, Outcome
<1>2. ASSUME NEW i \in BitIds, NEW ones
      PROVE  Bit(BitwiseOf(ones).result, i) = 1 <=> i \in ones
  BY <1>1, OnesAreBits
<1>3. \A w : \A i \in BitIds : i \in Ones(w) <=> Bit(w, i) = 1
  BY DEF Ones
<1>4. ASSUME NEW i \in BitIds
      PROVE  /\ Bit(And(left, right).result, i) = 1 <=> i \in Ones(left) \cap Ones(right)
             /\ Bit(Or(left, right).result, i) = 1 <=> i \in Ones(left) \cup Ones(right)
             /\ Bit(Xor(left, right).result, i) = 1 <=>
                   (i \in Ones(left)) # (i \in Ones(right))
             /\ Bit(Not(left).result, i) = 1 <=> i \notin Ones(left)
  BY <1>2 DEF And, Or, Xor, Not
<1> QED BY <1>3, <1>4 DEF LogicIsBitwise

-----------------------------------------------------------------------------
\* After ADD, C and V report exactly the sums that do not fit an unsigned
\* and a signed word; after CMP, Z, C and N # V are equal, unsigned-not-below
\* and signed-less, also where the difference itself overflows.  A product's
\* low word does not depend on how its factors are read, V and C report the
\* products that do not fit, and a program that takes DIV, MUL and SUB for a
\* remainder gets C's.  Whatever the width of the word.
THEOREM ArithmeticIsArithmetic == PairSpec => []ArithmeticIsExact
<1>1. Operands => ArithmeticIsExact
  BY AddIsAddition, CompareIsOrder, ProductsAgreed, RemainderIsC DEF ArithmeticIsExact
<1> QED BY OperandsInvariant, <1>1, PTL

\* SHL, SHR and SAR by any count, taken modulo the width, are that many
\* shifts by one, and C is the last bit that left the word; AND, OR, XOR and
\* NOT act on every bit by itself.
THEOREM ShiftsAndLogicAreRight == PairSpec => []ShiftsAndLogic
<1>1. Operands => ShiftsAndLogic
  BY ShiftsCompose, LogicActsOnBits DEF ShiftsAndLogic
<1> QED BY OperandsInvariant, <1>1, PTL

-----------------------------------------------------------------------------
(***************************************************************************)
(* The code of C's operators.                                              *)
(***************************************************************************)
Instruction ==
    [op : Arithmetics \cup Constants, d : Registers, a : Registers, b : Registers,
     n : Nat, to : {NoLabel}]
Code == Seq(Instruction)
Machines == [Registers -> Words]

\* The registers after one instruction.
Done(i, regs) == [regs EXCEPT ![i.d] = Computed(i, regs)]

\* A line of code is done instruction by instruction.
LEMMA CodeSteps ==
    ASSUME NEW code, Len(code) \in Nat, NEW regs
    PROVE  /\ AfterEach(code, regs)[0] = regs
           /\ \A n \in 1 .. Len(code) :
                 AfterEach(code, regs)[n] = Done(code[n], AfterEach(code, regs)[n - 1])
<1> DEFINE N == Len(code)
           Solves(f, m) == f = [n \in 0 .. m |-> IF n = 0 THEN regs
                                                 ELSE Done(code[n], f[n - 1])]
           Has(m) == \E f : Solves(f, m)
           Bad == {m \in 0 .. N : ~ Has(m)}
           after == CHOOSE f : Solves(f, N)
<1> HIDE DEF N
<1>1. N \in Nat
  BY DEF N
<1>2. Bad = {}
  <2>1. SUFFICES ASSUME Bad # {} PROVE FALSE
    OBVIOUS
  <2>2. PICK m \in Bad : \A k \in Bad : m <= k
    <3>1. Bad \subseteq Nat
      OBVIOUS
    <3> HIDE DEF Bad
    <3> QED BY <2>1, <3>1, LeastNumber
  <2>3. m \in 0 .. N /\ ~ Has(m)
    OBVIOUS
  <2>4. m # 0
    <3>1. Solves([n \in 0 .. 0 |-> regs], 0)
      OBVIOUS
    <3>2. Has(0)
      BY <3>1
    <3> HIDE DEF Has
    <3> QED BY <2>3, <3>2
  <2>5. Has(m - 1)
    <3>1. m - 1 \in 0 .. N /\ ~ (m <= m - 1)
      BY <1>1, <2>3, <2>4
    <3> HIDE DEF Has
    <3> QED BY <2>2, <3>1
  <2>6. PICK f : Solves(f, m - 1)
    BY <2>5
  <2> DEFINE g == [n \in 0 .. m |-> IF n = m THEN Done(code[m], f[m - 1]) ELSE f[n]]
  <2>7. \A n \in 0 .. m : g[n] = IF n = 0 THEN regs ELSE Done(code[n], g[n - 1])
    <3> SUFFICES ASSUME NEW n \in 0 .. m
                 PROVE  g[n] = IF n = 0 THEN regs ELSE Done(code[n], g[n - 1])
      OBVIOUS
    <3>1. CASE n = m
      <4>1. m - 1 \in 0 .. m /\ m - 1 # m
        BY <2>3, <2>4
      <4>2. g[m - 1] = f[m - 1] /\ g[m] = Done(code[m], f[m - 1])
        BY <2>3, <4>1
      <4> QED BY <2>4, <3>1, <4>2
    <3>2. CASE n # m
      <4>1. n \in 0 .. m - 1
        BY <2>3, <3>2
      <4>2. f[n] = IF n = 0 THEN regs ELSE Done(code[n], f[n - 1])
        <5> DEFINE F == [k \in 0 .. m - 1 |-> IF k = 0 THEN regs ELSE Done(code[k], f[k - 1])]
        <5>1. F[n] = IF n = 0 THEN regs ELSE Done(code[n], f[n - 1])
          BY <4>1
        <5>2. f = F
          BY <2>6
        <5> HIDE DEF F
        <5> QED BY <5>1, <5>2
      <4>3. g[n] = f[n]
        BY <3>2
      <4>4. n # 0 => g[n - 1] = f[n - 1]
        BY <2>3, <4>1
      <4> QED BY <4>2, <4>3, <4>4
    <3> QED BY <3>1, <3>2
  <2>8. Solves(g, m)
    <3> DEFINE G == [n \in 0 .. m |-> IF n = 0 THEN regs ELSE Done(code[n], g[n - 1])]
    <3>1. \A n \in 0 .. m : g[n] = G[n]
      <4> HIDE DEF g
      <4> QED BY <2>7
    <3>2. g = [n \in 0 .. m |-> g[n]] /\ G = [n \in 0 .. m |-> G[n]]
      OBVIOUS
    <3>3. g = G
      <4> HIDE DEF g, G
      <4> QED BY <3>1, <3>2
    <3> QED BY <3>3
  <2> HIDE DEF g, Solves
  <2> QED BY <2>3, <2>8
<1>3. Solves(after, N)
  <2>1. N \in 0 .. N
    BY <1>1
  <2>2. Has(N)
    BY <1>2, <2>1
  <2> HIDE DEF Solves
  <2> QED BY <2>2
<1>4. AfterEach(code, regs) = after
  BY DEF AfterEach, Done, N
<1> HIDE DEF after
<1>5. after[0] = regs /\ \A n \in 1 .. N : after[n] = Done(code[n], after[n - 1])
  <2> DEFINE F == [n \in 0 .. N |-> IF n = 0 THEN regs ELSE Done(code[n], after[n - 1])]
  <2>1. after = F
    BY <1>3
  <2>2. F[0] = regs /\ \A n \in 1 .. N : F[n] = Done(code[n], after[n - 1])
    BY <1>1
  <2> HIDE DEF F
  <2> QED BY <2>1, <2>2
<1> QED BY <1>4, <1>5 DEF N

\* Two lines of code, one after the other.
LEMMA CodeJoins ==
    ASSUME NEW first \in Code, NEW second \in Code, NEW regs
    PROVE  LET both == AfterEach(first \o second, regs)
               between == AfterEach(first, regs)[Len(first)]
           IN  /\ \A n \in 0 .. Len(first) : both[n] = AfterEach(first, regs)[n]
               /\ \A n \in 0 .. Len(second) :
                     both[Len(first) + n] = AfterEach(second, between)[n]
<1> DEFINE line == first \o second
           both == AfterEach(line, regs)
           one == AfterEach(first, regs)
           two == AfterEach(second, one[Len(first)])
           L == Len(first)
           K == Len(second)
<1>1. /\ L \in Nat /\ K \in Nat /\ Len(line) = L + K /\ Len(line) \in Nat
      /\ \A n \in 1 .. L : line[n] = first[n]
      /\ \A n \in 1 .. K : line[L + n] = second[n]
  BY DEF Code
<1>2. both[0] = regs /\ \A n \in 1 .. L + K : both[n] = Done(line[n], both[n - 1])
  <2> DEFINE Solves(c) ==
               /\ AfterEach(c, regs)[0] = regs
               /\ \A n \in 1 .. Len(c) :
                     AfterEach(c, regs)[n] = Done(c[n], AfterEach(c, regs)[n - 1])
  <2>1. \A c : Len(c) \in Nat => Solves(c)
    BY CodeSteps
  <2>2. Solves(line)
    <3> HIDE DEF Solves, line
    <3> QED BY <1>1, <2>1
  <2> QED BY <1>1, <2>2
<1>3. one[0] = regs /\ \A n \in 1 .. L : one[n] = Done(first[n], one[n - 1])
  BY <1>1, CodeSteps
<1>4. two[0] = one[L] /\ \A n \in 1 .. K : two[n] = Done(second[n], two[n - 1])
  BY <1>1, CodeSteps
<1> HIDE DEF line, both, one, two, L, K
<1>5. ASSUME NEW m \in 0 .. L PROVE both[m] = one[m]
  <2> DEFINE P == [n \in 0 .. m |-> {one[n]}]
  <2>1. both[0] \in P[0] /\ m \in Nat /\ P[m] = {one[m]}
    BY <1>1, <1>2, <1>3
  <2>2. ASSUME NEW n \in 1 .. m, both[n - 1] \in P[n - 1] PROVE both[n] \in P[n]
    <3>1. n - 1 \in 0 .. m /\ n \in 0 .. m /\ n \in 1 .. L /\ n \in 1 .. L + K
      BY <1>1
    <3>2. both[n - 1] = one[n - 1]
      BY <2>2, <3>1
    <3> QED BY <1>1, <1>2, <1>3, <3>1, <3>2
  <2> HIDE DEF P
  <2>3. both[m] \in P[m]
    BY <2>1, <2>2, RecursionKeeps
  <2> QED BY <2>1, <2>3
<1>6. ASSUME NEW m \in 0 .. K PROVE both[L + m] = two[m]
  <2> DEFINE P == [n \in 0 .. m |-> {two[n]}]
             f == [n \in 0 .. m |-> both[L + n]]
  <2>1. f[0] \in P[0] /\ m \in Nat /\ P[m] = {two[m]} /\ f[m] = both[L + m]
    <3>1. L \in 0 .. L /\ L + 0 = L
      BY <1>1
    <3>2. both[L] = one[L]
      BY <1>5, <3>1
    <3> QED BY <1>1, <1>4, <3>1, <3>2
  <2>2. ASSUME NEW n \in 1 .. m, f[n - 1] \in P[n - 1] PROVE f[n] \in P[n]
    <3>1. /\ n - 1 \in 0 .. m /\ n \in 0 .. m /\ n \in 1 .. K /\ L + n \in 1 .. L + K
          /\ (L + n) - 1 = L + (n - 1)
      BY <1>1
    <3>2. both[L + (n - 1)] = two[n - 1] /\ f[n] = both[L + n] /\ P[n] = {two[n]}
      BY <2>2, <3>1
    <3> HIDE DEF f, P
    <3> QED BY <1>1, <1>2, <1>4, <3>1, <3>2
  <2> HIDE DEF P, f
  <2>3. f[m] \in P[m]
    BY <2>1, <2>2, RecursionKeeps
  <2> QED BY <2>1, <2>3
<1> QED BY <1>5, <1>6 DEF line, both, one, two, L, K

\* Code does not fault, and leaves w in register d, other values in scratch
\* registers, and the rest as it was.
Fails(code, regs) ==
    \E n \in 1 .. Len(code) : Divides(code[n], AfterEach(code, regs)[n - 1])
Last(code, regs) == AfterEach(code, regs)[Len(code)]
Spared(d) == Registers \ ({d} \cup (10 .. 13))
Yields(code, regs, d, w) ==
    /\ ~ Fails(code, regs)
    /\ Last(code, regs) \in Machines /\ Last(code, regs)[d] = w
    /\ \A q \in Spared(d) : Last(code, regs)[q] = regs[q]

\* What one line yields the next one takes.
LEMMA YieldsJoin ==
    ASSUME NEW first \in Code, NEW second \in Code, NEW regs, NEW d, NEW v, NEW w,
           Yields(first, regs, d, v), Yields(second, Last(first, regs), d, w)
    PROVE  first \o second \in Code /\ Yields(first \o second, regs, d, w)
<1> DEFINE line == first \o second
           both == AfterEach(line, regs)
           one == AfterEach(first, regs)
           two == AfterEach(second, one[Len(first)])
           L == Len(first)
           K == Len(second)
<1>1. /\ L \in Nat /\ K \in Nat /\ Len(line) = L + K /\ line \in Code
      /\ \A n \in 1 .. L : line[n] = first[n]
      /\ \A n \in 1 .. K : line[L + n] = second[n]
  BY DEF Code
<1>2. /\ \A n \in 0 .. L : both[n] = one[n]
      /\ \A n \in 0 .. K : both[L + n] = two[n]
  BY CodeJoins
<1>3. /\ \A n \in 1 .. L : ~ Divides(first[n], one[n - 1])
      /\ \A n \in 1 .. K : ~ Divides(second[n], two[n - 1])
  BY DEF Yields, Fails, Last
<1>4. /\ Last(line, regs) = both[Len(line)] /\ Last(first, regs) = one[L]
      /\ Last(second, Last(first, regs)) = two[K]
  BY DEF Last
<1>5. Fails(line, regs) <=> \E n \in 1 .. Len(line) : Divides(line[n], both[n - 1])
  BY DEF Fails
<1> HIDE DEF line, both, one, two, L, K
<1>6. ASSUME NEW n \in 1 .. L + K PROVE ~ Divides(line[n], both[n - 1])
  <2>1. CASE n <= L
    <3>1. n \in 1 .. L /\ n - 1 \in 0 .. L
      BY <1>1, <2>1
    <3> QED BY <1>1, <1>2, <1>3, <3>1
  <2>2. CASE n > L
    <3> DEFINE k == n - L
    <3>1. /\ k \in 1 .. K /\ k - 1 \in 0 .. K /\ n = L + k /\ n - 1 = L + (k - 1)
      BY <1>1, <2>2
    <3>2. line[n] = second[k] /\ both[n - 1] = two[k - 1]
      BY <1>1, <1>2, <3>1
    <3> QED BY <1>3, <3>1, <3>2
  <2> QED BY <1>1, <2>1, <2>2
<1>7. both[Len(line)] = two[K]
  BY <1>1, <1>2
<1>8. Yields(line, regs, d, w)
  <2>1. Last(line, regs) = Last(second, Last(first, regs))
    BY <1>4, <1>7
  <2>2. ~ Fails(line, regs)
    BY <1>1, <1>5, <1>6
  <2> QED BY <2>1, <2>2 DEF Yields
<1> QED BY <1>1, <1>8 DEF line

\* The instructions of the operators' code.
LEMMA OpFields ==
    ASSUME NEW op, NEW d, NEW a, NEW b
    PROVE  /\ Op(op, d, a, b).op = op /\ Op(op, d, a, b).d = d
           /\ Op(op, d, a, b).a = a /\ Op(op, d, a, b).b = b
BY DEF Op

LEMMA OpMakes ==
    ASSUME NEW op \in Arithmetics, NEW d \in Registers,
           NEW a \in Registers, NEW b \in Registers
    PROVE  Op(op, d, a, b) \in Instruction
BY DEF Op, Instruction

LEMMA MoviMakes ==
    ASSUME NEW d \in Registers, NEW n \in Nat
    PROVE  /\ Movi(d, n) \in Instruction
           /\ Movi(d, n).op = "movi" /\ Movi(d, n).d = d /\ Movi(d, n).n = n
BY DEF Op, Movi, WithNumber, Instruction, Registers, Constants

\* An instruction sets its register to a word and spares the others.
LEMMA OneDone ==
    ASSUME NEW i \in Instruction, NEW regs \in Machines, ~ Divides(i, regs)
    PROVE  /\ Computed(i, regs) \in Words
           /\ Done(i, regs) \in Machines /\ Done(i, regs)[i.d] = Computed(i, regs)
           /\ \A q \in Registers \ {i.d} : Done(i, regs)[q] = regs[q]
<1> DEFINE x == regs[i.a]
           y == regs[i.b]
           k == i.n % M
<1>1. i.d \in Registers /\ x \in Words /\ y \in Words /\ i.n \in Nat
  BY DEF Instruction, Machines
<1>2. k \in Words
  <2>1. M \in Nat \ {0} /\ i.n \in Int
    BY <1>1, WordPowers
  <2>2. k \in Nat /\ k < M
    BY <2>1, Divided
  <2> QED BY <2>1, <2>2 DEF Words
<1>3. i.op = "div" => ~ DivFaults(x, y)
  BY DEF Divides
<1>4. i.op \in Arithmetics \cup Constants
  BY DEF Instruction
<1> HIDE DEF k
<1>5. /\ {AluAdd(x, y).result, AluSub(x, y).result, Mul(x, y).result, And(x, y).result,
          Or(x, y).result, Xor(x, y).result, Not(x).result, Shr(x, y).result} \subseteq Words
      /\ {AluAdd(x, k).result, AluSub(x, k).result} \subseteq Words
      /\ i.op = "div" => Div(x, y).result \in Words
  <2> HIDE DEF x, y
  <2>1. /\ AluAdd(x, y).result \in Words /\ AluSub(x, y).result \in Words
        /\ Mul(x, y).result \in Words /\ And(x, y).result \in Words
        /\ Or(x, y).result \in Words /\ Xor(x, y).result \in Words
        /\ Not(x).result \in Words /\ Shr(x, y).result \in Words
        /\ ~ DivFaults(x, y) => Div(x, y).result \in Words
    BY <1>1, ResultsAreWords
  <2>2. AluAdd(x, k).result \in Words /\ AluSub(x, k).result \in Words
    BY <1>1, <1>2, ResultsAreWords
  <2> QED BY <1>3, <2>1, <2>2
<1>6. Computed(i, regs) \in Words
  <2>1. Computed(i, regs) =
          CASE i.op = "mov" -> x
            [] i.op = "add" -> AluAdd(x, y).result
            [] i.op = "sub" -> AluSub(x, y).result
            [] i.op = "mul" -> Mul(x, y).result
            [] i.op = "div" -> Div(x, y).result
            [] i.op = "and" -> And(x, y).result
            [] i.op = "or" -> Or(x, y).result
            [] i.op = "xor" -> Xor(x, y).result
            [] i.op = "not" -> Not(x).result
            [] i.op = "shr" -> Shr(x, y).result
            [] i.op = "addi" -> AluAdd(x, k).result
            [] i.op = "subi" -> AluSub(x, k).result
            [] i.op = "movi" -> k
    BY DEF Computed, k
  <2> HIDE DEF x, y
  <2> QED BY <1>1, <1>2, <1>4, <1>5, <2>1 DEF Arithmetics, Constants
<1> HIDE DEF x, y
<1> QED BY <1>1, <1>6 DEF Done, Machines

\* Code of one instruction.
LEMMA OneYields ==
    ASSUME NEW i \in Instruction, NEW regs \in Machines, ~ Divides(i, regs)
    PROVE  <<i>> \in Code /\ Yields(<<i>>, regs, i.d, Computed(i, regs))
<1> DEFINE code == <<i>>
<1>1. Len(code) = 1 /\ code[1] = i /\ code \in Code
  BY DEF Code
<1> HIDE DEF code
<1>2. AfterEach(code, regs)[0] = regs /\ AfterEach(code, regs)[1] = Done(i, regs)
  <2>1. Len(code) \in Nat /\ 1 \in 1 .. Len(code)
    BY <1>1
  <2> QED BY <1>1, <2>1, CodeSteps
<1>3. \A n \in 1 .. Len(code) : n = 1
  BY <1>1
<1>4. ~ Fails(code, regs)
  BY <1>1, <1>2, <1>3 DEF Fails
<1>5. Last(code, regs) = Done(i, regs)
  BY <1>1, <1>2 DEF Last
<1>6. Yields(code, regs, i.d, Computed(i, regs))
  BY <1>4, <1>5, OneDone DEF Yields, Spared
<1> QED BY <1>1, <1>6 DEF code

-----------------------------------------------------------------------------
(***************************************************************************)
(* The top bit, and words of equal bits.                                   *)
(***************************************************************************)
\* The top bit is bit WordBits - 1.
LEMMA TopIsBit ==
    /\ WordBits - 1 \in BitIds
    /\ \A w \in Words : Top(w) <=> WordBits - 1 \in Ones(w)
<1>1. /\ WordBits - 1 \in BitIds /\ PowerOfTwo[WordBits - 1] = SignBit
      /\ SignBit \in Nat \ {0}
  BY WordAssumption DEF BitIds
<1>2. ASSUME NEW w \in Words PROVE Top(w) <=> WordBits - 1 \in Ones(w)
  <2>1. w \in Nat /\ w < 2 * SignBit
    BY <1>1, <1>2 DEF Words, M
  <2>2. w \div SignBit = IF w >= SignBit THEN 1 ELSE 0
    <3>1. CASE w >= SignBit
      <4>1. w = SignBit * 1 + (w - SignBit) /\ w - SignBit \in Nat /\ w - SignBit < SignBit
        BY <1>1, <2>1, <3>1
      <4> QED BY <1>1, <2>1, <3>1, <4>1, DivisionIsUnique
    <3>2. CASE w < SignBit
      <4>1. w = SignBit * 0 + w
        BY <1>1, <2>1
      <4>2. w \div SignBit = 0
        BY <1>1, <2>1, <3>2, <4>1, DivisionIsUnique
      <4> QED BY <1>1, <2>1, <3>2, <4>2
    <3> QED BY <1>1, <2>1, <3>1, <3>2
  <2>3. Bit(w, WordBits - 1) = 1 <=> w >= SignBit
    BY <1>1, <2>1, <2>2 DEF Bit
  <2> QED BY <1>1, <2>3 DEF Ones, Top
<1> QED BY <1>1, <1>2

\* The bits of a word determine it.
LEMMA SameBits ==
    ASSUME NEW a \in Words, NEW b \in Words, Ones(a) = Ones(b)
    PROVE  a = b
<1> DEFINE below == [n \in 0 .. WordBits |-> a % PowerOfTwo[n]]
           P == [n \in 0 .. WordBits |-> {b % PowerOfTwo[n]}]
<1>1. a \in Nat /\ b \in Nat /\ a < M /\ b < M /\ WordBits \in Nat
  <2>1. M \in Nat /\ WordBits \in Nat
    BY WordPowers
  <2> QED BY <2>1 DEF Words
<1>2. below[0] \in P[0]
  <2>1. PowerOfTwo[0] = 1 /\ 0 \in 0 .. WordBits /\ a % 1 = 0 /\ b % 1 = 0
    BY <1>1, WordPowers
  <2> QED BY <2>1
<1>3. ASSUME NEW n \in 1 .. WordBits, below[n - 1] \in P[n - 1]
      PROVE  below[n] \in P[n]
  <2> DEFINE p == PowerOfTwo[n - 1]
  <2>1. /\ n \in 0 .. WordBits /\ n - 1 \in 0 .. WordBits /\ n - 1 \in BitIds
        /\ p \in Nat \ {0} /\ PowerOfTwo[n] = p * 2
    BY <1>1, WordPowers DEF BitIds
  <2>2. a % p = b % p
    BY <1>3, <2>1
  <2>3. Bit(a, n - 1) = Bit(b, n - 1)
    <3>1. Bit(a, n - 1) \in {0, 1} /\ Bit(b, n - 1) \in {0, 1}
      <4>1. \A x \in Int : x % 2 \in {0, 1}
        OBVIOUS
      <4>2. a \div p \in Int /\ b \div p \in Int
        BY <1>1, <2>1, Divided
      <4> QED BY <4>1, <4>2 DEF Bit
    <3>2. Bit(a, n - 1) = 1 <=> Bit(b, n - 1) = 1
      BY <2>1 DEF Ones
    <3> QED BY <3>1, <3>2
  <2> HIDE DEF p
  <2>4. /\ a % (p * 2) = (a % p) + p * ((a \div p) % 2)
        /\ b % (p * 2) = (b % p) + p * ((b \div p) % 2)
    <3>1. 2 \in Nat \ {0} /\ a \in Int /\ b \in Int
      BY <1>1
    <3> QED BY <2>1, <3>1, DivisionNests
  <2>5. (a \div p) % 2 = (b \div p) % 2
    BY <2>3 DEF Bit, p
  <2>6. a % PowerOfTwo[n] = b % PowerOfTwo[n]
    BY <2>1, <2>2, <2>4, <2>5
  <2> QED BY <2>1, <2>6
<1>4. below[WordBits] \in P[WordBits]
  <2> HIDE DEF below, P
  <2> QED BY <1>1, <1>2, <1>3, RecursionKeeps
<1>5. a % M = b % M
  <2>1. WordBits \in 0 .. WordBits /\ M = PowerOfTwo[WordBits]
    BY WordPowers
  <2> QED BY <1>4, <2>1
<1>6. a % M = a /\ b % M = b
  <2>1. \A n \in Nat \ {0} : \A x \in Nat : x < n => x % n = x
    OBVIOUS
  <2> QED BY <1>1, <2>1, WordPowers
<1> QED BY <1>5, <1>6

\* The logic instructions on the top bits, and XOR of equal words.
LEMMA TopsCombine ==
    ASSUME NEW a \in Words, NEW b \in Words
    PROVE  /\ Top(And(a, b).result) <=> Top(a) /\ Top(b)
           /\ Top(Or(a, b).result) <=> Top(a) \/ Top(b)
           /\ Top(Xor(a, b).result) <=> Top(a) # Top(b)
           /\ Top(Not(a).result) <=> ~ Top(a)
<1> DEFINE top == WordBits - 1
<1>1. \A ones : Top(BitwiseOf(ones).result) <=> top \in ones
  <2> SUFFICES ASSUME NEW ones PROVE Top(BitwiseOf(ones).result) <=> top \in ones
    OBVIOUS
  <2>1. BitwiseOf(ones).result = FromOnes(ones)
    BY DEF BitwiseOf, Outcome
  <2>2. FromOnes(ones) \in Words /\ top \in BitIds
    BY OnesMakeWord, TopIsBit
  <2>3. Bit(FromOnes(ones), top) = IF top \in ones THEN 1 ELSE 0
    BY <2>2, OnesAreBits
  <2>4. Top(FromOnes(ones)) <=> Bit(FromOnes(ones), top) = 1
    BY <2>2, TopIsBit DEF Ones
  <2> QED BY <2>1, <2>3, <2>4
<1>2. (Top(a) <=> top \in Ones(a)) /\ (Top(b) <=> top \in Ones(b)) /\ top \in BitIds
  BY TopIsBit
<1>3. Top(a) \in BOOLEAN /\ Top(b) \in BOOLEAN
  BY DEF Top
<1> HIDE DEF top
<1>4. Top(And(a, b).result) <=> Top(a) /\ Top(b)
  BY <1>1, <1>2 DEF And
<1>5. Top(Or(a, b).result) <=> Top(a) \/ Top(b)
  BY <1>1, <1>2 DEF Or
<1>6. Top(Xor(a, b).result) <=> Top(a) # Top(b)
  <2>1. Top(Xor(a, b).result) <=>
          top \in (Ones(a) \ Ones(b)) \cup (Ones(b) \ Ones(a))
    BY <1>1 DEF Xor
  <2> QED BY <1>2, <1>3, <2>1
<1>7. Top(Not(a).result) <=> ~ Top(a)
  BY <1>1, <1>2 DEF Not
<1> QED BY <1>4, <1>5, <1>6, <1>7

\* XOR is zero on equal words alone, and inverts a truth value by one.
LEMMA XorTells ==
    /\ 0 \in Words /\ 1 \in Words
    /\ \A a, b \in Words : Xor(a, b).result = 0 <=> a = b
    /\ Xor(0, 1).result = 1
<1>1. 0 \in Words /\ 1 \in Words
  BY WordAssumption DEF Words, M
<1>2. Ones(0) = {}
  <2>1. ASSUME NEW i \in BitIds PROVE Bit(0, i) = 0
    <3>1. PowerOfTwo[i] \in Nat \ {0}
      BY WordPowers DEF BitIds
    <3> QED BY <3>1 DEF Bit
  <2> QED BY <2>1 DEF Ones
<1>3. ASSUME NEW a \in Words, NEW b \in Words
      PROVE  /\ Xor(a, b).result \in Words
             /\ Ones(Xor(a, b).result) = (Ones(a) \ Ones(b)) \cup (Ones(b) \ Ones(a))
  <2> DEFINE ones == (Ones(a) \ Ones(b)) \cup (Ones(b) \ Ones(a))
  <2>1. Xor(a, b).result = FromOnes(ones) /\ ones \subseteq BitIds
    BY DEF Xor, BitwiseOf, Outcome, Ones
  <2> HIDE DEF ones
  <2>2. \A i \in BitIds : Bit(FromOnes(ones), i) = 1 <=> i \in ones
    BY OnesAreBits
  <2>3. Ones(FromOnes(ones)) = ones
    BY <2>1, <2>2 DEF Ones
  <2> QED BY <2>1, <2>3, OnesMakeWord DEF ones
<1>4. ASSUME NEW a \in Words, NEW b \in Words
      PROVE  Xor(a, b).result = 0 <=> a = b
  <2>1. CASE a = b
    <3>1. Ones(Xor(a, b).result) = Ones(0)
      <4>1. (Ones(a) \ Ones(b)) \cup (Ones(b) \ Ones(a)) = {}
        BY <2>1
      <4> QED BY <1>2, <1>3, <4>1
    <3> QED BY <1>1, <1>3, <2>1, <3>1, SameBits
  <2>2. CASE Xor(a, b).result = 0
    <3>1. (Ones(a) \ Ones(b)) \cup (Ones(b) \ Ones(a)) = {}
      BY <1>2, <1>3, <2>2
    <3>2. Ones(a) = Ones(b)
      BY <3>1
    <3> QED BY <2>2, <3>2, SameBits
  <2> QED BY <2>1, <2>2
<1>5. Xor(0, 1).result = 1
  <2>1. Ones(Xor(0, 1).result) = (Ones(0) \ Ones(1)) \cup (Ones(1) \ Ones(0))
    BY <1>1, <1>3
  <2>2. Ones(Xor(0, 1).result) = Ones(1)
    BY <1>2, <2>1
  <2> QED BY <1>1, <1>3, <2>2, SameBits
<1> QED BY <1>1, <1>4, <1>5

\* Shifted right by its width less one, a word becomes its top bit.
LEMMA TopComesDown ==
    /\ SignShift \in Nat /\ SignShift % M \in Words
    /\ \A w \in Words : Shr(w, SignShift % M).result = IF Top(w) THEN 1 ELSE 0
<1>1. /\ WordBits \in Nat \ {0} /\ SignShift = WordBits - 1 /\ SignShift \in Nat
      /\ M \in Nat \ {0} /\ SignBit \in Nat \ {0} /\ M = 2 * SignBit
      /\ PowerOfTwo[WordBits - 1] = SignBit
  BY WordAssumption, WidthAssumption, WordPowers DEF M
<1>2. WordBits - 1 < M
  <2> DEFINE P == [n \in 0 .. WordBits |-> {p \in Nat : n < p}]
  <2>1. PowerOfTwo[0] \in P[0] /\ P[WordBits] = {p \in Nat : WordBits < p}
    BY <1>1, WordPowers
  <2>2. ASSUME NEW n \in 1 .. WordBits, PowerOfTwo[n - 1] \in P[n - 1]
        PROVE  PowerOfTwo[n] \in P[n]
    <3>1. n \in 0 .. WordBits /\ n - 1 \in 0 .. WordBits
      BY <1>1
    <3>2. PowerOfTwo[n - 1] \in Nat /\ n - 1 < PowerOfTwo[n - 1]
      BY <2>2, <3>1
    <3>3. PowerOfTwo[n] = 2 * PowerOfTwo[n - 1]
      BY WordPowers
    <3>4. PowerOfTwo[n] \in Nat /\ n < PowerOfTwo[n]
      BY <3>2, <3>3
    <3> QED BY <3>1, <3>4
  <2> HIDE DEF P
  <2>3. PowerOfTwo[WordBits] \in P[WordBits]
    BY <1>1, <2>1, <2>2, RecursionKeeps
  <2> QED BY <1>1, <2>1, <2>3, WordPowers
<1>3. SignShift % M = SignShift /\ SignShift \in Words /\ Count(SignShift) = SignShift
  <2>1. \A n \in Nat \ {0} : \A x \in Nat : x < n => x % n = x
    OBVIOUS
  <2>2. SignShift < M /\ SignShift < WordBits
    BY <1>1, <1>2
  <2> QED BY <1>1, <2>1, <2>2 DEF Words, Count
<1>4. ASSUME NEW w \in Words PROVE Shr(w, SignShift).result = IF Top(w) THEN 1 ELSE 0
  <2>1. w \in Nat /\ w < 2 * SignBit
    BY <1>1 DEF Words
  <2>2. Shr(w, SignShift).result = w \div SignBit
    BY <1>1, <1>3 DEF Shr, Outcome
  <2>3. CASE w >= SignBit
    <3>1. w = SignBit * 1 + (w - SignBit) /\ w - SignBit \in Nat /\ w - SignBit < SignBit
      BY <1>1, <2>1, <2>3
    <3>2. w \div SignBit = 1
      BY <1>1, <2>1, <3>1, DivisionIsUnique
    <3> QED BY <2>2, <2>3, <3>2 DEF Top
  <2>4. CASE w < SignBit
    <3>1. w = SignBit * 0 + w
      BY <1>1, <2>1
    <3>2. w \div SignBit = 0
      BY <1>1, <2>1, <2>4, <3>1, DivisionIsUnique
    <3> QED BY <1>1, <2>1, <2>2, <2>4, <3>2 DEF Top
  <2> QED BY <1>1, <2>1, <2>3, <2>4
<1> QED BY <1>1, <1>3, <1>4

\* The numbers that are truth values, and reading them.
LEMMA TruthIsRead ==
    {0, 1} \subseteq Words /\ Signed(0) = 0 /\ Signed(1) = 1
<1>1. SignBit > 1
  <2>1. WordBits - 1 \in 1 .. WordBits /\ (WordBits - 1) - 1 \in 0 .. WordBits
    BY WordAssumption, WidthAssumption
  <2>2. SignBit = 2 * PowerOfTwo[(WordBits - 1) - 1] /\ PowerOfTwo[(WordBits - 1) - 1] \in Nat \ {0}
    BY <2>1, WordPowers, WordAssumption
  <2> QED BY <2>2
<1> QED BY <1>1, WordAssumption, XorTells DEF Signed, Top


-----------------------------------------------------------------------------
(***************************************************************************)
(* Truth values in code.                                                   *)
(***************************************************************************)
\* What an instruction of the operators' code does to the registers, if it
\* does not divide.
LEMMA InstructionSets ==
    ASSUME NEW before \in Machines, NEW i \in Instruction, i.op # "div"
    PROVE  /\ ~ Divides(i, before)
           /\ Done(i, before) \in Machines
           /\ \A q \in Registers \ {i.d} : Done(i, before)[q] = before[q]
           /\ i.op = "movi" => Done(i, before)[i.d] = i.n % M
           /\ i.op = "add" => Done(i, before)[i.d] = AluAdd(before[i.a], before[i.b]).result
           /\ i.op = "sub" => Done(i, before)[i.d] = AluSub(before[i.a], before[i.b]).result
           /\ i.op = "mul" => Done(i, before)[i.d] = Mul(before[i.a], before[i.b]).result
           /\ i.op = "and" => Done(i, before)[i.d] = And(before[i.a], before[i.b]).result
           /\ i.op = "or" => Done(i, before)[i.d] = Or(before[i.a], before[i.b]).result
           /\ i.op = "xor" => Done(i, before)[i.d] = Xor(before[i.a], before[i.b]).result
           /\ i.op = "not" => Done(i, before)[i.d] = Not(before[i.a]).result
           /\ i.op = "shr" => Done(i, before)[i.d] = Shr(before[i.a], before[i.b]).result
<1>1. ~ Divides(i, before)
  BY DEF Divides
<1>2. /\ Done(i, before) \in Machines /\ Done(i, before)[i.d] = Computed(i, before)
      /\ \A q \in Registers \ {i.d} : Done(i, before)[q] = before[q]
  BY <1>1, OneDone
<1>3. /\ i.op = "movi" => Computed(i, before) = i.n % M
      /\ i.op = "add" => Computed(i, before) = AluAdd(before[i.a], before[i.b]).result
      /\ i.op = "sub" => Computed(i, before) = AluSub(before[i.a], before[i.b]).result
      /\ i.op = "mul" => Computed(i, before) = Mul(before[i.a], before[i.b]).result
  BY DEF Computed
<1>4. /\ i.op = "and" => Computed(i, before) = And(before[i.a], before[i.b]).result
      /\ i.op = "or" => Computed(i, before) = Or(before[i.a], before[i.b]).result
      /\ i.op = "xor" => Computed(i, before) = Xor(before[i.a], before[i.b]).result
      /\ i.op = "not" => Computed(i, before) = Not(before[i.a]).result
      /\ i.op = "shr" => Computed(i, before) = Shr(before[i.a], before[i.b]).result
  BY DEF Computed
<1> QED BY <1>1, <1>2, <1>3, <1>4

\* A line that never divides, and writes r and scratch registers, yields what
\* it leaves in r.
LEMMA NoDivision ==
    ASSUME NEW code \in Code, NEW regs \in Machines, NEW r \in Registers,
           \A n \in 1 .. Len(code) : code[n].op # "div" /\ code[n].d \in {r} \cup (10 .. 13)
    PROVE  Yields(code, regs, r, Last(code, regs)[r])
<1> DEFINE after == AfterEach(code, regs)
           good == {f \in Machines : \A q \in Spared(r) : f[q] = regs[q]}
           P == [n \in 0 .. Len(code) |-> good]
<1>1. Len(code) \in Nat /\ \A n \in 1 .. Len(code) : code[n] \in Instruction
  BY DEF Code
<1>2. after[0] = regs /\ \A n \in 1 .. Len(code) : after[n] = Done(code[n], after[n - 1])
  BY <1>1, CodeSteps
<1> HIDE DEF after
<1>3. ASSUME NEW n \in 1 .. Len(code), NEW f \in good PROVE Done(code[n], f) \in good
  <2>1. /\ Done(code[n], f) \in Machines
        /\ \A q \in Registers \ {code[n].d} : Done(code[n], f)[q] = f[q]
    BY <1>1, <1>3, InstructionSets
  <2> QED BY <1>3, <2>1 DEF Spared
<1> HIDE DEF good
<1>4. ASSUME NEW m \in 0 .. Len(code) PROVE after[m] \in good
  <2> DEFINE Q == [n \in 0 .. m |-> good]
  <2>1. after[0] \in Q[0] /\ Q[m] = good /\ m \in Nat
    BY <1>1, <1>2 DEF good
  <2>2. ASSUME NEW n \in 1 .. m, after[n - 1] \in Q[n - 1] PROVE after[n] \in Q[n]
    <3>1. n \in 1 .. Len(code) /\ n \in 0 .. m /\ n - 1 \in 0 .. m
      BY <1>1
    <3> QED BY <1>2, <1>3, <2>2, <3>1
  <2> HIDE DEF Q
  <2>3. after[m] \in Q[m]
    BY <2>1, <2>2, RecursionKeeps
  <2> QED BY <2>1, <2>3
<1>5. ~ Fails(code, regs)
  BY DEF Fails, Divides
<1>6. Len(code) \in 0 .. Len(code) /\ Last(code, regs) = after[Len(code)]
  BY <1>1 DEF Last, after
<1> QED BY <1>4, <1>5, <1>6 DEF Yields, good

\* emit_bool_nonzero: one for any word but zero.
LEMMA NormalizedYields ==
    ASSUME NEW regs \in Machines, NEW r \in 0 .. 9
    PROVE  /\ Normalized(r) \in Code
           /\ Yields(Normalized(r), regs, r, IF regs[r] = 0 THEN 0 ELSE 1)
<1> DEFINE x == regs[r]
           minus == AluSub(0, x).result
           either == Or(x, minus).result
           code == Normalized(r)
           after == AfterEach(code, regs)
           c1 == Movi(Scratch, 0)
           c2 == Op("sub", Scratch, Scratch, r)
           c3 == Op("or", r, r, Scratch)
           c4 == Movi(Scratch, SignShift)
           c5 == Op("shr", r, r, Scratch)
<1>1. {r, Scratch} \subseteq Registers /\ Scratch # r /\ Scratch \in 10 .. 13
  BY DEF Registers, Scratch
<1>2. /\ 0 \in Nat /\ SignShift \in Nat
      /\ {c1, c2, c3, c4, c5} \subseteq Instruction
      /\ c1.op = "movi" /\ c1.d = Scratch /\ c1.n = 0
      /\ c2.op = "sub" /\ c2.d = Scratch /\ c2.a = Scratch /\ c2.b = r
      /\ c3.op = "or" /\ c3.d = r /\ c3.a = r /\ c3.b = Scratch
      /\ c4.op = "movi" /\ c4.d = Scratch /\ c4.n = SignShift
      /\ c5.op = "shr" /\ c5.d = r /\ c5.a = r /\ c5.b = Scratch
  <2>1. {"sub", "or", "shr"} \subseteq Arithmetics
    BY DEF Arithmetics
  <2> QED BY <1>1, <2>1, OpFields, OpMakes, MoviMakes, TopComesDown
<1>3. code = <<c1, c2, c3, c4, c5>>
  BY DEF Normalized
<1> HIDE DEF c1, c2, c3, c4, c5, code
<1>4. /\ Len(code) = 5 /\ code \in Code
      /\ code[1] = c1 /\ code[2] = c2 /\ code[3] = c3 /\ code[4] = c4 /\ code[5] = c5
  BY <1>2, <1>3 DEF Code
<1>5. /\ after[0] = regs /\ after[1] = Done(c1, after[0]) /\ after[2] = Done(c2, after[1])
      /\ after[3] = Done(c3, after[2]) /\ after[4] = Done(c4, after[3])
      /\ after[5] = Done(c5, after[4])
  <2>1. Len(code) \in Nat /\ {1, 2, 3, 4, 5} \subseteq 1 .. Len(code)
    BY <1>4
  <2>2. after[0] = regs /\ \A n \in 1 .. Len(code) : after[n] = Done(code[n], after[n - 1])
    BY <2>1, CodeSteps
  <2> HIDE DEF after
  <2> QED BY <1>4, <2>1, <2>2
<1>6. Yields(code, regs, r, after[5][r])
  <2>1. \A n \in 1 .. Len(code) : code[n] \in {c1, c2, c3, c4, c5}
    BY <1>4
  <2>2. \A n \in 1 .. Len(code) : code[n].op # "div" /\ code[n].d \in {r} \cup (10 .. 13)
    BY <1>1, <1>2, <2>1
  <2> HIDE DEF after
  <2>3. Last(code, regs) = after[5]
    BY <1>4 DEF Last, after
  <2> QED BY <1>1, <1>4, <2>2, <2>3, NoDivision
<1> HIDE DEF after
<1>7. after[1] \in Machines /\ after[1][Scratch] = 0 % M /\ after[1][r] = x
  BY <1>1, <1>2, <1>5, InstructionSets
<1>8. after[2] \in Machines /\ after[2][Scratch] = minus /\ after[2][r] = x
  <2>1. 0 % M = 0
    BY WordPowers
  <2> QED BY <1>1, <1>2, <1>5, <1>7, <2>1, InstructionSets
<1>9. after[3] \in Machines /\ after[3][r] = either
  BY <1>1, <1>2, <1>5, <1>8, InstructionSets
<1>10. /\ after[4] \in Machines /\ after[4][r] = either
       /\ after[4][Scratch] = SignShift % M
  <2> DEFINE before == after[3]
  <2> HIDE DEF x, minus, either
  <2>1. before \in Machines /\ c4 \in Instruction /\ c4.op # "div" /\ c4.op = "movi"
    BY <1>2, <1>9
  <2>2. /\ Done(c4, before) \in Machines
        /\ \A q \in Registers \ {c4.d} : Done(c4, before)[q] = before[q]
        /\ Done(c4, before)[c4.d] = c4.n % M
    BY <2>1, InstructionSets
  <2> QED BY <1>1, <1>2, <1>5, <1>9, <2>2
<1>11. after[5][r] = Shr(either, SignShift % M).result
  <2> DEFINE before == after[4]
  <2> HIDE DEF x, minus, either
  <2>1. before \in Machines /\ c5 \in Instruction /\ c5.op = "shr"
    BY <1>2, <1>10
  <2>2. Done(c5, before)[c5.d] = Shr(before[c5.a], before[c5.b]).result
    BY <2>1, InstructionSets
  <2> QED BY <1>2, <1>5, <1>10, <2>2
<1>12. x \in Words /\ minus \in Words /\ either \in Words /\ 0 \in Words
  <2>1. x \in Words /\ 0 \in Words
    BY <1>1, XorTells DEF Machines
  <2> HIDE DEF x
  <2>2. minus \in Words
    BY <2>1, ResultsAreWords
  <2> HIDE DEF minus
  <2> QED BY <2>1, <2>2, ResultsAreWords
<1>13. Top(either) <=> x # 0
  <2>1. Top(either) <=> Top(x) \/ Top(minus)
    BY <1>12, TopsCombine
  <2>2. minus = IF 0 - x >= 0 THEN 0 - x ELSE 0 - x + M
    BY <1>12, DifferenceWraps DEF AluSub, Outcome
  <2>3. x \in Nat /\ x < 2 * SignBit /\ SignBit \in Nat \ {0}
    BY <1>12, WordAssumption DEF Words, M
  <2> HIDE DEF x, minus, either
  <2> QED BY <2>1, <2>2, <2>3 DEF Top, M
<1>14. after[5][r] = IF x = 0 THEN 0 ELSE 1
  BY <1>11, <1>12, <1>13, TopComesDown
<1> QED BY <1>4, <1>6, <1>14 DEF code

\* A truth value, the other way round.
LEMMA InvertedYields ==
    ASSUME NEW regs \in Machines, NEW r \in 0 .. 9, regs[r] \in {0, 1}
    PROVE  Inverted(r) \in Code /\ Yields(Inverted(r), regs, r, 1 - regs[r])
<1> DEFINE x == regs[r]
           code == Inverted(r)
           after == AfterEach(code, regs)
           c1 == Movi(Scratch, 1)
           c2 == Op("xor", r, r, Scratch)
<1>1. {r, Scratch} \subseteq Registers /\ Scratch # r /\ Scratch \in 10 .. 13
  BY DEF Registers, Scratch
<1>2. /\ {c1, c2} \subseteq Instruction
      /\ c1.op = "movi" /\ c1.d = Scratch /\ c1.n = 1
      /\ c2.op = "xor" /\ c2.d = r /\ c2.a = r /\ c2.b = Scratch
  <2>1. "xor" \in Arithmetics /\ 1 \in Nat
    BY DEF Arithmetics
  <2> QED BY <1>1, <2>1, OpFields, OpMakes, MoviMakes
<1>3. code = <<c1, c2>>
  BY DEF Inverted
<1> HIDE DEF c1, c2, code
<1>4. Len(code) = 2 /\ code \in Code /\ code[1] = c1 /\ code[2] = c2
  BY <1>2, <1>3 DEF Code
<1>5. after[0] = regs /\ after[1] = Done(c1, after[0]) /\ after[2] = Done(c2, after[1])
  <2>1. Len(code) \in Nat /\ {1, 2} \subseteq 1 .. Len(code)
    BY <1>4
  <2>2. after[0] = regs /\ \A n \in 1 .. Len(code) : after[n] = Done(code[n], after[n - 1])
    BY <2>1, CodeSteps
  <2> HIDE DEF after
  <2> QED BY <1>4, <2>1, <2>2
<1>6. Yields(code, regs, r, after[2][r])
  <2>1. \A n \in 1 .. Len(code) : code[n] \in {c1, c2}
    BY <1>4
  <2>2. \A n \in 1 .. Len(code) : code[n].op # "div" /\ code[n].d \in {r} \cup (10 .. 13)
    BY <1>1, <1>2, <2>1
  <2> HIDE DEF after
  <2>3. Last(code, regs) = after[2]
    BY <1>4 DEF Last, after
  <2> QED BY <1>1, <1>4, <2>2, <2>3, NoDivision
<1> HIDE DEF after, x
<1>7. after[1] \in Machines /\ after[1][Scratch] = 1 % M /\ after[1][r] = x
  BY <1>1, <1>2, <1>5, InstructionSets DEF x
<1>8. 1 % M = 1
  <2>1. \A n \in Nat \ {0} : 1 < n => 1 % n = 1
    OBVIOUS
  <2>2. M \in Nat \ {0} /\ 1 < M
    BY WordAssumption DEF M
  <2> QED BY <2>1, <2>2
<1>9. after[2][r] = Xor(x, 1).result
  BY <1>1, <1>2, <1>5, <1>7, <1>8, InstructionSets
<1>10. Xor(x, 1).result = 1 - x
  <2>1. Xor(1, 1).result = 0 /\ Xor(0, 1).result = 1
    BY XorTells
  <2> QED BY <2>1 DEF x
<1> QED BY <1>4, <1>6, <1>9, <1>10 DEF code, x

\* The sign of the difference, corrected where it overflows, is the order.
LEMMA SignOfOrder ==
    ASSUME NEW x \in Words, NEW y \in Words
    PROVE  LET rest == AluSub(x, y).result
               unlike == Xor(x, y).result
           IN  Top(Or(And(unlike, x).result, And(Not(unlike).result, rest).result).result)
                 <=> Signed(x) < Signed(y)
<1> DEFINE rest == AluSub(x, y).result
           unlike == Xor(x, y).result
           greater == And(unlike, x).result
           alike == Not(unlike).result
           less == And(alike, rest).result
<1>1. rest \in Words /\ unlike \in Words
  BY ResultsAreWords
<1>2. rest = IF x - y >= 0 THEN x - y ELSE x - y + M
  BY DifferenceWraps DEF AluSub, Outcome
<1>3. Top(unlike) <=> Top(x) # Top(y)
  BY TopsCombine
<1> HIDE DEF rest, unlike
<1>4. greater \in Words /\ alike \in Words
  BY <1>1, ResultsAreWords
<1>5. (Top(greater) <=> Top(unlike) /\ Top(x)) /\ (Top(alike) <=> ~ Top(unlike))
  BY <1>1, TopsCombine
<1> HIDE DEF greater, alike
<1>6. less \in Words /\ (Top(less) <=> Top(alike) /\ Top(rest))
  BY <1>1, <1>4, ResultsAreWords, TopsCombine
<1> HIDE DEF less
<1>7. Top(Or(greater, less).result) <=> Top(greater) \/ Top(less)
  BY <1>4, <1>6, TopsCombine
<1>8. Top(Or(greater, less).result)
        <=> IF Top(x) # Top(y) THEN Top(x) ELSE Top(rest)
  <2>1. Top(x) \in BOOLEAN /\ Top(y) \in BOOLEAN /\ Top(rest) \in BOOLEAN
    BY DEF Top
  <2> QED BY <1>3, <1>5, <1>6, <1>7, <2>1
<1>9. (IF Top(x) # Top(y) THEN Top(x) ELSE Top(rest)) <=> Signed(x) < Signed(y)
  <2>1. /\ x \in Nat /\ y \in Nat /\ SignBit \in Nat \ {0}
        /\ x < 2 * SignBit /\ y < 2 * SignBit
    BY WordAssumption DEF Words, M
  <2> QED BY <1>2, <2>1 DEF Top, Signed, M
<1>10. Top(Or(greater, less).result) <=> Signed(x) < Signed(y)
  BY <1>8, <1>9
<1> QED BY <1>10 DEF rest, unlike, greater, alike, less

\* emit_signed_less_than.
LEMMA LessYields ==
    ASSUME NEW regs \in Machines, NEW r \in 0 .. 9, NEW p \in 0 .. 9, NEW q \in 0 .. 9
    PROVE  /\ Less(r, p, q) \in Code
           /\ Yields(Less(r, p, q), regs, r,
                     IF Signed(regs[p]) < Signed(regs[q]) THEN 1 ELSE 0)
<1> DEFINE x == regs[p]
           y == regs[q]
           rest == AluSub(x, y).result
           unlike == Xor(x, y).result
           greater == And(unlike, x).result
           alike == Not(unlike).result
           less == And(alike, rest).result
           either == Or(greater, less).result
           code == Less(r, p, q)
           after == AfterEach(code, regs)
           c1 == Op("sub", 10, p, q)
           c2 == Op("xor", 11, p, q)
           c3 == Op("and", 12, 11, p)
           c4 == Op("not", 11, 11, 0)
           c5 == Op("and", 11, 11, 10)
           c6 == Op("or", 10, 12, 11)
           c7 == Movi(11, SignShift)
           c8 == Op("shr", r, 10, 11)
<1>1. /\ r \in Registers /\ p \in Registers /\ q \in Registers /\ 0 \in Registers
      /\ 10 \in Registers /\ 11 \in Registers /\ 12 \in Registers
  BY DEF Registers
<1>2. /\ {c1, c2, c3, c4} \subseteq Instruction
      /\ c1.op = "sub" /\ c1.d = 10 /\ c1.a = p /\ c1.b = q
      /\ c2.op = "xor" /\ c2.d = 11 /\ c2.a = p /\ c2.b = q
      /\ c3.op = "and" /\ c3.d = 12 /\ c3.a = 11 /\ c3.b = p
      /\ c4.op = "not" /\ c4.d = 11 /\ c4.a = 11
  <2>1. \A k \in {"sub", "xor", "and", "not"} : k \in Arithmetics
    BY DEF Arithmetics
  <2>2. c1 \in Instruction /\ c1.op = "sub" /\ c1.d = 10 /\ c1.a = p /\ c1.b = q
    BY <1>1, <2>1 DEF Op, Instruction
  <2>3. c2 \in Instruction /\ c2.op = "xor" /\ c2.d = 11 /\ c2.a = p /\ c2.b = q
    BY <1>1, <2>1 DEF Op, Instruction
  <2>4. c3 \in Instruction /\ c3.op = "and" /\ c3.d = 12 /\ c3.a = 11 /\ c3.b = p
    BY <1>1, <2>1 DEF Op, Instruction
  <2>5. c4 \in Instruction /\ c4.op = "not" /\ c4.d = 11 /\ c4.a = 11
    BY <1>1, <2>1 DEF Op, Instruction
  <2> HIDE DEF c1, c2, c3, c4
  <2> QED BY <2>2, <2>3, <2>4, <2>5
<1>3. /\ {c5, c6, c7, c8} \subseteq Instruction
      /\ c5.op = "and" /\ c5.d = 11 /\ c5.a = 11 /\ c5.b = 10
      /\ c6.op = "or" /\ c6.d = 10 /\ c6.a = 12 /\ c6.b = 11
      /\ c7.op = "movi" /\ c7.d = 11 /\ c7.n = SignShift
      /\ c8.op = "shr" /\ c8.d = r /\ c8.a = 10 /\ c8.b = 11
  <2>1. /\ \A k \in {"and", "or", "shr"} : k \in Arithmetics
        /\ SignShift \in Nat
    BY TopComesDown DEF Arithmetics
  <2>2. c5 \in Instruction /\ c5.op = "and" /\ c5.d = 11 /\ c5.a = 11 /\ c5.b = 10
    BY <1>1, <2>1 DEF Op, Instruction
  <2>3. c6 \in Instruction /\ c6.op = "or" /\ c6.d = 10 /\ c6.a = 12 /\ c6.b = 11
    BY <1>1, <2>1 DEF Op, Instruction
  <2>4. c7 \in Instruction /\ c7.op = "movi" /\ c7.d = 11 /\ c7.n = SignShift
    BY <1>1, <2>1, MoviMakes
  <2>5. c8 \in Instruction /\ c8.op = "shr" /\ c8.d = r /\ c8.a = 10 /\ c8.b = 11
    BY <1>1, <2>1 DEF Op, Instruction
  <2> HIDE DEF c5, c6, c7, c8
  <2> QED BY <2>2, <2>3, <2>4, <2>5
<1>4. code = <<c1, c2, c3, c4, c5, c6, c7, c8>>
  BY DEF Less
<1> HIDE DEF c1, c2, c3, c4, c5, c6, c7, c8, code
<1>5. /\ Len(code) = 8 /\ code \in Code
      /\ code[1] = c1 /\ code[2] = c2 /\ code[3] = c3 /\ code[4] = c4
      /\ code[5] = c5 /\ code[6] = c6 /\ code[7] = c7 /\ code[8] = c8
  BY <1>2, <1>3, <1>4 DEF Code
<1>6. /\ after[0] = regs /\ after[1] = Done(c1, after[0]) /\ after[2] = Done(c2, after[1])
      /\ after[3] = Done(c3, after[2]) /\ after[4] = Done(c4, after[3])
      /\ after[5] = Done(c5, after[4]) /\ after[6] = Done(c6, after[5])
      /\ after[7] = Done(c7, after[6]) /\ after[8] = Done(c8, after[7])
  <2>1. Len(code) \in Nat /\ {1, 2, 3, 4, 5, 6, 7, 8} \subseteq 1 .. Len(code)
    BY <1>5
  <2>2. after[0] = regs /\ \A n \in 1 .. Len(code) : after[n] = Done(code[n], after[n - 1])
    BY <2>1, CodeSteps
  <2> HIDE DEF after
  <2> QED BY <1>5, <2>1, <2>2
<1>7. Yields(code, regs, r, after[8][r])
  <2>1. \A n \in 1 .. Len(code) : code[n] \in {c1, c2, c3, c4, c5, c6, c7, c8}
    BY <1>5
  <2>2. \A n \in 1 .. Len(code) : code[n].op # "div" /\ code[n].d \in {r} \cup (10 .. 13)
    BY <1>2, <1>3, <2>1
  <2> HIDE DEF after
  <2>3. Last(code, regs) = after[8]
    BY <1>5 DEF Last, after
  <2> QED BY <1>1, <1>5, <2>2, <2>3, NoDivision
<1> HIDE DEF after, x, y, rest, unlike, greater, alike, less, either
<1>8. /\ after[1] \in Machines /\ after[1][10] = rest
      /\ \A k \in Registers \ {10} : after[1][k] = regs[k]
  BY <1>2, <1>6, InstructionSets DEF x, y, rest
<1>9. /\ after[2] \in Machines
      /\ after[2][11] = Xor(after[1][p], after[1][q]).result
      /\ \A k \in Registers \ {11} : after[2][k] = after[1][k]
  BY <1>2, <1>6, <1>8, InstructionSets
<1>10. /\ after[3] \in Machines
       /\ after[3][12] = And(after[2][11], after[2][p]).result
       /\ \A k \in Registers \ {12} : after[3][k] = after[2][k]
  BY <1>2, <1>6, <1>9, InstructionSets
<1>11. /\ after[4] \in Machines /\ after[4][11] = Not(after[3][11]).result
       /\ \A k \in Registers \ {11} : after[4][k] = after[3][k]
  BY <1>2, <1>6, <1>10, InstructionSets
<1>12. /\ after[5] \in Machines
       /\ after[5][11] = And(after[4][11], after[4][10]).result
       /\ \A k \in Registers \ {11} : after[5][k] = after[4][k]
  BY <1>3, <1>6, <1>11, InstructionSets
<1>13. /\ after[6] \in Machines
       /\ after[6][10] = Or(after[5][12], after[5][11]).result
  BY <1>3, <1>6, <1>12, InstructionSets
<1>14. /\ after[7] \in Machines /\ after[7][10] = after[6][10]
       /\ after[7][11] = SignShift % M
  BY <1>1, <1>3, <1>6, <1>13, InstructionSets
<1>15. after[8][r] = Shr(either, SignShift % M).result /\ after[6][10] = either
  <2>1. after[8][r] = Shr(after[7][10], after[7][11]).result
    <3> DEFINE before == after[7]
    <3>1. before \in Machines /\ c8 \in Instruction /\ c8.op = "shr"
      BY <1>3, <1>14
    <3>2. Done(c8, before)[c8.d] = Shr(before[c8.a], before[c8.b]).result
      BY <3>1, InstructionSets
    <3> QED BY <1>3, <1>6, <3>2
  <2>2. after[1][p] = x /\ after[1][q] = y /\ after[1][10] = rest
    BY <1>1, <1>8 DEF x, y
  <2>3. after[2][11] = unlike /\ after[2][p] = x /\ after[2][10] = rest
    BY <1>1, <1>9, <2>2 DEF unlike
  <2>4. after[3][12] = greater /\ after[3][11] = unlike /\ after[3][10] = rest
    BY <1>1, <1>10, <2>3 DEF greater
  <2>5. after[4][11] = alike /\ after[4][12] = greater /\ after[4][10] = rest
    BY <1>1, <1>11, <2>4 DEF alike
  <2>6. after[5][11] = less /\ after[5][12] = greater
    BY <1>1, <1>12, <2>5 DEF less
  <2>7. after[6][10] = either
    BY <1>13, <2>6 DEF either
  <2> QED BY <1>14, <2>1, <2>7
<1>16. either \in Words
  BY <1>1, <1>13, <1>15 DEF Machines
<1>17. Top(either) <=> Signed(x) < Signed(y)
  <2>1. x \in Words /\ y \in Words
    BY <1>1 DEF Machines, x, y
  <2> QED BY <2>1, SignOfOrder DEF either, greater, less, alike, unlike, rest
<1>18. after[8][r] = IF Signed(x) < Signed(y) THEN 1 ELSE 0
  BY <1>15, <1>16, <1>17, TopComesDown
<1> QED BY <1>5, <1>7, <1>18 DEF code, x, y

-----------------------------------------------------------------------------
(***************************************************************************)
(* The operators.                                                          *)
(***************************************************************************)
\* A word holds what an int wraps to.
LEMMA IntsWrap ==
    ASSUME NEW v \in Int, v < Spread
    PROVE  v % M \in Words /\ Signed(v % M) = Wrapped(v)
<1> DEFINE q == v \div M
           w == v % M
<1>1. M \in Nat \ {0} /\ SignBit \in Nat \ {0} /\ M = 2 * SignBit
  BY WordAssumption DEF M
<1>2. q \in Int /\ w \in Nat /\ w < M /\ v = M * q + w
  BY <1>1, Divided
<1>3. Wrapped(v) = ((v + SignBit) % M) - SignBit
  <2>1. IntValues = M /\ M \div 2 = SignBit /\ ~ (v >= Spread)
    BY <1>1, WidthAssumption, MeaningAssumption
  <2> QED BY <2>1 DEF Wrapped
<1> HIDE DEF q, w
<1>4. CASE w < SignBit
  <2>1. /\ v + SignBit = M * q + (w + SignBit) /\ w + SignBit \in Nat
        /\ w + SignBit < M /\ v + SignBit \in Int /\ q \in Int
    BY <1>1, <1>2, <1>4
  <2>2. (v + SignBit) % M = w + SignBit
    BY <1>1, <2>1, DivisionIsUnique
  <2>3. Signed(w) = w
    BY <1>2, <1>4, <1>1 DEF Signed, Top
  <2> QED BY <1>1, <1>2, <1>3, <2>2, <2>3 DEF w, Words
<1>5. CASE w >= SignBit
  <2>1. /\ v + SignBit = M * (q + 1) + (w - SignBit) /\ w - SignBit \in Nat
        /\ w - SignBit < M /\ v + SignBit \in Int /\ q + 1 \in Int
    BY <1>1, <1>2, <1>5
  <2>2. (v + SignBit) % M = w - SignBit
    BY <1>1, <2>1, DivisionIsUnique
  <2>3. Signed(w) = w - M
    BY <1>2, <1>5, <1>1 DEF Signed, Top
  <2> QED BY <1>1, <1>2, <1>3, <2>2, <2>3 DEF w, Words
<1> QED BY <1>1, <1>2, <1>4, <1>5

\* Sums, differences and products of words read as ints.
LEMMA WordsAreInts ==
    ASSUME NEW a \in Words, NEW b \in Words
    PROVE  /\ AluAdd(a, b).result \in Words
           /\ Signed(AluAdd(a, b).result) = Wrapped(Signed(a) + Signed(b))
           /\ AluSub(a, b).result \in Words
           /\ Signed(AluSub(a, b).result) = Wrapped(Signed(a) - Signed(b))
           /\ Mul(a, b).result \in Words
           /\ Signed(Mul(a, b).result) = Wrapped(Signed(a) * Signed(b))
           /\ Signed(a) < Spread /\ Signed(a) # Strange
           /\ (Signed(b) = 0 <=> b = 0) /\ (Signed(a) = Signed(b) <=> a = b)
<1> DEFINE x == Signed(a)
           y == Signed(b)
<1>1. /\ M \in Nat \ {0} /\ SignBit \in Nat \ {0} /\ M = 2 * SignBit
      /\ a \in Nat /\ b \in Nat /\ a < M /\ b < M
      /\ IntValues = M /\ Spread \in Nat /\ Strange \in Nat /\ M * M < Spread /\ Spread < Strange
  BY WordAssumption, WidthAssumption, MeaningAssumption DEF M, Words
<1>2. PICK j \in Int, k \in Int : x = a + M * j /\ y = b + M * k
  BY SignedIsWord
<1>3. /\ x \in Int /\ - SignBit <= x /\ x < SignBit
      /\ y \in Int /\ - SignBit <= y /\ y < SignBit
  BY SignedIsWord
<1>4. (Signed(b) = 0 <=> b = 0) /\ (Signed(a) = Signed(b) <=> a = b)
  BY <1>1 DEF Signed, Top
<1> HIDE DEF x, y
<1>5. M <= M * M /\ 2 * SignBit < Spread /\ SignBit < Spread
  <2>1. M >= 1
    BY <1>1
  <2>2. M * M >= M * 1
    BY <1>1, <2>1
  <2> QED BY <1>1, <2>2
<1>6. x + y < Spread /\ x - y < Spread /\ x < Spread
  <2>1. x + y < 2 * SignBit /\ x - y <= 2 * SignBit - 1
    BY <1>1, <1>3
  <2> QED BY <1>1, <1>3, <1>5, <2>1
<1>7. x * y < Spread
  <2>1. SignBit * SignBit < Spread
    <3>1. M * M = 4 * (SignBit * SignBit)
      BY <1>1
    <3>2. SignBit * SignBit \in Nat
      BY <1>1
    <3> QED BY <1>1, <3>1, <3>2
  <2>2. x * y <= SignBit * SignBit
    <3>1. CASE x >= 0 /\ y >= 0
      <4>1. x * y <= SignBit * y
        BY <1>1, <1>3, <3>1
      <4>2. SignBit * y <= SignBit * SignBit
        BY <1>1, <1>3, <3>1
      <4> QED BY <1>1, <1>3, <4>1, <4>2
    <3>2. CASE x < 0 /\ y < 0
      <4> DEFINE u == - x
                 v == - y
      <4>1. u \in Nat /\ v \in Nat /\ u <= SignBit /\ v <= SignBit /\ x * y = u * v
        BY <1>1, <1>3, <3>2
      <4> HIDE DEF u, v
      <4>2. u * v <= SignBit * v /\ SignBit * v <= SignBit * SignBit
        BY <1>1, <4>1
      <4> QED BY <1>1, <4>1, <4>2
    <3>3. CASE (x >= 0) # (y >= 0)
      <4>1. x * y <= 0
        <5>1. CASE x >= 0 /\ y < 0
          BY <1>3, <5>1
        <5>2. CASE x < 0 /\ y >= 0
          BY <1>3, <5>2
        <5> QED BY <1>3, <3>3, <5>1, <5>2
      <4>2. SignBit * SignBit \in Nat
        BY <1>1
      <4> QED BY <1>1, <1>3, <4>1, <4>2
    <3> QED BY <1>3, <3>1, <3>2, <3>3
  <2> QED BY <1>1, <1>3, <2>1, <2>2
<1>8. /\ AluAdd(a, b).result = (x + y) % M
      /\ AluSub(a, b).result = (x - y) % M
      /\ Mul(a, b).result = (x * y) % M
  <2>1. /\ AluAdd(a, b).result = (a + b) % M /\ AluSub(a, b).result = (a - b) % M
        /\ Mul(a, b).result = (x * y) % M
    BY DEF AluAdd, AluSub, Mul, Outcome, x, y
  <2>2. /\ x + y = (a + b) + M * (j + k) /\ x - y = (a - b) + M * (j - k)
        /\ x + y \in Int /\ x - y \in Int /\ a + b \in Int /\ a - b \in Int
        /\ j + k \in Int /\ j - k \in Int
    BY <1>1, <1>2, <1>3
  <2> QED BY <2>1, <2>2, SameWord
<1>9. x + y \in Int /\ x - y \in Int /\ x * y \in Int
  BY <1>3
<1> QED BY <1>1, <1>3, <1>4, <1>5, <1>6, <1>7, <1>8, <1>9, IntsWrap DEF x, y

\* Division and remainder, where they are defined.
LEMMA QuotientsAreInts ==
    ASSUME NEW a \in Words, NEW b \in Words
    PROVE  LET x == Signed(a)
               y == Signed(b)
               quotient == Div(a, b).result
               rest == AluSub(a, Mul(quotient, b).result).result
           IN  /\ DivFaults(a, b) <=> Undefined(x, y)
               /\ ~ DivFaults(a, b) =>
                     /\ {quotient, Mul(quotient, b).result, rest} \subseteq Words
                     /\ Signed(quotient) = Toward0(x, y)
                     /\ Signed(rest) = x - Toward0(x, y) * y
<1> DEFINE x == Signed(a)
           y == Signed(b)
           quotient == Div(a, b).result
           product == Mul(quotient, b).result
           rest == AluSub(a, product).result
<1>1. DivFaults(a, b) <=> Undefined(x, y)
  <2>1. (y = 0 <=> b = 0) /\ IntValues \div 2 = SignBit
    <3>1. IntValues = 2 * SignBit /\ SignBit \in Nat
      BY WidthAssumption, WordAssumption DEF M
    <3> QED BY <3>1, WordsAreInts
  <2> QED BY <2>1 DEF DivFaults, Undefined
<1>2. ASSUME ~ DivFaults(a, b)
      PROVE  /\ quotient \in Words /\ product \in Words /\ rest \in Words
             /\ Signed(quotient) = Toward0(x, y)
             /\ Signed(rest) = x - Toward0(x, y) * y
  <2>1. /\ quotient \in Words /\ Signed(quotient) = Truncate(x, y)
        /\ Signed(rest) = x - (Truncate(x, y) * y)
    BY <1>2, DivisionIsC
  <2>2. Truncate(x, y) = Toward0(x, y)
    BY DEF Truncate, Toward0
  <2> HIDE DEF x, y, quotient
  <2>3. product \in Words
    BY <2>1, ResultsAreWords
  <2> HIDE DEF product
  <2>4. rest \in Words
    BY <2>3, ResultsAreWords
  <2> QED BY <2>1, <2>2, <2>3, <2>4
<1> QED BY <1>1, <1>2

\* Code that yields the meaning computes it.
Means(op, regs, d, r) ==
    \E w \in Words : /\ Yields(Operation(op, d, r), regs, d, w)
                     /\ Signed(w) = Joined(op, Signed(regs[d]), Signed(regs[r]))

LEMMA MeaningComputed ==
    ASSUME NEW op, NEW regs, NEW d, NEW r,
           \/ Means(op, regs, d, r)
           \/ /\ Fails(Operation(op, d, r), regs)
              /\ Joined(op, Signed(regs[d]), Signed(regs[r])) = Strange
    PROVE  ComputesMeaning(op, regs, d, r)
<1> DEFINE code == Operation(op, d, r)
           meaning == Joined(op, Signed(regs[d]), Signed(regs[r]))
<1>1. \A w \in Words : Signed(w) # Strange
  BY WordsAreInts
<1>2. ComputesMeaning(op, regs, d, r) <=>
        /\ Fails(code, regs) <=> meaning = Strange
        /\ ~ Fails(code, regs) =>
              /\ Signed(Last(code, regs)[d]) = meaning
              /\ \A q \in Registers \ ({d} \cup (10 .. 13)) : Last(code, regs)[q] = regs[q]
  BY DEF ComputesMeaning, Fails, Last
<1> QED BY <1>1, <1>2 DEF Means, Yields, Spared

\* The operators of one instruction.
LEMMA SumsMean ==
    ASSUME NEW regs \in Machines, NEW d \in 0 .. 9, NEW r \in 0 .. 9,
           NEW op \in {"+", "-", "*"}
    PROVE  Means(op, regs, d, r)
<1> DEFINE x == regs[d]
           y == regs[r]
           a == Signed(x)
           b == Signed(y)
           name == IF op = "+" THEN "add" ELSE IF op = "-" THEN "sub" ELSE "mul"
           i == Op(name, d, d, r)
           w == Computed(i, regs)
<1>1. d \in Registers /\ r \in Registers /\ x \in Words /\ y \in Words
  BY DEF Registers, Machines
<1>2. /\ i \in Instruction /\ i.op = name /\ i.d = d /\ i.a = d /\ i.b = r
      /\ name # "div"
  <2>1. name \in Arithmetics /\ name # "div"
    BY DEF Arithmetics
  <2> HIDE DEF name
  <2> QED BY <1>1, <2>1, OpFields, OpMakes
<1>3. Operation(op, d, r) = <<i>>
  BY DEF Operation
<1>4. Yields(<<i>>, regs, d, w)
  <2> HIDE DEF i, name
  <2>1. ~ Divides(i, regs)
    BY <1>2 DEF Divides
  <2> QED BY <1>2, <2>1, OneYields
<1>5. w = CASE op = "+" -> AluAdd(x, y).result
            [] op = "-" -> AluSub(x, y).result
            [] op = "*" -> Mul(x, y).result
  <2> HIDE DEF i
  <2> QED BY <1>2 DEF Computed
<1>6. Joined(op, a, b) = CASE op = "+" -> Wrapped(a + b)
                           [] op = "-" -> Wrapped(a - b)
                           [] op = "*" -> Wrapped(a * b)
  <2>1. a # Strange /\ b # Strange
    BY <1>1, WordsAreInts
  <2> HIDE DEF a, b
  <2> QED BY <2>1 DEF Joined
<1> HIDE DEF w, i, x, y
<1>7. w \in Words /\ Signed(w) = Joined(op, a, b)
  <2>1. CASE op = "+"
    BY <1>1, <1>5, <1>6, <2>1, WordsAreInts
  <2>2. CASE op = "-"
    BY <1>1, <1>5, <1>6, <2>2, WordsAreInts
  <2>3. CASE op = "*"
    BY <1>1, <1>5, <1>6, <2>3, WordsAreInts
  <2> QED BY <2>1, <2>2, <2>3
<1> QED BY <1>3, <1>4, <1>7 DEF Means, x, y

\* Division faults where C leaves it undefined.
LEMMA QuotientMeans ==
    ASSUME NEW regs \in Machines, NEW d \in 0 .. 9, NEW r \in 0 .. 9
    PROVE  ComputesMeaning("/", regs, d, r)
<1> DEFINE x == regs[d]
           y == regs[r]
           i == Op("div", d, d, r)
<1>1. d \in Registers /\ r \in Registers /\ x \in Words /\ y \in Words
  BY DEF Registers, Machines
<1>2. i \in Instruction /\ i.op = "div" /\ i.d = d /\ i.a = d /\ i.b = r
  <2>1. "div" \in Arithmetics
    BY DEF Arithmetics
  <2> QED BY <1>1, <2>1, OpFields, OpMakes
<1>3. Operation("/", d, r) = <<i>>
  BY DEF Operation
<1> HIDE DEF i
<1>4. Divides(i, regs) <=> DivFaults(x, y)
  BY <1>2 DEF Divides
<1>5. Computed(i, regs) = Div(x, y).result
  BY <1>2 DEF Computed
<1>6. Joined("/", Signed(x), Signed(y)) =
        IF Undefined(Signed(x), Signed(y)) THEN Strange ELSE Toward0(Signed(x), Signed(y))
  <2>1. Signed(x) # Strange /\ Signed(y) # Strange
    BY <1>1, WordsAreInts
  <2> QED BY <2>1 DEF Joined
<1> HIDE DEF x, y
<1>7. CASE DivFaults(x, y)
  <2>1. Fails(<<i>>, regs)
    <3>1. Len(<<i>>) \in Nat /\ Len(<<i>>) = 1 /\ <<i>>[1] = i
      OBVIOUS
    <3>2. AfterEach(<<i>>, regs)[0] = regs
      BY <3>1, CodeSteps
    <3>3. 1 \in 1 .. Len(<<i>>) /\ Divides(<<i>>[1], AfterEach(<<i>>, regs)[1 - 1])
      BY <1>4, <1>7, <3>1, <3>2
    <3> QED BY <3>3 DEF Fails
  <2>2. Joined("/", Signed(x), Signed(y)) = Strange
    BY <1>1, <1>6, <1>7, QuotientsAreInts
  <2> QED BY <1>3, <2>1, <2>2, MeaningComputed DEF x, y
<1>8. CASE ~ DivFaults(x, y)
  <2>1. Yields(<<i>>, regs, d, Div(x, y).result)
    BY <1>2, <1>4, <1>5, <1>8, OneYields
  <2>2. /\ Div(x, y).result \in Words
        /\ Signed(Div(x, y).result) = Joined("/", Signed(x), Signed(y))
    BY <1>1, <1>6, <1>8, QuotientsAreInts
  <2>3. Means("/", regs, d, r)
    BY <1>3, <2>1, <2>2 DEF Means, x, y
  <2> QED BY <2>3, MeaningComputed
<1> QED BY <1>7, <1>8

\* So does the remainder, which is computed from the quotient.
LEMMA RemainderMeans ==
    ASSUME NEW regs \in Machines, NEW d \in 0 .. 9, NEW r \in 0 .. 9
    PROVE  ComputesMeaning("%", regs, d, r)
<1> DEFINE x == regs[d]
           y == regs[r]
           code == Operation("%", d, r)
           after == AfterEach(code, regs)
           c1 == Op("div", 13, d, r)
           c2 == Op("mul", 13, 13, r)
           c3 == Op("sub", d, d, 13)
           quotient == Div(x, y).result
           product == Mul(quotient, y).result
           rest == AluSub(x, product).result
<1>1. /\ d \in Registers /\ r \in Registers /\ 13 \in Registers
      /\ x \in Words /\ y \in Words
  BY DEF Registers, Machines
<1>2. /\ c1 \in Instruction /\ c1.op = "div" /\ c1.d = 13 /\ c1.a = d /\ c1.b = r
      /\ c2 \in Instruction /\ c2.op = "mul" /\ c2.d = 13 /\ c2.a = 13 /\ c2.b = r
      /\ c3 \in Instruction /\ c3.op = "sub" /\ c3.d = d /\ c3.a = d /\ c3.b = 13
  <2>1. \A k \in {"div", "mul", "sub"} : k \in Arithmetics
    BY DEF Arithmetics
  <2> QED BY <1>1, <2>1, OpFields, OpMakes
<1>3. code = <<c1, c2, c3>>
  BY DEF Operation
<1> HIDE DEF c1, c2, c3, code
<1>4. /\ Len(code) = 3 /\ code \in Code
      /\ code[1] = c1 /\ code[2] = c2 /\ code[3] = c3
  BY <1>2, <1>3 DEF Code
<1>5. /\ after[0] = regs /\ after[1] = Done(c1, after[0])
      /\ after[2] = Done(c2, after[1]) /\ after[3] = Done(c3, after[2])
  <2>1. Len(code) \in Nat /\ {1, 2, 3} \subseteq 1 .. Len(code)
    BY <1>4
  <2>2. after[0] = regs /\ \A n \in 1 .. Len(code) : after[n] = Done(code[n], after[n - 1])
    BY <2>1, CodeSteps
  <2> HIDE DEF after
  <2> QED BY <1>4, <2>1, <2>2
<1>6. Fails(code, regs) <=> Divides(c1, regs)
  <2>1. \A n \in 1 .. Len(code) : n \in {1, 2, 3}
    BY <1>4
  <2>2. 1 \in 1 .. Len(code) /\ 1 - 1 = 0
    BY <1>4
  <2>3. ~ Divides(c2, after[2 - 1]) /\ ~ Divides(c3, after[3 - 1])
    BY <1>2 DEF Divides
  <2>4. Fails(code, regs) <=> \E n \in 1 .. Len(code) : Divides(code[n], after[n - 1])
    BY DEF Fails
  <2> HIDE DEF after
  <2> QED BY <1>4, <1>5, <2>1, <2>2, <2>3, <2>4
<1>7. Last(code, regs) = after[3]
  BY <1>4 DEF Last
<1> HIDE DEF after
<1>8. Divides(c1, regs) <=> DivFaults(x, y)
  BY <1>2 DEF Divides
<1>9. Joined("%", Signed(x), Signed(y)) =
        IF Undefined(Signed(x), Signed(y)) THEN Strange
        ELSE Signed(x) - Toward0(Signed(x), Signed(y)) * Signed(y)
  <2>1. Signed(x) # Strange /\ Signed(y) # Strange
    BY <1>1, WordsAreInts
  <2> QED BY <2>1 DEF Joined
<1>10. CASE DivFaults(x, y)
  <2>1. Joined("%", Signed(x), Signed(y)) = Strange
    BY <1>1, <1>9, <1>10, QuotientsAreInts
  <2> QED BY <1>6, <1>8, <1>10, <2>1, MeaningComputed DEF code
<1>11. CASE ~ DivFaults(x, y)
  <2>1. Computed(c1, regs) = quotient
    BY <1>2 DEF Computed
  <2> HIDE DEF quotient, product, rest
  <2>2. /\ after[1] \in Machines /\ after[1][13] = quotient
        /\ \A q \in Registers \ {13} : after[1][q] = regs[q]
    BY <1>2, <1>5, <1>8, <1>11, <2>1, OneDone
  <2>3. after[1][r] = y /\ after[1][d] = x
    BY <1>1, <2>2
  <2> HIDE DEF x, y
  <2>4. /\ after[2] \in Machines /\ after[2][13] = product
        /\ \A q \in Registers \ {13} : after[2][q] = after[1][q]
    BY <1>2, <1>5, <2>2, <2>3, InstructionSets DEF product
  <2>5. after[2][d] = x
    BY <1>1, <2>3, <2>4
  <2>6. /\ after[3] \in Machines /\ after[3][d] = rest
        /\ \A q \in Registers \ {d} : after[3][q] = after[2][q]
    BY <1>2, <1>5, <2>4, <2>5, InstructionSets DEF rest
  <2>7. Yields(code, regs, d, rest)
    <3>1. \A q \in Spared(d) : after[3][q] = regs[q]
      BY <2>2, <2>4, <2>6 DEF Spared
    <3> QED BY <1>6, <1>7, <1>8, <1>11, <2>6, <3>1 DEF Yields
  <2>8. /\ rest \in Words
        /\ Signed(rest) = Joined("%", Signed(x), Signed(y))
    BY <1>1, <1>9, <1>11, QuotientsAreInts DEF rest, product, quotient
  <2>9. Means("%", regs, d, r)
    BY <2>7, <2>8 DEF Means, x, y, code
  <2> QED BY <2>9, MeaningComputed
<1> QED BY <1>10, <1>11

\* A truth value and its inverse, in a register.
LEMMA InverseFollows ==
    ASSUME NEW code \in Code, NEW regs \in Machines, NEW d \in 0 .. 9, NEW p \in BOOLEAN,
           Yields(code, regs, d, IF p THEN 1 ELSE 0)
    PROVE  Yields(code \o Inverted(d), regs, d, IF p THEN 0 ELSE 1)
<1> DEFINE between == Last(code, regs)
           v == IF p THEN 1 ELSE 0
           w == IF p THEN 0 ELSE 1
<1>1. between \in Machines /\ between[d] = v
  BY DEF Yields
<1>2. v \in {0, 1} /\ 1 - v = w
  OBVIOUS
<1> HIDE DEF between, v, w
<1>3. Inverted(d) \in Code /\ Yields(Inverted(d), between, d, w)
  <2>1. between[d] \in {0, 1}
    BY <1>1, <1>2
  <2>2. Inverted(d) \in Code /\ Yields(Inverted(d), between, d, 1 - between[d])
    BY <1>1, <2>1, InvertedYields
  <2> QED BY <1>1, <1>2, <2>2
<1> QED BY <1>3, YieldsJoin DEF between, v, w

\* Equality.
LEMMA EqualityMeans ==
    ASSUME NEW regs \in Machines, NEW d \in 0 .. 9, NEW r \in 0 .. 9,
           NEW op \in {"==", "!="}
    PROVE  Means(op, regs, d, r)
<1> DEFINE x == regs[d]
           y == regs[r]
           i == Op("xor", d, d, r)
           between == Last(<<i>>, regs)
           unlike == <<i>> \o Normalized(d)
           v == IF x # y THEN 1 ELSE 0
           w == IF x # y THEN 0 ELSE 1
<1>1. d \in Registers /\ r \in Registers /\ x \in Words /\ y \in Words
  BY DEF Registers, Machines
<1>2. i \in Instruction /\ i.op = "xor" /\ i.d = d /\ i.a = d /\ i.b = r
  <2>1. "xor" \in Arithmetics
    BY DEF Arithmetics
  <2> QED BY <1>1, <2>1, OpFields, OpMakes
<1>3. /\ op = "!=" => Operation(op, d, r) = unlike
      /\ op = "==" => Operation(op, d, r) = unlike \o Inverted(d)
  BY DEF Operation
<1> HIDE DEF i
<1>4. /\ <<i>> \in Code /\ Yields(<<i>>, regs, d, Xor(x, y).result)
      /\ between \in Machines /\ between[d] = Xor(x, y).result
  <2>1. ~ Divides(i, regs)
    BY <1>2 DEF Divides
  <2>2. Computed(i, regs) = Xor(x, y).result
    BY <1>2 DEF Computed
  <2>3. <<i>> \in Code /\ Yields(<<i>>, regs, d, Xor(x, y).result)
    <3>1. <<i>> \in Code /\ Yields(<<i>>, regs, i.d, Computed(i, regs))
      BY <2>1, <1>2, OneYields
    <3> QED BY <1>2, <2>2, <3>1
  <2> QED BY <2>3 DEF Yields
<1> HIDE DEF between, x, y
<1>5. Normalized(d) \in Code /\ Yields(Normalized(d), between, d, v)
  <2>1. Xor(x, y).result = 0 <=> x = y
    BY <1>1, XorTells
  <2>2. /\ Normalized(d) \in Code
        /\ Yields(Normalized(d), between, d, IF between[d] = 0 THEN 0 ELSE 1)
    BY <1>4, NormalizedYields
  <2>3. (IF between[d] = 0 THEN 0 ELSE 1) = v
    BY <1>4, <2>1
  <2> HIDE DEF v
  <2> QED BY <2>2, <2>3
<1>6. unlike \in Code /\ Yields(unlike, regs, d, v)
  <2> HIDE DEF v
  <2> QED BY <1>4, <1>5, YieldsJoin DEF between
<1> HIDE DEF unlike
<1>7. Yields(unlike \o Inverted(d), regs, d, w)
  <2>1. (x # y) \in BOOLEAN
    OBVIOUS
  <2> QED BY <1>6, <2>1, InverseFollows
<1>8. Joined(op, Signed(x), Signed(y)) =
        IF op = "!=" THEN v ELSE w
  <2>1. Signed(x) # Strange /\ Signed(y) # Strange /\ (Signed(x) = Signed(y) <=> x = y)
    BY <1>1, WordsAreInts
  <2> DEFINE a == Signed(x)
             b == Signed(y)
  <2>2. a # Strange /\ b # Strange
    BY <2>1
  <2>3. /\ op = "==" => Joined(op, a, b) = (IF a = b THEN 1 ELSE 0)
        /\ op = "!=" => Joined(op, a, b) = (IF a # b THEN 1 ELSE 0)
    <3> HIDE DEF a, b
    <3> QED BY <2>2 DEF Joined
  <2> QED BY <2>1, <2>3
<1>9. {v, w} \subseteq Words /\ Signed(v) = v /\ Signed(w) = w
  BY TruthIsRead
<1> HIDE DEF v, w
<1>10. CASE op = "!="
  BY <1>3, <1>6, <1>8, <1>9, <1>10 DEF Means, x, y
<1>11. CASE op = "=="
  BY <1>3, <1>7, <1>8, <1>9, <1>11 DEF Means, x, y
<1> QED BY <1>10, <1>11

\* The order.
LEMMA OrderMeans ==
    ASSUME NEW regs \in Machines, NEW d \in 0 .. 9, NEW r \in 0 .. 9,
           NEW op \in {"<", ">", "<=", ">="}
    PROVE  Means(op, regs, d, r)
<1> DEFINE a == Signed(regs[d])
           b == Signed(regs[r])
           below == a < b
           above == b < a
           truth(p) == IF p THEN 1 ELSE 0
           falsity(p) == IF p THEN 0 ELSE 1
<1>1. a \in Int /\ b \in Int /\ a # Strange /\ b # Strange
  <2>1. regs[d] \in Words /\ regs[r] \in Words
    BY DEF Machines, Registers
  <2> QED BY <2>1, SignedIsWord, WordsAreInts
<1>2. /\ Less(d, d, r) \in Code /\ Yields(Less(d, d, r), regs, d, truth(below))
      /\ Less(d, r, d) \in Code /\ Yields(Less(d, r, d), regs, d, truth(above))
  BY LessYields
<1> HIDE DEF a, b
<1>3. below \in BOOLEAN /\ above \in BOOLEAN
  OBVIOUS
<1> HIDE DEF below, above
<1>4. /\ Yields(Less(d, d, r) \o Inverted(d), regs, d, falsity(below))
      /\ Yields(Less(d, r, d) \o Inverted(d), regs, d, falsity(above))
  BY <1>2, <1>3, InverseFollows
<1>5. /\ op = "<" => /\ Operation(op, d, r) = Less(d, d, r)
                     /\ Joined(op, a, b) = truth(below)
      /\ op = ">" => /\ Operation(op, d, r) = Less(d, r, d)
                     /\ Joined(op, a, b) = truth(above)
      /\ op = "<=" => /\ Operation(op, d, r) = Less(d, r, d) \o Inverted(d)
                      /\ Joined(op, a, b) = falsity(above)
      /\ op = ">=" => /\ Operation(op, d, r) = Less(d, d, r) \o Inverted(d)
                      /\ Joined(op, a, b) = falsity(below)
  <2>1. /\ op = "<" => Joined(op, a, b) = truth(a < b)
        /\ op = ">" => Joined(op, a, b) = truth(a > b)
        /\ op = "<=" => Joined(op, a, b) = truth(a <= b)
        /\ op = ">=" => Joined(op, a, b) = truth(a >= b)
    BY <1>1 DEF Joined
  <2>2. (below <=> a < b) /\ (above <=> a > b) /\ (a <= b <=> ~ above) /\ (a >= b <=> ~ below)
    BY <1>1 DEF below, above
  <2>3. /\ op = "<" => Operation(op, d, r) = Less(d, d, r)
        /\ op = ">" => Operation(op, d, r) = Less(d, r, d)
        /\ op = "<=" => Operation(op, d, r) = Less(d, r, d) \o Inverted(d)
        /\ op = ">=" => Operation(op, d, r) = Less(d, d, r) \o Inverted(d)
    BY DEF Operation
  <2>4. /\ truth(a < b) = truth(below) /\ truth(a > b) = truth(above)
        /\ truth(a <= b) = falsity(above) /\ truth(a >= b) = falsity(below)
    BY <2>2
  <2> HIDE DEF truth, falsity
  <2> QED BY <2>1, <2>3, <2>4
<1>6. ASSUME NEW p \in BOOLEAN
      PROVE  /\ truth(p) \in Words /\ Signed(truth(p)) = truth(p)
             /\ falsity(p) \in Words /\ Signed(falsity(p)) = falsity(p)
  BY TruthIsRead
<1>7. CASE op = "<"
  BY <1>2, <1>3, <1>5, <1>6, <1>7 DEF Means, a, b
<1>8. CASE op = ">"
  BY <1>2, <1>3, <1>5, <1>6, <1>8 DEF Means, a, b
<1>9. CASE op = "<="
  BY <1>3, <1>4, <1>5, <1>6, <1>9 DEF Means, a, b
<1>10. CASE op = ">="
  BY <1>3, <1>4, <1>5, <1>6, <1>10 DEF Means, a, b
<1> QED BY <1>7, <1>8, <1>9, <1>10

-----------------------------------------------------------------------------
\* Whatever the width of a word, the values in the registers and the two
\* registers of the operands, the code t32-cc writes for an operator computes
\* what the operator means in C, spares every register it does not own, and
\* faults where C leaves the operator undefined and only there.
THEOREM CodeMeansOperator ==
    \A regs \in [Registers -> Words] : \A d, r \in 0 .. 9 : \A op \in OperatorsOfC :
        ComputesMeaning(op, regs, d, r)
<1> SUFFICES ASSUME NEW regs \in Machines, NEW d \in 0 .. 9, NEW r \in 0 .. 9,
                    NEW op \in OperatorsOfC
             PROVE  ComputesMeaning(op, regs, d, r)
  BY DEF Machines
<1>1. CASE op \in {"+", "-", "*"}
  BY <1>1, SumsMean, MeaningComputed
<1>2. CASE op = "/"
  BY <1>2, QuotientMeans
<1>3. CASE op = "%"
  BY <1>3, RemainderMeans
<1>4. CASE op \in {"==", "!="}
  BY <1>4, EqualityMeans, MeaningComputed
<1>5. CASE op \in {"<", ">", "<=", ">="}
  BY <1>5, OrderMeans, MeaningComputed
<1> QED BY <1>1, <1>2, <1>3, <1>4, <1>5 DEF OperatorsOfC

\* So it does on every pair of operands that the odometer presents.
THEOREM OperatorsAreRight == PairSpec => []OperatorsMeanC
<1>1. Operands => OperatorsMeanC
  <2> SUFFICES ASSUME Operands PROVE OperatorsMeanC
    OBVIOUS
  <2> DEFINE regs == [q \in Registers |-> IF q = 1 THEN right ELSE left]
  <2>1. regs \in [Registers -> Words] /\ 0 \in 0 .. 9 /\ 1 \in 0 .. 9
    BY DEF Operands
  <2>2. \A op \in OperatorsOfC : ComputesMeaning(op, regs, 0, 1)
    <3> HIDE DEF regs
    <3> QED BY <2>1, CodeMeansOperator
  <2> QED BY <2>2 DEF OperatorsMeanC
<1> QED BY OperandsInvariant, <1>1, PTL
=============================================================================
