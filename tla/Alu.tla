-------------------------------- MODULE Alu ---------------------------------
(***************************************************************************)
(* The arithmetic of t32_step (src/vm/libt32vm/src/t32.c) on words of      *)
(* WordBits bits: what every ALU instruction computes and which of the     *)
(* four condition flags it leaves.  The machine has WordBits = 32.         *)
(***************************************************************************)
EXTENDS Integers

CONSTANTS
    WordBits,    \* the width of a register
    SignBit      \* the value of its top bit

PowerOfTwo[n \in 0 .. WordBits] == IF n = 0 THEN 1 ELSE 2 * PowerOfTwo[n - 1]

ASSUME WordAssumption ==
    /\ WordBits \in Nat \ {0}
    /\ SignBit \in Nat \ {0}
    /\ SignBit = PowerOfTwo[WordBits - 1]

M == 2 * SignBit
Words == 0 .. M - 1
BitIds == 0 .. WordBits - 1
NoFlags == [carry |-> FALSE, zero |-> FALSE, negative |-> FALSE, overflow |-> FALSE]

Top(w) == w >= SignBit                  \* w & 0x80000000
Signed(w) == IF Top(w) THEN w - M ELSE w    \* (int32_t)w
Bit(w, i) == (w \div PowerOfTwo[i]) % 2

Ones(w) == {i \in BitIds : Bit(w, i) = 1}

\* The word whose ones are given.
FromOnes(ones) ==
    LET low[i \in 0 .. WordBits] ==
          IF i = 0 THEN 0
          ELSE low[i - 1] + (IF i - 1 \in ones THEN PowerOfTwo[i - 1] ELSE 0)
    IN  low[WordBits]

-----------------------------------------------------------------------------
(***************************************************************************)
(* Defects the properties must exclude.  No instruction uses them.         *)
(***************************************************************************)
\* Overflow on operands of unlike signs.
AddOverflowInverted(left, right) ==
    LET result == (left + right) % M
    IN  [result |-> result,
         flags  |-> [carry |-> left + right >= M, zero |-> result = 0,
                     negative |-> Top(result),
                     overflow |-> Top(left) # Top(right) /\ Top(left) # Top(result)]]

\* Carry as the borrow, not its absence.
SubCarryIsBorrow(left, right) ==
    LET result == (left - right) % M
    IN  [result |-> result,
         flags  |-> [carry |-> left < right, zero |-> result = 0,
                     negative |-> Top(result),
                     overflow |-> Top(left) # Top(right) /\ Top(left) # Top(result)]]

\* Division rounds to minus infinity.
TruncateToFloor(dividend, divisor) == dividend \div divisor

\* A bit set in both operands is lost.
OrIsXor(left, right) ==
    LET result == FromOnes((Ones(left) \ Ones(right)) \cup (Ones(right) \ Ones(left)))
    IN  [result |-> result,
         flags  |-> [carry |-> FALSE, zero |-> result = 0,
                     negative |-> Top(result), overflow |-> FALSE]]

\* The vacated bits are zeros.
SarFillsZero(left, right) ==
    LET count == right % WordBits
        result == left \div PowerOfTwo[count]
    IN  [result |-> result,
         flags  |-> [carry |-> count # 0 /\ Bit(left, count - 1) = 1,
                     zero |-> result = 0, negative |-> Top(result),
                     overflow |-> FALSE]]

-----------------------------------------------------------------------------
(***************************************************************************)
(* The instructions.  Each yields the result and the flags it leaves.      *)
(***************************************************************************)
\* set_zn, with the carry and overflow the instruction computes.
Outcome(result, carry, overflow) ==
    [result |-> result,
     flags  |-> [carry |-> carry, zero |-> result = 0,
                 negative |-> Top(result), overflow |-> overflow]]

AluAdd(left, right) ==
    LET result == (left + right) % M
    IN  Outcome(result, left + right >= M,
                Top(left) = Top(right) /\ Top(left) # Top(result))

\* The carry of a subtraction is the absence of a borrow.
AluSub(left, right) ==
    LET result == (left - right) % M
    IN  Outcome(result, left >= right,
                Top(left) # Top(right) /\ Top(left) # Top(result))

Mul(left, right) ==
    LET product == Signed(left) * Signed(right)
    IN  Outcome(product % M, FALSE,
                product > SignBit - 1 \/ product < - SignBit)

MulU(left, right) ==
    Outcome((left * right) % M, (left * right) \div M # 0, FALSE)

\* C's integer division, which rounds towards zero.
Truncate(dividend, divisor) ==
    LET abs(i) == IF i < 0 THEN - i ELSE i
        quotient == abs(dividend) \div abs(divisor)
    IN  IF (dividend < 0) = (divisor < 0) THEN quotient ELSE - quotient

DivFaults(left, right) ==
    right = 0 \/ (Signed(left) = - SignBit /\ Signed(right) = - 1)
Div(left, right) ==
    Outcome(Truncate(Signed(left), Signed(right)) % M, FALSE, FALSE)

DivUFaults(left, right) == right = 0
DivU(left, right) == Outcome(left \div right, FALSE, FALSE)

BitwiseOf(ones) == Outcome(FromOnes(ones), FALSE, FALSE)

And(left, right) == BitwiseOf(Ones(left) \cap Ones(right))
Or(left, right) == BitwiseOf(Ones(left) \cup Ones(right))
Xor(left, right) ==
    BitwiseOf((Ones(left) \ Ones(right)) \cup (Ones(right) \ Ones(left)))
Not(left) == BitwiseOf(BitIds \ Ones(left))

\* The count is taken modulo the width; a count of zero clears the carry.
Count(right) == right % WordBits

Shl(left, right) ==
    LET count == Count(right)
    IN  Outcome((left * PowerOfTwo[count]) % M,
                count # 0 /\ Bit(left, WordBits - count) = 1, FALSE)
Shr(left, right) ==
    LET count == Count(right)
    IN  Outcome(left \div PowerOfTwo[count],
                count # 0 /\ Bit(left, count - 1) = 1, FALSE)

\* \div rounds down, as the arithmetic shift of a negative int32_t does.
Sar(left, right) ==
    LET count == Count(right)
    IN  Outcome((Signed(left) \div PowerOfTwo[count]) % M,
                count # 0 /\ Bit(left, count - 1) = 1, FALSE)
=============================================================================
