------------------------------ MODULE AluCheck ------------------------------
(***************************************************************************)
(* The ALU against arithmetic: an odometer presents every pair of operands *)
(* and the invariants compare what the instructions compute with reference *)
(* definitions that share nothing with them.                               *)
(***************************************************************************)
EXTENDS Alu

VARIABLES left, right

operands == <<left, right>>

FirstPair == left \in Words /\ right = 0
NextPair == right' = (right + 1) % M /\ UNCHANGED left
PairSpec == FirstPair /\ [][NextPair]_operands

SignedWords == - SignBit .. SignBit - 1

\* ADD: the result is the sum modulo the word, carry means that the sum of
\* the unsigned values does not fit, overflow that the sum of the signed
\* values does not.
AddMeansAddition ==
    LET out == AluAdd(left, right)
    IN  /\ out.flags.carry <=> out.result # left + right
        /\ out.flags.overflow <=> Signed(left) + Signed(right) \notin SignedWords
        /\ ~ out.flags.overflow =>
              Signed(out.result) = Signed(left) + Signed(right)

\* CMP: the flags decide every comparison.  Equal: Z.  Below, unsigned: no
\* C.  Less, signed: N differs from V, even where the difference overflows.
CompareMeansOrder ==
    LET out == AluSub(left, right)
    IN  /\ out.flags.zero <=> left = right
        /\ ~ out.flags.carry <=> left < right
        /\ (out.flags.negative # out.flags.overflow)
              <=> Signed(left) < Signed(right)

\* MUL and MULU: the low word of a product does not depend on signedness,
\* and each reports exactly the products its own reading cannot hold.
ProductsAgree ==
    /\ Mul(left, right).result = MulU(left, right).result
    /\ Mul(left, right).flags.overflow
          <=> Signed(left) * Signed(right) # Signed(Mul(left, right).result)
    /\ MulU(left, right).flags.carry
          <=> left * right # MulU(left, right).result

\* The remainder programs compute from DIV, MUL and SUB is C's: smaller than
\* the divisor and with the sign of the dividend, wherever DIV does not fault.
RemainderMeansC ==
    ~ DivFaults(left, right) =>
       LET quotient == Div(left, right).result
           rest == Signed(AluSub(left, Mul(quotient, right).result).result)
           divisor == Signed(right)
       IN  /\ Signed(left) = Signed(quotient) * divisor + rest
           /\ rest \in (IF divisor > 0 THEN 1 - divisor .. divisor - 1
                                       ELSE 1 + divisor .. - divisor - 1)
           /\ rest # 0 => (rest < 0 <=> Signed(left) < 0)

\* Sums, differences, products and remainders are arithmetic's modulo the word,
\* and the flags decide what does not fit and how the operands compare.
ArithmeticIsExact ==
    /\ AddMeansAddition /\ CompareMeansOrder
    /\ ProductsAgree /\ RemainderMeansC

ShiftsByOne ==
    LET low(w) == w % 2 = 1
        half(w) == w \div 2
        ashr(w) == IF Top(w) THEN half(w) + SignBit ELSE half(w)
        step(s) == [shl |-> (2 * s.shl) % M, shlOut |-> Top(s.shl),
                    shr |-> half(s.shr), shrOut |-> low(s.shr),
                    sar |-> ashr(s.sar), sarOut |-> low(s.sar)]
        after[n \in BitIds] ==
            IF n = 0 THEN [shl |-> left, shlOut |-> FALSE,
                           shr |-> left, shrOut |-> FALSE,
                           sar |-> left, sarOut |-> FALSE]
            ELSE step(after[n - 1])
        last == after[Count(right)]
    IN  /\ Shl(left, right).result = last.shl
        /\ Shl(left, right).flags.carry = last.shlOut
        /\ Shr(left, right).result = last.shr
        /\ Shr(left, right).flags.carry = last.shrOut
        /\ Sar(left, right).result = last.sar
        /\ Sar(left, right).flags.carry = last.sarOut

LogicIsBitwise ==
    LET conjunction == And(left, right).result
        disjunction == Or(left, right).result
        difference == Xor(left, right).result
        complement == Not(left).result
        one(w, i) == Bit(w, i) = 1
    IN  \A i \in BitIds :
           /\ one(conjunction, i) <=> one(left, i) /\ one(right, i)
           /\ one(disjunction, i) <=> one(left, i) \/ one(right, i)
           /\ one(difference, i) <=> one(left, i) # one(right, i)
           /\ one(complement, i) <=> ~ one(left, i)

\* A shift by n is n shifts by one, and the carry is the last bit pushed out;
\* AND, OR, XOR and NOT compute every bit from the operands' bits in its place.
ShiftsAndLogic == ShiftsByOne /\ LogicIsBitwise
=============================================================================
