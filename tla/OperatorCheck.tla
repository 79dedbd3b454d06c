----------------------------- MODULE OperatorCheck -----------------------------
(***************************************************************************)
(* The code of the operators against their meaning, for every pair of      *)
(* operands that the odometer of AluCheck presents.                        *)
(***************************************************************************)
EXTENDS AluCheck, CcArithmetic, CMeaning

ASSUME WidthAssumption ==
    IntValues = M /\ SignShift = WordBits - 1 /\ WordBits > 1

\* Registers after each instruction of a straight line.
AfterEach(code, regs) ==
    LET after[n \in 0 .. Len(code)] ==
          IF n = 0 THEN regs
          ELSE LET before == after[n - 1]
               IN  [before EXCEPT ![code[n].d] = Computed(code[n], before)]
    IN  after

\* Code for d op r leaves in d what C means and spares every register but d
\* and the scratch registers; it faults where C gives the operands no meaning,
\* and only there.
ComputesMeaning(op, regs, d, r) ==
    LET code == Operation(op, d, r)
        after == AfterEach(code, regs)
        last == after[Len(code)]
        faults == \E n \in 1 .. Len(code) : Divides(code[n], after[n - 1])
        meaning == Joined(op, Signed(regs[d]), Signed(regs[r]))
    IN  /\ faults <=> meaning = Strange
        /\ ~ faults =>
              /\ Signed(last[d]) = meaning
              /\ \A q \in Registers \ ({d} \cup (10 .. 13)) : last[q] = regs[q]

\* The operators t32-cc builds from several instructions, a comparison from a
\* subtraction that may overflow, a truth value from the top bit, a remainder
\* from a quotient, mean what C says, for all operands.
OperatorsMeanC ==
    LET regs == [q \in Registers |-> IF q = 1 THEN right ELSE left]
    IN  \A op \in OperatorsOfC : ComputesMeaning(op, regs, 0, 1)
=============================================================================
