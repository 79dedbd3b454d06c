------------------------------- MODULE CMeaning -------------------------------
(***************************************************************************)
(* What the operators of C mean for ints, and for places in memory, which  *)
(* are above every int and every product of two.                           *)
(***************************************************************************)
EXTENDS Integers

CONSTANTS
    IntValues,    \* 2^32
    Spread,       \* the first place
    Strange       \* the value of a division that C leaves undefined

ASSUME MeaningAssumption ==
    /\ IntValues \in Nat \ {0} /\ Spread \in Nat /\ Strange \in Nat
    /\ IntValues * IntValues < Spread /\ Spread < Strange

\* An int wraps; a place does not.
Wrapped(v) ==
    IF v >= Spread THEN v
    ELSE ((v + IntValues \div 2) % IntValues) - IntValues \div 2

Toward0(a, b) ==
    LET size(n) == IF n < 0 THEN - n ELSE n
        q == size(a) \div size(b)
    IN  IF (a < 0) = (b < 0) THEN q ELSE - q

\* Division by zero, and the quotient that no int holds.
Undefined(a, b) == b = 0 \/ (a = - (IntValues \div 2) /\ b = - 1)

OperatorsOfC == {"+", "-", "*", "/", "%", "<", ">", "<=", ">=", "==", "!="}

Joined(op, a, b) ==
    LET truth(p) == IF p THEN 1 ELSE 0
    IN  IF a = Strange \/ b = Strange THEN Strange
        ELSE CASE op = "+" -> Wrapped(a + b) [] op = "-" -> Wrapped(a - b)
               [] op = "*" -> Wrapped(a * b)
               [] op = "/" -> IF Undefined(a, b) THEN Strange ELSE Toward0(a, b)
               [] op = "%" -> IF Undefined(a, b) THEN Strange ELSE a - Toward0(a, b) * b
               [] op = "<" -> truth(a < b) [] op = ">" -> truth(a > b)
               [] op = "<=" -> truth(a <= b) [] op = ">=" -> truth(a >= b)
               [] op = "==" -> truth(a = b) [] op = "!=" -> truth(a # b)
=============================================================================
