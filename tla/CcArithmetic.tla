----------------------------- MODULE CcArithmetic -----------------------------
(***************************************************************************)
(* What the machine computes for the instructions that t32-cc writes:      *)
(* those that move a value from registers to a register.                   *)
(***************************************************************************)
EXTENDS CcOperators, Alu

Registers == 0 .. 15
Arithmetics == {"mov", "add", "sub", "mul", "div", "and", "or", "xor", "not", "shr"}
Constants == {"addi", "subi", "movi"}

\* The value for the destination of instruction i.
Computed(i, regs) ==
    LET x == regs[i.a]
        y == regs[i.b]
    IN  CASE i.op = "mov" -> x
          [] i.op = "add" -> AluAdd(x, y).result
          [] i.op = "sub" -> AluSub(x, y).result
          [] i.op = "mul" -> Mul(x, y).result
          [] i.op = "div" -> Div(x, y).result
          [] i.op = "and" -> And(x, y).result
          [] i.op = "or" -> Or(x, y).result
          [] i.op = "xor" -> Xor(x, y).result
          [] i.op = "not" -> Not(x).result
          [] i.op = "shr" -> Shr(x, y).result
          [] i.op = "addi" -> AluAdd(x, i.n % M).result
          [] i.op = "subi" -> AluSub(x, i.n % M).result
          [] i.op = "movi" -> i.n % M

Divides(i, regs) == i.op = "div" /\ DivFaults(regs[i.a], regs[i.b])
=============================================================================
