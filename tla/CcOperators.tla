------------------------------ MODULE CcOperators ------------------------------
(***************************************************************************)
(* The instructions t32-cc writes, and the code of C's operators: straight *)
(* lines that compute from two registers, without the condition flags.     *)
(*                                                                         *)
(* An instruction is a record of its operation, a destination and two      *)
(* source registers, a number and a label.  A label is a pair of its kind  *)
(* and an id, a name or a string.  r15 is the stack pointer, r10 to r13    *)
(* are scratch.                                                            *)
(***************************************************************************)
EXTENDS Integers, Sequences

CONSTANTS
    SignShift,    \* 0x1F, a word's width less one
    ByteMask      \* 0xFF

ASSUME OperatorAssumption == {SignShift, ByteMask} \subseteq Nat

Stack == 15
Scratch == 10

NoLabel == <<"none", 0>>
Op(op, d, a, b) == [op |-> op, d |-> d, a |-> a, b |-> b, n |-> 0, to |-> NoLabel]
WithNumber(op, d, a, n) == [Op(op, d, a, 0) EXCEPT !.n = n]
Movi(d, n) == WithNumber("movi", d, 0, n)

TruncateChar(r) == <<Movi(Scratch, ByteMask), Op("and", r, r, Scratch)>>
TimesFour(r) == <<Movi(Scratch, 4), Op("mul", r, r, Scratch)>>

\* emit_bool_nonzero: the top bit of x | -x.
Normalized(r) ==
    <<Movi(Scratch, 0), Op("sub", Scratch, Scratch, r), Op("or", r, r, Scratch),
      Movi(Scratch, SignShift), Op("shr", r, r, Scratch)>>

Inverted(r) == <<Movi(Scratch, 1), Op("xor", r, r, Scratch)>>

\* Defect: the sign of the difference decides, overflow or not.
LessBySubtraction(d, x, y) ==
    <<Op("sub", 10, x, y), Movi(11, SignShift), Op("shr", d, 10, 11)>>

\* emit_signed_less_than: the sign of x where the signs differ, else the
\* sign of the difference.
Less(d, x, y) ==
    <<Op("sub", 10, x, y), Op("xor", 11, x, y), Op("and", 12, 11, x),
      Op("not", 11, 11, 0), Op("and", 11, 11, 10), Op("or", 10, 12, 11),
      Movi(11, SignShift), Op("shr", d, 10, 11)>>

\* d := d op r.
Operation(op, d, r) ==
    CASE op = "+" -> <<Op("add", d, d, r)>>
      [] op = "-" -> <<Op("sub", d, d, r)>>
      [] op = "*" -> <<Op("mul", d, d, r)>>
      [] op = "/" -> <<Op("div", d, d, r)>>
      [] op = "%" -> <<Op("div", 13, d, r), Op("mul", 13, 13, r), Op("sub", d, d, 13)>>
      [] op = "!=" -> <<Op("xor", d, d, r)>> \o Normalized(d)
      [] op = "==" -> <<Op("xor", d, d, r)>> \o Normalized(d) \o Inverted(d)
      [] op = "<" -> Less(d, d, r)
      [] op = ">" -> Less(d, r, d)
      [] op = "<=" -> Less(d, r, d) \o Inverted(d)
      [] op = ">=" -> Less(d, d, r) \o Inverted(d)
=============================================================================
