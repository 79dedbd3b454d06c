------------------------------ MODULE CcTarget ------------------------------
(***************************************************************************)
(* A compiled program on the machine.  The image is what t32-ld makes of   *)
(* crt0.o, the object and libt32.a: the startup code, the functions of the *)
(* unit and the members it needs, an instruction to a place.  Each step    *)
(* executes one instruction with the arithmetic of module Alu; memory is   *)
(* bytes of radix Radix, little-endian, one word to four of them.          *)
(*                                                                         *)
(* calls is history: where each call in progress left its return address   *)
(* and which.                                                              *)
(***************************************************************************)
EXTENDS CcCode, CcArithmetic

CONSTANTS
    Radix,        \* the values of a byte
    StackTop,     \* STACK_TOP of crt0.s
    Junk,         \* a byte nobody wrote, and what the library leaves in registers
    Texts         \* string -> its bytes

ASSUME TargetAssumption ==
    /\ Radix ^ 4 = M /\ WordValues = M
    /\ ByteMask = Radix - 1 /\ StackTop \in Words /\ Junk \in 0 .. Radix - 1

VARIABLES program, image, index, regs, mem, calls

target == <<program, image, index, regs, mem, calls>>

NoProgram == "none"
Addresses == 0 .. M - 1

-----------------------------------------------------------------------------
(***************************************************************************)
(* The image.                                                              *)
(***************************************************************************)
\* crt0.s.
Startup ==
    <<Movi(Stack, StackTop), Jump("call", 0, "function", "main"), Op("halt", 0, 0, 0)>>

\* A member of the library that doubles its argument and, as the ABI allows,
\* keeps nothing else of r0 to r7.
Library ==
    <<Label("function", "twice"), Op("add", 0, 0, 0)>>
    \o [r \in 1 .. 7 |-> Movi(r, Junk)] \o <<Op("ret", 0, 0, 0)>>

ImageOf(unit) == Startup \o UnitCode(unit) \o Library

\* The strings lie one after the other at the bottom of memory.
TextOrder == SetToSeq(DOMAIN Texts)
AddressOfText(t) ==
    LET end[i \in 0 .. Len(TextOrder)] ==
          IF i = 0 THEN 0 ELSE end[i - 1] + Len(Texts[TextOrder[i]])
    IN  end[(CHOOSE i \in DOMAIN TextOrder : TextOrder[i] = t) - 1]

FirstBytes ==
    [a \in Addresses |->
        LET here == {t \in DOMAIN Texts :
                        a \in AddressOfText(t) .. AddressOfText(t) + Len(Texts[t]) - 1}
        IN  IF here = {} THEN Junk
            ELSE LET t == CHOOSE t \in here : TRUE
                 IN  Texts[t][a - AddressOfText(t) + 1]]

PlaceOf(label) ==
    CHOOSE i \in DOMAIN image : image[i].op = "label" /\ image[i].to = label

-----------------------------------------------------------------------------
(***************************************************************************)
(* Execution.                                                              *)
(***************************************************************************)
Blank == program = NoProgram /\ image = << >> /\ index = 0 /\ regs = [r \in Registers |-> 0]
         /\ mem = << >> /\ calls = << >>

Loads(p, unit) ==
    /\ program' = p /\ image' = ImageOf(unit) /\ index' = 1 /\ calls' = << >>
    /\ regs' = [r \in Registers |-> Junk] /\ mem' = FirstBytes

Running == program # NoProgram /\ index # 0
Current == image[index]

InMemory(a, n) == a + n <= M
WordAt(a) == mem[a] + Radix * (mem[a + 1] + Radix * (mem[a + 2] + Radix * mem[a + 3]))
WithWord(a, w) ==
    [b \in Addresses |-> IF b \in a .. a + 3 THEN (w \div Radix ^ (b - a)) % Radix ELSE mem[b]]

Sets(r, value) ==
    /\ regs' = [regs EXCEPT ![r] = value] /\ index' = index + 1
    /\ UNCHANGED <<program, image, mem, calls>>

Arithmetic ==
    /\ Current.op \in Arithmetics \cup Constants
    /\ Current.op # "movi" \/ Current.to = NoLabel
    /\ ~ Divides(Current, regs)
    /\ Sets(Current.d, Computed(Current, regs))

TextAddress ==
    /\ Current.op = "movi" /\ Current.to # NoLabel
    /\ Sets(Current.d, AddressOfText(Current.to[2]))

LoadMemory ==
    LET a == regs[Current.a]
    IN  \/ Current.op = "ldw" /\ InMemory(a, 4) /\ Sets(Current.d, WordAt(a))
        \/ Current.op = "ldb" /\ Sets(Current.d, mem[a])

StoreMemory ==
    LET a == regs[Current.a]
        v == regs[Current.d]
    IN  /\ \/ Current.op = "stw" /\ InMemory(a, 4) /\ mem' = WithWord(a, v)
           \/ Current.op = "stb" /\ mem' = [mem EXCEPT ![a] = v % Radix]
        /\ index' = index + 1 /\ UNCHANGED <<program, image, regs, calls>>

Branches ==
    /\ index' = CASE Current.op = "label" -> index + 1
                  [] Current.op = "jmp" -> PlaceOf(Current.to)
                  [] Current.op = "jz" -> IF regs[Current.a] = 0 THEN PlaceOf(Current.to)
                                          ELSE index + 1
                  [] OTHER -> -1
    /\ index' # -1
    /\ UNCHANGED <<program, image, regs, mem, calls>>

\* CALL pushes the address of the next instruction, RET pops it.
CallFunction ==
    LET a == (regs[Stack] - 4) % M
    IN  /\ Current.op = "call" /\ InMemory(a, 4)
        /\ mem' = WithWord(a, index + 1)
        /\ regs' = [regs EXCEPT ![Stack] = a]
        /\ calls' = Append(calls, [at |-> a, home |-> index + 1])
        /\ index' = PlaceOf(Current.to) /\ UNCHANGED <<program, image>>

ReturnFunction ==
    LET a == regs[Stack]
    IN  /\ Current.op = "ret" /\ InMemory(a, 4)
        /\ index' = WordAt(a)
        /\ regs' = [regs EXCEPT ![Stack] = (a + 4) % M]
        /\ calls' = Front(calls) /\ UNCHANGED <<program, image, mem>>

\* A HALT and a fault end the program; r0 is its result.
Halted == Running /\ Current.op = "halt"
Faulted ==
    /\ Running
    /\ \/ Divides(Current, regs)
       \/ Current.op \in {"ldw", "stw"} /\ ~ InMemory(regs[Current.a], 4)

Execute ==
    /\ Running
    /\ \/ Arithmetic \/ TextAddress \/ LoadMemory \/ StoreMemory \/ Branches
       \/ CallFunction \/ ReturnFunction
=============================================================================
