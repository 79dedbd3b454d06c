----------------------------- MODULE MCMachine ------------------------------
(***************************************************************************)
(* A machine of three registers (r0, r1 and the stack pointer) with words  *)
(* of eight bits in four two-bit bytes, 24 bytes of RAM and the five       *)
(* device windows above it.  There is a group of programs for control      *)
(* flow, one for arithmetic and one for memory, with registers that point  *)
(* into every window, across its ends and past them.                       *)
(***************************************************************************)
EXTENDS Machine, SequencesExt

MCBase == [d \in Devices |-> CASE d = "video" -> 64 [] d = "disk" -> 80
              [] d = "keyboard" -> 128 [] d = "rtc" -> 144 [] d = "platform" -> 160]
MCSize == [d \in Devices |-> CASE d = "video" -> 8 [] d = "disk" -> 36
              [] d = "keyboard" -> 12 [] d = "rtc" -> 12 [] d = "platform" -> 16]

Ins(op, rd, ra, rb) == [op |-> op, rd |-> rd, ra |-> ra, rb |-> rb, low |-> 0]
Illegal == [op |-> "UNKNOWN", rd |-> 0, ra |-> 0, rb |-> 0, low |-> 0]
Table(list) == [w \in Words |-> IF w < Len(list) THEN list[w + 1] ELSE Illegal]

\* RAM that holds the given words from address zero on, and zeros.
Image(words) ==
    [a \in 0 .. 23 |-> IF a \div 4 < Len(words)
                       THEN (words[(a \div 4) + 1] \div 4 ^ (a % 4)) % 4 ELSE 0]

Start(words, r0, r1, sp) ==
    [ram |-> Image(words), regs |-> (0 :> r0 @@ 1 :> r1 @@ 2 :> sp), pc |-> 0]

-----------------------------------------------------------------------------
(* Control flow: every program of two words and a third that halts, loops   *)
(* or is a target; each word is an instruction, an operand or a target as   *)
(* the pc finds it, and the stack grows down towards them.                  *)
ControlOps == << Ins("HALT", 0, 0, 0), Ins("NOP", 0, 0, 0), Ins("TRAP", 0, 0, 0),
    Ins("JMP", 0, 0, 0), Ins("JZ", 0, 0, 0), Ins("JNZ", 0, 1, 0),
    Ins("CALL", 0, 0, 0), Ins("RET", 0, 0, 0), Ins("MOVI", 0, 0, 0),
    Ins("SUBI", 1, 1, 0), Ins("CMPI", 0, 1, 0), Ins("MOV", 2, 1, 0),
    Ins("CPUID", 0, 0, 0), Ins("ADDI", 0, 0, 0), Ins("STW", 0, 0, 1),
    Ins("PUSH", 0, 0, 0), Ins("NOP", 1, 0, 0) >>
ControlWords == 0 .. Len(ControlOps) - 1
Undefined == 200
ControlSetups ==
    {Start(<<a, b, c>>, 0, 1, 24) :
        a \in ControlWords \cup {Undefined}, b \in ControlWords \cup {Undefined},
        c \in {0, 4}}

-----------------------------------------------------------------------------
(* Arithmetic: one instruction on every pair from the edges of the word.    *)
ArithmeticOps == [n \in 1 .. 14 |->
    LET op == <<"ADD", "SUB", "MUL", "MULU", "DIV", "DIVU", "AND", "OR", "XOR",
                "NOT", "SHL", "SHR", "SAR", "CMP">>[n]
    IN  Ins(op, IF op = "CMP" THEN 0 ELSE 2, 0,
                IF op = "NOT" THEN 0 ELSE 1)]
ArithmeticWords == Len(ControlOps) .. Len(ControlOps) + Len(ArithmeticOps) - 1
Edges == {0, 7, 128, 255}
ArithmeticSetups ==
    {Start(<<w>>, r0, r1, 24) : w \in ArithmeticWords, r0 \in Edges, r1 \in Edges}

-----------------------------------------------------------------------------
(* Loads, stores, the stack and divisions, by zero too: one instruction,    *)
(* then a fault; and two stores that make both platform requests, in either *)
(* order.                                                                   *)
MemoryOps == <<
    Ins("LDB", 1, 0, 0), Ins("LDH", 1, 0, 0), Ins("LDW", 1, 0, 0), Ins("LDW", 0, 0, 0),
    Ins("STB", 0, 0, 1), Ins("STH", 0, 0, 1), Ins("STW", 0, 0, 1),
    Ins("PUSH", 0, 1, 0), Ins("PUSH", 0, 2, 0), Ins("POP", 1, 0, 0), Ins("POP", 2, 0, 0),
    Ins("RET", 0, 0, 0), Ins("IRET", 0, 0, 0), Ins("CALL", 0, 0, 0),
    [Ins("LDW", 1, 0, 0) EXCEPT !.low = 1], Ins("PUSH", 1, 1, 0),
    Ins("STW", 0, 0, 2), Ins("DIV", 1, 1, 0), Ins("DIVU", 1, 1, 0) >>
MemoryWord(op) == Len(ControlOps) + Len(ArithmeticOps) - 1 + op

\* Every window's ends, a word to either side.
Near == {a \in Words : \E edge \in {0, 24, 256} \cup UNION {{MCBase[d], MCBase[d] + MCSize[d]} : d \in Devices} :
                        a \in edge - 4 .. edge + 3}
        \cup {MCBase["disk"] + 28, MCBase["disk"] + 32}
MemorySetups ==
    {Start(<<MemoryWord(op), 16, 0, 3>>, r0, r1, 24) :
        op \in DOMAIN MemoryOps, r0 \in Near, r1 \in {2, 27}}
    \cup {Start(<<MemoryWord(op), 16, 0, 3>>, 0, 85, sp) : op \in 8 .. 14, sp \in Near}
    \cup {Start(<<MemoryWord(13), target>>, 136, 68, 16) : target \in Words}
    \cup {Start(<<MemoryWord(7), MemoryWord(17)>>, 168, first, 3 - first) : first \in {1, 2}}

MCDecode == Table(ControlOps \o ArithmeticOps \o MemoryOps)
MCSetups == ControlSetups \cup ArithmeticSetups \cup MemorySetups

\* Bound: the host presses keys where the program can read them.
MCNext ==
    /\ Next
    /\ Len(keys') > Len(keys) => \E offset \in 0 .. MCSize["keyboard"] - 1 :
                                     regs[0] = MCBase["keyboard"] + offset
MCSpec == Init /\ [][MCNext]_vars /\ WF_vars(RunStep) /\ WF_vars(RunEnds)
=============================================================================
