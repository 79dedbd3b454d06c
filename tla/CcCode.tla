------------------------------- MODULE CcCode -------------------------------
(***************************************************************************)
(* The code generator of t32-cc.  It walks the trees of the parser once    *)
(* and writes instructions as it goes; there is no other pass.             *)
(*                                                                         *)
(* Where the generator gives up it leaves Refusal in the code.            *)
(*                                                                         *)
(* An expression holds its operands in registers that count up from the    *)
(* one given to it.                                                        *)
(***************************************************************************)
EXTENDS CcUnit, CcOperators

CONSTANT MaxSlots    \* MAX_CALL_SCRATCH_SLOTS

ASSUME CodeAssumption == MaxSlots \in Nat

Jump(op, a, kind, id) == [Op(op, 0, a, 0) EXCEPT !.to = <<kind, id>>]
Label(kind, id) == Jump("label", 0, kind, id)
Refusal == Op("refuse", 0, 0, 0)

Load(byte) == IF byte THEN "ldb" ELSE "ldw"
Store(byte) == IF byte THEN "stb" ELSE "stw"

-----------------------------------------------------------------------------
(***************************************************************************)
(* Locals, at offsets from the stack pointer.                              *)
(***************************************************************************)
\* A load or a store at an offset from the stack pointer.
Access(op, r, offset) ==
    IF offset = 0 THEN <<Op(op, r, Stack, 0)>>
    ELSE <<Movi(Scratch, offset), Op("add", Scratch, Stack, Scratch),
           Op(op, r, Scratch, 0)>>

\* emit_load_local and emit_store_local: only the first local is taken to be
\* at offset zero; any other one there is reached through an r10 nobody set.
LocalAccess(op, r, f, l) ==
    IF l > 1 /\ f.locals[l].offset = 0 THEN <<Op(op, r, Scratch, 0)>>
    ELSE Access(op, r, f.locals[l].offset)

IsByte(f, l) == f.locals[l].isChar /\ ~ f.locals[l].isPointer
LoadLocal(r, f, l) == LocalAccess(Load(IsByte(f, l)), r, f, l)
StoreLocal(r, f, l) == LocalAccess(Store(IsByte(f, l)), r, f, l)

\* emit_local_address_to.
AddressTo(r, f, l) ==
    IF f.locals[l].offset = 0 THEN <<Op("mov", r, Stack, 0)>>
    ELSE <<Movi(Scratch, f.locals[l].offset), Op("add", r, Stack, Scratch)>>

\* emit_operand, of a local.
Operand(r, f, l) ==
    IF f.locals[l].isArray THEN AddressTo(r, f, l) ELSE LoadLocal(r, f, l)

Truncated(r, byte) == IF byte THEN TruncateChar(r) ELSE << >>

\* Scratch slots lie above the locals.
Slot(f, depth) == f.frame + 4 * depth

\* scratch_store.
Save(r, f, depth) ==
    IF depth >= MaxSlots THEN <<Refusal>> ELSE Access("stw", r, Slot(f, depth))

-----------------------------------------------------------------------------
(***************************************************************************)
(* emit_expression_node: code that leaves the value of a tree in register  *)
(* d and may use those from next on.  depth scratch slots are taken.       *)
(***************************************************************************)
LastTemporary == 9

RECURSIVE Evaluate(_, _, _, _, _)

MemberValue(f, tree, d) ==
    LET step == IF tree.offset = 0 THEN << >>
                ELSE <<Movi(Scratch, tree.offset), Op("add", d, d, Scratch)>>
    IN  IF tree.through
        THEN Operand(d, f, tree.local) \o step \o <<Op(Load(tree.byte), d, d, 0)>>
        ELSE Access(Load(tree.byte), d, f.locals[tree.local].offset + tree.offset)

\* Arguments are staged in scratch slots, then loaded into r0 to r3.
CallValue(f, tree, d, depth) ==
    LET staged(code, i) ==
            code \o Evaluate(f, tree.args[i], 0, 1, depth + i - 1)
                 \o Save(0, f, depth + i - 1)
        loaded(code, i) == code \o Access("ldw", i - 1, Slot(f, depth + i - 1))
    IN  FoldLeftDomain(staged, << >>, tree.args)
        \o FoldLeftDomain(loaded, << >>, tree.args)
        \o <<Jump("call", 0, "function", tree.name)>>
        \o (IF d = 0 THEN << >> ELSE <<Op("mov", d, 0, 0)>>)

\* Defect: the left operand stays in its register across a call.
BinaryUnsaved(f, tree, d, next, depth) ==
    IF next > LastTemporary THEN <<Refusal>>
    ELSE Evaluate(f, tree.left, d, next, depth)
         \o Evaluate(f, tree.right, next, next + 1, depth)
         \o (IF tree.scale = 4 THEN TimesFour(next) ELSE << >>)
         \o Operation(tree.op, d, next)

\* A left operand that a call on the right would clobber waits in a slot.
BinaryValue(f, tree, d, next, depth) ==
    LET right(deeper) == Evaluate(f, tree.right, next, next + 1, deeper)
    IN  IF next > LastTemporary THEN <<Refusal>>
        ELSE Evaluate(f, tree.left, d, next, depth)
             \o (IF CallsIn(tree.right) = {} THEN right(depth)
                 ELSE Save(d, f, depth) \o right(depth + 1)
                      \o Access("ldw", d, Slot(f, depth)))
             \o (IF tree.scale = 4 THEN TimesFour(next) ELSE << >>)
             \o Operation(tree.op, d, next)

\* The address of the array waits in d while the index is computed.
SubscriptValue(f, tree, d, next, depth) ==
    AddressTo(d, f, tree.local)
    \o Evaluate(f, tree.child, next, next + 1, depth)
    \o (IF tree.byte THEN << >> ELSE TimesFour(next))
    \o <<Op("add", d, d, next), Op(Load(tree.byte), d, d, 0)>>

Evaluate(f, tree, d, next, depth) ==
    CASE tree.kind = "int" -> <<Movi(d, tree.value)>>
      [] tree.kind = "local" -> Operand(d, f, tree.local)
      [] tree.kind = "string" -> <<[Movi(d, 0) EXCEPT !.to = <<"string", tree.text>>]>>
      [] tree.kind = "address" -> AddressTo(d, f, tree.local)
      [] tree.kind = "deref" ->
           Evaluate(f, tree.child, d, next, depth) \o <<Op(Load(tree.byte), d, d, 0)>>
      [] tree.kind = "subscript" -> SubscriptValue(f, tree, d, next, depth)
      [] tree.kind = "member" -> MemberValue(f, tree, d)
      [] tree.kind = "call" -> CallValue(f, tree, d, depth)
      [] tree.kind = "binary" -> BinaryValue(f, tree, d, next, depth)

\* emit_expression.
Into(d, f, tree) == Evaluate(f, tree, d, d + 1, 0)

-----------------------------------------------------------------------------
(***************************************************************************)
(* Statements.  id is the number the next control statement takes, loop    *)
(* the kind and number of the loop around.                                 *)
(***************************************************************************)
RECURSIVE Controls(_)
Controls(list) ==
    FoldLeft(LAMBDA n, s : n +
                 (CASE s.kind = "if" -> 1 + Controls(s.then) + Controls(s.else)
                    [] s.kind \in {"while", "for"} -> 1 + Controls(s.body)
                    [] OTHER -> 0), 0, list)

Assign(f, s) ==
    Into(1, f, s.value) \o Truncated(1, IsByte(f, s.local)) \o StoreLocal(1, f, s.local)

StoreIndirect(f, s) ==
    Into(1, f, s.value) \o LocalAccess("ldw", 2, f, s.local)
    \o <<Op(Store(f.locals[s.local].isChar), 1, 2, 0)>>

\* The value waits in r1 while the index is computed.
StoreArray(f, s) ==
    LET byte == f.locals[s.local].isChar
    IN  Into(1, f, s.value) \o Truncated(1, byte) \o Into(2, f, s.index)
        \o (IF byte THEN << >> ELSE TimesFour(2))
        \o AddressTo(3, f, s.local)
        \o <<Op("add", 3, 3, 2), Op(Store(byte), 1, 3, 0)>>

StoreMember(f, s) ==
    LET m == s.member
        step == IF m.offset = 0 THEN << >>
                ELSE <<Movi(9, m.offset), Op("add", Scratch, Scratch, 9)>>
    IN  Into(1, f, s.value) \o Truncated(1, m.byte)
        \o IF m.through
           THEN Operand(Scratch, f, m.local) \o step
                \o <<Op(Store(m.byte), 1, Scratch, 0)>>
           ELSE Access(Store(m.byte), 1, f.locals[m.local].offset + m.offset)

\* A clause of a for stores a word, whatever the local is.
Clause(f, c) == Into(1, f, c.value) \o LocalAccess("stw", 1, f, c.local)

\* Defect: continue repeats the test without the update.
ContinueSkipsUpdate(loop) ==
    Jump("jmp", 0, IF loop.kind = "while" THEN "while" ELSE "for", loop.id)

Continue(loop) ==
    Jump("jmp", 0, IF loop.kind = "while" THEN "while" ELSE "for_update", loop.id)
Break(loop) ==
    Jump("jmp", 0, IF loop.kind = "while" THEN "endwhile" ELSE "endfor", loop.id)

RECURSIVE Sequence(_, _, _, _)

If(f, s, id, loop) ==
    LET other == s.else # << >>
    IN  Into(0, f, s.test)
        \o <<Jump("jz", 0, IF other THEN "else" ELSE "endif", id)>>
        \o Sequence(f, s.then, id + 1, loop)
        \o (IF other
            THEN <<Jump("jmp", 0, "endif", id), Label("else", id)>>
                 \o Sequence(f, s.else, id + 1 + Controls(s.then), loop)
            ELSE << >>)
        \o <<Label("endif", id)>>

While(f, s, id) ==
    <<Label("while", id)>> \o Into(0, f, s.test) \o <<Jump("jz", 0, "endwhile", id)>>
    \o Sequence(f, s.body, id + 1, [kind |-> "while", id |-> id])
    \o <<Jump("jmp", 0, "while", id), Label("endwhile", id)>>

For(f, s, id) ==
    Clause(f, s.start) \o <<Label("for", id)>>
    \o Into(0, f, s.test) \o <<Jump("jz", 0, "endfor", id)>>
    \o Sequence(f, s.body, id + 1, [kind |-> "for", id |-> id])
    \o <<Label("for_update", id)>> \o Clause(f, s.update)
    \o <<Jump("jmp", 0, "for", id), Label("endfor", id)>>

\* emit_statement.
Statement(f, s, id, loop) ==
    CASE s.kind = "assign" -> Assign(f, s)
      [] s.kind = "indirect" -> StoreIndirect(f, s)
      [] s.kind = "element" -> StoreArray(f, s)
      [] s.kind = "field" -> StoreMember(f, s)
      [] s.kind = "expression" -> Into(0, f, s.value)
      [] s.kind = "return" -> Into(0, f, s.value) \o <<Jump("jmp", 0, "return", f.name)>>
      [] s.kind = "break" -> <<Break(loop)>>
      [] s.kind = "continue" -> <<Continue(loop)>>
      [] s.kind = "if" -> If(f, s, id, loop)
      [] s.kind = "while" -> While(f, s, id)
      [] s.kind = "for" -> For(f, s, id)

\* emit_statement_sequence.
Sequence(f, list, id, loop) ==
    IF list = << >> THEN << >>
    ELSE Statement(f, Head(list), id, loop)
         \o Sequence(f, Tail(list), id + Controls(<<Head(list)>>), loop)

-----------------------------------------------------------------------------
(***************************************************************************)
(* Functions and the unit.                                                 *)
(***************************************************************************)
\* The expressions a scan of the statements meets.  Most scans pass over the
\* index of a store to an element.
RECURSIVE Expressions(_), Indexes(_)
Expressions(list) ==
    UNION {LET s == list[i]
           IN  CASE s.kind = "if" -> {s.test} \cup Expressions(s.then) \cup Expressions(s.else)
                 [] s.kind = "while" -> {s.test} \cup Expressions(s.body)
                 [] s.kind = "for" -> {s.start.value, s.test, s.update.value}
                                      \cup Expressions(s.body)
                 [] s.kind \in {"break", "continue"} -> {}
                 [] OTHER -> {s.value}
           : i \in DOMAIN list}
Indexes(list) ==
    UNION {LET s == list[i]
           IN  CASE s.kind = "if" -> Indexes(s.then) \cup Indexes(s.else)
                 [] s.kind \in {"while", "for"} -> Indexes(s.body)
                 [] s.kind = "element" -> {s.index}
                 [] OTHER -> {}
           : i \in DOMAIN list}

FunctionExpressions(f) ==
    Expressions(f.body) \cup {f.result} \cup {f.locals[i].initial : i \in DOMAIN f.locals}

\* Defect: the scan misses what the function returns.
HasCallsInBody(f) == \E e \in Expressions(f.body) \cup Indexes(f.body) : CallsIn(e) # {}

\* program_contains_calls.
HasCalls(f) == \E e \in FunctionExpressions(f) \cup Indexes(f.body) : CallsIn(e) # {}

FrameSize(f) == (f.frame + (IF HasCalls(f) THEN 4 * MaxSlots ELSE 0)) % WordValues

\* Parameters arrive in registers and are stored as words.
Prologue(f) ==
    IF FrameSize(f) = 0 THEN << >>
    ELSE <<WithNumber("subi", Stack, Stack, FrameSize(f))>>
         \o FoldLeftDomain(LAMBDA code, i :
                code \o IF i <= f.parameters THEN LocalAccess("stw", i - 1, f, i)
                        ELSE IF f.locals[i].initial = NoTree THEN << >>
                        ELSE Assign(f, [local |-> i, value |-> f.locals[i].initial]),
                << >>, f.locals)

\* emit_function.
FunctionCode(f, id) ==
    <<Label("function", f.name)>> \o Prologue(f)
    \o Sequence(f, f.body, id, [kind |-> "none", id |-> 0])
    \o (IF f.result = NoTree THEN <<Movi(0, 0)>> ELSE Into(0, f, f.result))
    \o <<Label("return", f.name)>>
    \o (IF FrameSize(f) = 0 THEN << >>
        ELSE <<WithNumber("addi", Stack, Stack, FrameSize(f))>>)
    \o <<Op("ret", 0, 0, 0)>>

\* emit_assembly; control statements are numbered through the whole unit.
UnitCode(unit) ==
    FoldLeft(LAMBDA sofar, f : [code |-> sofar.code \o FunctionCode(f, sofar.id),
                                id |-> sofar.id + Controls(f.body)],
             [code |-> << >>, id |-> 0], unit.functions).code

Emits(unit) == Refusal \notin ToSet(UnitCode(unit))

Scanned(unit) ==
    UNION {FunctionExpressions(unit.functions[i]) : i \in DOMAIN unit.functions}

\* The .extern lines: unit_uses_call_name decides.
Externs(unit) ==
    {unit.externals[i].name : i \in
        {j \in DOMAIN unit.externals :
            /\ Find(unit.functions, unit.externals[j].name) = 0
            /\ \E e \in Scanned(unit) : \E c \in CallsIn(e) :
                  c.name = unit.externals[j].name}}

\* Every string has a label of its own; emit_program_strings writes those of
\* the expressions it scans to the data section.
StringsWritten(unit) ==
    \A i \in DOMAIN unit.functions : \A e \in Indexes(unit.functions[i].body) :
        \A t \in Subtrees(e) : t.kind # "string"

\* t32-as knows the registers, and resolves every name or finds it declared
\* .extern.
Resolved(unit) ==
    LET functions == {unit.functions[i].name : i \in DOMAIN unit.functions}
    IN  /\ StringsWritten(unit)
        /\ \A i \in ToSet(UnitCode(unit)) :
              /\ {i.d, i.a, i.b} \subseteq 0 .. Stack
              /\ i.op = "call" => i.to[2] \in functions \cup Externs(unit)
=============================================================================
