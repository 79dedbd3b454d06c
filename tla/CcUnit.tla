------------------------------- MODULE CcUnit -------------------------------
(***************************************************************************)
(* Translation units: struct definitions, external declarations and        *)
(* functions, in any order, and the check of every call once all of them   *)
(* are known.  The unit under construction is a record, and a function     *)
(* that extends it returns it as the tree.                                 *)
(***************************************************************************)
EXTENDS CcParser

EmptyUnit == [structs |-> << >>, externals |-> << >>, functions |-> << >>]

Aligned(n) == ((n + 3) \div 4) * 4
IsType(ts, p, words) == \E w \in words : IsWord(ts, p, w)

-----------------------------------------------------------------------------
(***************************************************************************)
(* Structs.                                                                *)
(***************************************************************************)
\* The member's place in the struct: an int is aligned, a char is packed.
NextMember(members, name, isChar) ==
    LET end == IF members = << >> THEN 0
               ELSE Last(members).offset + (IF Last(members).isChar THEN 1 ELSE 4)
    IN  [name |-> name, isChar |-> isChar,
         offset |-> IF isChar THEN end ELSE Aligned(end)]

RECURSIVE ParseMembers(_, _, _)
ParseMembers(ts, p, members) ==
    IF Is(ts, p, "}") THEN At(p + 1, members)
    ELSE IF ~ IsType(ts, p, {"int", "char"}) THEN Fail
    ELSE IF ~ Is(ts, p + 1, "word") THEN Fail
    ELSE IF Find(members, ts[p + 1].text) # 0 \/ ~ Is(ts, p + 2, ";") THEN Fail
    ELSE ParseMembers(ts, p + 3,
            Append(members, NextMember(members, ts[p + 1].text, IsWord(ts, p, "char"))))

StructSize(members) ==
    Aligned(Last(members).offset + (IF Last(members).isChar THEN 1 ELSE 4))

\* parse_struct_definition; p is after the word struct.
ParseStruct(ts, p, unit) ==
    IF ~ Is(ts, p, "word") \/ ~ Is(ts, p + 1, "{") THEN Fail
    ELSE Then(ParseMembers(ts, p + 2, << >>), LAMBDA r :
            IF Find(unit.structs, ts[p].text) # 0 \/ r.tree = << >> THEN Fail
            ELSE Expect(ts, At(r.at, [unit EXCEPT !.structs = Append(@,
                                        [name |-> ts[p].text, members |-> r.tree])]), ";"))

-----------------------------------------------------------------------------
(***************************************************************************)
(* External declarations: a name and how many parameters it takes.         *)
(***************************************************************************)
RECURSIVE ParseTypes(_, _, _)
ParseTypes(ts, p, n) ==
    LET q == IF Is(ts, p + 1, "*") THEN p + 2 ELSE p + 1
    IN  IF n >= MaxParameters \/ ~ IsType(ts, p, {"int", "char"}) THEN Fail
        ELSE IF ~ Is(ts, q, "word") THEN Fail
        ELSE IF Is(ts, q + 1, ",") THEN ParseTypes(ts, q + 2, n + 1)
        ELSE At(q + 1, n + 1)

\* parse_external_declaration; p is after the word extern.
ParseExternal(ts, p, unit) ==
    LET q == p + 3
        types == CASE IsWord(ts, q, "void") -> At(q + 1, 0)
                   [] Is(ts, q, ")") -> At(q, 0)
                   [] OTHER -> ParseTypes(ts, q, 0)
    IN  IF ~ (IsWord(ts, p, "int") /\ Is(ts, p + 1, "word") /\ Is(ts, p + 2, "(")) THEN Fail
        ELSE IF Find(unit.externals, ts[p + 1].text) # 0 THEN Fail
        ELSE ExpectThen(ts, Expect(ts, types, ")"), ";", LAMBDA r :
                At(r.at, [unit EXCEPT !.externals = Append(@,
                            [name |-> ts[p + 1].text, parameters |-> r.tree])]))

-----------------------------------------------------------------------------
(***************************************************************************)
(* Functions.  A local is placed at the end of the frame so far.           *)
(***************************************************************************)
Local(name, offset) ==
    [name |-> name, offset |-> offset, size |-> 4, isChar |-> FALSE,
     isPointer |-> FALSE, isArray |-> FALSE, isStruct |-> FALSE,
     members |-> << >>, initial |-> NoTree]

Frame(locals) ==
    IF locals = << >> THEN 0
    ELSE (Last(locals).offset + Last(locals).size) % WordValues

\* Parameters are ints and pointers to structs.
RECURSIVE ParseParameters(_, _, _, _)
ParseParameters(ts, p, unit, locals) ==
    LET isStruct == IsWord(ts, p, "struct")
        s == IF isStruct /\ Is(ts, p + 1, "word")
             THEN Find(unit.structs, ts[p + 1].text) ELSE 0
        q == IF isStruct THEN p + 3 ELSE p + 1
        parameter ==
            IF isStruct
            THEN [Local(ts[q].text, Frame(locals)) EXCEPT
                    !.isStruct = TRUE, !.isPointer = TRUE,
                    !.members = unit.structs[s].members]
            ELSE Local(ts[q].text, Frame(locals))
    IN  IF Len(locals) >= MaxParameters THEN Fail
        ELSE IF isStruct /\ (s = 0 \/ ~ Is(ts, p + 2, "*")) THEN Fail
        ELSE IF ~ isStruct /\ ~ IsWord(ts, p, "int") THEN Fail
        ELSE IF ~ Is(ts, q, "word") THEN Fail
        ELSE IF Find(locals, ts[q].text) # 0 THEN Fail
        ELSE IF Is(ts, q + 1, ",")
             THEN ParseParameters(ts, q + 2, unit, Append(locals, parameter))
        ELSE At(q + 1, Append(locals, parameter))

\* The type a declaration names, a star taken with it.
DeclaredType(ts, p, unit, locals) ==
    LET isStruct == IsWord(ts, p, "struct")
        s == IF isStruct /\ Is(ts, p + 1, "word")
             THEN Find(unit.structs, ts[p + 1].text) ELSE 0
        q == IF isStruct THEN p + 2 ELSE p + 1
        isPointer == Is(ts, q, "*")
        plain == [Local("", Frame(locals)) EXCEPT !.isPointer = isPointer,
                    !.isChar = IsWord(ts, p, "char"), !.isStruct = isStruct]
    IN  IF ~ isStruct THEN At(IF isPointer THEN q + 1 ELSE q, plain)
        ELSE IF s = 0 THEN Fail
        ELSE At(IF isPointer THEN q + 1 ELSE q,
                [plain EXCEPT !.members = unit.structs[s].members,
                              !.size = IF isPointer THEN 4
                                       ELSE StructSize(unit.structs[s].members)])

\* What follows the name: the length of an array, in a 32-bit product, or an
\* initial value, which does not see the local itself.
ParseDeclarator(ts, p, local, locals) ==
    LET length == ts[p + 1].value
        bytes == (length * (IF local.isChar THEN 1 ELSE 4)) % WordValues
    IN  CASE Is(ts, p, "[") ->
               IF local.isStruct \/ local.isPointer THEN Fail
               ELSE IF ~ Is(ts, p + 1, "int") \/ length = 0 \/ ~ Is(ts, p + 2, "]") THEN Fail
               ELSE Expect(ts, At(p + 3, [local EXCEPT !.isArray = TRUE,
                                      !.size = Aligned(bytes) % WordValues]), ";")
          [] Is(ts, p, "=") ->
               IF IsObject(local) THEN Fail
               ELSE ExpectThen(ts, ParseExpression(ts, p + 1, locals), ";", LAMBDA r :
                       At(r.at, [local EXCEPT !.initial = r.tree]))
          [] OTHER -> Expect(ts, At(p, local), ";")

RECURSIVE ParseDeclarations(_, _, _, _)
ParseDeclarations(ts, p, unit, locals) ==
    IF ~ IsType(ts, p, {"int", "char", "struct"}) THEN At(p, locals)
    ELSE IF Len(locals) >= MaxLocals THEN Fail
    ELSE ExpectThen(ts, DeclaredType(ts, p, unit, locals), "word", LAMBDA type :
         LET name == ts[type.at - 1].text
         IN  IF Find(locals, name) # 0 THEN Fail
             ELSE Then(ParseDeclarator(ts, type.at, [type.tree EXCEPT !.name = name], locals),
                       LAMBDA r : ParseDeclarations(ts, r.at, unit, Append(locals, r.tree))))

\* The name of a function, its parameters and its brace.
ParseHeader(ts, p, unit) ==
    IF ~ (IsWord(ts, p, "int") /\ Is(ts, p + 1, "word") /\ Is(ts, p + 2, "(")) THEN Fail
    ELSE ExpectThen(ts, CASE IsWord(ts, p + 3, "void") -> At(p + 4, << >>)
                          [] Is(ts, p + 3, ")") -> At(p + 3, << >>)
                          [] OTHER -> ParseParameters(ts, p + 3, unit, << >>),
                    ")", LAMBDA r : Expect(ts, r, "{"))

\* parse_function; only main may end without a return.
ParseFunction(ts, p, unit) ==
    LET name == ts[p + 1].text
    IN  Then(ParseHeader(ts, p, unit), LAMBDA header :
        Then(ParseDeclarations(ts, header.at, unit, header.tree), LAMBDA locals :
        Then(ParseSequence(ts, locals.at, locals.tree,
                           [loops |-> 0, block |-> FALSE], << >>), LAMBDA body :
        ExpectThen(ts, IF ~ IsWord(ts, body.at, "return") THEN At(body.at, NoTree)
                       ELSE Expect(ts, ParseExpression(ts, body.at + 1, locals.tree), ";"),
                   "}", LAMBDA result :
            IF name = "main" /\ header.tree # << >> THEN Fail
            ELSE IF name # "main" /\ result.tree = NoTree THEN Fail
            ELSE IF Statements(body.tree) > MaxStatements THEN Fail
            ELSE At(result.at,
                    [name |-> name, parameters |-> Len(header.tree),
                     locals |-> locals.tree, frame |-> Frame(locals.tree),
                     body |-> body.tree, result |-> result.tree])))))

AddFunction(unit, r) ==
    IF r.at = 0 \/ Len(unit.functions) >= MaxFunctions THEN Fail
    ELSE IF Find(unit.functions, r.tree.name) # 0 THEN Fail
    ELSE At(r.at, [unit EXCEPT !.functions = Append(@, r.tree)])

-----------------------------------------------------------------------------
(***************************************************************************)
(* The check of calls.  It looks at the expressions of the statements that *)
(* existed when it was written: a call in a store through a pointer, to a  *)
(* member or to an element is not checked.                                 *)
(***************************************************************************)
RECURSIVE Subtrees(_)
Subtrees(tree) ==
    {tree} \cup
    CASE tree.kind = "binary" -> Subtrees(tree.left) \cup Subtrees(tree.right)
      [] tree.kind \in {"deref", "subscript"} -> Subtrees(tree.child)
      [] tree.kind = "call" -> UNION {Subtrees(tree.args[i]) : i \in DOMAIN tree.args}
      [] OTHER -> {}

CallsIn(tree) == {t \in Subtrees(tree) : t.kind = "call"}

RECURSIVE CheckedCalls(_)
CheckedCalls(list) ==
    UNION {LET s == list[i]
           IN  CASE s.kind \in {"assign", "expression", "return"} -> CallsIn(s.value)
                 [] s.kind = "if" -> CallsIn(s.test) \cup CheckedCalls(s.then)
                                     \cup CheckedCalls(s.else)
                 [] s.kind = "while" -> CallsIn(s.test) \cup CheckedCalls(s.body)
                 [] s.kind = "for" ->
                      CallsIn(s.start.value) \cup CallsIn(s.test)
                      \cup CallsIn(s.update.value) \cup CheckedCalls(s.body)
                 [] OTHER -> {}
           : i \in DOMAIN list}

Callee(unit, name) ==
    LET f == Find(unit.functions, name)
        e == Find(unit.externals, name)
    IN  IF f # 0 THEN unit.functions[f].parameters
        ELSE IF e # 0 THEN unit.externals[e].parameters ELSE - 1

\* validate_program_calls, for every function.
CallsAreValid(unit) ==
    \A i \in DOMAIN unit.functions :
        LET f == unit.functions[i]
            checked == CheckedCalls(f.body) \cup CallsIn(f.result)
                       \cup UNION {CallsIn(f.locals[j].initial) : j \in DOMAIN f.locals}
        IN  \A c \in checked : Callee(unit, c.name) = Len(c.args)

RECURSIVE ParseUnit(_, _, _)
ParseUnit(ts, p, unit) ==
    IF Is(ts, p, "eof") THEN At(p, unit)
    ELSE Then(CASE IsWord(ts, p, "struct") -> ParseStruct(ts, p + 1, unit)
                [] IsWord(ts, p, "extern") -> ParseExternal(ts, p + 1, unit)
                [] OTHER -> AddFunction(unit, ParseFunction(ts, p, unit)),
              LAMBDA r : ParseUnit(ts, r.at, r.tree))

\* parse_translation_unit.
ParseTranslationUnit(ts) ==
    Then(ParseUnit(ts, 1, EmptyUnit), LAMBDA r :
        IF Find(r.tree.functions, "main") = 0 \/ ~ CallsAreValid(r.tree) THEN Fail ELSE r)
=============================================================================
