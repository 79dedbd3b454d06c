------------------------------ MODULE CcParser ------------------------------
(***************************************************************************)
(* The parser of t32-cc (src/toolchain/t32-cc/src/t32-cc.c): recursive     *)
(* descent over one token of lookahead, and one more where a statement or  *)
(* a primary begins with a name.                                           *)
(*                                                                         *)
(* A token is a record of its kind, the text of a word or a string and the *)
(* value of an integer; the last token is Eof.  A function parses from a   *)
(* place in the token sequence and returns the place after what it parsed  *)
(* and the tree, or Fail: the first error ends the compilation.            *)
(***************************************************************************)
EXTENDS Integers, SequencesExt

CONSTANTS
    MaxNodes,         \* MAX_EXPRESSION_NODES
    MaxStatements,    \* MAX_STATEMENTS
    MaxLocals,        \* MAX_LOCALS
    MaxFunctions,     \* MAX_FUNCTIONS
    MaxParameters,    \* four
    WordValues        \* 2^32

ASSUME ParserAssumption ==
    /\ {MaxNodes, MaxStatements, MaxLocals, MaxFunctions, MaxParameters} \subseteq Nat
    /\ WordValues \in Nat \ {0}

Token(kind, text, value) == [kind |-> kind, text |-> text, value |-> value]
Mark(kind) == Token(kind, "", 0)
Word(text) == Token("word", text, 0)
Eof == Mark("eof")

At(place, tree) == [at |-> place, tree |-> tree]
Fail == At(0, [kind |-> "none"])
NoTree == Fail.tree

Is(ts, p, kind) == ts[p].kind = kind
IsWord(ts, p, text) == ts[p] = Word(text)    \* token_is_identifier

\* What follows something that was parsed, and parser_expect_kind after it.
Then(r, Next(_)) == IF r.at = 0 THEN Fail ELSE Next(r)
Expect(ts, r, kind) ==
    IF r.at # 0 /\ Is(ts, r.at, kind) THEN [r EXCEPT !.at = @ + 1] ELSE Fail
ExpectThen(ts, r, kind, Next(_)) == Then(Expect(ts, r, kind), Next)

-----------------------------------------------------------------------------
(***************************************************************************)
(* Names and types.  A local is a record; a struct is one of its name and  *)
(* members.                                                                *)
(***************************************************************************)
\* find_local, find_struct_by_name and find_struct_member: zero when there
\* is none.
Find(list, name) ==
    IF \E i \in DOMAIN list : list[i].name = name
    THEN CHOOSE i \in DOMAIN list : list[i].name = name ELSE 0

IsObject(local) == local.isStruct /\ ~ local.isPointer
PointerTypes == {"int*", "char*"}

\* expression_node_type.
RECURSIVE NodeType(_, _)
NodeType(locals, tree) ==
    LET of(isChar) == IF isChar THEN "char" ELSE "int"
        to(isChar) == IF isChar THEN "char*" ELSE "int*"
    IN  CASE tree.kind = "string" -> "char*"
          [] tree.kind = "address" -> to(locals[tree.local].isChar)
          [] tree.kind \in {"deref", "subscript", "member"} -> of(tree.byte)
          [] tree.kind = "local" ->
               LET l == locals[tree.local]
               IN  IF l.isPointer \/ l.isArray THEN to(l.isChar) ELSE of(l.isChar)
          [] tree.kind = "binary" /\ tree.scale # 0 -> NodeType(locals, tree.left)
          [] OTHER -> "int"

-----------------------------------------------------------------------------
(***************************************************************************)
(* Expressions.                                                            *)
(***************************************************************************)
\* parse_integer_literal: a minus sign belongs to the literal.
ParseInteger(ts, p) ==
    LET negative == Is(ts, p, "-")
        q == IF negative THEN p + 1 ELSE p
    IN  IF ~ Is(ts, q, "int") \/ (negative /\ 2 * ts[q].value > WordValues) THEN Fail
        ELSE At(q + 1, [kind |-> "int",
                        value |-> (IF negative THEN - ts[q].value ELSE ts[q].value)
                                  % WordValues])

\* parse_operand.
ParseOperand(ts, p, locals) ==
    IF Is(ts, p, "int") \/ Is(ts, p, "-") THEN ParseInteger(ts, p)
    ELSE LET l == IF Is(ts, p, "word") THEN Find(locals, ts[p].text) ELSE 0
         IN  IF l = 0 THEN Fail
             ELSE IF IsObject(locals[l]) THEN Fail
             ELSE At(p + 1, [kind |-> "local", local |-> l])

\* The name, the arrow or dot, and the member name, in an expression or at
\* the start of an assignment.
ParseMember(ts, p, locals) ==
    LET l == Find(locals, ts[p].text)
        through == Is(ts, p + 1, "->")
        m == IF l # 0 /\ Is(ts, p + 2, "word")
             THEN Find(locals[l].members, ts[p + 2].text) ELSE 0
    IN  IF m = 0 \/ l = 0 THEN Fail
        ELSE IF locals[l].isPointer # through THEN Fail
        ELSE At(p + 3, [kind |-> "member", local |-> l, through |-> through,
                        offset |-> locals[l].members[m].offset,
                        byte |-> locals[l].members[m].isChar])

RECURSIVE ParseBinary(_, _, _, _), ParseRest(_, _, _, _), ParseArguments(_, _, _, _)

\* From the loosest binding to the tightest.
Operators(level) ==
    CASE level = 1 -> {"==", "!="} [] level = 2 -> {"<", "<=", ">", ">="}
      [] level = 3 -> {"+", "-"} [] level = 4 -> {"*", "/", "%"}
Unary == 5

ParseEquality(ts, p, locals) == ParseBinary(1, ts, p, locals)

\* parse_primary.  What a name begins is decided by the token after it.
ParsePrimary(ts, p, locals) ==
    LET named == Is(ts, p, "word")
        after(kind) == named /\ Is(ts, p + 1, kind)
        l == IF named THEN Find(locals, ts[p].text) ELSE 0
    IN  CASE Is(ts, p, "(") -> Expect(ts, ParseEquality(ts, p + 1, locals), ")")
          [] Is(ts, p, "string") ->
               At(p + 1, [kind |-> "string", text |-> ts[p].text])
          [] after("->") \/ after(".") -> ParseMember(ts, p, locals)
          [] after("[") ->
               IF l = 0 THEN Fail
               ELSE IF ~ locals[l].isArray THEN Fail
               ELSE ExpectThen(ts, ParseEquality(ts, p + 2, locals), "]", LAMBDA r :
                       At(r.at, [kind |-> "subscript", local |-> l, child |-> r.tree,
                                 byte |-> locals[l].isChar]))
          [] after("(") ->
               ExpectThen(ts, IF Is(ts, p + 2, ")") THEN At(p + 2, << >>)
                              ELSE ParseArguments(ts, p + 2, locals, << >>),
                          ")", LAMBDA r :
                  At(r.at, [kind |-> "call", name |-> ts[p].text, args |-> r.tree]))
          [] OTHER -> ParseOperand(ts, p, locals)

\* parse_unary: only locals have an address, only pointers are followed.
ParseUnary(ts, p, locals) ==
    LET l == IF ts[p].kind \in {"&", "*"} /\ Is(ts, p + 1, "word")
             THEN Find(locals, ts[p + 1].text) ELSE 0
    IN  CASE Is(ts, p, "&") ->
               IF l = 0 THEN Fail
               ELSE At(p + 2, [kind |-> "address", local |-> l])
          [] Is(ts, p, "*") ->
               IF l = 0 THEN Fail
               ELSE IF ~ locals[l].isPointer THEN Fail
               ELSE Then(ParsePrimary(ts, p + 1, locals), LAMBDA r :
                       At(r.at, [kind |-> "deref", child |-> r.tree,
                                 byte |-> locals[l].isChar]))
          [] OTHER -> ParsePrimary(ts, p, locals)

ParseArguments(ts, p, locals, args) ==
    IF Len(args) >= MaxParameters THEN Fail
    ELSE Then(ParseEquality(ts, p, locals), LAMBDA r :
            IF Is(ts, r.at, ",")
            THEN ParseArguments(ts, r.at + 1, locals, Append(args, r.tree))
            ELSE At(r.at, Append(args, r.tree)))

\* A sum scales what is added to a pointer; two pointers, or a pointer on
\* the right, are refused.
Scale(locals, op, left, right) ==
    IF op \notin {"+", "-"} \/ NodeType(locals, left) \notin PointerTypes THEN 0
    ELSE IF NodeType(locals, left) = "int*" THEN 4 ELSE 1

SumIsRefused(locals, op, right) ==
    op \in {"+", "-"} /\ NodeType(locals, right) \in PointerTypes

\* parse_multiplicative, parse_additive, parse_relational and parse_equality:
\* one loop each, which joins operands of the next level from the left.
ParseRest(level, ts, left, locals) ==
    IF left.at = 0 THEN Fail
    ELSE IF ts[left.at].kind \notin Operators(level) THEN left
    ELSE Then(ParseBinary(level + 1, ts, left.at + 1, locals), LAMBDA right :
            LET op == ts[left.at].kind
            IN  IF SumIsRefused(locals, op, right.tree) THEN Fail
                ELSE ParseRest(level, ts,
                        At(right.at, [kind |-> "binary", op |-> op, left |-> left.tree,
                                      right |-> right.tree,
                                      scale |-> Scale(locals, op, left.tree, right.tree)]),
                        locals))

ParseBinary(level, ts, p, locals) ==
    IF level = Unary THEN ParseUnary(ts, p, locals)
    ELSE ParseRest(level, ts, ParseBinary(level + 1, ts, p, locals), locals)

\* The nodes expression_add_node was asked to keep.
RECURSIVE Nodes(_)
Nodes(tree) ==
    1 + (CASE tree.kind = "binary" -> Nodes(tree.left) + Nodes(tree.right)
           [] tree.kind \in {"deref", "subscript"} -> Nodes(tree.child)
           [] tree.kind = "call" ->
                FoldLeft(LAMBDA n, arg : n + Nodes(arg), 0, tree.args)
           [] OTHER -> 0)

ParseExpression(ts, p, locals) ==
    Then(ParseEquality(ts, p, locals),
         LAMBDA r : IF Nodes(r.tree) > MaxNodes THEN Fail ELSE r)

-----------------------------------------------------------------------------
(***************************************************************************)
(* Statements.                                                             *)
(***************************************************************************)
RECURSIVE ParseStatement(_, _, _, _), ParseSequence(_, _, _, _, _)

\* parse_assignment_clause, of any declared local.
ParseClause(ts, p, locals) ==
    LET l == IF Is(ts, p, "word") THEN Find(locals, ts[p].text) ELSE 0
    IN  IF l = 0 \/ ~ Is(ts, p + 1, "=") THEN Fail
        ELSE Then(ParseExpression(ts, p + 2, locals), LAMBDA r :
                At(r.at, [local |-> l, value |-> r.tree]))

\* parse_statement_sequence: a block ends at its brace, the body of a
\* function at the first return too.
ParseSequence(ts, p, locals, depth, done) ==
    IF Is(ts, p, "}") \/ (~ depth.block /\ IsWord(ts, p, "return")) THEN At(p, done)
    ELSE Then(ParseStatement(ts, p, locals, [depth EXCEPT !.block = FALSE]), LAMBDA r :
            ParseSequence(ts, r.at, locals, depth, Append(done, r.tree)))

\* parse_statement_or_block, as a sequence.
ParseBody(ts, p, locals, depth) ==
    IF Is(ts, p, "{")
    THEN Expect(ts, ParseSequence(ts, p + 1, locals,
                                  [depth EXCEPT !.block = TRUE], << >>), "}")
    ELSE Then(ParseStatement(ts, p, locals, depth), LAMBDA r : At(r.at, <<r.tree>>))

Inside(depth) == [depth EXCEPT !.loops = @ + 1]

\* The parenthesised test of if and while.
ParseTest(ts, p, locals) ==
    IF Is(ts, p, "(") THEN Expect(ts, ParseExpression(ts, p + 1, locals), ")") ELSE Fail

ParseIf(ts, p, locals, depth) ==
    Then(ParseTest(ts, p + 1, locals), LAMBDA test :
    Then(ParseBody(ts, test.at, locals, depth), LAMBDA then :
    Then(IF IsWord(ts, then.at, "else") THEN ParseBody(ts, then.at + 1, locals, depth)
         ELSE At(then.at, << >>), LAMBDA else :
    At(else.at, [kind |-> "if", test |-> test.tree, then |-> then.tree,
                 else |-> else.tree]))))

ParseWhile(ts, p, locals, depth) ==
    Then(ParseTest(ts, p + 1, locals), LAMBDA test :
    Then(ParseBody(ts, test.at, locals, Inside(depth)), LAMBDA body :
    At(body.at, [kind |-> "while", test |-> test.tree, body |-> body.tree])))

ParseFor(ts, p, locals, depth) ==
    IF ~ Is(ts, p + 1, "(") THEN Fail
    ELSE ExpectThen(ts, ParseClause(ts, p + 2, locals), ";", LAMBDA start :
         ExpectThen(ts, ParseExpression(ts, start.at, locals), ";", LAMBDA test :
         ExpectThen(ts, ParseClause(ts, test.at, locals), ")", LAMBDA update :
         Then(ParseBody(ts, update.at, locals, Inside(depth)), LAMBDA body :
         At(body.at, [kind |-> "for", start |-> start.tree, test |-> test.tree,
                      update |-> update.tree, body |-> body.tree])))))

\* target = expression; as every store ends.
ParseStore(ts, p, locals, store) ==
    IF ~ Is(ts, p, "=") THEN Fail
    ELSE ExpectThen(ts, ParseExpression(ts, p + 1, locals), ";", LAMBDA r :
            At(r.at, [store EXCEPT !.value = r.tree]))

\* Where a store goes: through a pointer, to a member, to an array element or
\* to a local.
ParseTarget(ts, p, locals) ==
    LET q == IF Is(ts, p, "*") THEN p + 1 ELSE p
        l == IF Is(ts, q, "word") THEN Find(locals, ts[q].text) ELSE 0
        after(kind) == Is(ts, p + 1, kind)
    IN  IF ~ Is(ts, p, "*") /\ (after("->") \/ after(".")) THEN
            Then(ParseMember(ts, p, locals), LAMBDA r :
                At(r.at, [kind |-> "field", member |-> r.tree, value |-> NoTree]))
        ELSE IF l = 0 THEN Fail
        ELSE IF Is(ts, p, "*") THEN
            IF ~ locals[l].isPointer THEN Fail
            ELSE At(p + 2, [kind |-> "indirect", local |-> l, value |-> NoTree])
        ELSE IF after("[") THEN
            IF ~ locals[l].isArray THEN Fail
            ELSE ExpectThen(ts, ParseExpression(ts, p + 2, locals), "]", LAMBDA r :
                    At(r.at, [kind |-> "element", local |-> l, index |-> r.tree,
                              value |-> NoTree]))
        ELSE IF locals[l].isArray \/ IsObject(locals[l]) THEN Fail
        ELSE At(p + 1, [kind |-> "assign", local |-> l, value |-> NoTree])

\* A store, or an expression whose value is dropped.
ParseSimple(ts, p, locals) ==
    IF Is(ts, p, "*")
       \/ (Is(ts, p, "word") /\ ts[p + 1].kind \in {"->", ".", "[", "="})
    THEN Then(ParseTarget(ts, p, locals), LAMBDA r :
            ParseStore(ts, r.at, locals, r.tree))
    ELSE ExpectThen(ts, ParseExpression(ts, p, locals), ";", LAMBDA r :
            At(r.at, [kind |-> "expression", value |-> r.tree]))

\* Defect: a jump needs no loop around it.
ParseJumpAnywhere(ts, p, depth) ==
    Expect(ts, At(p + 1, [kind |-> ts[p].text]), ";")

ParseJump(ts, p, depth) ==
    IF depth.loops = 0 THEN Fail
    ELSE Expect(ts, At(p + 1, [kind |-> ts[p].text]), ";")

\* parse_statement.
ParseStatement(ts, p, locals, depth) ==
    LET starts(word) == IsWord(ts, p, word)
    IN  CASE starts("break") \/ starts("continue") -> ParseJump(ts, p, depth)
          [] starts("for") -> ParseFor(ts, p, locals, depth)
          [] starts("while") -> ParseWhile(ts, p, locals, depth)
          [] starts("if") -> ParseIf(ts, p, locals, depth)
          [] starts("int") \/ starts("char") -> Fail
          [] starts("return") ->
               ExpectThen(ts, ParseExpression(ts, p + 1, locals), ";", LAMBDA r :
                  At(r.at, [kind |-> "return", value |-> r.tree]))
          [] OTHER ->
               IF ts[p].kind \in {"word", "int", "string", "(", "-", "*", "&"}
               THEN ParseSimple(ts, p, locals) ELSE Fail

RECURSIVE Statements(_)
Statements(list) ==
    FoldLeft(LAMBDA n, s : n + 1 +
                 (CASE s.kind = "if" -> Statements(s.then) + Statements(s.else)
                    [] s.kind \in {"while", "for"} -> Statements(s.body)
                    [] OTHER -> 0), 0, list)
=============================================================================
