------------------------------ MODULE CSubset ------------------------------
(***************************************************************************)
(* The language t32-cc compiles, without t32-cc: programs as trees of      *)
(* names, how they are written down, which of them are legal and what main *)
(* returns.  Nothing here knows of registers, frames or offsets: memory is *)
(* a set of objects, and a pointer is an object and an element of it.      *)
(***************************************************************************)
EXTENDS CcParser, CMeaning

CONSTANTS
    CharValues,    \* 2^8
    MaxDepth,      \* how deep operators may nest to the right
    MaxPending,    \* how many values a call may keep waiting
    MaxRegister,   \* the last register there is
    Contents       \* string -> its characters, the zero included

ASSUME SubsetAssumption ==
    CharValues \in Nat \ {0} /\ {MaxDepth, MaxPending, MaxRegister} \subseteq Nat

-----------------------------------------------------------------------------
(***************************************************************************)
(* Programs.                                                               *)
(***************************************************************************)
Number(n) == [kind |-> "number", value |-> n]
Var(x) == [kind |-> "var", name |-> x]
Text(t) == [kind |-> "text", text |-> t]
AddressOf(x) == [kind |-> "address", name |-> x]
Follow(x) == [kind |-> "follow", name |-> x]
Element(x, e) == [kind |-> "element", name |-> x, index |-> e]
Dot(x, m) == [kind |-> "dot", name |-> x, member |-> m]
Arrow(x, m) == [kind |-> "arrow", name |-> x, member |-> m]
Apply(f, args) == [kind |-> "apply", name |-> f, args |-> args]
Join(op, a, b) == [kind |-> "join", op |-> op, left |-> a, right |-> b]

Set(place, e) == [kind |-> "set", place |-> place, value |-> e]
Do(e) == [kind |-> "do", value |-> e]
Return(e) == [kind |-> "return", value |-> e]
Leave(word) == [kind |-> "leave", word |-> word]
When(e, then, else) == [kind |-> "when", test |-> e, then |-> then, else |-> else]
Loop(e, body) == [kind |-> "loop", test |-> e, body |-> body]
Repeat(x, start, e, step, body) ==
    [kind |-> "count", start |-> Set(Var(x), start), test |-> e,
     step |-> Set(Var(x), step), body |-> body]

Nothing == [kind |-> "nothing"]
Declare(type, x) ==
    [type |-> type, name |-> x, length |-> 1, struct |-> "", initial |-> Nothing]
Array(type, x, n) == [Declare(type, x) EXCEPT !.length = n]
With(decl, e) == [decl EXCEPT !.initial = e]
Record(type, s, x) == [Declare(type, x) EXCEPT !.struct = s]

Function(f, parameters, locals, body, result) ==
    [name |-> f, parameters |-> parameters, locals |-> locals, body |-> body,
     result |-> result]
Unit(structs, externals, functions) ==
    [structs |-> structs, externals |-> externals, functions |-> functions]
Main(locals, body, result) ==
    Unit(<< >>, << >>, <<Function("main", << >>, locals, body, result)>>)

Named(list, name) == CHOOSE i \in DOMAIN list : list[i].name = name
Has(list, name) == \E i \in DOMAIN list : list[i].name = name
Distinct(list) == \A i, j \in DOMAIN list : list[i].name = list[j].name => i = j

-----------------------------------------------------------------------------
(***************************************************************************)
(* How a program is written: with the fewest parentheses C needs.          *)
(***************************************************************************)
Level(op) ==
    CASE op \in {"*", "/", "%"} -> 4 [] op \in {"+", "-"} -> 3
      [] op \in {"<", ">", "<=", ">="} -> 2 [] op \in {"==", "!="} -> 1

Marks(kinds) == [i \in DOMAIN kinds |-> Mark(kinds[i])]
Digits(n) == <<Token("int", "", n)>>
Commas(list) ==
    FoldLeftDomain(LAMBDA ts, i : ts \o (IF i = 1 THEN << >> ELSE Marks(<<",">>)) \o list[i],
                   << >>, list)

RECURSIVE Written(_, _)
Written(e, level) ==
    LET name == <<Word(e.name)>>
        joined == Written(e.left, Level(e.op)) \o Marks(<<e.op>>)
                  \o Written(e.right, Level(e.op) + 1)
    IN  CASE e.kind = "number" ->
               IF e.value < 0 THEN Marks(<<"-">>) \o Digits(- e.value) ELSE Digits(e.value)
          [] e.kind = "var" -> name
          [] e.kind = "text" -> <<Token("string", e.text, 0)>>
          [] e.kind = "address" -> Marks(<<"&">>) \o name
          [] e.kind = "follow" -> Marks(<<"*">>) \o name
          [] e.kind = "element" ->
               name \o Marks(<<"[">>) \o Written(e.index, 1) \o Marks(<<"]">>)
          [] e.kind = "dot" -> name \o <<Mark("."), Word(e.member)>>
          [] e.kind = "arrow" -> name \o <<Mark("->"), Word(e.member)>>
          [] e.kind = "apply" ->
               name \o Marks(<<"(">>)
               \o Commas([i \in DOMAIN e.args |-> Written(e.args[i], 1)]) \o Marks(<<")">>)
          [] e.kind = "join" ->
               IF Level(e.op) < level THEN Marks(<<"(">>) \o joined \o Marks(<<")">>)
               ELSE joined

RECURSIVE WrittenAll(_)
Block(list) == Marks(<<"{">>) \o WrittenAll(list) \o Marks(<<"}">>)
Setting(s) == Written(s.place, 1) \o Marks(<<"=">>) \o Written(s.value, 1)
Test(word, e) == <<Word(word), Mark("(")>> \o Written(e, 1) \o Marks(<<")">>)

\* A branch of one statement is written without braces, if no else can go
\* astray.
Branch(list) ==
    IF Len(list) = 1 /\ list[1].kind # "when" THEN WrittenAll(list) ELSE Block(list)

WrittenOne(s) ==
    CASE s.kind = "set" -> Setting(s) \o Marks(<<";">>)
      [] s.kind = "do" -> Written(s.value, 1) \o Marks(<<";">>)
      [] s.kind = "return" -> <<Word("return")>> \o Written(s.value, 1) \o Marks(<<";">>)
      [] s.kind = "leave" -> <<Word(s.word), Mark(";")>>
      [] s.kind = "when" ->
           Test("if", s.test) \o Branch(s.then)
           \o (IF s.else = << >> THEN << >> ELSE <<Word("else")>> \o Block(s.else))
      [] s.kind = "loop" -> Test("while", s.test) \o Block(s.body)
      [] s.kind = "count" ->
           <<Word("for"), Mark("(")>> \o Setting(s.start) \o Marks(<<";">>)
           \o Written(s.test, 1) \o Marks(<<";">>) \o Setting(s.step)
           \o Marks(<<")">>) \o Block(s.body)

WrittenAll(list) == FoldLeft(LAMBDA ts, s : ts \o WrittenOne(s), << >>, list)

Kind(type) == CASE type \in {"int", "int*", "int[]"} -> "int"
                [] type \in {"char", "char*", "char[]"} -> "char"
                [] OTHER -> "struct"
IsPointer(type) == type \in {"int*", "char*", "struct*"}
IsArray(type) == type \in {"int[]", "char[]"}

Declared(d) ==
    <<Word(Kind(d.type))>> \o (IF d.struct = "" THEN << >> ELSE <<Word(d.struct)>>)
    \o (IF IsPointer(d.type) THEN Marks(<<"*">>) ELSE << >>) \o <<Word(d.name)>>
    \o (IF IsArray(d.type) THEN Marks(<<"[">>) \o Digits(d.length) \o Marks(<<"]">>) ELSE << >>)
    \o (IF d.initial = Nothing THEN << >> ELSE Marks(<<"=">>) \o Written(d.initial, 1))

Ended(list) == FoldLeft(LAMBDA ts, d : ts \o Declared(d) \o Marks(<<";">>), << >>, list)
Parameters(list) ==
    IF list = << >> THEN <<Word("void")>> ELSE Commas([i \in DOMAIN list |-> Declared(list[i])])

Tokens(unit) ==
    FoldLeft(LAMBDA ts, s : ts \o <<Word("struct"), Word(s.name), Mark("{")>>
                               \o Ended(s.members) \o Marks(<<"}", ";">>), << >>, unit.structs)
    \o FoldLeft(LAMBDA ts, x : ts \o <<Word("extern"), Word("int"), Word(x.name), Mark("(")>>
                               \o Parameters(x.parameters) \o Marks(<<")", ";">>),
                << >>, unit.externals)
    \o FoldLeft(LAMBDA ts, f : ts \o <<Word("int"), Word(f.name), Mark("(")>>
                               \o Parameters(f.parameters) \o Marks(<<")", "{">>)
                               \o Ended(f.locals) \o WrittenAll(f.body)
                               \o (IF f.result = Nothing THEN << >>
                                   ELSE WrittenAll(<<Return(f.result)>>))
                               \o Marks(<<"}">>), << >>, unit.functions)
    \o <<Eof>>
-----------------------------------------------------------------------------
(***************************************************************************)
(* Which programs are legal: those of the grammar that keep C's rules and  *)
(* the limits.  lax is the set of rules a program need not keep.  A scope  *)
(* is the declarations in force.                                           *)
(***************************************************************************)
TypeIn(scope, x) == IF Has(scope, x) THEN scope[Named(scope, x)].type ELSE "none"

\* Whether the value of an expression is a pointer.
RECURSIVE Points(_, _)
Points(scope, e) ==
    CASE e.kind \in {"text", "address"} -> TRUE
      [] e.kind = "var" -> IsPointer(TypeIn(scope, e.name)) \/ IsArray(TypeIn(scope, e.name))
      [] e.kind = "join" -> e.op \in {"+", "-"} /\ Points(scope, e.left)
      [] OTHER -> FALSE

HasMember(unit, scope, x, m) ==
    Has(unit.structs[Named(unit.structs, scope[Named(scope, x)].struct)].members, m)

\* An expression and all within it.
RECURSIVE Parts(_)
Parts(e) ==
    {e} \cup (CASE e.kind = "join" -> Parts(e.left) \cup Parts(e.right)
                [] e.kind = "element" -> Parts(e.index)
                [] e.kind = "apply" -> UNION {Parts(e.args[i]) : i \in DOMAIN e.args}
                [] OTHER -> {})

CallsOf(e) == {p \in Parts(e) : p.kind = "apply"}

\* How many operators and subscripts wait for their right operand or their
\* index at once; or how many of them when the last operator does.
RECURSIVE Depth(_), OperatorDepth(_)
Depth(e) ==
    CASE e.kind = "join" -> Max({Depth(e.left), 1 + Depth(e.right)})
      [] e.kind = "element" -> 1 + Depth(e.index)
      [] OTHER -> 0
OperatorDepth(e) ==
    CASE e.kind = "join" -> Max({OperatorDepth(e.left), 1 + OperatorDepth(e.right)})
      [] e.kind = "element" /\ OperatorDepth(e.index) # 0 -> 1 + OperatorDepth(e.index)
      [] OTHER -> 0

\* used: the registers that are taken already.
IsShallow(e, used, lax) ==
    IF "subscripts" \notin lax THEN Depth(e) + used <= MaxDepth
    ELSE /\ OperatorDepth(e) + used <= MaxDepth
         /\ "assembler" \in lax \/ Depth(e) + used <= MaxRegister

\* How many values wait while a call is made.
RECURSIVE Pending(_)
Pending(e) ==
    CASE e.kind = "apply" ->
           Max({0} \cup {i - 1 + Max({1, Pending(e.args[i])}) : i \in DOMAIN e.args})
      [] e.kind = "join" ->
           Max({Pending(e.left), (IF CallsOf(e.right) = {} THEN 0 ELSE 1) + Pending(e.right)})
      [] e.kind = "element" -> Pending(e.index)
      [] OTHER -> 0

RECURSIVE Size(_), Length(_)
Size(e) ==
    CASE e.kind = "join" -> 1 + Size(e.left) + Size(e.right)
      [] e.kind = "element" -> 1 + Size(e.index)
      [] e.kind = "apply" -> FoldLeft(LAMBDA k, a : k + Size(a), 1, e.args)
      [] e.kind = "follow" -> 2
      [] OTHER -> 1

Length(list) ==
    FoldLeft(LAMBDA k, s : k + 1 +
                 (CASE s.kind = "when" -> Length(s.then) + Length(s.else)
                    [] s.kind \in {"loop", "count"} -> Length(s.body)
                    [] OTHER -> 0), 0, list)

\* Whether one part of an expression is of the types it needs.
IsTyped(unit, scope, e, lax) ==
    LET type == TypeIn(scope, e.name)
    IN  CASE e.kind = "var" -> type \notin {"none", "struct"}
          [] e.kind = "address" -> type # "none"
          [] e.kind = "follow" ->
               type \in {"int*", "char*"} \/ ("follow" \in lax /\ type = "struct*")
          [] e.kind = "element" -> IsArray(type)
          [] e.kind = "dot" -> type = "struct" /\ HasMember(unit, scope, e.name, e.member)
          [] e.kind = "arrow" -> type = "struct*" /\ HasMember(unit, scope, e.name, e.member)
          [] e.kind = "join" -> e.op \in {"+", "-"} => ~ Points(scope, e.right)
          [] OTHER -> TRUE

-----------------------------------------------------------------------------
(***************************************************************************)
(* The values a function uses: each with the scope it is in, the registers *)
(* taken before it and where it stands.                                    *)
(***************************************************************************)
Used(e, scope, used, stands) == [value |-> e, scope |-> scope, used |-> used, stands |-> stands]
Plain(scope, e) == Used(e, scope, 0, "alone")

SetUses(scope, s) ==
    LET local == s.place.kind = "var"
    IN  {Used(s.value, scope, 1, IF local THEN "alone" ELSE "stored")}
        \cup (IF s.place.kind = "element" THEN {Used(s.place.index, scope, 2, "index")} ELSE {})

RECURSIVE BodyUses(_, _)
BodyUses(scope, list) ==
    UNION {LET s == list[i]
           IN  CASE s.kind = "set" -> SetUses(scope, s)
                 [] s.kind \in {"do", "return"} -> {Plain(scope, s.value)}
                 [] s.kind = "when" ->
                      {Plain(scope, s.test)} \cup BodyUses(scope, s.then)
                      \cup BodyUses(scope, s.else)
                 [] s.kind = "loop" -> {Plain(scope, s.test)} \cup BodyUses(scope, s.body)
                 [] s.kind = "count" ->
                      SetUses(scope, s.start) \cup {Plain(scope, s.test)}
                      \cup SetUses(scope, s.step) \cup BodyUses(scope, s.body)
                 [] OTHER -> {}
           : i \in DOMAIN list}

ScopeOf(f) == f.parameters \o f.locals

FunctionUses(f) ==
    LET scope == ScopeOf(f)
    IN  BodyUses(scope, f.body)
        \cup (IF f.result = Nothing THEN {} ELSE {Plain(scope, f.result)})
        \cup {Used(scope[i].initial, SubSeq(scope, 1, i - 1), 1, "alone") :
                  i \in {j \in DOMAIN scope : scope[j].initial # Nothing}}

Arity(unit, f) ==
    IF Has(unit.functions, f)
    THEN Len(unit.functions[Named(unit.functions, f)].parameters)
    ELSE IF Has(unit.externals, f)
    THEN Len(unit.externals[Named(unit.externals, f)].parameters) ELSE - 1

LegalCall(unit, c, stands, lax) ==
    IF "calls" \notin lax \/ stands = "alone" THEN Len(c.args) = Arity(unit, c.name)
    ELSE /\ Len(c.args) <= MaxParameters
         /\ "assembler" \in lax \/ Arity(unit, c.name) # - 1

LegalUse(unit, use, lax) ==
    /\ \A p \in Parts(use.value) : IsTyped(unit, use.scope, p, lax)
    /\ \A c \in CallsOf(use.value) :
          /\ LegalCall(unit, c, use.stands, lax)
          /\ \A i \in DOMAIN c.args : IsShallow(c.args[i], 0, lax)
    /\ Size(use.value) <= MaxNodes /\ Pending(use.value) <= MaxPending
    /\ IsShallow(use.value, use.used, lax)

-----------------------------------------------------------------------------
(***************************************************************************)
(* Statements, functions and units.                                        *)
(***************************************************************************)
IsAssignable(unit, scope, place, lax) ==
    IsTyped(unit, scope, place, lax)
    /\ (place.kind = "var" => ~ IsArray(TypeIn(scope, place.name)))

\* A for assigns to locals.
LegalClause(unit, scope, place, lax) ==
    /\ place.kind = "var"
    /\ IF "clauses" \in lax THEN TypeIn(scope, place.name) # "none"
       ELSE IsAssignable(unit, scope, place, lax)

\* No expression is a statement that begins as a store does.
BeginsAsStore(e) ==
    LET ts == Written(e, 1)
    IN  ts[1].kind = "*" \/ (Len(ts) > 1 /\ ts[2].kind \in {"->", ".", "["})

RECURSIVE LegalBody(_, _, _, _, _)
LegalBody(unit, scope, list, looped, lax) ==
    \A i \in DOMAIN list :
        LET s == list[i]
        IN  CASE s.kind = "set" -> IsAssignable(unit, scope, s.place, lax)
              [] s.kind = "do" -> ~ BeginsAsStore(s.value)
              [] s.kind = "leave" -> looped
              [] s.kind = "when" -> /\ LegalBody(unit, scope, s.then, looped, lax)
                                    /\ LegalBody(unit, scope, s.else, looped, lax)
              [] s.kind = "loop" -> LegalBody(unit, scope, s.body, TRUE, lax)
              [] s.kind = "count" -> /\ LegalClause(unit, scope, s.start.place, lax)
                                     /\ LegalClause(unit, scope, s.step.place, lax)
                                     /\ LegalBody(unit, scope, s.body, TRUE, lax)
              [] OTHER -> TRUE

\* Parameters are ints and pointers to structs; the return that ends the
\* outermost block ends the function, and is its result.
LegalFunction(unit, f, lax) ==
    LET scope == ScopeOf(f)
    IN  /\ Distinct(scope) /\ Len(scope) <= MaxLocals
        /\ Len(f.parameters) <= (IF f.name = "main" THEN 0 ELSE MaxParameters)
        /\ \A i \in DOMAIN f.parameters :
              /\ f.parameters[i].type \in {"int", "struct*"}
              /\ f.parameters[i].initial = Nothing
        /\ \A i \in DOMAIN f.body : f.body[i].kind # "return"
        /\ f.result = Nothing => f.name = "main"
        /\ \A i \in DOMAIN scope :
              /\ scope[i].struct # "" => Has(unit.structs, scope[i].struct)
              /\ IsArray(scope[i].type) => scope[i].length > 0
              /\ scope[i].initial # Nothing =>
                    ~ IsArray(scope[i].type) /\ scope[i].type # "struct"
        /\ \A use \in FunctionUses(f) : LegalUse(unit, use, lax)
        /\ LegalBody(unit, scope, f.body, FALSE, lax) /\ Length(f.body) <= MaxStatements

LegalStruct(s) ==
    /\ s.members # << >> /\ Distinct(s.members)
    /\ \A i \in DOMAIN s.members : s.members[i].type \in {"int", "char"}

LegalExternal(x) ==
    /\ Len(x.parameters) <= MaxParameters
    /\ \A i \in DOMAIN x.parameters :
          x.parameters[i].type \in {"int", "char", "int*", "char*"}

LegalBut(unit, lax) ==
    /\ Distinct(unit.structs) /\ Distinct(unit.externals)
    /\ Distinct(unit.functions) /\ Has(unit.functions, "main")
    /\ Len(unit.functions) <= MaxFunctions
    /\ \A i \in DOMAIN unit.structs : LegalStruct(unit.structs[i])
    /\ \A i \in DOMAIN unit.externals : LegalExternal(unit.externals[i])
    /\ \A i \in DOMAIN unit.functions : LegalFunction(unit, unit.functions[i], lax)

Legal(unit) == LegalBut(unit, {})

-----------------------------------------------------------------------------
(***************************************************************************)
(* Where t32-cc parts from that.                                           *)
(***************************************************************************)
\* The rules it does not hold a program to everywhere.  In the value of a
\* store through a pointer, to an element or to a member, and in the index of
\* an element that is stored, a call may have any number of arguments.
\* Subscripts may take the registers behind the last for temporaries.  A for
\* may assign to an array or a struct, and a pointer to a struct be followed.
Gaps == {"calls", "subscripts", "clauses", "follow"}

\* A legal program it fails to compile: a string, or an external function that
\* is called nowhere else, stands in the index of an element that is stored.
IsForgotten(unit) ==
    LET uses == UNION {FunctionUses(unit.functions[i]) : i \in DOMAIN unit.functions}
        parts(S) == UNION {Parts(use.value) : use \in {u \in uses : u.stands \in S}}
        called(S) == {p.name : p \in {q \in parts(S) : q.kind = "apply"}}
    IN  \/ \E p \in parts({"index"}) : p.kind = "text"
        \/ \E f \in called({"index"}) \ called({"alone", "stored"}) :
              ~ Has(unit.functions, f)

-----------------------------------------------------------------------------
(***************************************************************************)
(* What a program means.  Memory holds the elements of objects at places:  *)
(* element i of object k is at Spread * k + i, above every integer.  An    *)
(* environment gives the place of each local.                              *)
(***************************************************************************)
Got(v, m) == [v |-> v, m |-> m]
Keep(m, place, v) == [m EXCEPT !.at = (place :> v) @@ @]

\* The strings are the first objects.
Literals == SetToSeq(DOMAIN Contents)
Literal(t) == Spread * (CHOOSE i \in DOMAIN Literals : Literals[i] = t)
FirstMemory ==
    [at |-> [p \in UNION {{Literal(t) + i - 1 : i \in DOMAIN Contents[t]} : t \in DOMAIN Contents}
             |-> Contents[Literals[p \div Spread]][(p % Spread) + 1]],
     next |-> Len(Literals) + 1]

\* Members are elements of their struct, in the order of the definition.
MemberIndex(c, x, m) ==
    Named(c.unit.structs[Named(c.unit.structs, c.scope[Named(c.scope, x)].struct)].members, m)
MemberType(c, x, m) ==
    c.unit.structs[Named(c.unit.structs, c.scope[Named(c.scope, x)].struct)]
        .members[MemberIndex(c, x, m)].type

\* A char holds a byte.
Fits(c, place, v) ==
    LET type == IF place.kind \in {"dot", "arrow"}
                THEN MemberType(c, place.name, place.member) ELSE TypeIn(c.scope, place.name)
    IN  IF type = "char" \/ (type = "char[]" /\ place.kind = "element")
           \/ (type = "char*" /\ place.kind = "follow")
        THEN v % CharValues ELSE v

RECURSIVE Value(_, _, _), Values(_, _, _), Call(_, _, _), Run(_, _, _)

\* Where an expression that names an object is, and the memory after its index.
Place(e, c, m) ==
    LET base == c.env[e.name]
        past(i) == Got(base + i.v, i.m)
    IN  CASE e.kind = "var" -> Got(base, m)
          [] e.kind = "follow" -> Got(m.at[base], m)
          [] e.kind = "element" -> past(Value(e.index, c, m))
          [] e.kind = "dot" -> Got(base + MemberIndex(c, e.name, e.member), m)
          [] e.kind = "arrow" -> Got(m.at[base] + MemberIndex(c, e.name, e.member), m)

Value(e, c, m) ==
    LET joined(r) == Got(Joined(e.op, r.v[1], r.v[2]), r.m)
        read(p) == IF e.kind = "var" /\ IsArray(TypeIn(c.scope, e.name)) THEN p
                   ELSE Got(p.m.at[p.v], p.m)
    IN  CASE e.kind = "number" -> Got(Wrapped(e.value), m)
          [] e.kind = "text" -> Got(Literal(e.text), m)
          [] e.kind = "address" -> Got(c.env[e.name], m)
          [] e.kind = "apply" -> Call(c.unit, e.name, Values(e.args, c, m))
          [] e.kind = "join" -> joined(Values(<<e.left, e.right>>, c, m))
          [] OTHER -> read(Place(e, c, m))

\* One after the other.
Values(list, c, m) ==
    LET added(got, r) == Got(Append(got.v, r.v), r.m)
    IN  FoldLeft(LAMBDA got, e : added(got, Value(e, c, got.m)), Got(<< >>, m), list)

\* A call makes fresh objects of its parameters and locals.
Opened(f, c, args) ==
    LET entered == FoldLeftDomain(
            LAMBDA s, i : Keep(s, c.env[c.scope[i].name], args.v[i]),
            [args.m EXCEPT !.next = @ + Len(c.scope) + 1], args.v)
    IN  FoldLeft(LAMBDA s, d :
                     IF d.initial = Nothing THEN s
                     ELSE Run(<<Set(Var(d.name), d.initial)>>, c, s).m, entered, f.locals)

\* The one function of the runtime library that programs here use doubles its
\* argument.
Call(unit, name, args) ==
    LET f == unit.functions[Named(unit.functions, name)]
        scope == f.parameters \o f.locals
        c == [unit |-> unit, scope |-> scope,
              env |-> [x \in {scope[i].name : i \in DOMAIN scope} |->
                          Spread * (args.m.next + Named(scope, x))]]
        returned(r) == IF r.flow = "return" THEN Got(r.v, r.m)
                       ELSE IF f.result = Nothing THEN Got(0, r.m)
                       ELSE Value(f.result, c, r.m)
    IN  IF ~ Has(unit.functions, name) THEN Got(Wrapped(2 * args.v[1]), args.m)
        ELSE returned(Run(f.body, c, Opened(f, c, args)))

\* A list of statements: how it was left, the value of a return, the memory.
After(flow, v, m) == [flow |-> flow, v |-> v, m |-> m]

\* A loop, after its test; more is what follows a round.
Round(s, more, c, test) ==
    LET ended(body) == IF body.flow = "return" THEN body
                       ELSE IF body.flow = "break" THEN After("next", 0, body.m)
                       ELSE Run(more, c, body.m)
    IN  IF test.v = 0 THEN After("next", 0, test.m) ELSE ended(Run(s.body, c, test.m))

RunOne(s, c, m) ==
    LET again == [kind |-> "again", test |-> s.test, step |-> s.step, body |-> s.body]
        kept(place, v) == After("next", 0, Keep(place.m, place.v, Fits(c, s.place, v)))
        stored(got) == kept(Place(s.place, c, got.m), got.v)
        returned(got) == After("return", got.v, got.m)
        chosen(test) == Run(IF test.v # 0 THEN s.then ELSE s.else, c, test.m)
    IN  CASE s.kind = "set" -> stored(Value(s.value, c, m))
          [] s.kind = "do" -> After("next", 0, Value(s.value, c, m).m)
          [] s.kind = "return" -> returned(Value(s.value, c, m))
          [] s.kind = "leave" -> After(s.word, 0, m)
          [] s.kind = "when" -> chosen(Value(s.test, c, m))
          [] s.kind = "loop" -> Round(s, <<s>>, c, Value(s.test, c, m))
          [] s.kind = "count" -> Run(<<s.start, again>>, c, m)
          [] s.kind = "again" -> Round(s, <<s.step, s>>, c, Value(s.test, c, m))

Run(list, c, m) ==
    LET followed(r) == IF r.flow = "next" THEN Run(Tail(list), c, r.m) ELSE r
    IN  IF list = << >> THEN After("next", 0, m) ELSE followed(RunOne(Head(list), c, m))

\* What main returns.
Meaning(unit) == Call(unit, "main", Got(<< >>, FirstMemory)).v
=============================================================================
