----------------------------- MODULE MCCompiler -----------------------------
(***************************************************************************)
(* Programs for the compiler model.  First the ALU they run on is compared *)
(* with arithmetic: the odometer of AluCheck shows every pair of operands, *)
(* and the compiler starts at the pair of zeros.                           *)
(***************************************************************************)
EXTENDS Compiler, OperatorCheck

N(n) == Number(n)
x == Var("x")
y == Var("y")
z == Var("z")
IntX == Declare("int", "x")
Ints(names) == [i \in DOMAIN names |-> Declare("int", names[i])]
Ret(e) == Main(<< >>, << >>, e)
F1(f, body, result) == Function(f, Ints(<<"n">>), << >>, body, result)
n == Var("n")
Calling(functions, locals, body, result) ==
    Unit(<< >>, << >>, Append(functions, Function("main", << >>, locals, body, result)))
Doubling(locals, body, result) ==
    Unit(<< >>, <<[name |-> "twice", parameters |-> Ints(<<"n">>)]>>,
         <<Function("main", << >>, locals, body, result)>>)
S == [name |-> "S", members |-> <<Declare("char", "a"), Declare("int", "b"),
                                  Declare("char", "c"), Declare("char", "d")>>]
Structured(functions, locals, body, result) ==
    Unit(<<S>>, << >>, Append(functions, Function("main", << >>, locals, body, result)))

\* k operators, each the right, or the left, operand of another.
Chain(k) == FoldLeft(LAMBDA e, i : Join("-", N(i), e), N(1), [i \in 1 .. k |-> i])
Flat(k) == FoldLeft(LAMBDA e, i : Join("+", e, N(1)), N(1), [i \in 1 .. k |-> i])

Fact == F1("fact", <<When(Join("<=", n, N(1)), <<Return(N(1))>>, << >>)>>,
           Join("*", n, Apply("fact", <<Join("-", n, N(1))>>)))
Sub == Function("sub", Ints(<<"a", "b">>), << >>, << >>, Join("-", Var("a"), Var("b")))
Inc == Function("inc", <<Record("struct*", "S", "p")>>, << >>,
                <<Set(Arrow("p", "b"), Join("+", Arrow("p", "b"), N(1)))>>, Arrow("p", "a"))
Inc1 == F1("inc", << >>, Join("+", n, N(1)))
Sum(args) == FoldLeft(LAMBDA e, a : Join("+", e, a), Head(args), Tail(args))

Good ==
    [arithmetic |-> Ret(Join("-", Join("+", N(1), Join("*", N(7), N(6))),
                             Join("%", N(-17), Join("/", N(11), N(2))))),
     parentheses |-> Ret(Join("*", Join("-", N(5), Join("-", N(3), Join("<", N(9), Join("+", N(8), N(1))))), N(4))),
     relations |-> Main(<<With(IntX, N(-100)), With(Declare("int", "y"), N(100))>>, << >>,
         Sum(<<Join("<", x, y), Join("*", N(2), Join(">", x, y)),
               Join("*", N(4), Join("<=", x, x)), Join("*", N(8), Join(">=", x, y)),
               Join("*", N(16), Join("==", Join("<", x, y), N(1))),
               Join("*", N(32), Join("!=", x, y))>>)),
     division |-> Main(<<With(IntX, N(0))>>, << >>, Join("+", Join("/", N(7), x), N(1))),
     deep |-> Main(<<IntX>>, <<Set(x, Chain(8))>>, x),
     branches |-> Main(<<With(IntX, N(2)), Declare("int", "y")>>,
         <<When(Join("==", x, N(2)),
                <<When(Join("<", x, N(1)), <<Set(y, N(1))>>, <<Set(y, N(2))>>)>>,
                <<Set(y, N(3))>>),
           When(Join("!=", x, N(2)), <<Set(y, N(9))>>, << >>)>>, Join("+", x, y)),
     loops |-> Main(Append(Ints(<<"x", "y">>), With(Declare("int", "z"), N(0))),
         <<Repeat("x", N(0), Join("<", x, N(4)), Join("+", x, N(1)),
               <<When(Join("==", x, N(1)), <<Leave("continue")>>, << >>),
                 Set(y, N(0)),
                 Loop(N(1), <<When(Join(">", y, x), <<Leave("break")>>, << >>),
                              Set(y, Join("+", y, N(1))), Set(z, Join("+", z, y))>>),
                 When(Join("==", x, N(2)), <<Leave("break")>>, << >>)>>)>>, z),
     skips |-> Main(<<With(IntX, N(0)), With(Declare("int", "y"), N(0))>>,
         <<Loop(Join("<", x, N(3)), <<Set(x, Join("+", x, N(1))),
               When(Join("==", x, N(2)), <<Leave("continue")>>, << >>),
               Set(y, Join("+", y, x))>>)>>, y),
     early |-> Main(<< >>, <<When(N(1), <<Return(N(7))>>, << >>)>>, Nothing),
     empty |-> Main(<< >>, << >>, Nothing),
     recursion |-> Calling(<<Fact>>, << >>, << >>, Apply("fact", <<N(4)>>)),
     nested |-> Calling(<<Sub>>, <<IntX>>,
         <<Set(x, Join("-", N(50), Apply("sub", <<N(9), Apply("sub", <<N(3), N(5)>>)>>)))>>,
         Join("-", x, Apply("sub", <<x, N(1)>>))),
     mutual |-> Calling(
         <<F1("even", <<When(Join("==", n, N(0)), <<Return(N(1))>>, << >>)>>,
              Apply("odd", <<Join("-", n, N(1))>>)),
           F1("odd", <<When(Join("==", n, N(0)), <<Return(N(0))>>, << >>)>>,
              Apply("even", <<Join("-", n, N(1))>>))>>,
         << >>, << >>, Apply("even", <<N(3)>>)),
     library |-> Doubling(<<IntX>>,
         <<Set(x, Join("+", Apply("twice", <<N(5)>>), Apply("twice", <<N(7)>>))),
           Do(Apply("twice", <<x>>))>>, Join("-", x, Apply("twice", <<N(1)>>))),
     pointers |-> Main(<<With(IntX, N(3)), With(Declare("int*", "p"), AddressOf("x"))>>,
         <<Set(Follow("p"), Join("+", Follow("p"), N(4)))>>,
         Join("+", x, Join("==", Var("p"), AddressOf("x")))),
     swap |-> Main(<<Array("int[]", "a", 2), Declare("int*", "p")>>,
         <<Set(Element("a", N(0)), N(5)), Set(Element("a", N(1)), N(8)),
           Set(Var("p"), Join("+", Var("a"), N(1))),
           Set(Element("a", Join("-", N(1), N(1))),
               Join("-", Follow("p"), Element("a", N(0))))>>,
         Join("+", Element("a", N(0)), Element("a", Join("-", Follow("p"), N(7))))),
     chars |-> Main(<<With(Declare("char", "c"), N(7)), Array("char[]", "t", 3),
                      With(IntX, N(1))>>,
         <<Set(Element("t", x), N(6)), Set(Element("t", N(2)), N(1)),
           Set(Var("c"), Join("+", Var("c"), Element("t", N(2))))>>,
         Join("+", Join("*", Element("t", N(1)), N(10)), Join("+", Var("c"), x))),
     strings |-> Main(<<With(Declare("char*", "p"), Text("Hi"))>>,
         <<Set(Var("p"), Join("+", Var("p"), N(1)))>>,
         Join("*", Follow("p"), N(4))),
     through |-> Main(<<With(Declare("char", "c"), N(1)), With(Declare("char*", "p"), AddressOf("c"))>>,
         <<Set(Follow("p"), N(6))>>, Join("+", Var("c"), N(8))),
     members |-> Structured(<<Inc>>, <<Record("struct", "S", "s"), IntX>>,
         <<Set(Dot("s", "a"), N(5)), Set(Dot("s", "b"), N(-3)), Set(Dot("s", "c"), N(2)),
           Set(Dot("s", "d"), N(3)), Set(x, Apply("inc", <<AddressOf("s")>>))>>,
         Sum(<<x, Join("*", Dot("s", "b"), N(16)), Join("*", Dot("s", "c"), N(4)),
               Dot("s", "d")>>)),
     arrows |-> Structured(<< >>, <<Record("struct", "S", "s"),
                               With(Record("struct*", "S", "p"), AddressOf("s"))>>,
         <<Set(Arrow("p", "d"), N(2)), Set(Arrow("p", "b"), N(20)),
           Set(Arrow("p", "a"), Join("+", Arrow("p", "d"), N(3)))>>,
         Join("+", Dot("s", "b"), Dot("s", "a")))]

Bad ==
    [jump |-> Main(<< >>, <<Leave("break")>>, N(0)),
     jumpInBranch |-> Main(<< >>, <<When(N(1), <<Leave("continue")>>, << >>)>>, N(0)),
     undeclared |-> Main(<< >>, <<Set(x, N(1))>>, N(0)),
     redeclared |-> Main(<<IntX, IntX>>, << >>, N(0)),
     itself |-> Main(<<With(IntX, Join("+", x, N(1)))>>, << >>, x),
     scalar |-> Main(<<IntX>>, << >>, Element("x", N(0))),
     followed |-> Main(<<With(IntX, N(1))>>, << >>, Follow("x")),
     wholeArray |-> Main(<<Array("int[]", "a", 2)>>, <<Set(Var("a"), N(1))>>, N(0)),
     noElements |-> Main(<<Array("int[]", "a", 0)>>, << >>, N(0)),
     fewArguments |-> Calling(<<Sub>>, << >>, << >>, Apply("sub", <<N(1)>>)),
     manyArguments |-> Doubling(<< >>, <<When(Apply("twice", <<N(1), N(2)>>), << >>, << >>)>>, N(0)),
     unknown |-> Main(<< >>, <<Do(Apply("f", << >>))>>, N(0)),
     noReturn |-> Calling(<<F1("f", << >>, Nothing)>>, << >>, << >>, Apply("f", <<N(1)>>)),
     twoMains |-> Calling(<<Function("main", << >>, << >>, << >>, N(1))>>, << >>, << >>, N(0)),
     noMain |-> Unit(<< >>, << >>, <<Fact>>),
     mainTakes |-> Unit(<< >>, << >>, <<Function("main", Ints(<<"n">>), << >>, << >>, N(0))>>),
     badPointers |-> Main(<<With(IntX, N(1))>>, << >>, Join("-", AddressOf("x"), AddressOf("x"))),
     noMember |-> Structured(<< >>, <<Record("struct", "S", "s")>>, << >>, Dot("s", "e")),
     notArrow |-> Structured(<< >>, <<Record("struct", "S", "s")>>, << >>, Arrow("s", "a")),
     wholeStruct |-> Structured(<< >>, <<Record("struct", "S", "s")>>, <<Set(Var("s"), N(1))>>, N(0)),
     noStruct |-> Main(<<Record("struct", "S", "s")>>, << >>, N(0)),
     tooDeep |-> Main(<<IntX>>, <<Set(x, Chain(9))>>, x),
     deepReturn |-> Ret(Chain(10)),
     pending |-> Calling(<<Sub>>, << >>, << >>,
         Apply("sub", <<N(1), Apply("sub", <<N(1), Apply("sub", <<N(1),
             Apply("sub", <<N(1), N(1)>>)>>)>>)>>)),
     long |-> Ret(Flat(20)),
     manyStatements |-> Main(<<IntX>>, [i \in 1 .. 13 |-> Set(x, N(i))], x),
     manyLocals |-> Main(Ints(<<"a", "b", "c", "d", "e", "f", "g">>), << >>, N(0))]

\* The programs at the gaps of CSubset: the first are legal and refused, or
\* illegal and accepted, the last are refused however near they come.
A == Array("int[]", "a", 3)
Subscripts(k) == FoldLeft(LAMBDA e, i : Element("a", e), N(0), [i \in 1 .. k |-> i])
Late(e) == Join("==", N(1), Join("<", N(1), Join("+", N(1), Join("*", N(1), e))))
P(name) == With(Declare("int*", "p"), AddressOf(name))
Ss == <<Record("struct", "S", "s"), With(Record("struct*", "S", "p"), AddressOf("s"))>>

Near ==
    [externalIndex |-> Doubling(<<A>>,
         <<Set(Element("a", Apply("twice", <<N(1)>>)), N(5))>>, Element("a", N(2))),
     textIndex |-> Main(<<A>>, <<Set(Element("a", Join("==", Text("Hi"), N(0))), N(5))>>, N(0)),
     indexArity |-> Calling(<<Inc1>>, <<A>>,
         <<Set(Element("a", Apply("inc", <<N(0), N(1)>>)), N(5))>>, Element("a", N(1))),
     followArity |-> Calling(<<Inc1>>, <<IntX, P("x")>>,
         <<Set(Follow("p"), Apply("inc", << >>))>>, x),
     memberArity |-> Structured(<<Sub>>, <<Record("struct", "S", "s")>>,
         <<Set(Dot("s", "b"), Apply("sub", <<N(1)>>))>>, Dot("s", "b")),
     subscripts |-> Main(<<A>>, <<Set(Element("a", N(0)), N(0))>>, Subscripts(10)),
     stackPointer |-> Main(<<A>>, <<Set(Element("a", Late(Subscripts(9))), N(5))>>, N(0)),
     arrayClause |-> Main(<<A, With(IntX, N(0))>>,
         <<Repeat("a", N(5), Join("<", x, N(2)), N(6), <<Set(x, Join("+", x, N(1)))>>)>>, x),
     structClause |-> Structured(<< >>, <<Record("struct", "S", "s"), With(IntX, N(0))>>,
         <<Repeat("s", N(5), Join("<", x, N(2)), N(6), <<Set(x, Join("+", x, N(1)))>>)>>, x),
     wholeFollowed |-> Structured(<< >>, Ss, <<Set(Dot("s", "a"), N(5))>>, Follow("p")),
     unknownStored |-> Main(<<A>>, <<Set(Element("a", N(0)), Apply("f", << >>))>>, N(0)),
     unknownIndex |-> Main(<<A>>, <<Set(Element("a", Apply("f", << >>)), N(0))>>, N(0)),
     manySubscripts |-> Main(<<A>>, <<Set(Element("a", Late(Subscripts(10))), N(5))>>, N(0)),
     idle |-> Main(<<A>>, <<Do(Element("a", N(0)))>>, N(0)),
     middle |-> Main(<< >>, <<Return(N(1)), Do(N(2))>>, N(0))]

\* A call in the index of an element that is read, and of one that is stored.
Indexed == Calling(<<Inc1>>, <<Array("int[]", "a", 2)>>,
    <<Set(Element("a", Apply("inc", <<N(0)>>)), N(5)), Set(Element("a", N(0)), N(8))>>,
    Join("-", Element("a", Apply("inc", <<N(0)>>)), N(2)))
MCNested == {"indexed"}

MCSources == DOMAIN Good \cup DOMAIN Bad \cup DOMAIN Near
MCProgramOf(s) ==
    CASE s \in MCNested -> Indexed [] s \in DOMAIN Good -> Good[s]
      [] s \in DOMAIN Bad -> Bad[s] [] s \in DOMAIN Near -> Near[s]
MCRevisions == {"recursion", "tooDeep", "jump"}
MCTexts == [Hi |-> <<2, 3, 0>>]

\* The odometer turns while nothing compiles, for one text only.
MCInit == Init /\ FirstPair /\ (left # 0 => source = "empty")
\* Bounds: things go wrong, and the source is edited, only around the texts
\* in Revisions, and programs run where nothing has gone wrong.
MCNext ==
    \/ /\ Next /\ left = 0 /\ right = 0 /\ UNCHANGED operands
       /\ source \notin Revisions => faults' = 0
       /\ program' # NoProgram => faults = 0 /\ edits = 0
    \/ NextPair /\ source = "empty" /\ DriverInit /\ UNCHANGED compiler
MCSpec ==
    /\ MCInit /\ [][MCNext]_<<compiler, operands>>
    /\ WF_compiler(Execute /\ UNCHANGED <<driver, operands>>)
=============================================================================
