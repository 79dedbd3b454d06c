------------------------------ MODULE Compiler ------------------------------
(***************************************************************************)
(* t32-cc as its user meets it: the driver compiles texts with the parser  *)
(* and the generator, the output of a successful link is run, and what it  *)
(* returns is compared with what the program means.                        *)
(***************************************************************************)
EXTENDS T32Cc, CcTarget, CSubset

CONSTANT ProgramOf(_)    \* the program a text is

TreeOf(text) == ParseTranslationUnit(Tokens(ProgramOf(text)))
TextParses(text) == TreeOf(text).at # 0
TextEmits(text) ==
    LET emits(r) == r.at # 0 /\ Emits(r.tree) IN emits(TreeOf(text))
TextAssembles(text) ==
    LET assembles(r) == r.at # 0 /\ Emits(r.tree) /\ Resolved(r.tree)
    IN  assembles(TreeOf(text))

compiler == <<driver, target>>

Init == DriverInit /\ Blank

\* The host starts the linked program, once; nothing is compiled after it.
RunOutput ==
    /\ step = "idle" /\ exit = "success" /\ job.mode = "link" /\ program = NoProgram
    /\ files["output"].whole /\ Loads(files["output"].of, TreeOf(files["output"].of).tree)
    /\ UNCHANGED driver

Next ==
    \/ program = NoProgram /\ DriverNext /\ UNCHANGED target
    \/ RunOutput
    \/ Execute /\ UNCHANGED driver

Spec == Init /\ [][Next]_compiler

\* A machine that runs goes on running.
FairSpec == Spec /\ WF_compiler(Execute /\ UNCHANGED driver)

-----------------------------------------------------------------------------
(***************************************************************************)
(* Properties.                                                             *)
(***************************************************************************)
\* Where a legal program means something, its compilation does not fault and main
\* returns that: precedence, signed comparison and remainder, pointers that
\* count elements, chars that wrap, members, calls inside calls.
CompiledMeansC ==
    LET fits(meaning) == /\ Halted => meaning \in {Strange, Signed(regs[0])}
                         /\ Faulted => meaning = Strange
    IN  (Halted \/ Faulted) /\ Legal(ProgramOf(program)) =>
            fits(Meaning(ProgramOf(program)))

\* Every return goes home: no store reaches the return address of a call in
\* progress or lies below the stack pointer, each function leaves the stack
\* where it found it, aligned to words at every call, and the program ends
\* with an empty one.  An illegal program that is accepted may take the stack
\* pointer for a temporary.
ReturnsHome ==
    /\ \A c \in ToSet(calls) : WordAt(c.at) = c.home
    /\ Current.op = "call" => regs[Stack] % 4 = 0
    /\ Current.op = "ret" => calls # << >> /\ Last(calls).at = regs[Stack]
    /\ Current.op \in {"stw", "stb"} => regs[Current.a] \in regs[Stack] .. StackTop - 1
    /\ Halted => calls = << >> /\ regs[Stack] = StackTop
CallsReturn == Running => ReturnsHome \/ ~ Legal(ProgramOf(program))

\* What t32-cc takes and what it refuses, unless something else fails: the
\* legal programs and no other, but for the gaps that CSubset names.  Among
\* those it also takes are programs whose calls pass the wrong number of
\* arguments, where validate_program_calls does not look, in a store; among
\* the legal ones it refuses are those whose strings and external functions
\* emit_assembly does not look for, in the index of one.  With -S nobody asks
\* the assembler, which refuses unknown names and registers.
AcceptsTheSubset ==
    LET unit == ProgramOf(job.text)
        accepted == IF job.mode = "assembly" THEN LegalBut(unit, Gaps \cup {"assembler"})
                    ELSE LegalBut(unit, Gaps) /\ ~ IsForgotten(unit)
    IN  /\ exit = "success" => accepted
        /\ exit = "failure" /\ job.fault = "none" => ~ accepted

\* Before a call, "the caller must [...] preserve any required values
\* currently in r0-r7" (docs/abi/02-calling-convention.md:79-83): a call in
\* an expression changes no value that the expression still needs, and the
\* program returns what it means.
RequiredValuesSurvive == Halted => Signed(regs[0]) = Meaning(ProgramOf(program))

\* A program that was started halts or faults.
ProgramsHalt == Running ~> Halted \/ Faulted
=============================================================================
