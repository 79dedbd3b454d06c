-------------------------------- MODULE T32Cc --------------------------------
(***************************************************************************)
(* The driver of t32-cc: main, with the file it is asked for and its two   *)
(* temporaries, whose names derive from that file's and so are the same in *)
(* every invocation for it.  One invocation after another compiles the one *)
(* source file, which may be edited at any time.  Reads, writes, t32-as    *)
(* and t32-ld can fail, and an invocation can be killed between any two    *)
(* steps, whereupon its files stay as they are.                            *)
(***************************************************************************)
EXTENDS Integers, FiniteSets, Sequences

CONSTANTS
    Sources,     \* the texts a source file may have
    Revisions,   \* those among which it is edited
    Parsed(_),   \* whether parse_translation_unit accepts a text
    Emitted(_),  \* whether emit_assembly accepts what it parsed
    Assembled(_), \* whether t32-as accepts what it wrote
    MaxFaults,   \* bound: failures and kills
    MaxEdits     \* bound: edits

ASSUME DriverAssumption ==
    /\ \A t \in Sources : (Assembled(t) => Emitted(t)) /\ (Emitted(t) => Parsed(t))
    /\ Revisions \subseteq Sources
    /\ MaxFaults \in Nat /\ MaxEdits \in Nat

Modes == {"assembly", "object", "link"}
Product == [assembly |-> "assembly", object |-> "object", link |-> "binary"]

VARIABLES
    source,     \* what the source file holds
    files,      \* the output and the temporaries: what each holds
    job,        \* the options, the text read and success; the rest is history
    step,       \* where main is, or "idle"
    exit,       \* how the last invocation ended
    faults, edits, killed    \* history

driver == <<source, files, job, step, exit, faults, edits, killed>>

NoFile == [stage |-> "none", of |-> "none", whole |-> FALSE]
Holding(stage, text, whole) == [stage |-> stage, of |-> text, whole |-> whole]
Temporaries == {"assembly", "object"}

\* main's assembly_path and object_path.
AssemblyPath == IF job.mode = "assembly" THEN "output" ELSE "assembly"
ObjectPath == IF job.mode = "object" THEN "output" ELSE "object"

DriverInit ==
    /\ source \in Sources
    /\ files = [p \in Temporaries \cup {"output"} |-> NoFile]
    /\ job = [mode |-> "none", text |-> "none", success |-> FALSE, fault |-> "none",
              before |-> NoFile]
    /\ step = "idle" /\ exit = "none" /\ faults = 0 /\ edits = 0 /\ killed = FALSE

Leaves(path, content) == files' = [files EXCEPT ![path] = content]
Goto(s) == step' = s /\ UNCHANGED exit
Exit(status) == step' = "idle" /\ exit' = status
World == <<source, edits, killed>>

\* A step that goes wrong; noticed if the program is told.
Fault(how) ==
    faults < MaxFaults /\ faults' = faults + 1 /\ job' = [job EXCEPT !.fault = how]
Well == UNCHANGED <<job, faults>>
Succeeds == job' = [job EXCEPT !.success = TRUE] /\ UNCHANGED faults

-----------------------------------------------------------------------------
(***************************************************************************)
(* The user.                                                               *)
(***************************************************************************)
Edit ==
    /\ edits < MaxEdits /\ edits' = edits + 1 /\ source \in Revisions
    /\ source' \in Revisions \ {source}
    /\ UNCHANGED <<files, job, step, exit, faults, killed>>

\* parse_options.
Invoke(mode) ==
    /\ step = "idle" /\ step' = "read" /\ exit' = "none"
    /\ job' = [mode |-> mode, text |-> "none", success |-> FALSE, fault |-> "none",
               before |-> files["output"]]
    /\ UNCHANGED <<files, faults, World>>

Kill ==
    /\ step # "idle" /\ Exit("killed") /\ killed' = TRUE /\ Fault("noticed")
    /\ UNCHANGED <<source, files, edits>>

-----------------------------------------------------------------------------
(***************************************************************************)
(* main.  Until the assembly file is created, a failure leaves at once;    *)
(* after that, by way of done.                                             *)
(***************************************************************************)
\* read_entire_file.
ReadSource ==
    /\ step = "read" /\ UNCHANGED <<files, World>>
    /\ \/ job' = [job EXCEPT !.text = source] /\ Goto("parse") /\ UNCHANGED faults
       \/ Fault("noticed") /\ Exit("failure")

Parse ==
    /\ step = "parse" /\ UNCHANGED <<files, World>> /\ Well
    /\ IF Parsed(job.text) THEN Goto("create") ELSE Exit("failure")

\* Defect: main goes on without the assembly file.
CreateOrGoOn ==
    /\ step = "create" /\ UNCHANGED World
    /\ \/ /\ Leaves(AssemblyPath, Holding("assembly", job.text, FALSE))
          /\ Goto("emit") /\ Well
       \/ Goto("assemble") /\ Fault("noticed") /\ UNCHANGED files

\* emit_assembly opens its file, which truncates it.
CreateAssembly ==
    /\ step = "create" /\ UNCHANGED World
    /\ \/ /\ Leaves(AssemblyPath, Holding("assembly", job.text, FALSE))
          /\ Goto("emit") /\ Well
       \/ Goto("give up") /\ Fault("noticed") /\ UNCHANGED files

\* emit_assembly writes and closes its file.  No write is checked: one that
\* fails is seen when the file is closed, or not at all.
Emit ==
    LET next == IF job.mode = "assembly" THEN "done" ELSE "assemble"
        ends == IF job.mode = "assembly" THEN [job EXCEPT !.success = TRUE] ELSE job
    IN  /\ step = "emit" /\ UNCHANGED World
        /\ \/ /\ Emitted(job.text) /\ Goto(next)
              /\ Leaves(AssemblyPath, Holding("assembly", job.text, TRUE))
              /\ job' = ends /\ UNCHANGED faults
           \/ /\ ~ Emitted(job.text) /\ Goto("give up")
              /\ Leaves(AssemblyPath, NoFile) /\ Well
           \/ /\ Emitted(job.text) /\ Fault("noticed") /\ Goto("give up")
              /\ UNCHANGED files
           \/ /\ Emitted(job.text) /\ faults < MaxFaults /\ faults' = faults + 1
              /\ job' = [ends EXCEPT !.fault = "unnoticed"]
              /\ Goto(next) /\ UNCHANGED files

\* assemble_object: t32-as may refuse a torn file and may not.
Assemble ==
    LET read == files[AssemblyPath]
    IN  /\ step = "assemble" /\ UNCHANGED World
        /\ \/ /\ read.stage = "assembly" /\ (read.whole => Assembled(read.of))
              /\ Leaves(ObjectPath, Holding("object", read.of, read.whole))
              /\ IF job.mode = "object" THEN Succeeds /\ Goto("done")
                                        ELSE Well /\ Goto("link")
           \/ /\ Leaves(ObjectPath, NoFile) /\ Goto("done")
              /\ IF read.whole /\ Assembled(read.of) THEN Fault("noticed") ELSE Well

\* link_program: no prefix, no crt0.o or no libt32.a.
RuntimeMissing ==
    step = "link" /\ Fault("noticed") /\ Goto("done") /\ UNCHANGED <<files, World>>

\* link_program: t32-ld.
Link ==
    LET read == files[ObjectPath]
    IN  /\ step = "link" /\ UNCHANGED World /\ Goto("done")
        /\ \/ /\ Leaves("output", Holding("binary", read.of, read.whole))
              /\ Succeeds
           \/ /\ Leaves("output", NoFile)
              /\ IF read.whole THEN Fault("noticed") ELSE Well

\* Defect: the object stays.
CleanUpAssembly ==
    LET removed == (IF job.mode # "assembly" THEN {AssemblyPath} ELSE {})
                   \cup (IF job.success THEN {} ELSE {"output"})
    IN  /\ step \in {"give up", "done"} /\ UNCHANGED <<World, job, faults>>
        /\ files' = [p \in DOMAIN files |-> IF p \in removed THEN NoFile ELSE files[p]]
        /\ Exit(IF job.success THEN "success" ELSE "failure")

\* done: the temporaries go, the object only if main came as far as naming
\* it, and after a failure the output, in this order; a kill can come between
\* two removals.
RemovedBefore == [assembly |-> {}, object |-> {"assembly"}, output |-> Temporaries]
Removed ==
    (IF job.mode # "assembly" THEN {AssemblyPath} ELSE {})
    \cup (IF job.mode = "link" /\ step = "done" THEN {ObjectPath} ELSE {})
    \cup (IF job.success THEN {} ELSE {"output"})

CleanUp ==
    LET left == {p \in Removed : files[p] # NoFile}
    IN  /\ step \in {"give up", "done"} /\ UNCHANGED <<World, job, faults>>
        /\ \/ \E p \in left :
                 RemovedBefore[p] \cap left = {} /\ Goto(step) /\ Leaves(p, NoFile)
           \/ /\ left = {} /\ UNCHANGED files
              /\ Exit(IF job.success THEN "success" ELSE "failure")

MainStep ==
    \/ ReadSource \/ Parse \/ CreateAssembly \/ Emit \/ Assemble \/ RuntimeMissing
    \/ Link \/ CleanUp

DriverNext == Edit \/ (\E mode \in Modes : Invoke(mode)) \/ Kill \/ MainStep
DriverSpec == DriverInit /\ [][DriverNext]_driver

-----------------------------------------------------------------------------
(***************************************************************************)
(* Properties.                                                             *)
(***************************************************************************)
\* After exit status 0 the output is what was asked for, made from the text
\* this invocation read, whatever an earlier one that was killed had left;
\* and it is whole, unless a write failed and nobody noticed.
SuccessIsFresh ==
    exit = "success" =>
        /\ files["output"].stage = Product[job.mode] /\ files["output"].of = job.text
        /\ files["output"].whole \/ job.fault = "unnoticed"

\* An invocation that fails leaves no part of its output: none at all, or
\* the one it found.  Temporaries outlive only an invocation that was killed,
\* and the next link that succeeds removes those too.
NothingLeftBehind ==
    /\ exit = "failure" => files["output"] \in {NoFile, job.before}
    /\ step = "idle" /\ (~ killed \/ (exit = "success" /\ job.mode = "link")) =>
           \A p \in Temporaries : files[p] = NoFile
=============================================================================
