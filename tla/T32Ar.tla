------------------------------- MODULE T32Ar --------------------------------
(***************************************************************************)
(* t32-ar: one archive file that commands load whole, change in memory and *)
(* rewrite in place.  The environment compiles objects between commands;   *)
(* a command can be refused, run out of space or be killed at any step,    *)
(* and the next one finds what it left.                                    *)
(***************************************************************************)
EXTENDS T32Obj

CONSTANTS
    Paths,          \* the paths a command may name
    Base,           \* basename_portable, from paths to member names
    Objects,        \* what an object file can contain
    Torn,           \* an object file of which only a prefix was written
    NoFile,         \* no file of that name
    Foreign,        \* a file that is no archive
    MaxMembers,     \* MAX_MEMBERS
    MaxSymbols,     \* MAX_SYMBOLS
    MaxArguments    \* bound: names on one command line

\* A member name is the path of the file t32-ar x creates for it.
ASSUME ArAssumption ==
    /\ Base \in [Paths -> Paths]
    /\ \A path \in Paths : Base[Base[path]] = Base[path]
    /\ NoFile \notin Objects /\ Torn \notin Objects
    /\ \A o \in Objects \cup {Torn} : o.symbols \in Seq(ToSet(o.symbols))
    /\ MaxMembers \in Nat /\ MaxSymbols \in Nat /\ MaxArguments \in Nat

VARIABLES
    files,      \* the object files on disk
    archive,    \* the archive file on disk
    run         \* the process

vars == <<files, archive, run>>

MemberNames == {Base[path] : path \in Paths}
Contents == Objects \cup {Torn}

\* The archive that a complete write of the members and their index leaves,
\* of which only the first parts may have reached the disk: the header, the
\* member table, the symbol table, the strings, then each member's data.
FixedParts == 4
Parts(a) == FixedParts + Len(a.members)
IsArchive(a) == a \notin {NoFile, Foreign}
Complete(a) == IsArchive(a) /\ a.written = Parts(a)

Resting == [phase |-> "idle", op |-> "t", args |-> << >>, todo |-> << >>,
            members |-> << >>, before |-> NoFile, exit |-> 0]

Init ==
    /\ files = [path \in Paths |-> NoFile]
    /\ archive \in {NoFile, Foreign}
    /\ run = Resting

-----------------------------------------------------------------------------
(***************************************************************************)
(* The archive in memory.                                                  *)
(***************************************************************************)
\* collect_symbols_from_object for member i: one entry per exported symbol,
\* names that another member exports too included.
EntriesOf(members, i) ==
    LET exported == ExportedSymbols(members[i].data)
    IN  [j \in DOMAIN exported |-> [name |-> exported[j].name, member |-> i - 1]]

\* rebuild_symbol_index.
IndexOf(members) ==
    FlattenSeq([i \in DOMAIN members |-> EntriesOf(members, i)])

IndexBuilds(members) ==
    /\ \A i \in DOMAIN members : Indexable(members[i].data)
    /\ Len(IndexOf(members)) <= MaxSymbols

\* find_member, as the set of the places; it returns the first.
FindMember(members, name) == {i \in DOMAIN members : members[i].name = name}

\* Defects the properties must exclude.  No action uses them.
\* Member data is not checked against the end of the file.
LoadableUnbounded(a) ==
    /\ IsArchive(a)
    /\ a.written >= FixedParts
    /\ IndexBuilds(a.members)
\* load_archive: tables, strings and member data must lie inside the file,
\* and the index is built again from the objects.
Loadable(a) ==
    /\ IsArchive(a)
    /\ a.written >= FixedParts
    /\ Len(a.members) <= MaxMembers /\ Len(a.index) <= MaxSymbols
    /\ \A i \in DOMAIN a.members : FixedParts + i <= a.written
    /\ IndexBuilds(a.members)

\* replace_member's change of the member table.
Replaced(members, name, data) ==
    IF FindMember(members, name) # {}
    THEN [members EXCEPT ![Min(FindMember(members, name))].data = data]
    ELSE Append(members, [name |-> name, data |-> data])

\* delete_member's.
Without(members, i) == RemoveAt(members, i)

-----------------------------------------------------------------------------
(***************************************************************************)
(* The steps of a command.                                                 *)
(***************************************************************************)
Exit(code) == run' = [Resting EXCEPT !.exit = code]
Die == Exit(1) /\ UNCHANGED <<files, archive>>
Go(phase) == run' = [run EXCEPT !.phase = phase]

Arguments(set) == UNION {[1 .. n -> set] : n \in 0 .. MaxArguments}

Invoke(op, args) ==
    /\ run.phase = "idle"
    /\ run' = [Resting EXCEPT !.phase = "load", !.op = op, !.args = args,
                              !.todo = args, !.before = archive]
    /\ UNCHANGED <<files, archive>>

\* The rest of the command once the archive is in memory.
Proceed(members) ==
    LET next == CASE run.op \in {"r", "d"} -> "update"
                  [] run.op = "x" -> "extract"
                  [] run.op = "t" -> "list"
        todo == IF run.op = "x" /\ run.args = << >>
                THEN [i \in DOMAIN members |-> members[i].name] ELSE run.todo
    IN  /\ ~ (run.op \in {"r", "d"} /\ run.args = << >>)
        /\ run' = [run EXCEPT !.phase = next, !.members = members, !.todo = todo]
        /\ UNCHANGED <<files, archive>>

Load ==
    /\ run.phase = "load"
    /\ \/ run.op = "r" /\ archive = NoFile /\ Proceed(<< >>)
       \/ Loadable(archive) /\ Proceed(archive.members)
       \/ /\ \/ run.op \in {"r", "d"} /\ run.args = << >>
             \/ ~ Loadable(archive) /\ ~ (run.op = "r" /\ archive = NoFile)
          /\ Die

List == run.phase = "list" /\ Exit(0) /\ UNCHANGED <<files, archive>>

\* replace_member: eight bytes of magic are all it asks of the file.
IsMember(data) == IF data = NoFile THEN FALSE ELSE data.magic

ReplaceMember ==
    /\ run.phase = "update" /\ run.op = "r" /\ run.todo # << >>
    /\ LET data == files[Head(run.todo)]
           members == Replaced(run.members, Base[Head(run.todo)], data)
       IN  \/ /\ IsMember(data) /\ Len(members) <= MaxMembers
              /\ run' = [run EXCEPT !.members = members, !.todo = Tail(@)]
              /\ UNCHANGED <<files, archive>>
           \/ ~ (IsMember(data) /\ Len(members) <= MaxMembers) /\ Die

DeleteMember ==
    /\ run.phase = "update" /\ run.op = "d" /\ run.todo # << >>
    /\ LET found == FindMember(run.members, Head(run.todo))
       IN  \/ /\ found # {}
              /\ run' = [run EXCEPT !.members = Without(@, Min(found)), !.todo = Tail(@)]
              /\ UNCHANGED <<files, archive>>
           \/ found = {} /\ Die

\* Defect: the file is created before the members are looked at.
OpenBeforeIndexing ==
    /\ run.phase = "update" /\ run.todo = << >>
    /\ archive' = [members |-> run.members, index |-> << >>, written |-> 0]
    /\ IF IndexBuilds(run.members) THEN Go("write") ELSE Exit(1)
    /\ UNCHANGED files

\* write_archive up to fopen, which empties the file; it can fail.
OpenArchive ==
    /\ run.phase = "update" /\ run.todo = << >>
    /\ \/ /\ IndexBuilds(run.members)
          /\ archive' = [members |-> run.members, index |-> IndexOf(run.members),
                         written |-> 0]
          /\ Go("write") /\ UNCHANGED files
       \/ Die

\* The rest of it.  Out of space, fwrite's result is ignored and fclose sees
\* the failure only if it has bytes left to write itself.
WritePart ==
    /\ run.phase = "write" /\ archive.written < Parts(archive)
    /\ \/ archive' = [archive EXCEPT !.written = @ + 1] /\ UNCHANGED <<files, run>>
       \/ Die
       \/ Exit(0) /\ UNCHANGED <<files, archive>>

CloseArchive ==
    /\ run.phase = "write" /\ archive.written = Parts(archive)
    /\ Exit(0) /\ UNCHANGED <<files, archive>>

\* Defect: a name that is no member's is passed over.
ExtractOrSkip ==
    /\ run.phase = "extract"
    /\ \/ run.todo = << >> /\ Exit(0) /\ UNCHANGED <<files, archive>>
       \/ /\ run.todo # << >>
          /\ \/ \E i \in FindMember(run.members, Head(run.todo)) :
                    files' = [files EXCEPT ![Head(run.todo)] = run.members[i].data]
             \/ FindMember(run.members, Head(run.todo)) = {} /\ UNCHANGED files
          /\ run' = [run EXCEPT !.todo = Tail(@)] /\ UNCHANGED archive

\* extract_member, in the current directory and over what is there.  It does
\* not look at fclose: what was still buffered may be missing afterwards.
ExtractMember ==
    /\ run.phase = "extract"
    /\ \/ run.todo = << >> /\ Exit(0) /\ UNCHANGED <<files, archive>>
       \/ /\ run.todo # << >>
          /\ \E i \in FindMember(run.members, Head(run.todo)) :
                \E data \in {run.members[i].data, Torn} :
                   files' = [files EXCEPT ![Head(run.todo)] = data]
          /\ run' = [run EXCEPT !.todo = Tail(@)]
          /\ UNCHANGED archive
       \/ run.todo # << >> /\ Die

-----------------------------------------------------------------------------
(***************************************************************************)
(* The environment.                                                        *)
(***************************************************************************)
Compile(path, object) ==
    /\ run.phase = "idle"
    /\ files' = [files EXCEPT ![path] = object]
    /\ UNCHANGED <<archive, run>>

\* A kill, or the loss of power, between two steps; a file being extracted
\* is left torn.
Kill ==
    /\ run.phase # "idle"
    /\ Exit(137)
    /\ \/ UNCHANGED <<files, archive>>
       \/ /\ run.phase = "extract" /\ run.todo # << >>
          /\ FindMember(run.members, Head(run.todo)) # {}
          /\ files' = [files EXCEPT ![Head(run.todo)] = Torn]
          /\ UNCHANGED archive

Next ==
    \/ \E args \in Arguments(Paths) : Invoke("r", args)
    \/ \E args \in Arguments(MemberNames), op \in {"d", "x"} : Invoke(op, args)
    \/ Invoke("t", << >>)
    \/ Load \/ List \/ ReplaceMember \/ DeleteMember
    \/ OpenArchive \/ WritePart \/ CloseArchive \/ ExtractMember
    \/ \E path \in Paths, object \in Objects : Compile(path, object)
    \/ Kill

Spec == Init /\ [][Next]_vars

-----------------------------------------------------------------------------
(***************************************************************************)
(* Properties.                                                             *)
(***************************************************************************)
\* Whatever an interrupted write left, a command that gets past load_archive
\* works on a whole archive: a file cut short is refused, never read as an
\* archive of fewer members or of members cut short.
OnlyWholeArchivesLoad ==
    [][run.phase = "load" /\ run'.phase \in {"update", "extract", "list"} =>
          \/ archive = NoFile /\ run'.members = << >>
          \/ Complete(archive) /\ run'.members = archive.members]_vars

\* In a whole archive member names are unique, and the index lists for every
\* member that t32-nm accepts exactly the symbols t32-nm shows as global and
\* defined.
IndexIsExact ==
    Complete(archive) =>
       /\ \A i, j \in DOMAIN archive.members :
             archive.members[i].name = archive.members[j].name => i = j
       /\ \A i \in DOMAIN archive.members :
             LET o == archive.members[i].data
                 indexed == {e \in ToSet(archive.index) : e.member = i - 1}
             IN  Valid(o) =>
                    {e.name : e \in indexed} =
                    {s.name : s \in {l \in Listing(o) :
                                 l.letter.capital /\ l.letter.class # "U"}}

\* What the command asked for: for r, every named object under its base name,
\* the last one where two paths share it, and the other members as they were.
Wanted(old, name) ==
    LET named == {i \in DOMAIN run.args : Base[run.args[i]] = name}
    IN  IF run.op = "r" /\ named # {} THEN {files[run.args[Max(named)]]}
        ELSE IF run.op = "d" /\ named # {} THEN {}
        ELSE {m.data : m \in {n \in old : n.name = name}}

IsUpdate(a) ==
    \A name \in MemberNames :
        {m.data : m \in {n \in ToSet(a.members) : n.name = name}} =
        Wanted(IF IsArchive(run.before) THEN ToSet(run.before.members) ELSE {}, name)

\* A command that ends, however it ends, leaves the archive as it found it,
\* or torn, or completely updated; if it reports success the archive is not
\* the old one, and a refusal never reaches the file.
UpdateIsWhole ==
    [][run.phase # "idle" /\ run'.phase = "idle" =>
          /\ archive = run.before \/ ~ Complete(archive) \/ IsUpdate(archive)
          /\ run'.exit = 0 /\ run.op \in {"r", "d"} /\ Complete(archive) =>
                IsUpdate(archive)
          /\ run'.exit = 1 /\ run.phase # "write" => archive' = run.before]_vars

\* When t32-ar x reports success every name it was given is a member's, and
\* the file of each requested member, or of every member when none was named,
\* holds that member or a part of it that a full disk cut short.
ExtractedIsArchived ==
    [][run.phase = "extract" /\ run'.exit = 0 /\ run'.phase = "idle" =>
          /\ ToSet(run.args) \subseteq {m.name : m \in ToSet(archive.members)}
          /\ \A m \in ToSet(archive.members) :
                run.args = << >> \/ m.name \in ToSet(run.args) =>
                   files[m.name] \in {m.data, Torn}]_vars
=============================================================================
