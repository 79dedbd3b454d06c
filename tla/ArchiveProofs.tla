---------------------------- MODULE ArchiveProofs ----------------------------
(***************************************************************************)
(* For any objects, names and limits, and for a write stopped anywhere: no *)
(* command of t32-ar works on an archive of which a part is missing.       *)
(***************************************************************************)
EXTENDS T32Ar, NumberFacts, TLAPS

Member == [name : Paths, data : Contents]
Operations == {"r", "d", "x", "t"}
SomeFile == Contents \cup {NoFile}

\* What a command reads and carries: paths, files and a table of members.
RunTyped ==
    /\ files \in [Paths -> SomeFile]
    /\ run.todo \in Seq(Paths) /\ run.args \in Seq(Paths)
    /\ run.members \in Seq(Member)
    /\ run.op \in Operations /\ DOMAIN run = DOMAIN Resting

\* An archive file, however much of it is there, was being written from a
\* table of members, and never holds more parts than they make.
Sound(a) ==
    /\ DOMAIN a = {"members", "index", "written"}
    /\ a.members \in Seq(Member)
    /\ a.written \in 0 .. Parts(a)

ArchiveSound == IsArchive(archive) \/ run.phase = "write" => Sound(archive)

\* The inductive invariant.  The bound on written is what the property needs:
\* load_archive finds every part of the members inside the file.
ArIInv == RunTyped /\ ArchiveSound
-----------------------------------------------------------------------------
(***************************************************************************)
(* The table of members.                                                   *)
(***************************************************************************)
\* Min of a set of places is one of them.
LEMMA FirstPlace ==
    ASSUME NEW S, S \subseteq Nat, S # {}
    PROVE  Min(S) \in S
BY LeastNumber DEF Min

\* Replacing or adding a member leaves a table of members.
LEMMA ReplacedTyped ==
    ASSUME NEW members \in Seq(Member), NEW name \in Paths, NEW data \in Contents
    PROVE  Replaced(members, name, data) \in Seq(Member)
<1> DEFINE at == Min(FindMember(members, name))
<1>1. CASE FindMember(members, name) # {}
  <2>1. members \in [1 .. Len(members) -> Member] /\ Len(members) \in Nat
    OBVIOUS
  <2> HIDE DEF at
  <2>2. ASSUME NEW i \in 1 .. Len(members)
        PROVE  [members EXCEPT ![at].data = data][i] \in Member
    <3>1. members[i] \in Member
      BY <2>1
    <3>2. [members[i] EXCEPT !.data = data] \in Member
      BY <3>1 DEF Member
    <3>3. [members EXCEPT ![at].data = data][i] =
            IF i = at THEN [members[i] EXCEPT !.data = data] ELSE members[i]
      BY <2>1
    <3> QED BY <3>1, <3>2, <3>3
  <2>3. [members EXCEPT ![at].data = data] \in [1 .. Len(members) -> Member]
    BY <2>1, <2>2
  <2>4. [members EXCEPT ![at].data = data] \in Seq(Member)
    BY <2>1, <2>3
  <2> QED BY <1>1, <2>4 DEF Replaced, at
<1>2. CASE FindMember(members, name) = {}
  <2>1. [name |-> name, data |-> data] \in Member
    BY DEF Member
  <2> QED BY <1>2, <2>1 DEF Replaced
<1> QED BY <1>1, <1>2

\* Deleting one does.
LEMMA WithoutTyped ==
    ASSUME NEW members \in Seq(Member), NEW i \in DOMAIN members
    PROVE  Without(members, i) \in Seq(Member)
BY DEF Without, RemoveAt

\* A place that find_member returns is one of the table's.
LEMMA FoundInside ==
    ASSUME NEW members \in Seq(Member), NEW name, FindMember(members, name) # {}
    PROVE  Min(FindMember(members, name)) \in DOMAIN members
<1>1. FindMember(members, name) \subseteq Nat
  BY DEF FindMember
<1>2. Min(FindMember(members, name)) \in FindMember(members, name)
  BY <1>1, FirstPlace
<1> QED BY <1>2 DEF FindMember

\* What load_archive asks of a file is that no part is missing.
LEMMA LoadableIsComplete ==
    ASSUME ArchiveSound, Loadable(archive)
    PROVE  Complete(archive)
<1>1. /\ IsArchive(archive) /\ archive.members \in Seq(Member)
      /\ archive.written \in 0 .. Parts(archive)
      /\ FixedParts <= archive.written
      /\ \A i \in 1 .. Len(archive.members) : FixedParts + i <= archive.written
  BY DEF Loadable, ArchiveSound, Sound
<1>2. Len(archive.members) \in Nat
  BY <1>1
<1>3. CASE Len(archive.members) = 0
  BY <1>1, <1>3 DEF Complete, Parts, FixedParts
<1>4. CASE Len(archive.members) # 0
  <2>1. Len(archive.members) \in 1 .. Len(archive.members)
    BY <1>2, <1>4
  <2> QED BY <1>1, <1>2, <2>1 DEF Complete, Parts, FixedParts
<1> QED BY <1>3, <1>4

-----------------------------------------------------------------------------
(***************************************************************************)
(* The steps.                                                              *)
(***************************************************************************)
\* No command has run.
LEMMA InitArIInv == Init => ArIInv
BY DEF Init, Resting, Operations, ArIInv, RunTyped, ArchiveSound, IsArchive, SomeFile

\* The paths of a command line.
LEMMA ArgumentsTyped ==
    ASSUME NEW set, set \subseteq Paths, NEW args \in Arguments(set)
    PROVE  args \in Seq(Paths)
BY ArAssumption DEF Arguments

\* A step that is not one of the write leaves a sound file sound.
LEMMA StaysSound ==
    ASSUME ArchiveSound, UNCHANGED archive, run'.phase # "write" \/ run.phase = "write"
    PROVE  ArchiveSound'
BY DEF ArchiveSound, IsArchive, Sound, Parts

\* A process that ends leaves the archive to the next.
LEMMA ExitIInv ==
    ASSUME ArIInv, UNCHANGED archive, files' \in [Paths -> SomeFile],
           NEW code, Exit(code)
    PROVE  ArIInv'
<1>1. RunTyped' /\ run'.phase = "idle"
  BY DEF Exit, Resting, Operations, ArIInv, RunTyped
<1> QED BY <1>1, StaysSound DEF ArIInv

\* A command starts with its names.
LEMMA InvokeIInv ==
    ASSUME ArIInv, NEW op \in Operations, NEW args \in Seq(Paths), Invoke(op, args)
    PROVE  ArIInv'
<1>1. RunTyped' /\ run'.phase # "write" /\ UNCHANGED archive
  BY DEF Invoke, Resting, ArIInv, RunTyped
<1> QED BY <1>1, StaysSound DEF ArIInv

\* The archive is taken into memory, or the command is refused.
LEMMA LoadIInv ==
    ASSUME ArIInv, Load
    PROVE  ArIInv'
<1>1. ASSUME NEW members \in Seq(Member), Proceed(members) PROVE ArIInv'
  <2>1. [i \in DOMAIN members |-> members[i].name] \in Seq(Paths)
    <3>1. /\ DOMAIN members = 1 .. Len(members) /\ Len(members) \in Nat
          /\ \A i \in 1 .. Len(members) : members[i] \in Member
      OBVIOUS
    <3>2. \A i \in 1 .. Len(members) : members[i].name \in Paths
      BY <3>1 DEF Member
    <3> QED BY <3>1, <3>2
  <2>2. RunTyped' /\ run'.phase # "write" /\ UNCHANGED archive
    BY <1>1, <2>1 DEF Proceed, Resting, Operations, ArIInv, RunTyped
  <2> QED BY <2>2, StaysSound DEF ArIInv
<1>2. CASE Die
  BY <1>2, ExitIInv DEF Die, ArIInv, RunTyped
<1>3. CASE Loadable(archive) /\ Proceed(archive.members)
  BY <1>1, <1>3 DEF Loadable, ArIInv, ArchiveSound, Sound
<1>4. << >> \in Seq(Member)
  OBVIOUS
<1> QED BY <1>1, <1>2, <1>3, <1>4 DEF Load

\* One member more, or another in its place.
LEMMA ReplaceMemberIInv ==
    ASSUME ArIInv, ReplaceMember
    PROVE  ArIInv'
<1> DEFINE data == files[Head(run.todo)]
           members == Replaced(run.members, Base[Head(run.todo)], data)
<1>1. Head(run.todo) \in Paths /\ Tail(run.todo) \in Seq(Paths)
  BY DEF ReplaceMember, ArIInv, RunTyped
<1>2. CASE /\ IsMember(data) /\ UNCHANGED <<files, archive>>
           /\ run' = [run EXCEPT !.members = members, !.todo = Tail(@)]
  <2>1. data \in Contents
    BY <1>1, <1>2 DEF IsMember, ArIInv, RunTyped, SomeFile
  <2>2. members \in Seq(Member)
    BY <1>1, <2>1, ReplacedTyped, ArAssumption DEF ArIInv, RunTyped
  <2> HIDE DEF members
  <2>3. RunTyped' /\ run'.phase = "update" /\ UNCHANGED archive
    BY <1>1, <1>2, <2>2 DEF ReplaceMember, Resting, ArIInv, RunTyped
  <2> QED BY <2>3, StaysSound DEF ArIInv
<1>3. CASE Die
  BY <1>3, ExitIInv DEF Die, ArIInv, RunTyped
<1> QED BY <1>2, <1>3 DEF ReplaceMember

\* One member less.
LEMMA DeleteMemberIInv ==
    ASSUME ArIInv, DeleteMember
    PROVE  ArIInv'
<1> DEFINE found == FindMember(run.members, Head(run.todo))
           members == Without(run.members, Min(found))
<1>1. CASE /\ found # {} /\ UNCHANGED <<files, archive>>
           /\ run' = [run EXCEPT !.members = members, !.todo = Tail(@)]
  <2>1. members \in Seq(Member)
    BY <1>1, FoundInside, WithoutTyped DEF ArIInv, RunTyped
  <2>2. Tail(run.todo) \in Seq(Paths)
    BY DEF DeleteMember, ArIInv, RunTyped
  <2> HIDE DEF members
  <2>3. RunTyped' /\ run'.phase = "update" /\ UNCHANGED archive
    BY <1>1, <2>1, <2>2 DEF DeleteMember, Resting, ArIInv, RunTyped
  <2> QED BY <2>3, StaysSound DEF ArIInv
<1>2. CASE Die
  BY <1>2, ExitIInv DEF Die, ArIInv, RunTyped
<1> QED BY <1>1, <1>2 DEF DeleteMember

\* The file is emptied and filled part by part, or stays short.
LEMMA WritingIInv ==
    ASSUME ArIInv, OpenArchive \/ WritePart \/ CloseArchive
    PROVE  ArIInv'
<1>1. CASE OpenArchive
  <2>1. CASE /\ Go("write") /\ UNCHANGED files
             /\ archive' = [members |-> run.members, index |-> IndexOf(run.members),
                            written |-> 0]
    <3>1. /\ archive'.members = run.members /\ archive'.written = 0
          /\ DOMAIN archive' = {"members", "index", "written"}
      BY <2>1
    <3>2. ArchiveSound'
      BY <3>1 DEF ArIInv, RunTyped, ArchiveSound, Sound, Parts, FixedParts
    <3>3. RunTyped'
      BY <2>1 DEF Go, Resting, ArIInv, RunTyped
    <3> QED BY <3>2, <3>3 DEF ArIInv
  <2>2. CASE Die
    BY <2>2, ExitIInv DEF Die, ArIInv, RunTyped
  <2> QED BY <1>1, <2>1, <2>2 DEF OpenArchive
<1>2. CASE WritePart
  <2>1. CASE archive' = [archive EXCEPT !.written = @ + 1] /\ UNCHANGED <<files, run>>
    <3>1. Sound(archive) /\ run.phase = "write" /\ archive.written < Parts(archive)
      BY <1>2 DEF WritePart, ArIInv, ArchiveSound
    <3>2. /\ DOMAIN archive' = DOMAIN archive /\ archive'.members = archive.members
          /\ archive'.written = archive.written + 1
      BY <2>1, <3>1 DEF Sound
    <3>3. Sound(archive)'
      BY <3>1, <3>2 DEF Sound, Parts, FixedParts
    <3> QED BY <2>1, <3>3 DEF ArIInv, RunTyped, ArchiveSound
  <2>2. CASE UNCHANGED <<files, archive>> /\ \E code : Exit(code)
    BY <2>2, ExitIInv DEF ArIInv, RunTyped
  <2> QED BY <1>2, <2>1, <2>2 DEF WritePart, Die
<1>3. CASE CloseArchive
  BY <1>3, ExitIInv DEF CloseArchive, ArIInv, RunTyped
<1> QED BY <1>1, <1>2, <1>3

\* The members asked for reach their files, whole or torn.
LEMMA ExtractMemberIInv ==
    ASSUME ArIInv, ExtractMember
    PROVE  ArIInv'
<1>1. CASE \E code : Exit(code) /\ UNCHANGED <<files, archive>>
  BY <1>1, ExitIInv DEF ArIInv, RunTyped
<1>2. CASE /\ run.todo # << >>
           /\ \E i \in FindMember(run.members, Head(run.todo)) :
                \E data \in {run.members[i].data, Torn} :
                   files' = [files EXCEPT ![Head(run.todo)] = data]
           /\ run' = [run EXCEPT !.todo = Tail(@)]
           /\ UNCHANGED archive
  <2>1. Head(run.todo) \in Paths /\ Tail(run.todo) \in Seq(Paths)
    BY <1>2 DEF ArIInv, RunTyped
  <2>2. \A i \in FindMember(run.members, Head(run.todo)) :
           run.members[i].data \in Contents
    <3>1. ASSUME NEW i \in DOMAIN run.members PROVE run.members[i].data \in Contents
      <4>1. run.members[i] \in Member
        BY DEF ArIInv, RunTyped
      <4> QED BY <4>1 DEF Member
    <3> QED BY <3>1 DEF FindMember
  <2>3. files' \in [Paths -> SomeFile]
    BY <1>2, <2>1, <2>2 DEF SomeFile, Contents, ArIInv, RunTyped
  <2>4. RunTyped' /\ run'.phase = "extract"
    BY <1>2, <2>1, <2>3 DEF ExtractMember, Resting, ArIInv, RunTyped
  <2> QED BY <1>2, <2>4, StaysSound DEF ArIInv
<1> QED BY <1>1, <1>2 DEF ExtractMember, Die

\* A compilation, a listing, a kill.
LEMMA OthersIInv ==
    ASSUME ArIInv,
           \/ List \/ Kill
           \/ \E path \in Paths, object \in Objects : Compile(path, object)
    PROVE  ArIInv'
<1>1. CASE List
  BY <1>1, ExitIInv DEF List, ArIInv, RunTyped
<1>2. CASE Kill
  <2>1. files' \in [Paths -> SomeFile]
    BY <1>2 DEF Kill, SomeFile, Contents, ArIInv, RunTyped
  <2> QED BY <1>2, <2>1, ExitIInv DEF Kill
<1>3. ASSUME NEW path \in Paths, NEW object \in Objects, Compile(path, object)
      PROVE  ArIInv'
  <2>1. RunTyped' /\ run'.phase = "idle"
    BY <1>3 DEF Compile, SomeFile, Contents, ArIInv, RunTyped
  <2> QED BY <1>3, <2>1, StaysSound DEF Compile, ArIInv
<1> QED BY <1>1, <1>2, <1>3

\* One step of a command or of its environment.
LEMMA NextArIInv == ArIInv /\ [Next]_vars => ArIInv'
<1> SUFFICES ASSUME ArIInv, [Next]_vars PROVE ArIInv'
  OBVIOUS
<1>1. CASE UNCHANGED vars
  <2>1. RunTyped' /\ UNCHANGED archive /\ run'.phase = run.phase
    BY <1>1 DEF vars, ArIInv, RunTyped
  <2> QED BY <2>1, StaysSound DEF ArIInv
<1>2. ASSUME NEW op \in Operations, NEW args, Invoke(op, args),
             args \in Arguments(Paths) \cup Arguments(MemberNames)
      PROVE  ArIInv'
  <2>1. MemberNames \subseteq Paths
    BY ArAssumption DEF MemberNames
  <2>2. args \in Seq(Paths)
    BY <1>2, <2>1, ArgumentsTyped
  <2> QED BY <1>2, <2>2, InvokeIInv
<1>3. CASE Invoke("t", << >>)
  <2>1. << >> \in Seq(Paths) /\ "t" \in Operations
    BY DEF Operations
  <2> QED BY <1>3, <2>1, InvokeIInv
<1> QED BY <1>1, <1>2, <1>3, LoadIInv, ReplaceMemberIInv, DeleteMemberIInv,
           WritingIInv, ExtractMemberIInv, OthersIInv DEF Next, Operations

-----------------------------------------------------------------------------
\* Whatever the objects and wherever the last write stopped, a command works
\* on a whole archive, or on a new one, or not at all.
THEOREM TornIsRefused == Spec => OnlyWholeArchivesLoad
<1> DEFINE Past == run.phase = "load" /\ run'.phase \in {"update", "extract", "list"}
           Whole == \/ archive = NoFile /\ run'.members = << >>
                    \/ Complete(archive) /\ run'.members = archive.members
<1>1. ASSUME ArIInv, [Next]_vars PROVE [Past => Whole]_vars
  <2> SUFFICES ASSUME Next, Past PROVE Whole
    BY <1>1
  <2>1. Load
    BY DEF Next, Invoke, Load, List, ReplaceMember, DeleteMember, OpenArchive,
           WritePart, CloseArchive, ExtractMember, Compile, Kill, Exit, Resting
  <2>2. ASSUME NEW members, Proceed(members) PROVE run'.members = members
    BY <1>1, <2>2 DEF Proceed, Resting, ArIInv, RunTyped
  <2>3. ~ Die
    BY DEF Die, Exit, Resting
  <2>4. \/ archive = NoFile /\ Proceed(<< >>)
        \/ Loadable(archive) /\ Proceed(archive.members)
    BY <2>1, <2>3 DEF Load
  <2> QED BY <1>1, <2>2, <2>4, LoadableIsComplete DEF ArIInv
<1> QED BY InitArIInv, NextArIInv, <1>1, PTL DEF Spec, OnlyWholeArchivesLoad

-----------------------------------------------------------------------------
(***************************************************************************)
(* The index, the update and the extraction.  More of what a command       *)
(* carries: whose names a member has, how far the command line is done.    *)
(***************************************************************************)
Distinct(members) ==
    \A i, j \in DOMAIN members : members[i].name = members[j].name => i = j

\* The table in memory has one member of a name, and so has an archive file,
\* whose index is that of its members.
Indexed ==
    /\ Distinct(run.members)
    /\ IsArchive(archive) \/ run.phase = "write" =>
          Distinct(archive.members) /\ archive.index = IndexOf(archive.members)

\* Which command is in which phase, on which names.
Ordered ==
    /\ run.phase \in {"idle", "load", "update", "extract", "list", "write"}
    /\ run.phase \in {"update", "write"} => run.op \in {"r", "d"}
    /\ run.phase = "extract" => run.op = "x"
    /\ run.phase = "list" => run.op = "t"
    /\ run.op = "d" => run.args \in Seq(MemberNames)

\* Nothing reaches the file before the write.
Untouched == run.phase \in {"load", "update", "extract", "list"} => archive = run.before

\* The names still to do are the last ones asked for.
LastOf(todo, goal) ==
    /\ Len(todo) <= Len(goal)
    /\ \A i \in DOMAIN todo : todo[i] = goal[Len(goal) - Len(todo) + i]
Goal == IF run.op = "x" /\ run.args = << >>
        THEN [i \in DOMAIN run.members |-> run.members[i].name] ELSE run.args
Done == Len(Goal) - Len(run.todo)

\* The contents a table has under a name, and those it has to have when the
\* first n names of the command line are done.
DataOf(members, name) == {m.data : m \in {k \in ToSet(members) : k.name = name}}
Old == IF IsArchive(run.before) THEN run.before.members ELSE << >>
NamedAmong(n, name) == {i \in 1 .. n : Base[run.args[i]] = name}
WantedAfter(n, name) ==
    IF run.op = "r" /\ NamedAmong(n, name) # {}
    THEN {files[run.args[Max(NamedAmong(n, name))]]}
    ELSE IF run.op = "d" /\ NamedAmong(n, name) # {} THEN {}
    ELSE DataOf(Old, name)

Updating ==
    /\ run.phase = "load" => run.todo = run.args
    /\ run.phase = "update" =>
          /\ LastOf(run.todo, run.args)
          /\ \A name \in MemberNames :
                DataOf(run.members, name) = WantedAfter(Done, name)
    /\ run.phase = "write" => IsUpdate(archive)

\* What t32-ar x has copied so far.
Extracting ==
    run.phase = "extract" =>
       /\ IsArchive(archive) /\ run.members = archive.members
       /\ LastOf(run.todo, Goal)
       /\ \A i \in 1 .. Done : \E j \in DOMAIN run.members :
             /\ run.members[j].name = Goal[i]
             /\ files[Goal[i]] \in {run.members[j].data, Torn}

CommandIInv ==
    ArIInv /\ Indexed /\ Ordered /\ Untouched /\ Updating /\ Extracting

-----------------------------------------------------------------------------
(***************************************************************************)
(* Sequences put together: the elements of a concatenation of sequences    *)
(* are theirs.                                                             *)
(***************************************************************************)
\* What ToSet says of a sequence and its places.
LEMMA ElementAt ==
    ASSUME NEW S, NEW s \in Seq(S)
    PROVE  /\ DOMAIN s = 1 .. Len(s) /\ Len(s) \in Nat
           /\ \A i \in 1 .. Len(s) : s[i] \in S /\ s[i] \in ToSet(s)
           /\ \A x \in ToSet(s) : \E i \in 1 .. Len(s) : x = s[i]
BY DEF ToSet

\* Two sequences one after the other, by places and by elements.
LEMMA ConcatPlaces ==
    ASSUME NEW S, NEW s \in Seq(S), NEW t \in Seq(S)
    PROVE  /\ s \o t \in Seq(S) /\ Len(s \o t) = Len(s) + Len(t)
           /\ \A i \in 1 .. Len(s) : (s \o t)[i] = s[i]
           /\ \A i \in 1 .. Len(t) : (s \o t)[Len(s) + i] = t[i]
OBVIOUS

LEMMA ConcatElements ==
    ASSUME NEW S, NEW s \in Seq(S), NEW t \in Seq(S)
    PROVE  s \o t \in Seq(S) /\ ToSet(s \o t) = ToSet(s) \cup ToSet(t)
<1>1. /\ s \o t \in Seq(S) /\ Len(s \o t) = Len(s) + Len(t)
      /\ \A i \in 1 .. Len(s) : (s \o t)[i] = s[i]
      /\ \A i \in 1 .. Len(t) : (s \o t)[Len(s) + i] = t[i]
  BY ConcatPlaces
<1>2. ASSUME NEW x \in ToSet(s \o t) PROVE x \in ToSet(s) \cup ToSet(t)
  <2>1. PICK i \in 1 .. Len(s \o t) : x = (s \o t)[i]
    BY <1>1, ElementAt
  <2>2. CASE i <= Len(s)
    BY <1>1, <2>1, <2>2, ElementAt
  <2>3. CASE i > Len(s)
    <3>1. i - Len(s) \in 1 .. Len(t) /\ i = Len(s) + (i - Len(s))
      BY <1>1, <2>1, <2>3, ElementAt
    <3>2. x = t[i - Len(s)]
      BY <1>1, <2>1, <3>1
    <3> QED BY <3>1, <3>2, ElementAt
  <2> QED BY <2>1, <2>2, <2>3, ElementAt
<1>3. ASSUME NEW x \in ToSet(s) PROVE x \in ToSet(s \o t)
  <2>1. PICK i \in 1 .. Len(s) : x = s[i]
    BY ElementAt
  <2>2. i \in 1 .. Len(s \o t) /\ (s \o t)[i] = x
    BY <1>1, <2>1, ElementAt
  <2> QED BY <1>1, <2>2, ElementAt
<1>4. ASSUME NEW x \in ToSet(t) PROVE x \in ToSet(s \o t)
  <2>1. PICK i \in 1 .. Len(t) : x = t[i]
    BY ElementAt
  <2>2. Len(s) + i \in 1 .. Len(s \o t) /\ (s \o t)[Len(s) + i] = x
    BY <1>1, <2>1, ElementAt
  <2> QED BY <1>1, <2>2, ElementAt
<1> QED BY <1>1, <1>2, <1>3, <1>4

\* One row of the recursion in FlattenSeq, and what it holds at each place.
Step(seqs, f, i) == IF i = 1 THEN seqs[i] ELSE f[i - 1] \o seqs[i]
UpTo(seqs, i) == UNION {ToSet(seqs[j]) : j \in 1 .. i}

\* The recursion has a solution as far as one looks.
LEMMA FlattenExists ==
    ASSUME NEW S, NEW seqs \in Seq(Seq(S)), NEW n \in 1 .. Len(seqs)
    PROVE  \E f : f = [i \in 1 .. n |-> Step(seqs, f, i)]
<1> DEFINE Has(m) == \E f : f = [i \in 1 .. m |-> Step(seqs, f, i)]
           Bad == {m \in 1 .. Len(seqs) : ~ Has(m)}
<1>1. Len(seqs) \in Nat
  OBVIOUS
<1>2. SUFFICES ASSUME Bad # {} PROVE FALSE
  OBVIOUS
<1>3. PICK m \in Bad : \A k \in Bad : m <= k
  <2>1. Bad \subseteq Nat
    OBVIOUS
  <2> HIDE DEF Bad
  <2> QED BY <1>2, <2>1, LeastNumber
<1>4. m # 1
  <2>1. [i \in 1 .. 1 |-> seqs[1]] =
          [i \in 1 .. 1 |-> Step(seqs, [j \in 1 .. 1 |-> seqs[1]], i)]
    BY DEF Step
  <2>2. Has(1)
    BY <2>1
  <2> HIDE DEF Has
  <2> QED BY <2>2
<1>5. m \in 1 .. Len(seqs) /\ m - 1 \in 1 .. Len(seqs) /\ ~ Has(m)
  BY <1>1, <1>4
<1>6. Has(m - 1)
  <2>1. ~ (m <= m - 1)
    BY <1>5
  <2> HIDE DEF Has
  <2> QED BY <1>3, <1>5, <2>1
<1>7. PICK f : f = [i \in 1 .. m - 1 |-> Step(seqs, f, i)]
  BY <1>6
<1> DEFINE g == [i \in 1 .. m |-> IF i = m THEN f[m - 1] \o seqs[m] ELSE f[i]]
<1>8. \A i \in 1 .. m : g[i] = Step(seqs, g, i)
  <2> SUFFICES ASSUME NEW i \in 1 .. m PROVE g[i] = Step(seqs, g, i)
    OBVIOUS
  <2>1. CASE i = m
    <3>1. m - 1 \in 1 .. m /\ m \in 1 .. m /\ m - 1 # m
      BY <1>4, <1>5
    <3>2. g[m - 1] = f[m - 1] /\ g[m] = f[m - 1] \o seqs[m]
      BY <3>1
    <3> HIDE DEF g
    <3> QED BY <1>4, <2>1, <3>2 DEF Step
  <2>2. CASE i # m
    <3>1. i \in 1 .. m - 1 /\ g[i] = f[i]
      BY <1>5, <2>2
    <3>2. f[i] = Step(seqs, f, i)
      BY <1>7, <3>1
    <3>3. i # 1 => g[i - 1] = f[i - 1]
      BY <1>5, <2>2, <3>1
    <3> QED BY <3>1, <3>2, <3>3 DEF Step
  <2> QED BY <2>1, <2>2
<1>9. g = [i \in 1 .. m |-> Step(seqs, g, i)]
  <2> DEFINE h == [i \in 1 .. m |-> Step(seqs, g, i)]
  <2>1. \A i \in 1 .. m : g[i] = h[i]
    BY <1>8
  <2>2. g = [i \in 1 .. m |-> g[i]]
    OBVIOUS
  <2> HIDE DEF g
  <2> QED BY <2>1, <2>2
<1>10. Has(m)
  <2> HIDE DEF g
  <2> QED BY <1>9
<1> HIDE DEF Has
<1> QED BY <1>5, <1>10

\* And every place of it holds the sequences in front of it.
LEMMA FlattenPlaces ==
    ASSUME NEW S, NEW seqs \in Seq(Seq(S)), NEW n \in 1 .. Len(seqs), NEW f,
           \A i \in 1 .. n : f[i] = Step(seqs, f, i)
    PROVE  f[n] \in Seq(S) /\ ToSet(f[n]) = UpTo(seqs, n)
<1> DEFINE Fine(m) == f[m] \in Seq(S) /\ ToSet(f[m]) = UpTo(seqs, m)
           Bad == {m \in 1 .. n : ~ Fine(m)}
<1>1. Len(seqs) \in Nat /\ n \in Nat
  OBVIOUS
<1>2. SUFFICES ASSUME Bad # {} PROVE FALSE
  <2> HIDE DEF Fine
  <2>1. n \in 1 .. n
    BY <1>1
  <2>2. Fine(n)
    BY <1>2, <2>1
  <2> QED BY <2>2 DEF Fine
<1>3. PICK m \in Bad : \A k \in Bad : m <= k
  <2>1. Bad \subseteq Nat
    OBVIOUS
  <2> HIDE DEF Bad
  <2> QED BY <1>2, <2>1, LeastNumber
<1>4. m \in 1 .. n /\ m \in 1 .. Len(seqs) /\ seqs[m] \in Seq(S) /\ ~ Fine(m)
  BY <1>1
<1>5. f[m] = Step(seqs, f, m)
  BY <1>4
<1>6. m # 1
  <2>1. f[1] = seqs[1]
    BY <1>1, <1>4 DEF Step
  <2>2. UpTo(seqs, 1) = ToSet(seqs[1])
    BY DEF UpTo
  <2> QED BY <1>4, <2>1, <2>2
<1>7. m - 1 \in 1 .. n /\ Fine(m - 1)
  <2>1. m - 1 \in 1 .. n /\ ~ (m <= m - 1)
    BY <1>4, <1>6
  <2> HIDE DEF Fine
  <2> QED BY <1>3, <2>1
<1>8. f[m] = f[m - 1] \o seqs[m]
  BY <1>5, <1>6 DEF Step
<1>9. UpTo(seqs, m) = UpTo(seqs, m - 1) \cup ToSet(seqs[m])
  <2>1. 1 .. m = (1 .. m - 1) \cup {m}
    BY <1>4
  <2> QED BY <2>1 DEF UpTo
<1> QED BY <1>4, <1>7, <1>8, <1>9, ConcatElements

\* FlattenSeq collects the elements of the sequences it puts together.
LEMMA FlattenElements ==
    ASSUME NEW S, NEW seqs \in Seq(Seq(S))
    PROVE  /\ FlattenSeq(seqs) \in Seq(S)
           /\ ToSet(FlattenSeq(seqs)) = UpTo(seqs, Len(seqs))
<1>1. CASE Len(seqs) = 0
  <2>1. seqs = << >>
    BY <1>1
  <2>2. FlattenSeq(seqs) = << >>
    BY <1>1, <2>1 DEF FlattenSeq
  <2>3. UpTo(seqs, Len(seqs)) = {}
    BY <1>1 DEF UpTo
  <2> QED BY <2>2, <2>3 DEF ToSet
<1>2. CASE Len(seqs) # 0
  <2> DEFINE f == CHOOSE f : f = [i \in 1 .. Len(seqs) |-> Step(seqs, f, i)]
  <2>1. Len(seqs) \in 1 .. Len(seqs)
    BY <1>2
  <2>2. f = [i \in 1 .. Len(seqs) |-> Step(seqs, f, i)]
    BY <2>1, FlattenExists
  <2>3. FlattenSeq(seqs) = f[Len(seqs)]
    BY <1>2 DEF FlattenSeq, Step
  <2> HIDE DEF f
  <2>4. \A i \in 1 .. Len(seqs) : f[i] = Step(seqs, f, i)
    BY <2>2
  <2> QED BY <2>1, <2>3, <2>4, FlattenPlaces
<1> QED BY <1>1, <1>2

-----------------------------------------------------------------------------
(***************************************************************************)
(* The index against the listing of t32-nm.                                *)
(***************************************************************************)
\* The loop over the symbols keeps those that are exported.
LEMMA ExportedElements ==
    ASSUME NEW S, NEW o, o.symbols \in Seq(S)
    PROVE  /\ ExportedSymbols(o) \in Seq(S)
           /\ \A x : x \in ToSet(ExportedSymbols(o)) <=>
                 \E i \in 2 .. Len(o.symbols) :
                    Exports(o.symbols[i]) /\ x = o.symbols[i]
<1> DEFINE last == Len(o.symbols)
           One(i) == IF Exports(o.symbols[i + 1]) THEN <<o.symbols[i + 1]>> ELSE << >>
           rows == [i \in 1 .. last - 1 |-> One(i)]
<1>1. last \in Nat /\ \A i \in 1 .. last : o.symbols[i] \in S
  OBVIOUS
<1>2. \A i \in 1 .. last - 1 : One(i) \in Seq(S)
  <2>1. \A i \in 1 .. last - 1 : o.symbols[i + 1] \in S
    BY <1>1
  <2> QED BY <2>1
<1> HIDE DEF One
<1>3. rows \in Seq(Seq(S)) /\ DOMAIN rows = 1 .. last - 1
  <2>1. \E n \in Nat : 1 .. last - 1 = 1 .. n
    <3>1. CASE last = 0
      BY <3>1
    <3>2. CASE last # 0
      <4>1. last - 1 \in Nat
        BY <1>1, <3>2
      <4> QED BY <4>1
    <3> QED BY <3>1, <3>2
  <2> QED BY <1>2, <2>1
<1>4. 1 .. Len(rows) = 1 .. last - 1
  <2> HIDE DEF rows
  <2> QED BY <1>3
<1>5. ExportedSymbols(o) = FlattenSeq(rows)
  BY DEF ExportedSymbols, One
<1>6. /\ ExportedSymbols(o) \in Seq(S)
      /\ ToSet(ExportedSymbols(o)) = UNION {ToSet(One(j)) : j \in 1 .. last - 1}
  <2>1. ToSet(FlattenSeq(rows)) = UNION {ToSet(rows[j]) : j \in 1 .. last - 1}
    BY <1>3, <1>4, FlattenElements DEF UpTo
  <2> QED BY <1>3, <1>5, <2>1, FlattenElements
<1>7. ASSUME NEW x, NEW j \in 1 .. last - 1
      PROVE  x \in ToSet(One(j)) <=> Exports(o.symbols[j + 1]) /\ x = o.symbols[j + 1]
  <2>1. ToSet(<< >>) = {} /\ ToSet(<<o.symbols[j + 1]>>) = {o.symbols[j + 1]}
    BY DEF ToSet
  <2> QED BY <2>1 DEF One
<1> HIDE DEF rows
<1>8. ASSUME NEW x
      PROVE  x \in ToSet(ExportedSymbols(o)) <=>
               \E i \in 2 .. last : Exports(o.symbols[i]) /\ x = o.symbols[i]
  <2>1. x \in ToSet(ExportedSymbols(o)) <=> \E j \in 1 .. last - 1 : x \in ToSet(One(j))
    BY <1>6
  <2>2. ASSUME NEW i \in 2 .. last
        PROVE  i - 1 \in 1 .. last - 1 /\ (i - 1) + 1 = i
    BY <1>1
  <2>3. ASSUME NEW j \in 1 .. last - 1
        PROVE  j + 1 \in 2 .. last
    BY <1>1
  <2> QED BY <1>7, <2>1, <2>2, <2>3
<1> QED BY <1>6, <1>8

\* Every entry of the index is an exported symbol of the member it names.
LEMMA IndexElements ==
    ASSUME NEW members \in Seq(Member)
    PROVE  \A e : e \in ToSet(IndexOf(members)) <=>
              \E i \in 1 .. Len(members) :
                 \E s \in ToSet(ExportedSymbols(members[i].data)) :
                    e = [name |-> s.name, member |-> i - 1]
<1> DEFINE rows == [i \in DOMAIN members |-> EntriesOf(members, i)]
           All == UNION {ToSet(EntriesOf(members, i)) : i \in 1 .. Len(members)}
<1>1. ASSUME NEW i \in 1 .. Len(members)
      PROVE  /\ EntriesOf(members, i) \in Seq(All)
             /\ \A e : e \in ToSet(EntriesOf(members, i)) <=>
                   \E s \in ToSet(ExportedSymbols(members[i].data)) :
                      e = [name |-> s.name, member |-> i - 1]
  <2> DEFINE o == members[i].data
             exported == ExportedSymbols(o)
             entries == EntriesOf(members, i)
  <2>1. o.symbols \in Seq(ToSet(o.symbols))
    <3>1. members[i] \in Member
      OBVIOUS
    <3> QED BY <3>1, ArAssumption DEF Member, Contents
  <2>2. exported \in Seq(ToSet(o.symbols))
    <3> HIDE DEF o
    <3> QED BY <2>1, ExportedElements
  <2>3. entries = [j \in DOMAIN exported |-> [name |-> exported[j].name, member |-> i - 1]]
    BY DEF EntriesOf
  <2> HIDE DEF exported
  <2>4. DOMAIN entries = 1 .. Len(exported) /\ Len(exported) \in Nat
    BY <2>2, <2>3
  <2>5. ASSUME NEW e
        PROVE  e \in ToSet(entries) <=> \E s \in ToSet(exported) :
                      e = [name |-> s.name, member |-> i - 1]
    BY <2>2, <2>3, <2>4 DEF ToSet
  <2>6. ToSet(entries) \subseteq All
    OBVIOUS
  <2>7. \A j \in 1 .. Len(exported) : entries[j] \in All
    BY <2>4, <2>6 DEF ToSet
  <2>8. entries = [j \in 1 .. Len(exported) |-> entries[j]]
    BY <2>3, <2>4
  <2> HIDE DEF entries, All
  <2>9. entries \in Seq(All)
    BY <2>4, <2>7, <2>8
  <2> QED BY <2>5, <2>9 DEF entries, exported
<1> HIDE DEF All
<1>2. rows \in Seq(Seq(All)) /\ Len(rows) = Len(members)
  BY <1>1
<1>3. ToSet(IndexOf(members)) = UpTo(rows, Len(members))
  BY <1>2, FlattenElements DEF IndexOf
<1>4. ASSUME NEW e
      PROVE  e \in ToSet(IndexOf(members)) <=>
               \E i \in 1 .. Len(members) : e \in ToSet(EntriesOf(members, i))
  <2>1. \A i \in 1 .. Len(members) : rows[i] = EntriesOf(members, i)
    OBVIOUS
  <2> HIDE DEF rows
  <2> QED BY <1>3, <2>1 DEF UpTo
<1> QED BY <1>1, <1>4

\* A symbol is exported exactly when t32-nm prints a capital letter for it
\* that is not U.
LEMMA ExportedIsListed ==
    ASSUME NEW o \in Contents, Valid(o)
    PROVE  {s.name : s \in ToSet(ExportedSymbols(o))} =
           {s.name : s \in {l \in Listing(o) :
                        l.letter.capital /\ l.letter.class # "U"}}
<1> DEFINE Shown(i) == SymbolLetter(o, o.symbols[i]).capital
                          /\ SymbolLetter(o, o.symbols[i]).class # "U"
<1>1. o.symbols \in Seq(ToSet(o.symbols))
  BY ArAssumption DEF Contents
<1>2. \A i \in 2 .. Len(o.symbols) : i \in DOMAIN o.symbols
  BY <1>1
<1>3. ASSUME NEW i \in 2 .. Len(o.symbols) PROVE Exports(o.symbols[i]) <=> Shown(i)
  <2>1. SoundSymbol(o, o.symbols[i])
    BY <1>2 DEF Valid
  <2>2. o.symbols[i].binding \in {0, 1}
    BY <2>1 DEF SoundSymbol
  <2>3. CASE o.symbols[i].section = 0
    BY <2>3 DEF SymbolLetter, Exports
  <2>4. CASE o.symbols[i].section # 0
    <3>1. SymbolLetter(o, o.symbols[i]).class # "U"
      BY <2>4 DEF SymbolLetter
    <3>2. SymbolLetter(o, o.symbols[i]).capital = (o.symbols[i].binding = 1)
      BY <2>4 DEF SymbolLetter
    <3> QED BY <2>2, <2>4, <3>1, <3>2 DEF Exports
  <2> QED BY <2>3, <2>4
<1>4. \A n : n \in {s.name : s \in ToSet(ExportedSymbols(o))} <=>
             \E i \in 2 .. Len(o.symbols) : Exports(o.symbols[i]) /\ n = o.symbols[i].name
  BY <1>1, ExportedElements
<1>5. \A n : n \in {s.name : s \in {l \in Listing(o) :
                       l.letter.capital /\ l.letter.class # "U"}} <=>
             \E i \in 2 .. Len(o.symbols) : Shown(i) /\ n = o.symbols[i].name
  <2> HIDE DEF Shown
  <2>1. \A l : l \in Listing(o) <=>
               \E i \in 2 .. Len(o.symbols) :
                  l = [name |-> o.symbols[i].name, letter |-> SymbolLetter(o, o.symbols[i])]
    BY DEF Listing
  <2> DEFINE Row(i) == [name |-> o.symbols[i].name,
                        letter |-> SymbolLetter(o, o.symbols[i])]
  <2>2. \A i \in 2 .. Len(o.symbols) :
           /\ Row(i).name = o.symbols[i].name
           /\ Shown(i) <=> Row(i).letter.capital /\ Row(i).letter.class # "U"
    BY DEF Shown
  <2>3. \A l : l \in Listing(o) <=> \E i \in 2 .. Len(o.symbols) : l = Row(i)
    BY <2>1
  <2> HIDE DEF Row
  <2> QED BY <2>2, <2>3
<1> HIDE DEF Shown
<1> QED BY <1>3, <1>4, <1>5

-----------------------------------------------------------------------------
(***************************************************************************)
(* The table of members, by names.                                         *)
(***************************************************************************)
\* What DataOf says of the places of a table.
LEMMA DataAt ==
    ASSUME NEW members \in Seq(Member), NEW name
    PROVE  \A x : x \in DataOf(members, name) <=>
              \E i \in 1 .. Len(members) : members[i].name = name /\ x = members[i].data
BY DEF DataOf, ToSet

\* Replacing gives the name the data, and no other name any.
LEMMA ReplacedTable ==
    ASSUME NEW members \in Seq(Member), NEW name \in Paths, NEW data \in Contents,
           Distinct(members)
    PROVE  LET new == Replaced(members, name, data)
           IN  /\ Distinct(new) /\ DataOf(new, name) = {data}
               /\ \A other : other # name => DataOf(new, other) = DataOf(members, other)
<1> DEFINE new == Replaced(members, name, data)
           at == Min(FindMember(members, name))
<1>0. new \in Seq(Member) /\ Len(members) \in Nat /\ DOMAIN members = 1 .. Len(members)
  BY ReplacedTyped
<1>1. CASE FindMember(members, name) # {}
  <2>1. at \in 1 .. Len(members) /\ members[at].name = name
    <3>1. FindMember(members, name) \subseteq Nat
      BY DEF FindMember
    <3>2. at \in FindMember(members, name)
      BY <1>1, <3>1, FirstPlace
    <3> QED BY <3>2 DEF FindMember
  <2>2. new = [members EXCEPT ![at].data = data]
    BY <1>1 DEF Replaced
  <2> HIDE DEF at
  <2>3. Len(new) = Len(members) /\ DOMAIN new = DOMAIN members
    BY <2>2
  <2>4. ASSUME NEW i \in 1 .. Len(members)
        PROVE  /\ new[i].name = members[i].name
               /\ new[i].data = IF i = at THEN data ELSE members[i].data
    <3>1. members[i] \in Member
      OBVIOUS
    <3>2. new[i] = IF i = at THEN [members[i] EXCEPT !.data = data] ELSE members[i]
      BY <2>2
    <3> QED BY <3>1, <3>2 DEF Member
  <2> HIDE DEF new
  <2>5. Distinct(new)
    BY <1>0, <2>3, <2>4 DEF Distinct
  <2>6. \A i \in 1 .. Len(members) : members[i].name = name => i = at
    BY <1>0, <2>1 DEF Distinct
  <2>7. \A x : x \in DataOf(new, name) <=> x = data
    BY <1>0, <2>1, <2>3, <2>4, <2>6, DataAt
  <2>8. ASSUME NEW other, other # name
        PROVE  DataOf(new, other) = DataOf(members, other)
    <3>1. \A x : x \in DataOf(new, other) <=> x \in DataOf(members, other)
      BY <1>0, <2>1, <2>3, <2>4, <2>8, DataAt
    <3>2. \A x \in DataOf(new, other) : x \in DataOf(members, other)
      BY <3>1
    <3> QED BY <3>1 DEF DataOf
  <2> QED BY <2>5, <2>7, <2>8 DEF new
<1>2. CASE FindMember(members, name) = {}
  <2> DEFINE added == [name |-> name, data |-> data]
  <2>1. new = Append(members, added)
    BY <1>2 DEF Replaced
  <2>2. /\ Len(new) = Len(members) + 1 /\ new[Len(members) + 1] = added
        /\ \A i \in 1 .. Len(members) : new[i] = members[i]
        /\ DOMAIN new = 1 .. Len(members) + 1
    BY <1>0, <2>1
  <2>3. \A i \in 1 .. Len(members) : members[i].name # name
    BY <1>2 DEF FindMember
  <2> HIDE DEF new
  <2>4. added.name = name /\ added.data = data
    OBVIOUS
  <2> HIDE DEF added
  <2>5. Distinct(new)
    BY <1>0, <2>2, <2>3, <2>4 DEF Distinct
  <2>6. \A x : x \in DataOf(new, name) <=> x = data
    BY <1>0, <2>2, <2>3, <2>4, DataAt
  <2>7. ASSUME NEW other, other # name
        PROVE  DataOf(new, other) = DataOf(members, other)
    <3>1. \A x : x \in DataOf(new, other) <=> x \in DataOf(members, other)
      BY <1>0, <2>2, <2>4, <2>7, DataAt
    <3> QED BY <3>1 DEF DataOf
  <2> QED BY <2>5, <2>6, <2>7 DEF new
<1> QED BY <1>1, <1>2

\* Deleting a member leaves its name without data, and every other as it was.
LEMMA WithoutTable ==
    ASSUME NEW members \in Seq(Member), NEW i \in DOMAIN members, Distinct(members)
    PROVE  LET new == Without(members, i)
           IN  /\ Distinct(new) /\ DataOf(new, members[i].name) = {}
               /\ \A other : other # members[i].name =>
                     DataOf(new, other) = DataOf(members, other)
<1> DEFINE new == Without(members, i)
           last == Len(members)
<1>0. /\ new \in Seq(Member) /\ last \in Nat /\ DOMAIN members = 1 .. last
      /\ i \in 1 .. last
  BY WithoutTyped
<1>1. /\ Len(new) = last - 1
      /\ \A k \in 1 .. last - 1 : new[k] = IF k < i THEN members[k] ELSE members[k + 1]
  <2> DEFINE front == SubSeq(members, 1, i - 1)
             back == SubSeq(members, i + 1, last)
  <2>1. /\ front \in Seq(Member) /\ Len(front) = i - 1
        /\ \A k \in 1 .. i - 1 : front[k] = members[k]
    BY <1>0
  <2>2. /\ back \in Seq(Member) /\ Len(back) = last - i
        /\ \A k \in 1 .. last - i : back[k] = members[i + k]
    BY <1>0
  <2>3. new = front \o back
    BY DEF Without, RemoveAt
  <2> HIDE DEF front, back, new
  <2>4. Len(new) = last - 1
    <3>1. Len(front \o back) = Len(front) + Len(back)
      BY <2>1, <2>2, ConcatPlaces
    <3>2. i \in Int
      BY <1>0
    <3> QED BY <1>0, <2>1, <2>2, <2>3, <3>1, <3>2
  <2>5. ASSUME NEW k \in 1 .. last - 1
        PROVE  new[k] = IF k < i THEN members[k] ELSE members[k + 1]
    <3>1. CASE k < i
      <4>1. k \in 1 .. i - 1
        BY <1>0, <3>1
      <4>2. (front \o back)[k] = front[k]
        BY <2>1, <2>2, <4>1, ConcatPlaces
      <4> QED BY <2>1, <2>3, <3>1, <4>1, <4>2
    <3>2. CASE k >= i
      <4>1. /\ new[k] = back[k - (i - 1)] /\ k - (i - 1) \in 1 .. last - i
            /\ i + (k - (i - 1)) = k + 1
        BY <1>0, <2>1, <2>2, <2>3, <3>2
      <4>2. back[k - (i - 1)] = members[k + 1]
        BY <2>2, <4>1
      <4> QED BY <1>0, <3>2, <4>1, <4>2
    <3> QED BY <1>0, <3>1, <3>2
  <2> QED BY <2>4, <2>5
<1>2. DOMAIN new = 1 .. last - 1
  BY <1>0, <1>1
<1> HIDE DEF new
<1>3. Distinct(new)
  <2> SUFFICES ASSUME NEW j \in 1 .. last - 1, NEW k \in 1 .. last - 1,
                      new[j].name = new[k].name
               PROVE  j = k
    BY <1>2 DEF Distinct
  <2> DEFINE From(x) == IF x < i THEN x ELSE x + 1
  <2>1. From(j) \in 1 .. last /\ From(k) \in 1 .. last
    BY <1>0
  <2>2. members[From(j)].name = members[From(k)].name
    BY <1>1
  <2>3. From(j) = From(k)
    <3> HIDE DEF From
    <3> QED BY <1>0, <2>1, <2>2 DEF Distinct
  <2> QED BY <1>0, <2>3
<1>4. \A x : ~ x \in DataOf(new, members[i].name)
  <2> SUFFICES ASSUME NEW k \in 1 .. last - 1, new[k].name = members[i].name
               PROVE  FALSE
    BY <1>0, <1>1, DataAt
  <2> DEFINE from == IF k < i THEN k ELSE k + 1
  <2>1. from \in 1 .. last /\ from # i /\ new[k] = members[from]
    BY <1>0, <1>1
  <2> HIDE DEF from
  <2> QED BY <1>0, <2>1 DEF Distinct
<1>5. ASSUME NEW other, other # members[i].name
      PROVE  DataOf(new, other) = DataOf(members, other)
  <2>1. ASSUME NEW x, x \in DataOf(new, other) PROVE x \in DataOf(members, other)
    <3>1. PICK k \in 1 .. last - 1 : new[k].name = other /\ x = new[k].data
      BY <1>0, <1>1, <2>1, DataAt
    <3> DEFINE from == IF k < i THEN k ELSE k + 1
    <3>2. from \in 1 .. last /\ new[k] = members[from]
      BY <1>0, <1>1
    <3> HIDE DEF from
    <3> QED BY <3>1, <3>2, DataAt
  <2>2. ASSUME NEW x, x \in DataOf(members, other) PROVE x \in DataOf(new, other)
    <3>1. PICK k \in 1 .. last : members[k].name = other /\ x = members[k].data
      BY <2>2, DataAt
    <3>2. k # i
      BY <1>5, <3>1
    <3> DEFINE to == IF k < i THEN k ELSE k - 1
    <3>3. to \in 1 .. last - 1 /\ new[to] = members[k]
      BY <1>0, <1>1, <3>2
    <3> HIDE DEF to
    <3> QED BY <1>0, <1>1, <3>1, <3>3, DataAt
  <2> QED BY <2>1, <2>2
<1> QED BY <1>3, <1>4, <1>5 DEF new

-----------------------------------------------------------------------------
(***************************************************************************)
(* The command line, one name further.                                     *)
(***************************************************************************)
\* The largest of a set of places, when one knows it.
LEMMA MaxIs ==
    ASSUME NEW S, S \subseteq Nat, NEW x \in S, \A y \in S : y <= x
    PROVE  Max(S) = x
<1>1. \A y \in S : x >= y
  OBVIOUS
<1>2. \A z \in S : (\A y \in S : z >= y) => z = x
  OBVIOUS
<1> QED BY <1>1, <1>2 DEF Max

\* What is wanted after one name more.
LEMMA WantedNext ==
    ASSUME RunTyped, NEW n \in 0 .. Len(run.args) - 1, NEW name
    PROVE  /\ run.op = "r" => WantedAfter(n + 1, name) =
                 IF Base[run.args[n + 1]] = name THEN {files[run.args[n + 1]]}
                                                 ELSE WantedAfter(n, name)
           /\ run.op = "d" => WantedAfter(n + 1, name) =
                 IF Base[run.args[n + 1]] = name THEN {} ELSE WantedAfter(n, name)
<1>1. n \in Nat /\ 1 .. n + 1 = (1 .. n) \cup {n + 1}
  BY DEF RunTyped
<1>2. CASE Base[run.args[n + 1]] = name
  <2>1. n + 1 \in NamedAmong(n + 1, name)
    BY <1>1, <1>2 DEF NamedAmong
  <2>2. Max(NamedAmong(n + 1, name)) = n + 1
    <3>1. NamedAmong(n + 1, name) \subseteq Nat
      BY DEF NamedAmong
    <3>2. \A y \in NamedAmong(n + 1, name) : y <= n + 1
      BY <1>1 DEF NamedAmong
    <3> QED BY <2>1, <3>1, <3>2, MaxIs
  <2> QED BY <1>2, <2>1, <2>2 DEF WantedAfter
<1>3. CASE Base[run.args[n + 1]] # name
  <2>1. NamedAmong(n + 1, name) = NamedAmong(n, name)
    BY <1>1, <1>3 DEF NamedAmong
  <2> QED BY <1>3, <2>1 DEF WantedAfter
<1> QED BY <1>2, <1>3

\* After all of them it is what IsUpdate asks of the archive.
LEMMA AllWanted ==
    ASSUME RunTyped, NEW a,
           \A name \in MemberNames :
              DataOf(a.members, name) = WantedAfter(Len(run.args), name)
    PROVE  IsUpdate(a)
<1> SUFFICES ASSUME NEW name \in MemberNames
             PROVE  {m.data : m \in {n \in ToSet(a.members) : n.name = name}} =
                    Wanted(IF IsArchive(run.before) THEN ToSet(run.before.members)
                                                    ELSE {}, name)
  BY DEF IsUpdate
<1>1. DOMAIN run.args = 1 .. Len(run.args)
  BY DEF RunTyped
<1>2. {i \in DOMAIN run.args : Base[run.args[i]] = name}
        = NamedAmong(Len(run.args), name)
  BY <1>1 DEF NamedAmong
<1>3. ToSet(Old) = IF IsArchive(run.before) THEN ToSet(run.before.members) ELSE {}
  BY DEF Old, ToSet
<1>4. Wanted(ToSet(Old), name) = WantedAfter(Len(run.args), name)
  BY <1>2 DEF Wanted, WantedAfter, DataOf
<1> QED BY <1>3, <1>4 DEF DataOf

\* It stays so as long as the command and the objects stay.
LEMMA StaysUpdate ==
    ASSUME NEW a, IsUpdate(a), archive'.members = a.members, UNCHANGED files,
           run'.op = run.op, run'.args = run.args, run'.before = run.before
    PROVE  IsUpdate(archive)'
<1> DEFINE old == IF IsArchive(run.before) THEN ToSet(run.before.members) ELSE {}
<1>1. old' = old
  BY DEF IsArchive, ToSet
<1>2. ASSUME NEW name PROVE Wanted(old, name)' = Wanted(old, name)
  <2> HIDE DEF old
  <2> QED BY <1>1 DEF Wanted
<1>3. ASSUME NEW name \in MemberNames
      PROVE  {m.data : m \in {n \in ToSet(a.members) : n.name = name}} =
             Wanted(old, name)
  BY DEF IsUpdate
<1>4. ToSet(archive.members)' = ToSet(a.members)
  BY DEF ToSet
<1>5. ASSUME NEW name \in MemberNames
      PROVE  ({m.data : m \in {n \in ToSet(archive.members) : n.name = name}} =
              Wanted(old, name))'
  <2> HIDE DEF old
  <2> QED BY <1>2, <1>3, <1>4
<1> QED BY <1>5 DEF IsUpdate

\* The name in hand is the next one, and taking it leaves the last ones.
LEMMA NextName ==
    ASSUME NEW S, NEW goal \in Seq(S), NEW todo \in Seq(S), LastOf(todo, goal),
           todo # << >>
    PROVE  LET done == Len(goal) - Len(todo)
           IN  /\ done \in 0 .. Len(goal) - 1 /\ Head(todo) = goal[done + 1]
               /\ LastOf(Tail(todo), goal) /\ Len(goal) - Len(Tail(todo)) = done + 1
<1>1. /\ Len(todo) \in Nat \ {0} /\ Len(goal) \in Nat /\ Len(todo) <= Len(goal)
      /\ Len(Tail(todo)) = Len(todo) - 1 /\ Head(todo) = todo[1]
      /\ DOMAIN todo = 1 .. Len(todo) /\ DOMAIN Tail(todo) = 1 .. Len(todo) - 1
  BY DEF LastOf
<1>2. \A i \in 1 .. Len(todo) - 1 : Tail(todo)[i] = todo[i + 1]
  OBVIOUS
<1>3. \A i \in 1 .. Len(todo) : todo[i] = goal[Len(goal) - Len(todo) + i]
  BY <1>1 DEF LastOf
<1>4. todo[1] = goal[Len(goal) - Len(todo) + 1]
  BY <1>1, <1>3
<1>5. ASSUME NEW i \in 1 .. Len(todo) - 1
      PROVE  Tail(todo)[i] = goal[Len(goal) - (Len(todo) - 1) + i]
  <2>1. /\ i + 1 \in 1 .. Len(todo)
        /\ Len(goal) - (Len(todo) - 1) + i = Len(goal) - Len(todo) + (i + 1)
    BY <1>1
  <2> QED BY <1>2, <1>3, <2>1
<1>6. LastOf(Tail(todo), goal)
  BY <1>1, <1>5 DEF LastOf
<1> QED BY <1>1, <1>4, <1>6

-----------------------------------------------------------------------------
(***************************************************************************)
(* The steps, again.                                                       *)
(***************************************************************************)
\* No command has run, and none goes on that ends.
LEMMA InitCommandIInv == Init => CommandIInv
BY InitArIInv
   DEF Init, CommandIInv, Indexed, Distinct, Ordered, Untouched, Updating, Extracting,
       Resting, IsArchive

LEMMA ExitCommand ==
    ASSUME CommandIInv, ArIInv', UNCHANGED archive, NEW code, Exit(code)
    PROVE  CommandIInv'
<1>1. run' = [Resting EXCEPT !.exit = code]
  BY DEF Exit
<1>2. run'.phase = "idle" /\ run'.op = "t" /\ run'.members = << >>
  BY <1>1 DEF Resting
<1> QED BY <1>2
        DEF CommandIInv, Indexed, Distinct, Ordered, Untouched, Updating, Extracting,
            IsArchive

\* The archive of the disk becomes the one to update.
LEMMA InvokeCommand ==
    ASSUME CommandIInv, ArIInv', NEW op \in Operations, NEW args, Invoke(op, args),
           op = "d" => args \in Seq(MemberNames)
    PROVE  CommandIInv'
<1>1. /\ run'.phase = "load" /\ run'.op = op /\ run'.members = << >>
      /\ run'.args = args /\ run'.todo = args /\ run'.before = archive
      /\ UNCHANGED archive
  BY DEF Invoke, Resting
<1> QED BY <1>1
        DEF CommandIInv, Indexed, Distinct, Ordered, Untouched, Updating, Extracting,
            IsArchive, Operations

\* Nothing of the command line is done when the archive is in memory.
LEMMA LoadCommand ==
    ASSUME CommandIInv, ArIInv', Load
    PROVE  CommandIInv'
<1> USE DEF CommandIInv
<1>1. run.phase = "load" /\ run.todo = run.args /\ archive = run.before
  BY DEF Load, Updating, Untouched
<1>2. ASSUME NEW members \in Seq(Member), Proceed(members), Distinct(members),
             members = Old, run.op # "r" => IsArchive(archive),
             IsArchive(archive) => members = archive.members
      PROVE  CommandIInv'
  <2>1. /\ run'.members = members /\ run'.before = run.before /\ run'.op = run.op
        /\ run'.args = run.args /\ UNCHANGED <<files, archive>>
        /\ ~ (run.op \in {"r", "d"} /\ run.args = << >>)
        /\ run'.todo = IF run.op = "x" /\ run.args = << >>
                       THEN [i \in DOMAIN members |-> members[i].name] ELSE run.args
    BY <1>1, <1>2 DEF Proceed, ArIInv, RunTyped, Resting
  <2>2. /\ run.op \in {"r", "d"} => run'.phase = "update"
        /\ run.op = "x" => run'.phase = "extract"
        /\ run.op = "t" => run'.phase = "list"
    BY <1>2 DEF Proceed, ArIInv, RunTyped, Resting
  <2>3. run.op \in Operations
    BY DEF ArIInv, RunTyped
  <2>4. Indexed' /\ Untouched'
    BY <1>1, <1>2, <2>1, <2>2, <2>3
       DEF Indexed, Untouched, IsArchive, Distinct, Operations
  <2>5. Ordered'
    BY <2>1, <2>2, <2>3 DEF Ordered, Operations
  <2>6. Goal' = run'.todo
    BY <2>1 DEF Goal
  <2>7. LastOf(run'.todo, run'.todo) /\ Done' = 0
    BY <2>6 DEF LastOf, Done, ArIInv, RunTyped
  <2>8. Updating'
    <3>1. ASSUME run.op \in {"r", "d"}, NEW name \in MemberNames
          PROVE  (DataOf(run.members, name) = WantedAfter(Done, name))'
      <4>1. NamedAmong(0, name)' = {}
        BY DEF NamedAmong
      <4>2. Old' = Old
        BY <2>1 DEF Old, IsArchive
      <4> QED BY <1>2, <2>1, <2>7, <4>1, <4>2 DEF WantedAfter, DataOf
    <3>2. run.op \in {"r", "d"} => run'.args = run'.todo
      BY <2>1
    <3> QED BY <2>2, <2>3, <2>7, <3>1, <3>2 DEF Updating, Operations
  <2>9. Extracting'
    BY <1>2, <2>1, <2>2, <2>3, <2>6, <2>7 DEF Extracting, IsArchive, Operations
  <2> QED BY <2>4, <2>5, <2>8, <2>9
<1>3. CASE run.op = "r" /\ archive = NoFile /\ Proceed(<< >>)
  <2>1. ~ IsArchive(archive) /\ Old = << >> /\ Distinct(<< >>) /\ << >> \in Seq(Member)
    BY <1>1, <1>3 DEF IsArchive, Old, Distinct
  <2> QED BY <1>2, <1>3, <2>1
<1>4. CASE Loadable(archive) /\ Proceed(archive.members)
  <2>1. IsArchive(archive) /\ archive.members \in Seq(Member)
    BY <1>4 DEF Loadable, ArIInv, ArchiveSound, Sound
  <2>2. archive.members = Old /\ Distinct(archive.members)
    BY <1>1, <2>1 DEF Old, Indexed
  <2> QED BY <1>2, <1>4, <2>1, <2>2
<1>5. CASE Die
  BY <1>5, ExitCommand DEF Die
<1> QED BY <1>3, <1>4, <1>5 DEF Load

\* One object more is in the table, under its base name.
LEMMA ReplaceMemberCommand ==
    ASSUME CommandIInv, ArIInv', ReplaceMember
    PROVE  CommandIInv'
<1> USE DEF CommandIInv
<1> DEFINE path == Head(run.todo)
           data == files[path]
           members == Replaced(run.members, Base[path], data)
<1>1. /\ run.phase = "update" /\ run.op = "r" /\ run.todo # << >>
      /\ path \in Paths /\ Base[path] \in Paths
      /\ Goal = run.args /\ LastOf(run.todo, run.args)
      /\ run.args \in Seq(Paths) /\ run.todo \in Seq(Paths)
  BY ArAssumption DEF ReplaceMember, ArIInv, RunTyped, Goal, Updating
<1>2. CASE /\ IsMember(data) /\ UNCHANGED <<files, archive>>
           /\ run' = [run EXCEPT !.members = members, !.todo = Tail(@)]
  <2>1. data \in Contents
    BY <1>1, <1>2 DEF IsMember, ArIInv, RunTyped, SomeFile
  <2>2. /\ Distinct(members) /\ DataOf(members, Base[path]) = {data}
        /\ \A other : other # Base[path] =>
              DataOf(members, other) = DataOf(run.members, other)
    BY <1>1, <2>1, ReplacedTable DEF ArIInv, RunTyped, Indexed
  <2> HIDE DEF members
  <2>3. /\ run'.phase = "update" /\ run'.op = run.op /\ run'.args = run.args
        /\ run'.before = run.before /\ run'.members = members
        /\ run'.todo = Tail(run.todo)
    BY <1>1, <1>2 DEF ArIInv, RunTyped, Resting
  <2>4. /\ Done \in 0 .. Len(run.args) - 1 /\ path = run.args[Done + 1]
        /\ LastOf(Tail(run.todo), run.args)
        /\ Len(run.args) - Len(Tail(run.todo)) = Done + 1
    BY <1>1, NextName DEF Done
  <2>5. Goal' = run.args /\ Done' = Done + 1
    BY <1>1, <2>3, <2>4 DEF Goal, Done
  <2>6. ASSUME NEW name \in MemberNames
        PROVE  (DataOf(run.members, name) = WantedAfter(Done, name))'
    <3>1. WantedAfter(Done + 1, name) =
             IF Base[path] = name THEN {data} ELSE WantedAfter(Done, name)
      BY <1>1, <2>4, WantedNext DEF ArIInv
    <3>2. DataOf(run.members, name) = WantedAfter(Done, name)
      BY <1>1 DEF Updating
    <3>3. DataOf(members, name) = WantedAfter(Done + 1, name)
      BY <2>2, <3>1, <3>2
    <3>4. WantedAfter(Done, name)' = WantedAfter(Done + 1, name)
      BY <1>2, <2>3, <2>5 DEF WantedAfter, NamedAmong, Old, IsArchive
    <3> QED BY <2>3, <3>3, <3>4 DEF DataOf
  <2>7. Updating'
    BY <2>3, <2>4, <2>6 DEF Updating
  <2>8. Indexed' /\ Ordered' /\ Untouched' /\ Extracting'
    BY <1>1, <1>2, <2>2, <2>3
       DEF Indexed, Distinct, Ordered, Untouched, Extracting, IsArchive
  <2> QED BY <2>7, <2>8
<1>3. CASE Die
  BY <1>3, ExitCommand DEF Die
<1> QED BY <1>2, <1>3 DEF ReplaceMember

\* One member less, and it was the only one of its name.
LEMMA DeleteMemberCommand ==
    ASSUME CommandIInv, ArIInv', DeleteMember
    PROVE  CommandIInv'
<1> USE DEF CommandIInv
<1> DEFINE gone == Head(run.todo)
           found == FindMember(run.members, gone)
           members == Without(run.members, Min(found))
<1>1. /\ run.phase = "update" /\ run.op = "d" /\ run.todo # << >>
      /\ Goal = run.args /\ LastOf(run.todo, run.args)
      /\ run.args \in Seq(Paths) /\ run.todo \in Seq(Paths)
  BY DEF DeleteMember, ArIInv, RunTyped, Goal, Updating
<1>2. CASE /\ found # {} /\ UNCHANGED <<files, archive>>
           /\ run' = [run EXCEPT !.members = members, !.todo = Tail(@)]
  <2>1. Min(found) \in DOMAIN run.members /\ run.members[Min(found)].name = gone
    <3>1. found \subseteq Nat
      BY DEF FindMember, ArIInv, RunTyped
    <3>2. Min(found) \in found
      BY <1>2, <3>1, FirstPlace
    <3> QED BY <3>2 DEF FindMember
  <2>2. /\ Distinct(members) /\ DataOf(members, gone) = {}
        /\ \A other : other # gone =>
              DataOf(members, other) = DataOf(run.members, other)
    <3> DEFINE place == Min(found)
    <3>1. run.members \in Seq(Member) /\ Distinct(run.members)
      BY DEF ArIInv, RunTyped, Indexed
    <3>2. place \in DOMAIN run.members /\ run.members[place].name = gone
      BY <2>1
    <3> HIDE DEF place, gone
    <3>3. LET new == Without(run.members, place)
          IN  /\ Distinct(new) /\ DataOf(new, gone) = {}
              /\ \A other : other # gone => DataOf(new, other) = DataOf(run.members, other)
      BY <3>1, <3>2, WithoutTable
    <3> QED BY <3>3 DEF place
  <2> HIDE DEF members
  <2>3. /\ run'.phase = "update" /\ run'.op = run.op /\ run'.args = run.args
        /\ run'.before = run.before /\ run'.members = members
        /\ run'.todo = Tail(run.todo)
    BY <1>1, <1>2 DEF ArIInv, RunTyped, Resting
  <2>4. /\ Done \in 0 .. Len(run.args) - 1 /\ gone = run.args[Done + 1]
        /\ LastOf(Tail(run.todo), run.args)
        /\ Len(run.args) - Len(Tail(run.todo)) = Done + 1
    BY <1>1, NextName DEF Done
  <2>5. Goal' = run.args /\ Done' = Done + 1
    BY <1>1, <2>3, <2>4 DEF Goal, Done
  <2>6. Base[gone] = gone
    <3>1. run.args \in Seq(MemberNames) /\ Done + 1 \in 1 .. Len(run.args)
      BY <1>1, <2>4 DEF Ordered
    <3>2. gone \in MemberNames
      BY <2>4, <3>1
    <3> QED BY <3>2, ArAssumption DEF MemberNames
  <2>7. ASSUME NEW name \in MemberNames
        PROVE  (DataOf(run.members, name) = WantedAfter(Done, name))'
    <3>1. WantedAfter(Done + 1, name) =
             IF gone = name THEN {} ELSE WantedAfter(Done, name)
      BY <1>1, <2>4, <2>6, WantedNext DEF ArIInv
    <3>2. DataOf(run.members, name) = WantedAfter(Done, name)
      BY <1>1 DEF Updating
    <3>3. DataOf(members, name) = WantedAfter(Done + 1, name)
      BY <2>2, <3>1, <3>2
    <3>4. WantedAfter(Done, name)' = WantedAfter(Done + 1, name)
      BY <1>2, <2>3, <2>5 DEF WantedAfter, NamedAmong, Old, IsArchive
    <3> QED BY <2>3, <3>3, <3>4 DEF DataOf
  <2>8. Updating'
    BY <2>3, <2>4, <2>7 DEF Updating
  <2>9. Indexed' /\ Ordered' /\ Untouched' /\ Extracting'
    BY <1>1, <1>2, <2>2, <2>3
       DEF Indexed, Distinct, Ordered, Untouched, Extracting, IsArchive
  <2> QED BY <2>8, <2>9
<1>3. CASE Die
  BY <1>3, ExitCommand DEF Die
<1> QED BY <1>2, <1>3 DEF DeleteMember

\* What is written is the table with the whole command line done, and its index.
LEMMA WritingCommand ==
    ASSUME CommandIInv, ArIInv', OpenArchive \/ WritePart \/ CloseArchive
    PROVE  CommandIInv'
<1> USE DEF CommandIInv
<1>1. CASE OpenArchive
  <2>1. CASE /\ Go("write") /\ UNCHANGED files
             /\ archive' = [members |-> run.members, index |-> IndexOf(run.members),
                            written |-> 0]
    <3>1. run.phase = "update" /\ run.todo = << >> /\ run.op \in {"r", "d"}
      BY <1>1 DEF OpenArchive, Ordered
    <3>2. /\ run'.phase = "write" /\ run'.op = run.op /\ run'.args = run.args
          /\ run'.before = run.before /\ run'.members = run.members
      BY <2>1 DEF Go, ArIInv, RunTyped, Resting
    <3>3. archive'.members = run.members /\ archive'.index = IndexOf(run.members)
      BY <2>1
    <3>4. Done = Len(run.args)
      BY <3>1 DEF Done, Goal, ArIInv, RunTyped
    <3>5. IsUpdate(archive')
      BY <3>1, <3>3, <3>4, AllWanted DEF Updating, ArIInv
    <3>6. IsUpdate(archive)'
      BY <2>1, <3>2, <3>5, StaysUpdate
    <3>7. Indexed' /\ Ordered' /\ Untouched' /\ Extracting'
      BY <3>1, <3>2, <3>3
         DEF Indexed, Distinct, Ordered, Untouched, Extracting
    <3> QED BY <3>2, <3>6, <3>7 DEF Updating
  <2>2. CASE Die
    BY <2>2, ExitCommand DEF Die
  <2> QED BY <1>1, <2>1, <2>2 DEF OpenArchive
<1>2. CASE WritePart
  <2>1. CASE archive' = [archive EXCEPT !.written = @ + 1] /\ UNCHANGED <<files, run>>
    <3>1. run.phase = "write" /\ Sound(archive)
      BY <1>2 DEF WritePart, ArIInv, ArchiveSound
    <3>2. archive'.members = archive.members /\ archive'.index = archive.index
      BY <2>1, <3>1 DEF Sound
    <3>3. IsUpdate(archive)'
      BY <2>1, <3>1, <3>2, StaysUpdate DEF Updating
    <3>4. Indexed'
      BY <2>1, <3>1, <3>2 DEF Indexed, Distinct
    <3>5. Ordered' /\ Untouched' /\ Extracting'
      BY <2>1, <3>1 DEF Ordered, Untouched, Extracting
    <3> QED BY <2>1, <3>1, <3>3, <3>4, <3>5 DEF Updating
  <2>2. CASE UNCHANGED <<files, archive>> /\ \E code : Exit(code)
    BY <2>2, ExitCommand
  <2> QED BY <1>2, <2>1, <2>2 DEF WritePart, Die
<1>3. CASE CloseArchive
  BY <1>3, ExitCommand DEF CloseArchive
<1> QED BY <1>1, <1>2, <1>3

\* One name more is copied, and names that share a file are one member's.
LEMMA ExtractMemberCommand ==
    ASSUME CommandIInv, ArIInv', ExtractMember
    PROVE  CommandIInv'
<1> USE DEF CommandIInv
<1> DEFINE name == Head(run.todo)
<1>1. CASE \E code : Exit(code) /\ UNCHANGED <<files, archive>>
  BY <1>1, ExitCommand
<1>2. ASSUME run.todo # << >>, NEW i \in FindMember(run.members, name),
             NEW data \in {run.members[i].data, Torn},
             files' = [files EXCEPT ![name] = data],
             run' = [run EXCEPT !.todo = Tail(@)], UNCHANGED archive
      PROVE  CommandIInv'
  <2>1. /\ run'.phase = run.phase /\ run'.op = run.op /\ run'.args = run.args
        /\ run'.before = run.before /\ run'.members = run.members
        /\ run'.todo = Tail(run.todo) /\ run.phase = "extract" /\ run.op = "x"
    BY <1>2 DEF ExtractMember, Ordered, ArIInv, RunTyped, Resting
  <2>2. Goal' = Goal
    BY <2>1 DEF Goal
  <2>3. Goal \in Seq(Paths) /\ run.todo \in Seq(Paths) /\ LastOf(run.todo, Goal)
    <3>1. /\ DOMAIN run.members = 1 .. Len(run.members) /\ Len(run.members) \in Nat
          /\ \A k \in 1 .. Len(run.members) : run.members[k] \in Member
      BY DEF ArIInv, RunTyped
    <3>2. \A k \in 1 .. Len(run.members) : run.members[k].name \in Paths
      BY <3>1 DEF Member
    <3>3. [k \in DOMAIN run.members |-> run.members[k].name] \in Seq(Paths)
      BY <3>1, <3>2
    <3> QED BY <2>1, <3>3 DEF Goal, Extracting, ArIInv, RunTyped
  <2>4. /\ Done \in 0 .. Len(Goal) - 1 /\ name = Goal[Done + 1]
        /\ LastOf(Tail(run.todo), Goal)
        /\ Len(Goal) - Len(Tail(run.todo)) = Done + 1
    BY <1>2, <2>3, NextName DEF Done
  <2>5. Done' = Done + 1
    BY <2>1, <2>2, <2>4 DEF Done
  <2>6. i \in DOMAIN run.members /\ run.members[i].name = name /\ name \in Paths
    BY <1>2, <2>3 DEF FindMember
  <2>7. /\ files'[name] \in {run.members[i].data, Torn}
        /\ \A other \in Paths : other # name => files'[other] = files[other]
    BY <1>2, <2>6 DEF ArIInv, RunTyped
  <2>8. ASSUME NEW k \in 1 .. Done + 1
        PROVE  \E j \in DOMAIN run.members :
                  /\ run.members[j].name = Goal[k]
                  /\ files'[Goal[k]] \in {run.members[j].data, Torn}
    <3>1. CASE Goal[k] = name
      BY <2>6, <2>7, <3>1
    <3>2. CASE Goal[k] # name
      <4>0. Len(Goal) \in Nat
        BY <2>3
      <4>1. k # Done + 1
        BY <2>4, <3>2
      <4>2. Done \in Nat /\ Done + 1 <= Len(Goal)
        BY <2>4, <4>0
      <4>3. k \in 1 .. Done
        BY <4>1, <4>2
      <4>4. k \in 1 .. Len(Goal)
        BY <4>0, <4>2, <4>3
      <4>5. Goal[k] \in Paths
        BY <2>3, <4>4
      <4> QED BY <2>1, <2>7, <3>2, <4>3, <4>5 DEF Extracting
    <3> QED BY <3>1, <3>2
  <2>9. Extracting'
    BY <1>2, <2>1, <2>2, <2>4, <2>5, <2>8 DEF Extracting, IsArchive
  <2>10. Indexed' /\ Ordered' /\ Untouched' /\ Updating'
    BY <1>2, <2>1 DEF Indexed, Distinct, IsArchive, Ordered, Untouched, Updating
  <2> QED BY <2>9, <2>10
<1> QED BY <1>1, <1>2 DEF ExtractMember, Die

\* A listing and a kill end the command; compilations are between commands.
LEMMA OthersCommand ==
    ASSUME CommandIInv, ArIInv',
           \/ List \/ Kill
           \/ \E path \in Paths, object \in Objects : Compile(path, object)
    PROVE  CommandIInv'
<1>1. CASE List
  BY <1>1, ExitCommand DEF List
<1>2. CASE Kill
  BY <1>2, ExitCommand DEF Kill
<1>3. ASSUME NEW path, NEW object, Compile(path, object)
      PROVE  CommandIInv'
  BY <1>3
     DEF Compile, CommandIInv, Indexed, Distinct, Ordered, Untouched, Updating,
         Extracting, IsArchive
<1> QED BY <1>1, <1>2, <1>3

\* One step of a command or of its environment.
LEMMA NextCommandIInv == CommandIInv /\ [Next]_vars => CommandIInv'
<1> SUFFICES ASSUME CommandIInv, [Next]_vars PROVE CommandIInv'
  OBVIOUS
<1>1. ArIInv'
  BY NextArIInv DEF CommandIInv
<1>2. CASE UNCHANGED vars
  <2>1. Done' = Done /\ Goal' = Goal
    BY <1>2 DEF vars, Done, Goal
  <2>2. \A n, name : WantedAfter(n, name)' = WantedAfter(n, name)
    BY <1>2 DEF vars, WantedAfter, NamedAmong, Old, IsArchive
  <2>3. IsUpdate(archive)' <=> IsUpdate(archive)
    BY <1>2 DEF vars, IsUpdate, Wanted, IsArchive
  <2>4. Updating'
    BY <1>2, <2>1, <2>2, <2>3 DEF vars, CommandIInv, Updating, DataOf
  <2>5. Extracting'
    BY <1>2, <2>1 DEF vars, CommandIInv, Extracting, IsArchive
  <2> QED BY <1>1, <1>2, <2>4, <2>5
          DEF vars, CommandIInv, Indexed, Distinct, Ordered, Untouched, IsArchive
<1>3. ASSUME NEW op \in Operations, NEW args, Invoke(op, args),
             op = "d" => args \in Arguments(MemberNames)
      PROVE  CommandIInv'
  <2>1. op = "d" => args \in Seq(MemberNames)
    BY <1>3, ArAssumption DEF Arguments
  <2> QED BY <1>1, <1>3, <2>1, InvokeCommand
<1> QED BY <1>1, <1>2, <1>3, LoadCommand, ReplaceMemberCommand, DeleteMemberCommand,
           WritingCommand, ExtractMemberCommand, OthersCommand DEF Next, Operations

-----------------------------------------------------------------------------
\* In a whole archive member names are unique, and the index is that of the
\* members: what it lists of a member t32-nm accepts is what t32-nm shows as
\* global and defined, whatever the object's other symbols are.
THEOREM IndexAgreesWithNm == Spec => []IndexIsExact
<1>1. ASSUME CommandIInv PROVE IndexIsExact
  <2> SUFFICES ASSUME Complete(archive)
               PROVE  /\ Distinct(archive.members)
                      /\ \A i \in DOMAIN archive.members :
                            LET o == archive.members[i].data
                                indexed == {e \in ToSet(archive.index) :
                                               e.member = i - 1}
                            IN  Valid(o) =>
                                   {e.name : e \in indexed} =
                                   {s.name : s \in {l \in Listing(o) :
                                      l.letter.capital /\ l.letter.class # "U"}}
    BY DEF IndexIsExact, Distinct
  <2>1. /\ Distinct(archive.members) /\ archive.index = IndexOf(archive.members)
        /\ archive.members \in Seq(Member)
    BY <1>1 DEF Complete, CommandIInv, Indexed, ArIInv, ArchiveSound, Sound
  <2>2. ASSUME NEW i \in DOMAIN archive.members, Valid(archive.members[i].data)
        PROVE  {e.name : e \in {x \in ToSet(archive.index) : x.member = i - 1}} =
               {s.name : s \in {l \in Listing(archive.members[i].data) :
                            l.letter.capital /\ l.letter.class # "U"}}
    <3> DEFINE o == archive.members[i].data
               indexed == {x \in ToSet(archive.index) : x.member = i - 1}
               Exported(k) == ToSet(ExportedSymbols(archive.members[k].data))
    <3>0. SUFFICES {e.name : e \in indexed} =
                   {s.name : s \in {l \in Listing(o) :
                                l.letter.capital /\ l.letter.class # "U"}}
      OBVIOUS
    <3>1. archive.members[i] \in Member
      BY <2>1
    <3>2. o \in Contents
      BY <3>1 DEF Member
    <3>3. \A e : e \in ToSet(archive.index) <=>
             \E k \in 1 .. Len(archive.members) : \E s \in Exported(k) :
                e = [name |-> s.name, member |-> k - 1]
      BY <2>1, IndexElements
    <3> HIDE DEF Exported
    <3>4. \A e : e \in indexed <=>
             \E s \in Exported(i) : e = [name |-> s.name, member |-> i - 1]
      BY <3>3
    <3>5. {e.name : e \in indexed} = {s.name : s \in Exported(i)}
      <4> DEFINE Row(s) == [name |-> s.name, member |-> i - 1]
      <4>1. \A s : Row(s).name = s.name
        OBVIOUS
      <4>2. \A e : e \in indexed <=> \E s \in Exported(i) : e = Row(s)
        BY <3>4
      <4> HIDE DEF indexed, Row
      <4> QED BY <4>1, <4>2
    <3> HIDE DEF indexed
    <3>6. Exported(i) = ToSet(ExportedSymbols(o)) /\ Valid(o)
      BY <2>2 DEF Exported
    <3> HIDE DEF o
    <3>7. {s.name : s \in Exported(i)} =
          {s.name : s \in {l \in Listing(o) : l.letter.capital /\ l.letter.class # "U"}}
      BY <3>2, <3>6, ExportedIsListed
    <3> QED BY <3>5, <3>7
  <2> QED BY <2>1, <2>2
<1> QED BY InitCommandIInv, NextCommandIInv, <1>1, PTL DEF Spec

\* However a command ends, the archive is as it was, or torn, or the whole of
\* what was asked for; and a refusal comes before the file is opened.
THEOREM UpdatesAreWhole == Spec => UpdateIsWhole
<1> DEFINE Ends == run.phase # "idle" /\ run'.phase = "idle"
           Whole ==
              /\ archive = run.before \/ ~ Complete(archive) \/ IsUpdate(archive)
              /\ run'.exit = 0 /\ run.op \in {"r", "d"} /\ Complete(archive) =>
                    IsUpdate(archive)
              /\ run'.exit = 1 /\ run.phase # "write" => archive' = run.before
<1>1. ASSUME CommandIInv, [Next]_vars PROVE [Ends => Whole]_vars
  <2> SUFFICES ASSUME Next, Ends PROVE Whole
    BY <1>1
  <2>1. CASE run.phase = "write"
    BY <1>1, <2>1 DEF CommandIInv, Updating
  <2>2. CASE run.phase # "write"
    <3>1. archive = run.before
      BY <1>1, <2>2 DEF CommandIInv, Ordered, Untouched
    <3>2. "phase" \in DOMAIN run
      BY <1>1 DEF CommandIInv, ArIInv, RunTyped, Resting
    <3>3. ~ Go("write")
      BY <3>2 DEF Go
    <3>4. UNCHANGED archive
      BY <2>2, <3>3 DEF Next, Invoke, Load, Proceed, Die, List, ReplaceMember,
                        DeleteMember, OpenArchive, WritePart, CloseArchive,
                        ExtractMember, Compile, Kill
    <3>5. CASE Load
      <4>1. ~ \E members : Proceed(members)
        BY <1>1, <3>2 DEF Proceed, CommandIInv, ArIInv, RunTyped, Operations
      <4> QED BY <3>1, <3>4, <3>5, <4>1 DEF Load, Die, Exit, Resting
    <3>6. CASE ReplaceMember \/ DeleteMember
      <4>1. \A members : run' # [run EXCEPT !.members = members, !.todo = Tail(@)]
        BY <3>2
      <4>2. Die
        BY <3>6, <4>1 DEF ReplaceMember, DeleteMember
      <4> QED BY <3>1, <3>4, <4>2 DEF Die, Exit, Resting
    <3>7. CASE List \/ ExtractMember
      BY <1>1, <3>1, <3>4, <3>7 DEF List, ExtractMember, CommandIInv, Ordered
    <3>8. CASE OpenArchive \/ Kill
      BY <3>1, <3>3, <3>4, <3>8 DEF OpenArchive, Kill, Die, Exit, Resting
    <3> QED BY <2>2, <3>5, <3>6, <3>7, <3>8
            DEF Next, Invoke, WritePart, CloseArchive, Compile
  <2> QED BY <2>1, <2>2
<1> QED BY InitCommandIInv, NextCommandIInv, <1>1, PTL DEF Spec, UpdateIsWhole

\* Success of t32-ar x: every member asked for is in its file, or a part of it.
THEOREM ExtractionIsArchived == Spec => ExtractedIsArchived
<1> DEFINE Success == run.phase = "extract" /\ run'.exit = 0 /\ run'.phase = "idle"
           Copied ==
              /\ ToSet(run.args) \subseteq {m.name : m \in ToSet(archive.members)}
              /\ \A m \in ToSet(archive.members) :
                    run.args = << >> \/ m.name \in ToSet(run.args) =>
                       files[m.name] \in {m.data, Torn}
<1>1. ASSUME CommandIInv, [Next]_vars PROVE [Success => Copied]_vars
  <2> SUFFICES ASSUME Next, Success PROVE Copied
    BY <1>1
  <2>1. run.todo = << >>
    BY <1>1
       DEF Next, Invoke, Load, Proceed, Die, Exit, List, ReplaceMember, DeleteMember,
           OpenArchive, Go, WritePart, CloseArchive, ExtractMember, Compile, Kill,
           CommandIInv, ArIInv, RunTyped, Resting
  <2>2. /\ run.members = archive.members /\ Distinct(run.members) /\ run.op = "x"
        /\ \A i \in 1 .. Done : \E j \in DOMAIN run.members :
              /\ run.members[j].name = Goal[i]
              /\ files[Goal[i]] \in {run.members[j].data, Torn}
    BY <1>1 DEF CommandIInv, Extracting, Indexed, Ordered
  <2>3. Done = Len(Goal) /\ DOMAIN Goal = 1 .. Len(Goal)
    BY <1>1, <2>1 DEF Done, Goal, CommandIInv, ArIInv, RunTyped
  <2>4. \A m \in ToSet(archive.members) : \A i \in DOMAIN Goal :
           m.name = Goal[i] => files[m.name] \in {m.data, Torn}
    <3>1. \A m \in ToSet(archive.members) :
             \E k \in DOMAIN run.members : m = run.members[k]
      BY <2>2 DEF ToSet
    <3> QED BY <2>2, <2>3, <3>1 DEF Distinct
  <2>5. CASE run.args = << >>
    <3>1. /\ DOMAIN Goal = DOMAIN run.members
          /\ \A i \in DOMAIN run.members : Goal[i] = run.members[i].name
      BY <2>2, <2>5 DEF Goal
    <3>2. \A m \in ToSet(archive.members) : \E i \in DOMAIN Goal : m.name = Goal[i]
      BY <2>2, <3>1 DEF ToSet
    <3> QED BY <2>4, <2>5, <3>2 DEF ToSet
  <2>6. CASE run.args # << >>
    <3>1. Goal = run.args
      BY <2>6 DEF Goal
    <3>2. \A name \in ToSet(run.args) : \E i \in DOMAIN Goal : name = Goal[i]
      BY <3>1 DEF ToSet
    <3>3. \A name \in ToSet(run.args) :
             \E j \in DOMAIN run.members : run.members[j].name = name
      BY <2>2, <2>3, <3>2
    <3>4. ToSet(run.args) \subseteq {m.name : m \in ToSet(archive.members)}
      BY <2>2, <3>3 DEF ToSet
    <3> QED BY <2>4, <2>6, <3>2, <3>4
  <2> QED BY <2>5, <2>6
<1> QED BY InitCommandIInv, NextCommandIInv, <1>1, PTL DEF Spec, ExtractedIsArchived
=============================================================================
