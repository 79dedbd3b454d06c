---------------------------- MODULE T32DiskProofs ----------------------------
(***************************************************************************)
(* For any files, names, geometry and sizes, and however often commands    *)
(* fail or are killed: a name stays unique, and, where no file's length    *)
(* wraps when it is rounded up to sectors, the files of an uncut image     *)
(* stay whole, get gives them back, and no cut image mixes two files.      *)
(***************************************************************************)
EXTENDS T32Disk, NumberFacts, FiniteSetTheorems, SequenceTheorems, TLAPS

\* A file's length rounded up to whole sectors is a uint32_t.  Without it
\* put_file reserves no sectors for a file and writes it all the same.
NoWrap == \A h \in HostFile : HostSize[h] + SectorSize - 1 < Modulus

-----------------------------------------------------------------------------
(***************************************************************************)
(* The inductive invariant.                                                *)
(***************************************************************************)
EntryType == [name : Name \cup {""}, start : Nat, length : Nat]
HeaderSector == [kind : {"header"}, total : Nat]
DirectorySector ==
    [kind : {"directory"}, entries : [0 .. EntriesPerSector - 1 -> EntryType]]
PayloadSector == [kind : {"payload"}, file : HostFile, number : Nat]
Sector == {Zero} \cup HeaderSector \cup DirectorySector \cup PayloadSector

CreateOp == [command : {"create"}, sectors : Sizes]
FormatOp == [command : {"format"}, cleared : 0 .. DirectorySectors - 1]
PutOp == [command : {"put"}, file : HostFile, name : Name, index : Index,
          start : Nat, done : Nat]

TypeOK ==
    /\ image \in Seq(Sector)
    /\ op \in {Idle} \cup CreateOp \cup FormatOp \cup PutOp
    /\ stored \in [Name -> HostFile \cup {"none"}]
    /\ cuts \in Nat
    /\ op.command = "put" => EntryLba(op.index) < Len(image)

\* A directory entry never outlives the file it names, no two entries share a
\* name, and the name a put is about to enter is not there yet.
DirectorySound ==
    /\ \A i \in Visible : /\ stored[Entry(i).name] \in HostFile
                          /\ Entry(i).length = HostSize[stored[Entry(i).name]]
    /\ \A i, j \in Visible : Entry(i).name = Entry(j).name => i = j

PutIsNew == op.command = "put" => \A i \in Visible : Entry(i).name # op.name

OneEntryPerName == DirectorySound /\ PutIsNew

\* What a put has written so far, where it writes, and that all it can see
\* ends before.  At sector 0, on an image that lost part of its directory, it
\* destroys the header first and the directory before the data area.
PutInOrder ==
    op.command = "put" =>
        /\ \A k \in 0 .. op.done - 1 :
              Has(op.start + k) /\ At(op.start + k) = Payload(op.file, k)
        /\ IF op.start = 0
           THEN Len(image) <= DirectorySectors \/ Len(image) <= op.done
           ELSE /\ op.start >= DataStart /\ Formatted
                /\ \A i \in Visible :
                      Entry(i).start + WholeSectors(Entry(i).length) <= op.start

\* An image that format would accept shows no foreign payload.
OwnData ==
    Formatted \/ Len(image) > DataStart =>
        \A i \in Visible : \A lba \in Extent(i) :
            Has(lba) /\ At(lba) # Zero /\ At(lba).kind = "payload" =>
                At(lba) = Payload(stored[Entry(i).name], lba - Entry(i).start)

FormatHasRoom == op.command = "format" => Len(image) > DataStart

\* An uncut image has a whole directory, and every entry a whole file.
UncutIsWhole ==
    cuts = 0 =>
        /\ image = << >> \/ Len(image) > DataStart
        /\ op.command = "put" => op.start >= DataStart
        /\ \A i \in Visible :
              /\ Entry(i).start >= DataStart
              /\ \A lba \in Extent(i) :
                    /\ Has(lba)
                    /\ At(lba) = Payload(stored[Entry(i).name],
                                         lba - Entry(i).start)

GetEnded == op # Idle => output = NoFile

IInv ==
    /\ TypeOK /\ OneEntryPerName
    /\ PutInOrder /\ OwnData /\ FormatHasRoom /\ UncutIsWhole
    /\ GetEnded /\ ExtractedMatches

-----------------------------------------------------------------------------
(***************************************************************************)
(* Greatest elements.                                                      *)
(***************************************************************************)
\* A finite, indexed family of numbers has a greatest member: of the sets of
\* indices with a greater one, take a smallest.
LEMMA GreatestOfFinite ==
    ASSUME NEW I, IsFiniteSet(I), I # {}, NEW f \in [I -> Int]
    PROVE  \E i \in I : \A j \in I : f[j] <= f[i]
<1> DEFINE above(i) == {j \in I : f[j] > f[i]}
           family == {above(i) : i \in I}
<1>1. family \subseteq FiniteSubsetsOf(I) /\ family # {}
  <2>1. ASSUME NEW i \in I PROVE above(i) \in FiniteSubsetsOf(I)
    <3>1. above(i) \in SUBSET I
      OBVIOUS
    <3>2. IsFiniteSet(above(i))
      BY <3>1, FS_Subset
    <3> QED BY <3>1, <3>2 DEF FiniteSubsetsOf
  <2>2. \A T \in family : T \in FiniteSubsetsOf(I)
    BY <2>1
  <2>3. family # {}
    <3>1. PICK i \in I : TRUE
      OBVIOUS
    <3>2. above(i) \in family
      OBVIOUS
    <3> QED BY <3>2
  <2> HIDE DEF family
  <2> QED BY <2>2, <2>3
<1>2. PICK least \in family :
        \A T \in family : ~ (<<T, least>> \in StrictSubsetOrdering(I))
  BY <1>1, FS_StrictSubsetOrderingWellFounded, WFMin
<1>3. PICK i \in I : least = above(i)
  OBVIOUS
<1>4. \A j \in I : ~ (f[j] > f[i])
  <2> SUFFICES ASSUME NEW j \in I, f[j] > f[i] PROVE FALSE
    OBVIOUS
  <2>1. above(j) \subseteq above(i) /\ j \in above(i) /\ j \notin above(j)
    OBVIOUS
  <2>2. <<above(j), above(i)>> \in StrictSubsetOrdering(I)
    BY <2>1 DEF StrictSubsetOrdering
  <2> QED BY <1>2, <1>3, <2>2
<1> QED BY <1>4

-----------------------------------------------------------------------------
(***************************************************************************)
(* Rounding to whole sectors, and the directory's geometry.                *)
(***************************************************************************)
\* WholeSectors is the least number of sectors that holds a file.
LEMMA WholeSectorsHold ==
    ASSUME NEW n \in Nat
    PROVE  /\ WholeSectors(n) \in Nat
           /\ WholeSectors(n) * SectorSize >= n
           /\ \A d \in Nat : d * SectorSize >= n => d >= WholeSectors(n)
<1> DEFINE w == WholeSectors(n)
<1>1. /\ w \in Nat
      /\ w * SectorSize <= n + SectorSize - 1
      /\ n + SectorSize - 1 < w * SectorSize + SectorSize
  BY T32DiskAssumption DEF WholeSectors
<1>2. w * SectorSize \in Nat /\ w * SectorSize >= n
  BY <1>1, T32DiskAssumption
<1>3. ASSUME NEW d \in Nat, d * SectorSize >= n, d < w PROVE FALSE
  <2>1. (d + 1) * SectorSize <= w * SectorSize
    BY <1>1, <1>3, T32DiskAssumption
  <2>2. (d + 1) * SectorSize = d * SectorSize + SectorSize
    BY <1>3, T32DiskAssumption
  <2>3. d * SectorSize \in Nat
    BY <1>3, T32DiskAssumption
  <2> QED BY <1>1, <1>2, <1>3, <2>1, <2>2, <2>3, T32DiskAssumption
<1> QED BY <1>1, <1>2, <1>3

\* Where the rounding does not wrap, uint32_t arithmetic finds that number.
LEMMA SectorsAreWhole ==
    ASSUME NoWrap, NEW h \in HostFile
    PROVE  /\ HostSize[h] \in Nat
           /\ Sectors(HostSize[h]) = WholeSectors(HostSize[h])
<1>1. HostSize[h] \in Nat /\ HostSize[h] + SectorSize - 1 < Modulus
  BY T32DiskAssumption DEF NoWrap
<1>2. (HostSize[h] + SectorSize - 1) % Modulus = HostSize[h] + SectorSize - 1
  BY <1>1, T32DiskAssumption
<1> QED BY <1>1, <1>2 DEF Sectors, WholeSectors

LEMMA SectorsIsNat ==
    ASSUME NEW n \in Nat PROVE Sectors(n) \in Nat
<1>1. (n + SectorSize - 1) % Modulus \in Nat
  BY T32DiskAssumption
<1> QED BY <1>1, T32DiskAssumption DEF Sectors

\* The directory lies in sectors 1 to DirectorySectors; entries lie in order.
LEMMA DirectoryGeometry ==
    /\ DirectoryEntries \in Nat \ {0}
    /\ \A i \in Index : /\ EntryLba(i) \in 1 .. DirectorySectors
                        /\ i % EntriesPerSector \in 0 .. EntriesPerSector - 1
                        /\ \A j \in 0 .. i : /\ j \in Index
                                             /\ EntryLba(j) <= EntryLba(i)
<1>1. DirectoryEntries \in Nat \ {0}
  BY T32DiskAssumption DEF DirectoryEntries
<1>2. ASSUME NEW i \in Index
      PROVE  /\ i \div EntriesPerSector \in Nat
             /\ i % EntriesPerSector \in 0 .. EntriesPerSector - 1
             /\ i \div EntriesPerSector < DirectorySectors
  <2> DEFINE q == i \div EntriesPerSector
  <2>1. /\ i \in Nat /\ i < DirectorySectors * EntriesPerSector
    BY <1>1 DEF Index, DirectoryEntries
  <2>2. /\ q \in Nat /\ i % EntriesPerSector \in 0 .. EntriesPerSector - 1
        /\ q * EntriesPerSector <= i
    BY <2>1, T32DiskAssumption
  <2>3. ASSUME q >= DirectorySectors PROVE FALSE
    <3>1. q * EntriesPerSector >= DirectorySectors * EntriesPerSector
      BY <2>2, <2>3, T32DiskAssumption
    <3>2. q * EntriesPerSector \in Nat /\ DirectorySectors * EntriesPerSector \in Nat
      BY <2>2, T32DiskAssumption
    <3> HIDE DEF q
    <3> QED BY <2>1, <2>2, <3>1, <3>2
  <2> QED BY <2>2, <2>3, T32DiskAssumption
<1>3. ASSUME NEW i \in Index, NEW j \in 0 .. i
      PROVE  j \in Index /\ j \div EntriesPerSector <= i \div EntriesPerSector
  <2>1. j \in Nat /\ i \in Nat /\ j <= i /\ j \in Index
    BY <1>1 DEF Index
  <2> DEFINE p == j \div EntriesPerSector
             q == i \div EntriesPerSector
  <2>2. /\ p \in Nat /\ q \in Nat
        /\ p * EntriesPerSector <= j /\ i < q * EntriesPerSector + EntriesPerSector
    BY <2>1, T32DiskAssumption
  <2>3. ASSUME p > q PROVE FALSE
    <3>1. p * EntriesPerSector >= (q + 1) * EntriesPerSector
      BY <2>2, <2>3, T32DiskAssumption
    <3>2. (q + 1) * EntriesPerSector = q * EntriesPerSector + EntriesPerSector
      BY <2>2, T32DiskAssumption
    <3>3. q * EntriesPerSector \in Nat /\ p * EntriesPerSector \in Nat
      BY <2>2, T32DiskAssumption
    <3> HIDE DEF p, q
    <3> QED BY <2>1, <2>2, <3>1, <3>2, <3>3, T32DiskAssumption
  <2> QED BY <2>1, <2>2, <2>3
<1> QED BY <1>1, <1>2, <1>3, T32DiskAssumption DEF EntryLba, DirectoryLba

\* An entry's sector and its place in the sector identify it.
LEMMA EntryPlace ==
    ASSUME NEW i \in Index, NEW j \in Index, EntryLba(i) = EntryLba(j),
           i % EntriesPerSector = j % EntriesPerSector
    PROVE  i = j
<1> DEFINE p == i \div EntriesPerSector
           q == j \div EntriesPerSector
<1>1. i \in Nat /\ j \in Nat
  BY DirectoryGeometry DEF Index
<1>2. /\ p \in Nat /\ i = p * EntriesPerSector + (i % EntriesPerSector)
      /\ q \in Nat /\ j = q * EntriesPerSector + (j % EntriesPerSector)
  BY <1>1, T32DiskAssumption
<1>3. p = q
  BY <1>2 DEF EntryLba, DirectoryLba
<1> HIDE DEF p, q
<1> QED BY <1>2, <1>3

-----------------------------------------------------------------------------
(***************************************************************************)
(* What a write does to the image and to the directory's view of it.       *)
(***************************************************************************)
LEMMA ImageSectors ==
    ASSUME image \in Seq(Sector)
    PROVE  /\ Len(image) \in Nat
           /\ \A k \in Nat : Has(k) => At(k) \in Sector
<1> QED BY DEF Has, At

\* One sector changes; a hole in front of it reads as zeros.
LEMMA WriteEffect ==
    ASSUME image \in Seq(Sector), NEW lba \in Nat, NEW s \in Sector,
           Write(lba, s)
    PROVE  /\ image' \in Seq(Sector)
           /\ Len(image') = IF Len(image) > lba THEN Len(image) ELSE lba + 1
           /\ image'[lba + 1] = s
           /\ \A k \in Nat : k < Len(image) /\ k # lba => image'[k + 1] = image[k + 1]
           /\ \A k \in Nat : Len(image) <= k /\ k < lba => image'[k + 1] = Zero
<1> DEFINE n == IF Has(lba) THEN Len(image) ELSE lba + 1
           new(t) == IF t = lba + 1 THEN s
                     ELSE IF Has(t - 1) THEN image[t] ELSE Zero
<1>1. Len(image) \in Nat /\ \A t \in 1 .. Len(image) : image[t] \in Sector
  OBVIOUS
<1>2. n \in Nat /\ n = IF Len(image) > lba THEN Len(image) ELSE lba + 1
  BY <1>1 DEF Has
<1>3. image' = [t \in 1 .. n |-> new(t)]
  BY DEF Write
<1>4. \A t \in 1 .. n : new(t) \in Sector
  BY <1>1 DEF Has, Sector
<1> HIDE DEF n
<1>5. image' \in [1 .. n -> Sector]
  BY <1>3, <1>4
<1>6. image' \in Seq(Sector) /\ Len(image') = n
  BY <1>2, <1>5
<1>7. \A t \in 1 .. n : image'[t] = new(t)
  BY <1>3
<1>8. image'[lba + 1] = s
  BY <1>1, <1>2, <1>7
<1>9. ASSUME NEW k \in Nat, k < Len(image), k # lba
      PROVE  image'[k + 1] = image[k + 1]
  BY <1>1, <1>2, <1>7, <1>9 DEF Has
<1>10. ASSUME NEW k \in Nat, Len(image) <= k, k < lba
       PROVE  image'[k + 1] = Zero
  BY <1>1, <1>2, <1>7, <1>10 DEF Has
<1> QED BY <1>2, <1>6, <1>8, <1>9, <1>10

\* read_dirent of a directory of the right type.
LEMMA EntryTyped ==
    ASSUME image \in Seq(Sector), NEW i \in Index, Readable(i)
    PROVE  Entry(i) \in EntryType
<1>1. EntryLba(i) \in Nat /\ i % EntriesPerSector \in 0 .. EntriesPerSector - 1
  BY DirectoryGeometry, T32DiskAssumption
<1>2. At(EntryLba(i)) \in Sector
  BY <1>1, ImageSectors DEF Readable
<1>3. CASE At(EntryLba(i)) # Zero /\ At(EntryLba(i)).kind = "directory"
  <2>1. At(EntryLba(i)) \in DirectorySector
    BY <1>2, <1>3 DEF Sector, HeaderSector, PayloadSector
  <2> QED BY <1>1, <1>3, <2>1 DEF Entry, DirectorySector
<1>4. CASE ~ (At(EntryLba(i)) # Zero /\ At(EntryLba(i)).kind = "directory")
  BY <1>4 DEF Entry, NoEntry, EntryType
<1> QED BY <1>3, <1>4

\* A sector that is no directory, wherever it is written, shows no entry that
\* was not there.
LEMMA NoNewEntry ==
    ASSUME image \in Seq(Sector), NEW lba \in Nat, NEW s \in Sector,
           s # Zero => s.kind # "directory", Write(lba, s),
           NEW i \in Visible'
    PROVE  /\ i \in Visible /\ Entry(i)' = Entry(i)
           /\ EntryLba(i) # lba
<1>1. i \in Index /\ EntryLba(i) \in Nat
  <2>1. i \in Index
    BY DEF Visible, Index
  <2> QED BY <2>1, DirectoryGeometry, T32DiskAssumption
<1> DEFINE at == EntryLba(i)
<1>2. /\ at < Len(image')
      /\ image'[at + 1] # Zero /\ image'[at + 1].kind = "directory"
  BY <1>1 DEF Visible, Readable, Has, At, Entry, NoEntry, EntryLba
<1>3. at # lba /\ at < Len(image) /\ image'[at + 1] = image[at + 1]
  <2> HIDE DEF at
  <2>1. Len(image) \in Nat /\ at \in Nat
    BY <1>1, ImageSectors DEF at
  <2>2. Len(image') = IF Len(image) > lba THEN Len(image) ELSE lba + 1
    BY WriteEffect
  <2>3. at # lba
    BY <1>2, WriteEffect
  <2>4. at < Len(image)
    <3> SUFFICES ASSUME Len(image) <= at PROVE FALSE
      BY <2>1
    <3>1. at < lba
      BY <1>2, <2>1, <2>2, <2>3
    <3> QED BY <1>2, <2>1, <3>1, WriteEffect
  <2> QED BY <2>1, <2>3, <2>4, WriteEffect
<1>4. Entry(i)' = Entry(i)
  BY <1>3 DEF Entry, At, EntryLba
<1> QED BY <1>1, <1>3, <1>4 DEF Visible, Readable, Has

\* write_dirent enters its entry, and what else is there was there before.
LEMMA WriteEntryEffect ==
    ASSUME image \in Seq(Sector), NEW i \in Index, Readable(i),
           NEW entry \in EntryType, WriteEntry(i, entry)
    PROVE  /\ image' \in Seq(Sector) /\ Len(image') = Len(image)
           /\ \A k \in Nat : k < Len(image) /\ k # EntryLba(i) =>
                  image'[k + 1] = image[k + 1]
           /\ image'[EntryLba(i) + 1] \in DirectorySector
           /\ \A j \in Visible' : IF j = i THEN Entry(j)' = entry
                                 ELSE j \in Visible /\ Entry(j)' = Entry(j)
<1> DEFINE at == EntryLba(i)
           sector == At(at)
           old == IF sector # Zero /\ sector.kind = "directory"
                  THEN sector.entries ELSE NoEntries
           new == [old EXCEPT ![i % EntriesPerSector] = entry]
<1>1. at \in Nat /\ at < Len(image) /\ Len(image) \in Nat
      /\ i % EntriesPerSector \in 0 .. EntriesPerSector - 1
  BY DirectoryGeometry, ImageSectors, T32DiskAssumption DEF Readable, Has
<1>2. old \in [0 .. EntriesPerSector - 1 -> EntryType]
  <2>1. CASE sector # Zero /\ sector.kind = "directory"
    <3>1. sector \in Sector
      BY <1>1, ImageSectors DEF Has
    <3>2. sector \in DirectorySector
      BY <2>1, <3>1 DEF Sector, HeaderSector, PayloadSector
    <3> QED BY <2>1, <3>2 DEF DirectorySector
  <2>2. CASE ~ (sector # Zero /\ sector.kind = "directory")
    BY <2>2 DEF NoEntries, NoEntry, EntryType
  <2> QED BY <2>1, <2>2
<1>3. new \in [0 .. EntriesPerSector - 1 -> EntryType]
  BY <1>1, <1>2
<1>4. Directory(new) \in DirectorySector /\ Directory(new) \in Sector
      /\ Directory(new).entries = new
  BY <1>3 DEF Directory, DirectorySector, Sector
<1>5. Write(at, Directory(new))
  BY DEF WriteEntry
<1>6. /\ image' \in Seq(Sector) /\ Len(image') = Len(image)
      /\ \A k \in Nat : k < Len(image) /\ k # at => image'[k + 1] = image[k + 1]
      /\ image'[at + 1] = Directory(new)
  <2> HIDE DEF new, at
  <2> QED BY <1>1, <1>4, <1>5, WriteEffect
<1>7. ASSUME NEW j \in Visible'
      PROVE  IF j = i THEN Entry(j)' = entry
             ELSE j \in Visible /\ Entry(j)' = Entry(j)
  <2> DEFINE there == EntryLba(j)
  <2>1. j \in Index
    BY DEF Visible, Index
  <2>2. /\ there \in Nat
        /\ j % EntriesPerSector \in 0 .. EntriesPerSector - 1
    BY <2>1, DirectoryGeometry, T32DiskAssumption
  <2>3. /\ there < Len(image)
        /\ image'[there + 1] # Zero /\ image'[there + 1].kind = "directory"
        /\ Entry(j)' = image'[there + 1].entries[j % EntriesPerSector]
        /\ Entry(j)'.name # ""
    BY <1>6 DEF Visible, Readable, Has, At, Entry, NoEntry, EntryLba
  <2>4. CASE there # at
    <3>1. image'[there + 1] = image[there + 1]
      BY <1>6, <2>2, <2>3, <2>4
    <3>2. Entry(j)' = Entry(j)
      BY <2>3, <3>1 DEF Entry, At, EntryLba
    <3> QED BY <2>1, <2>3, <2>4, <3>2 DEF Visible, Readable, Has
  <2>5. CASE there = at
    <3>1. Entry(j)' = new[j % EntriesPerSector]
      BY <1>4, <1>6, <2>3, <2>5
    <3>2. CASE j % EntriesPerSector = i % EntriesPerSector
      <4>1. j = i
        BY <2>1, <2>5, <3>2, EntryPlace
      <4> QED BY <1>1, <1>2, <3>1, <4>1
    <3>3. CASE j % EntriesPerSector # i % EntriesPerSector
      <4>1. Entry(j)' = old[j % EntriesPerSector]
        BY <1>2, <2>2, <3>1, <3>3
      <4>2. ASSUME ~ (sector # Zero /\ sector.kind = "directory") PROVE FALSE
        <5>1. old[j % EntriesPerSector] = NoEntry
          BY <2>2, <4>2 DEF NoEntries
        <5> HIDE DEF old
        <5>2. Entry(j)' = NoEntry
          BY <4>1, <5>1
        <5>3. NoEntry.name = ""
          BY DEF NoEntry
        <5> QED BY <2>3, <5>2, <5>3
      <4>3. Entry(j) = old[j % EntriesPerSector]
        BY <2>5, <4>2 DEF Entry
      <4> QED BY <2>1, <2>3, <3>3, <4>1, <4>3 DEF Visible, Readable, Has
    <3> QED BY <3>2, <3>3
  <2> QED BY <2>4, <2>5
<1> QED BY <1>4, <1>6, <1>7

-----------------------------------------------------------------------------
(***************************************************************************)
(* What the searches find.                                                 *)
(***************************************************************************)
\* Entries in front of a readable one are readable.
LEMMA ReadableBefore ==
    ASSUME image \in Seq(Sector), NEW i \in Index, Readable(i),
           NEW j \in 0 .. i
    PROVE  Readable(j)
BY DirectoryGeometry, ImageSectors, T32DiskAssumption DEF Readable, Has, Index

\* find_entry finds a name that is there: the first entry with it.
LEMMA FindsWhatIsThere ==
    ASSUME image \in Seq(Sector), NEW name \in Name, ~ Finds(name),
           NEW i \in Visible
    PROVE  Entry(i).name # Upper[name]
<1> SUFFICES ASSUME Entry(i).name = Upper[name] PROVE FALSE
  OBVIOUS
<1> DEFINE S == {j \in Index : Readable(j) /\ Entry(j).name = Upper[name]}
<1>1. S \in SUBSET Nat /\ S # {}
  <2>1. Index \subseteq Nat
    BY DirectoryGeometry DEF Index
  <2>2. i \in S
    BY DEF Visible, Index
  <2> QED BY <2>1, <2>2
<1>2. PICK j \in S : \A k \in S : j <= k
  BY <1>1, LeastNumber
<1>3. j \in Index /\ j \in Nat /\ \A k \in 0 .. j : k \in Index /\ Readable(k)
  BY <1>1, ReadableBefore, DirectoryGeometry
<1>4. \A k \in 0 .. j - 1 : Entry(k).name # Upper[name]
  <2> SUFFICES ASSUME NEW k \in 0 .. j - 1, Entry(k).name = Upper[name]
               PROVE FALSE
    OBVIOUS
  <2>1. k \in S /\ k < j
    BY <1>3
  <2> QED BY <1>1, <1>2, <2>1
<1>5. FirstWith(j, Upper[name])
  BY <1>3, <1>4 DEF FirstWith
<1> QED BY <1>3, <1>5 DEF Finds

\* first_free_dirent finds a readable entry.
LEMMA FreeIsReadable ==
    ASSUME NEW i \in Index, IsFree(i)
    PROVE  Readable(i)
<1>1. i \in 0 .. i
  BY DirectoryGeometry DEF Index
<1> QED BY <1>1 DEF IsFree, FirstWith

\* next_free_lba: 0 when it cannot read the directory, which then is cut off;
\* else behind all it can see.
LEMMA NextFreeLbaIsFree ==
    ASSUME image \in Seq(Sector)
    PROVE  /\ NextFreeLba \in Nat
           /\ NextFreeLba = 0 \/ NextFreeLba >= DataStart
           /\ NextFreeLba = 0 => Len(image) <= DirectorySectors
           /\ NextFreeLba # 0 => \A i \in Visible :
                 Entry(i).start + Sectors(Entry(i).length) <= NextFreeLba
<1>1. CASE \E i \in Index : ~ Readable(i)
  <2>1. NextFreeLba = 0
    BY <1>1 DEF NextFreeLba
  <2>2. PICK i \in Index : ~ Readable(i)
    BY <1>1
  <2>3. Len(image) <= DirectorySectors
    BY <2>2, DirectoryGeometry, ImageSectors, T32DiskAssumption
       DEF Readable, Has
  <2> QED BY <2>1, <2>3
<1>2. CASE \A i \in Index : Readable(i)
  <2> DEFINE J == {j \in Index : Entry(j).name # ""}
             end(j) == Entry(j).start + Sectors(Entry(j).length)
             S == {DataStart} \cup {end(j) : j \in J}
  <2>1. \A j \in J : j \in Index /\ end(j) \in Nat
    <3> SUFFICES ASSUME NEW j \in J PROVE j \in Index /\ end(j) \in Nat
      OBVIOUS
    <3>1. Entry(j) \in EntryType
      BY <1>2, EntryTyped
    <3>2. Entry(j).start \in Nat /\ Entry(j).length \in Nat
      BY <3>1 DEF EntryType
    <3>3. Sectors(Entry(j).length) \in Nat
      BY <3>2, SectorsIsNat
    <3>4. end(j) \in Nat
      <4> HIDE DEF J
      <4> QED BY <3>2, <3>3
    <3> QED BY <3>4
  <2>2. S \subseteq Nat
    BY <2>1, T32DiskAssumption
  <2>3. \E x \in S : \A y \in S : x >= y
    <3>1. CASE J = {}
      <4> HIDE DEF J, end
      <4>1. S = {DataStart} /\ DataStart \in Int
        BY <3>1, T32DiskAssumption
      <4> HIDE DEF S
      <4> QED BY <4>1
    <3>2. CASE J # {}
      <4> DEFINE f == [j \in J |-> end(j)]
      <4>1. IsFiniteSet(J)
        <5>1. IsFiniteSet(Index)
          BY FS_Interval, DirectoryGeometry DEF Index
        <5>2. J \in SUBSET Index
          OBVIOUS
        <5> QED BY <5>1, <5>2, FS_Subset
      <4>2. f \in [J -> Int] /\ \A j \in J : f[j] = end(j)
        <5> HIDE DEF J, end
        <5> QED BY <2>1
      <4> HIDE DEF f, J
      <4>3. PICK m \in J : \A j \in J : f[j] <= f[m]
        BY <3>2, <4>1, <4>2, GreatestOfFinite
      <4>4. \A j \in J : end(j) <= end(m)
        BY <4>2, <4>3
      <4>5. /\ DataStart \in Int /\ end(m) \in Int
            /\ DataStart \in S /\ end(m) \in S
            /\ \A j \in J : end(j) \in Int
        BY <2>1, T32DiskAssumption
      <4> HIDE DEF end
      <4>6. CASE DataStart >= end(m)
        BY <4>4, <4>5, <4>6
      <4>7. CASE end(m) > DataStart
        BY <4>4, <4>5, <4>7
      <4> QED BY <4>5, <4>6, <4>7
    <3> QED BY <3>1, <3>2
  <2>4. Max(S) \in S /\ \A y \in S : Max(S) >= y
    <3> HIDE DEF S
    <3> QED BY <2>3 DEF Max
  <2>5. NextFreeLba = Max(S)
    BY <1>2 DEF NextFreeLba
  <2>6. NextFreeLba \in Nat /\ NextFreeLba >= DataStart
    BY <2>2, <2>4, <2>5, T32DiskAssumption
  <2>7. \A i \in Visible : end(i) <= NextFreeLba
    BY <2>1, <2>4, <2>5, <2>6 DEF Visible
  <2> QED BY <2>6, <2>7, T32DiskAssumption
<1> QED BY <1>1, <1>2

-----------------------------------------------------------------------------
(***************************************************************************)
(* Types.                                                                  *)
(***************************************************************************)
\* The command under way is told by its name.
LEMMA OpByCommand ==
    ASSUME TypeOK
    PROVE  /\ op.command = "create" => op \in CreateOp
           /\ op.command = "format" => op \in FormatOp
           /\ op.command = "put" => op \in PutOp
           /\ op = Idle => op.command = "none"
           /\ op \in CreateOp \cup FormatOp \cup PutOp => op # Idle
BY DEF TypeOK, Idle, CreateOp, FormatOp, PutOp

\* The three writes that are no directory entry.
LEMMA FormatWrites ==
    ASSUME TypeOK, Format
    PROVE  /\ Header(Len(image)) \in Sector
           /\ Header(Len(image)).kind = "header"
           /\ Write(0, Header(Len(image)))
<1>1. Len(image) \in Nat
  BY ImageSectors DEF TypeOK
<1> QED BY <1>1 DEF Format, Header, Sector, HeaderSector

LEMMA ClearWrites ==
    ASSUME TypeOK, ClearSector
    PROVE  /\ op \in FormatOp /\ Zero \in Sector
           /\ DirectoryLba + op.cleared \in 1 .. DirectorySectors
           /\ Write(DirectoryLba + op.cleared, Zero)
BY OpByCommand, T32DiskAssumption
   DEF ClearSector, FormatOp, Sector, DirectoryLba

LEMMA PutWrites ==
    ASSUME TypeOK, PutSector
    PROVE  /\ op \in PutOp
           /\ op.start + op.done \in Nat
           /\ Payload(op.file, op.done) \in Sector
           /\ Payload(op.file, op.done).kind = "payload"
           /\ Write(op.start + op.done, Payload(op.file, op.done))
           /\ op' = [op EXCEPT !.done = op.done + 1]
BY OpByCommand DEF PutSector, PutOp, Payload, Sector, PayloadSector

\* The entry that ends a put, and the step that writes it.
PutsEntry == [name |-> op.name, start |-> op.start, length |-> HostSize[op.file]]
EntersFile ==
    /\ PutEntry
    /\ WriteEntry(op.index, PutsEntry)
    /\ stored' = [stored EXCEPT ![op.name] = op.file]

LEMMA EntryWrites ==
    ASSUME TypeOK, EntersFile
    PROVE  /\ op \in PutOp /\ op.index \in Index /\ Readable(op.index)
           /\ PutsEntry \in EntryType
<1>1. op \in PutOp
  BY OpByCommand DEF EntersFile, PutEntry
<1>2. HostSize[op.file] \in Nat
  BY <1>1, T32DiskAssumption DEF PutOp
<1> QED BY <1>1, <1>2
        DEF EntersFile, PutEntry, PutOp, TypeOK, Readable, Has, PutsEntry, EntryType

LEMMA TypeStep ==
    ASSUME TypeOK, [Next]_vars
    PROVE  TypeOK'
<1> USE DEF TypeOK
<1>1. ASSUME NEW s \in Sizes, Create(s) PROVE TypeOK'
  BY <1>1 DEF Create, Begins, CreateOp
<1>2. CASE CreateEnds
  <2>1. op \in CreateOp
    BY <1>2, OpByCommand DEF CreateEnds
  <2>2. image' \in Seq(Sector)
    <3>1. CASE image' = [t \in 1 .. op.sectors |-> Zero]
      <4>1. op.sectors \in Nat
        BY <2>1, T32DiskAssumption DEF CreateOp
      <4> QED BY <3>1, <4>1 DEF Sector
    <3>2. CASE UNCHANGED image
      BY <3>2
    <3> QED BY <1>2, <3>1, <3>2 DEF CreateEnds
  <2> QED BY <1>2, <2>2 DEF CreateEnds, Ends, Idle
<1>3. CASE Format
  <2>1. image' \in Seq(Sector)
    BY <1>3, FormatWrites, WriteEffect
  <2>2. [command |-> "format", cleared |-> 0] \in FormatOp
    BY T32DiskAssumption DEF FormatOp
  <2> QED BY <1>3, <2>1, <2>2 DEF Format, Begins
<1>4. CASE ClearSector
  <2>1. image' \in Seq(Sector)
    BY <1>4, ClearWrites, WriteEffect
  <2>2. op' \in {Idle} \cup FormatOp
    <3>1. op \in FormatOp
      BY <1>4, ClearWrites
    <3>2. CASE op.cleared + 1 = DirectorySectors
      BY <1>4, <3>2 DEF ClearSector, Ends, Idle
    <3>3. CASE op.cleared + 1 # DirectorySectors
      <4>1. op.cleared + 1 \in 0 .. DirectorySectors - 1
        BY <3>1, <3>3, T32DiskAssumption DEF FormatOp
      <4>2. op' = [op EXCEPT !.cleared = op.cleared + 1]
        BY <1>4, <3>3 DEF ClearSector
      <4> QED BY <3>1, <4>1, <4>2 DEF FormatOp
    <3> QED BY <3>2, <3>3
  <2> QED BY <1>4, <2>1, <2>2 DEF ClearSector, FormatOp, Idle
<1>5. CASE LastClearFails
  BY <1>5 DEF LastClearFails, Ends, Idle
<1>6. ASSUME NEW h \in HostFile, NEW n \in Name, Put(h, n) PROVE TypeOK'
  <2>1. PICK i \in Index :
          /\ IsFree(i)
          /\ op' = [command |-> "put", file |-> h, name |-> Upper[n], index |-> i,
                    start |-> NextFreeLba, done |-> 0]
    BY <1>6 DEF Put, Begins
  <2>2. op' \in PutOp
    BY <2>1, NextFreeLbaIsFree, T32DiskAssumption DEF PutOp
  <2>3. EntryLba(op'.index) < Len(image')
    <3>1. Readable(i)
      BY <2>1, FreeIsReadable
    <3>2. op'.index = i /\ image' = image
      BY <1>6, <2>1 DEF Put
    <3> QED BY <3>1, <3>2 DEF Readable, Has
  <2> QED BY <1>6, <2>2, <2>3 DEF Put
<1>7. CASE PutSector
  <2>1. image' \in Seq(Sector)
    BY <1>7, PutWrites, WriteEffect
  <2>2. op' \in PutOp
    <3>1. op \in PutOp /\ op.done + 1 \in Nat
      BY <1>7, PutWrites DEF PutOp
    <3> QED BY <1>7, <3>1, PutWrites DEF PutOp
  <2>3. EntryLba(op'.index) < Len(image')
    <3>1. op'.index = op.index /\ op.index \in Index
      BY <1>7, PutWrites DEF PutOp
    <3>2. Len(image') >= Len(image) /\ Len(image) \in Nat
      <4>1. Len(image) \in Nat /\ op.start + op.done \in Nat
        BY <1>7, PutWrites, ImageSectors
      <4>2. Len(image') = IF Len(image) > op.start + op.done THEN Len(image)
                          ELSE op.start + op.done + 1
        BY <1>7, PutWrites, WriteEffect
      <4> QED BY <4>1, <4>2
    <3>3. EntryLba(op.index) \in Nat
      BY <3>1, DirectoryGeometry, T32DiskAssumption
    <3>4. EntryLba(op.index) < Len(image)
      BY <1>7 DEF PutSector
    <3> QED BY <3>1, <3>2, <3>3, <3>4
  <2> QED BY <1>7, <2>1, <2>2, <2>3 DEF PutSector
<1>8. CASE PutEntry
  <2>1. op \in PutOp
    BY <1>8, OpByCommand DEF PutEntry
  <2>2. image' \in Seq(Sector)
    <3>1. CASE UNCHANGED image
      BY <3>1
    <3>2. CASE EntersFile
      BY <3>2, EntryWrites, WriteEntryEffect DEF EntersFile
    <3> QED BY <1>8, <3>1, <3>2 DEF PutEntry, EntersFile, PutsEntry
  <2>3. stored' \in [Name -> HostFile \cup {"none"}]
    <3>1. op.name \in Name /\ op.file \in HostFile
      BY <2>1 DEF PutOp
    <3> QED BY <1>8, <3>1 DEF PutEntry
  <2> QED BY <1>8, <2>2, <2>3 DEF PutEntry, Ends, Idle
<1>9. ASSUME NEW n \in Name, Get(n) PROVE TypeOK'
  BY <1>9 DEF Get, Ends, Idle
<1>10. CASE Refused
  BY <1>10 DEF Refused, Ends, Idle
<1>11. CASE WriteFails
  BY <1>11 DEF WriteFails, Ends, Idle
<1>12. CASE Killed
  BY <1>12 DEF Killed, Ends, Idle
<1>13. CASE Cut
  <2>1. PICK n \in 0 .. Len(image) - 1 : image' = SubSeq(image, 1, n)
    BY <1>13 DEF Cut
  <2>2. image' \in Seq(Sector)
    <3>1. n \in Int /\ \A i \in 1 .. n : image[i] \in Sector
      BY <2>1
    <3> QED BY <2>1, <3>1, SubSeqProperties
  <2> QED BY <1>13, <2>2 DEF Cut, Idle
<1>14. CASE UNCHANGED vars
  BY <1>14 DEF vars
<1> QED BY <1>1, <1>2, <1>3, <1>4, <1>5, <1>6, <1>7, <1>8, <1>9, <1>10, <1>11,
           <1>12, <1>13, <1>14 DEF Next

-----------------------------------------------------------------------------
(***************************************************************************)
(* What the steps leave of the directory.                                  *)
(***************************************************************************)
LEMMA CutKeeps ==
    ASSUME image \in Seq(Sector), Cut
    PROVE  /\ Len(image') \in Nat /\ Len(image') < Len(image)
           /\ \A k \in Nat : k < Len(image') => image'[k + 1] = image[k + 1]
<1>1. PICK n \in 0 .. Len(image) - 1 : image' = SubSeq(image, 1, n)
  BY DEF Cut
<1>2. n \in Int /\ n < Len(image) /\ \A i \in 1 .. n : image[i] \in Sector
  BY <1>1
<1>3. Len(image') = n /\ \A i \in 1 .. n : image'[i] = image[i]
  BY <1>1, <1>2, SubSeqProperties
<1> QED BY <1>1, <1>2, <1>3

\* An image whose sectors are what they were, or are gone, shows no new entry.
LEMMA SameSectorsNoNewEntry ==
    ASSUME \A k \in Nat : k < Len(image') =>
               k < Len(image) /\ image'[k + 1] = image[k + 1],
           NEW i \in Visible'
    PROVE  i \in Visible /\ Entry(i)' = Entry(i)
<1>1. i \in Index
  BY DEF Visible, Index
<1>2. EntryLba(i) \in Nat
  BY <1>1, DirectoryGeometry, T32DiskAssumption
<1>3. EntryLba(i) < Len(image') /\ Entry(i)'.name # ""
  BY DEF Visible, Readable, Has, EntryLba
<1>4. EntryLba(i) < Len(image) /\ Entry(i)' = Entry(i)
  BY <1>2, <1>3 DEF Entry, At, EntryLba
<1> QED BY <1>1, <1>3, <1>4 DEF Visible, Readable, Has

LEMMA ZerosShowNothing ==
    ASSUME \A k \in Nat : k < Len(image') => image'[k + 1] = Zero
    PROVE  Visible' = {}
<1> SUFFICES ASSUME NEW i \in Visible' PROVE FALSE
  OBVIOUS
<1>1. i \in Index
  BY DEF Visible, Index
<1>2. EntryLba(i) \in Nat
  BY <1>1, DirectoryGeometry, T32DiskAssumption
<1>3. EntryLba(i) < Len(image') /\ Entry(i)'.name # ""
  BY DEF Visible, Readable, Has, EntryLba
<1>4. Entry(i)' = NoEntry
  BY <1>2, <1>3 DEF Entry, At, EntryLba
<1>5. NoEntry.name = ""
  BY DEF NoEntry
<1> QED BY <1>3, <1>4, <1>5

\* Only the end of a put makes a file visible, or changes what is stored.
LEMMA OnlyPutEnters ==
    ASSUME TypeOK, [Next]_vars, ~ EntersFile
    PROVE  /\ stored' = stored
           /\ \A i \in Visible' : i \in Visible /\ Entry(i)' = Entry(i)
<1> USE DEF TypeOK
<1> DEFINE kept == /\ stored' = stored
                   /\ \A i \in Visible' : i \in Visible /\ Entry(i)' = Entry(i)
<1>1. CASE UNCHANGED <<image, stored>>
  BY <1>1, SameSectorsNoNewEntry
<1>2. ASSUME NEW s \in Sizes, Create(s) PROVE kept
  <2>1. Len(image') = 0
    BY <1>2 DEF Create
  <2> QED BY <1>2, <2>1, SameSectorsNoNewEntry DEF Create
<1>3. CASE CreateEnds
  <2>1. CASE image' = [t \in 1 .. op.sectors |-> Zero]
    <3>1. op.sectors \in Nat
      BY <1>3, OpByCommand, T32DiskAssumption DEF CreateEnds, CreateOp
    <3>2. \A k \in Nat : k < Len(image') => image'[k + 1] = Zero
      BY <2>1, <3>1
    <3> QED BY <1>3, <3>2, ZerosShowNothing DEF CreateEnds
  <2> QED BY <1>1, <1>3, <2>1 DEF CreateEnds
<1>4. CASE Format
  BY <1>4, FormatWrites, NoNewEntry DEF Format
<1>5. CASE ClearSector
  BY <1>5, ClearWrites, NoNewEntry, T32DiskAssumption DEF ClearSector
<1>6. CASE PutSector
  BY <1>6, PutWrites, NoNewEntry DEF PutSector
<1>7. CASE PutEntry
  BY <1>1, <1>7 DEF PutEntry, EntersFile, PutsEntry
<1>8. CASE Cut
  <2>1. Len(image) \in Nat
    BY ImageSectors
  <2> QED BY <1>8, <2>1, CutKeeps, SameSectorsNoNewEntry DEF Cut
<1> QED BY <1>1, <1>2, <1>3, <1>4, <1>5, <1>6, <1>7, <1>8
        DEF Next, vars, LastClearFails, Put, Get, Refused, WriteFails, Killed

-----------------------------------------------------------------------------
(***************************************************************************)
(* Names.                                                                  *)
(***************************************************************************)
LEMMA OneEntryStep ==
    ASSUME TypeOK, OneEntryPerName, [Next]_vars
    PROVE  OneEntryPerName'
<1>1. CASE EntersFile
  <2>1. /\ op \in PutOp /\ op.index \in Index /\ Readable(op.index)
        /\ PutsEntry \in EntryType
    BY <1>1, EntryWrites
  <2>2. \A i \in Visible' : IF i = op.index THEN Entry(i)' = PutsEntry
                           ELSE i \in Visible /\ Entry(i)' = Entry(i)
    BY <1>1, <2>1, WriteEntryEffect DEF TypeOK, EntersFile
  <2>3. \A i \in Visible : Entry(i).name # op.name
    BY <1>1 DEF EntersFile, PutEntry, OneEntryPerName, PutIsNew
  <2>4. /\ op.name \in Name /\ op.file \in HostFile
        /\ stored' = [stored EXCEPT ![op.name] = op.file]
        /\ PutsEntry.name = op.name /\ PutsEntry.length = HostSize[op.file]
    BY <1>1, <2>1 DEF EntersFile, PutOp, PutsEntry
  <2>5. \A i \in Visible : Entry(i).name \in Name
    BY EntryTyped DEF TypeOK, Visible, EntryType
  <2>6. DirectorySound'
    <3>1. ASSUME NEW i \in Visible'
          PROVE  /\ stored'[Entry(i)'.name] \in HostFile
                 /\ Entry(i)'.length = HostSize[stored'[Entry(i)'.name]]
      <4>1. CASE i = op.index
        BY <2>2, <2>4, <4>1 DEF TypeOK
      <4>2. CASE i # op.index
        <5>1. i \in Visible /\ Entry(i)' = Entry(i)
          BY <2>2, <4>2
        <5>2. stored'[Entry(i).name] = stored[Entry(i).name]
          BY <2>3, <2>4, <2>5, <5>1 DEF TypeOK
        <5> QED BY <5>1, <5>2 DEF OneEntryPerName, DirectorySound
      <4> QED BY <4>1, <4>2
    <3>2. ASSUME NEW i \in Visible', NEW j \in Visible',
                 Entry(i)'.name = Entry(j)'.name
          PROVE  i = j
      BY <2>2, <2>3, <2>4, <3>2 DEF OneEntryPerName, DirectorySound
    <3> QED BY <3>1, <3>2 DEF DirectorySound
  <2> QED BY <1>1, <2>6
          DEF EntersFile, PutEntry, Ends, Idle, OneEntryPerName, PutIsNew
<1>2. CASE ~ EntersFile
  <2>1. /\ stored' = stored
        /\ \A i \in Visible' : i \in Visible /\ Entry(i)' = Entry(i)
    BY <1>2, OnlyPutEnters
  <2>2. DirectorySound'
    BY <2>1 DEF OneEntryPerName, DirectorySound
  <2>3. PutIsNew'
    <3>1. ASSUME NEW h \in HostFile, NEW n \in Name, Put(h, n)
          PROVE  PutIsNew'
      <4>1. op'.name = Upper[n]
        BY <3>1 DEF Put, Begins
      <4>2. \A i \in Visible : Entry(i).name # Upper[n]
        BY <3>1, FindsWhatIsThere DEF Put, TypeOK
      <4> QED BY <2>1, <4>1, <4>2 DEF PutIsNew
    <3>2. CASE PutSector
      <4>1. op'.name = op.name /\ op.command = "put"
        BY <3>2, PutWrites DEF PutSector, PutOp
      <4> QED BY <2>1, <4>1 DEF OneEntryPerName, PutIsNew
    <3>3. CASE UNCHANGED op
      BY <2>1, <3>3 DEF OneEntryPerName, PutIsNew
    <3>4. CASE op'.command # "put"
      BY <3>4 DEF PutIsNew
    <3>5. ClearSector => op'.command # "put"
      BY OpByCommand, ClearWrites DEF ClearSector, Ends, Idle, FormatOp
    <3> QED BY <3>1, <3>2, <3>3, <3>4, <3>5
            DEF Next, vars, Create, Begins, CreateEnds, Ends, Idle, Format,
                LastClearFails, PutEntry, Get, Refused, WriteFails, Killed, Cut
  <2> QED BY <2>2, <2>3 DEF OneEntryPerName
<1> QED BY <1>1, <1>2

LEMMA InitIInv == Init => IInv
<1> SUFFICES ASSUME Init PROVE IInv
  OBVIOUS
<1>1. Len(image) = 0 /\ image = << >> /\ op.command = "none" /\ op = Idle
  BY DEF Init, Idle
<1>2. Visible = {}
  <2>1. \A i \in Index : ~ Readable(i)
    BY <1>1, DirectoryGeometry, T32DiskAssumption DEF Readable, Has
  <2> QED BY <2>1 DEF Visible
<1>3. TypeOK
  BY <1>1 DEF TypeOK, Init
<1> QED BY <1>1, <1>2, <1>3, T32DiskAssumption
        DEF IInv, OneEntryPerName, DirectorySound, PutIsNew, PutInOrder, OwnData,
            FormatHasRoom, UncutIsWhole, GetEnded, ExtractedMatches, Init, Formatted, Has

\* A guest name, however it is typed, names one file: put_file looks the name
\* up before it writes, and find_entry reads every entry in front of a free one.
THEOREM NamesStayUnique == Spec => []NamesUnique
<1>1. Init => TypeOK /\ OneEntryPerName
  BY InitIInv DEF IInv
<1>2. TypeOK /\ OneEntryPerName /\ [Next]_vars => (TypeOK /\ OneEntryPerName)'
  BY TypeStep, OneEntryStep
<1>3. TypeOK /\ OneEntryPerName => NamesUnique
  BY DEF OneEntryPerName, DirectorySound, NamesUnique
<1> QED BY <1>1, <1>2, <1>3, PTL DEF Spec

-----------------------------------------------------------------------------
(***************************************************************************)
(* Data.                                                                   *)
(***************************************************************************)
\* A visible file reserves as many sectors as it fills.
LEMMA VisibleEnds ==
    ASSUME NoWrap, TypeOK, DirectorySound, NEW i \in Visible
    PROVE  /\ Entry(i).name \in Name /\ Entry(i).start \in Nat
           /\ WholeSectors(Entry(i).length) \in Nat
           /\ Sectors(Entry(i).length) = WholeSectors(Entry(i).length)
<1>1. Entry(i) \in EntryType /\ Entry(i).name # ""
  BY EntryTyped DEF TypeOK, Visible
<1>2. PICK h \in HostFile : Entry(i).length = HostSize[h]
  BY DEF DirectorySound
<1> QED BY <1>1, <1>2, SectorsAreWhole, WholeSectorsHold DEF EntryType

LEMMA PutOrderStep ==
    ASSUME NoWrap, TypeOK, OneEntryPerName, PutInOrder, [Next]_vars
    PROVE  PutInOrder'
<1>1. ASSUME NEW h \in HostFile, NEW n \in Name, Put(h, n)
      PROVE  PutInOrder'
  <2>1. /\ op'.start = NextFreeLba /\ op'.done = 0 /\ image' = image
    BY <1>1 DEF Put, Begins
  <2>2. \A i \in Visible' : i \in Visible /\ Entry(i)' = Entry(i)
    <3>1. ~ EntersFile
      BY <1>1 DEF Put, Begins, EntersFile, PutEntry, Idle
    <3> QED BY <3>1, OnlyPutEnters
  <2>3. CASE NextFreeLba = 0
    BY <2>1, <2>3, NextFreeLbaIsFree DEF PutInOrder, TypeOK
  <2>4. CASE NextFreeLba # 0
    <3>1. \A i \in Visible :
             Entry(i).start + WholeSectors(Entry(i).length) <= NextFreeLba
      BY <2>4, VisibleEnds, NextFreeLbaIsFree DEF TypeOK, OneEntryPerName
    <3>2. NextFreeLba >= DataStart
      BY <2>4, NextFreeLbaIsFree DEF TypeOK
    <3> QED BY <1>1, <2>1, <2>2, <2>4, <3>1, <3>2
            DEF PutInOrder, Put, Formatted, Has, At
  <2> QED BY <2>3, <2>4
<1>2. CASE PutSector
  <2> DEFINE lba == op.start + op.done
             sector == Payload(op.file, op.done)
  <2>1. /\ op \in PutOp /\ lba \in Nat /\ op.start \in Nat /\ op.done \in Nat
        /\ op.command = "put" /\ Len(image) \in Nat
    BY <1>2, PutWrites, ImageSectors DEF PutSector, PutOp, TypeOK
  <2>2. /\ op'.start = op.start /\ op'.done = op.done + 1 /\ op'.file = op.file
    BY <1>2, <2>1, PutWrites DEF PutOp
  <2>3. /\ Len(image') = IF Len(image) > lba THEN Len(image) ELSE lba + 1
        /\ image'[lba + 1] = sector
        /\ \A k \in Nat : k < Len(image) /\ k # lba => image'[k + 1] = image[k + 1]
    BY <1>2, PutWrites, WriteEffect DEF TypeOK
  <2>4. \A i \in Visible' : i \in Visible /\ Entry(i)' = Entry(i)
    BY <1>2, PutWrites, NoNewEntry DEF TypeOK
  <2>5. ASSUME NEW k \in 0 .. op'.done - 1
        PROVE  /\ op.start + k < Len(image')
               /\ image'[op.start + k + 1] = Payload(op.file, k)
    <3> HIDE DEF lba
    <3>1. CASE k = op.done
      <4>1. lba = op.start + k /\ lba < Len(image')
        BY <2>1, <2>3, <3>1 DEF lba
      <4> QED BY <2>3, <3>1, <4>1
    <3>2. CASE k # op.done
      <4>1. k \in 0 .. op.done - 1 /\ k \in Nat
        BY <2>1, <2>2, <3>2
      <4>2. /\ op.start + k < Len(image)
            /\ image[op.start + k + 1] = Payload(op.file, k)
        BY <2>1, <4>1 DEF PutInOrder, Has, At
      <4>3. op.start + k # lba /\ op.start + k \in Nat
        BY <2>1, <3>2, <4>1 DEF lba
      <4> QED BY <2>1, <2>3, <4>2, <4>3
    <3> QED BY <3>1, <3>2
  <2>6. CASE op.start = 0
    <3>1. Len(image') <= DirectorySectors \/ Len(image') <= op'.done
      BY <2>1, <2>2, <2>3, <2>6, T32DiskAssumption DEF PutInOrder
    <3> QED BY <2>2, <2>5, <2>6, <3>1 DEF PutInOrder, Has, At
  <2>7. CASE op.start # 0
    <3>1. /\ op'.start >= DataStart
          /\ \A i \in Visible' :
                Entry(i)'.start + WholeSectors(Entry(i)'.length) <= op'.start
      BY <2>1, <2>2, <2>4, <2>7 DEF PutInOrder
    <3>2. Formatted'
      <4>1. Formatted /\ lba > 0
        BY <2>1, <2>7, T32DiskAssumption DEF PutInOrder
      <4>2. 0 < Len(image') /\ image'[0 + 1] = image[0 + 1]
        BY <2>1, <2>3, <4>1 DEF Formatted, Has
      <4> QED BY <4>1, <4>2 DEF Formatted, Has, At
    <3> QED BY <2>2, <2>5, <2>7, <3>1, <3>2 DEF PutInOrder, Has, At, WholeSectors
  <2> QED BY <2>6, <2>7
<1>3. CASE UNCHANGED <<op, image>>
  BY <1>3, SameSectorsNoNewEntry, ImageSectors
     DEF PutInOrder, Formatted, Has, At, WholeSectors, TypeOK
<1>4. CASE op'.command # "put"
  BY <1>4 DEF PutInOrder
<1>5. ClearSector => op'.command # "put"
  BY OpByCommand, ClearWrites DEF ClearSector, Ends, Idle, FormatOp
<1> QED BY <1>1, <1>2, <1>3, <1>4, <1>5
        DEF Next, vars, Create, Begins, CreateEnds, Ends, Idle, Format,
            LastClearFails, PutEntry, Get, Refused, WriteFails, Killed, Cut

\* If a payload lies at lba, it is that of the file entry i shows.
Own(i, lba) ==
    Has(lba) /\ At(lba) # Zero /\ At(lba).kind = "payload" =>
        At(lba) = Payload(stored[Entry(i).name], lba - Entry(i).start)

LEMMA ExtentTyped ==
    ASSUME TypeOK, NEW i \in Visible
    PROVE  /\ Extent(i) \subseteq Nat
           /\ \A lba \in Extent(i) :
                 /\ Entry(i).start <= lba
                 /\ lba < Entry(i).start + WholeSectors(Entry(i).length)
<1>1. Entry(i) \in EntryType
  BY EntryTyped DEF TypeOK, Visible
<1> DEFINE w == WholeSectors(Entry(i).length)
<1>2. Entry(i).start \in Nat /\ w \in Nat
  BY <1>1, WholeSectorsHold DEF EntryType
<1> HIDE DEF w
<1>3. Extent(i) = Entry(i).start .. Entry(i).start + w - 1
  BY DEF Extent, w
<1> QED BY <1>2, <1>3 DEF w

\* Where sectors are what they were, are gone, or are no payload, files that
\* stay visible keep their own data.
LEMMA OwnKept ==
    ASSUME TypeOK, stored' = stored,
           \A i \in Visible' : i \in Visible /\ Entry(i)' = Entry(i),
           \A k \in Nat : k < Len(image') =>
              \/ k < Len(image) /\ image'[k + 1] = image[k + 1]
              \/ image'[k + 1] = Zero
              \/ image'[k + 1].kind # "payload",
           \A i \in Visible : \A lba \in Extent(i) : Own(i, lba)
    PROVE  OwnData'
<1> SUFFICES ASSUME NEW i \in Visible', NEW lba \in Extent(i)',
                    lba < Len(image'), image'[lba + 1] # Zero,
                    image'[lba + 1].kind = "payload"
             PROVE  image'[lba + 1] =
                        Payload(stored'[Entry(i)'.name], lba - Entry(i)'.start)
  BY DEF OwnData, Has, At
<1>1. i \in Visible /\ Entry(i)' = Entry(i)
  OBVIOUS
<1>2. lba \in Extent(i)
  BY <1>1 DEF Extent, WholeSectors
<1>3. lba \in Nat
  BY <1>1, <1>2, ExtentTyped
<1>4. lba < Len(image) /\ image'[lba + 1] = image[lba + 1]
  BY <1>3
<1> QED BY <1>1, <1>2, <1>4 DEF Own, Has, At

\* One sector that is no payload is written.
LEMMA OwnAfterWrite ==
    ASSUME TypeOK, OwnData, Formatted \/ Len(image) > DataStart,
           stored' = stored, NEW w \in Nat, NEW s \in Sector, Write(w, s),
           s = Zero \/ s.kind = "header"
    PROVE  OwnData'
<1>1. \A i \in Visible : \A lba \in Extent(i) : Own(i, lba)
  BY DEF OwnData, Own
<1>2. \A i \in Visible' : i \in Visible /\ Entry(i)' = Entry(i)
  BY NoNewEntry DEF TypeOK
<1>3. ASSUME NEW k \in Nat, k < Len(image')
      PROVE  \/ k < Len(image) /\ image'[k + 1] = image[k + 1]
             \/ image'[k + 1] = Zero
             \/ image'[k + 1].kind # "payload"
  <2>1. Len(image) \in Nat
    BY ImageSectors DEF TypeOK
  <2>2. /\ Len(image') = IF Len(image) > w THEN Len(image) ELSE w + 1
        /\ image'[w + 1] = s
        /\ \A l \in Nat : l < Len(image) /\ l # w => image'[l + 1] = image[l + 1]
        /\ \A l \in Nat : Len(image) <= l /\ l < w => image'[l + 1] = Zero
    BY WriteEffect DEF TypeOK
  <2>3. CASE k = w
    BY <2>2, <2>3
  <2>4. CASE k # w
    BY <1>3, <2>1, <2>2, <2>4
  <2> QED BY <2>3, <2>4
<1> QED BY <1>1, <1>2, <1>3, OwnKept

\* A put at sector 0 has destroyed the header, and every directory sector
\* before the image reaches the data area.
OverHeader == op.command = "put" /\ op.start = 0 /\ op.done > 0
ShowsNothing == ~ Formatted /\ (Len(image) > DataStart => Visible = {})

LEMMA PutOverHeader == TypeOK /\ PutInOrder /\ OverHeader => ShowsNothing
<1> SUFFICES ASSUME TypeOK, PutInOrder, OverHeader PROVE ShowsNothing
  OBVIOUS
<1> USE DEF OverHeader
<1>1. op.done \in Nat
  BY OpByCommand DEF PutOp
<1>2. \A k \in 0 .. op.done - 1 :
         k < Len(image) /\ image[k + 1].kind = "payload"
  <2> SUFFICES ASSUME NEW k \in 0 .. op.done - 1
               PROVE  k < Len(image) /\ image[k + 1].kind = "payload"
    OBVIOUS
  <2>1. Has(op.start + k) /\ At(op.start + k) = Payload(op.file, k)
    BY DEF PutInOrder
  <2>2. op.start + k = k
    OBVIOUS
  <2> QED BY <2>1, <2>2 DEF Has, At, Payload
<1>3. ~ Formatted
  <2>1. 0 \in 0 .. op.done - 1
    BY <1>1
  <2> QED BY <1>2, <2>1 DEF Formatted, At
<1>4. ASSUME Len(image) > DataStart, NEW i \in Visible PROVE FALSE
  <2>1. Len(image) \in Nat
    BY ImageSectors DEF TypeOK
  <2>2. Len(image) <= op.done
    BY <1>4, <2>1, T32DiskAssumption DEF PutInOrder
  <2>3. EntryLba(i) \in 1 .. DirectorySectors
    BY DirectoryGeometry DEF Visible
  <2>4. EntryLba(i) \in 0 .. op.done - 1
    BY <1>1, <1>4, <2>1, <2>2, <2>3, T32DiskAssumption
  <2>5. At(EntryLba(i)).kind = "payload"
    BY <1>2, <2>4 DEF At
  <2>6. Entry(i) = NoEntry
    BY <2>5 DEF Entry
  <2>7. NoEntry.name = ""
    BY DEF NoEntry
  <2> QED BY <1>4, <2>6, <2>7 DEF Visible
<1> QED BY <1>3, <1>4 DEF ShowsNothing

\* A put in the data area writes behind all files.
LEMMA OwnPutSector ==
    ASSUME NoWrap, TypeOK, OneEntryPerName, PutInOrder, PutInOrder', TypeOK',
           OwnData, PutSector
    PROVE  OwnData'
<1> DEFINE w == op.start + op.done
<1>1. /\ op \in PutOp /\ w \in Nat /\ op.start \in Nat /\ op.done \in Nat
      /\ op.command = "put" /\ Len(image) \in Nat
  BY PutWrites, ImageSectors DEF PutSector, PutOp, TypeOK
<1>2. /\ op'.start = op.start /\ op'.done = op.done + 1 /\ op'.command = "put"
  BY <1>1, PutWrites DEF PutOp
<1>3. CASE op.start = 0
  <2>1. OverHeader'
    BY <1>1, <1>2, <1>3 DEF OverHeader
  <2>2. ShowsNothing'
    BY <2>1, PutOverHeader, PTL
  <2> QED BY <2>2 DEF ShowsNothing, OwnData
<1>4. CASE op.start # 0
  <2>1. /\ Formatted
        /\ \A i \in Visible :
              Entry(i).start + WholeSectors(Entry(i).length) <= op.start
    BY <1>1, <1>4 DEF PutInOrder
  <2>2. /\ stored' = stored
        /\ \A i \in Visible' : i \in Visible /\ Entry(i)' = Entry(i)
    BY PutWrites, NoNewEntry DEF TypeOK, PutSector
  <2>3. /\ Len(image') = IF Len(image) > w THEN Len(image) ELSE w + 1
        /\ \A k \in Nat : k < Len(image) /\ k # w => image'[k + 1] = image[k + 1]
        /\ \A k \in Nat : Len(image) <= k /\ k < w => image'[k + 1] = Zero
    BY PutWrites, WriteEffect DEF TypeOK
  <2> SUFFICES ASSUME NEW i \in Visible', NEW lba \in Extent(i)',
                      lba < Len(image'), image'[lba + 1] # Zero,
                      image'[lba + 1].kind = "payload"
               PROVE  image'[lba + 1] =
                          Payload(stored'[Entry(i)'.name], lba - Entry(i)'.start)
    BY DEF OwnData, Has, At
  <2>4. i \in Visible /\ Entry(i)' = Entry(i) /\ lba \in Extent(i)
    BY <2>2 DEF Extent, WholeSectors
  <2>5. lba \in Nat /\ lba < w
    <3>1. /\ lba \in Nat /\ Entry(i).start \in Nat
          /\ WholeSectors(Entry(i).length) \in Nat
          /\ lba < Entry(i).start + WholeSectors(Entry(i).length)
      BY <2>4, ExtentTyped, VisibleEnds DEF OneEntryPerName
    <3> QED BY <1>1, <2>1, <2>4, <3>1
  <2>6. lba < Len(image) /\ image'[lba + 1] = image[lba + 1]
    BY <1>1, <2>3, <2>5
  <2> QED BY <2>1, <2>2, <2>4, <2>6 DEF OwnData, Has, At
<1> QED BY <1>3, <1>4

\* The sectors of a file that is entered are the put file's.
LEMMA EnteredIsPut ==
    ASSUME TypeOK, PutInOrder, EntersFile,
           NEW k \in Nat, k < WholeSectors(HostSize[op.file])
    PROVE  Has(op.start + k) /\ At(op.start + k) = Payload(op.file, k)
<1>1. op \in PutOp /\ op.done \in Nat /\ op.command = "put"
  BY EntryWrites DEF PutOp, EntersFile, PutEntry
<1>2. HostSize[op.file] \in Nat
  BY <1>1, T32DiskAssumption DEF PutOp
<1>3. op.done * SectorSize >= HostSize[op.file]
  <2>1. op.done * SectorSize \in Nat
    BY <1>1, T32DiskAssumption
  <2> QED BY <1>2, <2>1 DEF EntersFile, PutEntry, Remaining
<1>4. WholeSectors(HostSize[op.file]) \in Nat
      /\ op.done >= WholeSectors(HostSize[op.file])
  BY <1>1, <1>2, <1>3, WholeSectorsHold
<1>5. k \in 0 .. op.done - 1
  BY <1>1, <1>4
<1> QED BY <1>1, <1>5 DEF PutInOrder

\* What an entry step changes: one directory sector and one entry.
LEMMA EnterEffect ==
    ASSUME TypeOK, OneEntryPerName, EntersFile
    PROVE  /\ EntryLba(op.index) \in 1 .. DirectorySectors
           /\ Len(image') = Len(image)
           /\ \A k \in Nat : k < Len(image) /\ k # EntryLba(op.index) =>
                  image'[k + 1] = image[k + 1]
           /\ image'[EntryLba(op.index) + 1].kind = "directory"
           /\ op.name \in Name /\ stored'[op.name] = op.file
           /\ \A i \in Visible' :
                 IF i = op.index THEN Entry(i)' = PutsEntry
                 ELSE /\ i \in Visible /\ Entry(i)' = Entry(i)
                      /\ stored'[Entry(i).name] = stored[Entry(i).name]
<1>1. /\ op \in PutOp /\ op.index \in Index /\ Readable(op.index)
      /\ PutsEntry \in EntryType
  BY EntryWrites
<1>2. /\ Len(image') = Len(image)
      /\ \A k \in Nat : k < Len(image) /\ k # EntryLba(op.index) =>
             image'[k + 1] = image[k + 1]
      /\ image'[EntryLba(op.index) + 1] \in DirectorySector
      /\ \A i \in Visible' : IF i = op.index THEN Entry(i)' = PutsEntry
                             ELSE i \in Visible /\ Entry(i)' = Entry(i)
  BY <1>1, WriteEntryEffect DEF TypeOK, EntersFile
<1>3. op.name \in Name /\ stored' = [stored EXCEPT ![op.name] = op.file]
  BY <1>1 DEF EntersFile, PutOp
<1>4. \A i \in Visible : Entry(i).name \in Name /\ Entry(i).name # op.name
  BY EntryTyped
     DEF TypeOK, Visible, EntryType, EntersFile, PutEntry, OneEntryPerName, PutIsNew
<1>5. \A i \in Visible : stored'[Entry(i).name] = stored[Entry(i).name]
  BY <1>3, <1>4 DEF TypeOK
<1>6. stored'[op.name] = op.file
  BY <1>3 DEF TypeOK
<1> QED BY <1>1, <1>2, <1>3, <1>5, <1>6, DirectoryGeometry DEF DirectorySector

LEMMA OwnStep ==
    ASSUME NoWrap, TypeOK, OneEntryPerName, PutInOrder, FormatHasRoom, OwnData,
           TypeOK', PutInOrder', [Next]_vars
    PROVE  OwnData'
<1>1. CASE EntersFile
  <2> DEFINE at == EntryLba(op.index)
  <2>1. /\ at \in 1 .. DirectorySectors /\ Len(image') = Len(image)
        /\ \A k \in Nat : k < Len(image) /\ k # at => image'[k + 1] = image[k + 1]
        /\ image'[at + 1].kind = "directory"
        /\ stored'[op.name] = op.file
        /\ \A i \in Visible' :
              IF i = op.index THEN Entry(i)' = PutsEntry
              ELSE /\ i \in Visible /\ Entry(i)' = Entry(i)
                   /\ stored'[Entry(i).name] = stored[Entry(i).name]
    BY <1>1, EnterEffect
  <2> HIDE DEF at
  <2> SUFFICES ASSUME Formatted' \/ Len(image') > DataStart,
                      NEW i \in Visible', NEW lba \in Extent(i)',
                      lba < Len(image'), image'[lba + 1] # Zero,
                      image'[lba + 1].kind = "payload"
               PROVE  image'[lba + 1] =
                          Payload(stored'[Entry(i)'.name], lba - Entry(i)'.start)
    BY DEF OwnData, Has, At
  <2>2. Formatted \/ Len(image) > DataStart
    <3>1. Formatted' => Formatted
      BY <2>1 DEF Formatted, Has, At
    <3> QED BY <2>1, <3>1
  <2>3. lba # at
    BY <2>1
  <2>4. CASE i = op.index
    <3>1. Entry(i)' = PutsEntry /\ op \in PutOp
      BY <1>1, <2>1, <2>4, EntryWrites
    <3>2. /\ Entry(i)'.start = op.start /\ Entry(i)'.name = op.name
          /\ Entry(i)'.length = HostSize[op.file] /\ op.start \in Nat
      BY <3>1 DEF PutsEntry, PutOp
    <3> DEFINE n == WholeSectors(HostSize[op.file])
    <3>3. n \in Nat
      BY <3>1, WholeSectorsHold, T32DiskAssumption DEF PutOp
    <3>4. lba \in op.start .. op.start + n - 1
      BY <3>2 DEF Extent, WholeSectors
    <3> HIDE DEF n
    <3>5. lba - op.start \in Nat /\ lba - op.start < n /\ lba \in Nat
          /\ op.start + (lba - op.start) = lba
      BY <3>2, <3>3, <3>4
    <3>6. At(lba) = Payload(op.file, lba - op.start) /\ Has(lba)
      BY <1>1, <3>5, EnteredIsPut DEF n
    <3> QED BY <2>1, <2>3, <3>2, <3>5, <3>6 DEF At, Has
  <2>5. CASE i # op.index
    <3>1. /\ i \in Visible /\ Entry(i)' = Entry(i)
          /\ stored'[Entry(i).name] = stored[Entry(i).name]
      BY <2>1, <2>5
    <3>2. lba \in Extent(i)
      BY <3>1 DEF Extent, WholeSectors
    <3>3. lba \in Nat
      BY <3>1, <3>2, ExtentTyped
    <3>4. image'[lba + 1] = image[lba + 1] /\ lba < Len(image)
      BY <2>1, <2>3, <3>3
    <3> QED BY <2>2, <3>1, <3>2, <3>4 DEF OwnData, Has, At
  <2> QED BY <2>4, <2>5
<1>2. CASE ~ EntersFile
  <2>1. /\ stored' = stored
        /\ \A i \in Visible' : i \in Visible /\ Entry(i)' = Entry(i)
    BY <1>2, OnlyPutEnters
  <2>2. CASE UNCHANGED image
    <3>1. ASSUME Formatted' \/ Len(image') > DataStart PROVE OwnData'
      <4>1. \A i \in Visible : \A lba \in Extent(i) : Own(i, lba)
        BY <2>2, <3>1 DEF OwnData, Own, Formatted, Has, At
      <4> QED BY <2>1, <2>2, <4>1, OwnKept
    <3> QED BY <3>1 DEF OwnData
  <2>3. ASSUME NEW n \in Sizes, Create(n) PROVE OwnData'
    <3>1. Len(image') = 0
      BY <2>3 DEF Create
    <3> QED BY <3>1, T32DiskAssumption DEF OwnData, Formatted, Has
  <2>4. CASE CreateEnds
    <3>1. CASE image' = [t \in 1 .. op.sectors |-> Zero]
      <4>1. op.sectors \in Nat
        BY <2>4, OpByCommand, T32DiskAssumption DEF CreateEnds, CreateOp
      <4>2. \A k \in Nat : k < Len(image') => image'[k + 1] = Zero
        BY <3>1, <4>1
      <4> QED BY <4>2, ZerosShowNothing DEF OwnData
    <3> QED BY <2>2, <2>4, <3>1 DEF CreateEnds
  <2>5. CASE Format
    <3>1. Len(image) > DataStart
      BY <2>5 DEF Format
    <3> QED BY <2>1, <2>5, <3>1, FormatWrites, OwnAfterWrite
  <2>6. CASE ClearSector
    <3>1. Len(image) > DataStart
      BY <2>6 DEF ClearSector, FormatHasRoom
    <3>2. DirectoryLba + op.cleared \in Nat
      BY <2>6, ClearWrites, T32DiskAssumption
    <3> QED BY <2>1, <2>6, <3>1, <3>2, ClearWrites, OwnAfterWrite
  <2>7. CASE PutSector
    BY <2>7, OwnPutSector
  <2>8. CASE Cut
    <3>1. ASSUME Formatted' \/ Len(image') > DataStart PROVE OwnData'
      <4>1. /\ Len(image) \in Nat /\ Len(image') < Len(image)
            /\ \A k \in Nat : k < Len(image') => image'[k + 1] = image[k + 1]
            /\ Len(image') \in Nat
        BY <2>8, CutKeeps, ImageSectors DEF TypeOK
      <4>2. Formatted \/ Len(image) > DataStart
        BY <3>1, <4>1, T32DiskAssumption DEF Formatted, Has, At
      <4>3. \A i \in Visible : \A lba \in Extent(i) : Own(i, lba)
        BY <4>2 DEF OwnData, Own
      <4> QED BY <2>1, <4>1, <4>3, OwnKept
    <3> QED BY <3>1 DEF OwnData
  <2> QED BY <1>2, <2>2, <2>3, <2>4, <2>5, <2>6, <2>7, <2>8
          DEF Next, vars, LastClearFails, Put, PutEntry, EntersFile, PutsEntry,
              Get, Refused, WriteFails, Killed
<1> QED BY <1>1, <1>2

\* format runs on an image that has a data area.
LEMMA RoomStep ==
    ASSUME TypeOK, FormatHasRoom, [Next]_vars
    PROVE  FormatHasRoom'
<1>1. Len(image) \in Nat
  BY ImageSectors DEF TypeOK
<1>2. CASE Format
  <2>1. Len(image) > DataStart
    BY <1>2 DEF Format
  <2>2. Len(image') = IF Len(image) > 0 THEN Len(image) ELSE 0 + 1
    BY <1>2, FormatWrites, WriteEffect DEF TypeOK
  <2> QED BY <1>1, <2>1, <2>2, T32DiskAssumption DEF FormatHasRoom
<1>3. CASE ClearSector
  <2> DEFINE w == DirectoryLba + op.cleared
  <2>1. Len(image) > DataStart
    BY <1>3 DEF ClearSector, FormatHasRoom
  <2>2. w \in Nat
    BY <1>3, ClearWrites, T32DiskAssumption
  <2>3. Len(image') = IF Len(image) > w THEN Len(image) ELSE w + 1
    BY <1>3, <2>2, ClearWrites, WriteEffect DEF TypeOK
  <2> HIDE DEF w
  <2> QED BY <1>1, <2>1, <2>2, <2>3, T32DiskAssumption DEF FormatHasRoom
<1>4. CASE UNCHANGED <<op, image>>
  BY <1>4 DEF FormatHasRoom
<1>5. CASE op'.command # "format"
  BY <1>5 DEF FormatHasRoom
<1>6. PutSector => op'.command # "format"
  BY PutWrites DEF PutOp
<1> QED BY <1>2, <1>3, <1>4, <1>5, <1>6
        DEF Next, vars, Create, Begins, CreateEnds, Ends, Idle, Put,
            LastClearFails, PutEntry, Get, Refused, WriteFails, Killed, Cut

\* Entry i of an uncut image shows a whole file of the data area.
WholeFile(i) ==
    /\ Entry(i).start >= DataStart
    /\ \A lba \in Extent(i) :
          /\ Has(lba)
          /\ At(lba) = Payload(stored[Entry(i).name], lba - Entry(i).start)

\* Files stay whole when every write is in front of the data area or behind
\* them, and the image loses nothing.
LEMMA WholeKept ==
    ASSUME TypeOK, NEW i \in Visible, WholeFile(i), Entry(i)' = Entry(i),
           stored'[Entry(i).name] = stored[Entry(i).name],
           Len(image') >= Len(image),
           \A k \in Extent(i) : k < Len(image) => image'[k + 1] = image[k + 1]
    PROVE  WholeFile(i)'
<1> SUFFICES ASSUME NEW lba \in Extent(i)'
             PROVE  /\ lba < Len(image')
                    /\ image'[lba + 1] =
                          Payload(stored'[Entry(i).name], lba - Entry(i).start)
  BY DEF WholeFile, Has, At
<1>1. lba \in Extent(i)
  BY DEF Extent, WholeSectors
<1>2. lba < Len(image) /\ Len(image) \in Nat /\ Len(image') \in Nat /\ lba \in Nat
      /\ image[lba + 1] = Payload(stored[Entry(i).name], lba - Entry(i).start)
  BY <1>1, ExtentTyped, ImageSectors DEF WholeFile, Has, At, TypeOK
<1> QED BY <1>1, <1>2

LEMMA UncutStep ==
    ASSUME NoWrap, TypeOK, OneEntryPerName, PutInOrder, FormatHasRoom,
           UncutIsWhole, [Next]_vars
    PROVE  UncutIsWhole'
<1> SUFFICES ASSUME cuts' = 0
             PROVE  /\ image' = << >> \/ Len(image') > DataStart
                    /\ op'.command = "put" => op'.start >= DataStart
                    /\ \A i \in Visible' : WholeFile(i)'
  BY DEF UncutIsWhole, WholeFile
<1>1. cuts = 0 /\ ~ Cut
  <2>1. cuts \in Nat /\ ~ (cuts + 1 = 0)
    BY DEF TypeOK
  <2> QED BY <2>1
          DEF Cut, Next, vars, Create, CreateEnds, Format, ClearSector, Put,
              PutSector, LastClearFails, PutEntry, Get, Refused, WriteFails, Killed
<1>2. /\ image = << >> \/ Len(image) > DataStart
      /\ op.command = "put" => op.start >= DataStart
      /\ \A i \in Visible : WholeFile(i)
  BY <1>1 DEF UncutIsWhole, WholeFile
<1>3. /\ Len(image) \in Nat /\ DataStart \in Nat /\ DirectorySectors \in Nat
      /\ DirectorySectors < DataStart
  BY ImageSectors, T32DiskAssumption DEF TypeOK
<1>4. \A i \in Visible : \A lba \in Extent(i) : lba \in Nat /\ lba >= DataStart
  <2> SUFFICES ASSUME NEW i \in Visible, NEW lba \in Extent(i)
               PROVE  lba \in Nat /\ lba >= DataStart
    OBVIOUS
  <2>1. lba \in Nat /\ Entry(i).start <= lba
    BY ExtentTyped
  <2>2. Entry(i).start >= DataStart /\ Entry(i).start \in Nat
    BY <1>2, VisibleEnds DEF WholeFile, OneEntryPerName
  <2> QED BY <1>3, <2>1, <2>2
<1>5. CASE EntersFile
  <2> DEFINE at == EntryLba(op.index)
  <2>1. /\ at \in 1 .. DirectorySectors /\ Len(image') = Len(image)
        /\ \A k \in Nat : k < Len(image) /\ k # at => image'[k + 1] = image[k + 1]
        /\ stored'[op.name] = op.file
        /\ \A i \in Visible' :
              IF i = op.index THEN Entry(i)' = PutsEntry
              ELSE /\ i \in Visible /\ Entry(i)' = Entry(i)
                   /\ stored'[Entry(i).name] = stored[Entry(i).name]
    BY <1>5, EnterEffect
  <2> HIDE DEF at
  <2>2. op \in PutOp /\ op.start \in Nat /\ op.start >= DataStart
    BY <1>2, <1>5, EntryWrites DEF PutOp, EntersFile, PutEntry
  <2>3. op'.command # "put"
    BY <1>5 DEF EntersFile, PutEntry, Ends, Idle
  <2>4. image' = << >> \/ Len(image') > DataStart
    <3>1. image # << >>
      <4>1. at < Len(image) /\ at >= 1
        BY <1>5, <2>1, EntryWrites DEF Readable, Has, at
      <4>2. Len(<< >>) = 0
        OBVIOUS
      <4> QED BY <1>3, <2>1, <4>1, <4>2
    <3> QED BY <1>2, <2>1, <3>1
  <2>5. ASSUME NEW i \in Visible' PROVE WholeFile(i)'
    <3>1. CASE i # op.index
      <4>1. /\ i \in Visible /\ Entry(i)' = Entry(i)
            /\ stored'[Entry(i).name] = stored[Entry(i).name]
        BY <2>1, <2>5, <3>1
      <4>2. \A k \in Extent(i) : k < Len(image) => image'[k + 1] = image[k + 1]
        BY <1>3, <1>4, <2>1, <4>1
      <4>3. Len(image') >= Len(image)
        BY <1>3, <2>1
      <4> QED BY <1>2, <4>1, <4>2, <4>3, WholeKept
    <3>2. CASE i = op.index
      <4>1. Entry(i)' = PutsEntry
        BY <2>1, <2>5, <3>2
      <4>2. /\ Entry(i)'.start = op.start /\ Entry(i)'.name = op.name
            /\ Entry(i)'.length = HostSize[op.file]
        BY <4>1 DEF PutsEntry
      <4> DEFINE n == WholeSectors(HostSize[op.file])
      <4>3. n \in Nat
        BY <2>2, WholeSectorsHold, T32DiskAssumption DEF PutOp
      <4> SUFFICES ASSUME NEW lba \in Extent(i)'
                   PROVE  /\ lba < Len(image')
                          /\ image'[lba + 1] = Payload(op.file, lba - op.start)
        BY <2>1, <2>2, <4>2 DEF WholeFile, Has, At
      <4>4. lba \in op.start .. op.start + n - 1
        BY <4>2 DEF Extent, WholeSectors
      <4> HIDE DEF n
      <4>5. /\ lba - op.start \in Nat /\ lba - op.start < n /\ lba \in Nat
            /\ op.start + (lba - op.start) = lba /\ lba >= DataStart
        BY <1>3, <2>2, <4>3, <4>4
      <4>6. At(lba) = Payload(op.file, lba - op.start) /\ Has(lba)
        BY <1>5, <4>5, EnteredIsPut DEF n
      <4>7. lba # at
        BY <1>3, <2>1, <4>5
      <4> QED BY <2>1, <4>5, <4>6, <4>7 DEF At, Has
    <3> QED BY <3>1, <3>2
  <2> QED BY <2>3, <2>4, <2>5
<1>6. CASE ~ EntersFile
  <2>1. /\ stored' = stored
        /\ \A i \in Visible' : i \in Visible /\ Entry(i)' = Entry(i)
    BY <1>6, OnlyPutEnters
  <2>2. ASSUME /\ Len(image') >= Len(image)
               /\ \A i \in Visible : \A k \in Extent(i) :
                     k < Len(image) => image'[k + 1] = image[k + 1]
        PROVE  \A i \in Visible' : WholeFile(i)'
    BY <1>2, <2>1, <2>2, WholeKept
  <2>3. CASE UNCHANGED image
    <3>1. \A i \in Visible' : WholeFile(i)'
      BY <1>3, <2>2, <2>3
    <3>2. op'.command = "put" => op'.start >= DataStart
      <4>1. ASSUME NEW h \in HostFile, NEW n \in Name, Put(h, n)
            PROVE  op'.start >= DataStart
        <5>1. op'.start = NextFreeLba /\ Formatted
          BY <4>1 DEF Put, Begins
        <5>2. Len(image) > DataStart
          BY <1>2, <1>3, <5>1 DEF Formatted, Has
        <5> QED BY <1>3, <5>1, <5>2, NextFreeLbaIsFree DEF TypeOK
      <4>2. PutSector => op'.start = op.start /\ op.command = "put"
        BY PutWrites DEF PutSector, PutOp
      <4>3. ClearSector => op'.command # "put"
        BY OpByCommand, ClearWrites DEF ClearSector, Ends, Idle, FormatOp
      <4> QED BY <1>2, <4>1, <4>2, <4>3
              DEF Next, vars, Create, Begins, CreateEnds, Ends, Idle, Format,
                  LastClearFails, PutEntry, Get, Refused, WriteFails, Killed, Cut
    <3> QED BY <1>2, <2>3, <3>1, <3>2
  <2>4. ASSUME NEW n \in Sizes, Create(n)
        PROVE  /\ image' = << >> /\ op'.command # "put" /\ Visible' = {}
    <3>1. image' = << >> /\ op'.command # "put"
      BY <2>4 DEF Create, Begins
    <3> QED BY <3>1, ZerosShowNothing
  <2>5. ASSUME CreateEnds, image' = [t \in 1 .. op.sectors |-> Zero]
        PROVE  /\ Len(image') > DataStart /\ op'.command # "put" /\ Visible' = {}
    <3>1. op.sectors \in Nat /\ op.sectors > DataStart
      BY <2>5, OpByCommand, T32DiskAssumption DEF CreateEnds, CreateOp
    <3>2. /\ Len(image') = op.sectors
          /\ \A k \in Nat : k < Len(image') => image'[k + 1] = Zero
      BY <2>5, <3>1
    <3> QED BY <2>5, <3>1, <3>2, ZerosShowNothing DEF CreateEnds, Ends, Idle
  <2>6. ASSUME NEW w \in Nat, NEW s \in Sector, Write(w, s),
               Len(image) > DataStart \/ w >= DataStart,
               \A i \in Visible : w \notin Extent(i)
        PROVE  /\ Len(image') > DataStart
               /\ \A i \in Visible' : WholeFile(i)'
    <3>1. /\ Len(image') = IF Len(image) > w THEN Len(image) ELSE w + 1
          /\ \A k \in Nat : k < Len(image) /\ k # w => image'[k + 1] = image[k + 1]
      BY <2>6, WriteEffect DEF TypeOK
    <3>2. Len(image') >= Len(image) /\ Len(image') > DataStart
      BY <1>3, <2>6, <3>1
    <3>3. \A i \in Visible : \A k \in Extent(i) :
            k < Len(image) => image'[k + 1] = image[k + 1]
      BY <1>4, <2>6, <3>1
    <3> QED BY <2>2, <3>2, <3>3
  <2>7. CASE Format
    <3>1. \A i \in Visible : 0 \notin Extent(i)
      BY <1>3, <1>4
    <3>2. Len(image) > DataStart /\ op'.command # "put"
      BY <2>7 DEF Format, Begins
    <3> QED BY <2>6, <2>7, <3>1, <3>2, FormatWrites
  <2>8. CASE ClearSector
    <3> DEFINE w == DirectoryLba + op.cleared
    <3>1. w \in 1 .. DirectorySectors /\ Write(w, Zero) /\ Zero \in Sector
      BY <2>8, ClearWrites
    <3> HIDE DEF w
    <3>2. \A i \in Visible : w \notin Extent(i)
      BY <1>3, <1>4, <3>1
    <3>3. Len(image) > DataStart
      BY <2>8 DEF ClearSector, FormatHasRoom
    <3>4. op'.command # "put"
      BY <2>8, OpByCommand, ClearWrites DEF ClearSector, Ends, Idle, FormatOp
    <3>5. w \in Nat
      BY <1>3, <3>1
    <3> QED BY <2>6, <3>1, <3>2, <3>3, <3>4, <3>5
  <2>9. CASE PutSector
    <3> DEFINE w == op.start + op.done
    <3>1. /\ w \in Nat /\ op.start \in Nat /\ op.done \in Nat
          /\ op.command = "put" /\ op'.start = op.start
          /\ Write(w, Payload(op.file, op.done))
          /\ Payload(op.file, op.done) \in Sector
      BY <2>9, PutWrites DEF PutSector, PutOp
    <3>2. op.start >= DataStart /\ op.start # 0
      BY <1>2, <1>3, <3>1
    <3>3. ASSUME NEW i \in Visible PROVE w \notin Extent(i)
      <4>1. Entry(i).start + WholeSectors(Entry(i).length) <= op.start
        BY <3>1, <3>2 DEF PutInOrder
      <4>2. \A lba \in Extent(i) : lba \in Nat /\
               lba < Entry(i).start + WholeSectors(Entry(i).length)
        BY ExtentTyped
      <4>3. Entry(i).start \in Nat /\ WholeSectors(Entry(i).length) \in Nat
        BY VisibleEnds DEF OneEntryPerName
      <4> QED BY <3>1, <4>1, <4>2, <4>3
    <3>4. w >= DataStart
      BY <1>3, <3>1, <3>2
    <3> HIDE DEF w
    <3> QED BY <2>6, <3>1, <3>2, <3>3, <3>4
  <2> QED BY <1>1, <1>6, <2>3, <2>4, <2>5, <2>7, <2>8, <2>9
          DEF Next, vars, CreateEnds, LastClearFails, Put, PutEntry, EntersFile,
              PutsEntry, Get, Refused, WriteFails, Killed
<1> QED BY <1>5, <1>6

\* Of a visible entry of an uncut image, get writes what was put: bytes of it
\* leave a beginning of the host file.
LEMMA ExtractsBeginning ==
    ASSUME TypeOK, OneEntryPerName, UncutIsWhole, cuts = 0,
           NEW i \in Visible, NEW bytes \in 0 .. Entry(i).length, Extracts(i, bytes)
    PROVE  LET h == stored[Entry(i).name]
           IN  /\ h \in HostFile /\ Entry(i).length = HostSize[h]
               /\ output'.name = Entry(i).name /\ output'.bytes = bytes
               /\ Len(output'.sectors) * SectorSize >= bytes
               /\ \A k \in 1 .. Len(output'.sectors) :
                     output'.sectors[k] = Payload(h, k - 1)
<1> DEFINE h == stored[Entry(i).name]
           start == Entry(i).start
           n == WholeSectors(bytes)
           all == WholeSectors(Entry(i).length)
<1>1. h \in HostFile /\ Entry(i).length = HostSize[h]
  BY DEF OneEntryPerName, DirectorySound
<1>2. Entry(i) \in EntryType
  BY EntryTyped DEF TypeOK, Visible
<1>3. /\ start \in Nat /\ Entry(i).length \in Nat /\ bytes \in Nat
      /\ bytes <= Entry(i).length
  <2>1. start \in Nat /\ Entry(i).length \in Nat
    BY <1>2 DEF EntryType
  <2> QED BY <2>1
<1>4. n \in Nat /\ all \in Nat /\ n * SectorSize >= bytes
  BY <1>3, WholeSectorsHold
<1>5. n <= all
  <2>1. all * SectorSize >= Entry(i).length /\ all * SectorSize \in Nat
    BY <1>3, <1>4, WholeSectorsHold, T32DiskAssumption
  <2>2. all * SectorSize >= bytes
    BY <1>3, <2>1
  <2>3. \A d \in Nat : d * SectorSize >= bytes => d >= n
    BY <1>3, WholeSectorsHold
  <2> HIDE DEF all, n
  <2> QED BY <1>4, <2>2, <2>3
<1>6. \A lba \in start .. start + all - 1 :
         lba < Len(image) /\ image[lba + 1] = Payload(h, lba - start)
  BY DEF UncutIsWhole, Extent, Has, At
<1>7. output' = [name |-> Entry(i).name, bytes |-> bytes,
                 sectors |-> SubSeq(image, start + 1, start + n)]
  BY DEF Extracts
<1> HIDE DEF h, start, n, all
<1>8. ASSUME NEW k \in start + 1 .. start + n
      PROVE  image[k] = Payload(h, (k - 1) - start) /\ image[k] \in Sector
  <2>1. k - 1 \in start .. start + all - 1 /\ (k - 1) + 1 = k
    BY <1>3, <1>4, <1>5
  <2>2. k - 1 < Len(image) /\ image[k] = Payload(h, (k - 1) - start)
    BY <1>6, <2>1
  <2>3. k - 1 \in Nat
    BY <1>3
  <2>4. k \in 1 .. Len(image)
    BY <2>2, <2>3 DEF TypeOK
  <2> QED BY <2>2, <2>4 DEF TypeOK
<1> DEFINE part == SubSeq(image, start + 1, start + n)
<1>9. /\ Len(part) = n
      /\ \A k \in 1 .. n : part[k] = image[start + 1 + k - 1]
  <2>1. /\ Len(part) = IF start + 1 <= start + n
                       THEN (start + n) - (start + 1) + 1 ELSE 0
        /\ \A k \in 1 .. (start + n) - (start + 1) + 1 :
              part[k] = image[(start + 1) + k - 1]
    BY <1>3, <1>4, <1>8, SubSeqProperties
  <2> QED BY <1>3, <1>4, <2>1
<1>10. \A k \in 1 .. n : part[k] = Payload(h, k - 1)
  <2> SUFFICES ASSUME NEW k \in 1 .. n PROVE part[k] = Payload(h, k - 1)
    OBVIOUS
  <2> HIDE DEF part
  <2>1. start + 1 + k - 1 = start + k
    BY <1>3, <1>4
  <2>2. image[start + k] = Payload(h, k - 1)
    <3> DEFINE at == start + k
    <3>1. at \in start + 1 .. start + n /\ (at - 1) - start = k - 1
      BY <1>3, <1>4
    <3> HIDE DEF at
    <3>2. image[at] = Payload(h, (at - 1) - start)
      BY <1>8, <3>1
    <3> QED BY <3>1, <3>2 DEF at
  <2>3. part[k] = image[start + k]
    BY <1>9, <2>1
  <2> QED BY <2>1, <2>2, <2>3
<1>11. output'.name = Entry(i).name /\ output'.bytes = bytes /\ output'.sectors = part
  BY <1>7
<1> HIDE DEF part
<1> QED BY <1>1, <1>4, <1>9, <1>10, <1>11 DEF h

\* What get has written stays what was put: a command that changes what is
\* stored has begun with no output.
LEMMA ExtractedStep ==
    ASSUME TypeOK, OneEntryPerName, UncutIsWhole, GetEnded, ExtractedMatches,
           [Next]_vars
    PROVE  GetEnded' /\ ExtractedMatches'
<1>1. ASSUME NEW name \in Name, Get(name), output' # NoFile, cuts' = 0
      PROVE  LET h == stored[output'.name]
             IN  /\ output'.bytes <= HostSize[h]
                 /\ result' = "ok" => HostSize[h] <= output'.bytes + OutputBuffer
                 /\ Len(output'.sectors) * SectorSize >= output'.bytes
                 /\ \A k \in 1 .. Len(output'.sectors) :
                       output'.sectors[k] = Payload(h, k - 1)
  <2>1. PICK i \in Index :
          /\ FirstWith(i, Upper[name])
          /\ \/ ExtractsAll(i) /\ Ends("ok")
             \/ ExtractsPart(i) /\ Ends("failed")
    BY <1>1 DEF Get
  <2>2. i \in Visible
    <3>1. Readable(i)
      <4>1. i \in 0 .. i
        BY DirectoryGeometry DEF Index
      <4> QED BY <2>1, <4>1 DEF FirstWith
    <3>2. Upper[name] \in Name
      BY T32DiskAssumption
    <3>3. Upper[name] # ""
      BY <3>2, NameAssumption
    <3> QED BY <2>1, <3>1, <3>3 DEF FirstWith, Visible
  <2>3. cuts = 0
    BY <1>1 DEF Get
  <2>4. Entry(i).length \in Nat
    <3>1. Entry(i) \in EntryType
      BY <2>2, EntryTyped DEF TypeOK, Visible
    <3> QED BY <3>1 DEF EntryType
  <2>5. PICK bytes \in 0 .. Entry(i).length :
          /\ Extracts(i, bytes)
          /\ result' = "ok" => Entry(i).length <= bytes + OutputBuffer
    <3>1. CASE ExtractsAll(i)
      <4>1. PICK lost \in 0 .. OutputBuffer :
              lost <= Entry(i).length /\ Extracts(i, Entry(i).length - lost)
        BY <3>1 DEF ExtractsAll
      <4>2. /\ Entry(i).length - lost \in 0 .. Entry(i).length
            /\ Entry(i).length <= (Entry(i).length - lost) + OutputBuffer
        BY <2>4, <4>1, T32DiskAssumption
      <4> QED BY <4>1, <4>2
    <3>2. CASE ExtractsPart(i) /\ Ends("failed")
      BY <3>2 DEF ExtractsPart, Ends
    <3> QED BY <2>1, <3>1, <3>2
  <2> QED BY <2>2, <2>3, <2>5, ExtractsBeginning
<1>2. ASSUME NEW name \in Name, Get(name)
      PROVE  GetEnded' /\ ExtractedMatches'
  <2>1. op' = Idle /\ stored' = stored
    BY <1>2 DEF Get, Ends
  <2> QED BY <1>1, <1>2, <2>1 DEF GetEnded, ExtractedMatches
<1>3. CASE output' = NoFile
  BY <1>3 DEF GetEnded, ExtractedMatches
<1>4. CASE op # Idle /\ UNCHANGED output
  BY <1>3, <1>4 DEF GetEnded
<1>5. CASE Cut
  <2>1. ~ (cuts' = 0) /\ op' = Idle
    <3>1. cuts \in Nat /\ cuts' = cuts + 1
      BY <1>5 DEF TypeOK, Cut
    <3> QED BY <1>5, <3>1 DEF Cut
  <2> QED BY <2>1 DEF GetEnded, ExtractedMatches
<1>6. CASE UNCHANGED vars
  BY <1>6 DEF vars, GetEnded, ExtractedMatches
<1> QED BY <1>2, <1>3, <1>4, <1>5, <1>6, OpByCommand
        DEF Next, Create, Begins, CreateEnds, Format, ClearSector, LastClearFails,
            Put, PutSector, PutEntry, Refused, WriteFails, Killed, Idle

-----------------------------------------------------------------------------
(***************************************************************************)
(* The theorems.                                                           *)
(***************************************************************************)
LEMMA Inductive == ASSUME NoWrap PROVE IInv /\ [Next]_vars => IInv'
<1> SUFFICES ASSUME IInv, [Next]_vars PROVE IInv'
  OBVIOUS
<1>1. TypeOK' /\ OneEntryPerName'
  BY TypeStep, OneEntryStep DEF IInv
<1>2. PutInOrder'
  BY PutOrderStep DEF IInv
<1>3. OwnData' /\ FormatHasRoom'
  BY <1>1, <1>2, OwnStep, RoomStep DEF IInv
<1>4. UncutIsWhole'
  BY UncutStep DEF IInv
<1>5. GetEnded' /\ ExtractedMatches'
  BY ExtractedStep DEF IInv
<1> QED BY <1>1, <1>2, <1>3, <1>4, <1>5 DEF IInv

\* Where no length wraps, every file an uncut image shows is whole, whichever
\* commands failed or were killed: put writes the entry after the payload, and
\* behind every entry it can see.
THEOREM FilesStayIntact == ASSUME NoWrap PROVE Spec => []FilesIntact
<1>1. IInv => FilesIntact
  BY DEF IInv, FilesIntact, UncutIsWhole, OneEntryPerName, DirectorySound
<1> QED BY <1>1, InitIInv, Inductive, PTL DEF Spec

\* Where no length wraps, no image, cut or not, shows one file's payload as
\* another's: put at sector 0 of a cut image destroys the header first.
THEOREM NothingForeign == ASSUME NoWrap PROVE Spec => []NoForeignData
<1>1. IInv => NoForeignData
  BY DEF IInv, NoForeignData, OwnData
<1> QED BY <1>1, InitIInv, Inductive, PTL DEF Spec

\* Where no length wraps, what get leaves on the host, of an uncut image, is a
\* beginning of the file that was put under the name, however get ends; where
\* it reports success, only what stdio held when fclose failed is missing.
THEOREM ExtractionMatches == ASSUME NoWrap PROVE Spec => []ExtractedMatches
<1>1. IInv => ExtractedMatches
  BY DEF IInv
<1> QED BY <1>1, InitIInv, Inductive, PTL DEF Spec
=============================================================================
