------------------------------- MODULE T32Disk -------------------------------
(***************************************************************************)
(* t32-disk (src/tools/t32-disk/src/t32-disk.c): the tool that creates and *)
(* formats T32D images, puts host files into them and gets them out.  It   *)
(* runs one command at a time, and may be killed at any write.             *)
(*                                                                         *)
(* An image is a sequence of sectors; sector lba is image[lba + 1].  stdio *)
(* keeps the order of the writes, and a seek reports a write before it     *)
(* that failed, so every write but a command's last takes effect or fails  *)
(* the command.  Nobody looks at the last one: the results of fflush and   *)
(* fclose are ignored.  In the same way get learns of what fails while it  *)
(* extracts, and not of what stdio still holds of the host file then.      *)
(***************************************************************************)
EXTENDS Integers, Sequences, FiniteSetsExt

CONSTANTS
    HostFile, HostSize,     \* the files that are put, and their bytes
    Name, Upper,            \* valid guest names, and uppercase_name
    SectorSize,             \* T32D_SECTOR_SIZE
    Modulus,                \* 2^32
    EntriesPerSector,       \* T32D_SECTOR_SIZE / T32D_DIR_ENTRY_SIZE
    DirectorySectors,       \* T32D_DIRECTORY_SECTORS
    DataStart,              \* T32D_DATA_START_LBA
    Sizes,                  \* the sizes, in sectors, that images are given
    Zero,                   \* a sector of zeros
    OutputBuffer,           \* the bytes stdio holds of a file that is written
    MaxSectors,             \* bound on the size an image may grow to
    MaxCuts                 \* bound on the times an image is shortened

ASSUME T32DiskAssumption ==
    /\ HostSize \in [HostFile -> 0 .. Modulus - 1]
    /\ Upper \in [Name -> Name] /\ \A n \in Name : Upper[Upper[n]] = Upper[n]
    /\ SectorSize \in Nat \ {0} /\ Modulus \in Nat \ {0}
    /\ EntriesPerSector \in Nat \ {0} /\ DirectorySectors \in Nat \ {0}
    /\ OutputBuffer \in Nat
    /\ DataStart \in Nat /\ DirectorySectors < DataStart
    /\ Sizes \subseteq Nat /\ \A s \in Sizes : s > DataStart

\* valid_guest_name.
ASSUME NameAssumption == "" \notin Name

VARIABLES
    image,      \* the sectors of the image file
    op,         \* the command under way
    result,     \* how the last command ended, as it reports it
    output,     \* the host file the last command, a get, left behind
    stored,     \* Name -> the host file put under it last (history)
    cuts        \* how often the image was shortened

vars == <<image, op, result, output, stored, cuts>>

DirectoryLba == 1
DirectoryEntries == DirectorySectors * EntriesPerSector
Index == 0 .. DirectoryEntries - 1

\* Sectors: a header says how many sectors there are, a directory holds
\* entries, and a payload sector is the k-th of a host file.
NoEntry == [name |-> "", start |-> 0, length |-> 0]
Header(total) == [kind |-> "header", total |-> total]
Directory(entries) == [kind |-> "directory", entries |-> entries]
Payload(h, k) == [kind |-> "payload", file |-> h, number |-> k]
NoEntries == [e \in 0 .. EntriesPerSector - 1 |-> NoEntry]

Idle == [command |-> "none"]
NoFile == [name |-> "", bytes |-> 0, sectors |-> << >>]

Init ==
    /\ image = << >> /\ op = Idle /\ result = "none"
    /\ output = NoFile
    /\ stored = [n \in Name |-> "none"] /\ cuts = 0

-----------------------------------------------------------------------------
(***************************************************************************)
(* Defects the properties must exclude.  No action uses them.              *)
(***************************************************************************)
\* The bytes of a last, shorter sector are forgotten.
FloorSectors(length) == length \div SectorSize

-----------------------------------------------------------------------------
(***************************************************************************)
(* The image.                                                              *)
(***************************************************************************)
At(lba) == image[lba + 1]
Has(lba) == lba < Len(image)

\* A write behind the end leaves a hole of zeros.
Write(lba, sector) ==
    image' = [s \in 1 .. (IF Has(lba) THEN Len(image) ELSE lba + 1) |->
                IF s = lba + 1 THEN sector
                ELSE IF Has(s - 1) THEN image[s] ELSE Zero]

\* read_header.
Formatted == Has(0) /\ At(0) # Zero /\ At(0).kind = "header"

\* read_dirent.  Payloads, whose bytes are not modelled, are taken not to look
\* like entries: one lies here only where put overwrote the header of a cut
\* image (PayloadInDataArea) and a later format stopped before it came by.
EntryLba(i) == DirectoryLba + i \div EntriesPerSector
Readable(i) == Has(EntryLba(i))
Entry(i) ==
    IF At(EntryLba(i)) # Zero /\ At(EntryLba(i)).kind = "directory"
    THEN At(EntryLba(i)).entries[i % EntriesPerSector] ELSE NoEntry

\* write_dirent.
WriteEntry(i, entry) ==
    LET sector == At(EntryLba(i))
        old == IF sector # Zero /\ sector.kind = "directory"
               THEN sector.entries ELSE NoEntries
    IN  Write(EntryLba(i), Directory([old EXCEPT ![i % EntriesPerSector] = entry]))

\* Defects no action uses: the tool forgets that names are uppercase, and
\* takes the end of the last entry for the end of the data.
FindsAsTyped(name) == \E i \in Index : Readable(i) /\ Entry(i).name = name
NextFreeLbaOfLast ==
    IF \E i \in Index : ~ Readable(i) THEN 0
    ELSE IF \A i \in Index : Entry(i).name = "" THEN DataStart
    ELSE LET last == Max({i \in Index : Entry(i).name # ""})
         IN  Entry(last).start +
                (Entry(last).length + SectorSize - 1) \div SectorSize

\* The searches stop at the first entry that cannot be read, and say no.
FirstWith(i, name) ==
    /\ \A j \in 0 .. i : Readable(j)
    /\ Entry(i).name = name
    /\ \A j \in 0 .. i - 1 : Entry(j).name # name

\* find_entry, first_free_dirent.
Finds(name) == \E i \in Index : FirstWith(i, Upper[name])
IsFree(i) == FirstWith(i, "")

\* The sectors a loop over the bytes takes, and how many uint32_t arithmetic
\* finds them to be.
WholeSectors(length) == (length + SectorSize - 1) \div SectorSize
Sectors(length) == ((length + SectorSize - 1) % Modulus) \div SectorSize

\* next_free_lba.
NextFreeLba ==
    IF \E i \in Index : ~ Readable(i) THEN 0
    ELSE Max({DataStart} \cup
             {Entry(i).start + Sectors(Entry(i).length) :
                 i \in {j \in Index : Entry(j).name # ""}})

-----------------------------------------------------------------------------
(***************************************************************************)
(* Commands.                                                               *)
(***************************************************************************)
Begins(command) ==
    op = Idle /\ op' = command /\ result' = "none" /\ output' = NoFile
Ends(outcome) == op' = Idle /\ result' = outcome

\* A command that finds a file it cannot open, or fails a test of its own,
\* stops before its first write.
Refused ==
    /\ op = Idle
    /\ Ends("failed") /\ output' = NoFile
    /\ UNCHANGED <<image, stored, cuts>>

\* create_raw_image: fopen "wb" empties the file; one byte at the end, which
\* fclose writes, gives it its size.
Create(sectors) ==
    /\ Begins([command |-> "create", sectors |-> sectors])
    /\ image' = << >>
    /\ UNCHANGED <<stored, cuts>>

CreateEnds ==
    /\ op.command = "create"
    /\ \/ image' = [s \in 1 .. op.sectors |-> Zero]
       \/ UNCHANGED image
    /\ Ends("ok")
    /\ UNCHANGED <<output, stored, cuts>>

\* format_image: the header, then the directory, sector by sector.
Format ==
    /\ Len(image) > DataStart
    /\ Begins([command |-> "format", cleared |-> 0])
    /\ Write(0, Header(Len(image)))
    /\ UNCHANGED <<stored, cuts>>

ClearSector ==
    /\ op.command = "format"
    /\ Write(DirectoryLba + op.cleared, Zero)
    /\ IF op.cleared + 1 = DirectorySectors THEN Ends("ok")
       ELSE op' = [op EXCEPT !.cleared = @ + 1] /\ UNCHANGED result
    /\ UNCHANGED <<output, stored, cuts>>

\* put_file: every test comes before the first write.
Put(h, name) ==
    /\ Formatted /\ ~ Finds(name)
    /\ \E i \in Index :
          /\ IsFree(i)
          /\ Begins([command |-> "put", file |-> h, name |-> Upper[name],
                     index |-> i, start |-> NextFreeLba, done |-> 0])
    /\ NextFreeLba + Sectors(HostSize[h]) <= At(0).total
    /\ UNCHANGED <<image, stored, cuts>>

\* A defect no action uses: the last sector is forgotten.
RemainingLess == HostSize[op.file] - (op.done + 1) * SectorSize

Remaining == HostSize[op.file] - op.done * SectorSize

PutSector ==
    /\ op.command = "put" /\ Remaining > 0
    /\ op.start + op.done < MaxSectors
    /\ Write(op.start + op.done, Payload(op.file, op.done))
    /\ op' = [op EXCEPT !.done = @ + 1]
    /\ UNCHANGED <<result, output, stored, cuts>>

\* The entry makes the file visible; whether it reached the image is not
\* looked at.
PutEntry ==
    /\ op.command = "put" /\ Remaining <= 0
    /\ \/ /\ WriteEntry(op.index, [name |-> op.name, start |-> op.start,
                                   length |-> HostSize[op.file]])
          /\ stored' = [stored EXCEPT ![op.name] = op.file]
       \/ UNCHANGED <<image, stored>>
    /\ Ends("ok")
    /\ UNCHANGED <<output, cuts>>

\* A write that a later seek or write reports, and the input file: the
\* command fails where it is.
WriteFails ==
    /\ \/ op.command = "format"
       \/ op.command = "put" /\ Remaining > 0
    /\ Ends("failed")
    /\ UNCHANGED <<image, output, stored, cuts>>

\* The last sector a format clears is written by fclose.
LastClearFails ==
    /\ op.command = "format" /\ op.cleared + 1 = DirectorySectors
    /\ Ends("ok")
    /\ UNCHANGED <<image, output, stored, cuts>>

\* A process that is killed does not report success either.
Killed ==
    /\ op # Idle
    /\ Ends("failed")
    /\ UNCHANGED <<image, output, stored, cuts>>

\* The host file of entry i when so many bytes of it have been written: read
\* as whole sectors, of which the image must have every one.
Extracts(i, bytes) ==
    LET start == Entry(i).start
        end == start + WholeSectors(bytes)
    IN  /\ end <= Len(image) \/ bytes = 0
        /\ output' = [name |-> Entry(i).name, bytes |-> bytes,
                      sectors |-> SubSeq(image, start + 1, end)]

\* The image ends early, a write fails or the process is killed: the host file
\* stays, as far as it got.
ExtractsPart(i) == \E bytes \in 0 .. Entry(i).length : Extracts(i, bytes)

\* Every read and write succeeded.  Nobody looks at the last fclose: what
\* stdio still holds may be lost.
ExtractsAll(i) ==
    LET length == Entry(i).length
    IN  /\ Entry(i).start + WholeSectors(length) <= Len(image) \/ length = 0
        /\ \E lost \in 0 .. OutputBuffer :
              lost <= length /\ Extracts(i, length - lost)

\* get_file.
Get(name) ==
    /\ op = Idle /\ Formatted
    /\ \E i \in Index :
          /\ FirstWith(i, Upper[name])
          /\ \/ ExtractsAll(i) /\ Ends("ok")
             \/ ExtractsPart(i) /\ Ends("failed")
    /\ UNCHANGED <<image, stored, cuts>>

\* Another program leaves a shorter image: a copy that ran out of space.
Cut ==
    /\ op = Idle /\ cuts < MaxCuts
    /\ \E n \in 0 .. Len(image) - 1 : image' = SubSeq(image, 1, n)
    /\ cuts' = cuts + 1
    /\ UNCHANGED <<op, result, output, stored>>

Next ==
    \/ \E s \in Sizes : Create(s)
    \/ CreateEnds
    \/ Format \/ ClearSector \/ LastClearFails
    \/ \E h \in HostFile, n \in Name : Put(h, n)
    \/ PutSector \/ PutEntry
    \/ \E n \in Name : Get(n)
    \/ Refused \/ WriteFails \/ Killed \/ Cut

Spec == Init /\ [][Next]_vars

-----------------------------------------------------------------------------
(***************************************************************************)
(* Properties.                                                             *)
(***************************************************************************)
Visible == {i \in Index : Readable(i) /\ Entry(i).name # ""}
Extent(i) == Entry(i).start .. Entry(i).start + WholeSectors(Entry(i).length) - 1


\* Every file the directory of an uncut image shows is whole: its sectors
\* hold, in order, the host file put under that name, whatever commands failed
\* or were killed half-way since.
FilesIntact ==
    cuts = 0 /\ Formatted => \A i \in Visible :
        LET h == stored[Entry(i).name]
        IN  /\ h \in HostFile /\ Entry(i).length = HostSize[h]
            /\ \A lba \in Extent(i) :
                  Has(lba) /\ At(lba) = Payload(h, lba - Entry(i).start)

\* An image that lost its end never shows one file's data in another: the
\* payload a visible file has left is its own, also after more files are put.
NoForeignData ==
    Formatted => \A i \in Visible : \A lba \in Extent(i) :
        Has(lba) /\ At(lba) # Zero /\ At(lba).kind = "payload" =>
            At(lba) = Payload(stored[Entry(i).name], lba - Entry(i).start)

\* A name, in whatever case it is typed, names one file.
NamesUnique ==
    Formatted => \A i, j \in Visible : Entry(i).name = Entry(j).name => i = j

\* What get leaves on the host, of an uncut image, is the file that was put or
\* the beginning of it; and where get reports success, nothing of it is missing
\* but what stdio may still have held when fclose failed.
ExtractedMatches ==
    cuts = 0 /\ output # NoFile =>
        LET h == stored[output.name]
        IN  /\ output.bytes <= HostSize[h]
            /\ result = "ok" => HostSize[h] <= output.bytes + OutputBuffer
            /\ Len(output.sectors) * SectorSize >= output.bytes
            /\ \A k \in 1 .. Len(output.sectors) :
                  output.sectors[k] = Payload(h, k - 1)

\* "LBA 0 header ... LBA 8.. file payloads": no payload outside the data area.
PayloadInDataArea ==
    \A lba \in 0 .. DataStart - 1 :
        Has(lba) /\ At(lba) # Zero => At(lba).kind # "payload"

=============================================================================
