------------------------------ MODULE BootChain ------------------------------
(***************************************************************************)
(* The boot chain: the BIOS (src/firmware/bios/bios.s) loads BOOT.BIN from *)
(* a T32D disk, BOOT (src/firmware/boot/boot.s) loads NEXT.BIN through the *)
(* BIOS's disk_read service, both over the controller of DiskController.   *)
(*                                                                         *)
(* The guest touches the controller one access at a time, and the host may *)
(* attach or detach a disk, or another process shorten an image, between   *)
(* any two.  Every action of the firmware is one access or a computation   *)
(* that needs none; the loads of one entry's name, and of the header's     *)
(* fixed fields, are one action, because a buffer cleared between them     *)
(* fails the comparison as a whole.  (No name in the directories modelled  *)
(* is BOOT.BIN or NEXT.BIN with more behind it.)                           *)
(*                                                                         *)
(* A word is 64 bytes, the size of the header and of a directory entry.    *)
(* Lengths are in words, and RAM holds the two load areas and BOOT's       *)
(* scratch sector.                                                         *)
(***************************************************************************)
EXTENDS DiskController

CONSTANTS
    Content,            \* Image -> position -> what the word there says
    DirectoryEntries,   \* 32
    Scratch,            \* 0x3000, where BOOT reads headers and directories
    BootBase,           \* 0x10000, where BOOT.BIN is loaded
    NextBase,           \* 0x20000, where NEXT.BIN is loaded
    BootWords,          \* how long the code of BOOT is
    RamWords,           \* the size of RAM
    MaxSwaps            \* bound on the attaches and detaches after power-on

VARIABLES
    pc,         \* the next access or test
    caller,     \* what the sector being read is for
    sector,     \* the LBA to read: r8 of the BIOS, r1 of the service
    left, slot, \* directory entries left to look at, and where
    from,       \* the file's first LBA
    count,      \* sectors left to load
    dest, at,   \* where the sector goes, and the words of it copied
    ram,
    bootinfo,   \* the sector count in Bootinfo
    swaps       \* attaches and detaches since power-on (history)

search == <<left, slot>>
load == <<from, count, dest>>
firmware == <<pc, caller, sector, search, load, at, ram, bootinfo>>
bootVars == <<vars, firmware, swaps>>

\* What the 64 bytes of a word say at the offsets the firmware looks at.
Blank == [magic |-> FALSE, version |-> FALSE, geometry |-> FALSE,
          directory |-> 0, name |-> "", start |-> 0, length |-> 0]
Says(word) == IF word = Zero THEN Blank ELSE Content[word[1]][word[2]]

\* An image has no more sectors than LBA can address: t32_disk_attach refuses
\* one of more than 2^32 - 1.
ASSUME BootAssumption ==
    /\ {Scratch, BootBase, NextBase, BootWords, RamWords, MaxSwaps} \subseteq Nat
    /\ Scratch + SectorWords <= BootBase
    /\ BootBase + BootWords <= NextBase /\ NextBase < RamWords
    /\ DirectoryEntries \in Nat \ {0}
    /\ Zero \notin Image \X Nat
    /\ 0 \in Lbas
    /\ \A i \in Image : \A s \in 0 .. ImageWords[i] :
          (s + 1) * SectorWords <= ImageWords[i] => s \in Lbas
    /\ \A i \in Image : \A p \in 0 .. ImageWords[i] - 1 :
          /\ DOMAIN Content[i][p] = DOMAIN Blank
          /\ {Content[i][p].directory, Content[i][p].start} \subseteq Lbas
          /\ Content[i][p].length \in Nat

BiosCallers == {"header", "directory", "file"}
ServiceCallers == {"probe", "nextDirectory", "nextFile"}
Ended == {"noDisk", "badFormat", "notFound", "diskError", "badBootinfo",
          "serviceFailed", "nextBadFormat", "nextNotFound",
          "fault", "wild", "stage3"}

BootInit ==
    /\ Init
    /\ pc = "off" /\ caller = "header"
    /\ sector = 0 /\ left = 0 /\ slot = 0
    /\ from = 0 /\ count = 0 /\ dest = 0 /\ at = 0
    /\ ram = [a \in 0 .. RamWords - 1 |-> Zero]
    /\ bootinfo = 0 /\ swaps = 0

-----------------------------------------------------------------------------
(***************************************************************************)
(* The host: it may choose the disk before it powers the machine on, and   *)
(* change it at any moment after that.                                     *)
(***************************************************************************)
SwapDisk ==
    /\ swaps < MaxSwaps \/ (pc = "off" /\ file = NoFile)
    /\ Detach \/ (\E i \in Image : Attach(i))
    /\ swaps' = IF pc = "off" THEN swaps ELSE swaps + 1
    /\ UNCHANGED firmware

ShortenImage == (\E i \in Image : Truncate(i)) /\ UNCHANGED <<firmware, swaps>>

PowerOn ==
    /\ pc = "off" /\ pc' = "status"
    /\ UNCHANGED <<vars, caller, sector, search, load, at, ram, bootinfo, swaps>>

-----------------------------------------------------------------------------
(***************************************************************************)
(* Defects the properties must exclude.  No action uses them.              *)
(***************************************************************************)
\* A failed read is tried again.
CheckErrorRetries ==
    /\ pc = "error"
    /\ pc' = IF error # "NONE" THEN "lba"
             ELSE CASE caller = "header" -> "checkHeader"
                    [] caller = "directory" -> "entry"
                    [] OTHER -> "copy"
    /\ at' = 0
    /\ UNCHANGED <<vars, caller, sector, search, load, ram, bootinfo, swaps>>

\* A search ends one entry early.
NextEntryMissesLast(again, none) ==
    /\ left' = left - 1
    /\ slot' = (slot + 1) % SectorWords
    /\ IF left <= 2 THEN pc' = none /\ UNCHANGED sector
       ELSE IF slot + 1 < SectorWords THEN pc' = again /\ UNCHANGED sector
       ELSE pc' = "lba" /\ sector' = sector + 1
    /\ UNCHANGED <<caller, load>>

\* A file's sectors are all loaded to the same place.
NextFileSectorInPlace(done) ==
    /\ sector' = sector + 1
    /\ count' = count - 1
    /\ pc' = IF count = 1 THEN done ELSE "lba"
    /\ UNCHANGED <<caller, search, from, dest>>

-----------------------------------------------------------------------------
(***************************************************************************)
(* Reading a sector: disk_read_sector of the BIOS, and its service         *)
(* disk_read, which also copies the sector to RAM.                         *)
(***************************************************************************)
ReadSector(l, who) == sector' = l /\ caller' = who /\ pc' = "lba"

SetLba ==
    /\ pc = "lba" /\ pc' = "command"
    /\ WriteLba(sector)
    /\ UNCHANGED <<caller, sector, search, load, at, ram, bootinfo, swaps>>

SendRead ==
    /\ pc = "command" /\ pc' = "error"
    /\ Execute("READ")
    /\ UNCHANGED <<caller, sector, search, load, at, ram, bootinfo, swaps>>

CheckError ==
    /\ pc = "error"
    /\ pc' = IF error # "NONE"
             THEN IF caller \in BiosCallers THEN "diskError" ELSE "serviceFailed"
             ELSE CASE caller = "header" -> "checkHeader"
                    [] caller = "directory" -> "entry"
                    [] OTHER -> "copy"
    /\ at' = 0
    /\ UNCHANGED <<vars, caller, sector, search, load, ram, bootinfo, swaps>>

\* A store beyond RAM faults the machine.
CopyWord ==
    /\ pc = "copy"
    /\ \/ /\ dest + at < RamWords
          /\ ram' = [ram EXCEPT ![dest + at] = buffer[at]]
          /\ at' = at + 1
          /\ pc' = IF at + 1 = SectorWords THEN "copied" ELSE "copy"
       \/ /\ dest + at >= RamWords
          /\ pc' = "fault" /\ UNCHANGED <<ram, at>>
    /\ UNCHANGED <<vars, caller, sector, search, load, bootinfo, swaps>>

-----------------------------------------------------------------------------
(***************************************************************************)
(* What the BIOS and BOOT do alike.                                        *)
(***************************************************************************)
\* A file's length in whole sectors.
Sectors(length) == (length + SectorWords - 1) \div SectorWords

\* The entry under the cursor is not the one: go to the next, and to the
\* next directory sector behind the last of this one.
NextEntry(again, none) ==
    /\ left' = left - 1
    /\ slot' = (slot + 1) % SectorWords
    /\ IF left = 1 THEN pc' = none /\ UNCHANGED sector
       ELSE IF slot + 1 < SectorWords THEN pc' = again /\ UNCHANGED sector
       ELSE pc' = "lba" /\ sector' = sector + 1
    /\ UNCHANGED <<caller, load>>

\* A sector of a file is in RAM.
NextFileSector(done) ==
    /\ sector' = sector + 1
    /\ dest' = dest + SectorWords
    /\ count' = count - 1
    /\ pc' = IF count = 1 THEN done ELSE "lba"
    /\ UNCHANGED <<caller, search, from>>

\* The directory's first sector is wanted, from its first entry on.
ScanFrom(l, who) ==
    ReadSector(l, who) /\ left' = DirectoryEntries /\ slot' = 0

-----------------------------------------------------------------------------
(***************************************************************************)
(* The BIOS.  It looks at headers and directories in the sector buffer.    *)
(***************************************************************************)
CheckStatus ==
    /\ pc = "status"
    /\ \/ file # NoFile /\ ReadSector(0, "header")
       \/ file = NoFile /\ pc' = "noDisk" /\ UNCHANGED <<caller, sector>>
    /\ UNCHANGED <<vars, search, load, at, ram, bootinfo, swaps>>

CheckHeader ==
    /\ pc = "checkHeader"
    /\ LET header == Says(buffer[0])
       IN  pc' = IF header.magic /\ header.version /\ header.geometry
                 THEN "directoryLba" ELSE "badFormat"
    /\ UNCHANGED <<vars, caller, sector, search, load, at, ram, bootinfo, swaps>>

LoadDirectoryLba ==
    /\ pc = "directoryLba"
    /\ ScanFrom(Says(buffer[0]).directory, "directory")
    /\ UNCHANGED <<vars, load, at, ram, bootinfo, swaps>>

MatchEntry ==
    /\ pc = "entry"
    /\ \/ /\ Says(buffer[slot]).name = "BOOT.BIN"
          /\ pc' = "start"
          /\ UNCHANGED <<caller, sector, search, load>>
       \/ Says(buffer[slot]).name # "BOOT.BIN" /\ NextEntry("entry", "notFound")
    /\ UNCHANGED <<vars, at, ram, bootinfo, swaps>>

LoadStart ==
    /\ pc = "start" /\ pc' = "length"
    /\ from' = Says(buffer[slot]).start
    /\ UNCHANGED <<vars, caller, sector, search, count, dest, at, ram, bootinfo, swaps>>

LoadLength ==
    /\ pc = "length" /\ pc' = "bootinfo"
    /\ count' = Sectors(Says(buffer[slot]).length)
    /\ UNCHANGED <<vars, caller, sector, search, from, dest, at, ram, bootinfo, swaps>>

\* build_bootinfo, whose one load that can vary is SECTOR_COUNT, and the
\* start of load_boot_file.
BuildBootinfo ==
    /\ pc = "bootinfo"
    /\ bootinfo' = sectorCount
    /\ \/ count = 0 /\ pc' = "notFound" /\ UNCHANGED <<caller, sector, dest>>
       \/ count > 0 /\ ReadSector(from, "file") /\ dest' = BootBase
    /\ UNCHANGED <<vars, search, from, count, at, ram, swaps>>

BootSectorLoaded ==
    /\ pc = "copied" /\ caller = "file"
    /\ NextFileSector("boot")
    /\ UNCHANGED <<vars, at, ram, bootinfo, swaps>>

Bios ==
    \/ CheckStatus \/ CheckHeader \/ LoadDirectoryLba \/ MatchEntry
    \/ LoadStart \/ LoadLength \/ BuildBootinfo \/ BootSectorLoaded

-----------------------------------------------------------------------------
(***************************************************************************)
(* BOOT.  It looks at headers and directories in its scratch sector.       *)
(***************************************************************************)
\* Is the start of BOOT.BIN, as one image has it, in place?  What a machine
\* does that executes anything else is not followed.
BootCodeOf(i) == \E p \in 0 .. ImageWords[i] - 1 :
    /\ Content[i][p].name = "BOOT.BIN"
    /\ \A w \in 0 .. BootWords - 1 :
          ram[BootBase + w] = <<i, Content[i][p].start * SectorWords + w>>

\* The fields of Bootinfo that are constants of the BIOS pass BOOT's tests.
EnterBoot ==
    /\ pc = "boot"
    /\ \/ /\ \E i \in Image : BootCodeOf(i)
          /\ bootinfo # 0 /\ ReadSector(0, "probe") /\ dest' = Scratch
       \/ /\ \E i \in Image : BootCodeOf(i)
          /\ bootinfo = 0 /\ pc' = "badBootinfo"
          /\ UNCHANGED <<caller, sector, dest>>
       \/ /\ ~ \E i \in Image : BootCodeOf(i)
          /\ pc' = "wild" /\ UNCHANGED <<caller, sector, dest>>
    /\ UNCHANGED <<vars, search, from, count, at, ram, bootinfo, swaps>>

\* BOOT asks for the magic and the geometry; the version is the BIOS's.
HeaderInRam ==
    /\ pc = "copied" /\ caller = "probe"
    /\ LET header == Says(ram[Scratch])
       IN  \/ /\ header.magic /\ header.geometry
              /\ ScanFrom(header.directory, "nextDirectory")
           \/ /\ ~ (header.magic /\ header.geometry)
              /\ pc' = IF header.magic THEN "nextBadFormat" ELSE "serviceFailed"
              /\ UNCHANGED <<caller, sector, search>>
    /\ UNCHANGED <<vars, load, at, ram, bootinfo, swaps>>

DirectoryInRam ==
    /\ pc = "copied" /\ caller = "nextDirectory" /\ pc' = "nextEntry"
    /\ UNCHANGED <<vars, caller, sector, search, load, at, ram, bootinfo, swaps>>

\* An empty NEXT.BIN ends the search.
MatchNextEntry ==
    /\ pc = "nextEntry"
    /\ LET entry == Says(ram[Scratch + slot])
       IN  \/ entry.name # "NEXT.BIN" /\ NextEntry("nextEntry", "nextNotFound")
           \/ /\ entry.name = "NEXT.BIN"
              /\ from' = entry.start /\ count' = Sectors(entry.length)
              /\ \/ /\ entry.length = 0 /\ pc' = "nextNotFound"
                    /\ UNCHANGED <<caller, sector, dest>>
                 \/ /\ entry.length > 0 /\ ReadSector(entry.start, "nextFile")
                    /\ dest' = NextBase
              /\ UNCHANGED search
    /\ UNCHANGED <<vars, at, ram, bootinfo, swaps>>

NextSectorLoaded ==
    /\ pc = "copied" /\ caller = "nextFile"
    /\ NextFileSector("stage3")
    /\ UNCHANGED <<vars, at, ram, bootinfo, swaps>>

Boot ==
    \/ EnterBoot \/ HeaderInRam \/ DirectoryInRam \/ MatchNextEntry
    \/ NextSectorLoaded

-----------------------------------------------------------------------------
DiskRead == SetLba \/ SendRead \/ CheckError \/ CopyWord
Firmware == Bios \/ Boot \/ DiskRead
BootNext == SwapDisk \/ ShortenImage \/ PowerOn \/ Firmware

\* A machine that is on executes its instructions; the host owes nothing.
BootSpec == BootInit /\ [][BootNext]_bootVars /\ WF_bootVars(Firmware)

-----------------------------------------------------------------------------
(***************************************************************************)
(* What booting must guarantee.                                            *)
(***************************************************************************)
\* The directory of an image, and the entry a search must find in it.
Entry(i, n) == Content[i][Content[i][0].directory * SectorWords + n]
IsFirst(i, n, name) ==
    /\ Entry(i, n).name = name
    /\ \A m \in 0 .. n - 1 : Entry(i, m).name # name

Loaded(name, base) ==
    \E n \in 0 .. DirectoryEntries - 1 :
        /\ IsFirst(file, n, name)
        /\ Entry(file, n).length > 0
        /\ \A w \in 0 .. Entry(file, n).length - 1 :
              ram[base + w] = <<file, Entry(file, n).start * SectorWords + w>>

\* If the disk stays, a program that gets control is the whole file of that
\* name, from first word to last, however reads fail and images shrink.
HandoffIsTheFile ==
    swaps = 0 => /\ pc = "boot" => Loaded("BOOT.BIN", BootBase)
                 /\ pc = "stage3" => Loaded("NEXT.BIN", NextBase)

\* If the disk stays, "not found" is true: no entry has the name, or the
\* first that has it is empty.
NotFoundIsTrue ==
    LET absent(name) ==
          \A n \in 0 .. DirectoryEntries - 1 :
              IsFirst(file, n, name) => Entry(file, n).length = 0
    IN  swaps = 0 => /\ pc = "notFound" => absent("BOOT.BIN")
                     /\ pc = "nextNotFound" => absent("NEXT.BIN")

\* A disk changed while a sector is copied blanks the rest of the copy; it
\* never splices in another sector, of the same disk or the next.
NoSplicedSector ==
    pc \in {"copy", "copied"} =>
        \E i \in Image, s \in Lbas, k \in 0 .. at :
            \A w \in 0 .. at - 1 :
                ram[dest + w] = IF w < k THEN <<i, s * SectorWords + w>> ELSE Zero

\* The firmware reaches the next stage or a message, whatever disk it finds
\* and however often the disk changes: no search or load goes on for ever.
BootEnds == pc = "status" ~> pc \in Ended

\* "Exactly one 512-byte sector is copied from the selected disk": when the
\* service succeeds, the sector asked for is in RAM.
ServiceCopiesSector ==
    pc = "copied" /\ caller \in ServiceCallers =>
        \E i \in Image : \A w \in Positions :
            ram[dest + w] = <<i, sector * SectorWords + w>>
=============================================================================
