--------------------------- MODULE DiskController ---------------------------
(***************************************************************************)
(* The disk controller of libt32vm (src/vm/libt32vm/src/t32.c): one drive  *)
(* whose medium is an image file of the host, a register file (COMMAND,    *)
(* LBA, ERROR, SECTOR_COUNT) and a sector buffer the guest reaches through *)
(* the DATA window.  The host attaches, detaches and resets at any moment  *)
(* between two guest accesses, and another process may shorten an image.   *)
(*                                                                         *)
(* A sector is SectorWords words.  A word carries its provenance: the      *)
(* image that first held it and the place there, the guest, or a zeroing.  *)
(***************************************************************************)
EXTENDS Integers, Sequences

CONSTANTS
    Image,          \* the image files of the host
    NoFile,         \* disk_file = NULL
    SectorWords,    \* T32_DISK_SECTOR_SIZE, in words
    ImageWords,     \* Image -> the size its file starts with, in words
    Lbas,           \* the values the guest writes to LBA
    Zero,           \* the word a memset leaves
    GuestWords,     \* the words the guest writes to DATA
    MaxChanges      \* bound on the media changes of a behaviour

ASSUME DiskAssumption ==
    /\ NoFile \notin Image
    /\ SectorWords \in Nat \ {0}
    /\ ImageWords \in [Image -> Nat]
    /\ Lbas \subseteq Nat
    /\ MaxChanges \in Nat

VARIABLES
    media,          \* Image -> the words of its file
    file,           \* disk_file
    sectorCount,    \* disk_sector_count, computed once, on attach
    lba,            \* disk_lba
    error,          \* disk_error
    buffer,         \* disk_buffer
    call,           \* the operation of the last step
    shrunk,         \* was the attached image shortened after the attach?
    changes         \* how many steps changed an image so far

registers == <<file, sectorCount, lba, error, buffer>>
vars == <<media, registers, call, shrunk, changes>>

Positions == 0 .. SectorWords - 1
OwnWords(i) == {i} \X Nat
Word == {Zero} \cup GuestWords \cup (Image \X Nat)
Commands == {"READ", "WRITE", "OTHER"}
HostCalls == {"attach", "attachFailed", "detach", "reset", "truncate"}
GuestCalls == {"lba", "error", "data", "ignored", "refused"} \cup Commands

-----------------------------------------------------------------------------
(***************************************************************************)
(* Defects the properties must exclude.  No action uses them.              *)
(***************************************************************************)
\* The range check admits the sector after the last.
AddressableAtCount == file # NoFile /\ lba <= sectorCount

\* A new medium inherits the old one's sector buffer.
AttachKeepsBuffer(i) ==
    /\ Len(media[i]) % SectorWords = 0
    /\ file' = i
    /\ sectorCount' = Len(media[i]) \div SectorWords
    /\ lba' = 0 /\ error' = "NONE"
    /\ call' = "attach" /\ shrunk' = FALSE
    /\ UNCHANGED <<media, buffer, changes>>

\* A new medium's first sector is already in the buffer.
AttachReadsAhead(i) ==
    /\ Len(media[i]) % SectorWords = 0
    /\ file' = i
    /\ sectorCount' = Len(media[i]) \div SectorWords
    /\ lba' = 0 /\ error' = "NONE"
    /\ buffer' = IF Len(media[i]) = 0 THEN buffer
                 ELSE [w \in Positions |-> media[i][w + 1]]
    /\ call' = "attach" /\ shrunk' = FALSE
    /\ UNCHANGED <<media, changes>>

\* The old disk is detached before the new image is known to be usable.
AttachFailedDetaches(i) ==
    /\ file' = NoFile
    /\ call' = "attachFailed" /\ shrunk' = FALSE
    /\ UNCHANGED <<media, sectorCount, lba, error, buffer, changes>>

\* The count fread returns is not looked at.
ReadIgnoresShortCount(command) ==
    /\ command = "READ" /\ file # NoFile /\ lba < sectorCount
    /\ \E k \in 0 .. SectorWords :
          /\ lba * SectorWords + k <= Len(media[file])
          /\ buffer' = [w \in Positions |->
                          IF w < k THEN media[file][lba * SectorWords + w + 1]
                                   ELSE buffer[w]]
    /\ error' = "NONE"
    /\ call' = command
    /\ UNCHANGED <<media, file, sectorCount, lba, shrunk, changes>>

\* The write goes to the start of the file: the seek is missing.
OverlayAtStart(words, k) ==
    [p \in 1 .. Len(words) |-> IF p <= k THEN buffer[p - 1] ELSE words[p]]

-----------------------------------------------------------------------------
\* What memset leaves in disk_buffer.
ZeroBuffer == [w \in Positions |-> Zero]

\* t32_create: calloc and t32_reset; no medium is attached.
Init ==
    /\ media = [i \in Image |-> [p \in 1 .. ImageWords[i] |-> <<i, p - 1>>]]
    /\ file = NoFile /\ sectorCount = 0 /\ lba = 0 /\ error = "NONE"
    /\ buffer = ZeroBuffer
    /\ call = "none" /\ shrunk = FALSE /\ changes = 0

-----------------------------------------------------------------------------
(***************************************************************************)
(* The host.                                                               *)
(***************************************************************************)
\* fopen "r+b" fails, or the size is not a whole number of sectors: the
\* disk attached before stays.
AttachFailed(i) ==
    /\ call' = "attachFailed"
    /\ UNCHANGED <<media, registers, shrunk, changes>>

Attach(i) ==
    /\ Len(media[i]) % SectorWords = 0
    /\ file' = i
    /\ sectorCount' = Len(media[i]) \div SectorWords
    /\ lba' = 0 /\ error' = "NONE" /\ buffer' = ZeroBuffer
    /\ call' = "attach" /\ shrunk' = FALSE
    /\ UNCHANGED <<media, changes>>

Detach ==
    /\ file' = NoFile /\ sectorCount' = 0
    /\ lba' = 0 /\ error' = "NONE" /\ buffer' = ZeroBuffer
    /\ call' = "detach" /\ shrunk' = FALSE
    /\ UNCHANGED <<media, changes>>

\* t32_reset keeps the medium.
Reset ==
    /\ lba' = 0 /\ error' = "NONE" /\ buffer' = ZeroBuffer
    /\ call' = "reset"
    /\ UNCHANGED <<media, file, sectorCount, shrunk, changes>>

\* Another process of the host shortens an image file.
Truncate(i) ==
    /\ changes < MaxChanges
    /\ \E n \in 0 .. Len(media[i]) - 1 :
          media' = [media EXCEPT ![i] = SubSeq(media[i], 1, n)]
    /\ shrunk' = (shrunk \/ i = file)
    /\ changes' = changes + 1
    /\ call' = "truncate"
    /\ UNCHANGED registers

-----------------------------------------------------------------------------
(***************************************************************************)
(* disk_execute: a COMMAND.  It starts from a cleared error; the first     *)
(* obstacle sets the error and ends it.                                    *)
(***************************************************************************)
Offset == lba * SectorWords

\* The file after the first k words of the buffer reach it at the sector's
\* offset; a gap before the offset reads as zeros.
Overlay(words, k) ==
    LET end == IF k > 0 /\ Offset + k > Len(words) THEN Offset + k
                                                   ELSE Len(words)
    IN  [p \in 1 .. end |->
            IF p \in Offset + 1 .. Offset + k THEN buffer[p - Offset - 1]
            ELSE IF p <= Len(words) THEN words[p] ELSE Zero]

Fail(command, reason) ==
    /\ error' = reason
    /\ call' = command
    /\ UNCHANGED <<media, file, sectorCount, lba, buffer, shrunk, changes>>

NoMedia(command) == file = NoFile /\ Fail(command, "NO_MEDIA")

Addressable == file # NoFile /\ lba < sectorCount

OutOfRange(command) ==
    /\ file # NoFile
    /\ lba >= sectorCount
    /\ Fail(command, "RANGE")

SeekFails(command) == Addressable /\ Fail(command, "IO")

BadCommand(command) ==
    Addressable /\ command = "OTHER" /\ Fail(command, "BAD_COMMAND")

\* fread delivers k words, fewer than a sector at the end of the file or on
\* a host failure.
Read(command) ==
    /\ command = "READ" /\ Addressable
    /\ \E k \in 0 .. SectorWords :
          /\ Offset + k <= Len(media[file]) \/ k = 0
          /\ buffer' = [w \in Positions |->
                          IF w < k THEN media[file][Offset + w + 1]
                                   ELSE buffer[w]]
          /\ error' = IF k = SectorWords THEN "NONE" ELSE "IO"
    /\ call' = command
    /\ UNCHANGED <<media, file, sectorCount, lba, shrunk, changes>>

\* k words reach the file; fwrite or fflush may fail with any of them there.
Write(command) ==
    /\ command = "WRITE" /\ Addressable
    /\ changes < MaxChanges
    /\ \E k \in 0 .. SectorWords :
          /\ media' = [media EXCEPT ![file] = Overlay(media[file], k)]
          /\ error' \in IF k = SectorWords THEN {"NONE", "IO"} ELSE {"IO"}
    /\ changes' = changes + 1
    /\ call' = command
    /\ UNCHANGED <<file, sectorCount, lba, buffer, shrunk>>

Execute(command) ==
    \/ NoMedia(command) \/ OutOfRange(command) \/ SeekFails(command)
    \/ Read(command) \/ Write(command) \/ BadCommand(command)

-----------------------------------------------------------------------------
(***************************************************************************)
(* disk_mmio_write: the guest's other stores.  Loads change nothing.       *)
(***************************************************************************)
WriteLba(v) ==
    /\ lba' = v /\ error' = "NONE"
    /\ call' = "lba"
    /\ UNCHANGED <<media, file, sectorCount, buffer, shrunk, changes>>

\* ERROR is cleared by writing zero and ignores any other value.
WriteError(v) ==
    /\ error' = IF v = 0 THEN "NONE" ELSE error
    /\ call' = "error"
    /\ UNCHANGED <<media, file, sectorCount, lba, buffer, shrunk, changes>>

WriteData(w, word) ==
    /\ buffer' = [buffer EXCEPT ![w] = word]
    /\ call' = "data"
    /\ UNCHANGED <<media, file, sectorCount, lba, error, shrunk, changes>>

\* A read-only register ignores the store; a short, unaligned or straddling
\* one is refused, and the instruction faults.
WriteIgnored(outcome) ==
    /\ call' = outcome
    /\ UNCHANGED <<media, registers, shrunk, changes>>

Host ==
    \/ \E i \in Image : AttachFailed(i) \/ Attach(i) \/ Truncate(i)
    \/ Detach
    \/ Reset

Guest ==
    \/ \E command \in Commands : Execute(command)
    \/ \E v \in Lbas : WriteLba(v)
    \/ \E v \in {0, 1} : WriteError(v)
    \/ \E w \in Positions, word \in GuestWords : WriteData(w, word)
    \/ \E outcome \in {"ignored", "refused"} : WriteIgnored(outcome)

Next == Host \/ Guest
Spec == Init /\ [][Next]_vars

-----------------------------------------------------------------------------
(***************************************************************************)
(* Properties.                                                             *)
(***************************************************************************)
\* Every component of the controller keeps its type; LBA is any value the
\* guest wrote, in range or not.
TypeOK ==
    /\ media \in [Image -> Seq(Word)]
    /\ file \in Image \cup {NoFile}
    /\ sectorCount \in Nat
    /\ lba \in Lbas \cup {0}
    /\ error \in {"NONE", "NO_MEDIA", "RANGE", "IO", "BAD_COMMAND"}
    /\ buffer \in [Positions -> Word]
    /\ call \in {"none"} \cup HostCalls \cup GuestCalls
    /\ shrunk \in BOOLEAN
    /\ changes \in 0 .. MaxChanges

\* The capacity computed on attach stays the size of the image: no WRITE
\* grows the file, so the range check of every later command is right.
CountMatchesMedia ==
    /\ file = NoFile => sectorCount = 0
    /\ file # NoFile /\ ~ shrunk =>
          Len(media[file]) = sectorCount * SectorWords

\* Swapping media carries no sector from one image to another: the buffer
\* holds words of the attached image only, and every image holds its own
\* words, the guest's, or zeros.
NoCrossMedia ==
    /\ \A w \in Positions :
          buffer[w] \in {Zero} \cup GuestWords
             \cup (IF file = NoFile THEN {} ELSE OwnWords(file))
    /\ \A i \in Image : \A p \in 1 .. Len(media[i]) :
          media[i][p] \in {Zero} \cup GuestWords \cup OwnWords(i)

\* A step that reports a READ or WRITE done leaves the buffer and the sector
\* it addressed in agreement.
TransferDone ==
    call' \in {"READ", "WRITE"} /\ error' = "NONE" =>
       /\ file' = file /\ file # NoFile /\ lba' = lba
       /\ Offset + SectorWords <= Len(media'[file])
       /\ \A w \in Positions : buffer'[w] = media'[file][Offset + w + 1]

\* ERROR = NONE after READ or WRITE means that the buffer and the addressed
\* sector of the attached image agree: a transfer cut short by the host, or
\* by an image shortened behind the controller's back, is always reported.
SuccessMeansDone == [][TransferDone]_vars

\* A step that is no other process's leaves every word of every image as it
\* is, but for the addressed sector under a WRITE and zeros past the end.
OthersKept ==
    call' # "truncate" =>
       \A i \in Image :
          /\ Len(media'[i]) >= Len(media[i])
          /\ \A p \in 1 .. Len(media'[i]) :
                \/ p <= Len(media[i]) /\ media'[i][p] = media[i][p]
                \/ p > Len(media[i]) /\ media'[i][p] = Zero
                \/ /\ i = file /\ call' = "WRITE"
                   /\ p \in Offset + 1 .. Offset + SectorWords
                   /\ media'[i][p] = buffer[p - Offset - 1]

\* The controller changes no word of any image but those of the addressed
\* sector of the attached one, which take the buffer's words, whether the
\* WRITE succeeds or fails half-way; a gap it closes holds zeros.
OnlyAddressedSector == [][OthersKept]_vars

\* A step that changes the medium, or fails to.
SwapDone ==
    call' \in {"attach", "attachFailed", "detach"} =>
       \/ UNCHANGED registers /\ call' = "attachFailed"
       \/ /\ lba' = 0 /\ error' = "NONE" /\ buffer' = ZeroBuffer
          /\ sectorCount' * SectorWords
                = IF file' = NoFile THEN 0 ELSE Len(media[file'])

\* Changing the medium is all or nothing: a failed attach leaves the disk
\* in use as it was, and a new or absent medium starts with cleared
\* registers, so no command in preparation reaches the new medium.
SwapIsAtomic == [][SwapDone]_vars
=============================================================================
