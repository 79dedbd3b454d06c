----------------------------- MODULE BootProofs ------------------------------
(***************************************************************************)
(* The disk controller, and the boot chain that reads from it.  For any    *)
(* images, sector size and commands: the controller keeps its types, the   *)
(* capacity computed on attach stays right, no sector travels from one     *)
(* image to another; a transfer reported done was done, a WRITE touches    *)
(* the addressed sector only, and a change of medium is whole.             *)
(* For any disks, any sizes of RAM, sectors and directories, and a disk    *)
(* that is changed or shortened between any two accesses: no copied sector *)
(* mixes two.  For a disk that stays in the drive: what gets control is    *)
(* the whole file of that name, and what is not found is not there.        *)
(***************************************************************************)
EXTENDS BootChain, SequenceTheorems, TLAPS

-----------------------------------------------------------------------------
(***************************************************************************)
(* The controller, driven by any guest.                                    *)
(***************************************************************************)
\* The inductive invariant.  TypeOK is needed to index the images; the other
\* two carry themselves.
IInv == TypeOK /\ CountMatchesMedia /\ NoCrossMedia

-----------------------------------------------------------------------------
(***************************************************************************)
(* Whole sectors.                                                          *)
(***************************************************************************)
\* A length that is a whole number of sectors is its sectors' length.
LEMMA WholeSectors ==
    ASSUME NEW n \in Nat, n % SectorWords = 0
    PROVE  /\ n \div SectorWords \in Nat
           /\ n = (n \div SectorWords) * SectorWords
BY DiskAssumption

\* A sector below the count ends inside the image.
LEMMA SectorFits ==
    ASSUME NEW l \in Nat, NEW c \in Nat, l < c
    PROVE  l * SectorWords + SectorWords <= c * SectorWords
<1>1. l + 1 <= c
  OBVIOUS
<1>2. (l + 1) * SectorWords <= c * SectorWords
  BY <1>1, DiskAssumption
<1>3. (l + 1) * SectorWords = l * SectorWords + SectorWords
  BY DiskAssumption
<1> QED BY <1>2, <1>3

-----------------------------------------------------------------------------
\* The controller starts without a medium, with every image its own.
LEMMA InitIInv == Init => IInv
<1> SUFFICES ASSUME Init PROVE IInv
  OBVIOUS
<1> USE DiskAssumption
<1>1. ASSUME NEW i \in Image
      PROVE  /\ media[i] \in Seq(Word)
             /\ \A p \in 1 .. Len(media[i]) : media[i][p] \in OwnWords(i)
  <2>1. ImageWords[i] \in Nat
    OBVIOUS
  <2>2. media[i] = [p \in 1 .. ImageWords[i] |-> <<i, p - 1>>]
    BY DEF Init
  <2>3. \A p \in 1 .. ImageWords[i] : p - 1 \in Nat
    OBVIOUS
  <2>4. \A p \in 1 .. ImageWords[i] :
            <<i, p - 1>> \in OwnWords(i) \cap Word
    BY <2>3 DEF OwnWords, Word
  <2> QED BY <2>1, <2>2, <2>4
<1>2. media \in [Image -> Seq(Word)]
  BY <1>1 DEF Init
<1>3. TypeOK
  <2>1. /\ file = NoFile /\ sectorCount = 0 /\ lba = 0 /\ error = "NONE"
        /\ buffer = ZeroBuffer
        /\ call = "none" /\ shrunk = FALSE /\ changes = 0
    BY DEF Init
  <2>2. buffer \in [Positions -> Word]
    BY <2>1 DEF ZeroBuffer, Word
  <2>3. changes \in 0 .. MaxChanges
    BY <2>1
  <2> QED BY <1>2, <2>1, <2>2, <2>3 DEF TypeOK
<1>4. CountMatchesMedia
  BY DEF Init, CountMatchesMedia
<1>5. NoCrossMedia
  BY <1>1 DEF Init, NoCrossMedia, ZeroBuffer
<1> QED BY <1>3, <1>4, <1>5 DEF IInv

-----------------------------------------------------------------------------
(***************************************************************************)
(* The host.                                                               *)
(***************************************************************************)
\* A new or absent medium comes with a cleared buffer.
LEMMA HostIInv ==
    ASSUME IInv, Host
    PROVE  IInv'
<1> USE DiskAssumption DEF HostCalls, GuestCalls
<1>1. ASSUME NEW i \in Image, AttachFailed(i) PROVE IInv'
  BY <1>1 DEF AttachFailed, registers, IInv, TypeOK, CountMatchesMedia,
              NoCrossMedia
<1>2. ASSUME NEW i \in Image, Attach(i) PROVE IInv'
  <2>1. Len(media[i]) \in Nat
    BY DEF IInv, TypeOK
  <2>2. /\ sectorCount' \in Nat
        /\ Len(media[i]) = sectorCount' * SectorWords
    BY <1>2, <2>1, WholeSectors DEF Attach
  <2>3. TypeOK'
    BY <1>2, <2>2 DEF Attach, IInv, TypeOK, ZeroBuffer, Word
  <2>4. CountMatchesMedia'
    BY <1>2, <2>2 DEF Attach, CountMatchesMedia
  <2>5. NoCrossMedia'
    BY <1>2 DEF Attach, IInv, NoCrossMedia, ZeroBuffer
  <2> QED BY <2>3, <2>4, <2>5 DEF IInv
<1>3. ASSUME NEW i \in Image, Truncate(i) PROVE IInv'
  <2>1. PICK n \in 0 .. Len(media[i]) - 1 :
            media' = [media EXCEPT ![i] = SubSeq(media[i], 1, n)]
    BY <1>3 DEF Truncate
  <2>2. media[i] \in Seq(Word) /\ Len(media[i]) \in Nat
    BY DEF IInv, TypeOK
  <2>3. /\ SubSeq(media[i], 1, n) \in Seq(Word)
        /\ Len(SubSeq(media[i], 1, n)) = n
        /\ \A p \in 1 .. n : SubSeq(media[i], 1, n)[p] = media[i][p]
    BY <2>2
  <2>4. media' \in [Image -> Seq(Word)]
    BY <2>1, <2>3 DEF IInv, TypeOK
  <2>5. TypeOK'
    BY <1>3, <2>4 DEF Truncate, registers, IInv, TypeOK
  <2>6. CountMatchesMedia'
    BY <1>3, <2>1 DEF Truncate, registers, IInv, TypeOK, CountMatchesMedia
  <2>7. ASSUME NEW j \in Image, NEW p \in 1 .. Len(media'[j])
        PROVE  media'[j][p] \in {Zero} \cup GuestWords \cup OwnWords(j)
    <3>1. CASE j = i
      <4>1. media'[j] = SubSeq(media[i], 1, n)
        BY <2>1, <3>1 DEF IInv, TypeOK
      <4>2. p \in 1 .. n /\ p \in 1 .. Len(media[i])
        BY <2>2, <2>3, <4>1
      <4> QED BY <2>3, <3>1, <4>1, <4>2 DEF IInv, NoCrossMedia
    <3>2. CASE j # i
      BY <2>1, <3>2 DEF IInv, TypeOK, NoCrossMedia
    <3> QED BY <3>1, <3>2
  <2>8. NoCrossMedia'
    BY <1>3, <2>7 DEF Truncate, registers, IInv, NoCrossMedia
  <2> QED BY <2>5, <2>6, <2>8 DEF IInv
<1>4. CASE Detach
  BY <1>4 DEF Detach, IInv, TypeOK, CountMatchesMedia, NoCrossMedia,
              ZeroBuffer, Word
<1>5. CASE Reset
  BY <1>5 DEF Reset, IInv, TypeOK, CountMatchesMedia, NoCrossMedia,
              ZeroBuffer, Word
<1> QED BY <1>1, <1>2, <1>3, <1>4, <1>5 DEF Host

-----------------------------------------------------------------------------
(***************************************************************************)
(* The guest.                                                              *)
(***************************************************************************)
\* A command that fails before its transfer changes only the error.
LEMMA FailIInv ==
    ASSUME IInv, NEW command \in Commands,
           NEW reason \in {"NO_MEDIA", "RANGE", "IO", "BAD_COMMAND"},
           Fail(command, reason)
    PROVE  IInv'
BY DEF Fail, IInv, TypeOK, CountMatchesMedia, NoCrossMedia, GuestCalls

\* READ fills the buffer from the attached image only.
LEMMA ReadIInv ==
    ASSUME IInv, NEW command \in Commands, Read(command)
    PROVE  IInv'
<1> USE DiskAssumption
<1>1. file \in Image /\ file # NoFile /\ lba \in Nat /\ Offset \in Nat
  BY DEF Read, Addressable, IInv, TypeOK, Offset
<1>2. media[file] \in Seq(Word) /\ Len(media[file]) \in Nat
  BY <1>1 DEF IInv, TypeOK
<1>3. PICK k \in 0 .. SectorWords :
        /\ Offset + k <= Len(media[file]) \/ k = 0
        /\ buffer' = [w \in Positions |-> IF w < k THEN media[file][Offset + w + 1]
                                                   ELSE buffer[w]]
        /\ error' = IF k = SectorWords THEN "NONE" ELSE "IO"
  BY DEF Read
<1>4. ASSUME NEW w \in Positions
      PROVE  /\ buffer'[w] \in Word
             /\ buffer'[w] \in {Zero} \cup GuestWords \cup OwnWords(file)
  <2>1. CASE w < k
    <3>1. w \in Nat /\ Offset + w + 1 \in 1 .. Len(media[file])
      BY <1>1, <1>2, <1>3, <2>1 DEF Positions
    <3>2. buffer'[w] = media[file][Offset + w + 1]
      BY <1>3, <2>1
    <3> QED BY <1>1, <1>2, <3>1, <3>2 DEF IInv, NoCrossMedia
  <2>2. CASE ~(w < k)
    <3>1. buffer'[w] = buffer[w]
      BY <1>3, <2>2
    <3> QED BY <1>1, <3>1 DEF IInv, TypeOK, NoCrossMedia
  <2> QED BY <2>1, <2>2
<1>5. TypeOK'
  BY <1>3, <1>4 DEF Read, IInv, TypeOK, GuestCalls
<1>6. CountMatchesMedia'
  BY DEF Read, IInv, CountMatchesMedia
<1>7. NoCrossMedia'
  BY <1>1, <1>4 DEF Read, IInv, NoCrossMedia
<1> QED BY <1>5, <1>6, <1>7 DEF IInv

\* A transfer of k words overlays the addressed sector with the buffer's.
LEMMA OverlayProperties ==
    ASSUME NEW words \in Seq(Word), NEW k \in 0 .. SectorWords,
           buffer \in [Positions -> Word], lba \in Nat
    PROVE  /\ Overlay(words, k) \in Seq(Word)
           /\ Len(Overlay(words, k)) = IF k > 0 /\ Offset + k > Len(words)
                                       THEN Offset + k ELSE Len(words)
           /\ \A p \in 1 .. Len(Overlay(words, k)) :
                \/ p \in 1 .. Len(words) /\ Overlay(words, k)[p] = words[p]
                \/ Overlay(words, k)[p] = Zero
                \/ \E w \in Positions : Overlay(words, k)[p] = buffer[w]
           /\ \A p \in 1 .. Len(Overlay(words, k)) :
                Overlay(words, k)[p] =
                   IF p \in Offset + 1 .. Offset + k THEN buffer[p - Offset - 1]
                   ELSE IF p <= Len(words) THEN words[p] ELSE Zero
<1> USE DiskAssumption
<1>1. Offset \in Nat /\ Len(words) \in Nat /\ k \in Nat
  BY DEF Offset
<1> DEFINE end == IF k > 0 /\ Offset + k > Len(words) THEN Offset + k
                                                     ELSE Len(words)
           laid(p) == IF p \in Offset + 1 .. Offset + k THEN buffer[p - Offset - 1]
                    ELSE IF p <= Len(words) THEN words[p] ELSE Zero
<1>2. end \in Nat
  BY <1>1
<1>3. ASSUME NEW p \in 1 .. end
      PROVE  /\ laid(p) \in Word
             /\ \/ p \in 1 .. Len(words) /\ laid(p) = words[p]
                \/ laid(p) = Zero
                \/ \E w \in Positions : laid(p) = buffer[w]
  <2>1. CASE p \in Offset + 1 .. Offset + k
    <3>1. p - Offset - 1 \in Positions
      BY <1>1, <2>1 DEF Positions
    <3> QED BY <2>1, <3>1
  <2>2. CASE ~(p \in Offset + 1 .. Offset + k) /\ p <= Len(words)
    <3>1. p \in 1 .. Len(words)
      BY <1>1, <1>2, <2>2
    <3>2. words[p] \in Word
      BY <3>1
    <3> QED BY <2>2, <3>1, <3>2
  <2>3. CASE ~(p \in Offset + 1 .. Offset + k) /\ ~(p <= Len(words))
    BY <2>3 DEF Word
  <2> QED BY <2>1, <2>2, <2>3
<1>4. Overlay(words, k) = [p \in 1 .. end |-> laid(p)]
  BY DEF Overlay
<1> HIDE DEF end, laid
<1>5. /\ Overlay(words, k) \in Seq(Word)
      /\ Len(Overlay(words, k)) = end
      /\ \A p \in 1 .. end : Overlay(words, k)[p] = laid(p)
  BY <1>2, <1>3, <1>4
<1>6. end = IF k > 0 /\ Offset + k > Len(words) THEN Offset + k ELSE Len(words)
  BY DEF end
<1>7. \A p \in 1 .. end : laid(p) =
        IF p \in Offset + 1 .. Offset + k THEN buffer[p - Offset - 1]
        ELSE IF p <= Len(words) THEN words[p] ELSE Zero
  BY DEF laid
<1> QED BY <1>3, <1>5, <1>6, <1>7

\* WRITE does not grow the attached image and puts only words of the buffer,
\* and zeros, into it.
LEMMA WriteIInv ==
    ASSUME IInv, NEW command \in Commands, Write(command)
    PROVE  IInv'
<1> USE DiskAssumption
<1>1. /\ file \in Image /\ file # NoFile /\ lba \in Nat
      /\ sectorCount \in Nat /\ lba < sectorCount
  BY DEF Write, Addressable, IInv, TypeOK
<1>2. media[file] \in Seq(Word) /\ Len(media[file]) \in Nat
  BY <1>1 DEF IInv, TypeOK
<1>3. PICK k \in 0 .. SectorWords :
        /\ media' = [media EXCEPT ![file] = Overlay(media[file], k)]
        /\ error' \in IF k = SectorWords THEN {"NONE", "IO"} ELSE {"IO"}
  BY DEF Write
<1> DEFINE new == Overlay(media[file], k)
<1>4. /\ new \in Seq(Word)
      /\ Len(new) = IF k > 0 /\ Offset + k > Len(media[file])
                    THEN Offset + k ELSE Len(media[file])
      /\ \A p \in 1 .. Len(new) :
            \/ p \in 1 .. Len(media[file]) /\ new[p] = media[file][p]
            \/ new[p] = Zero
            \/ \E w \in Positions : new[p] = buffer[w]
  <2>1. buffer \in [Positions -> Word] /\ lba \in Nat
    BY <1>1 DEF IInv, TypeOK
  <2> DEFINE words == media[file]
  <2>2. words \in Seq(Word)
    BY <1>2
  <2> HIDE DEF words
  <2>3. /\ Overlay(words, k) \in Seq(Word)
        /\ Len(Overlay(words, k)) = IF k > 0 /\ Offset + k > Len(words)
                                    THEN Offset + k ELSE Len(words)
        /\ \A p \in 1 .. Len(Overlay(words, k)) :
              \/ p \in 1 .. Len(words) /\ Overlay(words, k)[p] = words[p]
              \/ Overlay(words, k)[p] = Zero
              \/ \E w \in Positions : Overlay(words, k)[p] = buffer[w]
    BY <2>1, <2>2, OverlayProperties
  <2> QED BY <2>3 DEF words
<1> HIDE DEF new
<1>5. media' = [media EXCEPT ![file] = new]
  BY <1>3 DEF new
<1>6. media' \in [Image -> Seq(Word)]
  BY <1>1, <1>4, <1>5 DEF IInv, TypeOK
<1>7. TypeOK'
  BY <1>3, <1>6 DEF Write, IInv, TypeOK, GuestCalls
<1>8. CountMatchesMedia'
  <2>1. CASE shrunk
    BY <1>1, <2>1 DEF Write, CountMatchesMedia
  <2>2. CASE ~ shrunk
    <3>1. Len(media[file]) = sectorCount * SectorWords
      BY <1>1, <2>2 DEF IInv, CountMatchesMedia
    <3>2. lba * SectorWords + SectorWords <= Len(media[file])
      BY <1>1, <3>1, SectorFits
    <3>3. Offset \in Nat /\ Offset + k <= Len(media[file])
      BY <1>1, <1>2, <3>2 DEF Offset
    <3>4. Len(new) = Len(media[file])
      BY <1>4, <3>3, <1>2
    <3>5. media'[file] = new
      BY <1>1, <1>5 DEF IInv, TypeOK
    <3> QED BY <1>1, <3>1, <3>4, <3>5 DEF Write, CountMatchesMedia
  <2> QED BY <2>1, <2>2 DEF IInv, TypeOK
<1>9. ASSUME NEW i \in Image, NEW p \in 1 .. Len(media'[i])
      PROVE  media'[i][p] \in {Zero} \cup GuestWords \cup OwnWords(i)
  <2>1. CASE i = file
    <3>1. media'[i] = new
      BY <1>5, <2>1 DEF IInv, TypeOK
    <3>2. CASE p \in 1 .. Len(media[file]) /\ new[p] = media[file][p]
      BY <1>1, <2>1, <3>1, <3>2 DEF IInv, NoCrossMedia
    <3>3. CASE new[p] = Zero
      BY <3>1, <3>3
    <3>4. CASE \E w \in Positions : new[p] = buffer[w]
      BY <1>1, <2>1, <3>1, <3>4 DEF IInv, NoCrossMedia
    <3> QED BY <1>4, <3>1, <3>2, <3>3, <3>4
  <2>2. CASE i # file
    BY <1>5, <2>2 DEF IInv, TypeOK, NoCrossMedia
  <2> QED BY <2>1, <2>2
<1>10. NoCrossMedia'
  BY <1>9 DEF Write, IInv, NoCrossMedia
<1> QED BY <1>7, <1>8, <1>10 DEF IInv

\* Whatever the guest commands or stores.
LEMMA GuestIInv ==
    ASSUME IInv, Guest
    PROVE  IInv'
<1> USE DiskAssumption DEF GuestCalls
<1>1. ASSUME NEW command \in Commands, Execute(command) PROVE IInv'
  <2>1. CASE NoMedia(command)
    BY <2>1, FailIInv DEF NoMedia
  <2>2. CASE OutOfRange(command)
    BY <2>2, FailIInv DEF OutOfRange
  <2>3. CASE SeekFails(command)
    BY <2>3, FailIInv DEF SeekFails
  <2>4. CASE BadCommand(command)
    BY <2>4, FailIInv DEF BadCommand
  <2> QED BY <1>1, <2>1, <2>2, <2>3, <2>4, ReadIInv, WriteIInv DEF Execute
<1>2. ASSUME NEW v \in Lbas, WriteLba(v) PROVE IInv'
  BY <1>2 DEF WriteLba, IInv, TypeOK, CountMatchesMedia, NoCrossMedia
<1>3. ASSUME NEW v \in {0, 1}, WriteError(v) PROVE IInv'
  BY <1>3 DEF WriteError, IInv, TypeOK, CountMatchesMedia, NoCrossMedia
<1>4. ASSUME NEW w \in Positions, NEW word \in GuestWords, WriteData(w, word)
      PROVE  IInv'
  BY <1>4 DEF WriteData, IInv, TypeOK, CountMatchesMedia, NoCrossMedia, Word
<1>5. ASSUME NEW outcome \in {"ignored", "refused"}, WriteIgnored(outcome)
      PROVE  IInv'
  BY <1>5 DEF WriteIgnored, registers, IInv, TypeOK, CountMatchesMedia,
              NoCrossMedia
<1> QED BY <1>1, <1>2, <1>3, <1>4, <1>5 DEF Guest

\* One step of the host or of the guest.
LEMMA NextIInv == IInv /\ [Next]_vars => IInv'
<1>1. IInv /\ UNCHANGED vars => IInv'
  BY DEF vars, registers, IInv, TypeOK, CountMatchesMedia, NoCrossMedia
<1> QED BY <1>1, HostIInv, GuestIInv DEF Next

-----------------------------------------------------------------------------
\* Every step leaves every component of the controller in its type.
THEOREM TypeCorrect == Spec => []TypeOK
<1>1. IInv => TypeOK
  BY DEF IInv
<1> QED BY InitIInv, NextIInv, <1>1, PTL DEF Spec

\* The capacity the range check relies on stays the size of the image for as
\* long as nobody else shortens it, for any number of sectors and of words.
THEOREM CapacityIsRight == Spec => []CountMatchesMedia
<1>1. IInv => CountMatchesMedia
  BY DEF IInv
<1> QED BY InitIInv, NextIInv, <1>1, PTL DEF Spec

\* However the host swaps its images between two accesses of the guest, no
\* word of one image reaches another.
THEOREM MediaNeverMix == Spec => []NoCrossMedia
<1>1. IInv => NoCrossMedia
  BY DEF IInv
<1> QED BY InitIInv, NextIInv, <1>1, PTL DEF Spec

-----------------------------------------------------------------------------
(***************************************************************************)
(* The action properties.  Each needs of the invariant only the types.     *)
(***************************************************************************)
\* The calls of the host and of the guest that are not transfers.
LEMMA OtherCalls ==
    ASSUME Next, call' \in {"READ", "WRITE"}
    PROVE  \E command \in Commands : Execute(command)
BY DEF Next, Host, Guest, AttachFailed, Attach, Truncate, Detach, Reset,
       WriteLba, WriteError, WriteData, WriteIgnored

\* A READ that delivered a whole sector.
LEMMA ReadDone ==
    ASSUME IInv, NEW command \in Commands, Read(command)
    PROVE  TransferDone
<1> USE DiskAssumption
<1>1. /\ file \in Image /\ file # NoFile /\ lba \in Nat
      /\ media[file] \in Seq(Word) /\ Len(media[file]) \in Nat
  BY DEF Read, Addressable, IInv, TypeOK
<1>2. PICK k \in 0 .. SectorWords :
        /\ Offset + k <= Len(media[file]) \/ k = 0
        /\ buffer' = [w \in Positions |-> IF w < k THEN media[file][Offset + w + 1]
                                                   ELSE buffer[w]]
        /\ error' = IF k = SectorWords THEN "NONE" ELSE "IO"
  BY DEF Read
<1>3. SUFFICES ASSUME error' = "NONE"
               PROVE  /\ file' = file /\ file # NoFile /\ lba' = lba
                      /\ Offset + SectorWords <= Len(media'[file])
                      /\ \A w \in Positions :
                            buffer'[w] = media'[file][Offset + w + 1]
  BY DEF TransferDone
<1>4. k = SectorWords
  BY <1>2, <1>3
<1>5. Offset + SectorWords <= Len(media[file])
  BY <1>2, <1>4
<1>6. \A w \in Positions : buffer'[w] = media[file][Offset + w + 1]
  BY <1>2, <1>4 DEF Positions
<1> QED BY <1>1, <1>5, <1>6 DEF Read

\* A WRITE all of whose words reached the file.
LEMMA WriteDone ==
    ASSUME IInv, NEW command \in Commands, Write(command)
    PROVE  TransferDone
<1> USE DiskAssumption
<1>1. /\ file \in Image /\ file # NoFile /\ lba \in Nat
      /\ media[file] \in Seq(Word) /\ Len(media[file]) \in Nat /\ Offset \in Nat
  BY DEF Write, Addressable, IInv, TypeOK, Offset
<1>2. PICK k \in 0 .. SectorWords :
        /\ media' = [media EXCEPT ![file] = Overlay(media[file], k)]
        /\ error' \in IF k = SectorWords THEN {"NONE", "IO"} ELSE {"IO"}
  BY DEF Write
<1>3. SUFFICES ASSUME error' = "NONE"
               PROVE  /\ file' = file /\ file # NoFile /\ lba' = lba
                      /\ Offset + SectorWords <= Len(media'[file])
                      /\ \A w \in Positions :
                            buffer'[w] = media'[file][Offset + w + 1]
  BY DEF TransferDone
<1>4. k = SectorWords
  BY <1>2, <1>3
<1> DEFINE new == Overlay(media[file], SectorWords)
<1>5. media'[file] = new
  BY <1>1, <1>2, <1>4 DEF IInv, TypeOK
<1>6. /\ Len(new) = IF SectorWords > 0 /\ Offset + SectorWords > Len(media[file])
                    THEN Offset + SectorWords ELSE Len(media[file])
      /\ \A p \in 1 .. Len(new) :
            new[p] = IF p \in Offset + 1 .. Offset + SectorWords
                     THEN buffer[p - Offset - 1]
                     ELSE IF p <= Len(media[file]) THEN media[file][p] ELSE Zero
  <2>1. SectorWords \in 0 .. SectorWords /\ buffer \in [Positions -> Word]
    BY DEF IInv, TypeOK
  <2> QED BY <1>1, <2>1, OverlayProperties
<1> HIDE DEF new
<1>7. Offset + SectorWords <= Len(new) /\ Len(new) \in Nat
  BY <1>1, <1>6
<1>8. ASSUME NEW w \in Positions PROVE new[Offset + w + 1] = buffer[w]
  <2> DEFINE p == Offset + w + 1
  <2>1. p \in Offset + 1 .. Offset + SectorWords /\ p - Offset - 1 = w
    BY <1>1 DEF Positions
  <2>2. p \in 1 .. Len(new)
    BY <1>1, <1>7, <2>1
  <2> HIDE DEF p
  <2>3. new[p] = buffer[p - Offset - 1]
    BY <1>6, <2>1, <2>2
  <2>4. new[p] = buffer[w]
    BY <2>1, <2>3
  <2> QED BY <2>4 DEF p
<1> QED BY <1>1, <1>5, <1>7, <1>8 DEF Write

\* A WRITE touches the addressed sector only, however much of it got there.
LEMMA WriteKeeps ==
    ASSUME IInv, NEW command \in Commands, Write(command)
    PROVE  OthersKept
<1> USE DiskAssumption
<1>1. /\ file \in Image /\ lba \in Nat /\ media \in [Image -> Seq(Word)]
      /\ media[file] \in Seq(Word) /\ Len(media[file]) \in Nat /\ Offset \in Nat
      /\ buffer \in [Positions -> Word] /\ call' = "WRITE"
  BY DEF Write, Addressable, IInv, TypeOK, Offset
<1>2. PICK k \in 0 .. SectorWords :
        media' = [media EXCEPT ![file] = Overlay(media[file], k)]
  BY DEF Write
<1> DEFINE new == Overlay(media[file], k)
<1>3. /\ Len(new) = IF k > 0 /\ Offset + k > Len(media[file])
                    THEN Offset + k ELSE Len(media[file])
      /\ \A p \in 1 .. Len(new) :
            new[p] = IF p \in Offset + 1 .. Offset + k
                     THEN buffer[p - Offset - 1]
                     ELSE IF p <= Len(media[file]) THEN media[file][p] ELSE Zero
  BY <1>1, OverlayProperties
<1> HIDE DEF new
<1>4. media' = [media EXCEPT ![file] = new]
  BY <1>2 DEF new
<1>5. ASSUME NEW i \in Image, i # file
      PROVE  /\ Len(media'[i]) >= Len(media[i])
             /\ \A p \in 1 .. Len(media'[i]) :
                   p <= Len(media[i]) /\ media'[i][p] = media[i][p]
  <2>1. media'[i] = media[i] /\ Len(media[i]) \in Nat
    BY <1>1, <1>4, <1>5
  <2> QED BY <2>1
<1>6. media'[file] = new
  BY <1>1, <1>4
<1>7. Len(new) >= Len(media[file])
  BY <1>1, <1>3
<1>8. ASSUME NEW p \in 1 .. Len(new)
      PROVE  \/ p <= Len(media[file]) /\ new[p] = media[file][p]
             \/ p > Len(media[file]) /\ new[p] = Zero
             \/ /\ p \in Offset + 1 .. Offset + SectorWords
                /\ new[p] = buffer[p - Offset - 1]
  <2>1. CASE p \in Offset + 1 .. Offset + k
    BY <1>1, <1>3, <2>1
  <2>2. CASE ~(p \in Offset + 1 .. Offset + k)
    BY <1>1, <1>3, <2>2
  <2> QED BY <2>1, <2>2
<1>9. ASSUME NEW i \in Image, i = file
      PROVE  /\ Len(media'[i]) >= Len(media[i])
             /\ \A p \in 1 .. Len(media'[i]) :
                   \/ p <= Len(media[i]) /\ media'[i][p] = media[i][p]
                   \/ p > Len(media[i]) /\ media'[i][p] = Zero
                   \/ /\ i = file /\ call' = "WRITE"
                      /\ p \in Offset + 1 .. Offset + SectorWords
                      /\ media'[i][p] = buffer[p - Offset - 1]
  BY <1>1, <1>6, <1>7, <1>8, <1>9
<1> QED BY <1>5, <1>9 DEF OthersKept

\* Every other step leaves every image alone, unless another process cut one.
LEMMA UnwrittenKeeps ==
    ASSUME IInv, UNCHANGED media
    PROVE  OthersKept
<1>1. ASSUME NEW i \in Image PROVE Len(media[i]) \in Nat
  BY DEF IInv, TypeOK
<1> QED BY <1>1 DEF OthersKept

\* Whatever the medium, its size and the moment: a READ or WRITE that reports
\* no error left buffer and sector in agreement.
THEOREM SuccessIsTrue == Spec => SuccessMeansDone
<1>1. IInv /\ [Next]_vars => [TransferDone]_vars
  <2> SUFFICES ASSUME IInv, Next, call' \in {"READ", "WRITE"}, error' = "NONE"
               PROVE  TransferDone
    BY DEF TransferDone
  <2>1. PICK command \in Commands : Execute(command)
    BY OtherCalls
  <2>2. ASSUME NEW reason \in {"NO_MEDIA", "RANGE", "IO", "BAD_COMMAND"},
               Fail(command, reason)
        PROVE  FALSE
    BY <2>2 DEF Fail
  <2>3. Read(command) \/ Write(command)
    BY <2>1, <2>2 DEF Execute, NoMedia, OutOfRange, SeekFails, BadCommand
  <2> QED BY <2>3, ReadDone, WriteDone
<1> QED BY InitIInv, NextIInv, <1>1, PTL DEF Spec, SuccessMeansDone

\* Whether a WRITE succeeds or not, and whatever else host and guest do, the
\* other sectors and the other images keep every word.
THEOREM NeighboursAreSafe == Spec => OnlyAddressedSector
<1>1. IInv /\ [Next]_vars => [OthersKept]_vars
  <2> SUFFICES ASSUME IInv, Next PROVE OthersKept
    OBVIOUS
  <2>1. CASE call' = "truncate"
    BY <2>1 DEF OthersKept
  <2>2. CASE \E command \in Commands : Write(command)
    BY <2>2, WriteKeeps
  <2>3. CASE Host /\ call' # "truncate"
    <3>1. UNCHANGED media
      BY <2>3 DEF Host, AttachFailed, Attach, Truncate, Detach, Reset
    <3> QED BY <3>1, UnwrittenKeeps
  <2>4. CASE Guest /\ ~ \E command \in Commands : Write(command)
    <3>1. ASSUME NEW command \in Commands, Execute(command) PROVE UNCHANGED media
      BY <2>4, <3>1 DEF Execute, NoMedia, OutOfRange, SeekFails, BadCommand,
                        Fail, Read
    <3>2. UNCHANGED media
      BY <2>4, <3>1 DEF Guest, WriteLba, WriteError, WriteData, WriteIgnored
    <3> QED BY <3>2, UnwrittenKeeps
  <2> QED BY <2>1, <2>2, <2>3, <2>4 DEF Next
<1> QED BY InitIInv, NextIInv, <1>1, PTL DEF Spec, OnlyAddressedSector

\* A failed attach changes nothing, a new medium starts clean, for any images.
THEOREM SwapsAreWhole == Spec => SwapIsAtomic
<1>1. IInv /\ [Next]_vars => [SwapDone]_vars
  <2> SUFFICES ASSUME IInv, Next, call' \in {"attach", "attachFailed", "detach"}
               PROVE  SwapDone
    BY DEF SwapDone
  <2>1. CASE \E i \in Image : AttachFailed(i)
    BY <2>1 DEF AttachFailed, SwapDone
  <2>2. CASE Detach
    BY <2>2, DiskAssumption DEF Detach, SwapDone
  <2>3. ASSUME NEW i \in Image, Attach(i) PROVE SwapDone
    <3>1. Len(media[i]) \in Nat
      BY DEF IInv, TypeOK
    <3>2. (Len(media[i]) \div SectorWords) * SectorWords = Len(media[i])
      BY <2>3, <3>1, WholeSectors, DiskAssumption DEF Attach
    <3> QED BY <2>3, <3>2, DiskAssumption DEF Attach, SwapDone
  <2>4. \/ \E i \in Image : AttachFailed(i) \/ Attach(i)
        \/ Detach
    BY DEF Next, Host, Guest, Truncate, Reset, Execute, NoMedia, OutOfRange,
           SeekFails, BadCommand, Fail, Read, Write, Commands,
           WriteLba, WriteError, WriteData, WriteIgnored
  <2> QED BY <2>1, <2>2, <2>3, <2>4
<1> QED BY InitIInv, NextIInv, <1>1, PTL DEF Spec, SwapIsAtomic

-----------------------------------------------------------------------------
(***************************************************************************)
(* The boot chain.  Its invariant, first of the disks and of what any      *)
(* behaviour of the firmware keeps.                                        *)
(***************************************************************************)
\* No guest of the boot chain writes: a word is blank or has never moved.
DiskWord == {Zero} \cup UNION {{i} \X (0 .. ImageWords[i] - 1) : i \in Image}

DisksTyped ==
    /\ media \in [Image -> Seq(DiskWord)]
    /\ \A i \in Image :
          /\ Len(media[i]) <= ImageWords[i]
          /\ \A p \in 1 .. Len(media[i]) : media[i][p] = <<i, p - 1>>
    /\ file \in Image \cup {NoFile} /\ sectorCount \in Nat /\ lba \in Nat
    /\ file # NoFile => sectorCount * SectorWords <= ImageWords[file]
    /\ buffer \in [Positions -> DiskWord]

FirmwareTyped ==
    /\ {sector, from, dest, at, swaps} \subseteq Nat /\ {left, count} \subseteq Int
    /\ slot \in Positions
    /\ caller \in BiosCallers \cup ServiceCallers
    /\ ram \in [0 .. RamWords - 1 -> DiskWord]

\* Sector s of image i, whole.
SectorOf(i, s) == [w \in Positions |-> <<i, s * SectorWords + w>>]

\* When the firmware finds no error, the buffer holds a whole sector, or what
\* a change of medium leaves.  While it copies, the buffer goes on with the
\* sector whose first words are in RAM, or is blank.
CopiesSectors ==
    /\ pc \notin {"off", "status", "noDisk"} => Image # {}
    /\ pc = "error" /\ error = "NONE" =>
          buffer = ZeroBuffer \/ \E i \in Image, s \in Lbas : buffer = SectorOf(i, s)
    /\ pc = "copy" => at < SectorWords
    /\ pc = "copied" => at = SectorWords
    /\ pc \in {"copy", "copied"} =>
          \E i \in Image, s \in Lbas, k \in 0 .. at :
             /\ \A w \in 0 .. at - 1 :
                   ram[dest + w] = IF w < k THEN <<i, s * SectorWords + w>> ELSE Zero
             /\ buffer = ZeroBuffer \/ (k = at /\ buffer = SectorOf(i, s))

-----------------------------------------------------------------------------
(***************************************************************************)
(* Then of a machine whose disk stays: what is known at each place of the  *)
(* firmware.                                                               *)
(***************************************************************************)
\* Sector s of the disk is in the buffer, or the first words of it in RAM.
InBuffer(s) ==
    buffer = SectorOf(file, s) /\ (s + 1) * SectorWords <= ImageWords[file]
InRam(base, s, words) ==
    /\ \A w \in 0 .. words - 1 : ram[base + w] = <<file, s * SectorWords + w>>
    /\ (s + 1) * SectorWords <= ImageWords[file]

\* The entry under the cursor, and a search that has passed over the entries
\* in front of it.
Cursor == DirectoryEntries - left
Scanning(name) ==
    /\ left \in 1 .. DirectoryEntries
    /\ Content[file][0].directory \in Nat
    /\ sector * SectorWords + slot
          = Content[file][0].directory * SectorWords + Cursor
    /\ \A m \in 0 .. Cursor - 1 : Entry(file, m).name # name

\* Some sectors of a file are in RAM and others are left to load.
Loading(name, base) ==
    \E n \in 0 .. DirectoryEntries - 1 :
       /\ IsFirst(file, n, name)
       /\ Entry(file, n).start \in Nat /\ Entry(file, n).length \in Nat
       /\ \E done \in 0 .. Sectors(Entry(file, n).length) - 1 :
             /\ count = Sectors(Entry(file, n).length) - done
             /\ sector = Entry(file, n).start + done
             /\ dest = base + done * SectorWords
             /\ \A w \in 0 .. done * SectorWords - 1 :
                   ram[base + w] = <<file, Entry(file, n).start * SectorWords + w>>

\* What a sector is read for.
Purpose ==
    /\ caller \in {"header", "probe"} => sector = 0
    /\ caller = "directory" => Scanning("BOOT.BIN")
    /\ caller = "nextDirectory" => Scanning("NEXT.BIN")
    /\ caller \in {"probe", "nextDirectory"} => dest = Scratch
    /\ caller = "file" => Loading("BOOT.BIN", BootBase)
    /\ caller = "nextFile" => Loading("NEXT.BIN", NextBase)

\* The directory sector is where the search looks at it.
Looking ==
    /\ pc \in {"checkHeader", "directoryLba"} => InBuffer(0)
    /\ pc \in {"entry", "start", "length"} => Scanning("BOOT.BIN") /\ InBuffer(sector)
    /\ pc = "entry" => caller = "directory"
    /\ pc = "nextEntry" => caller = "nextDirectory"
    /\ pc = "nextEntry" =>
          Scanning("NEXT.BIN") /\ dest = Scratch /\ InRam(dest, sector, SectorWords)

\* The entry found, and what was read of it.
Choosing ==
    /\ pc \in {"start", "length", "bootinfo"} =>
          left \in 1 .. DirectoryEntries /\ IsFirst(file, Cursor, "BOOT.BIN")
    /\ pc \in {"length", "bootinfo"} =>
          from = Entry(file, Cursor).start /\ Entry(file, Cursor).start \in Nat
    /\ pc = "bootinfo" =>
          /\ count = Sectors(Entry(file, Cursor).length)
          /\ Entry(file, Cursor).length \in Nat

Reading ==
    /\ pc \in {"lba", "command", "error", "copy", "copied"} => Purpose
    /\ pc = "command" => lba = sector
    /\ pc = "error" /\ error = "NONE" => InBuffer(sector)
    /\ pc = "copy" => InBuffer(sector)
    /\ pc \in {"copy", "copied"} => InRam(dest, sector, at)

Absent(name) ==
    \A n \in 0 .. DirectoryEntries - 1 :
        IsFirst(file, n, name) => Entry(file, n).length = 0

Finished ==
    /\ pc = "boot" => Loaded("BOOT.BIN", BootBase)
    /\ pc = "stage3" => Loaded("NEXT.BIN", NextBase)
    /\ pc = "notFound" => Absent("BOOT.BIN")
    /\ pc = "nextNotFound" => Absent("NEXT.BIN")

Outline ==
    /\ pc \notin {"off", "status", "noDisk"} => file \in Image
    /\ Looking /\ Choosing /\ Reading /\ Finished

\* The disk stays as long as nobody swaps it.
Unswapped == swaps = 0 => Outline

BootIInv == DisksTyped /\ FirmwareTyped /\ CopiesSectors /\ Unswapped

-----------------------------------------------------------------------------
(***************************************************************************)
(* Words and sectors.                                                      *)
(***************************************************************************)
\* What a word of a disk says is what the image said there.
LEMMA WordSays ==
    ASSUME NEW i \in Image, NEW p \in 0 .. ImageWords[i] - 1
    PROVE  <<i, p>> # Zero /\ Says(<<i, p>>) = Content[i][p]
BY DiskAssumption, BootAssumption DEF Says

\* Places and lengths the firmware reads are numbers, on any disk.
LEMMA SaysNumbers ==
    ASSUME NEW word \in DiskWord
    PROVE  /\ Says(word).directory \in Nat /\ Says(word).start \in Nat
           /\ Says(word).length \in Nat
<1>1. CASE word = Zero
  BY <1>1 DEF Says, Blank
<1>2. ASSUME NEW i \in Image, word \in {i} \X (0 .. ImageWords[i] - 1)
      PROVE  /\ Says(word).directory \in Nat /\ Says(word).start \in Nat
             /\ Says(word).length \in Nat
  <2>1. PICK p \in 0 .. ImageWords[i] - 1 : word = <<i, p>>
    BY <1>2
  <2>2. Says(word) = Content[i][p]
    BY <2>1, WordSays
  <2>3. /\ {Content[i][p].directory, Content[i][p].start} \subseteq Lbas
        /\ Content[i][p].length \in Nat /\ Lbas \subseteq Nat
    BY DiskAssumption, BootAssumption
  <2> QED BY <2>2, <2>3
<1> QED BY <1>1, <1>2 DEF DiskWord

\* The words of a sector inside an image are words of that image.
LEMMA SectorInside ==
    ASSUME NEW i \in Image, NEW s \in Nat, NEW w \in Positions,
           (s + 1) * SectorWords <= ImageWords[i]
    PROVE  /\ s * SectorWords + w \in 0 .. ImageWords[i] - 1
           /\ <<i, s * SectorWords + w>> \in DiskWord
<1>1. s * SectorWords \in Nat /\ (s + 1) * SectorWords = s * SectorWords + SectorWords
  BY DiskAssumption
<1>2. ImageWords[i] \in Nat /\ SectorWords \in Nat
  BY DiskAssumption
<1>3. s * SectorWords + w \in 0 .. ImageWords[i] - 1
  BY <1>1, <1>2 DEF Positions
<1> QED BY <1>3 DEF DiskWord

\* The sectors a file is rounded up to hold it, and only the empty has none.
LEMMA SectorsHold ==
    ASSUME NEW n \in Nat
    PROVE  /\ Sectors(n) \in Nat /\ Sectors(n) * SectorWords >= n
           /\ Sectors(n) = 0 <=> n = 0
<1> DEFINE s == Sectors(n)
<1>1. /\ s \in Nat
      /\ s * SectorWords <= n + SectorWords - 1
      /\ n + SectorWords - 1 < s * SectorWords + SectorWords
  BY DiskAssumption DEF Sectors
<1>2. SectorWords \in Nat \ {0} /\ s * SectorWords \in Nat
  BY <1>1, DiskAssumption
<1>3. s # 0 => s * SectorWords >= SectorWords
  BY <1>1, <1>2
<1>4. s = 0 => s * SectorWords = 0
  BY <1>2
<1> HIDE DEF s
<1>5. s * SectorWords >= n /\ (s = 0 <=> n = 0)
  BY <1>1, <1>2, <1>3, <1>4
<1> QED BY <1>1, <1>5 DEF s

-----------------------------------------------------------------------------
(***************************************************************************)
(* The disks.  None of the firmware's accesses writes.                     *)
(***************************************************************************)
\* An image that is attached fills the sectors it counts.
LEMMA AttachTyped ==
    ASSUME DisksTyped, NEW i \in Image, Attach(i)
    PROVE  DisksTyped'
<1>1. media[i] \in Seq(DiskWord) /\ Len(media[i]) \in Nat /\ Len(media[i]) <= ImageWords[i]
  BY DEF DisksTyped
<1>2. \A n \in Nat : n \div SectorWords \in Nat /\ (n \div SectorWords) * SectorWords <= n
  BY DiskAssumption
<1>3. sectorCount' \in Nat /\ sectorCount' * SectorWords <= Len(media[i])
  BY <1>1, <1>2 DEF Attach
<1>4. /\ \A c \in Nat : c * SectorWords \in Nat
      /\ ImageWords[i] \in Nat
  BY DiskAssumption
<1>5. sectorCount' * SectorWords <= ImageWords[i]
  <2>1. \A a, b, c \in Nat : a <= b /\ b <= c => a <= c
    OBVIOUS
  <2>2. sectorCount' * SectorWords \in Nat
    BY <1>3, <1>4
  <2> QED BY <1>1, <1>3, <1>4, <2>1, <2>2
<1>6. buffer' \in [Positions -> DiskWord]
  BY DEF Attach, ZeroBuffer, DiskWord
<1> QED BY <1>3, <1>5, <1>6 DEF DisksTyped, Attach

\* A shortened image keeps the words in front of the cut.
LEMMA TruncateTyped ==
    ASSUME DisksTyped, NEW i \in Image, Truncate(i)
    PROVE  DisksTyped'
<1>1. media[i] \in Seq(DiskWord) /\ Len(media[i]) \in Nat /\ Len(media[i]) <= ImageWords[i]
  BY DEF DisksTyped
<1>2. PICK n \in 0 .. Len(media[i]) - 1 :
        media' = [media EXCEPT ![i] = SubSeq(media[i], 1, n)]
  BY DEF Truncate
<1> DEFINE new == SubSeq(media[i], 1, n)
<1>3. /\ new \in Seq(DiskWord) /\ Len(new) = n
      /\ \A p \in 1 .. n : new[p] = media[i][p]
  BY <1>1
<1> HIDE DEF new
<1>4. Len(new) <= ImageWords[i] /\ \A p \in 1 .. Len(new) : new[p] = <<i, p - 1>>
  <2>1. n \in Nat /\ n <= Len(media[i]) /\ ImageWords[i] \in Nat
    BY <1>1, DiskAssumption
  <2>2. Len(new) <= ImageWords[i]
    BY <1>1, <1>3, <2>1
  <2>3. \A p \in 1 .. n : p \in 1 .. Len(media[i])
    BY <1>1, <2>1
  <2>4. \A p \in 1 .. n : new[p] = <<i, p - 1>>
    BY <1>3, <2>3 DEF DisksTyped
  <2> QED BY <1>3, <2>2, <2>4
<1>5. media' = [media EXCEPT ![i] = new]
  BY <1>2 DEF new
<1>6. media' \in [Image -> Seq(DiskWord)]
  BY <1>3, <1>5 DEF DisksTyped
<1>7. ASSUME NEW j \in Image
      PROVE  /\ Len(media'[j]) <= ImageWords[j]
             /\ \A p \in 1 .. Len(media'[j]) : media'[j][p] = <<j, p - 1>>
  <2>1. CASE j = i
    <3>1. media'[j] = new
      BY <1>5, <2>1 DEF DisksTyped
    <3> QED BY <1>4, <2>1, <3>1
  <2>2. CASE j # i
    <3>1. media'[j] = media[j]
      BY <1>5, <2>2 DEF DisksTyped
    <3> QED BY <3>1 DEF DisksTyped
  <2> QED BY <2>1, <2>2
<1> QED BY <1>6, <1>7 DEF DisksTyped, Truncate, registers

\* A READ that fails for want of words may leave parts of two sectors in the
\* buffer, but reports it; one that does not fail leaves the sector it was
\* given.
LEMMA ReadTyped ==
    ASSUME DisksTyped, Execute("READ")
    PROVE  /\ DisksTyped' /\ UNCHANGED <<media, file, sectorCount, lba>>
           /\ error' = "NONE" => /\ file \in Image /\ buffer' = SectorOf(file, lba)
                                 /\ (lba + 1) * SectorWords <= ImageWords[file]
<1>1. ASSUME NEW reason \in {"NO_MEDIA", "RANGE", "IO", "BAD_COMMAND"},
             Fail("READ", reason)
      PROVE  /\ error' # "NONE" /\ DisksTyped'
             /\ UNCHANGED <<media, file, sectorCount, lba>>
  BY <1>1 DEF Fail, DisksTyped
<1>2. CASE Read("READ")
  <2>1. /\ file \in Image /\ lba \in Nat /\ Offset \in Nat /\ Offset = lba * SectorWords
        /\ media[file] \in Seq(DiskWord) /\ Len(media[file]) \in Nat
        /\ Len(media[file]) <= ImageWords[file] /\ ImageWords[file] \in Nat
        /\ UNCHANGED <<media, file, sectorCount, lba>>
    BY <1>2, DiskAssumption DEF Read, Addressable, DisksTyped, Offset
  <2>2. PICK k \in 0 .. SectorWords :
          /\ Offset + k <= Len(media[file]) \/ k = 0
          /\ buffer' = [w \in Positions |-> IF w < k THEN media[file][Offset + w + 1]
                                                     ELSE buffer[w]]
          /\ error' = IF k = SectorWords THEN "NONE" ELSE "IO"
    BY <1>2 DEF Read
  <2>3. ASSUME NEW w \in Positions, w < k
        PROVE  /\ media[file][Offset + w + 1] = <<file, Offset + w>>
               /\ media[file][Offset + w + 1] \in DiskWord
    <3>1. Offset + w + 1 \in 1 .. Len(media[file]) /\ (Offset + w + 1) - 1 = Offset + w
      BY <2>1, <2>2, <2>3 DEF Positions
    <3> QED BY <2>1, <3>1 DEF DisksTyped
  <2>4. buffer' \in [Positions -> DiskWord]
    BY <2>2, <2>3 DEF DisksTyped
  <2>5. DisksTyped'
    BY <2>1, <2>4 DEF DisksTyped
  <2>6. ASSUME error' = "NONE"
        PROVE  buffer' = SectorOf(file, lba) /\ (lba + 1) * SectorWords <= ImageWords[file]
    <3>1. k = SectorWords
      BY <2>2, <2>6
    <3>2. \A w \in Positions : w < k
      BY <3>1, DiskAssumption DEF Positions
    <3>3. buffer' = [w \in Positions |-> <<file, Offset + w>>]
      BY <2>2, <2>3, <3>2
    <3>4. SectorWords # 0 /\ SectorWords \in Nat
      BY DiskAssumption
    <3>5. Offset + SectorWords <= ImageWords[file]
      BY <2>1, <2>2, <3>1, <3>4
    <3>6. (lba + 1) * SectorWords = Offset + SectorWords
      BY <2>1, <3>4
    <3> QED BY <2>1, <3>3, <3>5, <3>6 DEF SectorOf
  <2> QED BY <2>1, <2>5, <2>6
<1>3. Read("READ") \/ \E reason \in {"NO_MEDIA", "RANGE", "IO", "BAD_COMMAND"} :
                         Fail("READ", reason)
  BY DEF Execute, NoMedia, OutOfRange, SeekFails, BadCommand, Write
<1> QED BY <1>1, <1>2, <1>3

\* Whoever steps.
LEMMA DisksStep ==
    ASSUME DisksTyped, FirmwareTyped, [BootNext]_bootVars
    PROVE  DisksTyped'
<1>1. CASE UNCHANGED vars
  BY <1>1 DEF vars, registers, DisksTyped
<1>2. CASE SwapDisk
  <2>1. CASE Detach
    BY <2>1 DEF Detach, ZeroBuffer, DiskWord, DisksTyped
  <2> QED BY <1>2, <2>1, AttachTyped DEF SwapDisk
<1>3. CASE ShortenImage
  BY <1>3, TruncateTyped DEF ShortenImage
<1>4. CASE SetLba
  BY <1>4 DEF SetLba, WriteLba, DisksTyped, FirmwareTyped
<1>5. CASE SendRead
  BY <1>5, ReadTyped DEF SendRead
<1> QED BY <1>1, <1>2, <1>3, <1>4, <1>5
        DEF BootNext, Firmware, Bios, Boot, DiskRead, bootVars, PowerOn, CheckStatus,
            CheckHeader, LoadDirectoryLba, MatchEntry, LoadStart, LoadLength,
            BuildBootinfo, BootSectorLoaded, EnterBoot, HeaderInRam, DirectoryInRam,
            MatchNextEntry, NextSectorLoaded, CheckError, CopyWord

-----------------------------------------------------------------------------
(***************************************************************************)
(* The firmware's variables.                                               *)
(***************************************************************************)
\* The cursor moves inside a directory sector.
LEMMA NextEntryTyped ==
    ASSUME FirmwareTyped, NEW again, NEW none, NextEntry(again, none),
           UNCHANGED <<at, ram, swaps>>
    PROVE  FirmwareTyped'
<1>1. slot' \in Positions
  BY DiskAssumption DEF NextEntry, FirmwareTyped, Positions
<1>2. left' \in Int /\ sector' \in Nat
  BY DEF NextEntry, FirmwareTyped
<1> QED BY <1>1, <1>2 DEF NextEntry, load, FirmwareTyped

\* A file's next sector goes behind the last.
LEMMA NextFileSectorTyped ==
    ASSUME FirmwareTyped, NEW done, NextFileSector(done), UNCHANGED <<at, ram, swaps>>
    PROVE  FirmwareTyped'
<1>1. sector' \in Nat /\ dest' \in Nat /\ count' \in Int
  BY DiskAssumption DEF NextFileSector, FirmwareTyped
<1> QED BY <1>1 DEF NextFileSector, search, FirmwareTyped

\* Every step of the firmware.
LEMMA FirmwareStep ==
    ASSUME DisksTyped, FirmwareTyped, CopiesSectors, [BootNext]_bootVars
    PROVE  FirmwareTyped'
<1> USE DEF FirmwareTyped, BiosCallers, ServiceCallers
<1>1. \A w \in Positions : /\ Says(buffer[w]).directory \in Nat
                           /\ Says(buffer[w]).start \in Nat
                           /\ Says(buffer[w]).length \in Nat
  BY SaysNumbers DEF DisksTyped
<1>2. 0 \in Positions /\ DirectoryEntries \in Nat
  BY DiskAssumption, BootAssumption DEF Positions
<1>3. /\ Scratch \in Nat /\ BootBase \in Nat /\ BootWords \in Nat
      /\ NextBase \in Nat /\ RamWords \in Nat /\ SectorWords \in Nat
  BY DiskAssumption, BootAssumption
<1>4. CASE UNCHANGED bootVars
  BY <1>4 DEF bootVars, firmware, search, load
<1>5. CASE SwapDisk \/ ShortenImage \/ PowerOn
  BY <1>5 DEF SwapDisk, ShortenImage, PowerOn, firmware, search, load
<1>6. CASE CheckStatus \/ CheckHeader \/ LoadDirectoryLba
  BY <1>1, <1>2, <1>6
     DEF CheckStatus, CheckHeader, LoadDirectoryLba, ScanFrom, ReadSector, search, load
<1>7. CASE MatchEntry
  BY <1>7, NextEntryTyped DEF MatchEntry, search, load
<1>8. CASE LoadStart \/ BuildBootinfo
  BY <1>1, <1>3, <1>8 DEF LoadStart, BuildBootinfo, ReadSector, search, load
<1>9. CASE LoadLength
  <2>1. Says(buffer[slot]).length \in Nat
    BY <1>1
  <2>2. count' \in Nat
    BY <1>9, <2>1, SectorsHold DEF LoadLength
  <2> QED BY <1>9, <2>2 DEF LoadLength, search, load
<1>10. CASE BootSectorLoaded \/ NextSectorLoaded
  BY <1>10, NextFileSectorTyped DEF BootSectorLoaded, NextSectorLoaded
<1>11. CASE EnterBoot \/ DirectoryInRam
  BY <1>3, <1>11 DEF EnterBoot, DirectoryInRam, ReadSector, search, load
<1>12. CASE SetLba \/ SendRead \/ CheckError
  BY <1>12 DEF SetLba, SendRead, CheckError, search, load
<1>13. CASE CopyWord
  <2>1. CASE /\ dest + at < RamWords /\ at' = at + 1
             /\ ram' = [ram EXCEPT ![dest + at] = buffer[at]]
    <3>1. at \in Positions
      BY <1>3, <1>13 DEF CopyWord, CopiesSectors, Positions
    <3>2. buffer[at] \in DiskWord
      BY <3>1 DEF DisksTyped
    <3>3. ram' \in [0 .. RamWords - 1 -> DiskWord]
      BY <2>1, <3>2
    <3> QED BY <1>13, <2>1, <3>3 DEF CopyWord, search, load
  <2>2. CASE UNCHANGED <<ram, at>>
    BY <1>13, <2>2 DEF CopyWord, search, load
  <2> QED BY <1>13, <2>1, <2>2 DEF CopyWord
<1>14. \A w \in Positions : Scratch + w \in 0 .. RamWords - 1
  BY <1>3, BootAssumption DEF Positions
<1>15. \A w \in Positions : /\ Says(ram[Scratch + w]).directory \in Nat
                            /\ Says(ram[Scratch + w]).start \in Nat
                            /\ Says(ram[Scratch + w]).length \in Nat
  BY <1>14, SaysNumbers
<1>16. CASE HeaderInRam
  <2>1. Says(ram[Scratch]).directory \in Nat
    <3>1. Scratch \in 0 .. RamWords - 1
      BY <1>3, BootAssumption
    <3> QED BY <3>1, SaysNumbers
  <2> QED BY <1>2, <1>16, <2>1 DEF HeaderInRam, ScanFrom, ReadSector, search, load
<1>17. CASE MatchNextEntry
  <2> DEFINE entry == Says(ram[Scratch + slot])
  <2>1. CASE entry.name # "NEXT.BIN" /\ NextEntry("nextEntry", "nextNotFound")
    BY <1>17, <2>1, NextEntryTyped DEF MatchNextEntry
  <2>2. CASE /\ entry.name = "NEXT.BIN"
             /\ from' = entry.start /\ count' = Sectors(entry.length)
             /\ \/ UNCHANGED <<caller, sector, dest>>
                \/ ReadSector(entry.start, "nextFile") /\ dest' = NextBase
             /\ UNCHANGED search
    <3>1. entry.start \in Nat /\ entry.length \in Nat
      BY <1>15
    <3>2. Sectors(entry.length) \in Nat
      BY <3>1, SectorsHold
    <3> HIDE DEF entry
    <3> QED BY <1>3, <1>17, <2>2, <3>1, <3>2 DEF MatchNextEntry, ReadSector, search
  <2> QED BY <1>17, <2>1, <2>2 DEF MatchNextEntry
<1> QED BY <1>4, <1>5, <1>6, <1>7, <1>8, <1>9, <1>10, <1>11, <1>12, <1>13, <1>16, <1>17
        DEF BootNext, Firmware, Bios, Boot, DiskRead

-----------------------------------------------------------------------------
(***************************************************************************)
(* Copies.                                                                 *)
(***************************************************************************)
\* A READ that succeeds leaves a sector that LBA can address.
LEMMA ReadAddresses ==
    ASSUME NEW i \in Image, NEW s \in Nat, (s + 1) * SectorWords <= ImageWords[i]
    PROVE  s \in Lbas
<1>1. SectorWords \in Nat \ {0} /\ ImageWords[i] \in Nat
  BY DiskAssumption
<1>2. (s + 1) * SectorWords >= s + 1
  BY <1>1
<1>3. (s + 1) * SectorWords \in Nat
  BY <1>1
<1>4. s \in 0 .. ImageWords[i]
  BY <1>1, <1>2, <1>3
<1> QED BY <1>4, BootAssumption

\* The word copied goes on with the sector, or is blank as are those before.
LEMMA CopyStep ==
    ASSUME FirmwareTyped, CopiesSectors, CopyWord
    PROVE  CopiesSectors'
<1> USE DEF FirmwareTyped
<1>1. at < SectorWords /\ at \in Nat /\ dest \in Nat /\ at \in Positions
      /\ SectorWords \in Nat /\ RamWords \in Nat
  BY DiskAssumption, BootAssumption DEF CopyWord, CopiesSectors, Positions
<1>2. PICK i \in Image, s \in Lbas, k \in 0 .. at :
        /\ \A w \in 0 .. at - 1 :
              ram[dest + w] = IF w < k THEN <<i, s * SectorWords + w>> ELSE Zero
        /\ buffer = ZeroBuffer \/ (k = at /\ buffer = SectorOf(i, s))
  BY DEF CopyWord, CopiesSectors
<1>3. CASE dest + at >= RamWords /\ pc' = "fault"
  BY <1>2, <1>3 DEF CopiesSectors
<1>4. CASE /\ dest + at < RamWords
           /\ ram' = [ram EXCEPT ![dest + at] = buffer[at]]
           /\ at' = at + 1
           /\ pc' = IF at + 1 = SectorWords THEN "copied" ELSE "copy"
  <2> DEFINE m == IF buffer = ZeroBuffer THEN k ELSE at + 1
  <2>1. m \in 0 .. at' /\ UNCHANGED <<dest, buffer>>
    BY <1>1, <1>4 DEF CopyWord, load, vars, registers
  <2>2. /\ ram'[dest + at] = buffer[at]
        /\ \A w \in 0 .. at - 1 : ram'[dest + w] = ram[dest + w]
    BY <1>1, <1>4
  <2>3. buffer[at] = IF at < m THEN <<i, s * SectorWords + at>> ELSE Zero
    BY <1>1, <1>2 DEF ZeroBuffer, SectorOf
  <2>4. \A w \in 0 .. at - 1 : (w < k) = (w < m)
    BY <1>1, <1>2
  <2>5. \A w \in 0 .. at : w = at \/ w \in 0 .. at - 1
    BY <1>1
  <2>6. \A w \in 0 .. at' - 1 :
           ram'[dest' + w] = IF w < m THEN <<i, s * SectorWords + w>> ELSE Zero
    BY <1>1, <1>2, <1>4, <2>1, <2>2, <2>3, <2>4, <2>5
  <2>7. buffer' = ZeroBuffer \/ (m = at' /\ buffer' = SectorOf(i, s))
    BY <1>2, <1>4, <2>1
  <2> HIDE DEF m
  <2>8. \E j \in Image, t \in Lbas, n \in 0 .. at' :
          /\ \A w \in 0 .. at' - 1 :
                ram'[dest' + w] = IF w < n THEN <<j, t * SectorWords + w>> ELSE Zero
          /\ buffer' = ZeroBuffer \/ (n = at' /\ buffer' = SectorOf(j, t))
    BY <1>2, <2>1, <2>6, <2>7
  <2>9. /\ pc' = "copy" => at' < SectorWords
        /\ pc' = "copied" => at' = SectorWords
        /\ pc' \in {"copy", "copied"}
    BY <1>1, <1>4
  <2>10. CopiesSectors' <=>
           \E j \in Image, t \in Lbas, n \in 0 .. at' :
             /\ \A w \in 0 .. at' - 1 :
                   ram'[dest' + w] = IF w < n THEN <<j, t * SectorWords + w>> ELSE Zero
             /\ buffer' = ZeroBuffer \/ (n = at' /\ buffer' = SectorOf(j, t))
    BY <1>2, <2>9 DEF CopiesSectors, SectorOf, ZeroBuffer
  <2> QED BY <2>8, <2>10
<1> QED BY <1>3, <1>4 DEF CopyWord

\* Every step.
LEMMA CopiesStep ==
    ASSUME DisksTyped, FirmwareTyped, CopiesSectors, [BootNext]_bootVars
    PROVE  CopiesSectors'
<1> USE DEF FirmwareTyped
<1>1. CASE CopyWord
  BY <1>1, CopyStep
<1>2. CASE SwapDisk
  <2>1. buffer' = ZeroBuffer
    BY <1>2 DEF SwapDisk, Attach, Detach
  <2>2. UNCHANGED <<pc, at, ram, dest>>
    BY <1>2 DEF SwapDisk, firmware, load
  <2>3. (ZeroBuffer)' = ZeroBuffer
    BY DEF ZeroBuffer
  <2>4. CASE pc \in {"copy", "copied"}
    <3>1. PICK i \in Image, s \in Lbas, k \in 0 .. at :
             \A w \in 0 .. at - 1 :
                ram[dest + w] = IF w < k THEN <<i, s * SectorWords + w>> ELSE Zero
      BY <2>4 DEF CopiesSectors
    <3>2. \A w \in 0 .. at' - 1 :
             ram'[dest' + w] = IF w < k THEN <<i, s * SectorWords + w>> ELSE Zero
      BY <2>2, <3>1
    <3> QED BY <2>1, <2>2, <2>3, <2>4, <3>1, <3>2 DEF CopiesSectors
  <2>5. CASE pc \notin {"copy", "copied"}
    BY <2>1, <2>2, <2>3, <2>5 DEF CopiesSectors
  <2> QED BY <2>4, <2>5
<1>3. CASE ShortenImage \/ UNCHANGED bootVars
  <2>1. UNCHANGED <<pc, at, ram, dest, error, buffer>>
    BY <1>3 DEF ShortenImage, Truncate, bootVars, vars, registers, firmware, load
  <2> QED BY <2>1 DEF CopiesSectors, ZeroBuffer, SectorOf
<1>4. CASE SendRead
  <2>1. error' = "NONE" =>
           \E i \in Image, s \in Lbas : buffer' = SectorOf(i, s)
    BY <1>4, ReadTyped, ReadAddresses DEF SendRead, DisksTyped
  <2>2. pc' = "error" /\ Image # {}
    BY <1>4 DEF SendRead, CopiesSectors
  <2> QED BY <2>1, <2>2 DEF CopiesSectors, SectorOf, ZeroBuffer
<1>5. CASE CheckError
  <2>1. UNCHANGED buffer /\ at' = 0 /\ Image # {}
    BY <1>5 DEF CheckError, vars, registers, CopiesSectors
  <2>2. CASE pc' \in {"diskError", "serviceFailed", "checkHeader", "entry"}
    BY <2>1, <2>2 DEF CopiesSectors
  <2>3. CASE pc' = "copy"
    <3>1. error = "NONE"
      BY <1>5, <2>3 DEF CheckError
    <3>2. PICK i \in Image, s \in Lbas : buffer = ZeroBuffer \/ buffer = SectorOf(i, s)
      BY <1>5, <2>1, <3>1, BootAssumption DEF CheckError, CopiesSectors
    <3>3. 0 \in 0 .. at' /\ \A w \in 0 .. at' - 1 : FALSE
      BY <2>1
    <3>4. at' < SectorWords
      BY <2>1, DiskAssumption
    <3> QED BY <2>1, <2>3, <3>2, <3>3, <3>4 DEF CopiesSectors, ZeroBuffer, SectorOf
  <2> QED BY <1>5, <2>2, <2>3 DEF CheckError
<1>6. CASE PowerOn \/ CheckStatus
  <2>1. /\ pc' \in {"status", "noDisk", "lba"}
        /\ pc' = "lba" => Image # {}
    BY <1>6 DEF PowerOn, CheckStatus, ReadSector, DisksTyped
  <2> QED BY <2>1 DEF CopiesSectors
<1>7. CASE \/ SetLba \/ CheckHeader \/ LoadDirectoryLba \/ MatchEntry \/ LoadStart
           \/ LoadLength \/ BuildBootinfo \/ BootSectorLoaded \/ Boot
  <2>1. /\ Image # {}
        /\ pc' \notin {"error", "copy", "copied"}
    BY <1>7 DEF CopiesSectors, SetLba, CheckHeader, LoadDirectoryLba, MatchEntry,
       LoadStart, LoadLength, BuildBootinfo, BootSectorLoaded, Boot, EnterBoot,
       HeaderInRam, DirectoryInRam, MatchNextEntry, NextSectorLoaded, ScanFrom,
       ReadSector, NextEntry, NextFileSector
  <2> QED BY <2>1 DEF CopiesSectors
<1> QED BY <1>1, <1>2, <1>3, <1>4, <1>5, <1>6, <1>7
        DEF BootNext, Firmware, Bios, DiskRead

-----------------------------------------------------------------------------
(***************************************************************************)
(* Searching a directory of a disk that stays.                             *)
(***************************************************************************)
\* The word under the cursor is the entry the search has come to.
LEMMA UnderCursor ==
    ASSUME FirmwareTyped, file \in Image, NEW name, Scanning(name),
           (sector + 1) * SectorWords <= ImageWords[file]
    PROVE  /\ Says(<<file, sector * SectorWords + slot>>) = Entry(file, Cursor)
           /\ <<file, sector * SectorWords + slot>> \in DiskWord
<1>1. /\ sector * SectorWords + slot \in 0 .. ImageWords[file] - 1
      /\ <<file, sector * SectorWords + slot>> \in DiskWord
  BY SectorInside DEF FirmwareTyped
<1>2. Says(<<file, sector * SectorWords + slot>>)
        = Content[file][sector * SectorWords + slot]
  BY <1>1, WordSays
<1> QED BY <1>1, <1>2 DEF Scanning, Entry

\* The word at the start of sector 0 is the header.
LEMMA HeaderWord ==
    ASSUME file \in Image, SectorWords <= ImageWords[file]
    PROVE  /\ Says(<<file, 0>>) = Content[file][0]
           /\ Content[file][0].directory \in Nat
<1>1. 0 \in 0 .. ImageWords[file] - 1
  BY DiskAssumption
<1>2. {Content[file][0].directory, Content[file][0].start} \subseteq Lbas
  BY <1>1, BootAssumption
<1> QED BY <1>1, <1>2, WordSays, DiskAssumption

\* No name is found first in two entries.
LEMMA FirstIsOne ==
    ASSUME NEW name, NEW m \in Nat, NEW n \in Nat,
           IsFirst(file, m, name), IsFirst(file, n, name)
    PROVE  m = n
<1>1. ~ (m < n) /\ ~ (n < m)
  BY DEF IsFirst
<1> QED BY <1>1

\* A search starts with the first entry.
LEMMA ScanStarts ==
    ASSUME file \in Image, Content[file][0].directory \in Nat, UNCHANGED file,
           NEW who, ScanFrom(Content[file][0].directory, who), NEW name
    PROVE  Scanning(name)'
<1>1. left' = DirectoryEntries /\ slot' = 0 /\ sector' = Content[file][0].directory
  BY DEF ScanFrom, ReadSector
<1>2. DirectoryEntries \in Nat \ {0} /\ SectorWords \in Nat
  BY DiskAssumption, BootAssumption
<1>3. Cursor' = 0
  BY <1>1, <1>2 DEF Cursor
<1> QED BY <1>1, <1>2, <1>3 DEF Scanning

\* It passes over an entry of another name, and over the last one only when
\* no entry has the name.
LEMMA NextEntryScans ==
    ASSUME FirmwareTyped, file \in Image, UNCHANGED file,
           NEW name, Scanning(name), Entry(file, Cursor).name # name,
           NEW again, NEW none, NextEntry(again, none)
    PROVE  \/ pc' = none /\ Absent(name)'
           \/ pc' \in {again, "lba"} /\ Scanning(name)'
              /\ (sector' = sector \/ pc' = "lba")
<1>1. /\ left \in 1 .. DirectoryEntries /\ DirectoryEntries \in Nat /\ Cursor \in Nat
      /\ sector * SectorWords + slot
            = Content[file][0].directory * SectorWords + Cursor
      /\ \A m \in 0 .. Cursor : Entry(file, m).name # name
  <2>1. left \in 1 .. DirectoryEntries /\ DirectoryEntries \in Nat
    BY BootAssumption DEF Scanning
  <2>2. Cursor \in Nat /\ \A m \in 0 .. Cursor : m = Cursor \/ m \in 0 .. Cursor - 1
    BY <2>1 DEF Cursor
  <2> QED BY <2>1, <2>2 DEF Scanning
<1>2. slot \in 0 .. SectorWords - 1 /\ SectorWords \in Nat \ {0} /\ sector \in Nat
  BY DiskAssumption DEF FirmwareTyped, Positions
<1>3. /\ Content[file][0].directory \in Nat
      /\ Content[file][0].directory * SectorWords \in Nat
  BY <1>2 DEF Scanning
<1>4. CASE left = 1
  <2>1. Cursor = DirectoryEntries - 1 /\ pc' = none
    BY <1>1, <1>4 DEF Cursor, NextEntry
  <2>2. \A n \in 0 .. DirectoryEntries - 1 : ~ IsFirst(file, n, name)
    BY <1>1, <2>1 DEF IsFirst
  <2>3. Absent(name)'
    BY <2>2 DEF Absent, IsFirst, Entry
  <2> QED BY <2>1, <2>3
<1>5. CASE left # 1
  <2>1. left' \in 1 .. DirectoryEntries /\ Cursor' = Cursor + 1
    BY <1>1, <1>5 DEF NextEntry, Cursor
  <2>2. \A m \in 0 .. Cursor' - 1 : Entry(file', m).name # name
    BY <1>1, <2>1
  <2>3. CASE slot + 1 < SectorWords
    <3>1. slot' = slot + 1 /\ sector' = sector /\ pc' = again
      BY <1>2, <1>5, <2>3 DEF NextEntry
    <3>2. sector' * SectorWords + slot' = (sector * SectorWords + slot) + 1
      <4>1. sector * SectorWords \in Nat
        BY <1>2
      <4> QED BY <1>2, <3>1, <4>1
    <3>3. sector' * SectorWords + slot'
            = Content[file'][0].directory * SectorWords + Cursor'
      BY <1>1, <1>3, <2>1, <3>2
    <3> QED BY <2>1, <2>2, <3>1, <3>3 DEF Scanning, Entry
  <2>4. CASE slot + 1 = SectorWords
    <3>1. slot' = 0 /\ sector' = sector + 1 /\ pc' = "lba"
      BY <1>2, <1>5, <2>4 DEF NextEntry
    <3>2. sector' * SectorWords + slot' = (sector * SectorWords + slot) + 1
      <4>1. (sector + 1) * SectorWords = sector * SectorWords + SectorWords
        BY <1>2
      <4>2. sector * SectorWords \in Nat
        BY <1>2
      <4> QED BY <1>2, <2>4, <3>1, <4>1, <4>2
    <3>3. sector' * SectorWords + slot'
            = Content[file'][0].directory * SectorWords + Cursor'
      BY <1>1, <1>3, <2>1, <3>2
    <3> QED BY <2>1, <2>2, <3>1, <3>3 DEF Scanning, Entry
  <2> QED BY <1>2, <2>3, <2>4
<1> QED BY <1>4, <1>5

-----------------------------------------------------------------------------
(***************************************************************************)
(* Loading a file of a disk that stays.                                    *)
(***************************************************************************)
\* The file found is loaded from its first sector on.
LEMMA LoadingStarts ==
    ASSUME UNCHANGED file, NEW name, NEW n \in 0 .. DirectoryEntries - 1,
           IsFirst(file, n, name),
           Entry(file, n).start \in Nat, Entry(file, n).length \in Nat,
           count' = Sectors(Entry(file, n).length), count' > 0,
           sector' = Entry(file, n).start, NEW base \in Nat, dest' = base
    PROVE  Loading(name, base)'
<1> DEFINE total == Sectors(Entry(file, n).length)
<1>1. total \in Nat /\ total > 0
  BY SectorsHold
<1> HIDE DEF total
<1>2. /\ 0 \in 0 .. total - 1 /\ 0 * SectorWords = 0 /\ total - 0 = total
      /\ sector' + 0 = sector' /\ base + 0 = base /\ \A w \in 0 .. 0 - 1 : FALSE
  BY <1>1, DiskAssumption
<1>3. /\ count' = total - 0 /\ sector' = Entry(file, n).start + 0
      /\ dest' = base + 0 * SectorWords
      /\ \A w \in 0 .. 0 * SectorWords - 1 :
            ram'[base + w] = <<file', Entry(file, n).start * SectorWords + w>>
  BY <1>2 DEF total
<1>4. IsFirst(file', n, name) /\ Entry(file', n) = Entry(file, n)
      /\ Sectors(Entry(file', n).length) = total
  BY DEF IsFirst, total
<1>5. \E done \in 0 .. total - 1 :
         /\ count' = total - done
         /\ sector' = Entry(file, n).start + done
         /\ dest' = base + done * SectorWords
         /\ \A w \in 0 .. done * SectorWords - 1 :
               ram'[base + w] = <<file', Entry(file, n).start * SectorWords + w>>
  BY <1>2, <1>3
<1> QED BY <1>4, <1>5 DEF Loading, IsFirst, Entry

\* With one sector more in RAM the file is loaded, or the next is wanted.
LEMMA LoadingGoesOn ==
    ASSUME FirmwareTyped, file \in Image, UNCHANGED <<file, ram>>,
           NEW name, NEW base \in Nat, Loading(name, base),
           InRam(dest, sector, SectorWords), NEW end, NextFileSector(end)
    PROVE  \/ pc' = end /\ Loaded(name, base)'
           \/ pc' = "lba" /\ Loading(name, base)'
<1>1. PICK n \in 0 .. DirectoryEntries - 1 :
         /\ IsFirst(file, n, name)
         /\ Entry(file, n).start \in Nat /\ Entry(file, n).length \in Nat
         /\ \E done \in 0 .. Sectors(Entry(file, n).length) - 1 :
               /\ count = Sectors(Entry(file, n).length) - done
               /\ sector = Entry(file, n).start + done
               /\ dest = base + done * SectorWords
               /\ \A w \in 0 .. done * SectorWords - 1 :
                     ram[base + w] = <<file, Entry(file, n).start * SectorWords + w>>
  BY DEF Loading
<1> DEFINE e == Entry(file, n)
           total == Sectors(e.length)
<1>2. PICK done \in 0 .. total - 1 :
         /\ count = total - done
         /\ sector = e.start + done
         /\ dest = base + done * SectorWords
         /\ \A w \in 0 .. done * SectorWords - 1 :
               ram[base + w] = <<file, e.start * SectorWords + w>>
  BY <1>1
<1>3. /\ e.start \in Nat /\ e.length \in Nat /\ total \in Nat
      /\ total * SectorWords >= e.length /\ (total = 0 <=> e.length = 0)
  BY <1>1, SectorsHold
<1>4. /\ IsFirst(file', n, name) /\ Entry(file', n) = e
      /\ Sectors(Entry(file', n).length) = total
  BY <1>1 DEF IsFirst
<1> HIDE DEF e, total
<1>5. /\ SectorWords \in Nat \ {0} /\ done \in Nat /\ done * SectorWords \in Nat
      /\ (done + 1) * SectorWords = done * SectorWords + SectorWords
      /\ sector * SectorWords = e.start * SectorWords + done * SectorWords
      /\ e.start * SectorWords \in Nat
  BY <1>2, <1>3, DiskAssumption
<1>6. ASSUME NEW w \in 0 .. (done + 1) * SectorWords - 1
      PROVE  ram[base + w] = <<file, e.start * SectorWords + w>>
  <2>1. CASE w \in 0 .. done * SectorWords - 1
    BY <1>2, <2>1
  <2>2. CASE w \notin 0 .. done * SectorWords - 1
    <3> DEFINE v == w - done * SectorWords
    <3>1. v \in 0 .. SectorWords - 1 /\ dest + v = base + w
          /\ sector * SectorWords + v = e.start * SectorWords + w
      BY <1>2, <1>5, <2>2
    <3> HIDE DEF v
    <3>2. ram[dest + v] = <<file, sector * SectorWords + v>>
      BY <3>1 DEF InRam
    <3> QED BY <3>1, <3>2
  <2> QED BY <2>1, <2>2
<1>7. CASE count = 1
  <2>1. done + 1 = total /\ pc' = end /\ e.length > 0
    BY <1>2, <1>3, <1>7 DEF NextFileSector
  <2>2. \A w \in 0 .. e.length - 1 : w \in 0 .. (done + 1) * SectorWords - 1
    <3>1. (done + 1) * SectorWords \in Nat /\ (done + 1) * SectorWords >= e.length
      BY <1>3, <1>5, <2>1
    <3> QED BY <1>3, <3>1
  <2>3. \A w \in 0 .. e.length - 1 :
           ram'[base + w] = <<file', e.start * SectorWords + w>>
    BY <1>6, <2>2
  <2>4. Loaded(name, base)'
    BY <1>4, <2>1, <2>3 DEF Loaded, IsFirst, Entry
  <2> QED BY <2>1, <2>4
<1>8. CASE count # 1
  <2>1. /\ done + 1 \in 0 .. total - 1 /\ count' = total - (done + 1)
        /\ sector' = e.start + (done + 1) /\ pc' = "lba"
    BY <1>2, <1>3, <1>8 DEF NextFileSector
  <2>2. dest' = base + (done + 1) * SectorWords
    BY <1>2, <1>5 DEF NextFileSector
  <2>3. \E d \in 0 .. total - 1 :
           /\ count' = total - d
           /\ sector' = e.start + d
           /\ dest' = base + d * SectorWords
           /\ \A w \in 0 .. d * SectorWords - 1 :
                 ram'[base + w] = <<file', e.start * SectorWords + w>>
    BY <1>6, <2>1, <2>2
  <2>4. Entry(file', n).start \in Nat /\ Entry(file', n).length \in Nat
    BY <1>3, <1>4
  <2>5. \E d \in 0 .. Sectors(Entry(file', n).length) - 1 :
           /\ count' = Sectors(Entry(file', n).length) - d
           /\ sector' = Entry(file', n).start + d
           /\ dest' = base + d * SectorWords
           /\ \A w \in 0 .. d * SectorWords - 1 :
                 ram'[base + w] = <<file', Entry(file', n).start * SectorWords + w>>
    BY <1>4, <2>3
  <2>6. Loading(name, base)'
    BY <1>4, <2>4, <2>5 DEF Loading
  <2> QED BY <2>1, <2>6
<1> QED BY <1>7, <1>8

\* What is stored behind the sectors loaded does not disturb them.
LEMMA PurposeKept ==
    ASSUME FirmwareTyped, Purpose,
           UNCHANGED <<file, caller, sector, left, slot, count, dest>>,
           \A a \in 0 .. dest - 1 : ram'[a] = ram[a]
    PROVE  Purpose'
<1>1. ASSUME NEW name, NEW base \in Nat, Loading(name, base)
      PROVE  Loading(name, base)'
  <2>1. PICK n \in 0 .. DirectoryEntries - 1 :
           /\ IsFirst(file, n, name)
           /\ Entry(file, n).start \in Nat /\ Entry(file, n).length \in Nat
           /\ \E done \in 0 .. Sectors(Entry(file, n).length) - 1 :
                 /\ count = Sectors(Entry(file, n).length) - done
                 /\ sector = Entry(file, n).start + done
                 /\ dest = base + done * SectorWords
                 /\ \A w \in 0 .. done * SectorWords - 1 :
                       ram[base + w] = <<file, Entry(file, n).start * SectorWords + w>>
    BY <1>1 DEF Loading
  <2> DEFINE e == Entry(file, n)
             total == Sectors(e.length)
  <2>2. /\ IsFirst(file', n, name) /\ Entry(file', n) = e
        /\ Sectors(Entry(file', n).length) = total
        /\ e.start \in Nat /\ e.length \in Nat /\ total \in Nat
    BY <2>1, SectorsHold DEF IsFirst
  <2>3. PICK done \in 0 .. total - 1 :
           /\ count = total - done
           /\ sector = e.start + done
           /\ dest = base + done * SectorWords
           /\ \A w \in 0 .. done * SectorWords - 1 :
                 ram[base + w] = <<file, e.start * SectorWords + w>>
    BY <2>1
  <2> HIDE DEF e, total
  <2>4. done * SectorWords \in Nat
    BY <2>3, DiskAssumption
  <2>5. \A w \in 0 .. done * SectorWords - 1 :
           ram'[base + w] = <<file', e.start * SectorWords + w>>
    BY <2>3, <2>4
  <2>6. \E d \in 0 .. total - 1 :
           /\ count' = total - d
           /\ sector' = e.start + d
           /\ dest' = base + d * SectorWords
           /\ \A w \in 0 .. d * SectorWords - 1 :
                 ram'[base + w] = <<file', e.start * SectorWords + w>>
    BY <2>3, <2>5
  <2> QED BY <2>2, <2>6 DEF Loading, IsFirst, Entry
<1>2. \A name : Scanning(name) => Scanning(name)'
  BY DEF Scanning, Cursor, Entry
<1>3. BootBase \in Nat /\ NextBase \in Nat
  BY BootAssumption
<1> QED BY <1>1, <1>2, <1>3 DEF Purpose

-----------------------------------------------------------------------------
(***************************************************************************)
(* The steps of a machine whose disk stays.                                *)
(***************************************************************************)
\* What the firmware knows when it sends for a sector, or ends.
LEMMA ReadingStarts ==
    ASSUME file' \in Image, pc' = "lba", Purpose'
    PROVE  Outline'
BY DEF Outline, Looking, Choosing, Reading, Finished

LEMMA NothingToKnow ==
    ASSUME pc' \in Ended \cup {"off", "status"},
           pc' \in {"off", "status", "noDisk"} \/ file' \in Image,
           pc' \notin {"stage3", "notFound", "nextNotFound"}
    PROVE  Outline'
BY DEF Outline, Looking, Choosing, Reading, Finished, Ended

\* Up to the search for BOOT.BIN.
LEMMA HeaderOutline ==
    ASSUME BootIInv, Outline,
           PowerOn \/ CheckStatus \/ CheckHeader \/ LoadDirectoryLba
    PROVE  Outline'
<1>1. CASE PowerOn
  BY <1>1, NothingToKnow DEF PowerOn
<1>2. CASE CheckStatus
  <2>1. CASE file # NoFile /\ ReadSector(0, "header")
    <3>1. file' \in Image /\ pc' = "lba" /\ caller' = "header" /\ sector' = 0
      BY <1>2, <2>1 DEF CheckStatus, ReadSector, BootIInv, DisksTyped, vars, registers
    <3> QED BY <3>1, ReadingStarts DEF Purpose
  <2>2. CASE pc' = "noDisk"
    BY <2>2, NothingToKnow DEF Ended
  <2> QED BY <1>2, <2>1, <2>2 DEF CheckStatus
<1>3. CASE CheckHeader
  <2>1. file \in Image /\ InBuffer(0) /\ UNCHANGED <<file, buffer>>
    BY <1>3 DEF CheckHeader, Outline, Looking, vars, registers
  <2>2. CASE pc' = "badFormat"
    BY <2>1, <2>2, NothingToKnow DEF Ended
  <2>3. CASE pc' = "directoryLba"
    BY <2>1, <2>3 DEF Outline, Looking, Choosing, Reading, Finished, InBuffer, SectorOf
  <2> QED BY <1>3, <2>2, <2>3 DEF CheckHeader
<1>4. CASE LoadDirectoryLba
  <2>1. file \in Image /\ InBuffer(0) /\ UNCHANGED file
    BY <1>4 DEF LoadDirectoryLba, Outline, Looking, vars, registers
  <2>2. SectorWords <= ImageWords[file] /\ buffer[0] = <<file, 0>>
    BY <2>1, DiskAssumption DEF InBuffer, SectorOf, Positions
  <2>3. /\ Says(buffer[0]).directory = Content[file][0].directory
        /\ Content[file][0].directory \in Nat
    BY <2>1, <2>2, HeaderWord
  <2>4. ScanFrom(Content[file][0].directory, "directory")
    BY <1>4, <2>3 DEF LoadDirectoryLba
  <2>5. Scanning("BOOT.BIN")'
    BY <2>1, <2>3, <2>4, ScanStarts
  <2>6. pc' = "lba" /\ caller' = "directory"
    BY <2>4 DEF ScanFrom, ReadSector
  <2> QED BY <2>1, <2>5, <2>6, ReadingStarts DEF Purpose
<1> QED BY <1>1, <1>2, <1>3, <1>4

\* The search of the BIOS, and what it reads of the entry it finds.
LEMMA EntryOutline ==
    ASSUME BootIInv, Outline, MatchEntry \/ LoadStart \/ LoadLength
    PROVE  Outline'
<1> DEFINE entry == Says(buffer[slot])
<1>1. /\ file \in Image /\ Scanning("BOOT.BIN") /\ InBuffer(sector)
      /\ FirmwareTyped /\ UNCHANGED <<file, buffer>>
  BY DEF MatchEntry, LoadStart, LoadLength, Outline, Looking, BootIInv, vars, registers
<1>2. buffer[slot] = <<file, sector * SectorWords + slot>>
  BY <1>1 DEF InBuffer, SectorOf, FirmwareTyped
<1>3. /\ entry = Entry(file, Cursor)
      /\ entry.start \in Nat /\ entry.length \in Nat
  BY <1>1, <1>2, UnderCursor, SaysNumbers DEF InBuffer
<1>4. left \in 1 .. DirectoryEntries
  BY <1>1 DEF Scanning
<1> HIDE DEF entry
<1>5. ASSUME UNCHANGED <<sector, slot, left>>
      PROVE  /\ Scanning("BOOT.BIN")' /\ InBuffer(sector)' /\ Cursor' = Cursor
             /\ IsFirst(file, Cursor, "BOOT.BIN")' <=> IsFirst(file, Cursor, "BOOT.BIN")
             /\ Entry(file, Cursor)' = Entry(file, Cursor)
  BY <1>1, <1>5 DEF Scanning, InBuffer, SectorOf, Cursor, Entry, IsFirst
<1>6. CASE MatchEntry
  <2>1. CASE entry.name = "BOOT.BIN" /\ pc' = "start" /\ UNCHANGED <<caller, sector, search, load>>
    <3>1. IsFirst(file, Cursor, "BOOT.BIN")
      BY <1>1, <1>3, <2>1 DEF Scanning, IsFirst
    <3>2. UNCHANGED <<sector, slot, left>>
      BY <2>1 DEF search
    <3> QED BY <1>1, <1>4, <1>5, <2>1, <3>1, <3>2
            DEF Outline, Looking, Choosing, Reading, Finished
  <2>2. CASE entry.name # "BOOT.BIN" /\ NextEntry("entry", "notFound")
    <3>1. \/ pc' = "notFound" /\ Absent("BOOT.BIN")'
          \/ pc' \in {"entry", "lba"} /\ Scanning("BOOT.BIN")'
             /\ (sector' = sector \/ pc' = "lba")
      BY <1>1, <1>3, <2>2, NextEntryScans
    <3>2. caller = "directory" /\ caller' = caller
      BY <1>6, <2>2 DEF MatchEntry, NextEntry, Outline, Looking
    <3>3. CASE pc' = "notFound" /\ Absent("BOOT.BIN")'
      BY <1>1, <3>3 DEF Outline, Looking, Choosing, Reading, Finished
    <3>4. CASE pc' = "entry" /\ Scanning("BOOT.BIN")' /\ sector' = sector
      <4>1. InBuffer(sector)'
        BY <1>1, <3>4 DEF InBuffer, SectorOf
      <4> QED BY <1>1, <3>2, <3>4, <4>1 DEF Outline, Looking, Choosing, Reading, Finished
    <3>5. CASE pc' = "lba" /\ Scanning("BOOT.BIN")'
      BY <1>1, <3>2, <3>5, ReadingStarts DEF Purpose
    <3> QED BY <3>1, <3>3, <3>4, <3>5
  <2> QED BY <1>6, <2>1, <2>2 DEF MatchEntry, entry
<1>7. CASE LoadStart
  <2>1. /\ pc' = "length" /\ from' = Entry(file, Cursor).start
        /\ UNCHANGED <<sector, slot, left>> /\ IsFirst(file, Cursor, "BOOT.BIN")
    BY <1>3, <1>7 DEF LoadStart, search, Outline, Choosing, entry
  <2> QED BY <1>1, <1>3, <1>4, <1>5, <2>1 DEF Outline, Looking, Choosing, Reading, Finished
<1>8. CASE LoadLength
  <2>1. /\ pc' = "bootinfo" /\ count' = Sectors(Entry(file, Cursor).length)
        /\ UNCHANGED <<sector, slot, left, from>> /\ IsFirst(file, Cursor, "BOOT.BIN")
        /\ from = Entry(file, Cursor).start
    BY <1>3, <1>8 DEF LoadLength, search, Outline, Choosing, entry
  <2> QED BY <1>1, <1>3, <1>4, <1>5, <2>1 DEF Outline, Looking, Choosing, Reading, Finished
<1> QED BY <1>6, <1>7, <1>8

\* Loading BOOT.BIN.
LEMMA LoadOutline ==
    ASSUME BootIInv, Outline, BuildBootinfo \/ BootSectorLoaded \/ NextSectorLoaded
    PROVE  Outline'
<1>1. file \in Image /\ UNCHANGED file /\ FirmwareTyped
  BY DEF BuildBootinfo, BootSectorLoaded, NextSectorLoaded, Outline, BootIInv, vars,
         registers
<1>2. BootBase \in Nat /\ NextBase \in Nat /\ DirectoryEntries \in Nat
  BY BootAssumption
<1>3. CASE BuildBootinfo
  <2>1. /\ left \in 1 .. DirectoryEntries /\ IsFirst(file, Cursor, "BOOT.BIN")
        /\ from = Entry(file, Cursor).start /\ Entry(file, Cursor).start \in Nat
        /\ count = Sectors(Entry(file, Cursor).length)
        /\ Entry(file, Cursor).length \in Nat
    BY <1>3 DEF BuildBootinfo, Outline, Choosing
  <2>2. Cursor \in 0 .. DirectoryEntries - 1
    BY <1>2, <2>1 DEF Cursor
  <2>3. CASE count = 0 /\ pc' = "notFound"
    <3>1. Entry(file, Cursor).length = 0
      BY <2>1, <2>3, SectorsHold
    <3>2. \A n \in 0 .. DirectoryEntries - 1 :
             IsFirst(file, n, "BOOT.BIN") => Entry(file, n).length = 0
      BY <2>1, <2>2, <3>1, FirstIsOne
    <3>3. Absent("BOOT.BIN")'
      BY <1>1, <3>2 DEF Absent, IsFirst, Entry
    <3> QED BY <1>1, <2>3, <3>3 DEF Outline, Looking, Choosing, Reading, Finished
  <2>4. CASE count > 0 /\ ReadSector(from, "file") /\ dest' = BootBase
    <3>1. pc' = "lba" /\ caller' = "file" /\ sector' = from /\ count' = count
      BY <1>3, <2>4 DEF BuildBootinfo, ReadSector
    <3>2. Loading("BOOT.BIN", BootBase)'
      BY <1>1, <1>2, <2>1, <2>2, <2>4, <3>1, LoadingStarts
    <3> QED BY <1>1, <3>1, <3>2, ReadingStarts DEF Purpose
  <2> QED BY <1>3, <2>3, <2>4 DEF BuildBootinfo
<1>4. ASSUME pc = "copied"
      PROVE  Purpose /\ InRam(dest, sector, SectorWords)
  BY <1>4 DEF Outline, Reading, BootIInv, CopiesSectors
<1>5. CASE BootSectorLoaded
  <2>1. pc = "copied" /\ caller = "file" /\ NextFileSector("boot") /\ UNCHANGED ram
        /\ caller' = caller
    BY <1>5 DEF BootSectorLoaded, NextFileSector
  <2>2. \/ pc' = "boot" /\ Loaded("BOOT.BIN", BootBase)'
        \/ pc' = "lba" /\ Loading("BOOT.BIN", BootBase)'
    BY <1>1, <1>2, <1>4, <2>1, LoadingGoesOn DEF Purpose
  <2>3. CASE pc' = "boot" /\ Loaded("BOOT.BIN", BootBase)'
    BY <1>1, <2>3 DEF Outline, Looking, Choosing, Reading, Finished
  <2>4. CASE pc' = "lba" /\ Loading("BOOT.BIN", BootBase)'
    BY <1>1, <2>1, <2>4, ReadingStarts DEF Purpose
  <2> QED BY <2>2, <2>3, <2>4
<1>6. CASE NextSectorLoaded
  <2>1. pc = "copied" /\ caller = "nextFile" /\ NextFileSector("stage3") /\ UNCHANGED ram
        /\ caller' = caller
    BY <1>6 DEF NextSectorLoaded, NextFileSector
  <2>2. \/ pc' = "stage3" /\ Loaded("NEXT.BIN", NextBase)'
        \/ pc' = "lba" /\ Loading("NEXT.BIN", NextBase)'
    BY <1>1, <1>2, <1>4, <2>1, LoadingGoesOn DEF Purpose
  <2>3. CASE pc' = "stage3" /\ Loaded("NEXT.BIN", NextBase)'
    BY <1>1, <2>3 DEF Outline, Looking, Choosing, Reading, Finished
  <2>4. CASE pc' = "lba" /\ Loading("NEXT.BIN", NextBase)'
    BY <1>1, <2>1, <2>4, ReadingStarts DEF Purpose
  <2> QED BY <2>2, <2>3, <2>4
<1> QED BY <1>3, <1>5, <1>6

\* BOOT's header check and its search.
LEMMA BootOutline ==
    ASSUME BootIInv, Outline,
           EnterBoot \/ HeaderInRam \/ DirectoryInRam \/ MatchNextEntry
    PROVE  Outline'
<1>1. file \in Image /\ UNCHANGED <<file, ram>> /\ FirmwareTyped
  BY DEF EnterBoot, HeaderInRam, DirectoryInRam, MatchNextEntry, Outline, BootIInv,
         vars, registers
<1>2. /\ Scratch \in Nat /\ NextBase \in Nat /\ DirectoryEntries \in Nat
      /\ SectorWords \in Nat \ {0} /\ 0 \in 0 .. SectorWords - 1
  BY DiskAssumption, BootAssumption
<1>3. CASE EnterBoot
  <2>1. CASE ReadSector(0, "probe") /\ dest' = Scratch
    <3>1. pc' = "lba" /\ caller' = "probe" /\ sector' = 0
      BY <2>1 DEF ReadSector
    <3> QED BY <1>1, <2>1, <3>1, ReadingStarts DEF Purpose
  <2>2. CASE pc' \in {"badBootinfo", "wild"}
    BY <1>1, <2>2, NothingToKnow DEF Ended
  <2> QED BY <1>3, <2>1, <2>2 DEF EnterBoot
<1>4. ASSUME pc = "copied"
      PROVE  Purpose /\ InRam(dest, sector, SectorWords)
  BY <1>4 DEF Outline, Reading, BootIInv, CopiesSectors
<1>5. CASE HeaderInRam
  <2>1. sector = 0 /\ dest = Scratch /\ InRam(Scratch, 0, SectorWords)
    BY <1>4, <1>5 DEF HeaderInRam, Purpose
  <2>2. ram[Scratch] = <<file, 0>> /\ SectorWords <= ImageWords[file]
    <3>1. ram[Scratch + 0] = <<file, 0 * SectorWords + 0>>
      BY <1>2, <2>1 DEF InRam
    <3>2. Scratch + 0 = Scratch /\ 0 * SectorWords + 0 = 0
          /\ (0 + 1) * SectorWords = SectorWords
      BY <1>2
    <3> QED BY <2>1, <3>1, <3>2 DEF InRam
  <2>3. /\ Says(ram[Scratch]).directory = Content[file][0].directory
        /\ Content[file][0].directory \in Nat
    BY <1>1, <2>2, HeaderWord
  <2>4. CASE ScanFrom(Says(ram[Scratch]).directory, "nextDirectory")
    <3>1. ScanFrom(Content[file][0].directory, "nextDirectory")
      BY <2>3, <2>4
    <3>2. Scanning("NEXT.BIN")'
      BY <1>1, <2>3, <3>1, ScanStarts
    <3>3. pc' = "lba" /\ caller' = "nextDirectory" /\ dest' = dest
      BY <1>5, <3>1 DEF HeaderInRam, ScanFrom, ReadSector, load
    <3> QED BY <1>1, <2>1, <3>2, <3>3, ReadingStarts DEF Purpose
  <2>5. CASE pc' \in {"nextBadFormat", "serviceFailed"}
    BY <1>1, <2>5, NothingToKnow DEF Ended
  <2> QED BY <1>5, <2>4, <2>5 DEF HeaderInRam
<1>6. CASE DirectoryInRam
  <2>1. /\ Scanning("NEXT.BIN") /\ dest = Scratch /\ InRam(dest, sector, SectorWords)
        /\ caller = "nextDirectory" /\ pc' = "nextEntry"
        /\ UNCHANGED <<caller, sector, left, slot, dest>>
    BY <1>4, <1>6 DEF DirectoryInRam, Purpose, search, load
  <2>2. Scanning("NEXT.BIN")' /\ InRam(dest, sector, SectorWords)'
    BY <1>1, <2>1 DEF Scanning, Cursor, Entry, InRam
  <2> QED BY <1>1, <2>1, <2>2 DEF Outline, Looking, Choosing, Reading, Finished
<1>7. CASE MatchNextEntry
  <2> DEFINE entry == Says(ram[Scratch + slot])
  <2>1. /\ Scanning("NEXT.BIN") /\ dest = Scratch /\ InRam(Scratch, sector, SectorWords)
        /\ caller = "nextDirectory" /\ slot \in 0 .. SectorWords - 1
    BY <1>1, <1>7 DEF MatchNextEntry, Outline, Looking, FirmwareTyped, Positions
  <2>2. /\ ram[Scratch + slot] = <<file, sector * SectorWords + slot>>
        /\ (sector + 1) * SectorWords <= ImageWords[file]
    BY <2>1 DEF InRam
  <2>3. /\ entry = Entry(file, Cursor)
        /\ entry.start \in Nat /\ entry.length \in Nat
    BY <1>1, <2>1, <2>2, UnderCursor, SaysNumbers
  <2>4. Cursor \in 0 .. DirectoryEntries - 1
    BY <1>2, <2>1 DEF Scanning, Cursor
  <2> HIDE DEF entry
  <2>5. CASE entry.name # "NEXT.BIN" /\ NextEntry("nextEntry", "nextNotFound")
    <3>1. \/ pc' = "nextNotFound" /\ Absent("NEXT.BIN")'
          \/ pc' \in {"nextEntry", "lba"} /\ Scanning("NEXT.BIN")'
             /\ (sector' = sector \/ pc' = "lba")
      BY <1>1, <2>1, <2>3, <2>5, NextEntryScans
    <3>2. caller' = caller /\ dest' = dest
      BY <2>5 DEF NextEntry, load
    <3>3. CASE pc' = "nextNotFound" /\ Absent("NEXT.BIN")'
      BY <1>1, <3>3 DEF Outline, Looking, Choosing, Reading, Finished
    <3>4. CASE pc' = "nextEntry" /\ Scanning("NEXT.BIN")' /\ sector' = sector
      <4>1. InRam(dest, sector, SectorWords)'
        BY <1>1, <2>1, <3>2, <3>4 DEF InRam
      <4> QED BY <1>1, <2>1, <3>2, <3>4, <4>1
              DEF Outline, Looking, Choosing, Reading, Finished
    <3>5. CASE pc' = "lba" /\ Scanning("NEXT.BIN")'
      BY <1>1, <2>1, <3>2, <3>5, ReadingStarts DEF Purpose
    <3> QED BY <3>1, <3>3, <3>4, <3>5
  <2>6. CASE entry.name = "NEXT.BIN"
    <3>1. IsFirst(file, Cursor, "NEXT.BIN")
      BY <2>1, <2>3, <2>6 DEF Scanning, IsFirst
    <3>2. CASE entry.length = 0 /\ pc' = "nextNotFound"
      <4>1. \A n \in 0 .. DirectoryEntries - 1 :
               IsFirst(file, n, "NEXT.BIN") => Entry(file, n).length = 0
        BY <2>3, <2>4, <3>1, <3>2, FirstIsOne
      <4>2. Absent("NEXT.BIN")'
        BY <1>1, <4>1 DEF Absent, IsFirst, Entry
      <4> QED BY <1>1, <3>2, <4>2 DEF Outline, Looking, Choosing, Reading, Finished
    <3>3. CASE /\ entry.length > 0 /\ ReadSector(entry.start, "nextFile")
               /\ dest' = NextBase /\ count' = Sectors(entry.length)
      <4>1. pc' = "lba" /\ caller' = "nextFile" /\ sector' = entry.start
        BY <3>3 DEF ReadSector
      <4>2. count' > 0
        <5>1. Sectors(entry.length) \in Nat /\ Sectors(entry.length) # 0
          BY <2>3, <3>3, SectorsHold
        <5> QED BY <3>3, <5>1
      <4>3. Loading("NEXT.BIN", NextBase)'
        BY <1>1, <1>2, <2>3, <2>4, <3>1, <3>3, <4>1, <4>2, LoadingStarts
      <4> QED BY <1>1, <4>1, <4>3, ReadingStarts DEF Purpose
    <3> QED BY <1>7, <2>6, <3>2, <3>3 DEF MatchNextEntry, entry
  <2> QED BY <1>7, <2>5, <2>6 DEF MatchNextEntry, entry
<1> QED BY <1>3, <1>5, <1>6, <1>7

\* Reading and copying a sector.
LEMMA DiskReadOutline ==
    ASSUME BootIInv, Outline, DiskRead
    PROVE  Outline'
<1>1. /\ file \in Image /\ FirmwareTyped /\ DisksTyped /\ Purpose
      /\ UNCHANGED <<file, caller, sector, left, slot, count, dest>>
  <2>1. /\ file \in Image /\ Purpose
        /\ UNCHANGED <<caller, sector, left, slot, count, dest>>
    BY DEF DiskRead, SetLba, SendRead, CheckError, CopyWord, Outline, Reading, search, load
  <2>2. CASE SendRead
    BY <2>1, <2>2, ReadTyped DEF SendRead, BootIInv
  <2>3. CASE SetLba \/ CheckError \/ CopyWord
    BY <2>1, <2>3 DEF SetLba, WriteLba, CheckError, CopyWord, vars, registers, BootIInv
  <2> QED BY <2>2, <2>3 DEF DiskRead
<1>2. ASSUME UNCHANGED ram PROVE Purpose'
  BY <1>1, <1>2, PurposeKept
<1>3. CASE SetLba
  <2>1. pc' = "command" /\ lba' = sector' /\ Purpose'
    BY <1>1, <1>2, <1>3 DEF SetLba, WriteLba
  <2> QED BY <1>1, <2>1 DEF Outline, Looking, Choosing, Reading, Finished
<1>4. CASE SendRead
  <2>1. /\ pc' = "error" /\ Purpose' /\ lba = sector
    BY <1>1, <1>2, <1>4 DEF SendRead, Outline, Reading
  <2>2. error' = "NONE" => InBuffer(sector)'
    BY <1>1, <1>4, <2>1, ReadTyped DEF SendRead, InBuffer, SectorOf
  <2> QED BY <1>1, <2>1, <2>2 DEF Outline, Looking, Choosing, Reading, Finished
<1>5. CASE CheckError
  <2>1. CASE pc' \in {"diskError", "serviceFailed"}
    BY <1>1, <2>1, NothingToKnow DEF Ended
  <2>2. CASE error = "NONE" /\ pc' = CASE caller = "header" -> "checkHeader"
                                       [] caller = "directory" -> "entry"
                                       [] OTHER -> "copy"
    <3>1. InBuffer(sector)' /\ InBuffer(sector)
      BY <1>1, <1>5, <2>2
         DEF CheckError, Outline, Reading, InBuffer, SectorOf, vars, registers
    <3>2. CASE caller = "header"
      <4>1. pc' = "checkHeader" /\ sector' = 0
        BY <1>1, <2>2, <3>2 DEF Purpose
      <4>2. InBuffer(0)'
        BY <3>1, <4>1 DEF InBuffer, SectorOf
      <4> QED BY <1>1, <4>1, <4>2 DEF Outline, Looking, Choosing, Reading, Finished
    <3>3. CASE caller = "directory"
      <4>1. pc' = "entry" /\ Scanning("BOOT.BIN") /\ caller' = "directory"
        BY <1>1, <2>2, <3>3 DEF Purpose
      <4>2. Scanning("BOOT.BIN")'
        BY <1>1, <4>1 DEF Scanning, Cursor, Entry
      <4> QED BY <1>1, <3>1, <4>1, <4>2 DEF Outline, Looking, Choosing, Reading, Finished
    <3>4. CASE caller \notin {"header", "directory"}
      <4>1. pc' = "copy" /\ at' = 0 /\ Purpose'
        BY <1>1, <1>2, <1>5, <2>2, <3>4 DEF CheckError
      <4>2. InRam(dest, sector, at)'
        BY <3>1, <4>1 DEF InRam, InBuffer
      <4> QED BY <1>1, <3>1, <4>1, <4>2 DEF Outline, Looking, Choosing, Reading, Finished
    <3> QED BY <3>2, <3>3, <3>4
  <2> QED BY <1>5, <2>1, <2>2 DEF CheckError
<1>6. CASE CopyWord
  <2>1. CASE pc' = "fault"
    BY <1>1, <2>1, NothingToKnow DEF Ended
  <2>2. CASE /\ dest + at < RamWords
             /\ ram' = [ram EXCEPT ![dest + at] = buffer[at]]
             /\ at' = at + 1
             /\ pc' = IF at + 1 = SectorWords THEN "copied" ELSE "copy"
    <3>1. /\ InBuffer(sector) /\ InRam(dest, sector, at) /\ at < SectorWords
          /\ at \in Nat /\ dest \in Nat /\ RamWords \in Nat /\ SectorWords \in Nat
          /\ ram \in [0 .. RamWords - 1 -> DiskWord] /\ UNCHANGED buffer
      BY <1>1, <1>6, DiskAssumption, BootAssumption
         DEF CopyWord, Outline, Reading, BootIInv, CopiesSectors, FirmwareTyped, vars,
             registers
    <3>2. buffer[at] = <<file, sector * SectorWords + at>>
      BY <3>1 DEF InBuffer, SectorOf, Positions
    <3>3. /\ ram'[dest + at] = buffer[at]
          /\ \A a \in 0 .. dest + at - 1 : ram'[a] = ram[a]
      BY <2>2, <3>1
    <3>4. \A a \in 0 .. dest - 1 : ram'[a] = ram[a]
      BY <3>1, <3>3
    <3>5. Purpose'
      BY <1>1, <3>4, PurposeKept
    <3>6. ASSUME NEW w \in 0 .. at' - 1
          PROVE  ram'[dest' + w] = <<file', sector' * SectorWords + w>>
      <4>1. CASE w = at
        BY <1>1, <3>2, <3>3, <4>1
      <4>2. CASE w # at
        <5>1. w \in 0 .. at - 1 /\ dest + w \in 0 .. dest + at - 1
          BY <2>2, <3>1, <4>2
        <5>2. ram[dest + w] = <<file, sector * SectorWords + w>>
          BY <3>1, <5>1 DEF InRam
        <5> QED BY <1>1, <3>3, <5>1, <5>2
      <4> QED BY <4>1, <4>2
    <3>7. InRam(dest, sector, at)' /\ InBuffer(sector)'
      BY <1>1, <3>1, <3>6 DEF InRam, InBuffer, SectorOf
    <3>8. pc' \in {"copy", "copied"}
      BY <2>2
    <3> QED BY <1>1, <3>5, <3>7, <3>8 DEF Outline, Looking, Choosing, Reading, Finished
  <2> QED BY <1>6, <2>1, <2>2 DEF CopyWord
<1> QED BY <1>3, <1>4, <1>5, <1>6 DEF DiskRead

\* A change of medium ends what is known of a disk that stays; one before
\* the machine is on, and a shortened image, leave it.
LEMMA HostOutline ==
    ASSUME FirmwareTyped, Unswapped, SwapDisk \/ ShortenImage \/ UNCHANGED bootVars
    PROVE  Unswapped'
<1>1. CASE SwapDisk
  <2>1. CASE pc = "off"
    <3>1. pc' = "off"
      BY <1>1, <2>1 DEF SwapDisk, firmware
    <3> QED BY <3>1, NothingToKnow DEF Unswapped
  <2>2. CASE pc # "off"
    <3>1. swaps' = swaps + 1 /\ swaps \in Nat
      BY <1>1, <2>2 DEF SwapDisk, FirmwareTyped
    <3> QED BY <3>1 DEF Unswapped
  <2> QED BY <2>1, <2>2
<1>2. CASE ShortenImage \/ UNCHANGED bootVars
  <2>1. /\ UNCHANGED <<file, lba, error, buffer, pc, caller, sector, left, slot, from>>
        /\ UNCHANGED <<count, dest, at, ram, swaps>>
    BY <1>2 DEF ShortenImage, Truncate, bootVars, vars, registers, firmware, search, load
  <2>2. Purpose => Purpose'
    <3>1. \A a \in 0 .. dest - 1 : ram'[a] = ram[a]
      BY <2>1
    <3> QED BY <2>1, <3>1, PurposeKept
  <2>3. Looking => Looking'
    BY <2>1 DEF Looking, Scanning, Cursor, InBuffer, InRam, SectorOf, Entry
  <2>4. Choosing => Choosing'
    BY <2>1 DEF Choosing, Cursor, IsFirst, Entry
  <2>5. Reading => Reading'
    BY <2>1, <2>2 DEF Reading, InBuffer, InRam, SectorOf
  <2>6. Finished => Finished'
    BY <2>1 DEF Finished, Loaded, Absent, IsFirst, Entry
  <2> QED BY <2>1, <2>3, <2>4, <2>5, <2>6 DEF Unswapped, Outline
<1> QED BY <1>1, <1>2

-----------------------------------------------------------------------------
\* A machine that is off, every image its own.
LEMMA InitBootIInv == BootInit => BootIInv
<1> SUFFICES ASSUME BootInit PROVE BootIInv
  OBVIOUS
<1>1. /\ 0 \in Positions /\ DirectoryEntries \in Nat
      /\ \A i \in Image : ImageWords[i] \in Nat
  BY DiskAssumption, BootAssumption DEF Positions
<1>2. DisksTyped
  <2>1. ASSUME NEW i \in Image
        PROVE  /\ media[i] \in Seq(DiskWord) /\ Len(media[i]) = ImageWords[i]
               /\ \A p \in 1 .. ImageWords[i] : media[i][p] = <<i, p - 1>>
    <3>1. media[i] = [p \in 1 .. ImageWords[i] |-> <<i, p - 1>>]
      BY DEF BootInit, Init
    <3>2. \A p \in 1 .. ImageWords[i] : <<i, p - 1>> \in DiskWord
      BY <1>1 DEF DiskWord
    <3>3. media[i] \in [1 .. ImageWords[i] -> DiskWord]
      BY <3>1, <3>2
    <3>4. ASSUME NEW n \in Nat, NEW f \in [1 .. n -> DiskWord]
          PROVE  f \in Seq(DiskWord) /\ Len(f) = n
      OBVIOUS
    <3>5. media[i] \in Seq(DiskWord) /\ Len(media[i]) = ImageWords[i]
      BY <1>1, <3>3, <3>4
    <3> QED BY <3>1, <3>5
  <2>2. media \in [Image -> Seq(DiskWord)]
    BY <2>1 DEF BootInit, Init
  <2>3. \A i \in Image : Len(media[i]) <= ImageWords[i]
    <3>1. \A n \in Nat : n <= n
      OBVIOUS
    <3> QED BY <1>1, <2>1, <3>1
  <2> QED BY <2>1, <2>2, <2>3 DEF BootInit, Init, ZeroBuffer, DisksTyped, DiskWord
<1>3. FirmwareTyped
  BY <1>1 DEF BootInit, FirmwareTyped, BiosCallers, DiskWord
<1>4. CopiesSectors
  BY DEF BootInit, CopiesSectors
<1>5. Unswapped
  BY DEF BootInit, Unswapped, Outline, Looking, Choosing, Reading, Finished
<1> QED BY <1>2, <1>3, <1>4, <1>5 DEF BootIInv

\* One access of the firmware, or one call of the host.
LEMMA NextBootIInv == BootIInv /\ [BootNext]_bootVars => BootIInv'
<1> SUFFICES ASSUME BootIInv, [BootNext]_bootVars PROVE BootIInv'
  OBVIOUS
<1>1. DisksTyped' /\ FirmwareTyped' /\ CopiesSectors'
  BY DisksStep, FirmwareStep, CopiesStep DEF BootIInv
<1>2. CASE SwapDisk \/ ShortenImage \/ UNCHANGED bootVars
  BY <1>1, <1>2, HostOutline DEF BootIInv
<1>3. CASE PowerOn \/ Firmware
  <2>1. swaps' = swaps
    BY <1>3 DEF PowerOn, Firmware, Bios, Boot, DiskRead, CheckStatus, CheckHeader,
       LoadDirectoryLba, MatchEntry, LoadStart, LoadLength, BuildBootinfo,
       BootSectorLoaded, EnterBoot, HeaderInRam, DirectoryInRam, MatchNextEntry,
       NextSectorLoaded, SetLba, SendRead, CheckError, CopyWord
  <2>2. ASSUME swaps = 0 PROVE Outline'
    <3>1. Outline
      BY <2>2 DEF BootIInv, Unswapped
    <3> QED BY <1>3, <3>1, HeaderOutline, EntryOutline, LoadOutline, BootOutline,
               DiskReadOutline DEF Firmware, Bios, Boot
  <2> QED BY <1>1, <2>1, <2>2 DEF BootIInv, Unswapped
<1> QED BY <1>2, <1>3 DEF BootNext

-----------------------------------------------------------------------------
\* Whatever the disks, and whenever one is changed or shortened: the words
\* disk_read has copied are the start of some sector and blanks behind it,
\* never parts of two sectors.
THEOREM CopiesNeverMix == BootSpec => []NoSplicedSector
<1>1. BootIInv => NoSplicedSector
  BY DEF BootIInv, CopiesSectors, NoSplicedSector
<1> QED BY InitBootIInv, NextBootIInv, <1>1, PTL DEF BootSpec

\* Whatever the disk, as long as it stays in the drive: BOOT gets control only
\* with every word of the first BOOT.BIN in place, and STAGE3 with every word
\* of the first NEXT.BIN, though reads fail and the image is shortened.
THEOREM HandoffIsWhole == BootSpec => []HandoffIsTheFile
<1>1. BootIInv => HandoffIsTheFile
  BY DEF BootIInv, Unswapped, Outline, Finished, HandoffIsTheFile
<1> QED BY InitBootIInv, NextBootIInv, <1>1, PTL DEF BootSpec

\* Whatever the disk, as long as it stays: BIOS and BOOT say "not found" only
\* of a directory in which no entry has the name, or the first that has it is
\* empty.
THEOREM SearchIsComplete == BootSpec => []NotFoundIsTrue
<1>1. BootIInv => NotFoundIsTrue
  BY DEF BootIInv, Unswapped, Outline, Finished, Absent, NotFoundIsTrue
<1> QED BY InitBootIInv, NextBootIInv, <1>1, PTL DEF BootSpec

-----------------------------------------------------------------------------
(***************************************************************************)
(* How far the firmware is from an end: the stage it is in, the entries or *)
(* sectors the stage has left, and the accesses left for one of them.      *)
(* BootEnds needs fairness; that no access leads away from an end does     *)
(* not, nor that nothing can go on getting nearer.                         *)
(***************************************************************************)
ReadPlaces == {"lba", "command", "error", "copy", "copied"}
Searches == {"directory", "nextDirectory"}
Transfers == {"file", "nextFile"}

StageOf(who) ==
    CASE who = "header" -> 8 [] who = "directory" -> 7 [] who = "file" -> 5
      [] who = "probe" -> 3 [] who = "nextDirectory" -> 2 [] who = "nextFile" -> 1

StagesLeft ==
    CASE pc = "off" -> 10
      [] pc = "status" -> 9
      [] pc \in {"start", "length", "bootinfo"} -> 6
      [] pc = "boot" -> 4
      [] pc \in Ended -> 0
      [] OTHER -> StageOf(caller)

RoundsLeft ==
    CASE caller \in Searches -> left
      [] caller \in Transfers -> count
      [] OTHER -> 0

AccessesLeft ==
    CASE pc = "lba" -> SectorWords + 5
      [] pc = "command" -> SectorWords + 4
      [] pc = "error" -> SectorWords + 3
      [] pc = "copy" -> SectorWords + 2 - at
      [] pc = "start" -> 3
      [] pc \in {"copied", "length", "checkHeader"} -> 2
      [] pc \in {"bootinfo", "directoryLba", "entry", "nextEntry"} -> 1
      [] OTHER -> 0

Nearer ==
    \/ StagesLeft' < StagesLeft
    \/ StagesLeft' = StagesLeft /\ RoundsLeft' < RoundsLeft
    \/ /\ StagesLeft' = StagesLeft /\ RoundsLeft' = RoundsLeft
       /\ AccessesLeft' < AccessesLeft

\* Who is served at each place, and that a search or a load has something left
\* to look at, whatever was swapped.
InOrder ==
    /\ pc \in ReadPlaces \cup Ended
              \cup {"off", "status", "checkHeader", "directoryLba", "entry", "start",
                    "length", "bootinfo", "boot", "nextEntry"}
    /\ pc \in {"checkHeader", "directoryLba"} => caller = "header"
    /\ pc \in {"entry", "start", "length", "bootinfo"} => caller = "directory"
    /\ pc = "nextEntry" => caller = "nextDirectory"
    /\ pc \in {"copy", "copied"} => caller \notin {"header", "directory"}
    /\ left \in Nat /\ count \in Nat
    /\ pc \in {"entry", "nextEntry"} \cup ReadPlaces /\ caller \in Searches => left > 0
    /\ pc \in ReadPlaces /\ caller \in Transfers => count > 0

\* A step of the search goes to the next entry or sector, or ends it.
LEMMA SearchAdvances ==
    ASSUME FirmwareTyped, InOrder, NEW again \in {"entry", "nextEntry"},
           NEW none \in Ended, pc = again, NextEntry(again, none)
    PROVE  InOrder' /\ Nearer
<1> USE DEF ReadPlaces, Searches, Transfers, Ended
<1>1. caller = IF again = "entry" THEN "directory" ELSE "nextDirectory"
  BY DEF InOrder
<1>2. left \in Nat /\ left > 0 /\ left' = left - 1 /\ UNCHANGED <<caller, count>>
  BY <1>1 DEF InOrder, NextEntry, load
<1>3. pc' \in {again, none, "lba"} /\ (left = 1 => pc' = none) /\ (left # 1 => pc' # none)
  BY DEF NextEntry
<1>4. InOrder'
  BY <1>1, <1>2, <1>3 DEF InOrder
<1>5. pc' = none => StagesLeft' < StagesLeft
  BY <1>1 DEF StagesLeft, StageOf
<1>6. pc' # none => StagesLeft' = StagesLeft /\ RoundsLeft' < RoundsLeft
  BY <1>1, <1>2, <1>3 DEF StagesLeft, StageOf, RoundsLeft
<1> QED BY <1>4, <1>5, <1>6 DEF Nearer

\* So does a sector that was copied.
LEMMA TransferAdvances ==
    ASSUME FirmwareTyped, InOrder, pc = "copied",
           \/ caller = "file" /\ NextFileSector("boot")
           \/ caller = "nextFile" /\ NextFileSector("stage3")
    PROVE  InOrder' /\ Nearer
<1> USE DEF ReadPlaces, Searches, Transfers, Ended
<1>1. count \in Nat /\ count > 0 /\ count' = count - 1 /\ UNCHANGED <<caller, left>>
  BY DEF InOrder, NextFileSector, search
<1>2. /\ pc' = IF count = 1 THEN IF caller = "file" THEN "boot" ELSE "stage3" ELSE "lba"
      /\ caller \in {"file", "nextFile"}
  BY DEF NextFileSector
<1>3. InOrder'
  BY <1>1, <1>2 DEF InOrder
<1>4. pc' # "lba" => StagesLeft' < StagesLeft
  BY <1>2 DEF StagesLeft, StageOf
<1>5. pc' = "lba" => StagesLeft' = StagesLeft /\ RoundsLeft' < RoundsLeft
  BY <1>1, <1>2 DEF StagesLeft, StageOf, RoundsLeft
<1> QED BY <1>3, <1>4, <1>5 DEF Nearer

\* The accesses of one read follow one another.
LEMMA ReadAdvances ==
    ASSUME FirmwareTyped, CopiesSectors, InOrder, DiskRead
    PROVE  InOrder' /\ Nearer
<1> USE DEF ReadPlaces, Searches, Transfers, Ended
<1>1. SectorWords \in Nat /\ at \in Nat
  BY DiskAssumption DEF FirmwareTyped
<1>2. UNCHANGED <<caller, left, count>>
  BY DEF DiskRead, SetLba, SendRead, CheckError, CopyWord, search, load
<1>3. RoundsLeft' = RoundsLeft
  BY <1>2 DEF RoundsLeft
<1>4. CASE SetLba \/ SendRead
  <2>1. InOrder'
    BY <1>2, <1>4 DEF SetLba, SendRead, InOrder
  <2>2. StagesLeft' = StagesLeft
    BY <1>2, <1>4 DEF SetLba, SendRead, StagesLeft
  <2>3. AccessesLeft' < AccessesLeft
    BY <1>1, <1>4 DEF SetLba, SendRead, AccessesLeft
  <2> QED BY <1>3, <2>1, <2>2, <2>3 DEF Nearer
<1>5. CASE CheckError
  <2>1. pc = "error" /\ caller \in BiosCallers \cup ServiceCallers
    BY <1>5 DEF CheckError, FirmwareTyped
  <2>2. CASE pc' \in {"diskError", "serviceFailed"}
    <3>1. InOrder'
      BY <1>2, <2>1, <2>2 DEF InOrder
    <3>2. StagesLeft' < StagesLeft
      BY <2>1, <2>2 DEF StagesLeft, StageOf, BiosCallers, ServiceCallers
    <3> QED BY <3>1, <3>2 DEF Nearer
  <2>3. CASE pc' = CASE caller = "header" -> "checkHeader"
                     [] caller = "directory" -> "entry"
                     [] OTHER -> "copy"
    <3>1. InOrder'
      BY <1>2, <2>1, <2>3 DEF InOrder
    <3>2. StagesLeft' = StagesLeft
      BY <1>2, <2>1, <2>3 DEF StagesLeft
    <3>3. at' = 0
      BY <1>5 DEF CheckError
    <3>4. AccessesLeft' < AccessesLeft
      BY <1>1, <2>1, <2>3, <3>3 DEF AccessesLeft
    <3> QED BY <1>3, <3>1, <3>2, <3>4 DEF Nearer
  <2> QED BY <1>5, <2>2, <2>3 DEF CheckError
<1>6. CASE CopyWord
  <2>1. /\ pc = "copy" /\ at < SectorWords
        /\ caller \in (BiosCallers \cup ServiceCallers) \ {"header", "directory"}
    BY <1>6 DEF CopyWord, CopiesSectors, InOrder, FirmwareTyped
  <2>2. CASE pc' = "fault"
    <3>1. InOrder'
      BY <1>2, <2>2 DEF InOrder
    <3>2. StagesLeft' < StagesLeft
      BY <2>1, <2>2 DEF StagesLeft, StageOf, BiosCallers, ServiceCallers
    <3> QED BY <3>1, <3>2 DEF Nearer
  <2>3. CASE pc' = (IF at + 1 = SectorWords THEN "copied" ELSE "copy") /\ at' = at + 1
    <3>1. InOrder'
      BY <1>2, <2>1, <2>3 DEF InOrder
    <3>2. StagesLeft' = StagesLeft
      BY <1>2, <2>1, <2>3 DEF StagesLeft
    <3>3. AccessesLeft' < AccessesLeft
      BY <1>1, <2>1, <2>3 DEF AccessesLeft
    <3> QED BY <1>3, <3>1, <3>2, <3>3 DEF Nearer
  <2> QED BY <1>6, <2>2, <2>3 DEF CopyWord
<1> QED BY <1>4, <1>5, <1>6 DEF DiskRead

\* From a test or the end of a search to the next stage.
LEMMA BiosAdvances ==
    ASSUME DisksTyped, FirmwareTyped, InOrder, Bios
    PROVE  InOrder' /\ Nearer
<1> USE DEF ReadPlaces, Searches, Transfers, Ended
<1>1. DirectoryEntries \in Nat /\ DirectoryEntries > 0 /\ SectorWords \in Nat
  BY BootAssumption, DiskAssumption
<1>2. CASE CheckStatus
  <2>1. InOrder'
    BY <1>2 DEF CheckStatus, ReadSector, InOrder, search, load
  <2>2. StagesLeft' < StagesLeft
    BY <1>2 DEF CheckStatus, ReadSector, StagesLeft, StageOf
  <2> QED BY <2>1, <2>2 DEF Nearer
<1>3. CASE CheckHeader
  <2>1. InOrder'
    BY <1>3 DEF CheckHeader, InOrder, search, load
  <2>2. CASE pc' = "badFormat"
    BY <1>3, <2>1, <2>2 DEF CheckHeader, Nearer, StagesLeft, StageOf, InOrder
  <2>3. CASE pc' = "directoryLba"
    <3>1. StagesLeft' = StagesLeft /\ RoundsLeft' = RoundsLeft
      BY <1>3, <2>3 DEF CheckHeader, StagesLeft, RoundsLeft, search, load
    <3>2. AccessesLeft' < AccessesLeft
      BY <1>3, <2>3 DEF CheckHeader, AccessesLeft
    <3> QED BY <2>1, <3>1, <3>2 DEF Nearer
  <2> QED BY <1>3, <2>2, <2>3 DEF CheckHeader
<1>4. CASE LoadDirectoryLba
  <2>1. InOrder'
    BY <1>1, <1>4 DEF LoadDirectoryLba, ScanFrom, ReadSector, InOrder, load
  <2>2. StagesLeft' < StagesLeft
    BY <1>4 DEF LoadDirectoryLba, ScanFrom, ReadSector, StagesLeft, StageOf, InOrder
  <2> QED BY <2>1, <2>2 DEF Nearer
<1>5. CASE MatchEntry
  <2>1. CASE pc' = "start" /\ UNCHANGED <<caller, sector, search, load>>
    <3>1. InOrder'
      BY <1>5, <2>1 DEF MatchEntry, InOrder, search, load
    <3>2. StagesLeft' < StagesLeft
      BY <1>5, <2>1 DEF MatchEntry, StagesLeft, StageOf, InOrder
    <3> QED BY <3>1, <3>2 DEF Nearer
  <2>2. CASE NextEntry("entry", "notFound")
    BY <1>5, <2>2, SearchAdvances DEF MatchEntry
  <2> QED BY <1>5, <2>1, <2>2 DEF MatchEntry
<1>6. CASE LoadStart \/ LoadLength
  <2>1. count' \in Nat
    <3>1. Says(buffer[slot]).length \in Nat
      BY SaysNumbers DEF DisksTyped, FirmwareTyped
    <3> QED BY <1>6, <3>1, SectorsHold DEF LoadStart, LoadLength, InOrder
  <2>2. InOrder'
    BY <1>6, <2>1 DEF LoadStart, LoadLength, InOrder, search
  <2>3. pc \in {"start", "length"} /\ pc' = IF pc = "start" THEN "length" ELSE "bootinfo"
    BY <1>6 DEF LoadStart, LoadLength
  <2>4. StagesLeft' = StagesLeft /\ AccessesLeft' < AccessesLeft
    BY <2>3 DEF StagesLeft, AccessesLeft
  <2>5. RoundsLeft' = RoundsLeft
    BY <1>6 DEF InOrder, LoadStart, LoadLength, RoundsLeft, search
  <2> QED BY <2>2, <2>4, <2>5 DEF Nearer
<1>7. CASE BuildBootinfo
  <2>1. InOrder'
    BY <1>7 DEF BuildBootinfo, ReadSector, InOrder, search
  <2>2. StagesLeft' < StagesLeft
    BY <1>7 DEF BuildBootinfo, ReadSector, StagesLeft, StageOf, InOrder
  <2> QED BY <2>1, <2>2 DEF Nearer
<1>8. CASE BootSectorLoaded
  BY <1>8, TransferAdvances DEF BootSectorLoaded
<1> QED BY <1>2, <1>3, <1>4, <1>5, <1>6, <1>7, <1>8 DEF Bios

LEMMA BootAdvances ==
    ASSUME DisksTyped, FirmwareTyped, InOrder, Boot
    PROVE  InOrder' /\ Nearer
<1> USE DEF ReadPlaces, Searches, Transfers, Ended
<1>1. DirectoryEntries \in Nat /\ DirectoryEntries > 0 /\ SectorWords \in Nat
  BY BootAssumption, DiskAssumption
<1>2. CASE EnterBoot
  <2>1. InOrder'
    BY <1>2 DEF EnterBoot, ReadSector, InOrder, search
  <2>2. StagesLeft' < StagesLeft
    BY <1>2 DEF EnterBoot, ReadSector, StagesLeft, StageOf
  <2> QED BY <2>1, <2>2 DEF Nearer
<1>3. CASE HeaderInRam
  <2>1. InOrder'
    BY <1>1, <1>3 DEF HeaderInRam, ScanFrom, ReadSector, InOrder, search, load
  <2>2. StagesLeft' < StagesLeft
    BY <1>3 DEF HeaderInRam, ScanFrom, ReadSector, StagesLeft, StageOf
  <2> QED BY <2>1, <2>2 DEF Nearer
<1>4. CASE DirectoryInRam
  <2>1. InOrder'
    BY <1>4 DEF DirectoryInRam, InOrder, search, load
  <2>2. StagesLeft' = StagesLeft /\ RoundsLeft' = RoundsLeft
    BY <1>4 DEF DirectoryInRam, StagesLeft, RoundsLeft, search, load
  <2>3. AccessesLeft' < AccessesLeft
    BY <1>4 DEF DirectoryInRam, AccessesLeft
  <2> QED BY <2>1, <2>2, <2>3 DEF Nearer
<1>5. CASE MatchNextEntry
  <2> DEFINE entry == Says(ram[Scratch + slot])
  <2>1. CASE NextEntry("nextEntry", "nextNotFound")
    BY <1>5, <2>1, SearchAdvances DEF MatchNextEntry
  <2>2. CASE /\ count' = Sectors(entry.length)
             /\ \/ /\ entry.length = 0 /\ pc' = "nextNotFound"
                   /\ UNCHANGED <<caller, sector, dest>>
                \/ entry.length > 0 /\ ReadSector(entry.start, "nextFile")
             /\ UNCHANGED search
    <3>1. Scratch + slot \in 0 .. RamWords - 1
      <4>1. slot \in Nat /\ slot < SectorWords
        BY <1>1 DEF FirmwareTyped, Positions
      <4>2. /\ Scratch \in Nat /\ BootBase \in Nat /\ BootWords \in Nat
            /\ NextBase \in Nat /\ RamWords \in Nat
        BY BootAssumption
      <4> QED BY <1>1, <4>1, <4>2, BootAssumption
    <3>2. entry.length \in Nat
      BY <3>1, SaysNumbers DEF FirmwareTyped
    <3>3. count' \in Nat /\ (entry.length > 0 => count' > 0)
      BY <2>2, <3>2, SectorsHold
    <3> HIDE DEF entry
    <3>4. InOrder'
      BY <1>5, <2>2, <3>3 DEF MatchNextEntry, ReadSector, InOrder, search
    <3>5. StagesLeft' < StagesLeft
      BY <1>5, <2>2 DEF MatchNextEntry, ReadSector, StagesLeft, StageOf, InOrder
    <3> QED BY <3>4, <3>5 DEF Nearer
  <2> QED BY <1>5, <2>1, <2>2 DEF MatchNextEntry
<1>6. CASE NextSectorLoaded
  BY <1>6, TransferAdvances DEF NextSectorLoaded
<1> QED BY <1>2, <1>3, <1>4, <1>5, <1>6 DEF Boot

\* What is left is counted in natural numbers, so getting nearer has an end.
LEMMA LeftIsCounted ==
    ASSUME FirmwareTyped, CopiesSectors, InOrder
    PROVE  {StagesLeft, RoundsLeft, AccessesLeft} \subseteq Nat
<1>1. StageOf(caller) \in Nat
  BY DEF FirmwareTyped, BiosCallers, ServiceCallers, StageOf
<1>2. StagesLeft \in Nat
  BY <1>1 DEF StagesLeft
<1>3. RoundsLeft \in Nat
  BY DEF InOrder, RoundsLeft
<1>4. AccessesLeft \in Nat
  <2>1. SectorWords \in Nat /\ at \in Nat /\ (pc = "copy" => at < SectorWords)
    BY DiskAssumption DEF FirmwareTyped, CopiesSectors
  <2>2. pc = "copy" => AccessesLeft = SectorWords + 2 - at
    BY DEF AccessesLeft
  <2>3. pc # "copy" => AccessesLeft \in Nat
    BY <2>1 DEF AccessesLeft
  <2> QED BY <2>1, <2>2, <2>3
<1> QED BY <1>2, <1>3, <1>4

\* Whatever the disks, wherever one is swapped, shortened or fails to be read:
\* every access and test of BIOS and BOOT brings the machine nearer to the next
\* stage or a message, in a measure that cannot fall for ever and that no host
\* call raises.  No search goes on past the directory, no load past the file.
THEOREM FirmwareGetsNearer ==
    BootSpec => /\ []({StagesLeft, RoundsLeft, AccessesLeft} \subseteq Nat)
                /\ [][Nearer \/ (UNCHANGED firmware /\ ~ Firmware)]_bootVars
<1> DEFINE Steps == Nearer \/ (UNCHANGED firmware /\ ~ Firmware)
<1>1. BootInit => InOrder
  BY BootAssumption DEF BootInit, InOrder, ReadPlaces, Searches, Transfers, Ended
<1>2. ASSUME BootIInv, InOrder, [BootNext]_bootVars
      PROVE  InOrder' /\ [Steps]_bootVars
  <2>1. CASE Firmware
    BY <1>2, <2>1, BiosAdvances, BootAdvances, ReadAdvances DEF BootIInv, Firmware
  <2>2. CASE PowerOn
    <3>1. pc = "off" /\ pc' = "status" /\ UNCHANGED <<caller, left, count>>
      BY <2>2 DEF PowerOn, search, load
    <3>2. InOrder'
      BY <1>2, <3>1 DEF InOrder, ReadPlaces, Searches, Transfers, Ended
    <3>3. StagesLeft' < StagesLeft
      BY <3>1 DEF StagesLeft, Ended
    <3> QED BY <3>2, <3>3 DEF Nearer
  <2>3. CASE (SwapDisk \/ ShortenImage \/ UNCHANGED bootVars) /\ ~ Firmware
    <3>1. UNCHANGED firmware
      BY <2>3 DEF SwapDisk, ShortenImage, bootVars
    <3>2. InOrder'
      BY <1>2, <3>1 DEF firmware, search, load, InOrder
    <3> QED BY <2>3, <3>1, <3>2
  <2> QED BY <1>2, <2>1, <2>2, <2>3 DEF BootNext
<1>3. BootIInv /\ InOrder => {StagesLeft, RoundsLeft, AccessesLeft} \subseteq Nat
  BY LeftIsCounted DEF BootIInv
<1>4. BootIInv /\ InOrder /\ [BootNext]_bootVars => InOrder' /\ [Steps]_bootVars
  BY <1>2
<1> QED BY InitBootIInv, NextBootIInv, <1>1, <1>3, <1>4, PTL DEF BootSpec

-----------------------------------------------------------------------------
(***************************************************************************)
(* The firmware above the controller.  It counts sectors up from what it   *)
(* reads, so the places it asks for are any numbers.                       *)
(***************************************************************************)
Device == INSTANCE DiskController WITH Lbas <- Nat

\* BIOS and BOOT, and the host that changes disks meanwhile, are a guest and a
\* host of the controller: what was shown of it for every guest holds while the
\* machine boots.
THEOREM FirmwareUsesController == BootSpec => Device!Spec
<1>1. BootInit => Device!Init
  BY DEF BootInit, Init, Device!Init, ZeroBuffer, Device!ZeroBuffer, Positions,
     Device!Positions
<1>2. ASSUME FirmwareTyped, BootNext PROVE Device!Next \/ UNCHANGED vars
  <2>1. CASE SwapDisk
    <3>1. CASE Detach
      BY <3>1 DEF Detach, ZeroBuffer, Positions, Device!Next, Device!Host, Device!Detach,
         Device!ZeroBuffer, Device!Positions
    <3>2. ASSUME NEW i \in Image, Attach(i) PROVE Device!Next
      BY <3>2 DEF Attach, ZeroBuffer, Positions, Device!Next, Device!Host, Device!Attach,
         Device!ZeroBuffer, Device!Positions
    <3> QED BY <2>1, <3>1, <3>2 DEF SwapDisk
  <2>2. CASE ShortenImage
    <3>1. PICK i \in Image : Truncate(i)
      BY <2>2 DEF ShortenImage
    <3>2. Device!Truncate(i)
      BY <3>1 DEF Truncate, Device!Truncate, registers, Device!registers
    <3> QED BY <3>2 DEF Device!Next, Device!Host
  <2>3. CASE SetLba
    <3>1. sector \in Nat /\ WriteLba(sector)
      BY <1>2, <2>3 DEF FirmwareTyped, SetLba
    <3> QED BY <3>1 DEF WriteLba, Device!Next, Device!Guest, Device!WriteLba
  <2>4. CASE SendRead
    <3>1. Device!Execute("READ")
      <4>1. Execute("READ")
        BY <2>4 DEF SendRead
      <4> QED BY <4>1 DEF Execute, NoMedia, OutOfRange, SeekFails, Read, Write, BadCommand,
             Fail, Addressable, Offset, Overlay, Positions,
             Device!Execute, Device!NoMedia, Device!OutOfRange, Device!SeekFails,
             Device!Read, Device!Write, Device!BadCommand, Device!Fail,
             Device!Addressable, Device!Offset, Device!Overlay, Device!Positions
    <3>2. "READ" \in Device!Commands
      BY DEF Device!Commands
    <3> QED BY <3>1, <3>2 DEF Device!Next, Device!Guest
  <2>5. CASE PowerOn \/ CheckError \/ CopyWord \/ Bios \/ Boot
    BY <2>5 DEF PowerOn, CheckError, CopyWord, Bios, Boot, CheckStatus, CheckHeader,
       LoadDirectoryLba, MatchEntry, LoadStart, LoadLength, BuildBootinfo,
       BootSectorLoaded, EnterBoot, HeaderInRam, DirectoryInRam, MatchNextEntry,
       NextSectorLoaded
  <2> QED BY <1>2, <2>1, <2>2, <2>3, <2>4, <2>5 DEF BootNext, Firmware, DiskRead
<1>3. BootIInv /\ [BootNext]_bootVars => [Device!Next]_Device!vars
  <2> SUFFICES ASSUME BootIInv, [BootNext]_bootVars PROVE [Device!Next]_Device!vars
    OBVIOUS
  <2>1. Device!Next \/ UNCHANGED vars
    BY <1>2 DEF BootIInv, bootVars
  <2> QED BY <2>1 DEF vars, registers, Device!vars, Device!registers
<1> QED BY InitBootIInv, NextBootIInv, <1>1, <1>3, PTL DEF BootSpec, Device!Spec
=============================================================================
