---------------------------- MODULE MCBootChain -----------------------------
(***************************************************************************)
(* Disks of sectors of two words.  full has both files, each of two  *)
(* sectors but not of a whole number of them, in a directory of two        *)
(* sectors; big has its BOOT.BIN in the last entry and a NEXT.BIN larger   *)
(* than RAM leaves room for; bare has a BOOT.BIN of one sector and an      *)
(* empty NEXT.BIN; empty was formatted and raw was not; foreign is of      *)
(* another version and geometry.  A formatted image has a header in sector *)
(* 0 and its directory in sectors 1 and 2.                                 *)
(***************************************************************************)
EXTENDS BootChain

CONSTANTS full, big, bare, empty, raw, foreign

Header == [Blank EXCEPT !.magic = TRUE, !.version = TRUE, !.geometry = TRUE,
                        !.directory = 1]
File(name, start, length) ==
    [Blank EXCEPT !.name = name, !.start = start, !.length = length]
Other == File("OTHER", 3, 1)

MCImageWords == [i \in Image |->
    CASE i = full -> 14 [] i = big -> 16 [] i = bare -> 8
      [] i = empty -> 8 [] i = raw -> 6 [] i = foreign -> 6]

MCContent == [i \in Image |-> [p \in 0 .. 15 |->
    IF i \notin {raw, foreign} /\ p = 0 THEN Header
    ELSE CASE i = foreign /\ p = 0 -> [Blank EXCEPT !.magic = TRUE]
           [] i = full /\ p = 3 -> File("NEXT.BIN", 5, 3)
           [] i = full /\ p = 4 -> File("BOOT.BIN", 3, 3)
           [] i = big /\ p = 2 -> File("NEXT.BIN", 4, 7)
           [] i = big /\ p = 3 -> Other
           [] i = big /\ p = 5 -> File("BOOT.BIN", 3, 2)
           [] i = bare /\ p = 3 -> File("BOOT.BIN", 3, 2)
           [] i = bare /\ p = 4 -> File("NEXT.BIN", 4, 0)
           [] OTHER -> Blank]]
=============================================================================
