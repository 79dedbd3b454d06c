-------------------------- MODULE MCDiskController --------------------------
(***************************************************************************)
(* Two images, so that swapping media shows: A of two sectors and B of one *)
(* and a half, which attaches only after it is cut to a whole number of    *)
(* sectors.  Sectors of two words, so that a transfer can stop half-way.   *)
(***************************************************************************)
EXTENDS DiskController

CONSTANTS A, B, guest

MCImageWords == [i \in Image |-> IF i = A THEN 4 ELSE 3]
=============================================================================
