----------------------------- MODULE MCT32Disk ------------------------------
(***************************************************************************)
(* Sectors of two bytes and lengths below eight.  The host files are empty *)
(* (no byte), short (half a sector), long (one and a half) and huge, whose *)
(* length rounded up to sectors passes the modulus.  Names are typed in    *)
(* both cases.                                                             *)
(***************************************************************************)
EXTENDS T32Disk

MCHostSize == [h \in HostFile |->
    CASE h = "empty" -> 0 [] h = "short" -> 1 [] h = "long" -> 3 [] h = "huge" -> 7]
MCUpper == [n \in Name |-> IF n = "boot.bin" THEN "BOOT.BIN" ELSE n]
=============================================================================
