----------------------------- MODULE MemoryMap ------------------------------
(***************************************************************************)
(* The T32 address space as t32_read_memory and t32_write_memory decode it *)
(* (src/vm/libt32vm/src/t32.c): five device windows tried in a fixed order *)
(* and RAM from address zero.  An access belongs to a window when all its  *)
(* bytes do; one that straddles a window's end is nobody's and fails.      *)
(***************************************************************************)
EXTENDS Integers

CONSTANTS
    AddressSpace,     \* 2^32
    RamSize,          \* memory_size
    Base,             \* device -> the address its window starts at
    Size              \* device -> the length of its window

Devices == {"video", "disk", "keyboard", "rtc", "platform"}

\* The windows of t32.h: inside the address space, above RAM, and apart.
ASSUME MapAssumption ==
    /\ AddressSpace \in Nat
    /\ RamSize \in Nat
    /\ Base \in [Devices -> Nat]
    /\ Size \in [Devices -> Nat]
    /\ \A d \in Devices : RamSize <= Base[d] /\ Base[d] + Size[d] <= AddressSpace
    /\ \A d, e \in Devices :
          d # e => Base[d] + Size[d] <= Base[e] \/ Base[e] + Size[e] <= Base[d]

\* video_range_valid, disk_range_valid and the others compare in 64 bits.
InWindow(d, address, length) ==
    Base[d] <= address /\ address + length <= Base[d] + Size[d]

InRam(address, length) == address <= RamSize /\ length <= RamSize - address

\* The checks of t32_read_memory, in order.
ReadRegion(address, length) ==
    IF InWindow("video", address, length) THEN "video"
    ELSE IF InWindow("disk", address, length) THEN "disk"
    ELSE IF InWindow("keyboard", address, length) THEN "keyboard"
    ELSE IF InWindow("rtc", address, length) THEN "rtc"
    ELSE IF InWindow("platform", address, length) THEN "platform"
    ELSE IF InRam(address, length) THEN "ram"
    ELSE "none"

\* t32_write_memory knows no keyboard and refuses the clock.
WriteRegion(address, length) ==
    IF InWindow("video", address, length) THEN "video"
    ELSE IF InWindow("disk", address, length) THEN "disk"
    ELSE IF InWindow("rtc", address, length) THEN "none"
    ELSE IF InWindow("platform", address, length) THEN "platform"
    ELSE IF InRam(address, length) THEN "ram"
    ELSE "none"
=============================================================================
