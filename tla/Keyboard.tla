------------------------------ MODULE Keyboard ------------------------------
(***************************************************************************)
(* The keyboard controller of libt32vm: a ring of QueueSize bytes with a   *)
(* head, a tail and a count (src/vm/libt32vm/src/t32.c).  The host types   *)
(* with t32_keyboard_push; the guest polls STATUS and consumes DATA with   *)
(* word loads; t32_reset empties the ring without touching its cells.      *)
(***************************************************************************)
EXTENDS Integers

CONSTANTS
    Byte,         \* uint8_t, as a set of naturals that holds 0
    QueueSize,    \* T32_KEYBOARD_QUEUE_SIZE
    KeyboardId    \* T32_KEYBOARD_ID

ASSUME KeyboardAssumption ==
    /\ Byte \subseteq Nat
    /\ 0 \in Byte
    /\ QueueSize \in Nat \ {0}
    /\ KeyboardId \in Nat

VARIABLES
    queue,    \* keyboard_queue
    head,     \* keyboard_head
    tail,     \* keyboard_tail
    count,    \* keyboard_count
    reply     \* the last call's result, and the word it delivered

vars == <<queue, head, tail, count, reply>>

Slots == 0 .. QueueSize - 1
Value == Byte \cup {0, 1, KeyboardId}
Accepted(v) == [ok |-> TRUE, value |-> v]
Refused == [ok |-> FALSE, value |-> 0]

\* t32_create: calloc zeroes the ring, t32_reset its indices.
Init ==
    /\ queue = [i \in Slots |-> 0]
    /\ head = 0 /\ tail = 0 /\ count = 0
    /\ reply = Accepted(0)

-----------------------------------------------------------------------------
(***************************************************************************)
(* Defects the properties must exclude.  No action uses them.              *)
(***************************************************************************)
\* A full ring drops its oldest key instead of refusing the new one.
PushOverwrites(c) ==
    /\ queue' = [queue EXCEPT ![tail] = c]
    /\ tail' = (tail + 1) % QueueSize
    /\ head' = IF count = QueueSize THEN (head + 1) % QueueSize ELSE head
    /\ count' = IF count = QueueSize THEN count ELSE count + 1
    /\ reply' = Accepted(0)

-----------------------------------------------------------------------------
(***************************************************************************)
(* The host's side.                                                        *)
(***************************************************************************)
Push(c) ==
    \/ /\ count >= QueueSize
       /\ reply' = Refused
       /\ UNCHANGED <<queue, head, tail, count>>
    \/ /\ count < QueueSize
       /\ queue' = [queue EXCEPT ![tail] = c]
       /\ tail' = (tail + 1) % QueueSize
       /\ count' = count + 1
       /\ reply' = Accepted(0)
       /\ UNCHANGED head

Reset ==
    /\ head' = 0 /\ tail' = 0 /\ count' = 0
    /\ reply' = Accepted(0)
    /\ UNCHANGED queue

-----------------------------------------------------------------------------
(***************************************************************************)
(* The bus side: an access of length bytes at an offset of the 12-byte     *)
(* register window.  Only the aligned word registers answer, and reading   *)
(* one other than DATA, or failing to read, consumes nothing.              *)
(***************************************************************************)
Offsets == 0 .. 11
Lengths == {1, 2, 4}
InWindow(offset, length) == offset + length <= 12
IsRegister(offset, length) == length = 4 /\ offset % 4 = 0

ReadId(offset, length) ==
    /\ IsRegister(offset, length) /\ offset = 0
    /\ reply' = Accepted(KeyboardId)
    /\ UNCHANGED <<queue, head, tail, count>>

ReadStatus(offset, length) ==
    /\ IsRegister(offset, length) /\ offset = 4
    /\ reply' = Accepted(IF count # 0 THEN 1 ELSE 0)
    /\ UNCHANGED <<queue, head, tail, count>>

ReadData(offset, length) ==
    /\ IsRegister(offset, length) /\ offset = 8
    /\ \/ /\ count # 0
          /\ reply' = Accepted(queue[head])
          /\ head' = (head + 1) % QueueSize
          /\ count' = count - 1
          /\ UNCHANGED <<queue, tail>>
       \/ /\ count = 0
          /\ reply' = Accepted(0)
          /\ UNCHANGED <<queue, head, tail, count>>

ReadBad(offset, length) ==
    /\ ~ IsRegister(offset, length)
    /\ reply' = Refused
    /\ UNCHANGED <<queue, head, tail, count>>

KeyboardRead(offset, length) ==
    /\ InWindow(offset, length)
    /\ \/ ReadId(offset, length)
       \/ ReadStatus(offset, length)
       \/ ReadData(offset, length)
       \/ ReadBad(offset, length)

\* t32_write_memory has no keyboard case: the access reaches the RAM check.
KeyboardWrite ==
    /\ reply' = Refused
    /\ UNCHANGED <<queue, head, tail, count>>

Next ==
    \/ \E c \in Byte : Push(c)
    \/ \E offset \in Offsets, length \in Lengths : KeyboardRead(offset, length)
    \/ KeyboardWrite
    \/ Reset

Spec == Init /\ [][Next]_vars

-----------------------------------------------------------------------------
(***************************************************************************)
(* Properties.                                                             *)
(***************************************************************************)
\* The ring's indices stay inside the array and count inside its size: no
\* sequence of pushes, reads and resets makes keyboard_queue[...] run over.
TypeOK ==
    /\ queue \in [Slots -> Byte]
    /\ head \in Slots
    /\ tail \in Slots
    /\ count \in 0 .. QueueSize
    /\ reply \in [ok : BOOLEAN, value : Value]

\* The three indices agree: tail is count places after head.  A full and an
\* empty ring both have head = tail, so count alone tells them apart, and an
\* operation that updates one of the three without the others loses keys.
RingConsistent == tail = (head + count) % QueueSize

\* The keys still to be read, oldest first.
Pending == [i \in 1 .. count |-> queue[(head + i - 1) % QueueSize]]

\* The ring is a bounded FIFO: whatever the interleaving of pushes, polls,
\* reads, failing accesses and resets, the guest receives each accepted key
\* once and in order, and a push is refused exactly when the ring is full.
Fifo == INSTANCE ByteFifo
            WITH fifo <- Pending, Capacity <- QueueSize, DeviceId <- KeyboardId
IsFifo == Fifo!Spec

=============================================================================
