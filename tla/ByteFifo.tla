------------------------------ MODULE ByteFifo ------------------------------
(***************************************************************************)
(* What the T32 keyboard promises its two clients, the host that types and *)
(* the guest that polls: a bounded first-in first-out queue of characters. *)
(* Every operation leaves its answer in reply, which is all a client sees. *)
(***************************************************************************)
EXTENDS Naturals, Sequences

CONSTANTS
    Byte,        \* the characters the host can type
    Capacity,    \* how many characters the queue holds
    DeviceId     \* the value of the identification register

VARIABLES fifo, reply

vars == <<fifo, reply>>

Value == Byte \cup {0, 1, DeviceId}

Accepted(v) == [ok |-> TRUE, value |-> v]
Refused == [ok |-> FALSE, value |-> 0]

Init == fifo = << >> /\ reply = Accepted(0)

Put(c) ==
    \/ /\ Len(fifo) < Capacity
       /\ fifo' = Append(fifo, c)
       /\ reply' = Accepted(0)
    \/ /\ Len(fifo) = Capacity
       /\ reply' = Refused
       /\ UNCHANGED fifo

Take ==
    \/ /\ fifo # << >>
       /\ reply' = Accepted(Head(fifo))
       /\ fifo' = Tail(fifo)
    \/ /\ fifo = << >>
       /\ reply' = Accepted(0)
       /\ UNCHANGED fifo

Poll ==
    /\ reply' = Accepted(IF fifo = << >> THEN 0 ELSE 1)
    /\ UNCHANGED fifo

Identify == reply' = Accepted(DeviceId) /\ UNCHANGED fifo

Refuse == reply' = Refused /\ UNCHANGED fifo

Clear == fifo' = << >> /\ reply' = Accepted(0)

Next ==
    \/ \E c \in Byte : Put(c)
    \/ Take \/ Poll \/ Identify \/ Refuse \/ Clear

Spec == Init /\ [][Next]_vars
=============================================================================
