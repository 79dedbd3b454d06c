------------------------------ MODULE HostView ------------------------------
(***************************************************************************)
(* What libt32vm promises the host that owns a machine: what t32.h lets it *)
(* tell of the machine, and how the guest and its own calls change that.   *)
(* The program, registers and memory of the guest are no part of it.       *)
(***************************************************************************)
CONSTANTS
    Frame,      \* what the text display may hold
    Spaces      \* the frame t32_reset leaves

VARIABLE seen

View == [state : {"STOPPED", "HALTED", "ERROR"},
         power : BOOLEAN, reset : BOOLEAN,    \* the platform requests
         typed : BOOLEAN,                     \* is a key pending?
         video : Frame, dirty : BOOLEAN]

Fresh == [state |-> "STOPPED", power |-> FALSE, reset |-> FALSE, typed |-> FALSE,
          video |-> Spaces, dirty |-> TRUE]

\* What m may have become when the guest has executed.  A machine that stopped
\* does not move.  One that goes on may draw, halt, fault and take its keys; it
\* cannot type, take a request back, or draw without marking the display.
Executed(m, g) ==
    IF m.state # "STOPPED" THEN g = m
    ELSE /\ g \in View
         /\ m.power => g.power
         /\ m.reset => g.reset
         /\ g.typed => m.typed
         /\ m.dirty \/ g.video # m.video => g.dirty

Execute == Executed(seen, seen')

PushKey == seen' = [seen EXCEPT !.typed = TRUE]
TakeDisplay == seen' = [seen EXCEPT !.dirty = FALSE]
ClearRequests == seen' = [seen EXCEPT !.power = FALSE, !.reset = FALSE]
ClearHalt == seen.state = "HALTED" /\ seen' = [seen EXCEPT !.state = "STOPPED"]
Reset == seen' = Fresh

Next == Execute \/ PushKey \/ TakeDisplay \/ ClearRequests \/ ClearHalt \/ Reset

Spec == seen = Fresh /\ [][Next]_seen
=============================================================================
