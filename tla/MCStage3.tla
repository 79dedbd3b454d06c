------------------------------ MODULE MCStage3 ------------------------------
(***************************************************************************)
(* A console of three rows of seven cells under the monitor.  The commands *)
(* are h, halt, t, time, and ht, help; a line holds two characters.        *)
(*                                                                         *)
(* In other behaviours another program is the guest, one that makes every  *)
(* access to the keyboard's window, so that the ring is tried in full.     *)
(***************************************************************************)
EXTENDS Stage3, TLC

VARIABLE other    \* whether the guest is that other program

MCPrompt == <<62>>
MCBanner == <<<<66>>>>
MCHeading == <<69, 58>>
MCUnknown == <<63, 63, 63, 63>>
MCReplies == <<104, 116>> :> << <<49>>, <<50, 50>> >>
MCTime == <<116>>
MCHalt == <<104>>
MCEpochs == {-1, 0, 120}

MCInit == MonitorInit /\ other \in BOOLEAN
\* Bound: beside the monitor keys are pressed before it starts and while it
\* waits for them; its other steps do not look at the ring.
MCNext ==
    /\ UNCHANGED other
    /\ \/ /\ ~ other /\ MonitorNext
          /\ at \notin {"start", "poll", "data"} => count' <= count
       \/ other /\ Next /\ UNCHANGED guest
MCSpec == MCInit /\ [][MCNext]_<<vars, guest, other>> /\ WF_<<vars, guest>>(~ other /\ MonitorStep)
=============================================================================
