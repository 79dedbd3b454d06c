----------------------------- MODULE HostProofs -----------------------------
(***************************************************************************)
(* The programs that run on the host.  First t32-runx: for any paths,      *)
(* frames and order of messages, what run_vm_slice and its commands        *)
(* guarantee between two messages.  Then the driver of t32-cc: for any     *)
(* texts, any verdicts of the parser, the generator and t32-as, and any    *)
(* number of failures, kills and edits, success means a fresh output, and  *)
(* nothing is left behind.                                                 *)
(***************************************************************************)
EXTENDS Runx, T32Cc, NumberFacts, TLAPS

-----------------------------------------------------------------------------
(***************************************************************************)
(* t32-runx.                                                               *)
(***************************************************************************)
Config == [direct : BOOLEAN, program : Program \cup {NoPath},
           firmware : Firmware \cup {NoPath}, mode : {"A", "B"},
           disk : Disk \cup {NoPath}]

\* A configuration from which create_machine never gets an empty path.
Selects(c) ==
    /\ c \in Config
    /\ c.mode = "B" <=> c.firmware # NoPath
    /\ c.direct => c.program # NoPath

\* A machine that has executed nothing yet.
New(m) ==
    /\ m \in Machine /\ m.state = "STOPPED" /\ ~ m.stepped
    /\ ~ m.power /\ ~ m.reset /\ m.dirty

\* The types, the configuration, and the user's choice in it.
RunxTyped ==
    /\ machine \in Machine \cup {NoMachine}
    /\ running \in BOOLEAN /\ poweredOff \in BOOLEAN
    /\ complete \in BOOLEAN /\ invalid \in BOOLEAN
    /\ Selects(config) /\ chosen = Selected(config)

\* What off means: nothing runs, and a machine that stopped by itself is off
\* until it is built anew, so that Start never resumes it.
OffIsOff ==
    /\ poweredOff => ~ running
    /\ machine # NoMachine /\ machine.state # "STOPPED" => poweredOff

\* A display that was never taken is still to be.
FirstFrameDue == machine # NoMachine /\ ~ machine.stepped => machine.dirty

\* The inductive invariant.
RunxIInv ==
    /\ RunxTyped /\ OffIsOff /\ FirstFrameDue
    /\ NoUnservedRequest /\ BuiltAsChosen /\ WindowFollowsDisplay

-----------------------------------------------------------------------------
(***************************************************************************)
(* create_machine.                                                         *)
(***************************************************************************)
\* What is selected is an image.
LEMMA SelectedImage ==
    ASSUME NEW c, Selects(c)
    PROVE  Selected(c) \in Image
BY DEF Selects, Config, Selected, Image, Embedded

\* What t32_create makes, with the image and the disk it is given.
LEMMA BlankIsNew ==
    ASSUME NEW i \in Image, NEW d \in Disk \cup {NoPath}
    PROVE  /\ New(Blank) /\ New([Blank EXCEPT !.image = i])
           /\ New([[Blank EXCEPT !.image = i] EXCEPT !.medium = d])
           /\ [[Blank EXCEPT !.image = i] EXCEPT !.medium = d].image = i
           /\ [[Blank EXCEPT !.image = i] EXCEPT !.medium = d].medium = d
<1>1. Blank \in Machine
  BY RunxAssumption DEF Blank, Machine, Image
<1>2. [Blank EXCEPT !.image = i] \in Machine
  BY <1>1 DEF Machine
<1>3. [[Blank EXCEPT !.image = i] EXCEPT !.medium = d] \in Machine
  BY <1>2 DEF Machine
<1> QED BY <1>1, <1>2, <1>3 DEF New, Blank

\* However create_machine ends, it leaves no machine or a new one; when it
\* succeeds, the one that was configured.
LEMMA CreationsNew ==
    ASSUME NEW c, Selects(c), NEW o \in Creations(c)
    PROVE  /\ o.ok \in BOOLEAN
           /\ o.machine = NoMachine \/ New(o.machine)
           /\ o.ok => /\ New(o.machine) /\ o.machine.image = Selected(c)
                      /\ o.machine.medium = c.disk
<1>1. Selected(c) \in Image /\ c.disk \in Disk \cup {NoPath}
  BY SelectedImage DEF Selects, Config
<1> DEFINE loaded == [Blank EXCEPT !.image = Selected(c)]
           configured == [loaded EXCEPT !.medium = c.disk]
<1>2. /\ New(Blank) /\ New(loaded) /\ New(configured)
      /\ configured.image = Selected(c) /\ configured.medium = c.disk
  BY <1>1, BlankIsNew
<1>3. \/ o.ok = FALSE /\ o.machine \in {NoMachine, Blank, loaded}
      \/ o.ok = TRUE /\ o.machine = configured
  <2>1. o \in {[ok |-> FALSE, machine |-> NoMachine]}
             \cup {[ok |-> FALSE, machine |-> Blank] : i \in {Selected(c)} \ {Embedded}}
             \cup {[ok |-> FALSE, machine |-> loaded] : d \in {c.disk} \ {NoPath}}
             \cup {[ok |-> TRUE, machine |-> configured]}
    BY Zenon DEF Creations
  <2> HIDE DEF loaded, configured
  <2>2. CASE o \in {[ok |-> FALSE, machine |-> NoMachine]}
    BY <2>2
  <2>3. CASE o \in {[ok |-> FALSE, machine |-> Blank] : i \in {Selected(c)} \ {Embedded}}
    BY <2>3
  <2>4. CASE o \in {[ok |-> FALSE, machine |-> loaded] : d \in {c.disk} \ {NoPath}}
    BY <2>4
  <2>5. CASE o \in {[ok |-> TRUE, machine |-> configured]}
    BY <2>5
  <2> QED BY <2>1, <2>2, <2>3, <2>4, <2>5
<1> HIDE DEF loaded, configured
<1> QED BY <1>2, <1>3

\* Whoever calls create_machine, the invariant holds of the machine it
\* leaves, if the choice and the window go along.
LEMMA CreateIInv ==
    ASSUME RunxIInv, NEW c, Selects(c), NEW o, NEW runs \in BOOLEAN,
           Create(c, o, runs), chosen' = Selected(c), invalid' \in BOOLEAN
    PROVE  /\ RunxIInv'
           /\ running' \/ ~ poweredOff' => ~ poweredOff \/ (complete' /\ New(machine'))
<1>1. /\ o \in Creations(c) /\ machine' = o.machine /\ complete' = o.ok /\ config' = c
      /\ running' = IF o.ok THEN runs ELSE running
      /\ poweredOff' = (poweredOff /\ ~o.ok)
  BY DEF Create
<1>2. /\ o.ok \in BOOLEAN
      /\ machine' = NoMachine \/ New(machine')
      /\ o.ok => /\ New(machine') /\ machine'.image = Selected(c)
                 /\ machine'.medium = c.disk
  BY <1>1, CreationsNew
<1>3. RunxTyped'
  BY <1>1, <1>2 DEF RunxIInv, RunxTyped, New, Selects, Selected
<1>4. OffIsOff' /\ FirstFrameDue' /\ NoUnservedRequest' /\ WindowFollowsDisplay'
  BY <1>1, <1>2 DEF RunxIInv, RunxTyped, OffIsOff, FirstFrameDue, NoUnservedRequest,
     WindowFollowsDisplay, New
<1>5. BuiltAsChosen'
  BY <1>1, <1>2, RunxAssumption DEF BuiltAsChosen, New, Selects
<1> QED BY <1>1, <1>2, <1>3, <1>4, <1>5 DEF RunxIInv, RunxTyped, OffIsOff
-----------------------------------------------------------------------------
(***************************************************************************)
(* The messages.  Each leaves the invariant, and turns nothing on that was *)
(* off but a machine that is new.                                          *)
(***************************************************************************)
Fresh ==
    poweredOff /\ (running' \/ ~ poweredOff') =>
        complete' /\ machine' # NoMachine /\ ~ machine'.stepped

\* A message that builds a machine.
LEMMA BuildingIInv ==
    ASSUME RunxIInv, NEW c, Selects(c), NEW o, NEW runs \in BOOLEAN,
           Create(c, o, runs), chosen' = Selected(c), invalid' \in BOOLEAN
    PROVE  RunxIInv' /\ Fresh
BY CreateIInv, RunxAssumption DEF Fresh, New

\* Start.
LEMMA StartIInv ==
    ASSUME RunxIInv, MachineStart
    PROVE  RunxIInv' /\ Fresh
<1>1. CASE /\ machine # NoMachine /\ ~ poweredOff /\ running'
           /\ UNCHANGED <<machine, config, complete, poweredOff, window, chosen>>
  BY <1>1 DEF window, RunxIInv, RunxTyped, OffIsOff, FirstFrameDue, NoUnservedRequest,
     BuiltAsChosen, WindowFollowsDisplay, Fresh
<1>2. CASE \E o \in Creations(config) : Create(config, o, TRUE) /\ UNCHANGED <<window, chosen>>
  BY <1>2, BuildingIInv DEF window, RunxIInv, RunxTyped
<1> QED BY <1>1, <1>2 DEF MachineStart

\* Clearing the requests of a machine changes nothing else.
LEMMA ClearedRequests ==
    ASSUME NEW m \in Machine
    PROVE  /\ ClearRequests(m) \in Machine /\ ClearRequests(m) # NoMachine
           /\ ~ ClearRequests(m).power /\ ~ ClearRequests(m).reset
           /\ ClearRequests(m).image = m.image /\ ClearRequests(m).medium = m.medium
           /\ ClearRequests(m).state = m.state /\ ClearRequests(m).video = m.video
           /\ ClearRequests(m).stepped = m.stepped /\ ClearRequests(m).dirty = m.dirty
<1>1. m # NoMachine
  BY RunxAssumption
<1>2. [m EXCEPT !.power = FALSE, !.reset = FALSE] \in Machine
  BY DEF Machine
<1> QED BY <1>1, <1>2, RunxAssumption DEF ClearRequests, Machine

\* Stop.
LEMMA StopIInv ==
    ASSUME RunxIInv, MachineStop
    PROVE  RunxIInv' /\ Fresh
<1>1. /\ machine' = ClearRequests(machine) /\ ~ running' /\ running' \in BOOLEAN
      /\ poweredOff' /\ poweredOff' \in BOOLEAN
      /\ UNCHANGED <<config, window, complete, chosen>>
  BY DEF MachineStop
<1>2. CASE machine = NoMachine
  BY <1>1, <1>2 DEF ClearRequests, window, RunxIInv, RunxTyped, OffIsOff, FirstFrameDue,
     NoUnservedRequest, BuiltAsChosen, WindowFollowsDisplay, Fresh
<1>3. CASE machine # NoMachine
  BY <1>1, <1>3, ClearedRequests DEF window, RunxIInv, RunxTyped, OffIsOff,
     FirstFrameDue, NoUnservedRequest, BuiltAsChosen, WindowFollowsDisplay, Fresh
<1> QED BY <1>2, <1>3

\* Reset, by the menu or by the guest.
LEMMA RestartIInv ==
    ASSUME RunxIInv, NEW repaint \in BOOLEAN, Restart(repaint)
    PROVE  RunxIInv' /\ Fresh
<1>1. PICK o \in Creations(config) :
         Create(config, o, TRUE) /\ invalid' = (repaint \/ o.ok)
  BY DEF Restart
<1>2. o.ok \in BOOLEAN /\ chosen' = chosen
  BY <1>1, CreationsNew DEF Restart, RunxIInv, RunxTyped
<1> QED BY <1>1, <1>2, BuildingIInv DEF RunxIInv, RunxTyped

\* The choice of a firmware or of a program.
LEMMA ChoiceIInv ==
    ASSUME RunxIInv,
           \/ \E f \in Firmware : SelectFirmware(f)
           \/ UseEmbeddedFirmware
           \/ \E p \in Program : LoadProgram(p)
    PROVE  RunxIInv' /\ Fresh
<1>1. config \in Config /\ Selects(config) /\ invalid \in BOOLEAN
  BY DEF RunxIInv, RunxTyped, Selects
<1>2. ASSUME NEW f \in Firmware, SelectFirmware(f) PROVE RunxIInv' /\ Fresh
  <2> DEFINE c == [config EXCEPT !.firmware = f, !.mode = "B", !.direct = FALSE]
  <2>1. Selects(c) /\ Selected(c) = <<"firmware", f>>
    BY <1>1, RunxAssumption DEF Selects, Selected, Config
  <2>2. PICK o : Create(c, o, FALSE)
    BY <1>2 DEF SelectFirmware
  <2> HIDE DEF c
  <2>3. chosen' = <<"firmware", f>> /\ invalid' \in BOOLEAN
    BY <1>2 DEF SelectFirmware, Invalidate
  <2> QED BY <2>1, <2>2, <2>3, BuildingIInv
<1>3. CASE UseEmbeddedFirmware
  <2> DEFINE c == [config EXCEPT !.firmware = NoPath, !.mode = "A", !.direct = FALSE]
  <2>1. Selects(c) /\ Selected(c) = Embedded
    BY <1>1 DEF Selects, Selected, Config
  <2>2. PICK o \in Creations(c) : Create(c, o, FALSE) /\ Invalidate(o.ok)
    BY <1>3 DEF UseEmbeddedFirmware
  <2> HIDE DEF c
  <2>3. chosen' = Embedded /\ invalid' \in BOOLEAN
    BY <1>1, <1>3, <2>1, <2>2, CreationsNew DEF UseEmbeddedFirmware, Invalidate
  <2> QED BY <2>1, <2>2, <2>3, BuildingIInv
<1>4. ASSUME NEW p \in Program, LoadProgram(p) PROVE RunxIInv' /\ Fresh
  <2> DEFINE c == [config EXCEPT !.program = p, !.direct = TRUE]
  <2>1. Selects(c) /\ Selected(c) = <<"program", p>>
    BY <1>1, RunxAssumption DEF Selects, Selected, Config
  <2>2. PICK o \in Creations(c) : Create(c, o, FALSE) /\ Invalidate(o.ok)
    BY <1>4 DEF LoadProgram
  <2> HIDE DEF c
  <2>3. chosen' = <<"program", p>> /\ invalid' \in BOOLEAN
    BY <1>1, <1>4, <2>1, <2>2, CreationsNew DEF LoadProgram, Invalidate
  <2> QED BY <2>1, <2>2, <2>3, BuildingIInv
<1> QED BY <1>2, <1>3, <1>4

\* What is done to the disk of a machine, and to its keys, does not show.
LEMMA TouchedMachine ==
    ASSUME NEW m \in Machine, NEW d \in Disk \cup {NoPath}
    PROVE  /\ [m EXCEPT !.medium = d] \in Machine
           /\ [m EXCEPT !.typed = TRUE] \in Machine
BY DEF Machine

\* A machine whose disk is swapped, with the configuration that names it.
LEMMA SwapKeeps ==
    ASSUME NEW m \in Machine, Selects(config), NEW d \in Disk,
           Swap(m, [config EXCEPT !.disk = d])
    PROVE  /\ machine' \in Machine /\ machine' # NoMachine
           /\ \E x \in Disk \cup {NoPath} : machine' = [m EXCEPT !.medium = x]
           /\ machine'.medium = config'.disk
           /\ \A f \in {"image", "state", "stepped", "power", "reset", "video", "dirty"} :
                  machine'[f] = m[f]
           /\ Selects(config') /\ Selected(config') = Selected(config)
<1> DEFINE c == [config EXCEPT !.disk = d]
<1>1. PICK x \in Disk \cup {NoPath} :
         machine' = [m EXCEPT !.medium = x] /\ config' = [config EXCEPT !.disk = x]
  <2>1. CASE machine' = [m EXCEPT !.medium = c.disk] /\ config' = c
    BY <2>1 DEF Selects, Config
  <2>2. CASE /\ machine' = [m EXCEPT !.medium = NoPath]
             /\ config' = [c EXCEPT !.disk = NoPath]
    BY <2>2 DEF Selects, Config
  <2> QED BY <2>1, <2>2 DEF Swap
<1>2. Selects(config') /\ Selected(config') = Selected(config) /\ config'.disk = x
  BY <1>1 DEF Selects, Selected, Config
<1>3. machine' \in Machine
  BY <1>1, TouchedMachine
<1>4. /\ machine'.medium = x
      /\ machine'.image = m.image /\ machine'.state = m.state
      /\ machine'.stepped = m.stepped /\ machine'.power = m.power
      /\ machine'.reset = m.reset /\ machine'.video = m.video
      /\ machine'.dirty = m.dirty
  BY <1>1 DEF Machine
<1>5. machine' # NoMachine
  BY <1>3, RunxAssumption
<1> QED BY <1>1, <1>2, <1>3, <1>4, <1>5

\* A disk is attached, to a machine there is or to one built for it.
LEMMA AttachIInv ==
    ASSUME RunxIInv, NEW d \in Disk, AttachDisk0(d)
    PROVE  RunxIInv' /\ Fresh
<1> DEFINE c == [config EXCEPT !.disk = d]
<1>1. Selects(config) /\ chosen = Selected(config) /\ UNCHANGED <<window, chosen>>
  BY DEF AttachDisk0, RunxIInv, RunxTyped
<1>2. Selects(c) /\ Selected(c) = Selected(config)
  BY <1>1 DEF Selects, Selected, Config
<1>3. CASE machine # NoMachine /\ Swap(machine, c)
           /\ UNCHANGED <<running, poweredOff, complete>>
  <2>1. machine \in Machine
    BY <1>3 DEF RunxIInv, RunxTyped
  <2>2. /\ machine' \in Machine /\ machine' # NoMachine
        /\ machine'.medium = config'.disk /\ machine'.image = machine.image
        /\ machine'.state = machine.state /\ machine'.stepped = machine.stepped
        /\ machine'.power = machine.power /\ machine'.reset = machine.reset
        /\ machine'.video = machine.video /\ machine'.dirty = machine.dirty
        /\ Selects(config') /\ Selected(config') = Selected(config)
    BY <1>1, <1>3, <2>1, SwapKeeps
  <2> HIDE DEF c
  <2> QED
    BY <1>1, <1>3, <2>1, <2>2 DEF window, RunxIInv, RunxTyped, OffIsOff, FirstFrameDue,
       NoUnservedRequest, BuiltAsChosen, WindowFollowsDisplay, Fresh, Selects
<1>4. ASSUME NEW o \in Creations(c), ~ o.ok, Create(c, o, FALSE) PROVE RunxIInv' /\ Fresh
  <2> HIDE DEF c
  <2>1. chosen' = Selected(c) /\ invalid' \in BOOLEAN
    BY <1>1, <1>2 DEF window, RunxIInv, RunxTyped
  <2> QED BY <1>2, <1>4, <2>1, BuildingIInv
<1>5. ASSUME NEW o \in Creations(c), o.ok, Swap(o.machine, c), complete' = TRUE,
             running' = FALSE, poweredOff' = FALSE
      PROVE  RunxIInv' /\ Fresh
  <2>1. New(o.machine) /\ o.machine.image = chosen
    BY <1>1, <1>2, <1>5, CreationsNew
  <2>2. /\ machine' \in Machine /\ machine' # NoMachine
        /\ machine'.medium = config'.disk /\ machine'.image = chosen
        /\ New(machine')
        /\ Selects(config') /\ Selected(config') = Selected(config)
    BY <1>1, <1>5, <2>1, SwapKeeps DEF New
  <2> HIDE DEF c
  <2> QED
    BY <1>1, <1>5, <2>1, <2>2 DEF window, RunxIInv, RunxTyped, OffIsOff, FirstFrameDue,
       NoUnservedRequest, BuiltAsChosen, WindowFollowsDisplay, Fresh, New, Selects
<1> QED BY <1>3, <1>4, <1>5 DEF AttachDisk0

\* Its disk is detached.
LEMMA DetachIInv ==
    ASSUME RunxIInv, DetachDisk0
    PROVE  RunxIInv' /\ Fresh
<1>1. Selects(config) /\ chosen = Selected(config) /\ UNCHANGED <<host, window, complete, chosen>>
  BY DEF DetachDisk0, RunxIInv, RunxTyped
<1>2. /\ Selects(config') /\ Selected(config') = Selected(config)
      /\ config'.disk = NoPath
  BY <1>1 DEF DetachDisk0, Selects, Selected, Config
<1>3. CASE machine = NoMachine
  BY <1>1, <1>2, <1>3 DEF DetachDisk0, host, window, RunxIInv, RunxTyped, OffIsOff,
     FirstFrameDue, NoUnservedRequest, BuiltAsChosen, WindowFollowsDisplay, Fresh, Selects
<1>4. CASE machine # NoMachine
  <2>1. machine \in Machine /\ machine' = [machine EXCEPT !.medium = NoPath]
    BY <1>4 DEF DetachDisk0, RunxIInv, RunxTyped
  <2>2. machine' \in Machine /\ machine' # NoMachine
    BY <2>1, TouchedMachine, RunxAssumption
  <2>3. /\ machine'.medium = NoPath /\ machine'.image = machine.image
        /\ machine'.state = machine.state /\ machine'.stepped = machine.stepped
        /\ machine'.power = machine.power /\ machine'.reset = machine.reset
        /\ machine'.video = machine.video /\ machine'.dirty = machine.dirty
    BY <2>1 DEF Machine
  <2> QED BY <1>1, <1>2, <1>4, <2>1, <2>2, <2>3 DEF host, window, RunxIInv, RunxTyped, OffIsOff,
     FirstFrameDue, NoUnservedRequest, BuiltAsChosen, WindowFollowsDisplay, Fresh, Selects
<1> QED BY <1>3, <1>4

\* A key.
LEMMA CharIInv ==
    ASSUME RunxIInv, Char
    PROVE  RunxIInv' /\ Fresh
<1>1. /\ machine \in Machine /\ machine # NoMachine
      /\ machine' = [machine EXCEPT !.typed = TRUE]
      /\ UNCHANGED <<config, host, window, complete, chosen>>
  BY DEF Char, RunxIInv, RunxTyped
<1>2. machine' \in Machine /\ machine' # NoMachine
  BY <1>1, TouchedMachine, RunxAssumption
<1>3. /\ machine'.medium = machine.medium /\ machine'.image = machine.image
      /\ machine'.state = machine.state /\ machine'.stepped = machine.stepped
      /\ machine'.power = machine.power /\ machine'.reset = machine.reset
      /\ machine'.video = machine.video /\ machine'.dirty = machine.dirty
  BY <1>1 DEF Machine
<1> QED BY <1>1, <1>2, <1>3 DEF host, window, RunxIInv, RunxTyped, OffIsOff, FirstFrameDue,
     NoUnservedRequest, BuiltAsChosen, WindowFollowsDisplay, Fresh, Selected

\* Doing nothing is one way to execute, and to execute twice is another.
LEMMA ExecutedComposes ==
    ASSUME NEW a \in Guest!View, NEW b \in Guest!View, NEW c \in Guest!View
    PROVE  /\ Guest!Executed(a, a)
           /\ Guest!Executed(a, b) /\ Guest!Executed(b, c) => Guest!Executed(a, c)
<1>1. Guest!Executed(a, a)
  BY DEF Guest!Executed, Guest!View
<1>2. ASSUME Guest!Executed(a, b), Guest!Executed(b, c) PROVE Guest!Executed(a, c)
  <2>1. CASE a.state # "STOPPED" \/ b.state # "STOPPED"
    BY <1>2, <2>1 DEF Guest!Executed
  <2>2. CASE a.state = "STOPPED" /\ b.state = "STOPPED"
    <3>1. /\ a.power => b.power
          /\ a.reset => b.reset
          /\ b.typed => a.typed
          /\ a.dirty \/ b.video # a.video => b.dirty
      BY <1>2, <2>2 DEF Guest!Executed
    <3>2. /\ c \in Guest!View
          /\ b.power => c.power
          /\ b.reset => c.reset
          /\ c.typed => b.typed
          /\ b.dirty \/ c.video # b.video => c.dirty
      BY <1>2, <2>2 DEF Guest!Executed
    <3> QED BY <2>2, <3>1, <3>2 DEF Guest!Executed
  <2> QED BY <2>1, <2>2
<1> QED BY <1>1, <1>2

\* run_vm_slice calls t32_step as often as T32_RUNX_SLICE_INSTRUCTIONS says,
\* or until the machine stops, and the model takes one step.  It may: what any
\* number of steps leaves, one Executed of HostView allows.  The machine's
\* theorem MachineIsWhatTheHostSees shows it of each of them.
THEOREM StepsMakeASlice ==
    ASSUME NEW n \in Nat, NEW views \in [0 .. n -> Guest!View],
           \A i \in 0 .. n - 1 : Guest!Executed(views[i], views[i + 1])
    PROVE  Guest!Executed(views[0], views[n])
<1> DEFINE Missed == {i \in 0 .. n : ~ Guest!Executed(views[0], views[i])}
<1> SUFFICES ASSUME Missed # {} PROVE FALSE
  OBVIOUS
<1>1. PICK i \in Missed : \A j \in Missed : i <= j
  <2>1. Missed \subseteq Nat
    OBVIOUS
  <2> HIDE DEF Missed
  <2> QED BY <2>1, LeastNumber
<1>2. i \in 0 .. n /\ ~ Guest!Executed(views[0], views[i])
  BY <1>1
<1>3. i # 0
  BY <1>2, ExecutedComposes
<1>4. i - 1 \in 0 .. n - 1 /\ i - 1 \in 0 .. n /\ (i - 1) + 1 = i
  BY <1>2, <1>3
<1>5. Guest!Executed(views[0], views[i - 1])
  BY <1>1, <1>4
<1>6. Guest!Executed(views[i - 1], views[i])
  BY <1>4
<1>7. 0 \in 0 .. n
  OBVIOUS
<1> HIDE DEF Missed
<1> QED BY <1>2, <1>4, <1>5, <1>6, <1>7, ExecutedComposes

\* A slice of guest instructions keeps the image and the disk, and no change
\* of the display goes unmarked.
LEMMA SliceKeeps ==
    ASSUME NEW m \in Machine, NEW g \in Slice(m)
    PROVE  /\ g \in Machine /\ g.image = m.image /\ g.medium = m.medium /\ g.stepped
           /\ m.dirty \/ g.video # m.video => g.dirty
<1>1. CASE m.image = <<"blank">>
  <2>1. g = [m EXCEPT !.stepped = TRUE, !.state = "HALTED"]
    BY <1>1 DEF Slice
  <2> QED BY <2>1 DEF Machine
<1>2. CASE m.image # <<"blank">>
  <2>1. /\ g \in Machine /\ g.image = m.image /\ g.medium = m.medium /\ g.stepped
        /\ Guest!Executed(Seen(m), Seen(g))
    BY <1>2 DEF Slice
  <2>2. /\ Seen(m).state = m.state /\ Seen(m).video = m.video /\ Seen(m).dirty = m.dirty
        /\ Seen(g).video = g.video /\ Seen(g).dirty = g.dirty
    BY DEF Seen
  <2>3. m.dirty \/ g.video # m.video => g.dirty
    BY <2>1, <2>2 DEF Guest!Executed
  <2> QED BY <2>1, <2>3
<1> QED BY <1>1, <1>2

\* A timer message: the slice, the frame it left, and the way it ended.
LEMMA SliceIInv ==
    ASSUME RunxIInv, RunVmSlice
    PROVE  RunxIInv' /\ Fresh
<1>1. PICK g \in Slice(machine) :
         EndSlice([g EXCEPT !.dirty = FALSE], invalid \/ g.dirty)
  BY DEF RunVmSlice
<1> DEFINE m == [g EXCEPT !.dirty = FALSE]
           repaint == invalid \/ g.dirty
<1>2. /\ machine \in Machine /\ machine # NoMachine /\ running /\ ~ poweredOff
      /\ machine.dirty \in BOOLEAN
  BY DEF RunVmSlice, RunxIInv, RunxTyped, OffIsOff, Machine
<1>3. /\ g \in Machine /\ g.image = machine.image /\ g.medium = machine.medium
      /\ g.stepped /\ (machine.dirty \/ g.video # machine.video => g.dirty)
  BY <1>1, <1>2, SliceKeeps
<1>4. /\ m \in Machine /\ m # NoMachine /\ m.image = machine.image
      /\ m.medium = machine.medium /\ m.stepped /\ m.video = g.video
      /\ m.state \in {"STOPPED", "HALTED", "ERROR"}
      /\ m.power \in BOOLEAN /\ m.reset \in BOOLEAN
  BY <1>3, RunxAssumption DEF Machine
<1>5. repaint \in BOOLEAN /\ (screen = m.video \/ repaint)
  BY <1>2, <1>3, <1>4 DEF RunxIInv, RunxTyped, FirstFrameDue, WindowFollowsDisplay, Machine
<1>6. EndSlice(m, repaint)
  BY <1>1
<1> HIDE DEF m, repaint
<1>7. CASE m.power /\ GuestPowerOff(m) /\ invalid' = repaint
  <2>1. /\ machine' = ClearRequests(m) /\ ~ running' /\ running' \in BOOLEAN
        /\ poweredOff' /\ poweredOff' \in BOOLEAN
        /\ UNCHANGED <<config, complete, chosen, screen>>
    BY <1>7 DEF GuestPowerOff
  <2> QED BY <1>2, <1>4, <1>5, <1>7, <2>1, ClearedRequests DEF RunxIInv, RunxTyped, OffIsOff,
     FirstFrameDue, NoUnservedRequest, BuiltAsChosen, WindowFollowsDisplay, Fresh
<1>8. CASE ~ m.power /\ m.reset /\ Restart(repaint)
  BY <1>5, <1>8, RestartIInv
<1>9. CASE /\ ~ m.power /\ ~ m.reset /\ machine' = m
           /\ running' = ~ Finished(m)
           /\ poweredOff' = (poweredOff \/ Finished(m))
           /\ invalid' = repaint /\ UNCHANGED <<config, complete, chosen, screen>>
  BY <1>2, <1>4, <1>5, <1>9 DEF Finished, RunxIInv, RunxTyped, OffIsOff, FirstFrameDue,
     NoUnservedRequest, BuiltAsChosen, WindowFollowsDisplay, Fresh
<1> QED BY <1>6, <1>7, <1>8, <1>9 DEF EndSlice

\* A repaint.
LEMMA PaintIInv ==
    ASSUME RunxIInv, Paint
    PROVE  RunxIInv' /\ Fresh
BY DEF Paint, host, RunxIInv, RunxTyped, OffIsOff, FirstFrameDue, NoUnservedRequest,
   BuiltAsChosen, WindowFollowsDisplay, Fresh

\* main leaves the invariant.
LEMMA InitIInv == Init => RunxIInv
<1> SUFFICES ASSUME Init PROVE RunxIInv
  OBVIOUS
<1>1. PICK f \in Firmware \cup {NoPath}, d \in Disk \cup {NoPath} :
         LET c == [direct |-> FALSE, program |-> NoPath, firmware |-> f,
                   mode |-> IF f = NoPath THEN "A" ELSE "B", disk |-> d]
         IN  \E o \in Creations(c) :
                 /\ config = c /\ machine = o.machine /\ complete = o.ok
                 /\ chosen = Selected(c)
  BY DEF Init
<1>2. Selects(config)
  BY <1>1 DEF Selects, Config
<1>3. PICK o \in Creations(config) :
         machine = o.machine /\ complete = o.ok /\ chosen = Selected(config)
  BY <1>1
<1>4. /\ running = FALSE /\ poweredOff = FALSE /\ invalid = TRUE
  BY DEF Init
<1>5. /\ o.ok \in BOOLEAN
      /\ machine = NoMachine \/ New(machine)
      /\ complete => /\ New(machine) /\ machine.image = chosen
                     /\ machine.medium = config.disk
  BY <1>2, <1>3, CreationsNew
<1> QED BY <1>2, <1>3, <1>4, <1>5, RunxAssumption DEF RunxIInv, RunxTyped, OffIsOff, FirstFrameDue,
     NoUnservedRequest, BuiltAsChosen, WindowFollowsDisplay, New, Selects

\* Every message.
LEMMA NextIInv == RunxIInv /\ [Next]_vars => RunxIInv' /\ (Fresh \/ UNCHANGED vars)
<1> SUFFICES ASSUME RunxIInv, [Next]_vars PROVE RunxIInv' /\ (Fresh \/ UNCHANGED vars)
  OBVIOUS
<1>1. CASE MachineStart BY <1>1, StartIInv
<1>2. CASE MachineStop BY <1>2, StopIInv
<1>3. CASE MachineReset
  BY <1>3, RestartIInv DEF MachineReset, RunxIInv, RunxTyped
<1>4. CASE \/ \E f \in Firmware : SelectFirmware(f)
           \/ UseEmbeddedFirmware
           \/ \E p \in Program : LoadProgram(p)
  BY <1>4, ChoiceIInv
<1>5. CASE \E d \in Disk : AttachDisk0(d) BY <1>5, AttachIInv
<1>6. CASE DetachDisk0 BY <1>6, DetachIInv
<1>7. CASE Char BY <1>7, CharIInv
<1>8. CASE RunVmSlice BY <1>8, SliceIInv
<1>9. CASE Paint BY <1>9, PaintIInv
<1>10. CASE UNCHANGED vars
  BY <1>10 DEF vars, host, window, RunxIInv, RunxTyped, OffIsOff, FirstFrameDue,
     NoUnservedRequest, BuiltAsChosen, WindowFollowsDisplay
<1> QED BY <1>1, <1>2, <1>3, <1>4, <1>5, <1>6, <1>7, <1>8, <1>9, <1>10 DEF Next

-----------------------------------------------------------------------------
\* The inductive invariant holds between any two messages.
THEOREM HostInvariant == Spec => []RunxIInv
<1>1. RunxIInv /\ [Next]_vars => RunxIInv'
  BY NextIInv
<1> QED BY InitIInv, <1>1, PTL DEF Spec

\* No request of the guest outlives the message that raised it, and nothing
\* halted or faulted counts as running.
THEOREM RequestsAreServed == Spec => []NoUnservedRequest
<1>1. RunxIInv => NoUnservedRequest
  BY DEF RunxIInv
<1> QED BY HostInvariant, <1>1, PTL

\* A machine create_machine finished holds what the user last chose.
THEOREM ChoicesAreKept == Spec => []BuiltAsChosen
<1>1. RunxIInv => BuiltAsChosen
  BY DEF RunxIInv
<1> QED BY HostInvariant, <1>1, PTL

\* The window shows the display of a machine that has executed, or will.
THEOREM DisplayIsFollowed == Spec => []WindowFollowsDisplay
<1>1. RunxIInv => WindowFollowsDisplay
  BY DEF RunxIInv
<1> QED BY HostInvariant, <1>1, PTL

\* Nothing but a machine built anew runs again after it was off.
THEOREM OffIsFinal == Spec => FreshAfterOff
<1>1. RunxIInv /\ [Next]_vars =>
        [poweredOff /\ (running' \/ ~poweredOff') =>
            complete' /\ machine' # NoMachine /\ ~machine'.stepped]_vars
  BY NextIInv DEF Fresh
<1> QED BY HostInvariant, <1>1, PTL DEF Spec, FreshAfterOff

-----------------------------------------------------------------------------
(***************************************************************************)
(* The driver of t32-cc.                                                   *)
(***************************************************************************)
Places == Temporaries \cup {"output"}
Text == Sources \cup {"none"}
Content == [stage : {"none", "assembly", "object", "binary"}, of : Text,
            whole : BOOLEAN]
Job == [mode : Modes \cup {"none"}, text : Text, success : BOOLEAN,
        fault : {"none", "noticed", "unnoticed"}, before : Content]
DriverSteps == {"idle", "read", "parse", "create", "emit", "assemble", "link",
          "give up", "done"}

\* The type of the driver's state.
DriverTypeOK ==
    /\ source \in Sources
    /\ files \in [Places -> Content]
    /\ job \in Job
    /\ step \in DriverSteps
    /\ exit \in {"none", "success", "failure", "killed"}
    /\ killed \in BOOLEAN

\* Where success can have been set, and when an exit status stands.
Progress ==
    /\ step # "idle" => exit = "none" /\ job.mode \in Modes
    /\ step \notin {"idle", "done"} => ~ job.success
    /\ exit = "success" => job.success /\ job.mode \in Modes
    /\ step = "assemble" => job.mode \in {"object", "link"}
    /\ step = "link" => job.mode = "link"

\* What a step takes from an earlier one was made by this invocation from
\* the text it read.
FromThisText(path, stage) ==
    /\ files[path].stage = stage /\ files[path].of = job.text
    /\ files[path].whole \/ job.fault = "unnoticed"

Freshness ==
    /\ step \in {"read", "parse"} => files["output"] = job.before
    /\ step = "emit" => files[AssemblyPath] = Holding("assembly", job.text, FALSE)
    /\ step = "assemble" => FromThisText("assembly", "assembly")
    /\ step = "link" => FromThisText("object", "object")
    /\ job.success /\ (step = "done" \/ exit = "success") =>
          FromThisText("output", Product[job.mode])
    /\ exit = "failure" => files["output"] \in {NoFile, job.before}

\* Until a kill, a temporary exists only from the step that makes it to the
\* cleaning up that removes it.
Tidiness ==
    /\ ~ killed =>
          /\ step \in {"idle", "read", "parse", "create"} =>
                files["assembly"] = NoFile /\ files["object"] = NoFile
          /\ step \in {"emit", "assemble", "give up"} => files["object"] = NoFile
          /\ step = "done" /\ job.mode # "link" => files["object"] = NoFile
          /\ step # "idle" /\ job.mode = "assembly" => files["assembly"] = NoFile
    /\ exit = "success" /\ job.mode = "link" =>
          files["assembly"] = NoFile /\ files["object"] = NoFile

\* The inductive invariant: the two properties speak of an invocation that
\* has ended; the rest says how each step prepares them.
DriverIInv == DriverTypeOK /\ Progress /\ Freshness /\ Tidiness
-----------------------------------------------------------------------------
\* The paths that main writes are the output's and the temporaries', and what
\* it writes there is content.
LEMMA Paths ==
    /\ Places = {"assembly", "object", "output"}
    /\ AssemblyPath \in Places /\ ObjectPath \in Places
    /\ NoFile \in Content
    /\ \A stage \in {"assembly", "object", "binary"}, of \in Text, whole \in BOOLEAN :
          Holding(stage, of, whole) \in Content
BY DEF AssemblyPath, ObjectPath, Places, Temporaries, NoFile, Content, Text,
       Holding

\* A text is a text, and a file's content says of which.
LEMMA Texts ==
    /\ Sources \subseteq Text /\ "none" \in Text
    /\ \A c \in Content : c.of \in Text /\ c.whole \in BOOLEAN
BY DEF Text, Content

\* Leaving a content at one path changes no other.
LEMMA LeavesOne ==
    ASSUME DriverTypeOK, NEW p \in Places, NEW c \in Content, Leaves(p, c)
    PROVE  /\ files' \in [Places -> Content] /\ files'[p] = c
           /\ \A q \in Places \ {p} : files'[q] = files[q]
BY DEF DriverTypeOK, Leaves

\* Reading the source changes the job's text only.
LEMMA TextChanges ==
    ASSUME NEW j \in Job, NEW t \in Text, NEW k, k = [j EXCEPT !.text = t]
    PROVE  /\ k \in Job /\ k.mode = j.mode /\ k.text = t /\ k.before = j.before
           /\ k.success = j.success
BY DEF Job

\* A failure changes what is known of failures only.
LEMMA FaultChanges ==
    ASSUME NEW j \in Job, NEW f \in {"noticed", "unnoticed"}, NEW k,
           k = [j EXCEPT !.fault = f]
    PROVE  /\ k \in Job /\ k.mode = j.mode /\ k.text = j.text /\ k.before = j.before
           /\ k.success = j.success /\ k.fault = f
BY DEF Job

\* Setting success changes nothing else.
LEMMA SuccessChanges ==
    ASSUME NEW j \in Job, NEW k, k = [j EXCEPT !.success = TRUE]
    PROVE  /\ k \in Job /\ k.mode = j.mode /\ k.text = j.text /\ k.before = j.before
           /\ k.success /\ k.fault = j.fault
BY DEF Job

\* A job's fields, and the job of a new invocation.
LEMMA JobFields ==
    /\ \A j \in Job : /\ j.mode \in Modes \cup {"none"} /\ j.text \in Text
                      /\ j.before \in Content /\ j.success \in BOOLEAN
    /\ \A m \in Modes \cup {"none"}, c \in Content :
          [mode |-> m, text |-> "none", success |-> FALSE, fault |-> "none",
           before |-> c] \in Job
BY Texts DEF Job

\* Nothing is compiled yet.
LEMMA InitDriverIInv == DriverInit => DriverIInv
<1> SUFFICES ASSUME DriverInit PROVE DriverIInv
  OBVIOUS
<1>1. DriverTypeOK
  BY Paths, Texts, JobFields DEF DriverInit, DriverTypeOK, DriverSteps, Places
<1> QED BY <1>1 DEF DriverInit, DriverIInv, Progress, Freshness, Tidiness, Temporaries

\* An edit reaches the source file only.
LEMMA EditIInv ==
    ASSUME DriverIInv, Edit
    PROVE  DriverIInv'
<1> USE DriverAssumption DEF DriverIInv
<1>1. DriverTypeOK'
  BY Texts DEF Edit, DriverTypeOK, DriverSteps, Modes
<1>2. Progress'
  BY DEF Edit, DriverTypeOK, Progress, Modes
<1>3. Freshness'
  BY DEF Edit, DriverTypeOK, Progress, Freshness, FromThisText,
         AssemblyPath, Holding
<1>4. Tidiness'
  BY DEF Edit, DriverTypeOK, Progress, Tidiness
<1> QED BY <1>1, <1>2, <1>3, <1>4

\* A new invocation starts from what the last one left.
LEMMA InvokeIInv ==
    ASSUME DriverIInv, NEW mode \in Modes, Invoke(mode)
    PROVE  DriverIInv'
<1> USE DriverAssumption DEF DriverIInv
<1>1. DriverTypeOK'
  BY Paths, JobFields DEF Invoke, World, DriverTypeOK, DriverSteps, Modes
<1>2. Progress'
  BY DEF Invoke, World, DriverTypeOK, Progress, Modes
<1>3. Freshness'
  BY DEF Invoke, World, DriverTypeOK, Progress, Freshness, FromThisText,
         AssemblyPath, Holding
<1>4. Tidiness'
  BY DEF Invoke, World, DriverTypeOK, Progress, Tidiness
<1> QED BY <1>1, <1>2, <1>3, <1>4

\* A kill leaves the files as they are and ends what they mean.
LEMMA KillIInv ==
    ASSUME DriverIInv, Kill
    PROVE  DriverIInv'
<1> USE DriverAssumption DEF DriverIInv
<1>1. DriverTypeOK'
  BY FaultChanges, JobFields DEF Kill, Exit, Fault, DriverTypeOK, DriverSteps, Modes
<1>2. Progress'
  BY DEF Kill, Exit, Fault, DriverTypeOK, Progress, Modes
<1>3. Freshness'
  BY DEF Kill, Exit, Fault, DriverTypeOK, Progress, Freshness, FromThisText,
         AssemblyPath, Holding
<1>4. Tidiness'
  BY DEF Kill, Exit, Fault, DriverTypeOK, Progress, Tidiness
<1> QED BY <1>1, <1>2, <1>3, <1>4

\* The text is read, or the invocation ends.
LEMMA ReadSourceIInv ==
    ASSUME DriverIInv, ReadSource
    PROVE  DriverIInv'
<1> USE DEF DriverIInv
<1>1. /\ step = "read" /\ exit = "none" /\ files' = files /\ UNCHANGED World
      /\ job \in Job /\ job.mode \in Modes /\ ~ job.success /\ source \in Text
  BY Texts DEF ReadSource, DriverTypeOK, Progress
<1>2. \/ job' = [job EXCEPT !.text = source] /\ step' = "parse" /\ exit' = exit
      \/ /\ job' = [job EXCEPT !.fault = "noticed"] /\ step' = "idle"
         /\ exit' = "failure"
  BY DEF ReadSource, Goto, Exit, Fault
<1>3. /\ job' \in Job /\ job'.mode = job.mode /\ job'.before = job.before
      /\ ~ job'.success
  BY <1>1, <1>2, TextChanges, FaultChanges
<1>4. DriverTypeOK' /\ Progress'
  BY <1>1, <1>2, <1>3 DEF World, DriverTypeOK, DriverSteps, Progress
<1>5. Freshness' /\ Tidiness'
  BY <1>1, <1>2, <1>3 DEF World, Freshness, Tidiness
<1> QED BY <1>4, <1>5

\* The text is parsed, or the invocation ends.
LEMMA ParseIInv ==
    ASSUME DriverIInv, Parse
    PROVE  DriverIInv'
<1> USE DriverAssumption DEF DriverIInv
<1>1. DriverTypeOK'
  BY JobFields DEF Parse, Goto, Exit, World, Well, DriverTypeOK, DriverSteps, Modes
<1>2. Progress'
  BY DEF Parse, Goto, Exit, World, Well, DriverTypeOK, Progress, Modes
<1>3. Freshness'
  BY DEF Parse, Goto, Exit, World, Well, DriverTypeOK, Progress, Freshness, FromThisText,
         AssemblyPath, Holding
<1>4. Tidiness'
  BY DEF Parse, Goto, Exit, World, Well, DriverTypeOK, Progress, Tidiness
<1> QED BY <1>1, <1>2, <1>3, <1>4

\* The assembly file is created; main starts to own its files.
LEMMA CreateAssemblyIInv ==
    ASSUME DriverIInv, CreateAssembly
    PROVE  DriverIInv'
<1> USE DEF DriverIInv
<1> DEFINE torn == Holding("assembly", job.text, FALSE)
<1>1. /\ step = "create" /\ exit = "none" /\ exit' = exit /\ UNCHANGED World
      /\ job \in Job /\ job.mode \in Modes /\ ~ job.success
  BY DEF CreateAssembly, Goto, DriverTypeOK, Progress
<1>2. torn \in Content
  BY <1>1, Paths, JobFields
<1>3. \/ Leaves(AssemblyPath, torn) /\ step' = "emit" /\ job' = job
      \/ /\ files' = files /\ step' = "give up"
         /\ job' = [job EXCEPT !.fault = "noticed"]
  BY DEF CreateAssembly, Goto, Well, Fault
<1>4. CASE Leaves(AssemblyPath, torn) /\ step' = "emit" /\ job' = job
  <2>1. /\ files' \in [Places -> Content] /\ files'[AssemblyPath] = torn
        /\ \A q \in Places \ {AssemblyPath} : files'[q] = files[q]
    BY <1>2, <1>4, Paths, LeavesOne
  <2>2. AssemblyPath' = AssemblyPath /\ torn' = torn
    BY <1>4 DEF AssemblyPath, Holding
  <2> HIDE DEF torn
  <2>3. DriverTypeOK' /\ Progress'
    BY <1>1, <1>4, <2>1 DEF World, DriverTypeOK, DriverSteps, Progress
  <2>4. Freshness'
    BY <1>1, <1>4, <2>1, <2>2 DEF Freshness, torn
  <2>5. Tidiness'
    BY <1>1, <1>4, <2>1, Paths DEF World, Modes, Tidiness, AssemblyPath
  <2> QED BY <2>3, <2>4, <2>5
<1>5. CASE /\ files' = files /\ step' = "give up"
           /\ job' = [job EXCEPT !.fault = "noticed"]
  <2>1. job' \in Job /\ job'.mode = job.mode /\ ~ job'.success
    BY <1>1, <1>5 DEF Job
  <2>2. DriverTypeOK' /\ Progress'
    BY <1>1, <1>5, <2>1 DEF World, DriverTypeOK, DriverSteps, Progress
  <2>3. Freshness' /\ Tidiness'
    BY <1>1, <1>5, <2>1 DEF World, Freshness, Tidiness
  <2> QED BY <2>2, <2>3
<1> QED BY <1>3, <1>4, <1>5

\* The assembly is whole, or torn and nobody noticed, or main gives up.
LEMMA EmitIInv ==
    ASSUME DriverIInv, Emit
    PROVE  DriverIInv'
<1> USE DEF DriverIInv
<1> DEFINE next == IF job.mode = "assembly" THEN "done" ELSE "assemble"
           ends == IF job.mode = "assembly" THEN [job EXCEPT !.success = TRUE] ELSE job
           torn == Holding("assembly", job.text, FALSE)
           whole == Holding("assembly", job.text, TRUE)
<1>1. /\ step = "emit" /\ exit = "none" /\ exit' = exit /\ UNCHANGED World
      /\ job \in Job /\ job.mode \in Modes /\ ~ job.success
      /\ files[AssemblyPath] = torn
  BY DEF Emit, Goto, DriverTypeOK, Progress, Freshness
<1>2. /\ torn.stage = "assembly" /\ torn.of = job.text /\ ~ torn.whole
      /\ whole.stage = "assembly" /\ whole.of = job.text /\ whole.whole
      /\ torn \in Content /\ whole \in Content
  BY <1>1, Paths, JobFields DEF Holding
<1>3. \/ step' = next /\ job' = ends /\ Leaves(AssemblyPath, whole)
      \/ /\ step' = next /\ job' = [ends EXCEPT !.fault = "unnoticed"]
         /\ files' = files
      \/ /\ step' = "give up" /\ job' = [job EXCEPT !.fault = "noticed"]
         /\ files' = files
      \/ step' = "give up" /\ job' = job /\ Leaves(AssemblyPath, NoFile)
  BY DEF Emit, Goto, Well, Fault
<1> HIDE DEF torn, whole
<1>4. /\ ends \in Job /\ ends.mode = job.mode /\ ends.text = job.text
      /\ ends.before = job.before /\ (ends.success <=> job.mode = "assembly")
      /\ ends.fault = job.fault
  BY <1>1, SuccessChanges, JobFields
<1> HIDE DEF ends
<1>5. CASE step' = next /\ job' = ends /\ Leaves(AssemblyPath, whole)
  <2>1. DriverTypeOK' /\ Progress'
    BY <1>1, <1>2, <1>4, <1>5, Paths, LeavesOne DEF World, DriverTypeOK, DriverSteps, Modes,
       Progress
  <2>2. Freshness' /\ Tidiness'
    BY <1>1, <1>2, <1>4, <1>5, Paths, LeavesOne DEF World, Modes, Freshness, FromThisText,
       Tidiness, AssemblyPath, Product
  <2> QED BY <2>1, <2>2
<1>6. CASE /\ step' = next /\ job' = [ends EXCEPT !.fault = "unnoticed"]
           /\ files' = files
  <2>1. /\ job' \in Job /\ job'.mode = job.mode /\ job'.text = job.text
        /\ job'.before = job.before /\ (job'.success <=> job.mode = "assembly")
        /\ job'.fault = "unnoticed"
    BY <1>4, <1>6, FaultChanges, JobFields
  <2>2. DriverTypeOK' /\ Progress'
    BY <1>1, <1>6, <2>1 DEF World, DriverTypeOK, DriverSteps, Modes, Progress
  <2>3. FromThisText(AssemblyPath, "assembly")'
    <3>1. (AssemblyPath = "output" \/ AssemblyPath = "assembly") /\ AssemblyPath' = AssemblyPath
      BY <2>1 DEF AssemblyPath
    <3> QED BY <1>1, <1>2, <1>6, <2>1, <3>1 DEF FromThisText
  <2>4. Freshness'
    BY <1>1, <1>6, <2>1, <2>3 DEF Freshness, AssemblyPath, Product, Modes
  <2>5. Tidiness'
    BY <1>1, <1>6, <2>1 DEF World, Modes, Tidiness
  <2> QED BY <2>2, <2>4, <2>5
<1>7. CASE /\ step' = "give up" /\ job' = [job EXCEPT !.fault = "noticed"]
           /\ files' = files
  <2>1. job' \in Job /\ job'.mode = job.mode /\ ~ job'.success
    BY <1>1, <1>7 DEF Job
  <2>2. DriverTypeOK' /\ Progress'
    BY <1>1, <1>7, <2>1 DEF World, DriverTypeOK, DriverSteps, Progress
  <2>3. Freshness' /\ Tidiness'
    BY <1>1, <1>7, <2>1 DEF World, Freshness, Tidiness
  <2> QED BY <2>2, <2>3
<1>8. CASE step' = "give up" /\ job' = job /\ Leaves(AssemblyPath, NoFile)
  <2>1. DriverTypeOK' /\ Progress'
    BY <1>1, <1>8, Paths, LeavesOne DEF World, DriverTypeOK, DriverSteps, Modes, Progress
  <2>2. Freshness' /\ Tidiness'
    BY <1>1, <1>8, Paths, LeavesOne DEF World, Modes, Freshness, Tidiness, AssemblyPath
  <2> QED BY <2>1, <2>2
<1> QED BY <1>3, <1>5, <1>6, <1>7, <1>8

\* The object is as fresh as the assembly.
LEMMA AssembleIInv ==
    ASSUME DriverIInv, Assemble
    PROVE  DriverIInv'
<1> USE DEF DriverIInv
<1> DEFINE object == Holding("object", files["assembly"].of, files["assembly"].whole)
<1>1. /\ step = "assemble" /\ exit = "none" /\ exit' = exit /\ UNCHANGED World
      /\ job \in Job /\ job.mode \in {"object", "link"} /\ ~ job.success
      /\ AssemblyPath = "assembly" /\ files["assembly"] \in Content
      /\ FromThisText("assembly", "assembly")
  BY Paths DEF Assemble, Goto, DriverTypeOK, Progress, Freshness, AssemblyPath
<1>2. /\ object \in Content /\ object.stage = "object" /\ object.of = job.text
      /\ object.whole \/ job.fault = "unnoticed"
  BY <1>1, Paths, Texts DEF Holding, FromThisText
<1>3. \/ /\ Leaves(ObjectPath, object)
         /\ \/ /\ job.mode = "object" /\ job' = [job EXCEPT !.success = TRUE]
               /\ step' = "done"
            \/ job.mode = "link" /\ job' = job /\ step' = "link"
      \/ /\ Leaves(ObjectPath, NoFile) /\ step' = "done"
         /\ job' = job \/ job' = [job EXCEPT !.fault = "noticed"]
  BY <1>1 DEF Assemble, Goto, Well, Fault, Succeeds
<1> HIDE DEF object
<1>4. CASE /\ Leaves(ObjectPath, object) /\ job.mode = "object" /\ step' = "done"
           /\ job' = [job EXCEPT !.success = TRUE]
  <2>1. DriverTypeOK' /\ Progress'
    BY <1>1, <1>2, <1>4, Paths, LeavesOne, SuccessChanges, JobFields DEF World, DriverTypeOK, DriverSteps,
       Modes, Progress
  <2>2. Freshness' /\ Tidiness'
    BY <1>1, <1>2, <1>4, Paths, LeavesOne, SuccessChanges, JobFields DEF World, Modes, Freshness, FromThisText,
       Tidiness, ObjectPath, Product
  <2> QED BY <2>1, <2>2
<1>5. CASE /\ Leaves(ObjectPath, object) /\ job.mode = "link" /\ step' = "link"
           /\ job' = job
  <2>1. DriverTypeOK' /\ Progress'
    BY <1>1, <1>2, <1>5, Paths, LeavesOne DEF World, DriverTypeOK, DriverSteps, Modes, Progress
  <2>2. Freshness' /\ Tidiness'
    BY <1>1, <1>2, <1>5, Paths, LeavesOne DEF World, Modes, Freshness, FromThisText, Tidiness,
       ObjectPath
  <2> QED BY <2>1, <2>2
<1>6. CASE /\ Leaves(ObjectPath, NoFile) /\ step' = "done"
           /\ job' = job \/ job' = [job EXCEPT !.fault = "noticed"]
  <2>1. /\ job' \in Job /\ job'.mode = job.mode /\ ~ job'.success
    BY <1>1, <1>6, FaultChanges, JobFields
  <2>2. DriverTypeOK' /\ Progress'
    BY <1>1, <1>6, <2>1, Paths, LeavesOne DEF World, DriverTypeOK, DriverSteps, Modes, Progress
  <2>3. Freshness' /\ Tidiness'
    BY <1>1, <1>6, <2>1, Paths, LeavesOne DEF World, Modes, Freshness, Tidiness, ObjectPath
  <2> QED BY <2>2, <2>3
<1> QED BY <1>3, <1>4, <1>5, <1>6

\* A link without the runtime has not succeeded.
LEMMA RuntimeMissingIInv ==
    ASSUME DriverIInv, RuntimeMissing
    PROVE  DriverIInv'
<1> USE DriverAssumption DEF DriverIInv
<1>1. DriverTypeOK'
  BY FaultChanges, JobFields DEF RuntimeMissing, Goto, World, Fault, DriverTypeOK, DriverSteps, Modes
<1>2. Progress'
  BY DEF RuntimeMissing, Goto, World, Fault, DriverTypeOK, Progress, Modes
<1>3. Freshness'
  BY DEF RuntimeMissing, Goto, World, Fault, DriverTypeOK, Progress, Freshness, FromThisText,
         AssemblyPath, Holding
<1>4. Tidiness'
  BY DEF RuntimeMissing, Goto, World, Fault, DriverTypeOK, Progress, Tidiness
<1> QED BY <1>1, <1>2, <1>3, <1>4

\* The binary is as fresh as the object.
LEMMA LinkIInv ==
    ASSUME DriverIInv, Link
    PROVE  DriverIInv'
<1> USE DEF DriverIInv
<1> DEFINE binary == Holding("binary", files["object"].of, files["object"].whole)
<1>1. /\ step = "link" /\ exit = "none" /\ exit' = exit /\ UNCHANGED World
      /\ job \in Job /\ job.mode = "link" /\ ~ job.success /\ step' = "done"
      /\ ObjectPath = "object" /\ files["object"] \in Content
      /\ FromThisText("object", "object")
  BY Paths DEF Link, Goto, DriverTypeOK, Progress, Freshness, ObjectPath
<1>2. /\ binary \in Content /\ binary.stage = "binary" /\ binary.of = job.text
      /\ binary.whole \/ job.fault = "unnoticed"
  BY <1>1, Paths, Texts DEF Holding, FromThisText
<1>3. \/ Leaves("output", binary) /\ job' = [job EXCEPT !.success = TRUE]
      \/ /\ Leaves("output", NoFile)
         /\ job' = job \/ job' = [job EXCEPT !.fault = "noticed"]
  BY <1>1 DEF Link, Goto, Well, Fault, Succeeds
<1> HIDE DEF binary
<1>4. CASE Leaves("output", binary) /\ job' = [job EXCEPT !.success = TRUE]
  <2>1. DriverTypeOK' /\ Progress'
    BY <1>1, <1>2, <1>4, Paths, LeavesOne, SuccessChanges, JobFields DEF World, DriverTypeOK, DriverSteps,
       Modes, Progress
  <2>2. Freshness' /\ Tidiness'
    BY <1>1, <1>2, <1>4, Paths, LeavesOne, SuccessChanges, JobFields DEF World, Freshness, FromThisText,
       Tidiness, Product
  <2> QED BY <2>1, <2>2
<1>5. CASE /\ Leaves("output", NoFile)
           /\ job' = job \/ job' = [job EXCEPT !.fault = "noticed"]
  <2>1. /\ job' \in Job /\ job'.mode = job.mode /\ ~ job'.success
    BY <1>1, <1>5, FaultChanges, JobFields
  <2>2. DriverTypeOK' /\ Progress'
    BY <1>1, <1>5, <2>1, Paths, LeavesOne DEF World, DriverTypeOK, DriverSteps, Modes, Progress
  <2>3. Freshness' /\ Tidiness'
    BY <1>1, <1>5, <2>1, Paths, LeavesOne DEF World, Freshness, Tidiness
  <2> QED BY <2>2, <2>3
<1> QED BY <1>3, <1>4, <1>5

\* What an invocation created and did not deliver goes.
LEMMA CleanUpIInv ==
    ASSUME DriverIInv, CleanUp
    PROVE  DriverIInv'
<1> USE DEF DriverIInv
<1> DEFINE left == {p \in Removed : files[p] # NoFile}
<1>1. /\ step \in {"give up", "done"} /\ exit = "none" /\ UNCHANGED <<World, job>>
      /\ job \in Job /\ job.mode \in Modes /\ (step = "give up" => ~ job.success)
  BY DEF CleanUp, DriverTypeOK, Progress
<1>2. /\ Removed \subseteq Places
      /\ job.mode # "assembly" => "assembly" \in Removed
      /\ job.mode = "link" /\ step = "done" => "object" \in Removed
      /\ job.success => "output" \notin Removed
      /\ ~ job.success => "output" \in Removed
  BY <1>1, Paths DEF Removed, AssemblyPath, ObjectPath
<1>3. \/ \E p \in left : step' = step /\ exit' = exit /\ Leaves(p, NoFile)
      \/ /\ left = {} /\ files' = files /\ step' = "idle"
         /\ exit' = IF job.success THEN "success" ELSE "failure"
  BY DEF CleanUp, Goto, Exit
<1>4. ASSUME NEW p \in left, step' = step, exit' = exit, Leaves(p, NoFile)
      PROVE  DriverIInv'
  <2>1. p \in Places /\ (job.success => p # "output")
    BY <1>2
  <2>2. /\ files' \in [Places -> Content] /\ files'[p] = NoFile
        /\ \A q \in Places \ {p} : files'[q] = files[q]
    BY <1>4, <2>1, Paths, LeavesOne
  <2>3. DriverTypeOK' /\ Progress'
    BY <1>1, <1>4, <2>2 DEF World, DriverTypeOK, Progress
  <2>4. Freshness' /\ Tidiness'
    BY <1>1, <1>4, <2>1, <2>2, Paths DEF World, Freshness, FromThisText, Tidiness
  <2> QED BY <2>3, <2>4
<1>5. ASSUME left = {}, files' = files, step' = "idle",
             exit' = IF job.success THEN "success" ELSE "failure"
      PROVE  DriverIInv'
  <2>1. \A p \in Removed : files[p] = NoFile
    BY <1>5
  <2>2. DriverTypeOK' /\ Progress'
    BY <1>1, <1>5 DEF World, DriverTypeOK, DriverSteps, Progress
  <2>3. Freshness'
    BY <1>1, <1>2, <1>5, <2>1 DEF Freshness, FromThisText
  <2>4. Tidiness'
    BY <1>1, <1>2, <1>5, <2>1 DEF World, Tidiness, Modes
  <2> QED BY <2>2, <2>3, <2>4
<1> HIDE DEF left
<1> QED BY <1>3, <1>4, <1>5

\* One step of the user or of main.
LEMMA NextDriverIInv == DriverIInv /\ [DriverNext]_driver => DriverIInv'
<1>1. ASSUME DriverIInv, UNCHANGED driver PROVE DriverIInv'
  <2>1. DriverTypeOK' /\ Progress'
    BY <1>1 DEF driver, DriverIInv, DriverTypeOK, Progress
  <2>2. Freshness'
    BY <1>1 DEF driver, DriverIInv, Freshness, FromThisText, AssemblyPath, Holding
  <2>3. Tidiness'
    BY <1>1 DEF driver, DriverIInv, Tidiness
  <2> QED BY <2>1, <2>2, <2>3 DEF DriverIInv
<1> QED BY <1>1, EditIInv, InvokeIInv, KillIInv, ReadSourceIInv, ParseIInv,
           CreateAssemblyIInv, EmitIInv, AssembleIInv, RuntimeMissingIInv,
           LinkIInv, CleanUpIInv DEF DriverNext, MainStep

-----------------------------------------------------------------------------
\* Whatever failed, was killed or was edited before, exit status 0 stands for
\* an output made from the text this invocation read.
THEOREM SuccessMeansFresh == DriverSpec => []SuccessIsFresh
<1>1. DriverIInv => SuccessIsFresh
  BY DEF DriverIInv, Progress, Freshness, FromThisText, SuccessIsFresh
<1> QED BY InitDriverIInv, NextDriverIInv, <1>1, PTL DEF DriverSpec

\* A failure leaves no part of an output, and temporaries outlive only an
\* invocation that was killed, until the next link that succeeds.
THEOREM FailureIsClean == DriverSpec => []NothingLeftBehind
<1>1. DriverIInv => NothingLeftBehind
  BY DEF DriverIInv, DriverTypeOK, Freshness, Tidiness, NothingLeftBehind,
         Temporaries
<1> QED BY InitDriverIInv, NextDriverIInv, <1>1, PTL DEF DriverSpec
=============================================================================
