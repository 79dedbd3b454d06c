------------------------------- MODULE Runx -------------------------------
(***************************************************************************)
(* t32-runx (src/vm/t32-runx/src/runx.c): the Windows host that owns one   *)
(* libt32vm machine.  Its thread handles one window message at a time: a   *)
(* menu command, a typed character, the 10 ms timer that executes a slice  *)
(* of guest instructions, a repaint.  Every action is one message.         *)
(*                                                                         *)
(* Commands that ask for a file keep no state across the dialog, and every *)
(* caller of an error box returns once it is closed: a command therefore   *)
(* takes effect in one step, whatever timer messages the dialog let by.    *)
(* Whether a file can be read, or an image attached, is the host's choice  *)
(* every time.  disk_attached is written and never read; it is left out.   *)
(***************************************************************************)
EXTENDS Naturals

CONSTANTS
    Firmware, Program, Disk,    \* the paths the user may pick, by purpose
    NoPath,                     \* an empty path
    NoMachine,                  \* g_runx.machine = NULL
    Frame,                      \* what the 80x25 text display may hold
    Spaces                      \* the frame t32_reset leaves

VARIABLES
    machine,        \* NoMachine, or what the host can tell of the machine
    config,         \* direct_program, bios_mode and the three paths
    running, poweredOff,
    lamp,           \* is the menu's lamp green?
    screen,         \* the frame last painted in the window
    invalid,        \* is a WM_PAINT due?
    complete,       \* did the create_machine that made machine succeed?
    chosen,         \* what the user last chose to boot
    event           \* the message of the last step

host == <<running, poweredOff, lamp>>
window == <<screen, invalid>>
vars == <<machine, config, host, window, complete, chosen, event>>

Embedded == <<"embedded">>
Image == {Embedded, <<"blank">>} \cup ({"firmware"} \X Firmware)
                                 \cup ({"program"} \X Program)

Machine == [image : Image,                  \* what was loaded into its RAM
            medium : Disk \cup {NoPath},    \* the disk attached to it
            state : {"STOPPED", "HALTED", "ERROR"},
            stepped : BOOLEAN,              \* has t32_step been called?
            power : BOOLEAN, reset : BOOLEAN,   \* the platform requests
            typed : BOOLEAN,                \* is a key pending?
            video : Frame, dirty : BOOLEAN]

ASSUME RunxAssumption ==
    /\ NoPath \notin Firmware \cup Program \cup Disk
    /\ Spaces \in Frame
    /\ NoMachine \notin Machine

-----------------------------------------------------------------------------
(***************************************************************************)
(* create_machine.                                                         *)
(***************************************************************************)
\* A defect no action uses: t32_reset does not mark the display it cleared.
BlankIsClean == [image |-> <<"blank">>, medium |-> NoPath,
                 state |-> "STOPPED", stepped |-> FALSE, power |-> FALSE,
                 reset |-> FALSE, typed |-> FALSE, video |-> Spaces,
                 dirty |-> FALSE]

\* t32_create: calloc and t32_reset.
Blank == [image |-> <<"blank">>, medium |-> NoPath, state |-> "STOPPED",
          stepped |-> FALSE, power |-> FALSE, reset |-> FALSE,
          typed |-> FALSE, video |-> Spaces, dirty |-> TRUE]

\* What create_machine loads: the program in direct mode, else the BIOS.
Selected(c) ==
    IF c.direct THEN <<"program", c.program>>
    ELSE IF c.mode = "B" THEN <<"firmware", c.firmware>> ELSE Embedded

\* Every way create_machine can end, with the machine it leaves: no memory,
\* a load that fails, a disk that cannot be attached, success.  The embedded
\* BIOS is smaller than RAM: loading it cannot fail.
Creations(c) ==
    LET loaded == [Blank EXCEPT !.image = Selected(c)]
        failed(m) == [ok |-> FALSE, machine |-> m]
    IN  {failed(NoMachine)}
        \cup {failed(Blank) : i \in {Selected(c)} \ {Embedded}}
        \cup {failed(loaded) : d \in {c.disk} \ {NoPath}}
        \cup {[ok |-> TRUE, machine |-> [loaded EXCEPT !.medium = c.disk]]}

\* The old machine is gone in every case; running and powered_off change
\* only on success.
Create(c, o, runs) ==
    /\ o \in Creations(c)
    /\ machine' = o.machine /\ complete' = o.ok /\ config' = c
    /\ running' = IF o.ok THEN runs ELSE running
    /\ poweredOff' = (poweredOff /\ ~o.ok)

\* update_ui, or a return before it.
UpdateLampIf(reached) == lamp' = IF reached THEN running' ELSE lamp
Invalidate(reached) == invalid' = (invalid \/ reached) /\ UNCHANGED screen

-----------------------------------------------------------------------------
(***************************************************************************)
(* Defects the properties must exclude.  No action uses them.              *)
(***************************************************************************)
\* Start goes on with a machine that was stopped.
StartResumes ==
    /\ machine # NoMachine /\ event' = "start"
    /\ running' = TRUE /\ poweredOff' = FALSE /\ lamp' = TRUE
    /\ UNCHANGED <<machine, config, window, complete, chosen>>

\* direct_program survives the choice of a firmware.
FirmwareKeepsDirectProgram(f) ==
    \E o \in Creations([config EXCEPT !.firmware = f, !.mode = "B"]) :
        /\ Create([config EXCEPT !.firmware = f, !.mode = "B"], o, FALSE)
        /\ Invalidate(TRUE) /\ UpdateLampIf(TRUE)
        /\ chosen' = <<"firmware", f>> /\ event' = "firmware"

\* The requests are not cleared when the guest powers off.
PowerOffKeepsRequests(m) ==
    /\ machine' = m
    /\ running' = FALSE /\ poweredOff' = TRUE /\ lamp' = FALSE
    /\ UNCHANGED <<config, complete, chosen, screen>>

-----------------------------------------------------------------------------
(***************************************************************************)
(* main: an optional firmware argument, disk.img when it exists, and a     *)
(* create_machine whose result is not looked at.                           *)
(***************************************************************************)
Init ==
    \E f \in Firmware \cup {NoPath}, d \in Disk \cup {NoPath} :
        LET c == [direct |-> FALSE, program |-> NoPath, firmware |-> f,
                  mode |-> IF f = NoPath THEN "A" ELSE "B", disk |-> d]
        IN  \E o \in Creations(c) :
                /\ config = c /\ machine = o.machine /\ complete = o.ok
                /\ chosen = Selected(c)
    /\ running = FALSE /\ poweredOff = FALSE /\ lamp = FALSE
    /\ screen = Spaces /\ invalid = TRUE /\ event = "main"

-----------------------------------------------------------------------------
(***************************************************************************)
(* Menu commands.                                                          *)
(***************************************************************************)
\* Start resumes a machine that is not off, and builds a new one otherwise.
MachineStart ==
    /\ event' = "start"
    /\ \/ /\ machine # NoMachine /\ ~poweredOff
          /\ running' = TRUE /\ UpdateLampIf(TRUE)
          /\ UNCHANGED <<machine, config, complete, poweredOff>>
       \/ /\ machine = NoMachine \/ poweredOff
          /\ \E o \in Creations(config) :
                Create(config, o, TRUE) /\ UpdateLampIf(o.ok)
    /\ UNCHANGED <<window, chosen>>

\* t32_clear_platform_requests.
ClearRequests(m) ==
    IF m = NoMachine THEN m ELSE [m EXCEPT !.power = FALSE, !.reset = FALSE]

MachineStop ==
    /\ machine' = ClearRequests(machine)
    /\ running' = FALSE /\ poweredOff' = TRUE /\ UpdateLampIf(TRUE)
    /\ event' = "stop"
    /\ UNCHANGED <<config, window, complete, chosen>>

\* machine_reset, called by the menu and by a slice.
Restart(repaint) ==
    /\ \E o \in Creations(config) :
            /\ Create(config, o, TRUE)
            /\ UpdateLampIf(o.ok)
            /\ invalid' = (repaint \/ o.ok)
    /\ UNCHANGED <<screen, chosen>>

MachineReset == Restart(invalid) /\ event' = "reset"

\* select_firmware: the window is refreshed even if the firmware is not.
SelectFirmware(f) ==
    LET c == [config EXCEPT !.firmware = f, !.mode = "B", !.direct = FALSE]
    IN  /\ \E o \in Creations(c) : Create(c, o, FALSE)
        /\ Invalidate(TRUE) /\ UpdateLampIf(TRUE)
        /\ chosen' = <<"firmware", f>> /\ event' = "firmware"

UseEmbeddedFirmware ==
    LET c == [config EXCEPT !.firmware = NoPath, !.mode = "A",
                            !.direct = FALSE]
    IN  /\ \E o \in Creations(c) :
            /\ Create(c, o, FALSE)
            /\ Invalidate(o.ok) /\ UpdateLampIf(o.ok)
        /\ chosen' = Embedded /\ event' = "embedded"

LoadProgram(p) ==
    LET c == [config EXCEPT !.program = p, !.direct = TRUE]
    IN  /\ \E o \in Creations(c) :
            /\ Create(c, o, FALSE)
            /\ Invalidate(o.ok) /\ UpdateLampIf(o.ok)
        /\ chosen' = <<"program", p>> /\ event' = "program"

\* The old disk is detached first; if the new one fails, there is none.
Swap(m, c) ==
    \/ machine' = [m EXCEPT !.medium = c.disk] /\ config' = c
    \/ /\ machine' = [m EXCEPT !.medium = NoPath]
       /\ config' = [c EXCEPT !.disk = NoPath]

\* attach_disk0 creates the machine if there is none, without update_ui.
AttachDisk0(d) ==
    LET c == [config EXCEPT !.disk = d]
    IN  /\ \/ /\ machine # NoMachine /\ Swap(machine, c)
              /\ UNCHANGED <<running, poweredOff, complete>>
           \/ /\ machine = NoMachine
              /\ \E o \in Creations(c) :
                    \/ ~o.ok /\ Create(c, o, FALSE)
                    \/ /\ o.ok /\ Swap(o.machine, c)
                       /\ complete' = TRUE
                       /\ running' = FALSE /\ poweredOff' = FALSE
        /\ event' = "attach"
        /\ UNCHANGED <<lamp, window, chosen>>

DetachDisk0 ==
    /\ machine' = IF machine = NoMachine THEN machine
                  ELSE [machine EXCEPT !.medium = NoPath]
    /\ config' = [config EXCEPT !.disk = NoPath]
    /\ event' = "detach"
    /\ UNCHANGED <<host, window, complete, chosen>>

-----------------------------------------------------------------------------
(***************************************************************************)
(* The guest, and the messages that serve it.                              *)
(***************************************************************************)
\* WM_CHAR: keys reach a running machine only; a full queue drops them.
Char ==
    /\ machine # NoMachine /\ running
    /\ machine' = [machine EXCEPT !.typed = TRUE]
    /\ event' = "char"
    /\ UNCHANGED <<config, host, window, complete, chosen>>

Seen(m) == [state |-> m.state, power |-> m.power, reset |-> m.reset,
            typed |-> m.typed, video |-> m.video, dirty |-> m.dirty]
Guest == INSTANCE HostView WITH seen <- Seen(machine)

\* Up to T32_RUNX_SLICE_INSTRUCTIONS calls of t32_step, each of which does what
\* HostView lets the guest do; it goes on after a request.  RAM that nothing
\* was loaded into holds a HALT at 0.
Slice(m) ==
    IF m.image = <<"blank">>
    THEN {[m EXCEPT !.stepped = TRUE, !.state = "HALTED"]}
    ELSE {g \in Machine : /\ g.image = m.image /\ g.medium = m.medium /\ g.stepped
                          /\ Guest!Executed(Seen(m), Seen(g))}

\* The test that ends a slice whose guest has halted or faulted.
Finished(m) == m.state \in {"HALTED", "ERROR"}

GuestPowerOff(m) ==
    /\ machine' = ClearRequests(m)
    /\ running' = FALSE /\ poweredOff' = TRUE /\ lamp' = FALSE
    /\ UNCHANGED <<config, complete, chosen, screen>>

\* Power-off wins over reset, and both over a halt.
EndSlice(m, repaint) ==
    \/ m.power /\ GuestPowerOff(m) /\ invalid' = repaint
    \/ ~m.power /\ m.reset /\ Restart(repaint)
    \/ /\ ~m.power /\ ~m.reset
       /\ machine' = m
       /\ running' = ~Finished(m)
       /\ poweredOff' = (poweredOff \/ Finished(m))
       /\ UpdateLampIf(Finished(m))
       /\ invalid' = repaint /\ UNCHANGED <<config, complete, chosen, screen>>

\* run_vm_slice: a dirty display is repainted and marked clean first.
RunVmSlice ==
    /\ machine # NoMachine /\ running
    /\ \E g \in Slice(machine) :
            EndSlice([g EXCEPT !.dirty = FALSE], invalid \/ g.dirty)
    /\ event' = "timer"

\* paint_display: without a machine, a window of spaces.
Paint ==
    /\ invalid
    /\ screen' = IF machine = NoMachine THEN Spaces ELSE machine.video
    /\ invalid' = FALSE
    /\ event' = "paint"
    /\ UNCHANGED <<machine, config, host, complete, chosen>>

Next ==
    \/ MachineStart \/ MachineStop \/ MachineReset
    \/ \E f \in Firmware : SelectFirmware(f)
    \/ UseEmbeddedFirmware
    \/ \E p \in Program : LoadProgram(p)
    \/ \E d \in Disk : AttachDisk0(d)
    \/ DetachDisk0
    \/ Char \/ RunVmSlice \/ Paint

\* The user, the guest and the window system owe nothing.
Spec == Init /\ [][Next]_vars

-----------------------------------------------------------------------------
(***************************************************************************)
(* What the host must guarantee.                                           *)
(***************************************************************************)
\* Between two messages no request of the guest is pending and no halted or
\* faulted machine counts as running: run_vm_slice has served them all.
NoUnservedRequest ==
    machine # NoMachine => /\ ~machine.power /\ ~machine.reset
                           /\ running => machine.state = "STOPPED"

\* A machine that create_machine finished holds what the user last chose
\* and has the configured disk, through every change of firmware, program
\* and disk since; and a configuration never selects an empty path, so that
\* create_machine's checks of program_path and firmware_path never fire.
BuiltAsChosen ==
    /\ complete => /\ machine # NoMachine
                   /\ machine.image = chosen /\ machine.medium = config.disk
    /\ config.mode = "B" <=> config.firmware # NoPath
    /\ config.direct => config.program # NoPath

\* "The final framebuffer remains visible": once a machine has executed, the
\* window shows its display or is about to, also when it has stopped since.
WindowFollowsDisplay ==
    machine # NoMachine /\ machine.stepped =>
        screen = machine.video \/ invalid

\* STOP and POWER_OFF are off states: what runs again after them is a machine
\* built anew, which has not executed an instruction.
FreshAfterOff ==
    [][poweredOff /\ (running' \/ ~poweredOff') =>
            /\ complete' /\ machine' # NoMachine
            /\ ~machine'.stepped]_vars

\* "Loading is deliberately non-running; Start is a separate action": a
\* command that has loaded a program leaves the machine stopped.
LoadingDoesNotStart ==
    [][event' = "program" /\ machine' # NoMachine =>
            (machine'.image = chosen' => ~running')]_vars
=============================================================================
