------------------------------- MODULE Stage3 -------------------------------
(***************************************************************************)
(* STAGE3, the monitor that BOOT starts: the startup code checks the       *)
(* handoff and calls main, which prompts, edits a line from the keyboard   *)
(* controller key by key, and obeys it.  Beside it the host presses keys   *)
(* and resets the machine, which boots again.                              *)
(***************************************************************************)
EXTENDS Keyboard, Console

CONSTANTS
    LineSize,     \* the size of main's line
    Junk,         \* what it holds before it is written
    Prompt, Banner, Heading, NoSuchCommand,    \* texts
    Replies,      \* command -> the texts it prints
    TimeCommand, HaltCommand,
    Epochs        \* readings of the clock, as the ints of the compiler

Printable == 32 .. 126

\* The texts hold no control character, every command's reply has a line, and
\* prompt and line fit in a row.
ASSUME MonitorAssumption ==
    /\ LineSize \in Nat \ {0, 1} /\ Epochs \subseteq Int
    /\ Len(Prompt) + LineSize <= Columns
    /\ {Prompt, Heading, NoSuchCommand} \subseteq Seq(Printable)
    /\ Banner \in Seq(Seq(Printable))
    /\ \A typed \in DOMAIN Replies :
          Replies[typed] \in Seq(Seq(Printable)) /\ Replies[typed] # << >>

VARIABLES
    console,    \* framebuffer and cursor
    line, length,
    ch,         \* the key main got last
    at,         \* where the program is
    result      \* r0 when it halted

guest == <<console, line, length, ch, at, result>>

JunkLine == [i \in 0 .. LineSize - 1 |-> Junk]

MonitorInit ==
    /\ Init /\ console = FreshConsole
    /\ line = JunkLine /\ length = 0 /\ ch = 0 /\ at = "start" /\ result = 0

Goto(label) == at' = label /\ UNCHANGED result
Shows(texts) == console' = texts
Halts(value) == at' = "halted" /\ result' = value

-----------------------------------------------------------------------------
(***************************************************************************)
(* The startup code.                                                       *)
(***************************************************************************)
\* _start, with a Bootinfo that is what it should be, or not.
Start(valid) ==
    /\ at = "start" /\ UNCHANGED <<line, length, ch, vars>>
    /\ IF valid THEN Goto("prompt") /\ Shows(PutLines(console, Banner))
                ELSE Halts(1) /\ UNCHANGED console

-----------------------------------------------------------------------------
(***************************************************************************)
(* main.                                                                   *)
(***************************************************************************)
PrintPrompt ==
    /\ at = "prompt" /\ Goto("poll")
    /\ Shows(Write(console, Prompt)) /\ length' = 0
    /\ UNCHANGED <<line, ch, vars>>

\* Defect: t32_getchar leaves its loop while no key is there.
PollInverted ==
    /\ at = "poll" /\ ReadStatus(4, 4)
    /\ IF reply'.value = 0 THEN Goto("data") ELSE Goto("poll")
    /\ UNCHANGED <<console, line, length, ch>>

\* t32_getchar: the loop on STATUS, then DATA.
Poll ==
    /\ at = "poll" /\ ReadStatus(4, 4)
    /\ IF reply'.value = 0 THEN Goto("poll") ELSE Goto("data")
    /\ UNCHANGED <<console, line, length, ch>>

GetKey ==
    /\ at = "data" /\ ReadData(8, 4)
    /\ ch' = reply'.value /\ Goto("edit")
    /\ UNCHANGED <<console, line, length>>

\* The inner loop goes on while there is room for the terminator.
Continues == IF length' < LineSize - 1 THEN Goto("poll") ELSE Goto("submit")

Enter ==
    /\ at = "edit" /\ ch \in {LineFeed, CarriageReturn}
    /\ Shows(PutChar(console, LineFeed)) /\ Goto("submit")
    /\ UNCHANGED <<line, length, ch, vars>>

Erase ==
    /\ at = "edit" /\ ch \in {Backspace, 127}
    /\ IF length > 0 THEN length' = length - 1 /\ Shows(PutChar(console, Backspace))
                     ELSE UNCHANGED <<length, console>>
    /\ Continues /\ UNCHANGED <<line, ch, vars>>

Type ==
    /\ at = "edit" /\ ch \in 32 .. 126
    /\ line' = [line EXCEPT ![length] = ch] /\ length' = length + 1
    /\ Shows(PutChar(console, ch))
    /\ Continues /\ UNCHANGED <<ch, vars>>

Ignore ==
    /\ at = "edit" /\ ch \notin {LineFeed, CarriageReturn, Backspace} \cup (32 .. 127)
    /\ UNCHANGED length /\ Continues
    /\ UNCHANGED <<console, line, ch, vars>>

Submit ==
    /\ at = "submit" /\ Goto("obey")
    /\ line' = [line EXCEPT ![length] = 0]
    /\ UNCHANGED <<console, length, ch, vars>>

\* What strcmp sees of the line.
Typed ==
    LET nul == CHOOSE i \in DOMAIN line : line[i] = 0 /\ \A j \in 0 .. i - 1 : line[j] # 0
    IN  [i \in 1 .. nul |-> line[i - 1]]

\* Defect: the digits come out as they are found.
DigitsReversed(value) ==
    LET left[n \in 0 .. 10] == IF n = 0 THEN value ELSE left[n - 1] \div 10
        digits[n \in 0 .. 10] ==
            IF n = 0 THEN << >>
            ELSE IF left[n - 1] = 0 THEN digits[n - 1]
            ELSE Append(digits[n - 1], 48 + (left[n - 1] % 10))
    IN  IF value = 0 THEN <<48>> ELSE IF value < 0 THEN << >> ELSE digits[10]

\* print_uint, whose value is an int: what is negative has no digits.  The
\* first loop divides, the second prints what it found last first.
Digits(value) ==
    LET left[n \in 0 .. 10] == IF n = 0 THEN value ELSE left[n - 1] \div 10
        digits[n \in 0 .. 10] ==
            IF n = 0 THEN << >>
            ELSE IF left[n - 1] = 0 THEN digits[n - 1]
            ELSE <<48 + (left[n - 1] % 10)>> \o digits[n - 1]
    IN  IF value = 0 THEN <<48>> ELSE IF value < 0 THEN << >> ELSE digits[10]

IntMax == 2147483647

\* The clock fits the int, and its digits in a row of more than one.
ASSUME ClockAssumption ==
    /\ \A epoch \in Epochs : epoch <= IntMax /\ Len(Digits(epoch)) < Columns
    /\ Rows > 1 /\ Space = 32

\* The commands that print texts, and what is none.
Obey ==
    /\ at = "obey" /\ Typed \notin {TimeCommand, HaltCommand}
    /\ Shows(IF length = 0 THEN console
             ELSE IF Typed \in DOMAIN Replies THEN PutLines(console, Replies[Typed])
             ELSE Puts(console, NoSuchCommand))
    /\ Goto("prompt") /\ UNCHANGED <<line, length, ch, vars>>

\* command_time; a clock past 32 bits faults the machine.
Time(epoch) ==
    /\ at = "obey" /\ length # 0 /\ Typed = TimeCommand
    /\ Shows(Puts(Puts(console, Heading), Digits(epoch)))
    /\ Goto("prompt") /\ UNCHANGED <<line, length, ch, vars>>

TimeFaults ==
    /\ at = "obey" /\ length # 0 /\ Typed = TimeCommand
    /\ at' = "faulted" /\ UNCHANGED <<console, line, length, ch, result, vars>>

Halt ==
    /\ at = "obey" /\ Typed = HaltCommand
    /\ Halts(42) /\ UNCHANGED <<console, line, length, ch, vars>>

MonitorStep ==
    \/ PrintPrompt \/ Poll \/ GetKey
    \/ Enter \/ Erase \/ Type \/ Ignore
    \/ Submit \/ Obey \/ Halt \/ TimeFaults
    \/ \E epoch \in Epochs : Time(epoch)

-----------------------------------------------------------------------------
(***************************************************************************)
(* The host.                                                               *)
(***************************************************************************)
PressKey(c) == Push(c) /\ UNCHANGED guest

\* t32_reset, after which the firmware loads the monitor anew.
ResetMachine ==
    /\ Reset /\ console' = FreshConsole
    /\ line' = JunkLine /\ length' = 0 /\ ch' = 0 /\ at' = "start" /\ result' = 0

MonitorNext ==
    \/ \E valid \in BOOLEAN : Start(valid)
    \/ MonitorStep
    \/ \E c \in Byte : PressKey(c)
    \/ ResetMachine

MonitorSpec == MonitorInit /\ [][MonitorNext]_<<vars, guest>>

\* The machine executes while the host leaves it running.
FairMonitorSpec == MonitorSpec /\ WF_<<vars, guest>>(MonitorStep)

-----------------------------------------------------------------------------
(***************************************************************************)
(* Properties.                                                             *)
(***************************************************************************)
RowOf(i) == i \div Columns
Row(r) == [c \in 1 .. Columns |-> console.cells[r * Columns + c - 1]]

\* What the user sees is what main holds: while main waits for a key, the
\* cursor's row is the prompt, the characters of the line and nothing more,
\* with the cursor behind them, after any erasing, wrapping and scrolling.
LineIsShown ==
    at \in {"poll", "data"} =>
        LET shown == Prompt \o [i \in 1 .. length |-> line[i - 1]]
            column == console.cursor % Columns
        IN  /\ column = Len(shown)
            /\ Row(RowOf(console.cursor)) =
                   [c \in 1 .. Columns |-> IF c <= column THEN shown[c] ELSE Space]

\* The number that a row of decimal digits shows.
NumberIn(row) ==
    LET read[n \in 0 .. Columns] ==
            IF n = 0 THEN 0
            ELSE IF row[n] = Space THEN read[n - 1] ELSE 10 * read[n - 1] + (row[n] - 48)
    IN  read[Columns]

ClockShown(epoch) ==
    LET row == Row(RowOf(console.cursor) - 1)
        used == {c \in 1 .. Columns : row[c] # Space}
    IN  NumberIn(row) = epoch /\ (used = {1} \/ row[1] # 48)

\* The time command shows the clock in decimal on the row above the prompt.
TimeIsShown ==
    [][ \A epoch \in Epochs :
          Time(epoch) /\ epoch >= 0 => ClockShown(epoch)' ]_<<vars, guest>>

\* The monitor goes on taking keys: a ring that is full does not stay so,
\* unless the program has ended or the machine never started it.
KeysAreTaken == count = QueueSize ~> count < QueueSize \/ at \in {"start", "halted", "faulted"}
=============================================================================
