# T32: a verification development

TLA+ models of the T32 system (a 32-bit virtual machine in C, its devices,
its firmware in T32 assembly, its Windows host, its disk image tool, its
archiver and its C compiler), the TLC configurations that check them on small
instances, and theorems about them that TLAPS proves for every value of the
constants.  Paths below are relative to the repository; line numbers of every
definition are in `PROJECT.json` under `map`.

To check: `tlc -config <cfg> <module>` for each run listed under *Runs*, and
`tlapm` on `NumberFacts.tla`, `ArithmeticProofs.tla`, `ProcessorProofs.tla`,
`MonitorProofs.tla`, `BootProofs.tla`, `HostProofs.tla`, `T32DiskProofs.tla` and
`ArchiveProofs.tla`.

## 1. The system and its parts

```
   user ---- t32-runx (Windows host, one thread) ---- files of the host
                 |  t32_step, t32_keyboard_push,          |
                 |  t32_disk_attach, t32_reset, ...       |
             libt32vm: processor - bus - RAM, display     |
                 |        keyboard, disk, RTC, platform --+-- disk images
                 |                                        |
   BIOS -> BOOT -> STAGE3   (guest code in RAM)       t32-disk

   C text -> t32-cc -> t32-as -> object --+--> t32-ld -> program
                                          |       |
                        t32-nm <----- t32-ar   libt32, crt0
```

| Component | State | Operations | What is hard | What makes it correct |
|---|---|---|---|---|
| Keyboard controller (`libt32vm/src/t32.c`) | ring of 64 bytes, head, tail, count | `t32_keyboard_push`, reads of ID, STATUS, DATA, `t32_reset` | full and empty look alike but for `count`; pushes and reads interleave | a bounded FIFO |
| Disk controller (same file) | image file, sector count, LBA, ERROR, 512-byte buffer | attach, detach, reset, register and buffer accesses, READ, WRITE | host swaps media between two guest accesses; short reads, torn writes; image shortened by others | media never mix, ERROR is right, only the addressed sector changes |
| Processor, bus, life cycle (same file) | 16 registers, flags, pc, RAM, display, state, reason, requests | the instructions of `t32_step`, `t32_run`, `t32_clear_halt`, `t32_reset`, host's loads | faults in the middle of an instruction; width edges; states after mixed runs | precise faults, exact arithmetic, stopped means stopped |
| t32-runx (`t32-runx/src/runx.c`) | machine, paths, mode, running, powered_off, lamp, window | menu commands, 10 ms timer slices, keys, repaints | every creation can fail half-way; requests pend at the end of a slice | serves requests, builds what was chosen, shows what the guest drew, never resumes what was off |
| BIOS and BOOT (`firmware/bios/bios.s`, `firmware/boot/boot.s`) | the guest's registers, scratch sector, Bootinfo, load areas | header check, directory search, file load, disk_read service | four accesses per sector read, the disk may change between any two | control goes to the whole file of the right name or to a message |
| STAGE3 (`firmware/stage3`), `putchar` (`runtime/libt32/src/io`) | line buffer, console cursor | the prompt, the line editor, the commands; wrap, backspace, scrolling | a length and a cursor that are never compared; polling against key presses | the line shown is the line held; keys are taken |
| t32-disk (`tools/t32-disk/src/t32-disk.c`) | the image | create, format, put, get, list, info, do | killed or out of space between two writes, short images | listed files are whole, apart and unique |
| t32-ar (`toolchain/t32-ar`) | the archive file; members and symbol index in memory | r, d, x, t | the archive is rewritten in place; two objects of one base name; refusal after the first step | whole archives only, an index that agrees with t32-nm, nothing half updated |
| t32-nm (`toolchain/t32-nm`) | one pass over a file | check the object, print its symbols | its own notion of a global symbol | agrees with t32-ar |
| t32-cc (`toolchain/t32-cc`) | token position; tables of nodes, locals, functions; registers, slots and labels in use; temporary files | lexer, parser, check of calls, generator, driver | values that wait across calls; fixed tables; a driver of five steps any of which fails | the program returns what it means, its stack is intact; success means a fresh output |
| libt32, crt0 (`runtime`) | none but the console's | string, memory and conversion routines, start of a program | overlap, limits | their definitions in the header |
| t32-node (`vm/t32-node`) | an earlier Python machine | load, step, run, show the screen | superseded, other encoding | not modelled |

The sources of `t32-as`, `t32-ld` and `t32-run` are not in the repository.

Interactions.  The host calls libt32vm from one thread; the guest reaches
devices by loads and stores; BIOS and BOOT reach the disk through its window and
BOOT calls the BIOS's `disk_read` service; STAGE3 polls the keyboard's window and
draws through `putchar`; t32-disk writes the images the machine attaches; t32-cc
starts t32-as and t32-ld and hands them temporary files; t32-ar and t32-nm read
the objects.  Nothing locks an image or an archive: another process may change it.

## 2. Modules and how they correspond to the code

| Module | Models | State and actions |
|---|---|---|
| `ByteFifo` | what the keyboard promises | a bounded sequence of bytes; put, take, poll, identify, refuse, clear |
| `Keyboard` | the ring in `t32.c` | `queue`, `head`, `tail`, `count` are the C fields; one action per call or register read; `IsFifo` refines it to `ByteFifo` |
| `DiskController` | `disk_execute`, `disk_mmio_write`, attach, detach, reset | the C fields, and `media`, the contents of the host's files; one action per host call and per guest store, one disjunct per outcome of a command |
| `Alu`, `AluCheck` | the arithmetic of `t32_step`; reference definitions | operators on words of any width; every pair of operands |
| `MemoryMap` | address ranges of `t32.h` and their tests | operators |
| `Machine` | `t32_step`, `t32_run`, the bus, host calls | registers, memory, requests, state; one operator per group of instructions, `Step` is `t32_step`; a `t32_run` is `CallRun`, its `RunStep`s and its end |
| `HostView` | what a host can tell of a machine through its calls | `seen`: state, requests, keys left, display, dirty; `Execute` is a `t32_step` whose program the host does not know, the other actions are the host's own calls |
| `Runx` | `runx.c` | one action per window message; `Creations` lists every way `create_machine` ends |
| `BootChain` | `bios.s`, `boot.s` | `pc` is the next disk access or test; every access is an action, so that a swap fits between any two |
| `T32Disk` | create, format, put, get of `t32-disk.c` | a sequence of sectors and the command under way; one action per write |
| `Console` | `putchar.s`, `puts.s` | operators on a record of cells and a cursor |
| `Stage3` | `stage3.s`, `main.c` | `at` is the place in the program; `line`, `length`, `ch` are its variables; one action per poll, read or character handled |
| `T32Obj` | the object format as t32-nm and t32-ar check it, and t32-nm's output | operators on records of header, sections, symbols and relocations |
| `T32Ar` | `t32-ar.c` | `archive` is the file, with the number of parts written; `run` is the command under way; one action per member loaded, object replaced, part written or member extracted |
| `CcParser`, `CcUnit` | the parser of `t32-cc.c`: expressions and statements; structs, functions and the unit | operators from a sequence of tokens and a place to a tree and the next place, one per `parse_*` function |
| `CcOperators` | the code `emit_expression_node` writes for C's operators | operators from two registers to a straight line of instructions |
| `CcCode` | check of calls, frame layout, `emit_*` | operators from a tree to a sequence of instructions, one per `emit_*` function |
| `CcArithmetic` | the instructions of `t32_step` that compute a register from registers | one operator on the register file, on `Alu` |
| `CcTarget` | crt0, and the instructions the generator uses | `regs`, `mem`, `index`; one action per kind of instruction |
| `CMeaning` | nothing of the code: what C's operators mean on ints | the reference of `CSubset` and `OperatorCheck` |
| `OperatorCheck` | the code of each operator, run on a register file | compares `CcOperators`, executed by `CcArithmetic`, with `CMeaning` |
| `CSubset` | nothing of the code: what the language's programs are, how they are written, which are legal, what they return; and `Gaps` and `IsForgotten`, the places where t32-cc takes others | the reference `Compiler` compares with; it knows no registers, frames or offsets |
| `T32Cc` | `main` and the files of `t32-cc.c` | `files`, `job`, `step`; one action per step of `main`, and the user's editing, starting and killing it |
| `Compiler` | t32-cc as its user meets it | the driver, then the run of what it produced |
| `MC...` | instances: images, programs, disks, objects, texts | |
| `...Proofs` | theorems | |
| `NumberFacts` | lemmas on numbers and recursive functions the proofs share | |

Composition.  `Machine` uses `Alu` and `MemoryMap` and takes the keyboard as the
FIFO that `Keyboard` is shown to implement; its disk window delivers any word,
and the disk's own state is in `DiskController`.  `BootChain` EXTENDS
`DiskController` and composes the two firmware stages with all of its actions.
`Stage3` EXTENDS `Keyboard` and `Console`: the monitor polls the ring that the
host fills.  `Compiler` EXTENDS `T32Cc`, `CcTarget` and `CSubset`: the driver's
verdicts are the parser's and the generator's, its output runs on the
processor's ALU, and what it returns is compared with the program's meaning.
`T32Ar`'s index is compared with what `T32Obj` says t32-nm prints.

Refinement.  `Keyboard` implements `ByteFifo`, and `Stage3` uses it as `Keyboard`
says (`MonitorUsesKeyboard`); `BootChain` uses the disk as `DiskController` says
(`FirmwareUsesController`).  Between machine and host stands `HostView`: what the
calls of libt32vm can tell.  `Machine` implements it (`ActsAsSeen`, checked by
`machine` and proved for any program), and `Runx` executes its slices with it, so
that the machine inside t32-runx does what a machine can do and no more.  A slice is
thousands of `t32_step` calls and one step of `Runx`: `StepsMakeASlice` shows that
any number of `Executed` are one `Executed`.

### Abstractions

* **Words and sectors.** Every module has the word width, the sizes and the
  counts of the C macros as constants.  In `DiskController` a word carries where
  it came from (an image and a position, the guest, or zero), because the
  properties are about provenance.  In `BootChain` a word stands for 64 bytes, the
  size of a directory entry.  In `T32Disk` a sector is a header, a directory
  sector, the k-th sector of a host file, or zeros.
* **Instruction words.** `Decode` stands for the shifts and masks that take an
  instruction apart; that reserved fields must be zero is modelled.  In `CcTarget`
  an instruction takes one place and branches go to places: the generator never
  computes with addresses of code.
* **Time.** RTC EPOCH delivers any of a set of values or faults.
* **stdio.** Writes to an image reach it in order, and one that fails is
  reported by the next seek or write; the last write of a t32-disk command is
  reported by nobody, because `fflush` and `fclose` are not looked at.  Nor does
  get look at the `fclose` of the host file it writes (`t32-disk.c:652`): it may
  report success although up to `OutputBuffer` bytes, what stdio still held, never
  reached the file (`ExtractsAll`), and a get that fails leaves any beginning of
  what it copied (`ExtractsPart`).  t32-ar
  looks at its `fclose` only, t32-cc at `fclose` and at the exit codes of the
  tools: a step can fail noticed or unnoticed accordingly.  stdio's read-ahead in
  libt32vm is not modelled.  The tests against `LONG_MAX` cannot fail on the
  images of the model.
* **Dialogs.** A modal dialog lets timer messages by, but no command of `runx.c`
  keeps state across one: a command is one action.  `disk_attached` is written
  and never read, and is left out.
* **Firmware.** The loads of one name, or of the fixed header fields, are one
  action: a buffer cleared between them fails the comparison as a whole.
  Messages and banners of BIOS and BOOT are left out.  The rounding of a file's
  length does not wrap in the model, a reset during the boot is left out, and what
  a machine does that executes anything but a BOOT.BIN is not followed (`wild`).
* **STAGE3.** Bootinfo is valid or not; the texts of the replies are short.
* **Objects and archives.** The sizes and offsets of an object's tables are
  sound or not, each by itself; an archive is its members, its index and the
  number of its parts (header, tables, strings, each member) that reached the file.
* **t32-disk.** A directory entry is written whole; the flags field is left out;
  the bytes of a payload are taken not to look like entries when a sector of them
  is read as a directory.
* **t32-cc.** The input is the lexer's tokens.  The limits on structs, members and
  external functions are left out.  Strings lie at the bottom of memory.

Definitions under the heading *Defects the properties must exclude*, or called a
defect in their comment, are not used by any action.  Each is a plausible bug;
putting it in the place of the definition it mutates makes TLC find the property
violated, which shows that the property says something about the code
(`mutants` in `PROJECT.json`).

## 3. Runs

| Run | Module, cfg | What it shows | Bounds, and why they are enough |
|---|---|---|---|
| `disk` | `MCDiskController` | the sector count is the image's; no word crosses media; success means done; only the addressed sector changes; a swap is all or nothing | two images of different sizes, sectors of two words (half a sector can be torn), LBAs in and out of range, 2 changes of an image |
| `machine` | `MCMachine` | faults are precise, stores write their footprint, a clean display is shown, stopped stays stopped, the host sees what `HostView` allows, a limited run returns | three registers, 8-bit words of four 2-bit bytes, 24 bytes of RAM, five windows; programs in three groups: every two words of control flow and a third, arithmetic on the edges of the word, one memory instruction at the ends of every window; limits 0 (unlimited) and 2 |
| `runx` | `Runx` | all orders of commands, slices, repaints, with files that fail at every place | one firmware, two programs, two disks, two frames: a choice can change and a frame be stale |
| `runx_loading` | `Runx`, `RunxLoading.cfg` | violation, see *Findings* | as `runx` |
| `boot` | `MCBootChain`, `BootChain.cfg` | what gets control is the whole file; "not found" is true; no spliced sector; booting ends | six disks (both files, a file that passes the end of RAM, an empty file, formatted, raw, foreign), one swap at any access and one shortening; directory of two sectors |
| `boot_service` | `MCBootChain`, `BootService.cfg` | violation, see *Findings* | two disks, one swap |
| `t32disk` | `MCT32Disk`, `T32Disk.cfg` | listed files are whole, apart, unique and extracted as put, but for what the ignored `fclose` of get may lose; what a shortened image has left of a file's payload is its own | files of 0, half and one and a half sectors, three names (one typed in two cases), two image sizes, four directory entries in two sectors, one shortening; a stdio buffer of two bytes, less than one file and more than another; any number of failing and killed commands |
| `t32disk_truncated` | `MCT32Disk` | violation, see *Findings* | one size, one file |
| `monitor` | `MCStage3` | the cursor's row is prompt and line; the ring is a FIFO for STAGE3 and for any other guest; the clock is shown in decimal; a full ring is emptied | 3 rows of 7 cells (wraps and scrolls within a few commands), a line of 2 characters, a ring of 2 keys, keys for two commands, Enter, Delete and one that is ignored |
| `archive` | `MCT32Ar` | the index agrees with t32-nm; whole archives only; the update asked for or none; what is extracted was archived | two paths of one base name and a third, an object with local, absolute and undefined symbols, one of the same global, one refused; two members, up to two names on a command line; any number of commands failing or killed anywhere |
| `compiler` | `MCCompiler` | see below | 8-bit words and 2-bit chars, 4 scratch slots, tables of a few entries; registers up to r15; 63 programs; 1 fault and 1 edit, around three of them (one that links, one the generator refuses, one the parser refuses), kills anywhere |
| `compiler_calls` | `MCCompiler` | violation, see *Findings* | one program, no fault |

`compiler` compiles every program of `MCCompiler`, links it and runs it.
Those of `Good` use every form of expression and statement, expressions as deep
and tables as full as is accepted: they must return what `CSubset` says, halt,
and keep their stack.  Those of `Bad` (an undeclared name, a jump outside a loop,
a wrong number of arguments, a limit passed by one, ...) must be refused and leave
no output.  Those of `Near` are where t32-cc parts from the language.
`AcceptsTheSubset` says exactly which programs it takes: the legal ones and no
other, but for

* calls with the wrong number of arguments in the value of a store through a
  pointer, to an element or to a member, or in the index of an element stored, which it
  accepts (`Gaps`, "calls"), and calls of unknown functions there, which it leaves
  to the assembler and so accepts with `-S`;
* subscripts nested past the last register for temporaries (r9), which it accepts up
  to r15, the stack pointer ("subscripts");
* the clauses of a `for` that assign to an array or a struct, and `*p` of a pointer
  to a struct, which it accepts ("clauses", "follow");
* legal programs with a string, or the only calls of an external function, in the
  index of an element that is stored, which do not assemble (`IsForgotten`).

Each is met by a program of `Near`, on either side where there is a limit, so the
property would be violated without any one of these clauses.  An illegal
program that is accepted runs too; only that it stops is promised of it.  `CompiledMeansC` is about the
legal programs of the run.  Some others are known to be compiled wrongly: calls in
an index (`compiler_calls`), pointers to structs in sums and chars assigned in a
`for` (*Findings*).  A text may be edited between two steps of the driver.  The same run
compares every ALU instruction with arithmetic, and the code of every operator with
C's meaning, for all pairs of 8-bit operands: all signs, carries and overflows.

`boot`, `boot_service`, `compiler` and `compiler_calls` are checked without
deadlock checking: a machine that halted stays so.  An attach replaces the disk
in one call, so one swap puts the reads of two disks next to each other in every
way; every swap clears the buffer and LBA.

The model bounds are `MaxChanges` (images changed), `MaxSwaps` (disks swapped),
`MaxCuts` (images shortened), `MaxSectors` (growth of an image by a put that
passed a wrong space test), `CountModulus` (the 64-bit instruction counter),
`MaxArguments` (names on a command line of t32-ar), `MaxFaults` (failing steps of
t32-cc) and `MaxEdits` (edits of the C text); in `MCStage3` keys are pressed
before STAGE3 starts and while it waits for them, its other steps do not look at
the ring.

## 4. Fairness and liveness

* `Machine`: `WF(RunStep)`, `WF(RunEnds)`.  `t32_run` is a loop of the calling
  thread; once entered it takes its steps.  `RunReturns`: a limited run returns
  whatever the guest does.
* `BootChain`: `WF(Firmware)`.  A machine that is on executes instructions; host
  and disks owe nothing.  `BootEnds`: no search or load goes on for ever.
* `Stage3`: `WF(MonitorStep)`.  The guest executes instructions; the user owes no
  key.  `KeysAreTaken`: a full ring does not stay full while STAGE3 runs.
* `Compiler`: `WF(Execute)`.  A linked program that runs goes on; the driver owes
  nothing.  `ProgramsHalt`: a program of `MCCompiler` that is started halts or faults.

Safety properties need no fairness; `Runx` assumes none.

## 5. Proofs

All from the named assumptions on constants in the component's module
(`KeyboardAssumption`, `ConsoleAssumption`, `MonitorAssumption`,
`ClockAssumption`, `DiskAssumption`, `WordAssumption`, `MachineAssumption`,
`RunxAssumption`, `BootAssumption`, `T32DiskAssumption`, `NameAssumption`,
`ArAssumption`, `DriverAssumption`, `OperatorAssumption`, `MeaningAssumption`,
`WidthAssumption`); three theorems of `T32DiskProofs` have one
more hypothesis, `NoWrap`, explained there.  `MachineAssumption` says of the
program's constants what `t32.h` and the field masks of `t32.c` fix: four bytes
make a word, no window reaches the last address, the register counts of the small
devices, fields that name registers.

* `NumberFacts` has the lemmas the others share: division with remainder has one
  result (`Divided`, `DivisionIsUnique`, `DivisionNests`), a recursive function over
  an interval has its values and keeps what every step keeps (`RecursionExists`,
  from the least number at which it would not, and `RecursionKeeps`), powers by
  repeated multiplication and their sums of exponents (`PowersMultiply`, `PowersAdd`).

* `MonitorProofs`, the keyboard.  The inductive invariant is `TypeOK /\ RingConsistent`: the
  range of the indices alone is not enough to know that a push or a read keeps
  them apart.  From it `TypeCorrect`, `RingAlwaysConsistent` and `ImplementsFifo`,
  the refinement to `ByteFifo` for a ring of any size and any bytes.  The lemmas
  `WrapIsSlot`, `WrapInjective` and `WrapShift` are the modular
  arithmetic; `PushAppends` and `ReadTakes` say what one write to the array, or one
  step of `head`, does to the sequence the ring stands for.
* `MonitorProofs`, STAGE3.  `LineShown` and `TimeShown`, for a screen, line and texts of
  any size, under the assumption that prompt and line fit in a row and the texts hold
  no control characters.  `LineIsShown` is not inductive: a row may hold what
  was there before a scroll, and a command may leave the cursor anywhere.  `MonitorIInv` adds
  that nothing is shown behind the cursor (`Tidy`), that the cursor is at the start of
  a row when the prompt is due (`AtStart`), and that after a line that was filled up
  without Enter the reply ends the row, since a line with no character replies
  nothing.  `Editing` says cell by cell what the row holds.  `PutsAbove` is the
  row above the cursor after a `puts`, scrolled or not, and `RowReads` that the digits
  of `print_uint` read as the number; ten divisions by ten leave nothing of an
  int.  `Write`, `PutLines`, `Digits` and `NumberIn` are recursive functions, and
  `RecursionExists` gives each its values.  `MonitorUsesKeyboard`: each of the
  monitor's polls is an access of the window, so the ring's invariant and refinement hold
  below STAGE3.  `KeysGetNearer` is a ranking: while a key waits, each step of the monitor takes
  one, ends the program, or lowers the number of steps to the next one taken (`Away`).
* `ArithmeticProofs`, the ALU, for words of any width.
  `ArithmeticIsArithmetic`: the flags of ADD are exact and those of CMP decide every
  comparison; MUL and MULU agree because a signed reading differs from the word by a
  multiple of the modulus (`SameWord`), and the remainder fits because truncation
  leaves one smaller than the divisor (`Truncated`).  `ShiftsAndLogicAreRight`: a shift is split into the part that leaves and
  the part that stays (`WordSplits`), one shift more moves one bit (`LeftByOne`,
  `RightByOne`, `SignedByOne`), and `ShiftsCompose` puts that many together; and the
  word that adds up the powers of a set of bits has exactly these bits
  (`OnesAreBits`).  These use `WordAssumption` only.
* `ArithmeticProofs`, the compiler's operators.  `CodeMeansOperator`: for any register
  file and any two registers of r0 to r9, not only those a run tries, the code of an
  operator leaves what C means, touches nothing else the compiler keeps a value in,
  and faults exactly where C gives the operands no meaning (a zero divisor, and the
  one quotient that no int holds).  `OperatorsAreRight` is its instance at the
  operands of the run.  `AfterEach` is a recursive function over a line of code;
  `RecursionExists` gives it its values, and one lemma per group of operators follows them through the line.
  The top bit of x or -x tells whether x is zero, since one of the two is negative
  unless both are zero, or x is the least int; the sign of the difference decides an order
  unless the signs differ, and then the left sign does, which is what the mask of
  `Less` picks; the remainder is the dividend less divisor times truncated quotient
  (`DivisionIsC`).
* `ProcessorProofs`, the machine, for any program, memory map and host.
  `CleanMeansShown` and `StoppedStays`:
  `MachineIInv` adds to `CleanDisplayIsShown` that a `t32_run` under way has a
  machine that goes on (`RunGoesOn`): without it a step of the loop could move a
  machine that had stopped.  One lemma per group of instructions shows that
  whatever it stores marks the display, and only a running machine goes on.
  `FaultsArePrecise` and `WritesAreWithin` rest on the types of what a program
  computes with (`MachineTyped`): addresses must be words for an access to end
  before the last one (`WindowEnds`), which is why POP and RET, that store before they
  move the stack pointer, always move it.  Loads and stores are sums and digits of
  the radix: `LoadTyped` says a load is a number of so many places, `StoreTyped` that a store
  changes only its bytes and reads back.  `Obeys` is what each instruction is shown to
  do, one lemma per group: keep the types, fault without a trace, write inside.
  `MachineIsWhatTheHostSees` is the refinement of `HostView`.  `SeenIInv` puts the
  types, `MachineIInv` and the names of the states together; of every instruction
  `Latches` adds that it sets requests and never takes one back, marks the display
  it changes, and leaves of the keys a suffix (`Remaining`).  The end of a limited run
  needs `RunGoesOn`: it calls the machine stopped, which must not set going what had
  halted.  `LimitIsKept` is what a limit means: `t32_run` executes instruction after
  instruction, returns early only on a halt or fault, and with the reason `limit`
  after exactly so many.
* `HostProofs`, t32-runx.  `StepsMakeASlice` composes the calls of `t32_step` in one
  slice: what `Executed` allows twice it allows at once (`ExecutedComposes`), and there is no
  least number of steps for which it does not.  `RequestsAreServed`, `ChoicesAreKept`, `DisplayIsFollowed` and
  `OffIsFinal`, for any paths, frames and failures.  `RunxIInv` adds the link from
  the user's choice to the configuration (`RunxTyped`), that a machine that stopped
  by itself is off (`OffIsOff`), so that Start never resumes it, and that a machine
  that has not executed is still dirty (`FirstFrameDue`), so that its first slice
  invalidates the window although Start does not.
* `BootProofs`, the disk controller.  `TypeCorrect`, `CapacityIsRight` (the sector count computed on
  attach stays the image's size unless another process shortens it) and
  `MediaNeverMix` (no word of one image reaches another), for any images, sector
  size and commands.  The inductive invariant is the conjunction of the three: the
  range check (`lba < sectorCount`) gives with the capacity that a WRITE ends
  inside the image (`SectorFits`), so the length stays; types are needed to index
  image and buffer, and provenance is kept by each copy between the two.  From the
  same invariant the three action properties `SuccessIsTrue`, `NeighboursAreSafe`
  and `SwapsAreWhole`, with one lemma per command and host call.
* `BootProofs`, the boot chain.  `CopiesNeverMix`, `HandoffIsWhole` and `SearchIsComplete`, for any
  disks and directories, wherever they are swapped and shortened.  `BootIInv` has
  four parts.  `DisksTyped` and `FirmwareTyped` are the types.  `CopiesSectors` says
  that after a read without error the controller's buffer is a whole sector or blank,
  and that during a copy it still is the sector copied, or blank for good.  `Unswapped` gives, for the disk that
  stays, an outline of both stages, saying at each place of the firmware what is
  known there: that the entries passed over do not have the name (`Scanning`), that the
  entry found is the first of its name (`Choosing`), which words of the file are in
  RAM and how many sectors are left (`Loading`), and why the sector under way is
  read (`Purpose`).  It needs no case for a read that fails, since ERROR says so
  and the firmware stops; the images keep their words because the firmware never
  writes, and a shortened image only makes reads fail.
  `FirmwareUsesController` makes every theorem on the controller one on the boot chain.
  `FirmwareGetsNearer` is a ranking: every access or test of BIOS and BOOT lowers the
  stages left, or the entries or sectors left in one, or the accesses left for it, which
  are natural numbers (`LeftIsCounted`), and no call of the host raises them.
* `T32DiskProofs`.  `NamesStayUnique` without further hypothesis; `FilesStayIntact`,
  `NothingForeign` and `ExtractionMatches` under `NoWrap`: no host file's length
  wraps in 32 bits when it is rounded up to sectors.  The code does wrap there
  (`t32-disk.c:549`, see *Findings*), and a wrapped length passes the space test, so
  the hypothesis cannot be dropped.  The inductive invariant adds to the
  properties that the put under way has written its sectors past every listed extent
  (`PutInOrder`), that a payload sector inside a listed extent is that file's
  (`OwnData`, true even of an image without header that is long enough for format
  to accept it), that format has room for its sectors (`FormatHasRoom`), that the
  image nobody cut has its directory and every extent (`UncutIsWhole`), and that
  get has no output before it ends (`GetEnded`).  `ExtractionMatches` says no more
  than the code does: however get ends the host file is a beginning of the file put
  (`ExtractsBeginning`), and after a success at most `OutputBuffer` bytes of it are
  missing, for any size of that buffer.  That the free slot and the free sector are the first ones comes
  from the well-foundedness of the orders, in place of induction.
* `ArchiveProofs`.  `TornIsRefused`: wherever a write stopped, a command works on a
  whole archive or on none, for archives of any length.  `ArIInv` bounds the parts
  written by the parts the members make.  `IndexAgreesWithNm`, `UpdatesAreWhole` and
  `ExtractionIsArchived`, for any objects, names and number of arguments, from
  `CommandIInv`: no two members of a table share a name (`Indexed`), nothing reaches
  the file before the write (`Untouched`), the table holds what the names done so
  far ask for (`Updating`), and what was copied so far is in its file
  (`Extracting`).  Unique names are what makes both work: the first member found is
  the only one, so that replacing or deleting it does the whole job, and a file
  extracted is never written for another member.  `FlattenElements` says what
  `FlattenSeq` collects; its recursion has a solution because there is no first
  place at which it fails.
* `HostProofs`, the driver of t32-cc.  `SuccessMeansFresh` and `FailureIsClean`, for any texts and any
  number of failures, kills and edits.  `DriverIInv` says of every step what its
  files hold: an intermediate file is this invocation's, whole unless a failure
  went unnoticed (`Freshness`), and before a kill a temporary exists only between
  its creation and the cleaning up (`Tidiness`).

Only model-checked: `CompiledMeansC`, `CallsReturn` and `AcceptsTheSubset`, that is
everything about the compiler but its driver and the code of its operators, and the
liveness properties (`RunReturns`, `BootEnds`, `KeysAreTaken`, `ProgramsHalt`).  Of the first three
the part that needs no fairness is proved (`LimitIsKept`, `FirmwareGetsNearer`,
`KeysGetNearer`): every step lowers a bounded measure or ends.  Out of the prover's
reach: liveness under fairness and ENABLED; induction over data, that is what a
recursive definition computes for every input; and the modules with recursive
operators (`CcParser`, `CcUnit`, `CcCode`, `CcTarget`, `CSubset`, `Compiler`), a
parser and a generator of nested trees.

## 6. Findings

1. `runx_loading`.  `load_program` returns early when the configured disk
   cannot be attached and leaves `running` as it was (`runx.c:383`): the program
   loaded goes on running without Start, against the README of t32-runx (lines
   40-42) and the comment at `runx.c:386`.
2. `boot_service`.  A disk changed between two accesses of the BIOS's `disk_read`
   makes it return success without the sector asked for (`bios.s:51`), against
   `docs/abi/T32-BOOT-ABI.md:80`.  `NoSplicedSector` bounds the damage: the copy is
   the start of some sector and zeros, never a mixture.
3. `t32disk_truncated`.  On an image that lost part of its directory,
   `next_free_lba` returns 0 for an error (`t32-disk.c:403`) and put writes the
   payload over the header.
4. `compiler_calls`.  The address of an array waits in a caller-saved register
   while its index is computed, which may call (`t32-cc.c:2747`), against
   `docs/abi/02-calling-convention.md:83` and the comment at `t32-cc.c:2795`.

Met while modelling, with no run of their own:

* t32-runx: the lamp stays green when `machine_reset` cannot create the machine
  (`runx.c:327`).
* BIOS: it copies whole sectors and not `byte_length` bytes (`bios.s:203`), against
  `T32D-DISK-FORMAT.md:74`.
* STAGE3: `print_uint` prints nothing for a reading of 2^31 or more.
* t32-disk: put reports success when the last write does not reach the image
  (`t32-disk.c:593`), get when the end of the host file does not reach it
  (`t32-disk.c:652`), which loses a file shorter than stdio's buffer altogether; the sector count of a file within a sector of 4 GiB wraps to
  0 (`t32-disk.c:549`), the space test passes and the next file overlaps it.
* t32-ar: the results of its writes are ignored up to `fclose`, and that of an
  extracted file's `fclose` altogether.
* t32-cc: a subscript evaluated when all registers are taken overwrites its own
  index; the generated code changes r8-r13 without saving them, against the ABI's
  "preserve"; a pointer to a struct plus 1 advances by 4; the length of an array
  times 4 wraps in 32 bits (`t32-cc.c:2341`); calls in the index of an element
  assignment and in the value of a store through a pointer, to an element or to a
  member are not validated (`t32-cc.c:1957`), although `tests/run_tests.py` wants a
  wrong number of arguments and an undefined function rejected; strings in the index of an element
  assignment are not emitted (`t32-cc.c:3302`), nor is an external function declared that is called only
  there (`t32-cc.c:3333`); a subscript takes registers past r9, up to the stack
  pointer, without a test (`t32-cc.c:2747`); the
  assignment in the clauses of a `for` does not look at its target's type and
  stores a word into a char, an array or a struct; a pointer to a struct can be followed with `*`; `/*/` at the end of the text is taken for a comment;
  a text that does not parse leaves the output of an earlier compilation.

## 7. Not modelled

* The lexer of t32-cc: characters to tokens, in which the properties here see
  nothing but layout.  `src/t32-cc.c` is an earlier copy of the compiler.
* The string, memory and conversion routines of libt32 (`memmove`, `strtol` and
  the like): loops over two pointers with no state between calls, which tests of
  short inputs reach as well as a model would.
* t32-node: superseded, with another encoding.
* The Stats and About windows, `--help` and `--version`: they change nothing.
* Tokenizer, nesting of scripts, `list` and `info` of t32-disk: the commands they
  end in are modelled, and the last two change nothing.
* Order and layout of what t32-nm prints.
* t32-as, t32-ld, t32-run: their sources are not in the repository; what t32-cc
  expects of the first two is in `T32Cc` and `CcTarget`, marked external.
* A `remove()` of t32-cc that fails.
* Build files, samples, images.
