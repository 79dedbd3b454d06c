------------------------------ MODULE Machine -------------------------------
(***************************************************************************)
(* The T32 machine of libt32vm (src/vm/libt32vm/src/t32.c): the processor  *)
(* with its registers, flags and halt state, RAM and the text display, and *)
(* the devices as the bus shows them.  The host calls t32_step or t32_run  *)
(* and, between two calls, types, clears requests, paints and resets.      *)
(*                                                                         *)
(* Words are WordBits bits in four bytes of radix Radix, so that byte      *)
(* order, address arithmetic and wrapping are the program's at any width.  *)
(* Decode stands for the bit fields of an instruction word.  The keyboard  *)
(* is the FIFO that module Keyboard is shown to implement; the disk's own  *)
(* state is in DiskController, and here it delivers any of DiskWords.      *)
(***************************************************************************)
EXTENDS Alu, MemoryMap, Sequences

CONSTANTS
    Radix,           \* the values of a byte, 256
    RegisterCount,   \* T32_REGISTER_COUNT
    Decode,          \* word -> the fields of the instruction it encodes
    DiskDataOffset,  \* T32_DISK_DATA_OFFSET
    DiskWords,       \* what a load from the disk window may deliver
    Clock,           \* the words RTC EPOCH may deliver
    DeviceId,        \* the value of the identification registers
    CpuIdValue,      \* T32_CPUID_VALUE
    Blank,           \* the space character
    QueueSize,       \* T32_KEYBOARD_QUEUE_SIZE
    Keys,            \* the characters the host types
    Limits,          \* the instruction limits the host passes to t32_run
    CountModulus,    \* 2^64, the width of instruction_count
    Setups           \* the RAM, registers and pc the host starts from

Regs == 0 .. RegisterCount - 1
StackPointer == RegisterCount - 1
RamIds == 0 .. RamSize - 1
VideoIds == 0 .. Size["video"] - 1
Bytes == 0 .. Radix - 1

PlaceValue[n \in 0 .. 4] == IF n = 0 THEN 1 ELSE Radix * PlaceValue[n - 1]

ASSUME MachineAssumption ==
    /\ Radix \in Nat \ {0, 1} /\ PlaceValue[4] = M /\ AddressSpace = M
    /\ \A d \in Devices : Base[d] + Size[d] < M
    /\ Size["keyboard"] = 12 /\ Size["rtc"] = 12 /\ Size["platform"] = 16
    /\ RegisterCount \in Nat \ {0}
    /\ DOMAIN Decode = Words
    /\ \A w \in Words : {Decode[w].rd, Decode[w].ra, Decode[w].rb} \subseteq Regs
    /\ DiskWords \subseteq Words /\ Clock \subseteq Words
    /\ DeviceId \in Words /\ CpuIdValue \in Words /\ Blank \in Bytes
    /\ QueueSize \in Nat \ {0} /\ Keys \subseteq Bytes
    /\ Limits \subseteq Nat /\ CountModulus \in Nat \ {0}
    /\ \A s \in Setups : /\ s.ram \in [RamIds -> Bytes]
                         /\ s.regs \in [Regs -> Words] /\ s.pc \in Words

VARIABLES
    regs, pc, flags,       \* registers, pc, flags
    ram, video,            \* memory, video_memory
    dirty,                 \* video_dirty
    shown,                 \* the display as the host last took it (history)
    keys,                  \* the keyboard queue, oldest first
    powerOff, resetReq,    \* platform_power_off_requested, ..._reset_requested
    state, reason,         \* state, and the kind of halt_reason
    count,                 \* instruction_count
    outcome,               \* what the last t32_step or t32_run returned
    run                    \* the t32_run in progress: its limit and progress

store == <<ram, video, dirty, powerOff, resetReq>>
cpu == <<regs, pc, flags, state, reason, count>>
vars == <<cpu, store, shown, keys, outcome, run>>

Idle == [active |-> FALSE, limit |-> 0, executed |-> 0]

\* t32_create and the host's loading: t32_load_file, t32_set_register and
\* t32_set_pc on a machine fresh from t32_reset.
Init ==
    /\ \E s \in Setups : ram = s.ram /\ regs = s.regs /\ pc = s.pc
    /\ flags = NoFlags
    /\ video = [v \in VideoIds |-> Blank] /\ dirty = TRUE
    /\ shown = [v \in VideoIds |-> 0]
    /\ keys = << >> /\ powerOff = FALSE /\ resetReq = FALSE
    /\ state = "STOPPED" /\ reason = "" /\ count = 0
    /\ outcome = "none" /\ run = Idle

-----------------------------------------------------------------------------
(***************************************************************************)
(* Defects the properties must exclude.  No action uses them.              *)
(***************************************************************************)
\* A halfword store writes a word.
WidthOfHalfIsWord == [LDB |-> 1, LDH |-> 2, LDW |-> 4, STB |-> 1, STH |-> 4, STW |-> 4]

-----------------------------------------------------------------------------
(***************************************************************************)
(* The bus.  Loads and stores are little-endian.                           *)
(***************************************************************************)
Load(memory, offset, n) ==
    LET low[i \in 0 .. n] ==
          IF i = 0 THEN 0 ELSE low[i - 1] + memory[offset + i - 1] * PlaceValue[i - 1]
    IN  low[n]

StoreBytes(memory, offset, n, value) ==
    [b \in DOMAIN memory |->
        IF b \in offset .. offset + n - 1
        THEN (value \div PlaceValue[b - offset]) % Radix
        ELSE memory[b]]

IsRegister(offset, n) == n = 4 /\ offset % 4 = 0

Delivered(value, k) == [ok |-> TRUE, value |-> value, keys |-> k]
NotDelivered(k) == [ok |-> FALSE, value |-> 0, keys |-> k]

KeyboardLoad(k, offset, n) ==
    IF ~ IsRegister(offset, n) THEN {NotDelivered(k)}
    ELSE CASE offset = 0 -> {Delivered(DeviceId, k)}
           [] offset = 4 -> {Delivered(IF k = << >> THEN 0 ELSE 1, k)}
           [] offset = 8 -> {IF k = << >> THEN Delivered(0, k)
                                          ELSE Delivered(Head(k), Tail(k))}

\* EPOCH fails, and STATUS is 0, when the host's time does not fit a word.
RtcLoad(k, offset, n) ==
    IF ~ IsRegister(offset, n) THEN {NotDelivered(k)}
    ELSE CASE offset = 0 -> {Delivered(DeviceId, k)}
           [] offset = 4 -> {Delivered(0, k), Delivered(1, k)}
           [] offset = 8 -> {Delivered(now, k) : now \in Clock} \cup {NotDelivered(k)}

PlatformLoad(k, offset, n) ==
    IF ~ IsRegister(offset, n) THEN {NotDelivered(k)}
    ELSE CASE offset = 0 -> {Delivered(DeviceId, k)}
           [] offset = 4 -> {Delivered(IF powerOff \/ resetReq THEN 1 ELSE 0, k)}
           [] offset = 8 -> {Delivered(0, k)}
           [] offset = 12 -> {Delivered(RamSize, k)}

DiskLoad(k, offset, n) ==
    IF offset >= DiskDataOffset
    THEN {Delivered(w % PlaceValue[n], k) : w \in DiskWords}
    ELSE IF IsRegister(offset, n) THEN {Delivered(w, k) : w \in DiskWords}
    ELSE {NotDelivered(k)}

\* t32_read_memory: what a load of n bytes may deliver and the keys it leaves.
BusLoad(k, address, n) ==
    LET region == ReadRegion(address, n)
    IN  CASE region = "video" ->
                {Delivered(Load(video, address - Base["video"], n), k)}
          [] region = "disk" -> DiskLoad(k, address - Base["disk"], n)
          [] region = "keyboard" -> KeyboardLoad(k, address - Base["keyboard"], n)
          [] region = "rtc" -> RtcLoad(k, address - Base["rtc"], n)
          [] region = "platform" -> PlatformLoad(k, address - Base["platform"], n)
          [] region = "ram" -> {Delivered(Load(ram, address, n), k)}
          [] region = "none" -> {NotDelivered(k)}

PlatformOffset(address) == address - Base["platform"]

\* Which stores t32_write_memory accepts.
Accepts(address, n, value) ==
    LET region == WriteRegion(address, n)
    IN  \/ region \in {"video", "ram"}
        \/ /\ region = "disk"
           /\ \/ address - Base["disk"] >= DiskDataOffset
              \/ IsRegister(address - Base["disk"], n)
        \/ /\ region = "platform"
           /\ IsRegister(PlatformOffset(address), n)
           /\ PlatformOffset(address) = 8
           /\ value \in {1, 2}

\* A defect no action uses: a store to the control register makes one request
\* and drops the other.
PutReplacesRequest(address, n, value) ==
    LET region == WriteRegion(address, n)
        requests == region = "platform" /\ value \in {1, 2}
    IN  /\ ram' = IF region = "ram" THEN StoreBytes(ram, address, n, value) ELSE ram
        /\ video' = IF region = "video"
                    THEN StoreBytes(video, address - Base["video"], n, value)
                    ELSE video
        /\ dirty' = (dirty \/ video' # video)
        /\ powerOff' = IF requests THEN value = 1 ELSE powerOff
        /\ resetReq' = IF requests THEN value = 2 ELSE resetReq

\* What an accepted store changes.  The display is dirty only if it differs.
Put(address, n, value) ==
    LET region == WriteRegion(address, n)
    IN  /\ ram' = IF region = "ram" THEN StoreBytes(ram, address, n, value) ELSE ram
        /\ video' = IF region = "video"
                    THEN StoreBytes(video, address - Base["video"], n, value)
                    ELSE video
        /\ dirty' = (dirty \/ video' # video)
        /\ powerOff' = (powerOff \/ (region = "platform" /\ value = 1))
        /\ resetReq' = (resetReq \/ (region = "platform" /\ value = 2))

-----------------------------------------------------------------------------
(***************************************************************************)
(* How an instruction ends.  next is the pc it leaves, k the keys left in  *)
(* the keyboard.                                                           *)
(***************************************************************************)
Ends(newState, result, next, k) ==
    /\ state' = newState
    /\ outcome' = result
    /\ pc' = next
    /\ keys' = k

Retires(next, k) == Ends("STOPPED", "OK", next, k) /\ UNCHANGED reason

Halts(why, next, k) ==
    /\ Ends("HALTED", "HALTED", next, k)
    /\ reason' = why
    /\ UNCHANGED <<regs, flags, store>>

\* set_fault; what an instruction changed before it faulted stays changed.
Faults(why, next, k) == Ends("ERROR", "FAULT", next, k) /\ reason' = why
CleanFault(why, next, k) ==
    Faults(why, next, k) /\ UNCHANGED <<regs, flags, store>>

SetsRegister(rd, value, next, k) ==
    /\ regs' = [regs EXCEPT ![rd] = value]
    /\ Retires(next, k)
    /\ UNCHANGED <<flags, store>>

SetsResult(rd, out, next, k) ==
    /\ regs' = [regs EXCEPT ![rd] = out.result]
    /\ flags' = out.flags
    /\ Retires(next, k)
    /\ UNCHANGED store

-----------------------------------------------------------------------------
(***************************************************************************)
(* Defects the properties must exclude.  No action uses them.              *)
(***************************************************************************)
\* A push moves the stack pointer before it knows that the store succeeds.
PushMovesFirst(value, target, next, k) ==
    LET sp == regs[StackPointer]
        fits == sp >= 4 /\ Accepts(sp - 4, 4, value)
    IN  /\ regs' = [regs EXCEPT ![StackPointer] = (sp - 4) % M]
        /\ UNCHANGED flags
        /\ \/ fits /\ Put(sp - 4, 4, value) /\ Retires(target, k)
           \/ ~ fits /\ Faults("memory", next, k) /\ UNCHANGED store

-----------------------------------------------------------------------------
(***************************************************************************)
(* The instructions.  i is the decoded instruction, next the pc after it   *)
(* and, for the long forms, after its extension word, k the keys left.     *)
(***************************************************************************)
\* instruction_encoding_mask: the operand fields an opcode uses.
UsedFields(op) ==
    CASE op \in {"HALT", "NOP", "TRAP", "IRET", "JMP", "RET", "CALL"} -> {}
      [] op \in {"CPUID", "MOVI", "POP"} -> {"rd"}
      [] op \in {"CMPI", "JZ", "JNZ", "PUSH"} -> {"ra"}
      [] op \in {"MOV", "LDB", "LDH", "LDW", "ADDI", "SUBI", "NOT"} -> {"rd", "ra"}
      [] op \in {"STB", "STH", "STW", "CMP"} -> {"ra", "rb"}
      [] OTHER -> {"rd", "ra", "rb"}

\* A field the opcode does not use, or the low bits, must be zero.
WellEncoded(i) ==
    i.op = "UNKNOWN" \/ \A f \in {"rd", "ra", "rb", "low"} \ UsedFields(i.op) : i[f] = 0

Halt(i, next, k) == i.op = "HALT" /\ Halts("HALT instruction", next, k)

Nop(i, next, k) ==
    i.op = "NOP" /\ Retires(next, k) /\ UNCHANGED <<regs, flags, store>>

CpuId(i, next, k) == i.op = "CPUID" /\ SetsRegister(i.rd, CpuIdValue, next, k)

Mov(i, next, k) == i.op = "MOV" /\ SetsRegister(i.rd, regs[i.ra], next, k)

Width == [LDB |-> 1, LDH |-> 2, LDW |-> 4, STB |-> 1, STH |-> 2, STW |-> 4]

LoadMemory(i, next, k) ==
    /\ i.op \in {"LDB", "LDH", "LDW"}
    /\ \E got \in BusLoad(k, regs[i.ra], Width[i.op]) :
          \/ got.ok /\ SetsRegister(i.rd, got.value, next, got.keys)
          \/ ~ got.ok /\ CleanFault("memory", next, got.keys)

StoreMemory(i, next, k) ==
    /\ i.op \in {"STB", "STH", "STW"}
    /\ LET address == regs[i.ra]
           n == Width[i.op]
           value == regs[i.rb] % PlaceValue[n]
       IN  \/ /\ Accepts(address, n, value)
              /\ Put(address, n, value)
              /\ Retires(next, k)
              /\ UNCHANGED <<regs, flags>>
           \/ /\ ~ Accepts(address, n, value)
              /\ CleanFault("memory", next, k)

ThreeRegister(i, next, k) ==
    LET left == regs[i.ra]
        right == regs[i.rb]
        is(op, out) == i.op = op /\ SetsResult(i.rd, out, next, k)
    IN  \/ is("ADD", AluAdd(left, right))
        \/ is("SUB", AluSub(left, right))
        \/ is("MUL", Mul(left, right))
        \/ is("MULU", MulU(left, right))
        \/ is("AND", And(left, right))
        \/ is("OR", Or(left, right))
        \/ is("XOR", Xor(left, right))
        \/ is("NOT", Not(left))
        \/ is("SHL", Shl(left, right))
        \/ is("SHR", Shr(left, right))
        \/ is("SAR", Sar(left, right))

Divide(i, next, k) ==
    LET left == regs[i.ra]
        right == regs[i.rb]
        either(op, faults, out) ==
          /\ i.op = op
          /\ \/ faults /\ CleanFault("divide", next, k)
             \/ ~ faults /\ SetsResult(i.rd, out, next, k)
    IN  \/ either("DIV", DivFaults(left, right), Div(left, right))
        \/ either("DIVU", DivUFaults(left, right), DivU(left, right))

Compares(right, i, next, k) ==
    /\ flags' = AluSub(regs[i.ra], right).flags
    /\ Retires(next, k)
    /\ UNCHANGED <<regs, store>>

Cmp(i, next, k) == i.op = "CMP" /\ Compares(regs[i.rb], i, next, k)

\* stack_push: the pointer moves only after the store succeeded; target is
\* the pc of a push that succeeds, next of one that fails.
PushOrFault(value, target, next, k) ==
    LET sp == regs[StackPointer]
        fits == sp >= 4 /\ Accepts(sp - 4, 4, value)
    IN  \/ /\ fits
           /\ Put(sp - 4, 4, value)
           /\ regs' = [regs EXCEPT ![StackPointer] = sp - 4]
           /\ Retires(target, k)
           /\ UNCHANGED flags
        \/ ~ fits /\ CleanFault("memory", next, k)

Push(i, next, k) == i.op = "PUSH" /\ PushOrFault(regs[i.ra], next, next, k)

\* stack_pop stores the word before it checks that the pointer can move.
Pop(i, next, k) ==
    /\ i.op = "POP"
    /\ LET sp == regs[StackPointer]
       IN  \E got \in BusLoad(k, sp, 4) :
              LET loaded == IF got.ok THEN [regs EXCEPT ![i.rd] = got.value] ELSE regs
                  moves == got.ok /\ sp + 4 < M
              IN  /\ regs' = IF moves THEN [loaded EXCEPT ![StackPointer] = sp + 4]
                                      ELSE loaded
                  /\ IF moves THEN Retires(next, got.keys)
                              ELSE Faults("memory", next, got.keys)
    /\ UNCHANGED <<flags, store>>

\* RET and IRET pop the pc.
Return(i, next, k) ==
    /\ i.op \in {"RET", "IRET"}
    /\ LET sp == regs[StackPointer]
       IN  \E got \in BusLoad(k, sp, 4) :
              LET target == IF got.ok THEN got.value ELSE next
                  moves == got.ok /\ sp + 4 < M
              IN  /\ regs' = IF moves THEN [regs EXCEPT ![StackPointer] = sp + 4]
                                      ELSE regs
                  /\ IF moves THEN Retires(target, got.keys)
                              ELSE Faults("memory", target, got.keys)
    /\ UNCHANGED <<flags, store>>

-----------------------------------------------------------------------------
(***************************************************************************)
(* The long forms: value is the extension word.                            *)
(***************************************************************************)
Trap(i, value, next, k) == i.op = "TRAP" /\ Halts("TRAP", next, k)

MovI(i, value, next, k) ==
    /\ i.op = "MOVI"
    /\ regs' = [regs EXCEPT ![i.rd] = value]
    /\ flags' = [flags EXCEPT !.zero = (value = 0), !.negative = Top(value)]
    /\ Retires(next, k)
    /\ UNCHANGED store

Immediate(i, value, next, k) ==
    \/ i.op = "ADDI" /\ SetsResult(i.rd, AluAdd(regs[i.ra], value), next, k)
    \/ i.op = "SUBI" /\ SetsResult(i.rd, AluSub(regs[i.ra], value), next, k)
    \/ i.op = "CMPI" /\ Compares(value, i, next, k)

Jump(i, value, next, k) ==
    /\ i.op \in {"JMP", "JZ", "JNZ"}
    /\ LET taken == CASE i.op = "JMP" -> TRUE
                      [] i.op = "JZ"  -> regs[i.ra] = 0
                      [] i.op = "JNZ" -> regs[i.ra] # 0
       IN  Retires(IF taken THEN value ELSE next, k)
    /\ UNCHANGED <<regs, flags, store>>

\* CALL pushes the address after its own extension word.
Call(i, value, next, k) ==
    /\ i.op = "CALL"
    /\ PushOrFault(next, value, next, k)

Extended(i, next, k) ==
    /\ i.op \in {"TRAP", "MOVI", "ADDI", "SUBI", "CMPI", "JMP", "JZ", "JNZ", "CALL"}
    /\ \E got \in BusLoad(k, next, 4) :
          \/ ~ got.ok /\ CleanFault("extension", next, got.keys)
          \/ /\ got.ok
             /\ LET after == (next + 4) % M
                IN  \/ Trap(i, got.value, after, got.keys)
                    \/ MovI(i, got.value, after, got.keys)
                    \/ Immediate(i, got.value, after, got.keys)
                    \/ Jump(i, got.value, after, got.keys)
                    \/ Call(i, got.value, after, got.keys)

Execute(i, next, k) ==
    \/ ~ WellEncoded(i) /\ CleanFault("encoding", next, k)
    \/ i.op = "UNKNOWN" /\ CleanFault("opcode", next, k)
    \/ /\ WellEncoded(i)
       /\ \/ Halt(i, next, k) \/ Nop(i, next, k) \/ CpuId(i, next, k)
          \/ Mov(i, next, k) \/ LoadMemory(i, next, k) \/ StoreMemory(i, next, k)
          \/ ThreeRegister(i, next, k) \/ Divide(i, next, k) \/ Cmp(i, next, k)
          \/ Push(i, next, k) \/ Pop(i, next, k) \/ Return(i, next, k)
          \/ Extended(i, next, k)

\* t32_step.
Step ==
    \/ /\ state = "HALTED"
       /\ outcome' = "HALTED"
       /\ UNCHANGED <<cpu, store, keys>>
    \/ /\ state = "ERROR"
       /\ outcome' = "FAULT"
       /\ UNCHANGED <<cpu, store, keys>>
    \/ /\ state = "STOPPED"
       /\ \E got \in BusLoad(keys, pc, 4) :
             \/ ~ got.ok /\ CleanFault("fetch", pc, got.keys) /\ UNCHANGED count
             \/ /\ got.ok
                /\ count' = (count + 1) % CountModulus
                /\ Execute(Decode[got.value], (pc + 4) % M, got.keys)

-----------------------------------------------------------------------------
(***************************************************************************)
(* Defects the properties must exclude.  No action uses them.              *)
(***************************************************************************)
\* t32_run goes on after a halt, until its limit.
RunIgnoresHalt ==
    /\ run.active
    /\ run.limit = 0 \/ run.executed < run.limit
    /\ Step
    /\ run' = IF outcome' = "FAULT" THEN Idle
              ELSE IF run.limit = 0 THEN run
              ELSE [run EXCEPT !.executed = @ + 1]
    /\ UNCHANGED shown

\* t32_run counts the steps that did not succeed instead of all of them.
RunNeverCounts ==
    /\ run.active
    /\ run.limit = 0 \/ run.executed < run.limit
    /\ Step
    /\ run' = IF outcome' # "OK" THEN Idle ELSE run
    /\ UNCHANGED shown

\* A reset blanks the display and does not say so.
ResetKeepsDirty ==
    /\ ~ run.active
    /\ regs' = [r \in Regs |-> 0] /\ pc' = 0 /\ flags' = NoFlags
    /\ video' = [v \in VideoIds |-> Blank]
    /\ keys' = << >> /\ powerOff' = FALSE /\ resetReq' = FALSE
    /\ state' = "STOPPED" /\ reason' = "" /\ count' = 0
    /\ outcome' = "none"
    /\ UNCHANGED <<ram, dirty, shown, run>>

-----------------------------------------------------------------------------
(***************************************************************************)
(* The host's calls.  It has one thread: between the first and the last    *)
(* step of a t32_run nothing else happens.                                 *)
(***************************************************************************)
CallStep == ~ run.active /\ Step /\ UNCHANGED <<shown, run>>

CallRun(limit) ==
    /\ ~ run.active
    /\ run' = [active |-> TRUE, limit |-> limit, executed |-> 0]
    /\ outcome' = "none"
    /\ UNCHANGED <<cpu, store, shown, keys>>

\* The body of t32_run's loop; an unlimited run counts nothing anyone reads.
RunStep ==
    /\ run.active
    /\ run.limit = 0 \/ run.executed < run.limit
    /\ Step
    /\ run' = IF outcome' # "OK" THEN Idle
              ELSE IF run.limit = 0 THEN run
              ELSE [run EXCEPT !.executed = @ + 1]
    /\ UNCHANGED shown

RunEnds ==
    /\ run.active
    /\ run.limit # 0 /\ run.executed >= run.limit
    /\ state' = "STOPPED" /\ reason' = "limit"
    /\ outcome' = "OK" /\ run' = Idle
    /\ UNCHANGED <<regs, pc, flags, count, store, shown, keys>>

PushKey(c) ==
    /\ ~ run.active
    /\ Len(keys) < QueueSize
    /\ keys' = Append(keys, c)
    /\ outcome' = "none"
    /\ UNCHANGED <<cpu, store, shown, run>>

\* t32_video_clear_dirty, by a host that has taken the display.
TakeDisplay ==
    /\ ~ run.active
    /\ dirty' = FALSE /\ shown' = video
    /\ outcome' = "none"
    /\ UNCHANGED <<cpu, ram, video, powerOff, resetReq, keys, run>>

ClearRequests ==
    /\ ~ run.active
    /\ powerOff' = FALSE /\ resetReq' = FALSE
    /\ outcome' = "none"
    /\ UNCHANGED <<cpu, ram, video, dirty, shown, keys, run>>

\* t32_clear_halt: a fault is not cleared.
ClearHalt ==
    /\ ~ run.active
    /\ IF state = "HALTED" THEN state' = "STOPPED" /\ reason' = ""
                           ELSE UNCHANGED <<state, reason>>
    /\ outcome' = "none"
    /\ UNCHANGED <<regs, pc, flags, count, store, shown, keys, run>>

\* t32_reset keeps RAM.
Reset ==
    /\ ~ run.active
    /\ regs' = [r \in Regs |-> 0] /\ pc' = 0 /\ flags' = NoFlags
    /\ video' = [v \in VideoIds |-> Blank] /\ dirty' = TRUE
    /\ keys' = << >> /\ powerOff' = FALSE /\ resetReq' = FALSE
    /\ state' = "STOPPED" /\ reason' = "" /\ count' = 0
    /\ outcome' = "none"
    /\ UNCHANGED <<ram, shown, run>>

Next ==
    \/ CallStep
    \/ \E limit \in Limits : CallRun(limit)
    \/ RunStep
    \/ RunEnds
    \/ \E c \in Keys : PushKey(c)
    \/ TakeDisplay \/ ClearRequests \/ ClearHalt \/ Reset

Spec == Init /\ [][Next]_vars

\* t32_run is a loop of the calling thread: once entered it takes its steps.
FairSpec == Spec /\ WF_vars(RunStep) /\ WF_vars(RunEnds)

-----------------------------------------------------------------------------
(***************************************************************************)
(* Properties.                                                             *)
(***************************************************************************)
\* A host that repaints only when the display is dirty never shows a stale
\* screen: a clean display is the one it took last, also across a reset.
CleanDisplayIsShown == dirty \/ video = shown

\* Faults are precise: the instruction that faults has changed no register,
\* flag, byte of RAM or display and made no request, although it may have
\* read its extension or a device first; the pc is in the instruction.
FaultIsPrecise ==
    [][ state # "ERROR" /\ state' = "ERROR" =>
          /\ UNCHANGED <<regs, flags, store>>
          /\ pc' \in {pc, (pc + 4) % M, (pc + 8) % M}
      ]_vars

\* What stopped stays stopped: no step, limited run or cleared halt makes a
\* faulted machine execute or look stopped again before a reset, nor a halted
\* one before the host clears the halt.
StopIsFinal ==
    [][ /\ state = "ERROR" => UNCHANGED <<cpu, ram, video>> \/ Reset
        /\ state = "HALTED" =>
              UNCHANGED <<cpu, ram, video>> \/ ClearHalt \/ Reset ]_vars

\* The bytes the instruction at the pc is meant to write.
Current == Decode[Load(ram, pc, 4)]
Target == IF Current.op \in {"PUSH", "CALL"} THEN regs[StackPointer] - 4
                                            ELSE regs[Current.ra]
Footprint ==
    CASE Current.op = "STB" -> {Target}
      [] Current.op = "STH" -> Target .. Target + 1
      [] Current.op \in {"STW", "PUSH", "CALL"} -> Target .. Target + 3
      [] OTHER -> {}

\* An instruction in RAM writes only the bytes it names, and a word it
\* pushed or stored reads back as the value it had.
WritesItsFootprint ==
    [][ count' # count /\ outcome' = "OK" /\ pc \in 0 .. RamSize - 4 =>
          /\ \A b \in RamIds : ram'[b] # ram[b] => b \in Footprint
          /\ \A v \in VideoIds : video'[v] # video[v] => Base["video"] + v \in Footprint
          /\ Current.op = "PUSH" /\ regs'[StackPointer] \in 0 .. RamSize - 4 =>
                Load(ram', regs'[StackPointer], 4) = regs[Current.ra]
      ]_vars

\* What the host can tell of the machine behaves as module HostView promises,
\* under single steps and runs: a request, once made, stays until the host
\* clears it whatever the guest goes on to store, a mark of the display until
\* the host takes it, and a machine that stopped shows nothing new.
Seen == [state |-> state, power |-> powerOff, reset |-> resetReq,
         typed |-> keys # << >>, video |-> video, dirty |-> dirty]
Host == INSTANCE HostView WITH
    seen <- Seen, Frame <- [VideoIds -> Bytes], Spaces <- [v \in VideoIds |-> Blank]
ActsAsSeen == Host!Spec

\* A limited t32_run returns, whatever the program does.
RunReturns == run.active /\ run.limit # 0 ~> ~ run.active
=============================================================================
