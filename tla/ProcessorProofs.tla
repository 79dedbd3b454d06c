--------------------------- MODULE ProcessorProofs ---------------------------
(***************************************************************************)
(* The processor.  For any word width, memory map, program and instruction *)
(* limit: a clean display is the one the host took, what stopped stays     *)
(* stopped, a fault leaves no trace, and an instruction writes the bytes   *)
(* it names.                                                               *)
(***************************************************************************)
EXTENDS Machine, ArithmeticProofs, SequenceTheorems, TLAPS

-----------------------------------------------------------------------------
(***************************************************************************)
(* The machine.                                                            *)
(***************************************************************************)
\* What every instruction does, whichever it is: it retires into a machine
\* that goes on, it does not change the display unnoticed, and it takes no
\* request back.
States == {"STOPPED", "HALTED", "ERROR"}
GoesOnIfOk == state' \in States /\ (outcome' = "OK" => state' = "STOPPED")
SignalsTyped == dirty \in BOOLEAN /\ powerOff \in BOOLEAN /\ resetReq \in BOOLEAN
Latches ==
    /\ dirty \/ video' # video => dirty'
    /\ powerOff => powerOff'
    /\ resetReq => resetReq'
    /\ SignalsTyped => SignalsTyped'
Behaves == GoesOnIfOk /\ Latches

\* A t32_run that has executed an instruction has not met a halt or a fault.
RunGoesOn ==
    /\ run.limit \in Nat /\ run.executed \in Nat
    /\ DOMAIN run = {"active", "limit", "executed"}
    /\ run.active /\ run.executed # 0 => state = "STOPPED"

\* The inductive invariant.  The first part is needed when a limited run
\* ends, which calls the machine stopped whatever it was.
MachineIInv == RunGoesOn /\ CleanDisplayIsShown

-----------------------------------------------------------------------------
(***************************************************************************)
(* The instructions.                                                       *)
(***************************************************************************)
\* The ways an instruction ends.
LEMMA EndsBehaves ==
    ASSUME NEW next, NEW k
    PROVE  /\ Retires(next, k) => GoesOnIfOk
           /\ \A why : Halts(why, next, k) => Behaves
           /\ \A why : Faults(why, next, k) => GoesOnIfOk
           /\ \A why : CleanFault(why, next, k) => Behaves
           /\ \A rd, value : SetsRegister(rd, value, next, k) => Behaves
           /\ \A rd, out : SetsResult(rd, out, next, k) => Behaves
           /\ \A other, i : Compares(other, i, next, k) => Behaves
           /\ UNCHANGED store => Latches
BY DEF Retires, Halts, Faults, CleanFault, SetsRegister, SetsResult, Compares, Ends,
       Behaves, GoesOnIfOk, States, Latches, SignalsTyped, store

\* A store marks the display if it changes it, and only adds requests.
LEMMA PutLatches ==
    ASSUME NEW address, NEW n, NEW value, Put(address, n, value)
    PROVE  Latches
BY DEF Put, Latches, SignalsTyped

\* PUSH and CALL.
LEMMA PushBehaves ==
    ASSUME NEW value, NEW target, NEW next, NEW k,
           PushOrFault(value, target, next, k)
    PROVE  Behaves
BY EndsBehaves, PutLatches DEF PushOrFault, Behaves

\* Loads, stores, pops and returns.
LEMMA MemoryBehaves ==
    ASSUME NEW i, NEW next, NEW k,
           \/ LoadMemory(i, next, k) \/ StoreMemory(i, next, k)
           \/ Pop(i, next, k) \/ Return(i, next, k)
    PROVE  Behaves
<1>1. CASE LoadMemory(i, next, k)
  BY <1>1, EndsBehaves DEF LoadMemory
<1>2. CASE StoreMemory(i, next, k)
  BY <1>2, EndsBehaves, PutLatches DEF StoreMemory, Behaves
<1>3. CASE Pop(i, next, k)
  <2>1. \E p, q, why : Retires(p, q) \/ Faults(why, p, q)
    BY <1>3 DEF Pop
  <2>2. UNCHANGED store
    BY <1>3 DEF Pop
  <2> QED BY <2>1, <2>2, EndsBehaves DEF Behaves
<1>4. CASE Return(i, next, k)
  <2>1. \E p, q, why : Retires(p, q) \/ Faults(why, p, q)
    BY <1>4 DEF Return
  <2>2. UNCHANGED store
    BY <1>4 DEF Return
  <2> QED BY <2>1, <2>2, EndsBehaves DEF Behaves
<1> QED BY <1>1, <1>2, <1>3, <1>4

\* The ALU instructions.
LEMMA AluBehaves ==
    ASSUME NEW i, NEW next, NEW k,
           ThreeRegister(i, next, k) \/ Divide(i, next, k) \/ Cmp(i, next, k)
    PROVE  Behaves
<1>1. CASE ThreeRegister(i, next, k)
  <2>1. \E rd, out : SetsResult(rd, out, next, k)
    BY <1>1 DEF ThreeRegister
  <2> QED BY <2>1, EndsBehaves
<1>2. CASE Divide(i, next, k)
  <2>1. CleanFault("divide", next, k) \/ \E rd, out : SetsResult(rd, out, next, k)
    BY <1>2 DEF Divide
  <2> QED BY <2>1, EndsBehaves
<1>3. CASE Cmp(i, next, k)
  BY <1>3, EndsBehaves DEF Cmp
<1> QED BY <1>1, <1>2, <1>3

\* The instructions with an extension word.
LEMMA ExtendedBehaves ==
    ASSUME NEW i, NEW next, NEW k, Extended(i, next, k)
    PROVE  Behaves
<1>1. PICK got \in BusLoad(k, next, 4) :
        \/ ~ got.ok /\ CleanFault("extension", next, got.keys)
        \/ \/ Trap(i, got.value, (next + 4) % M, got.keys)
           \/ MovI(i, got.value, (next + 4) % M, got.keys)
           \/ Immediate(i, got.value, (next + 4) % M, got.keys)
           \/ Jump(i, got.value, (next + 4) % M, got.keys)
           \/ Call(i, got.value, (next + 4) % M, got.keys)
  BY DEF Extended
<1> DEFINE after == (next + 4) % M
<1> HIDE DEF after
<1>2. CASE CleanFault("extension", next, got.keys)
  BY <1>2, EndsBehaves
<1>3. CASE Trap(i, got.value, after, got.keys)
  BY <1>3, EndsBehaves DEF Trap
<1>4. CASE MovI(i, got.value, after, got.keys)
  <2>1. Retires(after, got.keys) /\ UNCHANGED store
    BY <1>4 DEF MovI
  <2> QED BY <2>1, EndsBehaves DEF Behaves
<1>5. CASE Immediate(i, got.value, after, got.keys)
  BY <1>5, EndsBehaves DEF Immediate
<1>6. CASE Jump(i, got.value, after, got.keys)
  <2>1. UNCHANGED store /\ \E p : Retires(p, got.keys)
    BY <1>6 DEF Jump
  <2> QED BY <2>1, EndsBehaves DEF Behaves
<1>7. CASE Call(i, got.value, after, got.keys)
  BY <1>7, PushBehaves DEF Call
<1> QED BY <1>1, <1>2, <1>3, <1>4, <1>5, <1>6, <1>7 DEF after

\* Every instruction.
LEMMA ExecuteBehaves ==
    ASSUME NEW i, NEW next, NEW k, Execute(i, next, k)
    PROVE  Behaves
<1>1. CASE CleanFault("encoding", next, k) \/ CleanFault("opcode", next, k)
  BY <1>1, EndsBehaves
<1>2. CASE Halt(i, next, k)
  BY <1>2, EndsBehaves DEF Halt
<1>3. CASE Nop(i, next, k)
  <2>1. Retires(next, k) /\ UNCHANGED store
    BY <1>3 DEF Nop
  <2> QED BY <2>1, EndsBehaves DEF Behaves
<1>4. CASE CpuId(i, next, k) \/ Mov(i, next, k)
  BY <1>4, EndsBehaves DEF CpuId, Mov
<1>5. CASE Push(i, next, k)
  BY <1>5, PushBehaves DEF Push
<1> QED BY <1>1, <1>2, <1>3, <1>4, <1>5, MemoryBehaves, AluBehaves, ExtendedBehaves
        DEF Execute

-----------------------------------------------------------------------------
(***************************************************************************)
(* The calls.                                                              *)
(***************************************************************************)
\* t32_step.
LEMMA StepBehaves ==
    ASSUME Step
    PROVE  /\ Behaves
           /\ state # "STOPPED" => UNCHANGED cpu /\ UNCHANGED store /\ outcome' # "OK"
<1>1. CASE /\ state \in {"HALTED", "ERROR"} /\ outcome' \in {"HALTED", "FAULT"}
           /\ UNCHANGED <<cpu, store, keys>>
  BY <1>1, EndsBehaves DEF Behaves, GoesOnIfOk, States, cpu
<1>2. CASE /\ state = "STOPPED"
           /\ \E got \in BusLoad(keys, pc, 4) :
                 \/ CleanFault("fetch", pc, got.keys)
                 \/ Execute(Decode[got.value], (pc + 4) % M, got.keys)
  BY <1>2, EndsBehaves, ExecuteBehaves
<1> QED BY <1>1, <1>2 DEF Step

\* The machine starts stopped, with a display to be taken.
LEMMA InitMachineIInv == Init => MachineIInv
<1> SUFFICES ASSUME Init PROVE MachineIInv
  OBVIOUS
<1>1. dirty = TRUE /\ run = Idle
  BY DEF Init
<1>2. RunGoesOn
  BY <1>1 DEF Idle, RunGoesOn
<1>3. CleanDisplayIsShown
  BY <1>1 DEF CleanDisplayIsShown
<1> QED BY <1>2, <1>3 DEF MachineIInv

\* One call of the host, or one turn of t32_run's loop.
LEMMA NextMachineIInv == MachineIInv /\ [Next]_vars => MachineIInv'
<1> SUFFICES ASSUME MachineIInv, [Next]_vars PROVE MachineIInv'
  OBVIOUS
<1>1. CASE CallStep
  <2>1. UNCHANGED <<run, shown>> /\ ~ run.active /\ Behaves
    BY <1>1, StepBehaves DEF CallStep
  <2> QED BY <2>1 DEF Behaves, Latches, MachineIInv, RunGoesOn,
                      CleanDisplayIsShown
<1>2. CASE RunStep
  <2>1. UNCHANGED shown /\ Behaves
    BY <1>2, StepBehaves DEF RunStep
  <2>2. CASE outcome' # "OK"
    <3>1. run' = Idle
      BY <1>2, <2>2 DEF RunStep
    <3> QED BY <2>1, <3>1 DEF Idle, Behaves, Latches, MachineIInv, RunGoesOn,
                              CleanDisplayIsShown
  <2>3. CASE outcome' = "OK"
    <3>1. run' = run \/ run' = [run EXCEPT !.executed = @ + 1]
      BY <1>2, <2>3 DEF RunStep
    <3>2. state' = "STOPPED"
      BY <2>1, <2>3 DEF Behaves, GoesOnIfOk
    <3>3. RunGoesOn'
      BY <3>1, <3>2 DEF MachineIInv, RunGoesOn
    <3> QED BY <2>1, <3>3 DEF Behaves, Latches, MachineIInv,
                              CleanDisplayIsShown
  <2> QED BY <2>2, <2>3
<1>3. ASSUME NEW limit \in Limits, CallRun(limit) PROVE MachineIInv'
  <2>1. limit \in Nat
    BY MachineAssumption
  <2> QED BY <1>3, <2>1 DEF CallRun, store, MachineIInv, RunGoesOn,
             CleanDisplayIsShown
<1>4. CASE RunEnds
  BY <1>4 DEF RunEnds, Idle, store, MachineIInv, RunGoesOn, CleanDisplayIsShown
<1>5. CASE (\E c \in Keys : PushKey(c)) \/ ClearRequests \/ ClearHalt
  BY <1>5 DEF PushKey, ClearRequests, ClearHalt, cpu, store, MachineIInv, RunGoesOn,
              CleanDisplayIsShown
<1>6. CASE TakeDisplay \/ Reset
  BY <1>6 DEF TakeDisplay, Reset, cpu, MachineIInv, RunGoesOn, CleanDisplayIsShown
<1>7. CASE UNCHANGED vars
  BY <1>7 DEF vars, cpu, store, MachineIInv, RunGoesOn, CleanDisplayIsShown
<1> QED BY <1>1, <1>2, <1>3, <1>4, <1>5, <1>6, <1>7 DEF Next

-----------------------------------------------------------------------------
\* Whatever the program stores and whenever the host takes the display, one
\* that is not dirty is the one it took last.
THEOREM CleanMeansShown == Spec => []CleanDisplayIsShown
<1>1. MachineIInv => CleanDisplayIsShown
  BY DEF MachineIInv
<1> QED BY InitMachineIInv, NextMachineIInv, <1>1, PTL DEF Spec

\* Whatever the program and the limits, nothing but a reset makes a faulted
\* machine move, and nothing but that or t32_clear_halt a halted one.
THEOREM StoppedStays == Spec => StopIsFinal
<1> DEFINE Still == UNCHANGED <<cpu, ram, video>>
           Final == /\ state = "ERROR" => Still \/ Reset
                    /\ state = "HALTED" => Still \/ ClearHalt \/ Reset
<1>1. ASSUME MachineIInv, [Next]_vars PROVE [Final]_vars
  <2> SUFFICES ASSUME Next, state \in {"ERROR", "HALTED"} PROVE Final
    BY <1>1
  <2>1. CASE CallStep \/ RunStep
    BY <2>1, StepBehaves DEF CallStep, RunStep, store
  <2>2. CASE RunEnds
    <3>1. run.active /\ run.limit # 0 /\ run.executed >= run.limit
      BY <2>2 DEF RunEnds
    <3>2. run.executed # 0
      BY <1>1, <3>1 DEF MachineIInv, RunGoesOn
    <3> QED BY <1>1, <3>1, <3>2 DEF MachineIInv, RunGoesOn
  <2>3. CASE \/ (\E limit \in Limits : CallRun(limit)) \/ (\E c \in Keys : PushKey(c))
             \/ TakeDisplay \/ ClearRequests
    BY <2>3 DEF CallRun, PushKey, TakeDisplay, ClearRequests, store
  <2>4. CASE ClearHalt
    BY <2>4 DEF ClearHalt, cpu, store
  <2> QED BY <2>1, <2>2, <2>3, <2>4 DEF Next
<1> QED BY InitMachineIInv, NextMachineIInv, <1>1, PTL DEF Spec, StopIsFinal

-----------------------------------------------------------------------------
(***************************************************************************)
(* Bytes in memory.                                                        *)
(***************************************************************************)
\* A word is a number of four places of the radix.
LEMMA PlaceValues ==
    /\ PlaceValue \in [0 .. 4 -> Nat \ {0}] /\ PlaceValue[0] = 1
    /\ \A i \in 1 .. 4 : PlaceValue[i] = Radix * PlaceValue[i - 1]
    /\ M = PlaceValue[4] /\ Radix \in Nat \ {0, 1}
<1>1. PlaceValue = Power(Radix, 4)
  BY DEF PlaceValue, Power
<1>2. PlaceValue \in Powers(Radix, 4)
  BY <1>1, MachineAssumption, PowersMultiply
<1> QED BY <1>2, MachineAssumption DEF Powers

\* So shorter numbers are words too.
LEMMA PlacesFit == \A n \in 0 .. 4 : PlaceValue[n] <= M
<1>1. \A p \in Nat : p <= Radix * p
  BY PlaceValues
<1>2. \A i \in 1 .. 4 : PlaceValue[i - 1] \in Nat /\ PlaceValue[i] \in Nat
  BY PlaceValues
<1>3. \A i \in 1 .. 4 : PlaceValue[i - 1] <= PlaceValue[i]
  BY <1>1, <1>2, PlaceValues
<1> QED BY <1>2, <1>3, PlaceValues

\* The bytes from a on, of which a load of n makes a number.
Span(a, n) == a .. a + n - 1

\* The sums of its lower bytes.
Sums(memory, a, n) ==
    {low \in [0 .. n -> Nat] :
        /\ low[0] = 0
        /\ \A i \in 1 .. n : low[i] = low[i - 1] + memory[a + i - 1] * PlaceValue[i - 1]}

\* A load adds up its bytes, from the lowest place on.
LEMMA LoadAdds ==
    ASSUME NEW D, NEW memory \in [D -> Bytes], NEW a \in Int, NEW n \in 0 .. 4,
           Span(a, n) \subseteq D
    PROVE  \E low \in Sums(memory, a, n) : Load(memory, a, n) = low[n]
<1> DEFINE weight(i) == memory[a + i - 1] * PlaceValue[i - 1]
           step == [i \in 1 .. n |-> [x \in Nat |-> x + weight(i)]]
           Solves(f) == f = [i \in 0 .. n |-> IF i = 0 THEN 0 ELSE f[i - 1] + weight(i)]
           low == CHOOSE f : Solves(f)
<1>1. \A i \in 1 .. n : i \in 0 .. n /\ i - 1 \in 0 .. n /\ weight(i) \in Nat
  <2> SUFFICES ASSUME NEW i \in 1 .. n
               PROVE  i \in 0 .. n /\ i - 1 \in 0 .. n /\ weight(i) \in Nat
    OBVIOUS
  <2>1. a + i - 1 \in D /\ i - 1 \in 0 .. 4
    BY DEF Span
  <2>2. memory[a + i - 1] \in Nat /\ PlaceValue[i - 1] \in Nat
    BY <2>1, PlaceValues, MachineAssumption DEF Bytes
  <2>3. weight(i) \in Nat
    <3> DEFINE x == memory[a + i - 1]
               y == PlaceValue[i - 1]
    <3>1. x \in Nat /\ y \in Nat
      BY <2>2
    <3> HIDE DEF x, y
    <3>2. x * y \in Nat
      BY <3>1
    <3> QED BY <3>2 DEF x, y
  <2> QED BY <2>3
<1>2. Load(memory, a, n) = low[n] /\ n \in Nat
  BY DEF Load
<1> HIDE DEF weight
<1>3. step \in Steps(n, Nat)
  BY <1>1 DEF Steps
<1>4. Runs(n, Nat, 0, step) # {}
  <2> HIDE DEF step
  <2> QED BY <1>2, <1>3, RecursionExists
<1>5. PICK f \in [0 .. n -> Nat] :
        \A i \in 0 .. n : f[i] = IF i = 0 THEN 0 ELSE step[i][f[i - 1]]
  <2> HIDE DEF step
  <2> QED BY <1>4 DEF Runs
<1>6. \A i \in 1 .. n : step[i][f[i - 1]] = f[i - 1] + weight(i)
  BY <1>1
<1>7. Solves(f)
  <2> DEFINE F == [i \in 0 .. n |-> IF i = 0 THEN 0 ELSE f[i - 1] + weight(i)]
  <2>1. \A i \in 0 .. n : i = 0 \/ i \in 1 .. n
    BY <1>2
  <2>2. \A i \in 0 .. n : f[i] = F[i]
    <3> HIDE DEF step
    <3> QED BY <1>5, <1>6, <2>1
  <2>3. f = [i \in 0 .. n |-> f[i]] /\ F = [i \in 0 .. n |-> F[i]]
    OBVIOUS
  <2>4. f = F
    <3> HIDE DEF F
    <3> QED BY <2>2, <2>3
  <2> QED BY <2>4
<1>8. Solves(low)
  <2> HIDE DEF Solves
  <2> QED BY <1>7
<1> HIDE DEF low
<1>9. low[0] = 0 /\ \A i \in 1 .. n : low[i] = low[i - 1] + weight(i)
  BY <1>1, <1>2, <1>8
<1>10. ASSUME NEW m \in 0 .. n PROVE low[m] \in Nat
  <2> DEFINE P == [i \in 0 .. n |-> Nat]
  <2>1. ASSUME NEW i \in 1 .. m, low[i - 1] \in P[i - 1] PROVE low[i] \in P[i]
    BY <1>1, <1>9, <2>1
  <2>2. low[0] \in P[0] /\ m \in Nat /\ P[m] = Nat
    BY <1>9
  <2> HIDE DEF P
  <2>3. low[m] \in P[m]
    BY <2>1, <2>2, RecursionKeeps
  <2> QED BY <2>2, <2>3
<1>11. low = [i \in 0 .. n |-> low[i]]
  BY <1>8
<1> HIDE DEF Solves
<1>12. low \in [0 .. n -> Nat]
  BY <1>10, <1>11
<1>13. low \in Sums(memory, a, n)
  BY <1>9, <1>12 DEF weight, Sums
<1> QED BY <1>2, <1>13

\* A load of n bytes is a number of n places.
LEMMA LoadTyped ==
    ASSUME NEW D, NEW memory \in [D -> Bytes], NEW a \in Int, NEW n \in 0 .. 4,
           Span(a, n) \subseteq D
    PROVE  Load(memory, a, n) \in 0 .. PlaceValue[n] - 1 /\ Load(memory, a, n) \in Words
<1>1. PICK low \in Sums(memory, a, n) : Load(memory, a, n) = low[n]
  BY LoadAdds
<1> USE DEF Sums
<1> DEFINE P == [i \in 0 .. n |-> 0 .. PlaceValue[i] - 1]
<1>2. low[0] \in P[0] /\ P[n] = 0 .. PlaceValue[n] - 1 /\ n \in Nat
  <2>1. PlaceValue[0] = 1 /\ 0 \in 0 .. n /\ n \in 0 .. n
    BY PlaceValues
  <2> QED BY <1>1, <2>1
<1>3. ASSUME NEW i \in 1 .. n, low[i - 1] \in P[i - 1] PROVE low[i] \in P[i]
  <2> DEFINE p == PlaceValue[i - 1]
             b == memory[a + i - 1]
             x == low[i - 1]
  <2>1. i \in 0 .. n /\ i - 1 \in 0 .. n /\ i \in 1 .. 4 /\ i - 1 \in 0 .. 4 /\ a + i - 1 \in D
    BY DEF Span
  <2>2. p \in Nat /\ b \in Nat /\ b <= Radix - 1 /\ PlaceValue[i] = Radix * p /\ Radix \in Nat
    <3>1. p \in Nat /\ PlaceValue[i] = Radix * p /\ Radix \in Nat
      BY <2>1, PlaceValues
    <3>2. b \in Bytes
      BY <2>1
    <3> QED BY <3>1, <3>2 DEF Bytes
  <2>3. x \in 0 .. p - 1 /\ low[i] = x + b * p
    BY <1>1, <1>3, <2>1
  <2> HIDE DEF p, b, x
  <2>4. b * p <= (Radix - 1) * p /\ (Radix - 1) * p = Radix * p - p /\ b * p \in Nat
    BY <2>2
  <2>5. low[i] \in 0 .. Radix * p - 1
    <3> DEFINE y == b * p
               top == Radix * p
    <3>1. y <= top - p /\ y \in Nat /\ top \in Nat /\ p \in Nat
      BY <2>2, <2>4
    <3>2. low[i] = x + y
      BY <2>3
    <3> HIDE DEF y, top
    <3>3. low[i] \in 0 .. top - 1
      BY <2>3, <3>1, <3>2
    <3> QED BY <3>3 DEF top
  <2> QED BY <2>1, <2>2, <2>5
<1>4. low[n] \in P[n]
  <2> HIDE DEF P
  <2> QED BY <1>2, <1>3, RecursionKeeps
<1>5. Load(memory, a, n) \in 0 .. PlaceValue[n] - 1
  BY <1>1, <1>2, <1>4
<1>6. PlaceValue[n] <= M /\ PlaceValue[n] \in Nat /\ M \in Nat
  <2>1. 4 \in 0 .. 4
    OBVIOUS
  <2> QED BY <2>1, PlacesFit, PlaceValues
<1> QED BY <1>5, <1>6 DEF Words

\* A memory that holds a number, from a on.
Holds(D, memory, a, n, value) ==
    /\ memory \in [D -> Bytes] /\ a \in Int /\ n \in 0 .. 4 /\ value \in Int
    /\ Span(a, n) \subseteq D
    /\ \A b \in Span(a, n) : memory[b] = (value \div PlaceValue[b - a]) % Radix

\* What is stored is loaded.
LEMMA LoadsStored ==
    ASSUME NEW D, NEW stored, NEW a, NEW n, NEW value, Holds(D, stored, a, n, value)
    PROVE  Load(stored, a, n) = value % PlaceValue[n]
<1>0. /\ stored \in [D -> Bytes] /\ a \in Int /\ n \in 0 .. 4 /\ value \in Int
      /\ Span(a, n) \subseteq D
  BY DEF Holds
<1> USE <1>0
<1>1. PICK low \in Sums(stored, a, n) : Load(stored, a, n) = low[n]
  BY LoadAdds
<1>2. \A b \in Span(a, n) : stored[b] = (value \div PlaceValue[b - a]) % Radix
  BY DEF Holds
<1>3. low \in Sums(stored, a, n) /\ Load(stored, a, n) = low[n]
  BY <1>1
<1> USE DEF Sums
<1> DEFINE P == [i \in 0 .. n |-> {value % PlaceValue[i]}]
<1>4. low[0] \in P[0] /\ P[n] = {value % PlaceValue[n]} /\ n \in Nat
  <2>1. value % PlaceValue[0] = 0
    BY PlaceValues
  <2> QED BY <1>3, <2>1
<1>5. ASSUME NEW i \in 1 .. n, low[i - 1] \in P[i - 1] PROVE low[i] \in P[i]
  <2> DEFINE p == PlaceValue[i - 1]
             digit == (value \div p) % Radix
  <2>1. /\ i \in 0 .. n /\ i - 1 \in 0 .. n /\ i \in 1 .. 4 /\ i - 1 \in 0 .. 4
        /\ a + i - 1 \in Span(a, n) /\ (a + i - 1) - a = i - 1
    BY DEF Span
  <2>2. p \in Nat \ {0} /\ PlaceValue[i] = Radix * p /\ Radix \in Nat \ {0}
    BY <2>1, PlaceValues
  <2>3. low[i - 1] = value % p /\ low[i] = low[i - 1] + stored[a + i - 1] * p
    BY <1>3, <1>5, <2>1
  <2>4. stored[a + i - 1] = digit
    BY <1>2, <2>1
  <2> HIDE DEF p
  <2>5. value \div p \in Int
    BY <2>2, Divided
  <2>6. digit \in Nat
    BY <2>2, <2>5, Divided
  <2>7. value % (p * Radix) = (value % p) + p * digit
    BY <2>2, DivisionNests
  <2> HIDE DEF digit
  <2>8. p * digit = digit * p /\ p * Radix = Radix * p
    BY <2>2, <2>6
  <2>9. low[i] = value % PlaceValue[i]
    BY <2>2, <2>3, <2>4, <2>7, <2>8
  <2> QED BY <2>1, <2>9
<1>6. low[n] \in P[n]
  <2> HIDE DEF P
  <2> QED BY <1>4, <1>5, RecursionKeeps
<1> QED BY <1>3, <1>4, <1>6

\* What a store does: bytes outside its span stay, and inside it are the value.
Stored(D, before, after, a, n, value) ==
    /\ after \in [D -> Bytes]
    /\ \A b \in D : after[b] # before[b] => b \in Span(a, n)
    /\ Span(a, n) \subseteq D => Load(after, a, n) = value % PlaceValue[n]

\* A store leaves bytes, and those that it does not name alone.
LEMMA StoreTyped ==
    ASSUME NEW D, NEW memory \in [D -> Bytes], NEW a \in Int, NEW n \in 0 .. 4,
           D \subseteq Int, NEW value \in Int
    PROVE  Stored(D, memory, StoreBytes(memory, a, n, value), a, n, value)
<1>1. ASSUME NEW b \in D, b \in Span(a, n)
      PROVE  (value \div PlaceValue[b - a]) % Radix \in Bytes
  <2>1. b - a \in 0 .. 4
    BY <1>1 DEF Span
  <2>2. PlaceValue[b - a] \in Nat \ {0} /\ Radix \in Nat \ {0}
    BY <2>1, PlaceValues
  <2>3. value \div PlaceValue[b - a] \in Int
    BY <2>2, Divided
  <2> QED BY <2>2, <2>3, Divided DEF Bytes
<1>2. StoreBytes(memory, a, n, value)
        = [b \in D |-> IF b \in Span(a, n) THEN (value \div PlaceValue[b - a]) % Radix
                                            ELSE memory[b]]
  BY DEF StoreBytes, Span
<1> DEFINE stored == StoreBytes(memory, a, n, value)
<1>3. stored \in [D -> Bytes]
  BY <1>1, <1>2
<1>4. \A b \in D : stored[b] # memory[b] => b \in Span(a, n)
  BY <1>2
<1>5. ASSUME Span(a, n) \subseteq D
      PROVE  Load(stored, a, n) = value % PlaceValue[n]
  <2>1. \A b \in Span(a, n) : stored[b] = (value \div PlaceValue[b - a]) % Radix
    BY <1>2, <1>5
  <2> HIDE DEF stored
  <2>2. Holds(D, stored, a, n, value)
    BY <1>3, <1>5, <2>1 DEF Holds
  <2> QED BY <2>2, LoadsStored
<1> QED BY <1>3, <1>4, <1>5 DEF Stored

-----------------------------------------------------------------------------
(***************************************************************************)
(* The bus.                                                                *)
(***************************************************************************)
\* The types of what a program computes with.
MachineTyped ==
    /\ regs \in [Regs -> Words] /\ pc \in Words
    /\ ram \in [RamIds -> Bytes] /\ video \in [VideoIds -> Bytes]
    /\ keys \in Seq(Keys)

\* What an instruction may leave in the keyboard: the host types, not it.
Remaining == {k \in Seq(Keys) : keys = << >> => k = << >>}

\* What a load may yield.
Got(k, address, n) ==
    {got \in [ok : BOOLEAN, value : Words, keys : Remaining] :
        got.ok => address + n < M}

\* The map's numbers, and that no window reaches the end of the words.
LEMMA MapTyped ==
    /\ \A d \in Devices : /\ Base[d] \in Nat /\ Size[d] \in Nat /\ RamSize <= Base[d]
                          /\ Base[d] + Size[d] < M
    /\ RamSize \in Nat /\ RamSize < M /\ M \in Nat \ {0}
<1>1. \A d \in Devices : /\ Base[d] \in Nat /\ Size[d] \in Nat /\ RamSize <= Base[d]
                         /\ Base[d] + Size[d] < M
  BY MapAssumption, MachineAssumption
<1>2. "video" \in Devices /\ RamSize \in Nat /\ M \in Nat \ {0}
  BY MapAssumption, WordPowers DEF Devices
<1> QED BY <1>1, <1>2

\* Loads that are delivered end inside the words.
LEMMA WindowEnds ==
    ASSUME NEW address \in Words, NEW n \in {1, 2, 4},
           ReadRegion(address, n) # "none" \/ WriteRegion(address, n) # "none"
    PROVE  address + n < M
<1>1. address \in Nat /\ n \in Nat
  BY DEF Words
<1>2. ASSUME NEW d \in Devices, InWindow(d, address, n) PROVE address + n < M
  BY <1>1, <1>2, MapTyped DEF InWindow
<1>3. ASSUME InRam(address, n) PROVE address + n < M
  BY <1>1, <1>3, MapTyped DEF InRam
<1>4. {"video", "disk", "keyboard", "rtc", "platform"} \subseteq Devices
  BY DEF Devices
<1>5. \/ InWindow("video", address, n) \/ InWindow("disk", address, n)
      \/ InWindow("keyboard", address, n) \/ InWindow("rtc", address, n)
      \/ InWindow("platform", address, n) \/ InRam(address, n)
  BY DEF ReadRegion, WriteRegion
<1> QED BY <1>2, <1>3, <1>4, <1>5

\* Which register of a device an access meets.
LEMMA RegisterMet ==
    ASSUME NEW d \in Devices, NEW address \in Words, NEW n \in {1, 2, 4},
           InWindow(d, address, n), Size[d] \in {12, 16},
           IsRegister(address - Base[d], n)
    PROVE  address - Base[d] \in {0, 4, 8, 12} /\ (Size[d] = 12 => address - Base[d] # 12)
<1> DEFINE offset == address - Base[d]
<1>1. offset \in Nat /\ offset + n <= Size[d]
  BY MapTyped DEF InWindow, Words
<1>2. n = 4 /\ offset % 4 = 0
  BY DEF IsRegister
<1> HIDE DEF offset
<1>3. offset \in {0, 4, 8, 12} /\ (Size[d] = 12 => offset # 12)
  BY <1>1, <1>2
<1> QED BY <1>3 DEF offset

\* The two results of a load.
LEMMA ResultsTyped ==
    ASSUME NEW address, NEW n, NEW k \in Remaining
    PROVE  /\ NotDelivered(k) \in Got(k, address, n)
           /\ address + n < M => \A v \in Words : Delivered(v, k) \in Got(k, address, n)
<1>1. 0 \in Words
  BY WordPowers DEF Words
<1> QED BY <1>1 DEF NotDelivered, Delivered, Got

\* The devices.
LEMMA DevicesTyped ==
    ASSUME NEW address \in Words, NEW n \in {1, 2, 4}, NEW k \in Remaining,
           address + n < M
    PROVE  /\ InWindow("keyboard", address, n) =>
                 KeyboardLoad(k, address - Base["keyboard"], n) \subseteq Got(k, address, n)
           /\ InWindow("rtc", address, n) =>
                 RtcLoad(k, address - Base["rtc"], n) \subseteq Got(k, address, n)
           /\ InWindow("platform", address, n) =>
                 PlatformLoad(k, address - Base["platform"], n) \subseteq Got(k, address, n)
           /\ DiskLoad(k, address - Base["disk"], n) \subseteq Got(k, address, n)
<1>1. NotDelivered(k) \in Got(k, address, n)
  BY ResultsTyped
<1>2. \A v \in Words : Delivered(v, k) \in Got(k, address, n)
  BY ResultsTyped
<1>3. {0, 1, DeviceId, RamSize} \subseteq Words /\ Clock \subseteq Words
  <2>1. 0 \in Words /\ 1 \in Words
    <3>1. M = 2 * SignBit /\ SignBit \in Nat \ {0}
      BY WordAssumption DEF M
    <3> QED BY <3>1 DEF Words
  <2>2. RamSize \in Words
    BY MapTyped DEF Words
  <2> QED BY <2>1, <2>2, MachineAssumption
<1>4. /\ {"keyboard", "rtc", "platform"} \subseteq Devices
      /\ Size["keyboard"] = 12 /\ Size["rtc"] = 12 /\ Size["platform"] = 16
  BY MachineAssumption DEF Devices
<1>5. ASSUME InWindow("keyboard", address, n)
      PROVE  KeyboardLoad(k, address - Base["keyboard"], n) \subseteq Got(k, address, n)
  <2> DEFINE offset == address - Base["keyboard"]
  <2>1. CASE ~ IsRegister(offset, n)
    BY <1>1, <2>1 DEF KeyboardLoad
  <2>2. CASE IsRegister(offset, n)
    <3>1. offset \in {0, 4, 8}
      BY <1>4, <1>5, <2>2, RegisterMet
    <3>2. k # << >> => Delivered(Head(k), Tail(k)) \in Got(k, address, n)
      <4>1. SUFFICES ASSUME k # << >> PROVE Delivered(Head(k), Tail(k)) \in Got(k, address, n)
        OBVIOUS
      <4>2. Head(k) \in Keys /\ Tail(k) \in Remaining
        <5>1. k \in Seq(Keys) /\ keys # << >>
          BY <4>1 DEF Remaining
        <5> QED BY <4>1, <5>1 DEF Remaining
      <4>3. Keys \subseteq Words
        <5>1. Radix <= M /\ Radix \in Nat /\ M \in Nat
          <6>1. PlaceValue[1] = Radix /\ 1 \in 0 .. 4
            BY PlaceValues
          <6> QED BY <6>1, PlacesFit, PlaceValues, WordPowers
        <5>2. Keys \subseteq 0 .. Radix - 1
          BY MachineAssumption DEF Bytes
        <5> QED BY <5>1, <5>2 DEF Words
      <4> QED BY <4>2, <4>3 DEF Delivered, Got
    <3> HIDE DEF offset
    <3>3. offset = 0 => KeyboardLoad(k, offset, n) \subseteq Got(k, address, n)
      BY <1>2, <1>3, <2>2 DEF KeyboardLoad
    <3>4. offset = 4 => KeyboardLoad(k, offset, n) \subseteq Got(k, address, n)
      BY <1>2, <1>3, <2>2 DEF KeyboardLoad
    <3>5. offset = 8 => KeyboardLoad(k, offset, n) \subseteq Got(k, address, n)
      BY <1>2, <1>3, <2>2, <3>2 DEF KeyboardLoad
    <3> QED BY <3>1, <3>3, <3>4, <3>5 DEF offset
  <2> QED BY <2>1, <2>2
<1>6. ASSUME InWindow("rtc", address, n)
      PROVE  RtcLoad(k, address - Base["rtc"], n) \subseteq Got(k, address, n)
  <2> DEFINE offset == address - Base["rtc"]
  <2>1. CASE ~ IsRegister(offset, n)
    BY <1>1, <2>1 DEF RtcLoad
  <2>2. CASE IsRegister(offset, n)
    <3>1. offset \in {0, 4, 8}
      BY <1>4, <1>6, <2>2, RegisterMet
    <3> HIDE DEF offset
    <3>2. offset = 0 => RtcLoad(k, offset, n) \subseteq Got(k, address, n)
      BY <1>2, <1>3, <2>2 DEF RtcLoad
    <3>3. offset = 4 => RtcLoad(k, offset, n) \subseteq Got(k, address, n)
      BY <1>2, <1>3, <2>2 DEF RtcLoad
    <3>4. offset = 8 => RtcLoad(k, offset, n) \subseteq Got(k, address, n)
      BY <1>1, <1>2, <1>3, <2>2 DEF RtcLoad
    <3> QED BY <3>1, <3>2, <3>3, <3>4 DEF offset
  <2> QED BY <2>1, <2>2
<1>7. ASSUME InWindow("platform", address, n)
      PROVE  PlatformLoad(k, address - Base["platform"], n) \subseteq Got(k, address, n)
  <2> DEFINE offset == address - Base["platform"]
  <2>1. CASE ~ IsRegister(offset, n)
    BY <1>1, <2>1 DEF PlatformLoad
  <2>2. CASE IsRegister(offset, n)
    <3>1. offset \in {0, 4, 8, 12}
      BY <1>4, <1>7, <2>2, RegisterMet
    <3> HIDE DEF offset
    <3>2. offset = 0 => PlatformLoad(k, offset, n) \subseteq Got(k, address, n)
      BY <1>2, <1>3, <2>2 DEF PlatformLoad
    <3>3. offset = 4 => PlatformLoad(k, offset, n) \subseteq Got(k, address, n)
      BY <1>2, <1>3, <2>2 DEF PlatformLoad
    <3>4. offset = 8 => PlatformLoad(k, offset, n) \subseteq Got(k, address, n)
      BY <1>2, <1>3, <2>2 DEF PlatformLoad
    <3>5. offset = 12 => PlatformLoad(k, offset, n) \subseteq Got(k, address, n)
      BY <1>2, <1>3, <2>2 DEF PlatformLoad
    <3> QED BY <3>1, <3>2, <3>3, <3>4, <3>5 DEF offset
  <2> QED BY <2>1, <2>2
<1>8. DiskLoad(k, address - Base["disk"], n) \subseteq Got(k, address, n)
  <2>1. \A w \in DiskWords : w \in Words /\ w % PlaceValue[n] \in Words
    <3> SUFFICES ASSUME NEW w \in DiskWords
                 PROVE  w \in Words /\ w % PlaceValue[n] \in Words
      OBVIOUS
    <3>1. w \in Words /\ w \in Nat
      BY MachineAssumption DEF Words
    <3>2. PlaceValue[n] \in Nat \ {0} /\ PlaceValue[n] <= M /\ M \in Nat
      <4>1. n \in 0 .. 4
        OBVIOUS
      <4> QED BY <4>1, PlaceValues, PlacesFit, WordPowers
    <3>3. w % PlaceValue[n] \in Nat /\ w % PlaceValue[n] < PlaceValue[n]
      BY <3>1, <3>2, Divided
    <3> QED BY <3>1, <3>2, <3>3 DEF Words
  <2> QED BY <1>1, <1>2, <2>1 DEF DiskLoad
<1> QED BY <1>5, <1>6, <1>7, <1>8

\* Any load.
LEMMA BusTyped ==
    ASSUME MachineTyped, NEW k \in Remaining, NEW address \in Words, NEW n \in {1, 2, 4}
    PROVE  BusLoad(k, address, n) \subseteq Got(k, address, n)
<1>1. /\ n \in 0 .. 4 /\ address \in Nat /\ "video" \in Devices
      /\ Base["video"] \in Nat /\ Size["video"] \in Nat
      /\ ram \in [RamIds -> Bytes] /\ video \in [VideoIds -> Bytes]
  <2>1. "video" \in Devices /\ n \in 0 .. 4
    BY DEF Devices
  <2>2. address \in Nat /\ ram \in [RamIds -> Bytes] /\ video \in [VideoIds -> Bytes]
    BY DEF Words, MachineTyped
  <2> QED BY <2>1, <2>2, MapTyped
<1> DEFINE region == ReadRegion(address, n)
<1>2. region # "none" => address + n < M
  BY WindowEnds
<1>3. region \in {"video", "disk", "keyboard", "rtc", "platform", "ram", "none"}
  BY DEF ReadRegion
<1>4. CASE region = "video"
  <2> DEFINE at == address - Base["video"]
  <2>1. InWindow("video", address, n)
    BY <1>4 DEF ReadRegion
  <2>2. Span(at, n) \subseteq VideoIds /\ at \in Int
    BY <1>1, <2>1 DEF InWindow, Span, VideoIds
  <2>3. Load(video, at, n) \in Words
    <3> HIDE DEF at
    <3> QED BY <1>1, <2>2, LoadTyped
  <2>4. BusLoad(k, address, n) = {Delivered(Load(video, at, n), k)}
    BY <1>4 DEF BusLoad
  <2> QED BY <1>2, <1>4, <2>3, <2>4, ResultsTyped
<1>5. CASE region = "ram"
  <2>1. InRam(address, n)
    BY <1>5 DEF ReadRegion
  <2>2. Span(address, n) \subseteq RamIds /\ address \in Int
    BY <1>1, <2>1, MapTyped DEF InRam, Span, RamIds
  <2>3. Load(ram, address, n) \in Words
    BY <1>1, <2>2, LoadTyped
  <2>4. BusLoad(k, address, n) = {Delivered(Load(ram, address, n), k)}
    BY <1>5 DEF BusLoad
  <2> QED BY <1>2, <1>5, <2>3, <2>4, ResultsTyped
<1>6. CASE region = "none"
  <2>1. BusLoad(k, address, n) = {NotDelivered(k)}
    BY <1>6 DEF BusLoad
  <2> QED BY <2>1, ResultsTyped
<1>7. CASE region = "disk"
  <2>1. BusLoad(k, address, n) = DiskLoad(k, address - Base["disk"], n)
    BY <1>7 DEF BusLoad
  <2> QED BY <1>2, <1>7, <2>1, DevicesTyped
<1>8. CASE region = "keyboard"
  <2>1. BusLoad(k, address, n) = KeyboardLoad(k, address - Base["keyboard"], n)
    BY <1>8 DEF BusLoad
  <2>2. InWindow("keyboard", address, n)
    BY <1>8 DEF ReadRegion
  <2> QED BY <1>2, <1>8, <2>1, <2>2, DevicesTyped
<1>9. CASE region = "rtc"
  <2>1. BusLoad(k, address, n) = RtcLoad(k, address - Base["rtc"], n)
    BY <1>9 DEF BusLoad
  <2>2. InWindow("rtc", address, n)
    BY <1>9 DEF ReadRegion
  <2> QED BY <1>2, <1>9, <2>1, <2>2, DevicesTyped
<1>10. CASE region = "platform"
  <2>1. BusLoad(k, address, n) = PlatformLoad(k, address - Base["platform"], n)
    BY <1>10 DEF BusLoad
  <2>2. InWindow("platform", address, n)
    BY <1>10 DEF ReadRegion
  <2> QED BY <1>2, <1>10, <2>1, <2>2, DevicesTyped
<1> QED BY <1>3, <1>4, <1>5, <1>6, <1>7, <1>8, <1>9, <1>10

\* A store changes bytes of its span only, and RAM then holds what it stored.
LEMMA PutTyped ==
    ASSUME MachineTyped, NEW address \in Words, NEW n \in {1, 2, 4}, NEW value \in Int,
           Put(address, n, value)
    PROVE  /\ ram' \in [RamIds -> Bytes] /\ video' \in [VideoIds -> Bytes]
           /\ \A b \in RamIds : ram'[b] # ram[b] => b \in Span(address, n)
           /\ \A v \in VideoIds : video'[v] # video[v] => Base["video"] + v \in Span(address, n)
           /\ address \in 0 .. RamSize - n =>
                 Load(ram', address, n) = value % PlaceValue[n]
<1>1. /\ n \in 0 .. 4 /\ address \in Int /\ "video" \in Devices
      /\ Base["video"] \in Nat /\ Size["video"] \in Nat
      /\ ram \in [RamIds -> Bytes] /\ video \in [VideoIds -> Bytes]
      /\ RamIds \subseteq Int /\ VideoIds \subseteq Int
  <2>1. "video" \in Devices /\ n \in 0 .. 4
    BY DEF Devices
  <2>2. address \in Int /\ ram \in [RamIds -> Bytes] /\ video \in [VideoIds -> Bytes]
    BY DEF Words, MachineTyped
  <2>3. RamIds \subseteq Int /\ VideoIds \subseteq Int
    BY DEF RamIds, VideoIds
  <2> QED BY <2>1, <2>2, <2>3, MapTyped
<1> DEFINE region == WriteRegion(address, n)
           at == address - Base["video"]
<1>2. /\ ram' = IF region = "ram" THEN StoreBytes(ram, address, n, value) ELSE ram
      /\ video' = IF region = "video" THEN StoreBytes(video, at, n, value) ELSE video
  BY DEF Put
<1>3. at \in Int /\ \A v \in VideoIds : v \in Span(at, n) => Base["video"] + v \in Span(address, n)
  <2>1. at \in Int /\ n \in Int /\ Base["video"] \in Int
    BY <1>1
  <2>2. ASSUME NEW v \in VideoIds, v \in Span(at, n)
        PROVE  Base["video"] + v \in Span(address, n)
    <3>1. v \in at .. at + n - 1 /\ v \in Int
      BY <1>1, <2>2 DEF Span
    <3> QED BY <1>1, <2>1, <3>1 DEF Span
  <2> QED BY <2>1, <2>2
<1>4. /\ ram' \in [RamIds -> Bytes]
      /\ \A b \in RamIds : ram'[b] # ram[b] => b \in Span(address, n)
      /\ region = "ram" /\ Span(address, n) \subseteq RamIds =>
            Load(ram', address, n) = value % PlaceValue[n]
  <2>1. CASE region = "ram"
    <3>1. ram' = StoreBytes(ram, address, n, value)
      BY <1>2, <2>1
    <3>2. Stored(RamIds, ram, StoreBytes(ram, address, n, value), address, n, value)
      BY <1>1, StoreTyped
    <3>3. Stored(RamIds, ram, ram', address, n, value)
      BY <3>1, <3>2
    <3> QED BY <3>3 DEF Stored
  <2>2. CASE region # "ram"
    <3>1. ram' = ram
      BY <1>2, <2>2
    <3> HIDE DEF region
    <3> QED BY <1>1, <2>2, <3>1
  <2> QED BY <2>1, <2>2
<1>5. /\ video' \in [VideoIds -> Bytes]
      /\ \A v \in VideoIds : video'[v] # video[v] => v \in Span(at, n)
  <2>1. CASE region = "video"
    <3>1. video' = StoreBytes(video, at, n, value)
      BY <1>2, <2>1
    <3>2. Stored(VideoIds, video, StoreBytes(video, at, n, value), at, n, value)
      BY <1>1, <1>3, StoreTyped
    <3>3. Stored(VideoIds, video, video', at, n, value)
      BY <3>1, <3>2
    <3> QED BY <3>3 DEF Stored
  <2>2. CASE region # "video"
    <3>1. video' = video
      BY <1>2, <2>2
    <3> HIDE DEF region, at
    <3> QED BY <1>1, <3>1
  <2> QED BY <2>1, <2>2
<1>6. ASSUME address \in 0 .. RamSize - n
      PROVE  region = "ram" /\ Span(address, n) \subseteq RamIds
  <2>1. \A d \in Devices : ~ InWindow(d, address, n)
    BY <1>6, MapTyped DEF InWindow
  <2>2. InRam(address, n) /\ Span(address, n) \subseteq RamIds
    BY <1>6, MapTyped DEF InRam, Span, RamIds
  <2> QED BY <2>1, <2>2 DEF WriteRegion, Devices
<1> QED BY <1>3, <1>4, <1>5, <1>6

-----------------------------------------------------------------------------
(***************************************************************************)
(* What every instruction obeys.                                           *)
(***************************************************************************)
\* The operand fields name registers.
Operand(i) == i.rd \in Regs /\ i.ra \in Regs /\ i.rb \in Regs

\* Target and Footprint of any instruction.
TargetOf(i) == IF i.op \in {"PUSH", "CALL"} THEN regs[StackPointer] - 4 ELSE regs[i.ra]
FootprintOf(i) ==
    CASE i.op = "STB" -> {TargetOf(i)}
      [] i.op = "STH" -> TargetOf(i) .. TargetOf(i) + 1
      [] i.op \in {"STW", "PUSH", "CALL"} -> TargetOf(i) .. TargetOf(i) + 3
      [] OTHER -> {}

\* It writes its footprint only, and what it pushed can be popped.
WritesInside(i) ==
    /\ \A b \in RamIds : ram'[b] # ram[b] => b \in FootprintOf(i)
    /\ \A v \in VideoIds : video'[v] # video[v] => Base["video"] + v \in FootprintOf(i)
    /\ i.op = "PUSH" /\ regs'[StackPointer] \in 0 .. RamSize - 4 =>
          Load(ram', regs'[StackPointer], 4) = regs[i.ra]

\* It keeps the types, faults at the pc it was at and without a trace, and,
\* when it succeeds, writes inside.
Obeys(i, next) ==
    /\ MachineTyped'
    /\ state' = "ERROR" => UNCHANGED <<regs, flags, store>> /\ pc' = next
    /\ outcome' = "OK" => WritesInside(i)
    /\ keys' \in Remaining

\* Nothing stored, nothing written.
LEMMA KeepsStore ==
    ASSUME MachineTyped, NEW i, UNCHANGED store
    PROVE  /\ ram' \in [RamIds -> Bytes] /\ video' \in [VideoIds -> Bytes]
           /\ i.op # "PUSH" => WritesInside(i)
<1>1. ram' = ram /\ video' = video
  BY DEF store
<1>2. ram \in [RamIds -> Bytes] /\ video \in [VideoIds -> Bytes]
  BY DEF MachineTyped
<1>3. \A b \in RamIds : ram'[b] = ram[b]
  BY <1>1
<1>4. \A v \in VideoIds : video'[v] = video[v]
  BY <1>1
<1> QED BY <1>1, <1>2, <1>3, <1>4 DEF WritesInside

\* A fault before anything changed.
LEMMA FaultObeys ==
    ASSUME MachineTyped, NEW i, NEW why, NEW next \in Words, NEW k \in Remaining,
           CleanFault(why, next, k)
    PROVE  Obeys(i, next) /\ outcome' # "OK"
<1>1. UNCHANGED <<regs, flags, store>> /\ pc' = next /\ keys' = k /\ outcome' = "FAULT"
  BY DEF CleanFault, Faults, Ends
<1>2. ram' \in [RamIds -> Bytes] /\ video' \in [VideoIds -> Bytes]
  BY <1>1, KeepsStore
<1>3. MachineTyped'
  BY <1>1, <1>2 DEF MachineTyped, Remaining
<1> QED BY <1>1, <1>3 DEF Obeys

\* A halt.
LEMMA HaltObeys ==
    ASSUME MachineTyped, NEW i, NEW why, NEW next \in Words, NEW k \in Remaining,
           Halts(why, next, k)
    PROVE  Obeys(i, next)
<1>1. /\ UNCHANGED <<regs, flags, store>> /\ pc' = next /\ keys' = k
      /\ state' = "HALTED" /\ outcome' = "HALTED"
  BY DEF Halts, Ends
<1>2. ram' \in [RamIds -> Bytes] /\ video' \in [VideoIds -> Bytes]
  BY <1>1, KeepsStore
<1>3. MachineTyped'
  BY <1>1, <1>2 DEF MachineTyped, Remaining
<1> QED BY <1>1, <1>3 DEF Obeys

\* An instruction that stores nothing.
LEMMA RetiresObeys ==
    ASSUME MachineTyped, NEW i, i.op # "PUSH", NEW next, NEW target \in Words,
           NEW k \in Remaining, Retires(target, k), UNCHANGED store,
           regs' \in [Regs -> Words]
    PROVE  Obeys(i, next)
<1>1. pc' = target /\ keys' = k /\ state' = "STOPPED"
  BY DEF Retires, Ends
<1>2. ram' \in [RamIds -> Bytes] /\ video' \in [VideoIds -> Bytes] /\ WritesInside(i)
  BY KeepsStore
<1>3. MachineTyped'
  BY <1>1, <1>2 DEF MachineTyped, Remaining
<1> QED BY <1>1, <1>2, <1>3 DEF Obeys

\* A register that receives a word.
LEMMA RegisterObeys ==
    ASSUME MachineTyped, NEW i, i.op # "PUSH", NEW next \in Words,
           NEW rd \in Regs, NEW value \in Words, NEW k \in Remaining
    PROVE  /\ SetsRegister(rd, value, next, k) => Obeys(i, next)
           /\ \A out : out.result = value /\ SetsResult(rd, out, next, k) => Obeys(i, next)
<1>1. [regs EXCEPT ![rd] = value] \in [Regs -> Words]
  BY DEF MachineTyped
<1>2. ASSUME SetsRegister(rd, value, next, k) PROVE Obeys(i, next)
  BY <1>1, <1>2, RetiresObeys DEF SetsRegister
<1>3. ASSUME NEW out, out.result = value, SetsResult(rd, out, next, k)
      PROVE  Obeys(i, next)
  BY <1>1, <1>3, RetiresObeys DEF SetsResult
<1> QED BY <1>2, <1>3

\* A comparison.
LEMMA ComparesObeys ==
    ASSUME MachineTyped, NEW i, i.op # "PUSH", NEW next \in Words,
           NEW other, NEW k \in Remaining, Compares(other, i, next, k)
    PROVE  Obeys(i, next)
<1>1. Retires(next, k) /\ UNCHANGED store /\ regs' = regs
  BY DEF Compares
<1>2. regs' \in [Regs -> Words]
  BY <1>1 DEF MachineTyped
<1> QED BY <1>1, <1>2, RetiresObeys

-----------------------------------------------------------------------------
(***************************************************************************)
(* Loads, stores and the stack.                                            *)
(***************************************************************************)
\* The registers hold words, the stack pointer is one.
LEMMA RegistersTyped ==
    ASSUME MachineTyped
    PROVE  /\ \A r \in Regs : regs[r] \in Words
           /\ StackPointer \in Regs /\ regs[StackPointer] \in Words
<1>1. StackPointer \in Regs
  BY MachineAssumption DEF StackPointer, Regs
<1> QED BY <1>1 DEF MachineTyped

\* LDB, LDH, LDW.
LEMMA LoadObeys ==
    ASSUME MachineTyped, NEW i, Operand(i), NEW next \in Words, NEW k \in Remaining,
           LoadMemory(i, next, k)
    PROVE  Obeys(i, next)
<1>1. i.op \in {"LDB", "LDH", "LDW"} /\ Width[i.op] \in {1, 2, 4}
  BY DEF LoadMemory, Width
<1>2. regs[i.ra] \in Words /\ i.rd \in Regs
  BY RegistersTyped DEF Operand
<1>3. PICK got \in BusLoad(k, regs[i.ra], Width[i.op]) :
        \/ got.ok /\ SetsRegister(i.rd, got.value, next, got.keys)
        \/ ~ got.ok /\ CleanFault("memory", next, got.keys)
  BY DEF LoadMemory
<1>4. got.value \in Words /\ got.keys \in Remaining
  <2>1. got \in Got(k, regs[i.ra], Width[i.op])
    BY <1>1, <1>2, <1>3, BusTyped
  <2> QED BY <2>1 DEF Got
<1>5. CASE SetsRegister(i.rd, got.value, next, got.keys)
  BY <1>1, <1>2, <1>4, <1>5, RegisterObeys
<1>6. CASE CleanFault("memory", next, got.keys)
  BY <1>4, <1>6, FaultObeys
<1> QED BY <1>3, <1>5, <1>6

\* A store that is accepted goes where the instruction says.
LEMMA PutObeys ==
    ASSUME MachineTyped, NEW i, NEW next, NEW target \in Words, NEW k \in Remaining,
           NEW address \in Words, NEW n \in {1, 2, 4}, NEW value \in Int,
           Put(address, n, value), Retires(target, k), regs' \in [Regs -> Words],
           Span(address, n) = FootprintOf(i),
           i.op = "PUSH" => /\ regs'[StackPointer] = address /\ n = 4
                            /\ value = regs[i.ra] /\ value \in Words
    PROVE  Obeys(i, next)
<1>1. pc' = target /\ keys' = k /\ state' = "STOPPED"
  BY DEF Retires, Ends
<1>2. /\ ram' \in [RamIds -> Bytes] /\ video' \in [VideoIds -> Bytes]
      /\ \A b \in RamIds : ram'[b] # ram[b] => b \in FootprintOf(i)
      /\ \A v \in VideoIds : video'[v] # video[v] => Base["video"] + v \in FootprintOf(i)
      /\ address \in 0 .. RamSize - n => Load(ram', address, n) = value % PlaceValue[n]
  BY PutTyped
<1>3. ASSUME i.op = "PUSH", regs'[StackPointer] \in 0 .. RamSize - 4
      PROVE  Load(ram', regs'[StackPointer], 4) = regs[i.ra]
  <2>1. Load(ram', address, 4) = value % PlaceValue[4]
    BY <1>2, <1>3
  <2>2. PlaceValue[4] = M /\ M \in Nat \ {0}
    BY PlaceValues, WordPowers
  <2>3. value \in Nat /\ value < M
    BY <1>3, <2>2 DEF Words
  <2> HIDE DEF M
  <2>4. value % M = value
    BY <2>2, <2>3
  <2>5. n = 4
    BY <1>3
  <2>6. Load(ram', address, 4) = value
    BY <2>1, <2>2, <2>4
  <2> QED BY <1>3, <2>5, <2>6
<1>4. WritesInside(i)
  BY <1>2, <1>3 DEF WritesInside
<1>5. MachineTyped'
  BY <1>1, <1>2 DEF MachineTyped, Remaining
<1> QED BY <1>1, <1>4, <1>5 DEF Obeys

\* STB, STH, STW.
LEMMA StoreObeys ==
    ASSUME MachineTyped, NEW i, Operand(i), NEW next \in Words, NEW k \in Remaining,
           StoreMemory(i, next, k)
    PROVE  Obeys(i, next)
<1> DEFINE address == regs[i.ra]
           n == Width[i.op]
           value == regs[i.rb] % PlaceValue[n]
<1>1. i.op \in {"STB", "STH", "STW"} /\ n \in {1, 2, 4}
  BY DEF StoreMemory, Width
<1>2. address \in Words /\ regs[i.rb] \in Words
  BY RegistersTyped DEF Operand
<1>3. value \in Int
  <2>1. n \in 0 .. 4
    BY <1>1
  <2>2. PlaceValue[n] \in Nat \ {0}
    BY <2>1, PlaceValues
  <2>3. regs[i.rb] \in Int
    BY <1>2 DEF Words
  <2> QED BY <2>2, <2>3, Divided
<1>4. CASE Put(address, n, value) /\ Retires(next, k) /\ UNCHANGED <<regs, flags>>
  <2>1. Span(address, n) = FootprintOf(i)
    <3>1. TargetOf(i) = address /\ address \in Int
      BY <1>1, <1>2 DEF TargetOf, Words
    <3>2. CASE i.op = "STB"
      BY <3>1, <3>2 DEF Span, FootprintOf, Width
    <3>3. CASE i.op = "STH"
      BY <3>1, <3>3 DEF Span, FootprintOf, Width
    <3>4. CASE i.op = "STW"
      BY <3>1, <3>4 DEF Span, FootprintOf, Width
    <3> QED BY <1>1, <3>2, <3>3, <3>4
  <2>2. regs' \in [Regs -> Words] /\ i.op # "PUSH"
    BY <1>1, <1>4 DEF MachineTyped
  <2> HIDE DEF address, n, value
  <2> QED BY <1>1, <1>2, <1>3, <1>4, <2>1, <2>2, PutObeys
<1>5. CASE CleanFault("memory", next, k)
  BY <1>5, FaultObeys
<1> QED BY <1>4, <1>5 DEF StoreMemory

\* PUSH and CALL.
LEMMA PushObeys ==
    ASSUME MachineTyped, NEW i, i.op \in {"PUSH", "CALL"}, NEW value \in Words,
           NEW target \in Words, NEW next \in Words, NEW k \in Remaining,
           i.op = "PUSH" => value = regs[i.ra], PushOrFault(value, target, next, k)
    PROVE  Obeys(i, next)
<1> DEFINE sp == regs[StackPointer]
<1>1. sp \in Words /\ StackPointer \in Regs
  BY RegistersTyped
<1>2. CASE /\ sp >= 4 /\ Put(sp - 4, 4, value)
           /\ regs' = [regs EXCEPT ![StackPointer] = sp - 4] /\ Retires(target, k)
  <2> DEFINE address == sp - 4
  <2>1. address \in Words
    <3>1. sp - 4 \in 0 .. M - 1
      <4> DEFINE top == M
      <4>1. sp \in 0 .. top - 1 /\ sp >= 4 /\ top \in Nat
        BY <1>1, <1>2, WordPowers DEF Words
      <4> HIDE DEF sp, top
      <4>2. sp - 4 \in 0 .. top - 1
        BY <4>1
      <4> QED BY <4>2 DEF top
    <3> QED BY <3>1 DEF Words
  <2>2. regs' \in [Regs -> Words] /\ regs'[StackPointer] = address
    BY <1>1, <1>2, <2>1 DEF MachineTyped
  <2>3. Span(address, 4) = FootprintOf(i)
    BY <2>1 DEF Span, FootprintOf, TargetOf, Words
  <2>4. value \in Int
    BY DEF Words
  <2> HIDE DEF address
  <2>5. Put(address, 4, value) /\ Retires(target, k)
    BY <1>2 DEF address
  <2> QED BY <2>1, <2>2, <2>3, <2>4, <2>5, PutObeys
<1>3. CASE CleanFault("memory", next, k)
  BY <1>3, FaultObeys
<1> QED BY <1>2, <1>3 DEF PushOrFault

\* What a pop finds moves the stack pointer inside the words.
LEMMA PopMoves ==
    ASSUME MachineTyped, NEW k \in Remaining, NEW got \in BusLoad(k, regs[StackPointer], 4)
    PROVE  /\ got.value \in Words /\ got.keys \in Remaining /\ got.ok \in BOOLEAN
           /\ got.ok => regs[StackPointer] + 4 < M /\ regs[StackPointer] + 4 \in Words
<1>1. got \in Got(k, regs[StackPointer], 4) /\ regs[StackPointer] \in Words
  BY RegistersTyped, BusTyped
<1>2. /\ got.value \in Words /\ got.keys \in Remaining /\ got.ok \in BOOLEAN
      /\ got.ok => regs[StackPointer] + 4 < M
  BY <1>1 DEF Got
<1> DEFINE sp == regs[StackPointer]
           top == M
<1>3. sp \in 0 .. top - 1 /\ top \in Nat
  BY <1>1, WordPowers DEF Words
<1> HIDE DEF sp, top
<1>4. sp + 4 < top => sp + 4 \in 0 .. top - 1
  BY <1>3
<1> QED BY <1>2, <1>4 DEF sp, top, Words

\* POP: the loaded word stays only when the pointer moves.
LEMMA PopObeys ==
    ASSUME MachineTyped, NEW i, Operand(i), NEW next \in Words, NEW k \in Remaining,
           Pop(i, next, k)
    PROVE  Obeys(i, next)
<1> DEFINE sp == regs[StackPointer]
<1>1. i.op = "POP" /\ UNCHANGED <<flags, store>>
  BY DEF Pop
<1>2. PICK got \in BusLoad(k, sp, 4) :
        LET loaded == IF got.ok THEN [regs EXCEPT ![i.rd] = got.value] ELSE regs
            moves == got.ok /\ sp + 4 < M
        IN  /\ regs' = IF moves THEN [loaded EXCEPT ![StackPointer] = sp + 4] ELSE loaded
            /\ IF moves THEN Retires(next, got.keys) ELSE Faults("memory", next, got.keys)
  BY DEF Pop
<1>3. /\ got.value \in Words /\ got.keys \in Remaining /\ got.ok \in BOOLEAN
      /\ got.ok => sp + 4 < M /\ sp + 4 \in Words
  BY PopMoves
<1>4. CASE got.ok
  <2>1. /\ regs' = [[regs EXCEPT ![i.rd] = got.value] EXCEPT ![StackPointer] = sp + 4]
        /\ Retires(next, got.keys)
    BY <1>2, <1>3, <1>4
  <2>2. [regs EXCEPT ![i.rd] = got.value] \in [Regs -> Words]
    BY <1>3 DEF MachineTyped, Operand
  <2>3. regs' \in [Regs -> Words]
    BY <1>3, <1>4, <2>1, <2>2
  <2> QED BY <1>1, <1>3, <2>1, <2>3, RetiresObeys
<1>5. CASE ~ got.ok
  <2>1. regs' = regs /\ Faults("memory", next, got.keys)
    BY <1>2, <1>5
  <2>2. CleanFault("memory", next, got.keys)
    BY <1>1, <2>1 DEF CleanFault
  <2> QED BY <1>3, <2>2, FaultObeys
<1> QED BY <1>3, <1>4, <1>5

\* RET and IRET.
LEMMA ReturnObeys ==
    ASSUME MachineTyped, NEW i, NEW next \in Words, NEW k \in Remaining,
           Return(i, next, k)
    PROVE  Obeys(i, next)
<1> DEFINE sp == regs[StackPointer]
<1>1. i.op # "PUSH" /\ UNCHANGED <<flags, store>>
  BY DEF Return
<1>2. PICK got \in BusLoad(k, sp, 4) :
        LET target == IF got.ok THEN got.value ELSE next
            moves == got.ok /\ sp + 4 < M
        IN  /\ regs' = IF moves THEN [regs EXCEPT ![StackPointer] = sp + 4] ELSE regs
            /\ IF moves THEN Retires(target, got.keys)
                        ELSE Faults("memory", target, got.keys)
  BY DEF Return
<1>3. /\ got.value \in Words /\ got.keys \in Remaining /\ got.ok \in BOOLEAN
      /\ got.ok => sp + 4 < M /\ sp + 4 \in Words
  BY PopMoves
<1>4. CASE got.ok
  <2>1. /\ regs' = [regs EXCEPT ![StackPointer] = sp + 4]
        /\ Retires(got.value, got.keys)
    BY <1>2, <1>3, <1>4
  <2>2. regs' \in [Regs -> Words]
    BY <1>3, <1>4, <2>1 DEF MachineTyped
  <2> QED BY <1>1, <1>3, <2>1, <2>2, RetiresObeys
<1>5. CASE ~ got.ok
  <2>1. regs' = regs /\ Faults("memory", next, got.keys)
    BY <1>2, <1>5
  <2>2. CleanFault("memory", next, got.keys)
    BY <1>1, <2>1 DEF CleanFault
  <2> QED BY <1>3, <2>2, FaultObeys
<1> QED BY <1>3, <1>4, <1>5

-----------------------------------------------------------------------------
(***************************************************************************)
(* The other instructions.                                                 *)
(***************************************************************************)
\* The ALU instructions.
LEMMA AluObeys ==
    ASSUME MachineTyped, NEW i, Operand(i), NEW next \in Words, NEW k \in Remaining,
           ThreeRegister(i, next, k) \/ Divide(i, next, k) \/ Cmp(i, next, k)
    PROVE  Obeys(i, next)
<1> DEFINE a == regs[i.ra]
           b == regs[i.rb]
           Word(out) == out.result \in Words
<1>1. a \in Words /\ b \in Words /\ i.rd \in Regs
  BY RegistersTyped DEF Operand
<1>2. /\ \A out \in {AluAdd(a, b), AluSub(a, b), Mul(a, b), MulU(a, b), And(a, b),
                     Or(a, b), Xor(a, b), Not(a), Shl(a, b), Shr(a, b), Sar(a, b)} :
            Word(out)
      /\ ~ DivFaults(a, b) => Word(Div(a, b))
      /\ ~ DivUFaults(a, b) => Word(DivU(a, b))
  <2> HIDE DEF a, b
  <2> QED BY <1>1, ResultsAreWords
<1>3. ASSUME NEW out, Word(out), SetsResult(i.rd, out, next, k), i.op # "PUSH"
      PROVE  Obeys(i, next)
  BY <1>1, <1>3, RegisterObeys
<1>4. CASE ThreeRegister(i, next, k)
  <2>1. \E out : Word(out) /\ SetsResult(i.rd, out, next, k) /\ i.op # "PUSH"
    <3> HIDE DEF Word
    <3> QED BY <1>2, <1>4 DEF ThreeRegister
  <2> QED BY <1>3, <2>1
<1>5. CASE Divide(i, next, k)
  <2>1. \/ CleanFault("divide", next, k)
        \/ \E out : Word(out) /\ SetsResult(i.rd, out, next, k) /\ i.op # "PUSH"
    <3> HIDE DEF Word
    <3> QED BY <1>2, <1>5 DEF Divide
  <2> QED BY <1>3, <2>1, FaultObeys
<1>6. CASE Cmp(i, next, k)
  <2>1. i.op # "PUSH"
    BY <1>6 DEF Cmp
  <2> QED BY <1>6, <2>1, ComparesObeys DEF Cmp
<1> QED BY <1>4, <1>5, <1>6

\* The next pc is a word.
LEMMA NextWord == \A w \in Words : (w + 4) % M \in Words
<1> DEFINE top == M
<1>1. top \in Nat \ {0}
  BY WordPowers
<1>2. ASSUME NEW w \in Words PROVE w + 4 \in Int
  BY DEF Words
<1> HIDE DEF top
<1>3. \A x \in Int : x % top \in 0 .. top - 1
  BY <1>1, Divided
<1> QED BY <1>2, <1>3 DEF top, Words

\* After its extension word was read.
LEMMA ImmediateObeys ==
    ASSUME MachineTyped, NEW i, Operand(i), NEW value \in Words, NEW next \in Words,
           NEW after \in Words, NEW k \in Remaining,
           \/ Trap(i, value, after, k) \/ MovI(i, value, after, k)
           \/ Immediate(i, value, after, k) \/ Jump(i, value, after, k)
           \/ Call(i, value, after, k)
    PROVE  Obeys(i, after)
<1>1. CASE Trap(i, value, after, k)
  BY <1>1, HaltObeys DEF Trap
<1>2. CASE MovI(i, value, after, k)
  <2>1. /\ i.op # "PUSH" /\ regs' = [regs EXCEPT ![i.rd] = value]
        /\ Retires(after, k) /\ UNCHANGED store
    BY <1>2 DEF MovI
  <2>2. regs' \in [Regs -> Words]
    BY <2>1 DEF MachineTyped, Operand
  <2> QED BY <2>1, <2>2, RetiresObeys
<1>3. CASE Immediate(i, value, after, k)
  <2>1. regs[i.ra] \in Words /\ i.rd \in Regs
    BY RegistersTyped DEF Operand
  <2>2. AluAdd(regs[i.ra], value).result \in Words /\ AluSub(regs[i.ra], value).result \in Words
    BY <2>1, ResultsAreWords
  <2>3. CASE i.op = "ADDI" /\ SetsResult(i.rd, AluAdd(regs[i.ra], value), after, k)
    <3>1. i.op # "PUSH"
      BY <2>3
    <3> QED BY <2>1, <2>2, <2>3, <3>1, RegisterObeys
  <2>4. CASE i.op = "SUBI" /\ SetsResult(i.rd, AluSub(regs[i.ra], value), after, k)
    <3>1. i.op # "PUSH"
      BY <2>4
    <3> QED BY <2>1, <2>2, <2>4, <3>1, RegisterObeys
  <2>5. CASE i.op = "CMPI" /\ Compares(value, i, after, k)
    <3>1. i.op # "PUSH"
      BY <2>5
    <3> QED BY <2>5, <3>1, ComparesObeys
  <2> QED BY <1>3, <2>3, <2>4, <2>5 DEF Immediate
<1>4. CASE Jump(i, value, after, k)
  <2>1. /\ i.op # "PUSH" /\ UNCHANGED <<regs, store>>
        /\ Retires(value, k) \/ Retires(after, k)
    BY <1>4 DEF Jump
  <2>2. regs' \in [Regs -> Words]
    BY <2>1 DEF MachineTyped
  <2> QED BY <2>1, <2>2, RetiresObeys
<1>5. CASE Call(i, value, after, k)
  <2>1. i.op = "CALL" /\ PushOrFault(after, value, after, k)
    BY <1>5 DEF Call
  <2> QED BY <2>1, PushObeys
<1> QED BY <1>1, <1>2, <1>3, <1>4, <1>5

\* The instructions with an extension word.
LEMMA ExtendedObeys ==
    ASSUME MachineTyped, NEW i, Operand(i), NEW next \in Words, NEW k \in Remaining,
           Extended(i, next, k)
    PROVE  Obeys(i, next) \/ Obeys(i, (next + 4) % M)
<1> DEFINE after == (next + 4) % M
<1>1. PICK got \in BusLoad(k, next, 4) :
        \/ ~ got.ok /\ CleanFault("extension", next, got.keys)
        \/ \/ Trap(i, got.value, after, got.keys)
           \/ MovI(i, got.value, after, got.keys)
           \/ Immediate(i, got.value, after, got.keys)
           \/ Jump(i, got.value, after, got.keys)
           \/ Call(i, got.value, after, got.keys)
  BY DEF Extended
<1>2. got.value \in Words /\ got.keys \in Remaining
  <2>1. got \in Got(k, next, 4)
    BY BusTyped
  <2> QED BY <2>1 DEF Got
<1>3. after \in Words
  BY NextWord
<1> HIDE DEF after
<1>4. CASE CleanFault("extension", next, got.keys)
  BY <1>2, <1>4, FaultObeys
<1>5. CASE ~ CleanFault("extension", next, got.keys)
  BY <1>1, <1>2, <1>3, <1>5, ImmediateObeys DEF after
<1> QED BY <1>4, <1>5

\* Every instruction.
LEMMA ExecuteObeys ==
    ASSUME MachineTyped, NEW i, Operand(i), NEW next \in Words, NEW k \in Remaining,
           Execute(i, next, k)
    PROVE  Obeys(i, next) \/ Obeys(i, (next + 4) % M)
<1>1. CASE CleanFault("encoding", next, k) \/ CleanFault("opcode", next, k)
  BY <1>1, FaultObeys
<1>2. CASE Halt(i, next, k)
  BY <1>2, HaltObeys DEF Halt
<1>3. CASE Nop(i, next, k)
  <2>1. i.op # "PUSH" /\ Retires(next, k) /\ UNCHANGED <<regs, store>>
    BY <1>3 DEF Nop
  <2>2. regs' \in [Regs -> Words]
    BY <2>1 DEF MachineTyped
  <2> QED BY <2>1, <2>2, RetiresObeys
<1>4. CASE CpuId(i, next, k) \/ Mov(i, next, k)
  <2>1. i.op # "PUSH"
    BY <1>4 DEF CpuId, Mov
  <2>2. CpuIdValue \in Words /\ regs[i.ra] \in Words /\ i.rd \in Regs
    BY RegistersTyped, MachineAssumption DEF Operand
  <2> QED BY <1>4, <2>1, <2>2, RegisterObeys DEF CpuId, Mov
<1>5. CASE Push(i, next, k)
  <2>1. i.op = "PUSH" /\ PushOrFault(regs[i.ra], next, next, k)
    BY <1>5 DEF Push
  <2>2. regs[i.ra] \in Words
    BY RegistersTyped DEF Operand
  <2> QED BY <2>1, <2>2, PushObeys
<1>6. CASE LoadMemory(i, next, k)
  BY <1>6, LoadObeys
<1>7. CASE StoreMemory(i, next, k)
  BY <1>7, StoreObeys
<1>8. CASE Pop(i, next, k)
  BY <1>8, PopObeys
<1>9. CASE Return(i, next, k)
  BY <1>9, ReturnObeys
<1>10. CASE ThreeRegister(i, next, k) \/ Divide(i, next, k) \/ Cmp(i, next, k)
  BY <1>10, AluObeys
<1>11. CASE Extended(i, next, k)
  BY <1>11, ExtendedObeys
<1> QED BY <1>1, <1>2, <1>3, <1>4, <1>5, <1>6, <1>7, <1>8, <1>9, <1>10, <1>11 DEF Execute

-----------------------------------------------------------------------------
(***************************************************************************)
(* t32_step.                                                               *)
(***************************************************************************)
\* An instruction whose pc is in RAM is fetched from there.
LEMMA FetchedFromRam ==
    ASSUME MachineTyped, pc \in 0 .. RamSize - 4, NEW k, NEW got \in BusLoad(k, pc, 4)
    PROVE  got.value = Load(ram, pc, 4)
<1>1. \A d \in Devices : ~ InWindow(d, pc, 4)
  BY MapTyped DEF InWindow
<1>2. InRam(pc, 4)
  BY MapTyped DEF InRam
<1>3. ReadRegion(pc, 4) = "ram"
  BY <1>1, <1>2 DEF ReadRegion, Devices
<1>4. BusLoad(k, pc, 4) = {Delivered(Load(ram, pc, 4), k)}
  BY <1>3 DEF BusLoad
<1> QED BY <1>4 DEF Delivered

\* A fault leaves no trace, and the pc in the instruction.
PreciseStep ==
    state # "ERROR" /\ state' = "ERROR" =>
        UNCHANGED <<regs, flags, store>> /\ pc' \in {pc, (pc + 4) % M, (pc + 8) % M}

\* An instruction in RAM writes inside.
InsideStep ==
    count' # count /\ outcome' = "OK" /\ pc \in 0 .. RamSize - 4 => WritesInside(Current)

\* One step.
LEMMA StepObeys ==
    ASSUME MachineTyped, Step
    PROVE  MachineTyped' /\ PreciseStep /\ InsideStep /\ keys' \in Remaining
<1>1. CASE state \in {"HALTED", "ERROR"}
  <2>1. UNCHANGED <<cpu, store, keys>>
    BY <1>1 DEF Step
  <2>2. UNCHANGED <<regs, pc, state, count, ram, video, keys>>
    BY <2>1 DEF cpu, store
  <2>3. MachineTyped'
    BY <2>2 DEF MachineTyped
  <2> QED BY <2>2, <2>3 DEF PreciseStep, InsideStep, MachineTyped, Remaining
<1>2. CASE state = "STOPPED"
  <2>1. PICK got \in BusLoad(keys, pc, 4) :
          \/ CleanFault("fetch", pc, got.keys) /\ UNCHANGED count
          \/ Execute(Decode[got.value], (pc + 4) % M, got.keys)
    BY <1>2 DEF Step
  <2>2. pc \in Words /\ keys \in Remaining
    BY DEF MachineTyped, Remaining
  <2>3. got.value \in Words /\ got.keys \in Remaining
    <3>1. got \in Got(keys, pc, 4)
      BY <2>2, BusTyped
    <3> QED BY <3>1 DEF Got
  <2>4. CASE CleanFault("fetch", pc, got.keys) /\ UNCHANGED count
    <3>1. Obeys(Decode[got.value], pc)
      BY <2>2, <2>3, <2>4, FaultObeys
    <3> QED BY <2>4, <3>1 DEF Obeys, PreciseStep, InsideStep
  <2>5. CASE Execute(Decode[got.value], (pc + 4) % M, got.keys)
    <3> DEFINE i == Decode[got.value]
               next == (pc + 4) % M
    <3>1. Operand(i) /\ next \in Words
      BY <2>2, <2>3, MachineAssumption, NextWord DEF Operand
    <3>2. PICK at \in {next, (next + 4) % M} : Obeys(i, at)
      <4> HIDE DEF i, next
      <4>1. Execute(i, next, got.keys)
        BY <2>5 DEF i, next
      <4> QED BY <2>3, <3>1, <4>1, ExecuteObeys
    <3>3. (next + 4) % M = (pc + 8) % M
      <4> DEFINE top == M
                 four == pc + 4
      <4>1. pc \in Int /\ four \in Int /\ four = pc + 4 /\ top \in Nat \ {0}
        BY <2>2, WordPowers DEF Words
      <4> HIDE DEF top, four
      <4>2. PICK q \in Int, r \in Nat : r < top /\ four = top * q + r
        <5>1. /\ four \div top \in Int /\ four % top \in Nat /\ four % top < top
              /\ four = top * (four \div top) + (four % top)
          BY <4>1, Divided
        <5> QED BY <5>1
      <4>3. four % top = r
        BY <4>1, <4>2, DivisionIsUnique
      <4>4. pc + 8 = (r + 4) + top * q
        BY <4>1, <4>2
      <4>5. r + 4 \in Int /\ pc + 8 \in Int /\ pc + 8 = (r + 4) + M * q
        BY <4>1, <4>4 DEF top
      <4>6. (pc + 8) % M = (r + 4) % M
        BY <4>5, SameWord
      <4> QED BY <4>3, <4>6 DEF top, four
    <3>4. MachineTyped' /\ PreciseStep /\ keys' \in Remaining
      BY <3>2, <3>3 DEF Obeys, PreciseStep
    <3>5. ASSUME pc \in 0 .. RamSize - 4 PROVE i = Current
      BY <3>5, FetchedFromRam DEF Current
    <3>6. InsideStep
      <4> HIDE DEF i
      <4> QED BY <3>2, <3>5 DEF Obeys, InsideStep
    <3> QED BY <3>4, <3>6
  <2> QED BY <2>1, <2>4, <2>5
<1> QED BY <1>1, <1>2 DEF Step

\* The machine starts with typed values.
LEMMA InitTyped == Init => MachineTyped
<1> SUFFICES ASSUME Init PROVE MachineTyped
  OBVIOUS
<1>1. PICK s \in Setups : ram = s.ram /\ regs = s.regs /\ pc = s.pc
  BY DEF Init
<1>2. ram \in [RamIds -> Bytes] /\ regs \in [Regs -> Words] /\ pc \in Words
  BY <1>1, MachineAssumption
<1>3. video = [v \in VideoIds |-> Blank] /\ keys = << >> /\ Blank \in Bytes
  BY MachineAssumption DEF Init
<1> QED BY <1>2, <1>3 DEF MachineTyped

\* One call of the host, or one turn of t32_run's loop.
LEMMA NextObeys ==
    ASSUME MachineTyped, [Next]_vars
    PROVE  MachineTyped' /\ (Next => PreciseStep /\ InsideStep)
<1>1. CASE CallStep \/ RunStep
  BY <1>1, StepObeys DEF CallStep, RunStep
<1>2. CASE \/ UNCHANGED vars \/ (\E limit \in Limits : CallRun(limit))
           \/ TakeDisplay \/ ClearRequests
  <2>1. UNCHANGED <<regs, pc, state, count, ram, video, keys>>
    BY <1>2 DEF vars, cpu, store, CallRun, TakeDisplay, ClearRequests
  <2>2. MachineTyped'
    BY <2>1 DEF MachineTyped
  <2> QED BY <2>1, <2>2 DEF PreciseStep, InsideStep
<1>3. CASE RunEnds \/ ClearHalt
  <2>1. UNCHANGED <<regs, pc, count, ram, video, keys>>
    BY <1>3 DEF store, RunEnds, ClearHalt
  <2>2. state' = "STOPPED" \/ state' = state
    BY <1>3 DEF RunEnds, ClearHalt
  <2>3. MachineTyped'
    BY <2>1 DEF MachineTyped
  <2> QED BY <2>1, <2>2, <2>3 DEF PreciseStep, InsideStep
<1>4. ASSUME NEW c \in Keys, PushKey(c) PROVE MachineTyped' /\ PreciseStep /\ InsideStep
  <2>1. UNCHANGED <<regs, pc, state, count, ram, video>> /\ keys' = Append(keys, c)
    BY <1>4 DEF cpu, store, PushKey
  <2>2. MachineTyped'
    BY <2>1 DEF MachineTyped
  <2> QED BY <2>1, <2>2 DEF PreciseStep, InsideStep
<1>5. CASE Reset
  <2>1. /\ regs' = [r \in Regs |-> 0] /\ pc' = 0 /\ video' = [v \in VideoIds |-> Blank]
        /\ keys' = << >> /\ state' = "STOPPED" /\ outcome' = "none" /\ ram' = ram
    BY <1>5 DEF Reset
  <2>2. 0 \in Words /\ Blank \in Bytes
    BY WordPowers, MachineAssumption DEF Words
  <2>3. MachineTyped'
    BY <2>1, <2>2 DEF MachineTyped
  <2> QED BY <2>1, <2>3 DEF PreciseStep, InsideStep
<1> QED BY <1>1, <1>2, <1>3, <1>4, <1>5 DEF Next

-----------------------------------------------------------------------------
\* Whatever the program, the map and the keys: an instruction that faults has
\* changed no register, flag or byte and made no request.
THEOREM FaultsArePrecise == Spec => FaultIsPrecise
<1>1. ASSUME MachineTyped, [Next]_vars PROVE MachineTyped' /\ [PreciseStep]_vars
  BY <1>1, NextObeys
<1> QED BY InitTyped, <1>1, PTL DEF Spec, FaultIsPrecise, PreciseStep

\* Whatever the program: an instruction in RAM writes only the bytes it names,
\* and what it pushed reads back as it was.
THEOREM WritesAreWithin == Spec => WritesItsFootprint
<1>1. ASSUME MachineTyped, [Next]_vars PROVE MachineTyped' /\ [InsideStep]_vars
  BY <1>1, NextObeys
<1> QED BY InitTyped, <1>1, PTL
        DEF Spec, WritesItsFootprint, InsideStep, WritesInside, FootprintOf, TargetOf,
            Footprint, Target

-----------------------------------------------------------------------------
(***************************************************************************)
(* The machine as its host sees it.                                        *)
(***************************************************************************)
\* The inductive invariant: the types of what is seen, and what makes the end
\* of a limited run show nothing.
SeenIInv == MachineTyped /\ MachineIInv /\ SignalsTyped /\ state \in States

LEMMA InitSeen == Init => SeenIInv /\ Seen = Host!Fresh
<1> SUFFICES ASSUME Init PROVE SeenIInv /\ Seen = Host!Fresh
  OBVIOUS
<1>1. /\ dirty = TRUE /\ powerOff = FALSE /\ resetReq = FALSE /\ state = "STOPPED"
      /\ keys = << >> /\ video = [v \in VideoIds |-> Blank]
  BY DEF Init
<1>2. SignalsTyped /\ state \in States
  BY <1>1 DEF SignalsTyped, States
<1> QED BY <1>1, <1>2, InitTyped, InitMachineIInv DEF SeenIInv, Seen, Host!Fresh

\* What is seen of a typed machine, before a step and after it.
LEMMA SeenIsView ==
    ASSUME SeenIInv
    PROVE  Seen \in Host!View
<1>1. (keys # << >>) \in BOOLEAN /\ video \in [VideoIds -> Bytes]
  BY DEF SeenIInv, MachineTyped
<1> QED BY <1>1 DEF SeenIInv, SignalsTyped, States, Seen, Host!View

LEMMA SeenTyped ==
    ASSUME MachineTyped', SignalsTyped', state' \in States
    PROVE  Seen' \in Host!View
<1>1. (keys' # << >>) \in BOOLEAN /\ video' \in [VideoIds -> Bytes]
  BY DEF MachineTyped
<1> QED BY <1>1 DEF SignalsTyped, States, Seen, Host!View

\* The parts that are seen, one by one.
LEMMA SeenUnchanged ==
    ASSUME UNCHANGED <<state, store, keys>>
    PROVE  Seen' = Seen
BY DEF store, Seen

\* Two views that agree in every part are the same.
LEMMA ViewsAgree ==
    ASSUME NEW f \in Host!View, NEW g \in Host!View, f.state = g.state,
           f.power = g.power, f.reset = g.reset, f.typed = g.typed,
           f.video = g.video, f.dirty = g.dirty
    PROVE  f = g
BY DEF Host!View

\* The calls that set some parts.
LEMMA ViewsChanged ==
    ASSUME NEW f \in Host!View, NEW g \in Host!View,
           f.state = g.state, f.video = g.video
    PROVE  /\ f.power = g.power /\ f.reset = g.reset /\ f.dirty = g.dirty /\ g.typed
                => g = [f EXCEPT !.typed = TRUE]
           /\ f.power = g.power /\ f.reset = g.reset /\ f.typed = g.typed /\ ~ g.dirty
                => g = [f EXCEPT !.dirty = FALSE]
           /\ ~ g.power /\ ~ g.reset /\ f.typed = g.typed /\ f.dirty = g.dirty
                => g = [f EXCEPT !.power = FALSE, !.reset = FALSE]
<1> DEFINE typed == [f EXCEPT !.typed = TRUE]
           taken == [f EXCEPT !.dirty = FALSE]
           cleared == [f EXCEPT !.power = FALSE, !.reset = FALSE]
           Same(h) == h \in Host!View /\ h.state = f.state /\ h.video = f.video
<1>1. /\ Same(typed) /\ typed.power = f.power /\ typed.reset = f.reset
      /\ typed.typed = TRUE /\ typed.dirty = f.dirty
  BY DEF Host!View
<1>2. /\ Same(taken) /\ taken.power = f.power /\ taken.reset = f.reset
      /\ taken.typed = f.typed /\ taken.dirty = FALSE
  BY DEF Host!View
<1>3. /\ Same(cleared) /\ cleared.power = FALSE /\ cleared.reset = FALSE
      /\ cleared.typed = f.typed /\ cleared.dirty = f.dirty
  BY DEF Host!View
<1>4. {g.power, g.reset, g.typed, g.dirty} \subseteq BOOLEAN
  BY DEF Host!View
<1> HIDE DEF typed, taken, cleared
<1>5. f.power = g.power /\ f.reset = g.reset /\ f.dirty = g.dirty /\ g.typed => g = typed
  BY <1>1, <1>4, ViewsAgree
<1>6. f.power = g.power /\ f.reset = g.reset /\ f.typed = g.typed /\ ~ g.dirty => g = taken
  BY <1>2, <1>4, ViewsAgree
<1>7. ~ g.power /\ ~ g.reset /\ f.typed = g.typed /\ f.dirty = g.dirty => g = cleared
  BY <1>3, <1>4, ViewsAgree
<1> QED BY <1>5, <1>6, <1>7 DEF typed, taken, cleared

\* t32_step, alone or in a run.
LEMMA StepSeen ==
    ASSUME SeenIInv, Step
    PROVE  /\ Host!Execute
           /\ SignalsTyped' /\ state' \in States
<1>1. /\ Behaves /\ MachineTyped' /\ keys' \in Remaining
      /\ state # "STOPPED" => UNCHANGED <<cpu, store, keys>>
  <2>1. state # "STOPPED" => UNCHANGED <<cpu, store, keys>>
    BY DEF Step
  <2> QED BY <2>1, StepBehaves, StepObeys DEF SeenIInv
<1>2. SignalsTyped' /\ state' \in States
  BY <1>1 DEF Behaves, Latches, GoesOnIfOk, SeenIInv
<1>3. CASE state # "STOPPED"
  <2>1. Seen' = Seen
    BY <1>1, <1>3, SeenUnchanged DEF cpu
  <2> QED BY <1>2, <1>3, <2>1 DEF Host!Execute, Host!Executed, Seen
<1>4. CASE state = "STOPPED"
  <2>1. Seen' \in Host!View
    BY <1>1, <1>2, SeenTyped
  <2>2. /\ Seen.power => Seen'.power
        /\ Seen.reset => Seen'.reset
        /\ Seen'.typed => Seen.typed
        /\ Seen.dirty \/ Seen'.video # Seen.video => Seen'.dirty
    BY <1>1 DEF Behaves, Latches, Remaining, Seen
  <2>3. Seen.state = "STOPPED"
    BY <1>4 DEF Seen
  <2> QED BY <1>2, <2>1, <2>2, <2>3 DEF Host!Execute, Host!Executed
<1> QED BY <1>3, <1>4

\* Every step of the machine is one that HostView allows.
LEMMA NextSeen ==
    ASSUME SeenIInv, [Next]_vars
    PROVE  SeenIInv' /\ [Host!Next]_Seen
<1>1. MachineTyped' /\ MachineIInv'
  BY NextObeys, NextMachineIInv DEF SeenIInv
<1> DEFINE Shows == /\ SignalsTyped' /\ state' \in States
                    /\ Host!Next \/ Seen' = Seen
<1> SUFFICES Shows
  BY <1>1 DEF SeenIInv
<1>2. ASSUME UNCHANGED <<state, store, keys>> PROVE Shows
  BY <1>2, SeenUnchanged DEF SeenIInv, SignalsTyped, States, store
<1>3. CASE CallStep \/ RunStep
  BY <1>3, StepSeen DEF CallStep, RunStep, Host!Next
<1>4. CASE UNCHANGED vars \/ \E limit \in Limits : CallRun(limit)
  BY <1>2, <1>4 DEF vars, cpu, CallRun
<1>5. CASE RunEnds
  <2>1. run.active /\ run.limit # 0 /\ run.executed >= run.limit
    BY <1>5 DEF RunEnds
  <2>2. state = "STOPPED"
    BY <2>1 DEF SeenIInv, MachineIInv, RunGoesOn
  <2> QED BY <1>2, <1>5, <2>2 DEF RunEnds
<1>6. Seen \in Host!View
  BY SeenIsView
<1>7. ASSUME NEW c \in Keys, PushKey(c) PROVE Shows
  <2>1. UNCHANGED <<state, store>> /\ keys' = Append(keys, c) /\ keys \in Seq(Keys)
    BY <1>7 DEF PushKey, cpu, SeenIInv, MachineTyped
  <2>2. keys' # << >> /\ SignalsTyped' /\ state' \in States
    BY <2>1 DEF SeenIInv, SignalsTyped, store
  <2>3. Seen' \in Host!View
    BY <1>1, <2>2, SeenTyped
  <2>4. /\ Seen'.state = Seen.state /\ Seen'.video = Seen.video /\ Seen'.typed
        /\ Seen'.power = Seen.power /\ Seen'.reset = Seen.reset /\ Seen'.dirty = Seen.dirty
    BY <2>1, <2>2 DEF Seen, store
  <2>5. Seen' = [Seen EXCEPT !.typed = TRUE]
    BY <1>6, <2>3, <2>4, ViewsChanged
  <2> QED BY <2>2, <2>5 DEF Shows, Host!Next, Host!PushKey
<1>8. CASE TakeDisplay \/ ClearRequests
  <2>1. /\ UNCHANGED <<state, video, keys>> /\ SignalsTyped' /\ state' \in States
        /\ \/ UNCHANGED <<powerOff, resetReq>> /\ dirty' = FALSE
           \/ UNCHANGED dirty /\ powerOff' = FALSE /\ resetReq' = FALSE
    BY <1>8 DEF TakeDisplay, ClearRequests, cpu, SeenIInv, SignalsTyped
  <2>2. Seen' \in Host!View
    BY <1>1, <2>1, SeenTyped
  <2>3. /\ Seen'.state = Seen.state /\ Seen'.video = Seen.video /\ Seen'.typed = Seen.typed
        /\ \/ Seen'.power = Seen.power /\ Seen'.reset = Seen.reset /\ ~ Seen'.dirty
           \/ Seen'.dirty = Seen.dirty /\ ~ Seen'.power /\ ~ Seen'.reset
    BY <2>1 DEF Seen
  <2>4. \/ Seen' = [Seen EXCEPT !.dirty = FALSE]
        \/ Seen' = [Seen EXCEPT !.power = FALSE, !.reset = FALSE]
    BY <1>6, <2>2, <2>3, ViewsChanged
  <2> QED BY <2>1, <2>4 DEF Shows, Host!Next, Host!TakeDisplay, Host!ClearRequests
<1>9. CASE ClearHalt
  <2>1. /\ UNCHANGED <<store, keys>>
        /\ state' = IF state = "HALTED" THEN "STOPPED" ELSE state
    BY <1>9 DEF ClearHalt
  <2>2. CASE state = "HALTED"
    <3>1. Seen.state = "HALTED" /\ Seen' = [Seen EXCEPT !.state = "STOPPED"]
      BY <2>1, <2>2 DEF Seen, store
    <3> QED BY <2>1, <2>2, <3>1
            DEF SeenIInv, SignalsTyped, States, store, Host!Next, Host!ClearHalt
  <2> QED BY <1>2, <2>1, <2>2
<1>10. CASE Reset
  <2>1. /\ dirty' = TRUE /\ powerOff' = FALSE /\ resetReq' = FALSE /\ state' = "STOPPED"
        /\ keys' = << >> /\ video' = [v \in VideoIds |-> Blank]
    BY <1>10 DEF Reset
  <2>2. Seen' = Host!Fresh
    BY <2>1 DEF Seen, Host!Fresh
  <2> QED BY <2>1, <2>2 DEF SignalsTyped, States, Host!Next, Host!Reset
<1> HIDE DEF Shows
<1> QED BY <1>3, <1>4, <1>5, <1>6, <1>7, <1>8, <1>9, <1>10 DEF Next

\* Whatever the program, the map, the devices and the limits: the machine shows
\* its host what HostView promises and nothing else.  No store takes a request
\* back or cleans the display, no load types a key, and the end of a run does
\* not set a machine going that had stopped.
THEOREM MachineIsWhatTheHostSees == Spec => ActsAsSeen
<1>1. ASSUME SeenIInv, [Next]_vars PROVE SeenIInv' /\ [Host!Next]_Seen
  BY <1>1, NextSeen
<1> QED BY InitSeen, <1>1, PTL DEF Spec, ActsAsSeen, Host!Spec

-----------------------------------------------------------------------------
(***************************************************************************)
(* A t32_run with a limit.  RunReturns needs fairness; that it counts      *)
(* towards its end and stops there does not.                               *)
(***************************************************************************)
RunTyped ==
    /\ run \in [active : BOOLEAN, limit : Nat, executed : Nat]
    /\ run.limit # 0 => run.executed <= run.limit

\* One more instruction, or the end, for the only two reasons there are.
CountsOrReturns ==
    \/ run' = [run EXCEPT !.executed = run.executed + 1] /\ outcome' = "OK"
    \/ ~ run'.active /\ outcome' # "OK" /\ run.executed < run.limit
    \/ ~ run'.active /\ state' = "STOPPED" /\ reason' = "limit" /\ run.executed = run.limit

LEMMA CallCounts ==
    ASSUME RunTyped, [Next]_vars
    PROVE  /\ RunTyped'
           /\ Next /\ run.active /\ run.limit # 0 => CountsOrReturns
<1>1. Idle \in [active : BOOLEAN, limit : Nat, executed : Nat]
      /\ Idle.limit = 0 /\ ~ Idle.active
  BY DEF Idle
<1>2. CASE RunStep
  <2>1. /\ run.active /\ (run.limit = 0 \/ run.executed < run.limit)
        /\ run' = IF outcome' # "OK" THEN Idle
                  ELSE IF run.limit = 0 THEN run
                  ELSE [run EXCEPT !.executed = run.executed + 1]
    BY <1>2 DEF RunStep
  <2>2. CASE outcome' # "OK"
    BY <1>1, <2>1, <2>2 DEF RunTyped, CountsOrReturns
  <2>3. CASE outcome' = "OK" /\ run.limit = 0
    BY <2>1, <2>3 DEF RunTyped
  <2>4. CASE outcome' = "OK" /\ run.limit # 0
    BY <2>1, <2>4 DEF RunTyped, CountsOrReturns
  <2> QED BY <2>2, <2>3, <2>4
<1>3. CASE RunEnds
  BY <1>1, <1>3 DEF RunEnds, RunTyped, CountsOrReturns
<1>4. ASSUME NEW limit \in Limits, CallRun(limit)
      PROVE  RunTyped' /\ ~ run.active
  <2>1. limit \in Nat
    BY MachineAssumption
  <2> QED BY <1>4, <2>1 DEF CallRun, RunTyped
<1>5. CASE UNCHANGED run /\ (Next => ~ run.active)
  BY <1>5 DEF RunTyped
<1>6. CASE UNCHANGED vars /\ ~ Next
  BY <1>6 DEF vars, RunTyped
<1> QED BY <1>2, <1>3, <1>4, <1>5, <1>6
        DEF Next, CallStep, PushKey, TakeDisplay, ClearRequests, ClearHalt, Reset

\* For any program and limit: once called with a limit, t32_run executes one
\* instruction after the other and does nothing else, never more of them than
\* its limit; it returns early only when one halts or faults, and with the
\* reason "limit" only after exactly that many.
THEOREM LimitIsKept ==
    Spec => /\ [](run.limit # 0 => run.executed \in 0 .. run.limit)
            /\ [][ run.active /\ run.limit # 0 => CountsOrReturns ]_vars
<1> DEFINE Counts == run.active /\ run.limit # 0 => CountsOrReturns
<1>1. Init => RunTyped
  <2>1. Idle \in [active : BOOLEAN, limit : Nat, executed : Nat] /\ Idle.limit = 0
    BY DEF Idle
  <2>2. Init => run = Idle
    BY DEF Init
  <2> QED BY <2>1, <2>2 DEF RunTyped
<1>2. RunTyped /\ [Next]_vars => RunTyped' /\ [Counts]_vars
  BY CallCounts
<1>3. RunTyped => (run.limit # 0 => run.executed \in 0 .. run.limit)
  BY DEF RunTyped
<1> QED BY <1>1, <1>2, <1>3, PTL DEF Spec
=============================================================================
