---------------------------- MODULE MonitorProofs ----------------------------
(***************************************************************************)
(* First the keyboard, for a ring of any size: the indices never leave the *)
(* array, head, tail and count always agree, and the ring implements the   *)
(* bounded FIFO.  Then STAGE3 above it, for any console, texts and line:   *)
(* the row of the cursor shows the prompt and what main holds.             *)
(***************************************************************************)
EXTENDS Stage3, NumberFacts, SequenceTheorems, TLAPS

-----------------------------------------------------------------------------
(***************************************************************************)
(* Places in the ring.                                                     *)
(***************************************************************************)
\* A slot and a number of places after it name a slot.
LEMMA WrapIsSlot ==
    ASSUME NEW h \in Slots, NEW k \in 0 .. QueueSize
    PROVE  /\ (h + k) % QueueSize = IF h + k < QueueSize THEN h + k
                                                        ELSE h + k - QueueSize
           /\ (h + k) % QueueSize \in Slots
<1>1. h + k \in Nat /\ h + k < 2 * QueueSize
  BY KeyboardAssumption DEF Slots
<1>2. (h + k) % QueueSize = IF h + k < QueueSize THEN h + k
                                                 ELSE h + k - QueueSize
  <2> DEFINE sum == h + k
  <2>1. sum \in Nat /\ sum < 2 * QueueSize /\ QueueSize \in Nat \ {0}
    BY <1>1, KeyboardAssumption
  <2> HIDE DEF sum
  <2>2. sum % QueueSize = IF sum < QueueSize THEN sum ELSE sum - QueueSize
    BY <2>1, ModOnce
  <2> QED BY <2>2, KeyboardAssumption DEF sum, Slots
<1> QED BY <1>1, <1>2, KeyboardAssumption DEF Slots

\* Distinct places of the ring are distinct slots.
LEMMA WrapInjective ==
    ASSUME NEW h \in Slots, NEW j \in 0 .. QueueSize, NEW k \in 0 .. QueueSize,
           j < k, k - j < QueueSize
    PROVE  (h + j) % QueueSize # (h + k) % QueueSize
<1>1. (h + j) % QueueSize = IF h + j < QueueSize THEN h + j
                                                 ELSE h + j - QueueSize
  BY WrapIsSlot
<1>2. (h + k) % QueueSize = IF h + k < QueueSize THEN h + k
                                                 ELSE h + k - QueueSize
  BY WrapIsSlot
<1> QED BY <1>1, <1>2, KeyboardAssumption DEF Slots

\* Moving the start of the ring one place on moves every place with it.
LEMMA WrapShift ==
    ASSUME NEW h \in Slots, NEW k \in 0 .. QueueSize - 1
    PROVE  (((h + 1) % QueueSize) + k) % QueueSize = (h + k + 1) % QueueSize
<1>1. 1 \in 0 .. QueueSize /\ k \in 0 .. QueueSize /\ k + 1 \in 0 .. QueueSize
  BY KeyboardAssumption
<1>2. (h + 1) % QueueSize = IF h + 1 < QueueSize THEN h + 1 ELSE h + 1 - QueueSize
  BY <1>1, WrapIsSlot
<1>3. (h + 1) % QueueSize \in Slots
  BY <1>1, WrapIsSlot
<1>4. (h + (k + 1)) % QueueSize = IF h + (k + 1) < QueueSize THEN h + (k + 1)
                                  ELSE h + (k + 1) - QueueSize
  BY <1>1, WrapIsSlot
<1>5. (((h + 1) % QueueSize) + k) % QueueSize
        = IF ((h + 1) % QueueSize) + k < QueueSize THEN ((h + 1) % QueueSize) + k
          ELSE ((h + 1) % QueueSize) + k - QueueSize
  BY <1>1, <1>3, WrapIsSlot
<1>6. h + k + 1 = h + (k + 1)
  BY KeyboardAssumption DEF Slots
<1> QED BY <1>2, <1>4, <1>5, <1>6, KeyboardAssumption DEF Slots
-----------------------------------------------------------------------------
(***************************************************************************)
(* The inductive invariant: types and the agreement of the three indices.  *)
(***************************************************************************)
IInv == TypeOK /\ RingConsistent

\* An empty ring is consistent.
LEMMA InitIInv == Init => IInv
<1>1. 0 \in Slots /\ 0 % QueueSize = 0
  BY KeyboardAssumption DEF Slots
<1> QED BY <1>1, KeyboardAssumption
        DEF Init, IInv, TypeOK, RingConsistent, Accepted, Value

\* A push keeps the indices consistent, full ring or not.
LEMMA PushIInv ==
    ASSUME IInv, NEW c \in Byte, Push(c)
    PROVE  IInv'
<1> USE KeyboardAssumption
<1>1. CASE count >= QueueSize /\ reply' = Refused
           /\ UNCHANGED <<queue, head, tail, count>>
  BY <1>1 DEF IInv, TypeOK, RingConsistent, Refused, Value
<1>2. CASE /\ count < QueueSize
           /\ queue' = [queue EXCEPT ![tail] = c]
           /\ tail' = (tail + 1) % QueueSize
           /\ count' = count + 1
           /\ reply' = Accepted(0)
           /\ UNCHANGED head
  <2>1. tail' \in Slots
    BY <1>2, WrapIsSlot DEF IInv, TypeOK
  <2>2. TypeOK'
    BY <1>2, <2>1 DEF IInv, TypeOK, Accepted, Value
  <2>3. head \in Slots /\ count \in 0 .. QueueSize - 1
    BY <1>2 DEF IInv, TypeOK
  <2>4. tail = IF head + count < QueueSize THEN head + count
               ELSE head + count - QueueSize
    BY <2>3, WrapIsSlot DEF IInv, RingConsistent
  <2>5. tail' = IF tail + 1 < QueueSize THEN tail + 1 ELSE tail + 1 - QueueSize
    BY <1>2, WrapIsSlot DEF IInv, TypeOK
  <2>6. count + 1 \in 0 .. QueueSize
    BY <2>3
  <2>7. (head + (count + 1)) % QueueSize
          = IF head + (count + 1) < QueueSize THEN head + (count + 1)
            ELSE head + (count + 1) - QueueSize
    BY <2>3, <2>6, WrapIsSlot
  <2>8. tail' = (head' + count') % QueueSize
    BY <1>2, <2>3, <2>4, <2>5, <2>7 DEF Slots
  <2> QED BY <2>2, <2>8 DEF IInv, RingConsistent
<1> QED BY <1>1, <1>2 DEF Push

\* So does taking the oldest key, or finding none.
LEMMA ReadDataIInv ==
    ASSUME IInv, NEW offset, NEW width, ReadData(offset, width)
    PROVE  IInv'
<1> USE KeyboardAssumption
<1>1. CASE /\ count # 0
           /\ reply' = Accepted(queue[head])
           /\ head' = (head + 1) % QueueSize
           /\ count' = count - 1
           /\ UNCHANGED <<queue, tail>>
  <2>1. head \in Slots /\ count \in 1 .. QueueSize /\ queue[head] \in Byte
    BY <1>1 DEF IInv, TypeOK
  <2>2. head' \in Slots
    BY <1>1, <2>1, WrapIsSlot
  <2>3. TypeOK'
    BY <1>1, <2>1, <2>2 DEF IInv, TypeOK, Accepted, Value
  <2>4. count - 1 \in 0 .. QueueSize - 1
    BY <2>1
  <2>5. (head' + (count - 1)) % QueueSize = (head + (count - 1) + 1) % QueueSize
    BY <1>1, <2>1, <2>4, WrapShift
  <2>6. head + (count - 1) + 1 = head + count
    BY <2>1 DEF Slots
  <2> QED BY <1>1, <2>3, <2>5, <2>6 DEF IInv, RingConsistent
<1>2. CASE count = 0 /\ reply' = Accepted(0)
           /\ UNCHANGED <<queue, head, tail, count>>
  BY <1>2 DEF IInv, TypeOK, RingConsistent, Accepted, Value
<1> QED BY <1>1, <1>2 DEF ReadData

\* One step of the host or of the guest.
LEMMA NextIInv == IInv /\ [Next]_vars => IInv'
<1> SUFFICES ASSUME IInv, [Next]_vars PROVE IInv'
  OBVIOUS
<1> USE KeyboardAssumption
<1>1. ASSUME NEW c \in Byte, Push(c) PROVE IInv'
  BY <1>1, PushIInv
<1>2. ASSUME NEW offset \in Offsets, NEW width \in Lengths,
             KeyboardRead(offset, width)
      PROVE  IInv'
  <2>1. CASE ReadId(offset, width)
    BY <2>1 DEF ReadId, IInv, TypeOK, RingConsistent, Accepted, Value
  <2>2. CASE ReadStatus(offset, width)
    BY <2>2 DEF ReadStatus, IInv, TypeOK, RingConsistent, Accepted, Value
  <2>3. CASE ReadData(offset, width)
    BY <2>3, ReadDataIInv
  <2>4. CASE ReadBad(offset, width)
    BY <2>4 DEF ReadBad, IInv, TypeOK, RingConsistent, Refused, Value
  <2> QED BY <1>2, <2>1, <2>2, <2>3, <2>4 DEF KeyboardRead
<1>3. CASE KeyboardWrite
  BY <1>3 DEF KeyboardWrite, IInv, TypeOK, RingConsistent, Refused, Value
<1>4. CASE Reset
  <2>1. 0 \in Slots /\ (0 + 0) % QueueSize = 0
    BY DEF Slots
  <2> QED BY <1>4, <2>1
          DEF Reset, IInv, TypeOK, RingConsistent, Accepted, Value
<1>5. CASE UNCHANGED vars
  BY <1>5 DEF vars, IInv, TypeOK, RingConsistent
<1> QED BY <1>1, <1>2, <1>3, <1>4, <1>5 DEF Next

\* No sequence of keyboard operations indexes outside the ring.
THEOREM TypeCorrect == Spec => []TypeOK
<1>1. IInv => TypeOK
  BY DEF IInv
<1> QED BY InitIInv, NextIInv, <1>1, PTL DEF Spec

\* head, tail and count always agree, through wrapping, full and empty rings
\* and resets.
THEOREM RingAlwaysConsistent == Spec => []RingConsistent
<1>1. IInv => RingConsistent
  BY DEF IInv
<1> QED BY InitIInv, NextIInv, <1>1, PTL DEF Spec

-----------------------------------------------------------------------------
(***************************************************************************)
(* The ring implements the bounded FIFO: the keys still to be read, taken  *)
(* from head on, are the abstract queue.                                   *)
(***************************************************************************)
RingSeq(q, h, n) == [i \in 1 .. n |-> q[(h + i - 1) % QueueSize]]

\* The keys of a ring, from its head on, form a sequence.
LEMMA RingIsSeq ==
    ASSUME NEW q \in [Slots -> Byte], NEW h \in Slots, NEW n \in 0 .. QueueSize
    PROVE  /\ RingSeq(q, h, n) \in Seq(Byte)
           /\ Len(RingSeq(q, h, n)) = n
           /\ \A i \in 1 .. n : RingSeq(q, h, n)[i] = q[(h + (i - 1)) % QueueSize]
<1>1. n \in Nat
  BY KeyboardAssumption
<1>2. ASSUME NEW i \in 1 .. n
      PROVE  /\ q[(h + (i - 1)) % QueueSize] \in Byte
             /\ h + (i - 1) = h + i - 1
  <2>1. i - 1 \in 0 .. QueueSize
    BY KeyboardAssumption
  <2>2. (h + (i - 1)) % QueueSize \in Slots
    BY <2>1, WrapIsSlot
  <2>3. h + (i - 1) = h + i - 1
    BY KeyboardAssumption DEF Slots
  <2> QED BY <2>2, <2>3
<1> QED BY <1>1, <1>2 DEF RingSeq

\* The pending keys are such a sequence; it is empty when count is zero.
LEMMA PendingIsSeq ==
    ASSUME IInv
    PROVE  /\ Pending = RingSeq(queue, head, count)
           /\ Pending \in Seq(Byte)
           /\ Len(Pending) = count
           /\ Pending = << >> <=> count = 0
<1>1. Pending = RingSeq(queue, head, count)
  BY DEF Pending, RingSeq
<1>2. Pending \in Seq(Byte) /\ Len(Pending) = count
  BY <1>1, RingIsSeq DEF IInv, TypeOK
<1> QED BY <1>1, <1>2, EmptySeq

\* An accepted push appends: it writes the slot after the pending keys and
\* none of theirs.
LEMMA PushAppends ==
    ASSUME NEW q \in [Slots -> Byte], NEW h \in Slots,
           NEW n \in 0 .. QueueSize - 1, NEW c \in Byte
    PROVE  RingSeq([q EXCEPT ![(h + n) % QueueSize] = c], h, n + 1)
             = Append(RingSeq(q, h, n), c)
<1> DEFINE slot == (h + n) % QueueSize
           r == [q EXCEPT ![slot] = c]
           new == RingSeq(r, h, n + 1)
           old == RingSeq(q, h, n)
<1>1. n \in 0 .. QueueSize /\ n + 1 \in 0 .. QueueSize
  BY KeyboardAssumption
<1>2. slot \in Slots
  BY <1>1, WrapIsSlot
<1>3. r \in [Slots -> Byte]
  BY <1>2
<1>4. /\ new \in Seq(Byte) /\ Len(new) = n + 1
      /\ \A i \in 1 .. n + 1 : new[i] = r[(h + (i - 1)) % QueueSize]
  BY <1>1, <1>3, RingIsSeq
<1>5. /\ old \in Seq(Byte) /\ Len(old) = n
      /\ \A i \in 1 .. n : old[i] = q[(h + (i - 1)) % QueueSize]
  BY <1>1, RingIsSeq
<1>6. /\ Append(old, c) \in Seq(Byte) /\ Len(Append(old, c)) = n + 1
      /\ \A i \in 1 .. n : Append(old, c)[i] = old[i]
      /\ Append(old, c)[n + 1] = c
  BY <1>5, AppendProperties
<1>7. ASSUME NEW i \in 1 .. n + 1
      PROVE  new[i] = Append(old, c)[i]
  <2>1. CASE i = n + 1
    <3>1. r[slot] = c
      BY <1>2
    <3>2. h + (i - 1) = h + n
      BY <2>1, KeyboardAssumption DEF Slots
    <3> QED BY <1>4, <1>6, <2>1, <3>1, <3>2
  <2>2. CASE i \in 1 .. n
    <3>1. i - 1 \in 0 .. QueueSize /\ i - 1 < n /\ n - (i - 1) < QueueSize
      BY <2>2, KeyboardAssumption
    <3>2. (h + (i - 1)) % QueueSize # slot
      BY <1>1, <3>1, WrapInjective
    <3>3. (h + (i - 1)) % QueueSize \in Slots
      BY <3>1, WrapIsSlot
    <3>4. r[(h + (i - 1)) % QueueSize] = q[(h + (i - 1)) % QueueSize]
      BY <3>2, <3>3
    <3> QED BY <1>4, <1>5, <1>6, <2>2, <3>4
  <2>3. i = n + 1 \/ i \in 1 .. n
    BY KeyboardAssumption
  <2> QED BY ONLY <2>1, <2>2, <2>3
<1> HIDE DEF new, old
<1>8. new = Append(old, c)
  BY <1>4, <1>6, <1>7, SeqEqual
<1> QED BY <1>8 DEF new, old

\* Reading DATA takes the oldest key and leaves the others in order.
LEMMA ReadTakes ==
    ASSUME NEW q \in [Slots -> Byte], NEW h \in Slots, NEW n \in 1 .. QueueSize
    PROVE  /\ Head(RingSeq(q, h, n)) = q[h]
           /\ RingSeq(q, (h + 1) % QueueSize, n - 1) = Tail(RingSeq(q, h, n))
<1> DEFINE next == (h + 1) % QueueSize
           new == RingSeq(q, next, n - 1)
           old == RingSeq(q, h, n)
<1>1. n \in 0 .. QueueSize /\ n - 1 \in 0 .. QueueSize /\ n \in Nat /\ n > 0
      /\ 1 \in 0 .. QueueSize /\ 0 \in 0 .. QueueSize
  BY KeyboardAssumption
<1>2. next \in Slots
  BY <1>1, WrapIsSlot
<1>3. /\ new \in Seq(Byte) /\ Len(new) = n - 1
      /\ \A i \in 1 .. n - 1 : new[i] = q[(next + (i - 1)) % QueueSize]
  BY <1>1, <1>2, RingIsSeq
<1>4. /\ old \in Seq(Byte) /\ Len(old) = n
      /\ \A i \in 1 .. n : old[i] = q[(h + (i - 1)) % QueueSize]
  BY <1>1, RingIsSeq
<1>5. old # << >>
  BY <1>1, <1>4
<1>6. (h + 0) % QueueSize = h
  <2>1. (h + 0) % QueueSize = IF h + 0 < QueueSize THEN h + 0
                                                  ELSE h + 0 - QueueSize
    BY <1>1, WrapIsSlot
  <2> QED BY <2>1, KeyboardAssumption DEF Slots
<1>7. Head(old) = q[h]
  <2>1. old[1] = q[(h + (1 - 1)) % QueueSize]
    BY <1>1, <1>4
  <2> QED BY <1>4, <1>5, <1>6, <2>1
<1>8. /\ Tail(old) \in Seq(Byte) /\ Len(Tail(old)) = n - 1
      /\ \A i \in 1 .. n - 1 : Tail(old)[i] = old[i + 1]
  BY <1>4, <1>5, HeadTailProperties
<1>9. ASSUME NEW i \in 1 .. n - 1
      PROVE  new[i] = Tail(old)[i]
  <2>1. i - 1 \in 0 .. QueueSize - 1 /\ i + 1 \in 1 .. n
    BY <1>1, KeyboardAssumption
  <2>2. (next + (i - 1)) % QueueSize = (h + (i - 1) + 1) % QueueSize
    BY <2>1, WrapShift
  <2>3. h + (i - 1) + 1 = h + ((i + 1) - 1)
    BY <1>1, KeyboardAssumption DEF Slots
  <2> QED BY <1>3, <1>4, <1>8, <2>1, <2>2, <2>3
<1> HIDE DEF new, old, next
<1>10. new = Tail(old)
  BY <1>3, <1>8, <1>9, SeqEqual
<1> QED BY <1>7, <1>10 DEF new, old, next

\* An empty ring is an empty queue.
LEMMA InitImplements == Init => Fifo!Init
<1> SUFFICES ASSUME Init PROVE Fifo!Init
  OBVIOUS
<1>1. Pending = << >>
  BY InitIInv, PendingIsSeq DEF Init
<1> QED BY <1>1 DEF Init, Fifo!Init, Accepted, Fifo!Accepted

\* A push appends to the queue, or is refused when the ring is full.
LEMMA PushImplements ==
    ASSUME IInv, NEW c \in Byte, Push(c)
    PROVE  Fifo!Put(c)
<1> USE KeyboardAssumption
<1>1. Len(Pending) = count /\ count \in 0 .. QueueSize
  BY PendingIsSeq DEF IInv, TypeOK
<1>2. CASE count >= QueueSize /\ reply' = Refused
           /\ UNCHANGED <<queue, head, tail, count>>
  <2>1. UNCHANGED Pending
    BY <1>2 DEF Pending
  <2> QED BY <1>1, <1>2, <2>1 DEF Fifo!Put, Refused, Fifo!Refused
<1>3. CASE /\ count < QueueSize
           /\ queue' = [queue EXCEPT ![tail] = c]
           /\ tail' = (tail + 1) % QueueSize
           /\ count' = count + 1
           /\ reply' = Accepted(0)
           /\ UNCHANGED head
  <2>1. Pending' = RingSeq(queue', head', count')
    BY DEF Pending, RingSeq
  <2>2. /\ queue \in [Slots -> Byte] /\ head \in Slots
        /\ count \in 0 .. QueueSize - 1 /\ tail = (head + count) % QueueSize
    BY <1>3 DEF IInv, TypeOK, RingConsistent
  <2>3. queue' = [queue EXCEPT ![(head + count) % QueueSize] = c]
        /\ head' = head /\ count' = count + 1
    BY <1>3, <2>2
  <2>4. RingSeq(queue', head', count') = Append(RingSeq(queue, head, count), c)
    BY <2>2, <2>3, PushAppends
  <2>5. Pending' = Append(Pending, c)
    BY <2>1, <2>4, PendingIsSeq
  <2> QED BY <1>1, <1>3, <2>5 DEF Fifo!Put, Accepted, Fifo!Accepted
<1> QED BY <1>2, <1>3 DEF Push

\* DATA takes the head of the queue, or delivers zero when there is none.
LEMMA ReadDataImplements ==
    ASSUME IInv, NEW offset, NEW width, ReadData(offset, width)
    PROVE  Fifo!Take
<1>1. CASE /\ count # 0
           /\ reply' = Accepted(queue[head])
           /\ head' = (head + 1) % QueueSize
           /\ count' = count - 1
           /\ UNCHANGED <<queue, tail>>
  <2>1. Pending # << >>
    BY <1>1, PendingIsSeq
  <2>2. Pending' = RingSeq(queue', head', count')
    BY DEF Pending, RingSeq
  <2>3. queue \in [Slots -> Byte] /\ head \in Slots /\ count \in 1 .. QueueSize
    BY <1>1, KeyboardAssumption DEF IInv, TypeOK
  <2>4. Head(Pending) = queue[head] /\ Pending' = Tail(Pending)
    BY <1>1, <2>2, <2>3, ReadTakes, PendingIsSeq
  <2> QED BY <1>1, <2>1, <2>4 DEF Fifo!Take, Accepted, Fifo!Accepted
<1>2. CASE count = 0 /\ reply' = Accepted(0)
           /\ UNCHANGED <<queue, head, tail, count>>
  <2>1. Pending = << >> /\ UNCHANGED Pending
    BY <1>2, PendingIsSeq DEF Pending
  <2> QED BY <1>2, <2>1 DEF Fifo!Take, Accepted, Fifo!Accepted
<1> QED BY <1>1, <1>2 DEF ReadData

\* Every step of the ring is a step of the queue, or leaves it alone.
LEMMA NextImplements == IInv /\ [Next]_vars => [Fifo!Next]_Fifo!vars
<1> SUFFICES ASSUME IInv, [Next]_vars PROVE [Fifo!Next]_Fifo!vars
  OBVIOUS
<1>1. ASSUME NEW c \in Byte, Push(c) PROVE Fifo!Next
  BY <1>1, PushImplements DEF Fifo!Next
<1>2. ASSUME NEW offset \in Offsets, NEW width \in Lengths,
             KeyboardRead(offset, width)
      PROVE  Fifo!Next
  <2>1. CASE ReadId(offset, width)
    BY <2>1 DEF ReadId, Pending, Fifo!Next, Fifo!Identify, Accepted, Fifo!Accepted
  <2>2. CASE ReadStatus(offset, width)
    <3>1. UNCHANGED Pending
      BY <2>2 DEF ReadStatus, Pending
    <3> QED BY <2>2, <3>1, PendingIsSeq
            DEF ReadStatus, Fifo!Next, Fifo!Poll, Accepted, Fifo!Accepted
  <2>3. CASE ReadData(offset, width)
    BY <2>3, ReadDataImplements DEF Fifo!Next
  <2>4. CASE ReadBad(offset, width)
    BY <2>4 DEF ReadBad, Pending, Fifo!Next, Fifo!Refuse, Refused, Fifo!Refused
  <2> QED BY <1>2, <2>1, <2>2, <2>3, <2>4 DEF KeyboardRead
<1>3. CASE KeyboardWrite
  BY <1>3 DEF KeyboardWrite, Pending, Fifo!Next, Fifo!Refuse, Refused, Fifo!Refused
<1>4. CASE Reset
  <2>1. Pending' = << >>
    BY <1>4 DEF Reset, Pending
  <2> QED BY <1>4, <2>1 DEF Reset, Fifo!Next, Fifo!Clear, Accepted, Fifo!Accepted
<1>5. CASE UNCHANGED vars
  BY <1>5 DEF vars, Pending, Fifo!vars
<1> QED BY <1>1, <1>2, <1>3, <1>4, <1>5 DEF Next

\* Every accepted key reaches the guest once and in the order typed, and a
\* key is refused only by a full ring: the ring implements the FIFO.
THEOREM ImplementsFifo == Spec => IsFifo
BY InitIInv, NextIInv, InitImplements, NextImplements, PTL
   DEF Spec, IsFifo, Fifo!Spec

-----------------------------------------------------------------------------
(***************************************************************************)
(* The console.                                                            *)
(***************************************************************************)
CellValue == Printable \cup {Space}
ConsoleType == [cells : [Cells -> CellValue], cursor : Cells]

\* Behind the cursor nothing is shown.
Tidy == {c \in ConsoleType : \A i \in Cells : i >= c.cursor => c.cells[i] = Space}

\* And the cursor stands at the start of a row.
AtStart == {c \in Tidy : \E r \in 0 .. Rows - 1 : c.cursor = r * Columns}

\* The rows fill the cells.
LEMMA RowFits ==
    ASSUME NEW r \in 0 .. Rows - 1
    PROVE  /\ End \in Nat /\ r * Columns \in Cells /\ r * Columns + Columns <= End
           /\ (r + 1) * Columns = r * Columns + Columns
           /\ r # Rows - 1 => r + 1 \in 0 .. Rows - 1
           /\ r = Rows - 1 => (r + 1) * Columns = End
<1>1. Columns \in Nat \ {0} /\ Rows \in Nat \ {0} /\ r \in Nat /\ r + 1 <= Rows
  BY ConsoleAssumption
<1>2. (r + 1) * Columns = r * Columns + Columns /\ r * Columns \in Nat
  BY <1>1
<1>3. Columns * Rows \in Nat /\ Columns * Rows = Rows * Columns
  BY <1>1
<1>4. (r + 1) * Columns <= Rows * Columns
  BY <1>1
<1>5. r = Rows - 1 => (r + 1) * Columns = Columns * Rows
  BY <1>1, <1>3
<1>6. r # Rows - 1 => r + 1 \in 0 .. Rows - 1
  BY <1>1
<1> QED BY <1>1, <1>2, <1>3, <1>4, <1>5, <1>6 DEF End, Cells

\* Every cell is in a row.
LEMMA RowOfCell ==
    ASSUME NEW i \in Cells
    PROVE  /\ i \div Columns \in 0 .. Rows - 1
           /\ (i \div Columns) * Columns <= i
           /\ i < (i \div Columns) * Columns + Columns
<1> DEFINE r == i \div Columns
<1>1. Columns \in Nat \ {0} /\ Rows \in Nat \ {0} /\ i \in Nat /\ i < Columns * Rows
  BY ConsoleAssumption DEF Cells, End
<1>2. r \in Nat /\ r * Columns <= i /\ i < r * Columns + Columns
  BY <1>1
<1> HIDE DEF r
<1>3. ~ (Rows <= r)
  <2> SUFFICES ASSUME Rows <= r PROVE FALSE
    OBVIOUS
  <2>1. Rows * Columns <= r * Columns
    BY <1>1, <1>2
  <2>2. Columns * Rows = Rows * Columns
    BY <1>1
  <2> QED BY <1>1, <1>2, <2>1, <2>2
<1>4. r \in 0 .. Rows - 1
  BY <1>1, <1>2, <1>3
<1> QED BY <1>2, <1>4 DEF r

\* The place of a cell in its row.
LEMMA PlaceInRow ==
    ASSUME NEW r \in 0 .. Rows - 1, NEW k \in 0 .. Columns - 1
    PROVE  /\ r * Columns + k \in Cells
           /\ (r * Columns + k) \div Columns = r /\ (r * Columns + k) % Columns = k
<1>1. Columns \in Nat \ {0} /\ r \in Nat /\ r * Columns \in Nat /\ k \in Nat
  BY ConsoleAssumption
<1>2. r * Columns + k \in Cells
  BY <1>1, RowFits DEF Cells
<1>3. (r * Columns + k) \div Columns = r /\ (r * Columns + k) % Columns = k
  BY <1>1
<1> QED BY <1>2, <1>3

\* putchar_scroll leaves the last row empty and the cursor in front of it.
LEMMA ScrolledStarts ==
    ASSUME NEW cells \in [Cells -> CellValue]
    PROVE  Scrolled(cells) \in AtStart
<1> DEFINE c == Scrolled(cells)
<1>1. /\ End \in Nat /\ Columns \in Nat \ {0}
      /\ End - Columns = (Rows - 1) * Columns /\ End - Columns \in Cells
      /\ Rows - 1 \in 0 .. Rows - 1
  <2>1. Rows - 1 \in 0 .. Rows - 1 /\ Columns \in Nat \ {0} /\ (Rows - 1) + 1 = Rows
    BY ConsoleAssumption
  <2>2. /\ End \in Nat /\ (Rows - 1) * Columns \in Cells
        /\ (Rows - 1) * Columns + Columns = End
    BY <2>1, RowFits
  <2>3. (Rows - 1) * Columns \in Nat
    BY <2>2 DEF Cells
  <2> QED BY <2>1, <2>2, <2>3
<1>2. c.cursor = End - Columns
  BY DEF Scrolled
<1>3. \A i \in Cells : c.cells[i] = IF i + Columns < End THEN cells[i + Columns] ELSE Space
  BY DEF Scrolled
<1>4. \A i \in Cells : i + Columns < End => i + Columns \in Cells
  BY <1>1 DEF Cells
<1>5. \A i \in Cells : c.cells[i] \in CellValue
  BY <1>3, <1>4 DEF CellValue
<1>6. c.cells \in [Cells -> CellValue]
  BY <1>3, <1>4 DEF Scrolled, CellValue
<1>7. c \in ConsoleType
  <2>1. c = [cells |-> c.cells, cursor |-> c.cursor]
    BY DEF Scrolled
  <2> QED BY <1>1, <1>2, <1>6, <2>1 DEF ConsoleType
<1>8. \A i \in Cells : i >= c.cursor => c.cells[i] = Space
  BY <1>1, <1>2, <1>3 DEF Cells
<1>9. c \in Tidy
  BY <1>7, <1>8 DEF Tidy
<1> QED BY <1>1, <1>2, <1>9 DEF AtStart

\* Moving on keeps the console tidy.
LEMMA AdvancedTidy ==
    ASSUME NEW cells \in [Cells -> CellValue], NEW cursor \in 0 .. End,
           \A i \in Cells : i >= cursor => cells[i] = Space
    PROVE  Advanced(cells, cursor) \in Tidy
<1>1. CASE cursor = End
  BY <1>1, ScrolledStarts DEF Advanced, AtStart
<1>2. CASE cursor # End
  <2>1. cursor \in Cells
    BY <1>2, ConsoleAssumption DEF Cells, End
  <2> QED BY <1>2, <2>1 DEF Advanced, Tidy, ConsoleType
<1> QED BY <1>1, <1>2

\* A character, a line feed and a backspace do.
LEMMA CharacterTidy ==
    ASSUME NEW c \in Tidy, NEW glyph \in Printable
    PROVE  PutChar(c, glyph) \in Tidy
<1> DEFINE cells == [c.cells EXCEPT ![c.cursor] = glyph]
<1>1. /\ c.cells \in [Cells -> CellValue] /\ c.cursor \in Cells
      /\ \A i \in Cells : i >= c.cursor => c.cells[i] = Space
  BY DEF Tidy, ConsoleType
<1>2. PutChar(c, glyph) = Advanced(cells, c.cursor + 1)
  BY DEF PutChar, Printable, Backspace, LineFeed, CarriageReturn
<1>3. cells \in [Cells -> CellValue]
  BY <1>1 DEF CellValue
<1>4. c.cursor + 1 \in 0 .. End
  BY <1>1, ConsoleAssumption DEF Cells, End
<1>5. \A i \in Cells : i >= c.cursor + 1 => cells[i] = Space
  BY <1>1 DEF Cells
<1> HIDE DEF cells
<1> QED BY <1>2, <1>3, <1>4, <1>5, AdvancedTidy

LEMMA LineFeedStarts ==
    ASSUME NEW c \in Tidy
    PROVE  PutChar(c, LineFeed) \in AtStart
<1> DEFINE r == c.cursor \div Columns
<1>1. /\ c.cells \in [Cells -> CellValue] /\ c.cursor \in Cells
      /\ \A i \in Cells : i >= c.cursor => c.cells[i] = Space
  BY DEF Tidy, ConsoleType
<1>2. PutChar(c, LineFeed) = Advanced(c.cells, (r + 1) * Columns)
  BY DEF PutChar, Backspace, LineFeed, CarriageReturn
<1>3. r \in 0 .. Rows - 1 /\ c.cursor < r * Columns + Columns
  BY <1>1, RowOfCell
<1> HIDE DEF r
<1>4. CASE (r + 1) * Columns = End
  BY <1>1, <1>2, <1>4, ScrolledStarts DEF Advanced
<1>5. CASE (r + 1) * Columns # End
  <2>1. r + 1 \in 0 .. Rows - 1 /\ (r + 1) * Columns = r * Columns + Columns
    BY <1>3, <1>5, RowFits
  <2>2. (r + 1) * Columns \in Cells
    BY <2>1, RowFits
  <2>3. PutChar(c, LineFeed) = [cells |-> c.cells, cursor |-> (r + 1) * Columns]
    BY <1>2, <1>5 DEF Advanced
  <2>4. \A i \in Cells : i >= (r + 1) * Columns => i >= c.cursor
    BY <1>1, <1>3, <2>1, <2>2 DEF Cells
  <2>5. PutChar(c, LineFeed) \in Tidy
    BY <1>1, <2>2, <2>3, <2>4 DEF Tidy, ConsoleType
  <2> QED BY <2>1, <2>3, <2>5 DEF AtStart
<1> QED BY <1>4, <1>5

LEMMA BackspaceTidy ==
    ASSUME NEW c \in Tidy
    PROVE  PutChar(c, Backspace) \in Tidy
<1>1. /\ c.cells \in [Cells -> CellValue] /\ c.cursor \in Cells
      /\ \A i \in Cells : i >= c.cursor => c.cells[i] = Space
  BY DEF Tidy, ConsoleType
<1>2. CASE c.cursor = 0
  <2>1. PutChar(c, Backspace) = c
    BY <1>2 DEF PutChar, Backspace, LineFeed, CarriageReturn
  <2> QED BY <2>1
<1>3. CASE c.cursor # 0
  <2> DEFINE cells == [c.cells EXCEPT ![c.cursor - 1] = Space]
  <2>1. PutChar(c, Backspace) = [cells |-> cells, cursor |-> c.cursor - 1]
    BY <1>3 DEF PutChar, Backspace, LineFeed, CarriageReturn
  <2>2. c.cursor - 1 \in Cells /\ c.cursor \in Nat
    <3> DEFINE k == c.cursor
    <3>1. k \in 0 .. End - 1 /\ k # 0 /\ End \in Nat
      BY <1>1, <1>3, ConsoleAssumption DEF Cells, End
    <3> HIDE DEF k
    <3>2. k - 1 \in 0 .. End - 1 /\ k \in Nat
      BY <3>1
    <3> QED BY <3>2 DEF k, Cells
  <2>3. cells \in [Cells -> CellValue]
    BY <1>1 DEF CellValue
  <2>4. ASSUME NEW i \in Cells, i >= c.cursor - 1 PROVE cells[i] = Space
    <3>1. i = c.cursor - 1 \/ i >= c.cursor
      BY <2>2, <2>4 DEF Cells
    <3> QED BY <1>1, <2>2, <3>1
  <2> HIDE DEF cells
  <2> QED BY <2>1, <2>2, <2>3, <2>4 DEF Tidy, ConsoleType
<1> QED BY <1>2, <1>3

-----------------------------------------------------------------------------
(***************************************************************************)
(* Texts.  A line feed ends the row of a tidy console, so whatever is      *)
(* printed with puts leaves the cursor at the start of a row.              *)
(***************************************************************************)
LEMMA WriteSteps ==
    ASSUME NEW c \in Tidy, NEW text \in Seq(Printable)
    PROVE  \E f \in [0 .. Len(text) -> Tidy] :
              /\ f[0] = c /\ Write(c, text) = f[Len(text)]
              /\ \A n \in 1 .. Len(text) : f[n] = PutChar(f[n - 1], text[n])
<1> DEFINE N == Len(text)
           step == [n \in 1 .. N |-> [x \in Tidy |-> PutChar(x, text[n])]]
           Solves(f) == f = [n \in 0 .. N |-> IF n = 0 THEN c ELSE PutChar(f[n - 1], text[n])]
           after == CHOOSE f : Solves(f)
<1>1. N \in Nat /\ \A n \in 1 .. N : text[n] \in Printable
  BY ElementOfSeq
<1>2. step \in Steps(N, Tidy)
  BY <1>1, CharacterTidy DEF Steps
<1>3. Runs(N, Tidy, c, step) # {}
  <2> HIDE DEF N, step
  <2> QED BY <1>1, <1>2, RecursionExists
<1>4. PICK f \in [0 .. N -> Tidy] :
        \A n \in 0 .. N : f[n] = IF n = 0 THEN c ELSE step[n][f[n - 1]]
  <2> HIDE DEF step, N
  <2> QED BY <1>3 DEF Runs
<1>5. \A n \in 1 .. N : n - 1 \in 0 .. N /\ step[n][f[n - 1]] = PutChar(f[n - 1], text[n])
  BY <1>1
<1>6. Solves(f)
  <2> DEFINE F == [n \in 0 .. N |-> IF n = 0 THEN c ELSE PutChar(f[n - 1], text[n])]
  <2>1. \A n \in 0 .. N : n = 0 \/ n \in 1 .. N
    BY <1>1
  <2>2. \A n \in 0 .. N : f[n] = F[n]
    <3> HIDE DEF step, N
    <3> QED BY <1>4, <1>5, <2>1
  <2>3. f = [n \in 0 .. N |-> f[n]] /\ F = [n \in 0 .. N |-> F[n]]
    OBVIOUS
  <2>4. f = F
    <3> HIDE DEF F, N
    <3> QED BY <2>2, <2>3
  <2> QED BY <2>4
<1>7. Solves(after)
  <2> HIDE DEF Solves
  <2> QED BY <1>6
<1>8. Write(c, text) = after[N]
  BY DEF Write
<1> HIDE DEF after
<1>9. /\ after[0] = c
      /\ \A n \in 1 .. N : after[n] = PutChar(after[n - 1], text[n])
  <2> HIDE DEF N
  <2> QED BY <1>1, <1>7
<1>10. \A n \in 0 .. N : after[n] \in Tidy
  <2> SUFFICES ASSUME NEW m \in 0 .. N PROVE after[m] \in Tidy
    OBVIOUS
  <2> DEFINE P == [n \in 0 .. N |-> Tidy]
  <2>1. \A n \in 1 .. m : after[n - 1] \in P[n - 1] => after[n] \in P[n]
    <3> SUFFICES ASSUME NEW n \in 1 .. m, after[n - 1] \in P[n - 1] PROVE after[n] \in P[n]
      OBVIOUS
    <3>1. n \in 1 .. N /\ n \in 0 .. N /\ n - 1 \in 0 .. N
      BY <1>1
    <3>2. text[n] \in Printable /\ after[n - 1] \in Tidy
      BY <1>1, <3>1
    <3>3. PutChar(after[n - 1], text[n]) \in Tidy
      BY <3>2, CharacterTidy
    <3> QED BY <1>9, <3>1, <3>3
  <2>2. m \in Nat /\ after[0] \in P[0] /\ m \in 0 .. N
    BY <1>1, <1>9
  <2>3. after[m] \in P[m]
    <3> HIDE DEF P, N
    <3> QED BY <2>1, <2>2, RecursionKeeps
  <2> QED BY <2>3
<1>11. after = [n \in 0 .. N |-> after[n]]
  <2> HIDE DEF N
  <2> QED BY <1>7
<1> HIDE DEF N
<1>12. after \in [0 .. N -> Tidy]
  BY <1>10, <1>11
<1> QED BY <1>8, <1>9, <1>12 DEF N

LEMMA PutsStarts ==
    ASSUME NEW c \in Tidy, NEW text \in Seq(Printable)
    PROVE  Puts(c, text) \in AtStart
<1>1. Write(c, text) \in Tidy
  <2>1. Len(text) \in 0 .. Len(text)
    BY LenProperties
  <2> QED BY <2>1, WriteSteps
<1> QED BY <1>1, LineFeedStarts DEF Puts

LEMMA PutLinesStarts ==
    ASSUME NEW c \in Tidy, NEW texts \in Seq(Seq(Printable)),
           c \in AtStart \/ texts # << >>
    PROVE  PutLines(c, texts) \in AtStart
<1> DEFINE N == Len(texts)
           step == [n \in 1 .. N |-> [x \in Tidy |-> Puts(x, texts[n])]]
           Solves(f) == f = [n \in 0 .. N |-> IF n = 0 THEN c ELSE Puts(f[n - 1], texts[n])]
           after == CHOOSE f : Solves(f)
           P == [n \in 0 .. N |-> IF n = 0 /\ c \notin AtStart THEN Tidy ELSE AtStart]
<1>1. N \in Nat /\ \A n \in 1 .. N : texts[n] \in Seq(Printable)
  BY ElementOfSeq
<1>2. AtStart \subseteq Tidy
  BY DEF AtStart
<1>3. step \in Steps(N, Tidy)
  BY <1>1, <1>2, PutsStarts DEF Steps
<1>4. Runs(N, Tidy, c, step) # {}
  <2> HIDE DEF N, step
  <2> QED BY <1>1, <1>3, RecursionExists
<1>5. PICK f \in [0 .. N -> Tidy] :
        \A n \in 0 .. N : f[n] = IF n = 0 THEN c ELSE step[n][f[n - 1]]
  <2> HIDE DEF step, N
  <2> QED BY <1>4 DEF Runs
<1>6. \A n \in 1 .. N : n - 1 \in 0 .. N /\ step[n][f[n - 1]] = Puts(f[n - 1], texts[n])
  <2> SUFFICES ASSUME NEW n \in 1 .. N
               PROVE  n - 1 \in 0 .. N /\ step[n][f[n - 1]] = Puts(f[n - 1], texts[n])
    OBVIOUS
  <2>1. n - 1 \in 0 .. N
    BY <1>1
  <2>2. f[n - 1] \in Tidy
    BY <2>1
  <2>3. step[n] = [x \in Tidy |-> Puts(x, texts[n])]
    OBVIOUS
  <2> QED BY <2>1, <2>2, <2>3
<1>7. Solves(f)
  <2> DEFINE F == [n \in 0 .. N |-> IF n = 0 THEN c ELSE Puts(f[n - 1], texts[n])]
  <2>1. \A n \in 0 .. N : n = 0 \/ n \in 1 .. N
    BY <1>1
  <2>2. \A n \in 0 .. N : f[n] = F[n]
    <3> HIDE DEF step, N
    <3> QED BY <1>5, <1>6, <2>1
  <2>3. f = [n \in 0 .. N |-> f[n]] /\ F = [n \in 0 .. N |-> F[n]]
    OBVIOUS
  <2>4. f = F
    <3> HIDE DEF F, N
    <3> QED BY <2>2, <2>3
  <2> QED BY <2>4
<1>8. Solves(after)
  <2> HIDE DEF Solves
  <2> QED BY <1>7
<1>9. PutLines(c, texts) = after[N]
  BY DEF PutLines
<1> HIDE DEF after
<1>10. /\ after[0] = c
       /\ \A n \in 1 .. N : after[n] = Puts(after[n - 1], texts[n])
  <2> HIDE DEF N
  <2> QED BY <1>1, <1>8
<1>11. \A n \in 1 .. N : after[n - 1] \in P[n - 1] => after[n] \in P[n]
  <2> SUFFICES ASSUME NEW n \in 1 .. N, after[n - 1] \in P[n - 1] PROVE after[n] \in P[n]
    OBVIOUS
  <2>1. n \in 0 .. N /\ n - 1 \in 0 .. N /\ n # 0
    BY <1>1
  <2>2. after[n - 1] \in Tidy /\ texts[n] \in Seq(Printable)
    BY <1>1, <1>2, <2>1
  <2>3. Puts(after[n - 1], texts[n]) \in AtStart
    BY <2>2, PutsStarts
  <2> QED BY <1>10, <2>1, <2>3
<1>12. after[0] \in P[0] /\ P[N] = AtStart
  <2>1. N = 0 => texts = << >>
    BY EmptySeq
  <2>2. 0 \in 0 .. N /\ N \in 0 .. N
    BY <1>1
  <2> HIDE DEF N
  <2> QED BY <1>10, <2>1, <2>2
<1>13. after[N] \in P[N]
  <2> HIDE DEF P, N
  <2> QED BY <1>1, <1>11, <1>12, RecursionKeeps
<1> QED BY <1>9, <1>12, <1>13

\* The screen as the machine hands it over.
LEMMA FreshStarts == FreshConsole \in AtStart
<1>1. FirstRow \in 0 .. Rows - 1
  BY ConsoleAssumption
<1>2. FirstRow * Columns \in Cells
  BY <1>1, RowFits
<1>3. FreshConsole \in Tidy
  BY <1>2 DEF FreshConsole, Tidy, ConsoleType, CellValue
<1> QED BY <1>1, <1>3 DEF FreshConsole, AtStart

\* print_uint: what is left to divide, and the digits found before.
LeftType == [0 .. 10 -> Nat]
DigitsType == [0 .. 10 -> Seq(Printable)]

DigitsFrom(left, digits) ==
    /\ digits[0] = << >>
    /\ \A n \in 1 .. 10 :
          /\ left[n] = left[n - 1] \div 10
          /\ digits[n] = IF left[n - 1] = 0 THEN digits[n - 1]
                         ELSE <<48 + (left[n - 1] % 10)>> \o digits[n - 1]

LEMMA DigitsSteps ==
    ASSUME NEW value \in Nat \ {0}
    PROVE  \E left \in LeftType, digits \in DigitsType :
              left[0] = value /\ DigitsFrom(left, digits) /\ Digits(value) = digits[10]
<1> DEFINE Left(f) == f = [n \in 0 .. 10 |-> IF n = 0 THEN value ELSE f[n - 1] \div 10]
           left == CHOOSE f : Left(f)
           Next10(n, d) == IF left[n - 1] = 0 THEN d
                           ELSE <<48 + (left[n - 1] % 10)>> \o d
           Found(f) == f = [n \in 0 .. 10 |->
                             IF n = 0 THEN << >>
                             ELSE IF left[n - 1] = 0 THEN f[n - 1]
                             ELSE <<48 + (left[n - 1] % 10)>> \o f[n - 1]]
           digits == CHOOSE f : Found(f)
<1>1. \E f \in [0 .. 10 -> Nat] : Left(f)
  <2> DEFINE step == [n \in 1 .. 10 |-> [x \in Nat |-> x \div 10]]
  <2>1. step \in Steps(10, Nat)
    BY DEF Steps
  <2>2. Runs(10, Nat, value, step) # {}
    <3> HIDE DEF step
    <3> QED BY <2>1, RecursionExists
  <2>3. PICK f \in [0 .. 10 -> Nat] :
          \A n \in 0 .. 10 : f[n] = IF n = 0 THEN value ELSE step[n][f[n - 1]]
    <3> HIDE DEF step
    <3> QED BY <2>2 DEF Runs
  <2> DEFINE F == [n \in 0 .. 10 |-> IF n = 0 THEN value ELSE f[n - 1] \div 10]
  <2>4. ASSUME NEW n \in 0 .. 10 PROVE f[n] = F[n]
    <3>1. CASE n = 0
      BY <2>3, <3>1
    <3>2. CASE n # 0
      <4>1. n \in 1 .. 10 /\ n - 1 \in 0 .. 10
        BY <3>2
      <4>2. f[n - 1] \in Nat
        BY <4>1
      <4>3. step[n][f[n - 1]] = f[n - 1] \div 10
        BY <4>1, <4>2
      <4> HIDE DEF step
      <4> QED BY <2>3, <3>2, <4>3
    <3> QED BY <3>1, <3>2
  <2>5. f = [n \in 0 .. 10 |-> f[n]] /\ F = [n \in 0 .. 10 |-> F[n]]
    OBVIOUS
  <2>6. f = F
    <3> HIDE DEF F
    <3> QED BY <2>4, <2>5
  <2> QED BY <2>6
<1>2. Left(left)
  <2> HIDE DEF Left
  <2> QED BY <1>1
<1> HIDE DEF left, Next10, Found, digits
<1>3. left[0] = value /\ \A n \in 1 .. 10 : left[n] = left[n - 1] \div 10
  BY <1>2
<1>4. \A n \in 0 .. 10 : left[n] \in Nat
  <2> SUFFICES ASSUME NEW m \in 0 .. 10 PROVE left[m] \in Nat
    OBVIOUS
  <2> DEFINE P == [n \in 0 .. 10 |-> Nat]
  <2>1. \A n \in 1 .. m : left[n - 1] \in P[n - 1] => left[n] \in P[n]
    BY <1>3
  <2>2. m \in Nat /\ left[0] \in P[0]
    BY <1>3
  <2>3. left[m] \in P[m]
    <3> HIDE DEF P
    <3> QED BY <2>1, <2>2, RecursionKeeps
  <2> QED BY <2>3
<1>5. left \in [0 .. 10 -> Nat]
  <2>1. left = [n \in 0 .. 10 |-> left[n]]
    BY <1>2
  <2> QED BY <1>4, <2>1
<1>6. ASSUME NEW n \in 1 .. 10, NEW d \in Seq(Printable)
      PROVE  Next10(n, d) \in Seq(Printable)
  <2> HIDE DEF Left
  <2>1. left[n - 1] \in Nat
    <3>1. n - 1 \in 0 .. 10
      OBVIOUS
    <3> QED BY <1>4, <3>1
  <2>2. 48 + (left[n - 1] % 10) \in Printable
    <3> DEFINE x == left[n - 1]
    <3>1. x \in Nat
      BY <2>1
    <3> HIDE DEF x
    <3>2. x % 10 \in 0 .. 9
      BY <3>1
    <3>3. \A y \in 0 .. 9 : 48 + y \in Printable
      BY DEF Printable
    <3> QED BY <3>2, <3>3, Zenon DEF x
  <2>3. <<48 + (left[n - 1] % 10)>> \in Seq(Printable)
    BY <2>2
  <2> QED BY <2>3, ConcatProperties DEF Next10
<1>7. \E f \in [0 .. 10 -> Seq(Printable)] : Found(f)
  <2> DEFINE step == [n \in 1 .. 10 |-> [d \in Seq(Printable) |-> Next10(n, d)]]
  <2>1. step \in Steps(10, Seq(Printable))
    BY <1>6 DEF Steps
  <2>2. Runs(10, Seq(Printable), << >>, step) # {}
    <3>1. << >> \in Seq(Printable)
      OBVIOUS
    <3> HIDE DEF step
    <3> QED BY <2>1, <3>1, RecursionExists
  <2>3. PICK f \in [0 .. 10 -> Seq(Printable)] :
          \A n \in 0 .. 10 : f[n] = IF n = 0 THEN << >> ELSE step[n][f[n - 1]]
    <3> HIDE DEF step
    <3> QED BY <2>2 DEF Runs
  <2> DEFINE F == [n \in 0 .. 10 |->
                    IF n = 0 THEN << >>
                    ELSE IF left[n - 1] = 0 THEN f[n - 1]
                    ELSE <<48 + (left[n - 1] % 10)>> \o f[n - 1]]
  <2>4. ASSUME NEW n \in 0 .. 10 PROVE f[n] = F[n]
    <3>1. CASE n = 0
      BY <2>3, <3>1
    <3>2. CASE n # 0
      <4>1. n \in 1 .. 10 /\ n - 1 \in 0 .. 10
        BY <3>2
      <4>2. f[n - 1] \in Seq(Printable)
        BY <4>1
      <4>3. step[n][f[n - 1]] = Next10(n, f[n - 1])
        BY <4>1, <4>2
      <4> HIDE DEF step
      <4> QED BY <2>3, <3>2, <4>3 DEF Next10
    <3> QED BY <3>1, <3>2
  <2>5. f = [n \in 0 .. 10 |-> f[n]] /\ F = [n \in 0 .. 10 |-> F[n]]
    OBVIOUS
  <2>6. f = F
    <3> HIDE DEF F
    <3> QED BY <2>4, <2>5
  <2> QED BY <2>6 DEF Found
<1>8. Found(digits)
  BY <1>7 DEF digits
<1>9. Digits(value) = digits[10]
  <2>1. value # 0 /\ ~ (value < 0)
    OBVIOUS
  <2> QED BY <2>1, Zenon DEF Digits, left, digits, Found, Left
<1>10. /\ digits[0] = << >>
       /\ \A n \in 1 .. 10 : digits[n] = Next10(n, digits[n - 1])
  <2>1. digits[0] = << >>
    BY <1>8 DEF Found
  <2>2. ASSUME NEW n \in 1 .. 10 PROVE digits[n] = Next10(n, digits[n - 1])
    <3>1. n \in 0 .. 10 /\ n # 0
      OBVIOUS
    <3> QED BY <1>8, <3>1, Zenon DEF Found, Next10
  <2> QED BY <2>1, <2>2
<1>11. \A n \in 0 .. 10 : digits[n] \in Seq(Printable)
  <2> SUFFICES ASSUME NEW m \in 0 .. 10 PROVE digits[m] \in Seq(Printable)
    OBVIOUS
  <2> DEFINE P == [n \in 0 .. 10 |-> Seq(Printable)]
  <2>1. \A n \in 1 .. m : digits[n - 1] \in P[n - 1] => digits[n] \in P[n]
    <3>1. \A n \in 1 .. m : n \in 1 .. 10 /\ n \in 0 .. 10 /\ n - 1 \in 0 .. 10
      OBVIOUS
    <3>2. \A n \in 0 .. 10 : P[n] = Seq(Printable)
      OBVIOUS
    <3> HIDE DEF P
    <3> QED BY <1>6, <1>10, <3>1, <3>2, Zenon
  <2>2. m \in Nat /\ digits[0] \in P[0]
    BY <1>10
  <2>3. digits[m] \in P[m]
    <3> HIDE DEF P
    <3> QED BY <2>1, <2>2, RecursionKeeps
  <2> QED BY <2>3
<1>12. digits \in [0 .. 10 -> Seq(Printable)]
  <2>1. digits = [n \in 0 .. 10 |-> digits[n]]
    BY <1>8 DEF Found
  <2> QED BY <1>11, <2>1
<1> QED BY <1>3, <1>5, <1>9, <1>10, <1>12 DEF DigitsFrom, Next10, LeftType, DigitsType

LEMMA DigitsPrintable ==
    ASSUME NEW value \in Int
    PROVE  Digits(value) \in Seq(Printable)
<1>1. CASE value = 0
  BY <1>1 DEF Digits, Printable
<1>2. CASE value < 0
  <2>1. value # 0 /\ << >> \in Seq(Printable)
    BY <1>2
  <2> QED BY <1>2, <2>1, Zenon DEF Digits
<1>3. CASE value > 0
  <2>1. value \in Nat \ {0}
    BY <1>3
  <2> QED BY <2>1, DigitsSteps DEF DigitsType
<1> QED BY <1>1, <1>2, <1>3

-----------------------------------------------------------------------------
(***************************************************************************)
(* Within a row a character goes where the cursor is, and a backspace      *)
(* takes away the last one.                                                *)
(***************************************************************************)
LEMMA CharacterInRow ==
    ASSUME NEW c \in Tidy, NEW glyph \in Printable,
           NEW r \in 0 .. Rows - 1, NEW k \in 0 .. Columns - 2,
           c.cursor = r * Columns + k
    PROVE  PutChar(c, glyph) = [cells |-> [c.cells EXCEPT ![r * Columns + k] = glyph],
                                cursor |-> r * Columns + (k + 1)]
<1>1. k + 1 \in 0 .. Columns - 1 /\ k \in 0 .. Columns - 1
  BY ConsoleAssumption
<1>2. r * Columns + (k + 1) \in Cells
  BY <1>1, PlaceInRow
<1>3. r * Columns + (k + 1) # End
  BY <1>2, ConsoleAssumption DEF Cells, End
<1>4. (r * Columns + k) + 1 = r * Columns + (k + 1)
  <2>1. r * Columns \in Nat /\ k \in Nat
    BY ConsoleAssumption
  <2> QED BY <2>1
<1>5. PutChar(c, glyph)
        = Advanced([c.cells EXCEPT ![c.cursor] = glyph], c.cursor + 1)
  BY DEF PutChar, Printable, Backspace, LineFeed, CarriageReturn
<1> QED BY <1>3, <1>4, <1>5 DEF Advanced

LEMMA BackspaceInRow ==
    ASSUME NEW c \in Tidy, NEW r \in 0 .. Rows - 1, NEW k \in 1 .. Columns - 1,
           c.cursor = r * Columns + k
    PROVE  PutChar(c, Backspace)
             = [cells |-> [c.cells EXCEPT ![r * Columns + (k - 1)] = Space],
                cursor |-> r * Columns + (k - 1)]
<1>1. r * Columns \in Nat /\ k \in Nat /\ k >= 1
  BY ConsoleAssumption
<1>2. (r * Columns + k) - 1 = r * Columns + (k - 1) /\ r * Columns + k # 0
  BY <1>1
<1>3. PutChar(c, Backspace)
        = [cells |-> [c.cells EXCEPT ![c.cursor - 1] = Space], cursor |-> c.cursor - 1]
  BY <1>2 DEF PutChar, Backspace, LineFeed, CarriageReturn
<1> QED BY <1>2, <1>3

\* Distinct columns of a row are distinct cells.
LEMMA ColumnsApart ==
    ASSUME NEW r \in 0 .. Rows - 1, NEW j \in 0 .. Columns - 1, NEW k \in 0 .. Columns - 1
    PROVE  /\ r * Columns + k \in Cells
           /\ r * Columns + j = r * Columns + k => j = k
<1>1. r * Columns \in Nat /\ j \in Nat /\ k \in Nat
  BY ConsoleAssumption
<1>2. r * Columns + j = r * Columns + k => j = k
  BY <1>1
<1> QED BY <1>2, PlaceInRow

\* A text that fits, from the start of a row on.
LEMMA WriteInRow ==
    ASSUME NEW c \in AtStart, NEW text \in Seq(Printable), Len(text) < Columns
    PROVE  /\ Write(c, text) \in Tidy
           /\ \E r \in 0 .. Rows - 1 :
                 /\ Write(c, text).cursor = r * Columns + Len(text)
                 /\ \A k \in 0 .. Len(text) - 1 :
                       Write(c, text).cells[r * Columns + k] = text[k + 1]
<1> DEFINE N == Len(text)
<1>1. N \in Nat /\ N < Columns /\ \A n \in 1 .. N : text[n] \in Printable
  BY ElementOfSeq
<1>2. c \in Tidy
  BY DEF AtStart
<1>3. PICK r \in 0 .. Rows - 1 : c.cursor = r * Columns
  BY DEF AtStart
<1>4. r * Columns \in Nat
  BY ConsoleAssumption
<1>5. PICK f \in [0 .. N -> Tidy] :
        /\ f[0] = c /\ Write(c, text) = f[N]
        /\ \A n \in 1 .. N : f[n] = PutChar(f[n - 1], text[n])
  BY <1>2, WriteSteps
<1> DEFINE Q(x, n) == /\ x.cursor = r * Columns + n
                      /\ \A k \in 0 .. n - 1 : x.cells[r * Columns + k] = text[k + 1]
           P == [n \in 0 .. N |-> {x \in Tidy : Q(x, n)}]
<1> HIDE DEF N
<1>6. f[0] \in P[0]
  <2>1. 0 \in 0 .. N /\ r * Columns + 0 = r * Columns
    BY <1>1, <1>4
  <2>2. Q(c, 0)
    BY <1>3, <2>1
  <2> HIDE DEF Q
  <2> QED BY <1>2, <1>5, <2>1, <2>2
<1>7. ASSUME NEW n \in 1 .. N, f[n - 1] \in P[n - 1] PROVE f[n] \in P[n]
  <2>1. /\ n \in 0 .. N /\ n - 1 \in 0 .. N /\ n - 1 \in 0 .. Columns - 2
        /\ (n - 1) + 1 = n /\ n - 1 \in 0 .. Columns - 1
    BY <1>1, ConsoleAssumption
  <2> DEFINE x == f[n - 1]
  <2>2. x \in Tidy /\ Q(x, n - 1)
    <3> HIDE DEF Q
    <3> QED BY <1>7, <2>1
  <2>3. text[n] \in Printable /\ f[n] = PutChar(x, text[n])
    BY <1>1, <1>5
  <2> HIDE DEF x
  <2>4. f[n] = [cells |-> [x.cells EXCEPT ![r * Columns + (n - 1)] = text[n]],
                cursor |-> r * Columns + n]
    <3>1. PutChar(x, text[n])
            = [cells |-> [x.cells EXCEPT ![r * Columns + (n - 1)] = text[n]],
               cursor |-> r * Columns + ((n - 1) + 1)]
      BY <2>1, <2>2, <2>3, CharacterInRow
    <3> QED BY <2>1, <2>3, <3>1
  <2>5. x.cells \in [Cells -> CellValue]
    BY <2>2 DEF Tidy, ConsoleType
  <2>6. ASSUME NEW k \in 0 .. n - 1
        PROVE  f[n].cells[r * Columns + k] = text[k + 1]
    <3>1. k \in 0 .. Columns - 1
      BY <1>1
    <3>2. /\ r * Columns + k \in Cells
          /\ r * Columns + k = r * Columns + (n - 1) => k = n - 1
      BY <2>1, <3>1, ColumnsApart
    <3>3. k # n - 1 => k \in 0 .. (n - 1) - 1
      BY <1>1
    <3>4. k # n - 1 => x.cells[r * Columns + k] = text[k + 1]
      BY <2>2, <3>3
    <3>5. k = n - 1 => k + 1 = n
      BY <1>1
    <3> QED BY <2>4, <2>5, <3>2, <3>4, <3>5
  <2>7. Q(f[n], n)
    BY <2>4, <2>6
  <2>8. f[n] \in Tidy
    BY <1>5, <2>1
  <2> HIDE DEF Q
  <2> QED BY <2>1, <2>7, <2>8
<1>8. f[N] \in P[N]
  <2> HIDE DEF P
  <2> QED BY <1>1, <1>6, <1>7, RecursionKeeps
<1>9. f[N] \in Tidy /\ Q(f[N], N)
  <2>1. N \in 0 .. N
    BY <1>1
  <2> HIDE DEF Q
  <2> QED BY <1>8, <2>1
<1> QED BY <1>5, <1>9 DEF N

-----------------------------------------------------------------------------
(***************************************************************************)
(* The inductive invariant.  While a line is edited the cursor's row holds *)
(* the prompt and the line; when it is not, the cursor starts a row, or    *)
(* what is printed next ends the row it is in.                             *)
(***************************************************************************)
LineType == [0 .. LineSize - 1 -> Printable \cup {0, Junk}]

\* What the column k of the row is to hold.
Held(ln, k) == IF k < Len(Prompt) THEN Prompt[k + 1] ELSE ln[k - Len(Prompt)]

ShownIn(c, ln, n, r) ==
    /\ c.cursor = r * Columns + (Len(Prompt) + n)
    /\ \A k \in 0 .. (Len(Prompt) + n) - 1 : c.cells[r * Columns + k] = Held(ln, k)

Editing ==
    /\ length < LineSize - 1
    /\ \E r \in 0 .. Rows - 1 : ShownIn(console, line, length, r)

MonitorIInv ==
    /\ console \in Tidy /\ line \in LineType /\ length \in 0 .. LineSize - 1
    /\ at \in {"start", "prompt"} => console \in AtStart
    /\ at \in {"poll", "data", "edit"} => Editing
    /\ at \in {"submit", "obey"} => console \in AtStart \/ length > 0

\* The texts and sizes, as the lemmas use them.
LEMMA Sizes ==
    /\ Prompt \in Seq(Printable) /\ Len(Prompt) \in Nat
    /\ LineSize \in Nat /\ LineSize > 1 /\ Columns \in Nat \ {0} /\ Rows \in Nat \ {0}
    /\ Len(Prompt) + LineSize <= Columns
    /\ AtStart \subseteq Tidy
<1>1. Prompt \in Seq(Printable)
  BY MonitorAssumption
<1>2. Len(Prompt) \in Nat
  BY <1>1
<1>3. AtStart \subseteq Tidy
  BY DEF AtStart
<1> QED BY <1>1, <1>2, <1>3, MonitorAssumption, ConsoleAssumption

LEMMA MonitorStarts ==
    ASSUME NEW c, c = FreshConsole
    PROVE  c \in AtStart /\ JunkLine \in LineType /\ 0 \in 0 .. LineSize - 1
<1>1. JunkLine \in LineType
  BY DEF JunkLine, LineType
<1> QED BY <1>1, FreshStarts, Sizes

LEMMA InitMonitor == MonitorInit => MonitorIInv
<1> SUFFICES ASSUME MonitorInit PROVE MonitorIInv
  OBVIOUS
<1>1. console \in AtStart /\ console \in Tidy /\ JunkLine \in LineType /\ 0 \in 0 .. LineSize - 1
  BY MonitorStarts, Sizes DEF MonitorInit
<1> QED BY <1>1 DEF MonitorInit, MonitorIInv

\* The startup code prints whole lines.
LEMMA StartKeeps ==
    ASSUME MonitorIInv, NEW valid, Start(valid)
    PROVE  MonitorIInv'
<1>1. console \in AtStart /\ console \in Tidy
  BY Sizes DEF MonitorIInv, Start
<1>2. PutLines(console, Banner) \in AtStart
  BY <1>1, PutLinesStarts, MonitorAssumption
<1>3. console' \in Tidy /\ (at' = "prompt" => console' \in AtStart)
      /\ at' \in {"prompt", "halted"}
  BY <1>1, <1>2, Sizes DEF Start, Goto, Shows, Halts
<1>4. UNCHANGED <<line, length>>
  BY DEF Start
<1> QED BY <1>3, <1>4 DEF MonitorIInv

\* The prompt is printed from the start of a row, and leaves room for a line.
LEMMA PromptKeeps ==
    ASSUME MonitorIInv, PrintPrompt
    PROVE  MonitorIInv'
<1>1. /\ console \in AtStart /\ console' = Write(console, Prompt)
      /\ length' = 0 /\ line' = line /\ at' = "poll"
  BY DEF MonitorIInv, PrintPrompt, Goto, Shows
<1>2. Prompt \in Seq(Printable) /\ Len(Prompt) < Columns /\ Len(Prompt) + 0 = Len(Prompt)
  BY Sizes
<1>3. /\ console' \in Tidy
      /\ \E r \in 0 .. Rows - 1 :
            /\ console'.cursor = r * Columns + Len(Prompt)
            /\ \A k \in 0 .. Len(Prompt) - 1 :
                  console'.cells[r * Columns + k] = Prompt[k + 1]
  BY <1>1, <1>2, WriteInRow
<1>4. ASSUME NEW k \in 0 .. Len(Prompt) - 1 PROVE Held(line', k) = Prompt[k + 1]
  BY Sizes DEF Held
<1>5. \E r \in 0 .. Rows - 1 : ShownIn(console', line', 0, r)
  BY <1>2, <1>3, <1>4 DEF ShownIn
<1>6. 0 \in 0 .. LineSize - 1 /\ 0 < LineSize - 1
  BY Sizes
<1> QED BY <1>1, <1>3, <1>5, <1>6 DEF MonitorIInv, Editing

\* Waiting for a key changes neither line nor screen.
LEMMA WaitingKeeps ==
    ASSUME MonitorIInv, UNCHANGED <<console, line, length>>,
           at \in {"poll", "data"}, at' \in {"poll", "data", "edit"}
    PROVE  MonitorIInv'
BY DEF MonitorIInv, Editing, ShownIn, Held

\* After a key the loop goes on, or the line is full.
LEMMA ContinuesKeeps ==
    ASSUME MonitorIInv, Continues, console' \in Tidy, line' \in LineType,
           length' \in 0 .. LineSize - 1,
           \E r \in 0 .. Rows - 1 : ShownIn(console', line', length', r)
    PROVE  MonitorIInv'
<1>1. CASE length' < LineSize - 1
  BY <1>1 DEF Continues, Goto, MonitorIInv, Editing
<1>2. CASE ~ (length' < LineSize - 1)
  <2>1. length' > 0
    BY <1>2, Sizes
  <2> QED BY <1>2, <2>1 DEF Continues, Goto, MonitorIInv, Editing
<1> QED BY <1>1, <1>2

LEMMA EnterKeeps ==
    ASSUME MonitorIInv, Enter
    PROVE  MonitorIInv'
<1>1. console' \in AtStart /\ console' \in Tidy
  BY LineFeedStarts, Sizes DEF MonitorIInv, Enter, Shows
<1> QED BY <1>1 DEF MonitorIInv, Enter, Goto

\* A key that is erased goes from the line and from the screen.
LEMMA EraseKeeps ==
    ASSUME MonitorIInv, Erase
    PROVE  MonitorIInv'
<1>1. /\ console \in Tidy /\ line \in LineType /\ length \in 0 .. LineSize - 1
      /\ Editing /\ Continues /\ line' = line
  BY DEF MonitorIInv, Erase
<1>2. PICK r \in 0 .. Rows - 1 : ShownIn(console, line, length, r)
  BY <1>1 DEF Editing
<1>3. CASE length > 0
  <2>1. length' = length - 1 /\ console' = PutChar(console, Backspace)
    BY <1>3 DEF Erase, Shows
  <2> DEFINE k == Len(Prompt) + length
  <2>2. /\ k \in 1 .. Columns - 1 /\ k - 1 = Len(Prompt) + (length - 1)
        /\ k - 1 \in 0 .. Columns - 1 /\ length - 1 \in 0 .. LineSize - 1
    BY <1>1, <1>3, Sizes
  <2>3. console.cursor = r * Columns + k
    BY <1>2 DEF ShownIn
  <2>4. \A j \in 0 .. k - 1 : console.cells[r * Columns + j] = Held(line, j)
    BY <1>2 DEF ShownIn
  <2> HIDE DEF k
  <2>5. console' = [cells |-> [console.cells EXCEPT ![r * Columns + (k - 1)] = Space],
                    cursor |-> r * Columns + (k - 1)]
    BY <1>1, <2>1, <2>2, <2>3, BackspaceInRow
  <2>6. console' \in Tidy
    BY <1>1, <2>1, BackspaceTidy
  <2>7. console.cells \in [Cells -> CellValue]
    BY <1>1 DEF Tidy, ConsoleType
  <2>8. ASSUME NEW j \in 0 .. (k - 1) - 1
        PROVE  console'.cells[r * Columns + j] = Held(line, j)
    <3>1. j \in 0 .. Columns - 1 /\ j # k - 1 /\ j \in 0 .. k - 1
      <4>1. k \in Int /\ Columns \in Int
        BY <2>2, Sizes
      <4> QED BY <2>2, <4>1
    <3>2. r * Columns + j # r * Columns + (k - 1) /\ r * Columns + j \in Cells
      BY <2>2, <3>1, ColumnsApart
    <3>3. console.cells[r * Columns + j] = Held(line, j)
      BY <2>4, <3>1
    <3> QED BY <2>5, <2>7, <3>2, <3>3
  <2>9. ShownIn(console', line', length', r)
    BY <1>1, <2>1, <2>2, <2>5, <2>8 DEF ShownIn
  <2> QED BY <1>1, <2>1, <2>2, <2>6, <2>9, ContinuesKeeps
<1>4. CASE ~ (length > 0)
  <2>1. UNCHANGED <<length, console>>
    BY <1>4 DEF Erase
  <2>2. ShownIn(console', line', length', r)
    BY <1>1, <1>2, <2>1
  <2> QED BY <1>1, <2>1, <2>2, ContinuesKeeps
<1> QED BY <1>3, <1>4

\* A key that is typed goes to the end of both.
LEMMA TypeKeeps ==
    ASSUME MonitorIInv, Type
    PROVE  MonitorIInv'
<1>1. /\ console \in Tidy /\ line \in LineType /\ length \in 0 .. LineSize - 1
      /\ Editing /\ Continues /\ ch \in Printable
      /\ line' = [line EXCEPT ![length] = ch] /\ length' = length + 1
      /\ console' = PutChar(console, ch)
  BY DEF MonitorIInv, Type, Shows, Printable
<1>2. PICK r \in 0 .. Rows - 1 : ShownIn(console, line, length, r)
  BY <1>1 DEF Editing
<1>3. length + 1 \in 0 .. LineSize - 1 /\ length < LineSize - 1
  BY <1>1, Sizes DEF Editing
<1>4. line' \in LineType /\ \A i \in 0 .. LineSize - 1 :
                                line'[i] = IF i = length THEN ch ELSE line[i]
  BY <1>1 DEF LineType
<1> DEFINE k == Len(Prompt) + length
<1>5. /\ k \in 0 .. Columns - 2 /\ k + 1 = Len(Prompt) + (length + 1)
      /\ k \in 0 .. Columns - 1 /\ (k + 1) - 1 = k /\ ~ (k < Len(Prompt))
      /\ k - Len(Prompt) = length
  BY <1>1, <1>3, Sizes
<1>6. console.cursor = r * Columns + k
  BY <1>2 DEF ShownIn
<1>7. \A j \in 0 .. k - 1 : console.cells[r * Columns + j] = Held(line, j)
  BY <1>2 DEF ShownIn
<1>8. k \in Int /\ Columns \in Int
  BY <1>5, Sizes
<1> HIDE DEF k
<1>9. console' = [cells |-> [console.cells EXCEPT ![r * Columns + k] = ch],
                  cursor |-> r * Columns + (k + 1)]
  BY <1>1, <1>5, <1>6, CharacterInRow
<1>10. console' \in Tidy
  BY <1>1, CharacterTidy
<1>11. console.cells \in [Cells -> CellValue]
  BY <1>1 DEF Tidy, ConsoleType
<1>12. ASSUME NEW j \in 0 .. (k + 1) - 1
       PROVE  console'.cells[r * Columns + j] = Held(line', j)
  <2>1. j \in 0 .. Columns - 1
    BY <1>5, <1>8
  <2>2. /\ r * Columns + j \in Cells
        /\ r * Columns + j = r * Columns + k => j = k
    BY <1>5, <2>1, ColumnsApart
  <2>3. CASE j = k
    <3>1. Held(line', j) = ch
      BY <1>1, <1>4, <1>5, <2>3 DEF Held
    <3>2. r * Columns + j = r * Columns + k
      BY <2>3
    <3> QED BY <1>9, <1>11, <2>2, <3>1, <3>2
  <2>4. CASE j # k
    <3>1. j \in 0 .. k - 1
      BY <1>5, <2>4
    <3>2. console.cells[r * Columns + j] = Held(line, j)
      BY <1>7, <3>1
    <3>3. ~ (j < Len(Prompt)) => /\ j - Len(Prompt) \in 0 .. LineSize - 1
                                 /\ j - Len(Prompt) # length
      BY <1>1, <1>3, <1>5, <3>1, Sizes DEF k
    <3>4. Held(line', j) = Held(line, j)
      BY <1>4, <3>3 DEF Held
    <3> QED BY <1>9, <1>11, <2>2, <2>4, <3>2, <3>4
  <2> QED BY <2>3, <2>4
<1>13. ShownIn(console', line', length', r)
  <2>1. console'.cursor = r * Columns + (Len(Prompt) + length')
    BY <1>1, <1>5, <1>9
  <2>2. (Len(Prompt) + length') - 1 = (k + 1) - 1
    BY <1>1, <1>5
  <2> QED BY <1>12, <2>1, <2>2 DEF ShownIn
<1> QED BY <1>1, <1>3, <1>4, <1>10, <1>13, ContinuesKeeps

\* A key without a meaning changes nothing.
LEMMA IgnoreKeeps ==
    ASSUME MonitorIInv, Ignore
    PROVE  MonitorIInv'
<1>1. /\ console \in Tidy /\ line \in LineType /\ length \in 0 .. LineSize - 1
      /\ Editing /\ Continues /\ UNCHANGED <<console, line, length>>
  BY DEF MonitorIInv, Ignore
<1>2. \E r \in 0 .. Rows - 1 : ShownIn(console', line', length', r)
  BY <1>1 DEF Editing
<1> QED BY <1>1, <1>2, ContinuesKeeps

LEMMA SubmitKeeps ==
    ASSUME MonitorIInv, Submit
    PROVE  MonitorIInv'
<1>1. /\ line' = [line EXCEPT ![length] = 0] /\ line \in LineType
      /\ at = "submit" /\ at' = "obey" /\ UNCHANGED <<console, length>>
  BY DEF MonitorIInv, Submit, Goto
<1>2. line' \in LineType
  BY <1>1 DEF LineType
<1> QED BY <1>1, <1>2 DEF MonitorIInv

\* Whatever a command prints, it ends the row the line is in.
LEMMA ObeyKeeps ==
    ASSUME MonitorIInv, Obey
    PROVE  MonitorIInv'
<1>1. /\ at = "obey" /\ at' = "prompt" /\ UNCHANGED <<line, length>>
      /\ console \in Tidy /\ length \in 0 .. LineSize - 1
      /\ console \in AtStart \/ length > 0
  BY DEF MonitorIInv, Obey, Goto
<1>2. CASE length = 0
  <2>1. console' = console /\ console \in AtStart
    BY <1>1, <1>2 DEF Obey, Shows
  <2> QED BY <1>1, <2>1 DEF MonitorIInv
<1>3. CASE length # 0 /\ Typed \in DOMAIN Replies
  <2>1. console' = PutLines(console, Replies[Typed])
    BY <1>3 DEF Obey, Shows
  <2>2. Replies[Typed] \in Seq(Seq(Printable)) /\ Replies[Typed] # << >>
    BY <1>3, MonitorAssumption
  <2>3. console' \in AtStart
    <3> HIDE DEF Typed
    <3> QED BY <1>1, <2>1, <2>2, PutLinesStarts
  <2> QED BY <1>1, <2>3, Sizes DEF MonitorIInv
<1>4. CASE length # 0 /\ Typed \notin DOMAIN Replies
  <2>1. console' = Puts(console, NoSuchCommand)
    BY <1>4 DEF Obey, Shows
  <2>2. console' \in AtStart
    BY <1>1, <2>1, PutsStarts, MonitorAssumption
  <2> QED BY <1>1, <2>2, Sizes DEF MonitorIInv
<1> QED BY <1>2, <1>3, <1>4

LEMMA TimeKeeps ==
    ASSUME MonitorIInv, NEW epoch \in Epochs, Time(epoch)
    PROVE  MonitorIInv'
<1>1. /\ at = "obey" /\ at' = "prompt" /\ UNCHANGED <<line, length>>
      /\ console \in Tidy /\ console' = Puts(Puts(console, Heading), Digits(epoch))
  BY DEF MonitorIInv, Time, Goto, Shows
<1>2. Puts(console, Heading) \in Tidy
  BY <1>1, PutsStarts, Sizes, MonitorAssumption
<1>3. Digits(epoch) \in Seq(Printable)
  BY DigitsPrintable, MonitorAssumption
<1>4. console' \in AtStart
  BY <1>1, <1>2, <1>3, PutsStarts
<1> QED BY <1>1, <1>4, Sizes DEF MonitorIInv

\* One step of the monitor, or of the host.
LEMMA NextMonitor == MonitorIInv /\ [MonitorNext]_<<vars, guest>> => MonitorIInv'
<1> SUFFICES ASSUME MonitorIInv, [MonitorNext]_<<vars, guest>> PROVE MonitorIInv'
  OBVIOUS
<1>1. ASSUME NEW valid \in BOOLEAN, Start(valid) PROVE MonitorIInv'
  BY <1>1, StartKeeps
<1>2. CASE MonitorStep
  <2>1. CASE PrintPrompt
    BY <2>1, PromptKeeps
  <2>2. CASE Poll
    <3>1. UNCHANGED <<console, line, length>> /\ at = "poll" /\ at' \in {"poll", "data"}
      BY <2>2 DEF Poll, Goto
    <3> QED BY <3>1, WaitingKeeps
  <2>3. CASE GetKey
    <3>1. UNCHANGED <<console, line, length>> /\ at = "data" /\ at' = "edit"
      BY <2>3 DEF GetKey, Goto
    <3> QED BY <3>1, WaitingKeeps
  <2>4. CASE Enter
    BY <2>4, EnterKeeps
  <2>5. CASE Erase
    BY <2>5, EraseKeeps
  <2>6. CASE Type
    BY <2>6, TypeKeeps
  <2>7. CASE Ignore
    BY <2>7, IgnoreKeeps
  <2>8. CASE Submit
    BY <2>8, SubmitKeeps
  <2>9. CASE Obey
    BY <2>9, ObeyKeeps
  <2>10. CASE Halt
    BY <2>10 DEF Halt, Halts, MonitorIInv
  <2>11. CASE TimeFaults
    BY <2>11 DEF TimeFaults, MonitorIInv
  <2>12. ASSUME NEW epoch \in Epochs, Time(epoch) PROVE MonitorIInv'
    BY <2>12, TimeKeeps
  <2> QED BY <1>2, <2>1, <2>2, <2>3, <2>4, <2>5, <2>6, <2>7, <2>8, <2>9, <2>10,
             <2>11, <2>12 DEF MonitorStep
<1>3. CASE UNCHANGED guest
  BY <1>3 DEF guest, MonitorIInv, Editing
<1>4. CASE ResetMachine
  <2>1. console' \in AtStart /\ console' \in Tidy /\ JunkLine \in LineType
        /\ 0 \in 0 .. LineSize - 1
    BY <1>4, MonitorStarts, Sizes DEF ResetMachine
  <2> QED BY <1>4, <2>1 DEF ResetMachine, MonitorIInv
<1> QED BY <1>1, <1>2, <1>3, <1>4 DEF MonitorNext, PressKey

\* What the invariant says of the screen, cell by cell.
LEMMA ShownIsLine == MonitorIInv => LineIsShown
<1> SUFFICES ASSUME MonitorIInv, at \in {"poll", "data"} PROVE LineIsShown
  BY DEF LineIsShown
<1> DEFINE typed == [i \in 1 .. length |-> line[i - 1]]
           shown == Prompt \o typed
           column == console.cursor % Columns
           k == Len(Prompt) + length
<1>1. /\ console \in Tidy /\ line \in LineType /\ length \in Nat
      /\ length < LineSize - 1
  BY Sizes DEF MonitorIInv, Editing
<1>2. PICK r \in 0 .. Rows - 1 : ShownIn(console, line, length, r)
  BY DEF MonitorIInv, Editing
<1>3. /\ console.cursor = r * Columns + k
      /\ \A j \in 0 .. k - 1 : console.cells[r * Columns + j] = Held(line, j)
  BY <1>1, <1>2, Sizes DEF ShownIn
<1>4. k \in 0 .. Columns - 1 /\ k \in Nat
  BY <1>1, Sizes
<1>5. typed \in Seq(Printable \cup {0, Junk}) /\ Len(typed) = length
  <2>1. \A i \in 1 .. length : i - 1 \in 0 .. LineSize - 1
    BY <1>1, Sizes
  <2> QED BY <1>1, <2>1 DEF LineType
<1>6. /\ Len(shown) = k
      /\ \A c \in 1 .. k : shown[c] = Held(line, c - 1)
  <2>1. Prompt \in Seq(Printable \cup {0, Junk})
    BY Sizes
  <2>2. /\ Len(shown) = Len(Prompt) + Len(typed)
        /\ \A c \in 1 .. Len(Prompt) + Len(typed) :
              shown[c] = IF c <= Len(Prompt) THEN Prompt[c] ELSE typed[c - Len(Prompt)]
    <3> HIDE DEF typed
    <3> QED BY <1>5, <2>1, ConcatProperties
  <2>3. ASSUME NEW c \in 1 .. k PROVE shown[c] = Held(line, c - 1)
    <3>1. /\ c <= Len(Prompt) <=> c - 1 < Len(Prompt)
          /\ (c - 1) + 1 = c
          /\ ~ (c <= Len(Prompt)) => /\ c - Len(Prompt) \in 1 .. length
                                     /\ (c - Len(Prompt)) - 1 = (c - 1) - Len(Prompt)
      BY <1>1, <1>4, Sizes
    <3>2. ~ (c <= Len(Prompt)) =>
             typed[c - Len(Prompt)] = line[(c - 1) - Len(Prompt)]
      BY <3>1
    <3> HIDE DEF shown, typed
    <3> QED BY <1>5, <2>2, <3>1, <3>2 DEF Held
  <2> QED BY <1>5, <2>2, <2>3
<1> HIDE DEF shown, typed
<1>7. console.cursor \div Columns = r /\ column = k
  BY <1>3, <1>4, PlaceInRow
<1>8. ASSUME NEW c \in 1 .. Columns
      PROVE  console.cells[(r * Columns + c) - 1] = IF c <= k THEN shown[c] ELSE Space
  <2>1. c - 1 \in 0 .. Columns - 1 /\ c \in Nat /\ r * Columns \in Nat
    BY Sizes
  <2>2. (r * Columns + c) - 1 = r * Columns + (c - 1)
    BY <2>1
  <2>3. r * Columns + (c - 1) \in Cells
    BY <2>1, PlaceInRow
  <2>4. CASE c <= k
    <3>1. c \in 1 .. k /\ c - 1 \in 0 .. k - 1
      BY <1>4, <2>1, <2>4
    <3> QED BY <1>3, <1>6, <2>2, <2>4, <3>1
  <2>5. CASE ~ (c <= k)
    <3>1. r * Columns + (c - 1) >= console.cursor
      BY <1>3, <1>4, <2>1, <2>5
    <3> QED BY <1>1, <2>2, <2>3, <2>5, <3>1 DEF Tidy
  <2> QED BY <2>4, <2>5
<1>9. Row(r) = [c \in 1 .. Columns |-> IF c <= k THEN shown[c] ELSE Space]
  <2>1. \A c \in 1 .. Columns : r * Columns + c - 1 = (r * Columns + c) - 1
    BY Sizes
  <2> QED BY <1>8, <2>1 DEF Row
<1> QED BY <1>6, <1>7, <1>9 DEF LineIsShown, RowOf, shown, typed

\* For any screen, texts and length of the line: while main waits for a key,
\* the cursor's row is the prompt and the line and nothing more, whatever was
\* typed, erased, wrapped and scrolled before.
THEOREM LineShown == MonitorSpec => []LineIsShown
BY InitMonitor, NextMonitor, ShownIsLine, PTL DEF MonitorSpec

-----------------------------------------------------------------------------
(***************************************************************************)
(* The clock.  A text printed with puts from the start of a row is the row *)
(* above the cursor afterwards, whether the screen scrolled or not.        *)
(***************************************************************************)
LEMMA PutsAbove ==
    ASSUME NEW c \in AtStart, NEW text \in Seq(Printable), Len(text) < Columns
    PROVE  \A k \in 0 .. Columns - 1 :
              Puts(c, text).cells[((Puts(c, text).cursor \div Columns) - 1) * Columns + k]
                 = IF k < Len(text) THEN text[k + 1] ELSE Space
<1> DEFINE w == Write(c, text)
           p == Puts(c, text)
<1>1. PICK r \in 0 .. Rows - 1 :
        /\ w.cursor = r * Columns + Len(text)
        /\ \A k \in 0 .. Len(text) - 1 : w.cells[r * Columns + k] = text[k + 1]
  BY WriteInRow
<1>2. /\ w \in Tidy /\ w.cells \in [Cells -> CellValue] /\ w.cursor \in Cells
      /\ \A i \in Cells : i >= w.cursor => w.cells[i] = Space
  <2>1. w \in Tidy
    BY WriteInRow
  <2> HIDE DEF w
  <2> QED BY <2>1 DEF Tidy, ConsoleType
<1>3. p = PutChar(w, LineFeed)
  BY DEF Puts
<1> HIDE DEF w, p
<1>4. /\ Len(text) \in 0 .. Columns - 1 /\ r * Columns \in Nat /\ r \in Nat
      /\ Columns \in Nat \ {0} /\ Rows \in Nat /\ Rows > 1
  BY ConsoleAssumption, ClockAssumption
<1>5. w.cursor \div Columns = r
  BY <1>1, <1>4, PlaceInRow
<1>6. p = Advanced(w.cells, (r + 1) * Columns)
  BY <1>3, <1>5 DEF PutChar, Backspace, LineFeed, CarriageReturn
<1>7. ASSUME NEW k \in 0 .. Columns - 1
      PROVE  w.cells[r * Columns + k] = IF k < Len(text) THEN text[k + 1] ELSE Space
  <2>1. r * Columns + k \in Cells
    BY PlaceInRow
  <2>2. CASE k < Len(text)
    <3>1. k \in 0 .. Len(text) - 1
      BY <1>4, <2>2
    <3> QED BY <1>1, <2>2, <3>1
  <2>3. CASE ~ (k < Len(text))
    <3>1. r * Columns + k >= w.cursor
      BY <1>1, <1>4, <2>3
    <3> QED BY <1>2, <2>1, <2>3, <3>1
  <2> QED BY <2>2, <2>3
<1>8. CASE (r + 1) * Columns # End
  <2>1. r + 1 \in 0 .. Rows - 1 /\ 0 \in 0 .. Columns - 1
    BY <1>4, <1>8, RowFits
  <2>2. p = [cells |-> w.cells, cursor |-> (r + 1) * Columns]
    BY <1>6, <1>8 DEF Advanced
  <2>3. (r + 1) * Columns + 0 = (r + 1) * Columns
    BY <1>4
  <2>4. ((r + 1) * Columns) \div Columns = r + 1
    BY <2>1, <2>3, PlaceInRow
  <2>5. (p.cursor \div Columns) - 1 = r
    BY <1>4, <2>2, <2>4
  <2> QED BY <1>7, <2>2, <2>5 DEF p
<1>9. CASE (r + 1) * Columns = End
  <2>1. p = Scrolled(w.cells)
    BY <1>6, <1>9 DEF Advanced
  <2>2. r = Rows - 1 /\ End = r * Columns + Columns /\ End \in Nat
    <3>1. r # Rows - 1 => r + 1 \in 0 .. Rows - 1
      BY RowFits
    <3>2. r + 1 \in 0 .. Rows - 1 => (r + 1) * Columns \in Cells
      BY RowFits
    <3>3. End \in Nat /\ (r + 1) * Columns = r * Columns + Columns
      BY RowFits
    <3> QED BY <1>9, <3>1, <3>2, <3>3 DEF Cells
  <2>3. p.cursor = r * Columns
    BY <1>4, <2>1, <2>2 DEF Scrolled
  <2>4. r - 1 \in 0 .. Rows - 1 /\ (r - 1) + 1 = r /\ 0 \in 0 .. Columns - 1
    BY <1>4, <2>2
  <2>5. (r * Columns) \div Columns = r
    <3>1. r * Columns + 0 = r * Columns
      BY <1>4
    <3> QED BY <2>4, <3>1, PlaceInRow
  <2>6. r * Columns = (r - 1) * Columns + Columns /\ (r - 1) * Columns \in Nat
    <3>1. ((r - 1) + 1) * Columns = (r - 1) * Columns + Columns
      BY <2>4, RowFits
    <3>2. (r - 1) * Columns \in Cells
      BY <2>4, RowFits
    <3> QED BY <2>4, <3>1, <3>2 DEF Cells
  <2>7. ASSUME NEW k \in 0 .. Columns - 1
        PROVE  p.cells[(r - 1) * Columns + k] = w.cells[r * Columns + k]
    <3>1. (r - 1) * Columns + k \in Cells
      BY <2>4, PlaceInRow
    <3>2. ((r - 1) * Columns + k) + Columns = r * Columns + k
      BY <1>4, <2>6
    <3>3. r * Columns + k < End
      BY <1>4, <2>2
    <3> QED BY <2>1, <3>1, <3>2, <3>3 DEF Scrolled
  <2>8. (p.cursor \div Columns) - 1 = r - 1
    BY <2>3, <2>5
  <2> QED BY <1>7, <2>7, <2>8 DEF p
<1> QED BY <1>8, <1>9

\* The digits of a number, first to last: what is left after the ones behind
\* a digit gives the digit, and what is left in front of the first is zero.
DigitsLeave(left, value, N) ==
    /\ left[0] = value /\ left[N] = 0
    /\ N = 1 \/ left[N - 1] # 0
    /\ \A n \in 1 .. 10 : left[n] = left[n - 1] \div 10
    /\ \A j \in 1 .. N : Digits(value)[j] = 48 + (left[N - j] % 10)

LEMMA DigitsOf ==
    ASSUME NEW value \in Nat \ {0}, value <= IntMax
    PROVE  /\ Len(Digits(value)) \in 1 .. 10
           /\ \E left \in LeftType : DigitsLeave(left, value, Len(Digits(value)))
<1> DEFINE N == Len(Digits(value))
<1>1. PICK left \in LeftType, digits \in DigitsType :
        left[0] = value /\ DigitsFrom(left, digits) /\ Digits(value) = digits[10]
  BY DigitsSteps
<1>2. /\ digits[0] = << >>
      /\ \A n \in 1 .. 10 : left[n] = left[n - 1] \div 10
      /\ \A n \in 1 .. 10 : digits[n] = IF left[n - 1] = 0 THEN digits[n - 1]
                                        ELSE <<48 + (left[n - 1] % 10)>> \o digits[n - 1]
  BY <1>1 DEF DigitsFrom
<1>3. left[10] = 0
  <2>1. left[0] \in Nat /\ left[0] < 2147483650
    BY <1>1, SMT DEF IntMax, LeftType
  <2>2. left[1] \in Nat /\ left[1] < 214748365
    <3>1. left[1] = left[0] \div 10
      BY <1>2
    <3> QED BY <2>1, <3>1, SMT
  <2>3. left[2] \in Nat /\ left[2] < 21474837
    <3>1. left[2] = left[1] \div 10
      BY <1>2
    <3> QED BY <2>2, <3>1, SMT
  <2>4. left[3] \in Nat /\ left[3] < 2147484
    <3>1. left[3] = left[2] \div 10
      BY <1>2
    <3> QED BY <2>3, <3>1, SMT
  <2>5. left[4] \in Nat /\ left[4] < 214749
    <3>1. left[4] = left[3] \div 10
      BY <1>2
    <3> QED BY <2>4, <3>1, SMT
  <2>6. left[5] \in Nat /\ left[5] < 21475
    <3>1. left[5] = left[4] \div 10
      BY <1>2
    <3> QED BY <2>5, <3>1, SMT
  <2>7. left[6] \in Nat /\ left[6] < 2148
    <3>1. left[6] = left[5] \div 10
      BY <1>2
    <3> QED BY <2>6, <3>1, SMT
  <2>8. left[7] \in Nat /\ left[7] < 215
    <3>1. left[7] = left[6] \div 10
      BY <1>2
    <3> QED BY <2>7, <3>1, SMT
  <2>9. left[8] \in Nat /\ left[8] < 22
    <3>1. left[8] = left[7] \div 10
      BY <1>2
    <3> QED BY <2>8, <3>1, SMT
  <2>10. left[9] \in Nat /\ left[9] < 3
    <3>1. left[9] = left[8] \div 10
      BY <1>2
    <3> QED BY <2>9, <3>1, SMT
  <2>11. left[10] \in Nat /\ left[10] < 1
    <3>1. left[10] = left[9] \div 10
      BY <1>2
    <3> QED BY <2>10, <3>1, SMT
  <2> QED BY <2>11, SMT
<1>4. \A n \in 0 .. 10 : left[n] \in Nat /\ digits[n] \in Seq(Printable)
  BY DEF LeftType, DigitsType
<1> DEFINE G(n, d, m) == /\ Len(d) = m
                         /\ \A j \in 1 .. m : d[j] = 48 + (left[m - j] % 10)
                         /\ m > 0 => left[m - 1] # 0
                         /\ m < n => left[m] = 0 /\ left[n] = 0
           P == [n \in 0 .. 10 |-> {d \in Seq(Printable) : \E m \in 0 .. n : G(n, d, m)}]
<1> HIDE DEF G, P
<1>5. digits[0] \in P[0]
  <2>1. G(0, << >>, 0) /\ 0 \in 0 .. 0 /\ << >> \in Seq(Printable)
    BY DEF G
  <2> QED BY <1>2, <2>1 DEF P
<1>6. ASSUME NEW n \in 1 .. 10, digits[n - 1] \in P[n - 1] PROVE digits[n] \in P[n]
  <2> DEFINE d == digits[n - 1]
  <2>1. n \in 0 .. 10 /\ n - 1 \in 0 .. 10 /\ n - 1 \in Nat
    OBVIOUS
  <2>2. PICK m \in 0 .. n - 1 : G(n - 1, d, m)
    BY <1>6, <2>1 DEF P
  <2>3. d \in Seq(Printable) /\ digits[n] \in Seq(Printable)
    BY <1>4, <2>1
  <2> HIDE DEF d
  <2>4. CASE left[n - 1] = 0
    <3>1. digits[n] = d
      BY <1>2, <2>4 DEF d
    <3>2. left[n] = 0
      BY <1>2, <2>4
    <3>3. m \in 0 .. n /\ (m < n - 1 \/ m = n - 1)
      OBVIOUS
    <3>4. G(n, d, m)
      BY <2>2, <2>4, <3>2, <3>3 DEF G
    <3> QED BY <2>1, <2>3, <3>1, <3>3, <3>4 DEF P
  <2>5. CASE left[n - 1] # 0
    <3>1. m = n - 1
      BY <2>2, <2>5 DEF G
    <3>2. digits[n] = <<48 + (left[n - 1] % 10)>> \o d
      BY <1>2, <2>5 DEF d
    <3> DEFINE x == 48 + (left[n - 1] % 10)
    <3>3. <<x>> \in Seq({x} \cup Printable) /\ d \in Seq({x} \cup Printable) /\ Len(<<x>>) = 1
          /\ <<x>>[1] = x
      BY <2>3
    <3> HIDE DEF x
    <3>4. /\ Len(<<x>> \o d) = 1 + Len(d)
          /\ \A j \in 1 .. 1 + Len(d) :
                (<<x>> \o d)[j] = IF j <= 1 THEN <<x>>[j] ELSE d[j - 1]
      BY <3>3, ConcatProperties
    <3>5. Len(d) = n - 1 /\ Len(digits[n]) = n
      BY <2>2, <3>1, <3>2, <3>4 DEF x, G
    <3>6. ASSUME NEW j \in 1 .. n PROVE digits[n][j] = 48 + (left[n - j] % 10)
      <4>1. CASE j = 1
        BY <3>2, <3>3, <3>4, <3>5, <4>1 DEF x
      <4>2. CASE j # 1
        <5>1. j - 1 \in 1 .. m /\ m - (j - 1) = n - j /\ j \in 1 .. 1 + Len(d) /\ ~ (j <= 1)
          BY <3>1, <3>5, <4>2
        <5>2. d[j - 1] = 48 + (left[m - (j - 1)] % 10)
          BY <2>2, <5>1 DEF G
        <5> QED BY <3>2, <3>4, <5>1, <5>2 DEF x
      <4> QED BY <4>1, <4>2
    <3>7. G(n, digits[n], n)
      BY <2>5, <3>5, <3>6 DEF G
    <3>8. n \in 0 .. n
      BY <2>1
    <3> QED BY <2>1, <2>3, <3>7, <3>8 DEF P
  <2> QED BY <2>4, <2>5
<1>7. digits[10] \in P[10]
  <2>1. 10 \in Nat
    OBVIOUS
  <2> QED BY <1>5, <1>6, <2>1, RecursionKeeps
<1>8. PICK m \in 0 .. 10 : G(10, digits[10], m)
  BY <1>7 DEF P
<1>9. N = m /\ m # 0 /\ left[m] = 0
  BY <1>1, <1>3, <1>8 DEF G
<1>10. \A j \in 1 .. N : Digits(value)[j] = 48 + (left[N - j] % 10)
  BY <1>1, <1>8, <1>9 DEF G
<1>11. N \in 1 .. 10 /\ left[N - 1] # 0
  BY <1>8, <1>9 DEF G
<1>12. DigitsLeave(left, value, N)
  BY <1>1, <1>2, <1>9, <1>10, <1>11 DEF DigitsLeave
<1> QED BY <1>11, <1>12

\* So have zero and its one digit, but for the first digit.
LEMMA DigitsShow ==
    ASSUME NEW value \in Nat, value <= IntMax
    PROVE  /\ Len(Digits(value)) \in 1 .. 10
           /\ \E left \in LeftType : DigitsLeave(left, value, Len(Digits(value)))
<1> DEFINE N == Len(Digits(value))
<1>1. CASE value # 0
  <2>1. value \in Nat \ {0}
    BY <1>1
  <2> QED BY <2>1, DigitsOf
<1>2. CASE value = 0
  <2> DEFINE left == [n \in 0 .. 10 |-> 0]
  <2>1. Digits(value) = <<48>> /\ N = 1
    BY <1>2 DEF Digits
  <2>2. left \in LeftType
    BY DEF LeftType
  <2>3. \A n \in 1 .. 10 : left[n] = left[n - 1] \div 10
    OBVIOUS
  <2>4. left[0] = value /\ left[N] = 0
    BY <1>2, <2>1
  <2>5. ASSUME NEW j \in 1 .. N PROVE Digits(value)[j] = 48 + (left[N - j] % 10)
    <3>1. j = 1 /\ left[N - j] = 0
      BY <2>1
    <3> QED BY <2>1, <3>1
  <2> HIDE DEF left
  <2>6. DigitsLeave(left, value, N)
    BY <2>1, <2>3, <2>4, <2>5 DEF DigitsLeave
  <2> QED BY <2>1, <2>2, <2>6
<1> QED BY <1>1, <1>2

\* A row of digits from its start on, and nothing more, reads as the number.
LEMMA RowReads ==
    ASSUME NEW value \in Nat, value <= IntMax, Len(Digits(value)) < Columns, NEW row,
           \A c \in 1 .. Columns :
              row[c] = IF c <= Len(Digits(value)) THEN Digits(value)[c] ELSE Space
    PROVE  /\ NumberIn(row) = value
           /\ {c \in 1 .. Columns : row[c] # Space} = {1} \/ row[1] # 48
<1> DEFINE N == Len(Digits(value))
<1>1. N \in 1 .. 10 /\ \E left \in LeftType : DigitsLeave(left, value, N)
  BY DigitsShow
<1>2. PICK left \in LeftType : DigitsLeave(left, value, N)
  BY <1>1
<1>3. /\ left[0] = value /\ left[N] = 0
      /\ N = 1 \/ left[N - 1] # 0
      /\ \A n \in 1 .. 10 : left[n] = left[n - 1] \div 10
      /\ \A j \in 1 .. N : Digits(value)[j] = 48 + (left[N - j] % 10)
  BY <1>2 DEF DigitsLeave
<1>4. left[0] = value /\ left[N] = 0
  BY <1>2 DEF DigitsLeave
<1>5. N < Columns /\ \A c \in 1 .. Columns :
                          row[c] = IF c <= N THEN Digits(value)[c] ELSE Space
  OBVIOUS
<1> HIDE DEF N
<1>6. /\ Columns \in Nat /\ Space = 32 /\ N \in Nat /\ N <= 10 /\ N >= 1 /\ N < Columns
  BY <1>1, <1>5, ConsoleAssumption, ClockAssumption
<1>7. \A n \in 0 .. 10 : left[n] \in Nat
  BY DEF LeftType
<1>8. /\ Columns \in Nat /\ Space = 32 /\ N \in Nat /\ N <= 10 /\ N >= 1 /\ N < Columns
      /\ \A n \in 0 .. 10 : left[n] \in Nat
  BY <1>5, <1>6, <1>7
<1>9. ASSUME NEW j \in 1 .. N
      PROVE  /\ row[j] = 48 + (left[N - j] % 10) /\ left[N - j] \in Nat
             /\ row[j] # Space /\ row[j] \in Int
             /\ left[N - j] = 10 * left[N - (j - 1)] + (row[j] - 48)
  <2> DEFINE x == left[N - j]
  <2>1. /\ j \in 1 .. Columns /\ j <= N /\ N - j \in 0 .. 10
        /\ N - (j - 1) \in 1 .. 10 /\ (N - (j - 1)) - 1 = N - j
    BY <1>6
  <2>2. row[j] = 48 + (x % 10) /\ x \in Nat
    BY <1>3, <1>5, <1>8, <2>1
  <2>3. left[N - (j - 1)] = x \div 10
    BY <1>3, <2>1
  <2> HIDE DEF x
  <2>4. x % 10 \in 0 .. 9 /\ x = 10 * (x \div 10) + (x % 10)
    BY <2>2
  <2>5. \A d \in 0 .. 9 : 48 + d # 32 /\ 48 + d \in Int /\ (48 + d) - 48 = d
    OBVIOUS
  <2> QED BY <1>8, <2>2, <2>3, <2>4, <2>5 DEF x
<1>10. ASSUME NEW j \in 1 .. Columns, j \notin 1 .. N PROVE row[j] = Space /\ j > N
  <2>1. j \in Nat /\ ~ (j <= N)
    BY <1>6, <1>10
  <2> QED BY <1>5, <1>6, <2>1
<1> DEFINE Reads(f) == f = [n \in 0 .. Columns |->
                             IF n = 0 THEN 0
                             ELSE IF row[n] = Space THEN f[n - 1]
                             ELSE 10 * f[n - 1] + (row[n] - 48)]
           read == CHOOSE f : Reads(f)
           step == [n \in 1 .. Columns |-> [x \in Int |->
                      IF row[n] = Space THEN x ELSE 10 * x + (row[n] - 48)]]
<1>11. \E f : Reads(f)
  <2>1. \A n \in 1 .. Columns : row[n] = Space \/ row[n] \in Int
    BY <1>9, <1>10
  <2>2. step \in Steps(Columns, Int)
    BY <2>1 DEF Steps
  <2>3. 0 \in Int
    OBVIOUS
  <2> HIDE DEF step
  <2>4. Runs(Columns, Int, 0, step) # {}
    BY <1>8, <2>2, <2>3, RecursionExists
  <2>5. PICK f \in [0 .. Columns -> Int] :
          \A n \in 0 .. Columns : f[n] = IF n = 0 THEN 0 ELSE step[n][f[n - 1]]
    BY <2>4 DEF Runs
  <2> DEFINE F == [n \in 0 .. Columns |->
                    IF n = 0 THEN 0
                    ELSE IF row[n] = Space THEN f[n - 1]
                    ELSE 10 * f[n - 1] + (row[n] - 48)]
  <2>6. ASSUME NEW n \in 0 .. Columns PROVE f[n] = F[n]
    <3>1. CASE n = 0
      BY <2>5, <3>1
    <3>2. CASE n # 0
      <4>1. n \in 1 .. Columns /\ n - 1 \in 0 .. Columns
        BY <1>8, <3>2
      <4>2. f[n - 1] \in Int
        BY <4>1
      <4>3. step[n][f[n - 1]] = IF row[n] = Space THEN f[n - 1]
                                ELSE 10 * f[n - 1] + (row[n] - 48)
        BY <4>1, <4>2 DEF step
      <4> QED BY <2>5, <3>2, <4>3
    <3> QED BY <3>1, <3>2
  <2>7. f = [n \in 0 .. Columns |-> f[n]] /\ F = [n \in 0 .. Columns |-> F[n]]
    OBVIOUS
  <2>8. f = F
    <3> HIDE DEF F
    <3> QED BY <2>6, <2>7
  <2> QED BY <2>8
<1> HIDE DEF step
<1>12. Reads(read)
  <2> HIDE DEF Reads
  <2> QED BY <1>11
<1>13. NumberIn(row) = read[Columns]
  BY DEF NumberIn
<1> HIDE DEF read
<1>14. /\ read[0] = 0
      /\ \A n \in 1 .. Columns :
            read[n] = IF row[n] = Space THEN read[n - 1] ELSE 10 * read[n - 1] + (row[n] - 48)
  <2>1. 0 \in 0 .. Columns /\ \A n \in 1 .. Columns : n \in 0 .. Columns /\ n # 0
    BY <1>8
  <2> QED BY <1>12, <2>1, Zenon
<1> HIDE DEF Reads
<1> DEFINE ReadSoFar == [n \in 0 .. Columns |-> {left[IF n <= N THEN N - n ELSE 0]}]
<1>15. read[0] \in ReadSoFar[0]
  <2>1. 0 \in 0 .. Columns /\ 0 <= N /\ N - 0 = N
    BY <1>8
  <2> QED BY <1>4, <1>14, <2>1
<1>16. ASSUME NEW n \in 1 .. Columns, read[n - 1] \in ReadSoFar[n - 1]
       PROVE  read[n] \in ReadSoFar[n]
  <2>1. n \in 0 .. Columns /\ n - 1 \in 0 .. Columns
    BY <1>8
  <2>2. CASE n <= N
    <3>1. n \in 1 .. N /\ n - 1 <= N
      BY <1>8, <2>2
    <3>2. read[n - 1] = left[N - (n - 1)]
      BY <1>16, <2>1, <3>1
    <3>3. read[n] = left[N - n]
      <4>1. row[n] # Space /\ left[N - n] = 10 * left[N - (n - 1)] + (row[n] - 48)
        BY <1>9, <3>1
      <4>2. read[n] = 10 * read[n - 1] + (row[n] - 48)
        BY <1>14, <4>1
      <4> QED BY <3>2, <4>1, <4>2, Zenon
    <3> QED BY <2>1, <2>2, <3>3
  <2>3. CASE ~ (n <= N)
    <3>1. row[n] = Space /\ read[n] = read[n - 1]
      BY <1>10, <1>14, <2>3
    <3>2. n - 1 <= N => n - 1 = N
      BY <1>8, <2>3
    <3>3. read[n - 1] = left[0]
      <4>1. N - N = 0
        BY <1>8
      <4> QED BY <1>16, <2>1, <3>2, <4>1
    <3> QED BY <2>1, <2>3, <3>1, <3>3
  <2> QED BY <2>2, <2>3
<1>17. read[Columns] = value
  <2>1. ~ (Columns <= N) /\ Columns \in 0 .. Columns
    BY <1>8
  <2> HIDE DEF ReadSoFar
  <2>2. read[Columns] \in ReadSoFar[Columns]
    BY <1>8, <1>15, <1>16, RecursionKeeps
  <2> QED BY <1>4, <2>1, <2>2 DEF ReadSoFar
<1>18. CASE N = 1
  <2>1. \A c \in 1 .. Columns : row[c] # Space <=> c = 1
    <3>1. \A c \in 1 .. Columns : c \in 1 .. N <=> c = 1
      BY <1>6, <1>18
    <3> QED BY <1>9, <1>10, <3>1, Zenon
  <2>2. 1 \in 1 .. Columns
    BY <1>8
  <2> QED BY <1>13, <1>17, <2>1, <2>2
<1>19. CASE left[N - 1] # 0
  <2> DEFINE x == left[N - 1]
  <2>1. 1 \in 1 .. N /\ N - 1 \in 0 .. 10 /\ N \in 1 .. 10
    BY <1>6
  <2>2. x \in Nat /\ x # 0 /\ row[1] = 48 + (x % 10)
    BY <1>9, <1>19, <2>1
  <2>3. left[N] = x \div 10
    BY <1>3, <2>1
  <2> HIDE DEF x
  <2>4. x \div 10 = 0
    BY <1>4, <2>3
  <2>5. x % 10 \in 1 .. 9
    BY <2>2, <2>4
  <2>6. \A d \in 1 .. 9 : 48 + d # 48
    OBVIOUS
  <2>7. row[1] # 48
    BY <2>2, <2>5, <2>6
  <2> QED BY <1>13, <1>17, <2>7
<1> QED BY <1>3, <1>18, <1>19

\* The time command prints a heading, and the clock on a row of its own.
LEMMA TimeShows ==
    ASSUME MonitorIInv, NEW epoch \in Epochs, Time(epoch), epoch >= 0
    PROVE  ClockShown(epoch)'
<1> DEFINE text == Digits(epoch)
           c == Puts(console, Heading)
           row == Row(RowOf(console.cursor) - 1)
<1>1. c \in AtStart
  BY PutsStarts, MonitorAssumption DEF MonitorIInv
<1>2. /\ text \in Seq(Printable) /\ Len(text) < Columns /\ epoch \in Nat /\ epoch <= IntMax
      /\ Columns \in Nat /\ Len(text) \in Nat
  <2>1. text \in Seq(Printable)
    BY DigitsPrintable, MonitorAssumption
  <2>2. epoch \in Int /\ epoch <= IntMax /\ Len(text) < Columns
    BY MonitorAssumption, ClockAssumption
  <2>3. Len(text) \in Nat
    BY <2>1, LenProperties
  <2> HIDE DEF text
  <2> QED BY <2>1, <2>2, <2>3, ConsoleAssumption
<1>3. console' = Puts(c, text)
  BY DEF Time, Shows
<1> HIDE DEF text, c
<1>4. \A k \in 0 .. Columns - 1 :
        console'.cells[((console'.cursor \div Columns) - 1) * Columns + k]
          = IF k < Len(text) THEN text[k + 1] ELSE Space
  BY <1>1, <1>2, <1>3, PutsAbove
<1>5. ASSUME NEW j \in 1 .. Columns
      PROVE  row'[j] = IF j <= Len(text) THEN text[j] ELSE Space
  <2> DEFINE above == ((console'.cursor \div Columns) - 1) * Columns
  <2>1. j - 1 \in 0 .. Columns - 1 /\ (j - 1) + 1 = j /\ (j - 1 < Len(text) <=> j <= Len(text))
    BY <1>2
  <2>2. console'.cells[above + (j - 1)] = IF j <= Len(text) THEN text[j] ELSE Space
    BY <1>4, <2>1
  <2>3. above + (j - 1) = above + j - 1
    OBVIOUS
  <2>4. row'[j] = console'.cells[above + j - 1]
    BY DEF Row, RowOf
  <2> QED BY <2>2, <2>3, <2>4
<1> HIDE DEF row
<1>6. NumberIn(row') = epoch /\ ({j \in 1 .. Columns : row'[j] # Space} = {1} \/ row'[1] # 48)
  BY <1>2, <1>5, RowReads DEF text
<1> QED BY <1>6 DEF ClockShown, row

\* For any clock the int holds: the time command shows it in decimal, without
\* leading zeros, on the row above the prompt.
THEOREM TimeShown == MonitorSpec => TimeIsShown
<1>1. MonitorIInv /\ MonitorIInv' /\ [MonitorNext]_<<vars, guest>>
        => [ \A epoch \in Epochs :
               Time(epoch) /\ epoch >= 0 => ClockShown(epoch)' ]_<<vars, guest>>
  BY TimeShows
<1> QED BY <1>1, InitMonitor, NextMonitor, PTL DEF MonitorSpec, TimeIsShown

-----------------------------------------------------------------------------
(***************************************************************************)
(* The monitor above the keyboard.  It is one of the keyboard's users, so  *)
(* what holds of the ring holds of the ring it polls.                      *)
(***************************************************************************)
\* Whatever STAGE3 and the host beside it do to the controller are accesses of
\* its window, pushes and resets, each a step of the keyboard's own.
THEOREM MonitorUsesKeyboard == MonitorSpec => Spec /\ []IInv /\ IsFifo
<1>1. ASSUME ReadStatus(4, 4) \/ ReadData(8, 4) PROVE Next
  <2>1. /\ 4 \in Offsets /\ 8 \in Offsets /\ 4 \in Lengths
        /\ InWindow(4, 4) /\ InWindow(8, 4)
    BY DEF Offsets, Lengths, InWindow
  <2>2. KeyboardRead(4, 4) \/ KeyboardRead(8, 4)
    BY <1>1, <2>1 DEF KeyboardRead
  <2> QED BY <2>1, <2>2 DEF Next
<1>2. ASSUME MonitorNext PROVE Next \/ UNCHANGED vars
  <2>1. CASE Poll \/ GetKey
    BY <1>1, <2>1 DEF Poll, GetKey
  <2>2. CASE \E c \in Byte : PressKey(c)
    BY <2>2 DEF PressKey, Next
  <2>3. CASE ResetMachine
    BY <2>3 DEF ResetMachine, Next
  <2>4. CASE \E valid \in BOOLEAN : Start(valid)
    BY <2>4 DEF Start
  <2>5. CASE MonitorStep /\ ~ (Poll \/ GetKey)
    BY <2>5 DEF MonitorStep, PrintPrompt, Enter, Erase, Type, Ignore, Submit, Obey,
       Halt, TimeFaults, Time
  <2> QED BY <1>2, <2>1, <2>2, <2>3, <2>4, <2>5 DEF MonitorNext
<1>3. [MonitorNext]_<<vars, guest>> => [Next]_vars
  BY <1>2
<1>4. MonitorInit => Init
  BY DEF MonitorInit
<1>5. MonitorSpec => Spec
  BY <1>3, <1>4, PTL DEF MonitorSpec, Spec
<1>6. Spec => []IInv
  BY InitIInv, NextIInv, PTL DEF Spec
<1> QED BY <1>5, <1>6, ImplementsFifo, PTL

\* How many steps the monitor is from taking a key that is there.
Away ==
    CASE at = "data" -> 1 [] at = "poll" -> 2 [] at = "prompt" -> 3
      [] at = "obey" -> 4 [] at = "submit" -> 5 [] at = "edit" -> 6
      [] OTHER -> 0

TakesKeyOrNears ==
    \/ count' < count
    \/ count' = count /\ (Away' < Away \/ at' \in {"halted", "faulted"})

\* While a key waits, the monitor does not wait: each of its steps takes a key,
\* comes nearer to taking one, or ends the program; no key pressed in between
\* delays it, only a reset does.  KeysAreTaken is this and fairness.
THEOREM KeysGetNearer ==
    MonitorSpec =>
      /\ [](Away \in Nat)
      /\ [][ count # 0 =>
               /\ MonitorStep => TakesKeyOrNears
               /\ ~ MonitorStep =>
                     \/ UNCHANGED at /\ count' >= count
                     \/ "start" \in {at, at'} ]_<<vars, guest>>
<1> DEFINE Nearing == count # 0 =>
                        /\ MonitorStep => TakesKeyOrNears
                        /\ ~ MonitorStep =>
                              \/ UNCHANGED at /\ count' >= count
                              \/ "start" \in {at, at'}
<1>1. Away \in Nat
  BY DEF Away
<1>2. ASSUME IInv, count # 0, MonitorStep PROVE TakesKeyOrNears
  <2>1. count \in Nat
    BY <1>2, KeyboardAssumption DEF IInv, TypeOK
  <2>2. CASE PrintPrompt
    <3>1. at = "prompt" /\ at' = "poll" /\ count' = count
      BY <2>2 DEF PrintPrompt, Goto, vars
    <3> QED BY <3>1 DEF Away, TakesKeyOrNears
  <2>3. CASE Poll
    <3>1. reply'.value = 1 /\ count' = count
      BY <1>2, <2>3 DEF Poll, ReadStatus, Accepted
    <3>2. at = "poll" /\ at' = "data"
      BY <2>3, <3>1 DEF Poll, Goto
    <3> QED BY <3>1, <3>2 DEF Away, TakesKeyOrNears
  <2>4. CASE GetKey
    <3>1. count' = count - 1
      BY <1>2, <2>4 DEF GetKey, ReadData
    <3> QED BY <2>1, <3>1 DEF TakesKeyOrNears
  <2>5. CASE Enter \/ Erase \/ Type \/ Ignore
    <3>1. at = "edit" /\ at' \in {"poll", "submit"} /\ count' = count
      BY <2>5 DEF Enter, Erase, Type, Ignore, Continues, Goto, vars
    <3> QED BY <3>1 DEF Away, TakesKeyOrNears
  <2>6. CASE Submit
    <3>1. at = "submit" /\ at' = "obey" /\ count' = count
      BY <2>6 DEF Submit, Goto, vars
    <3> QED BY <3>1 DEF Away, TakesKeyOrNears
  <2>7. CASE Obey \/ \E epoch \in Epochs : Time(epoch)
    <3>1. at = "obey" /\ at' = "prompt" /\ count' = count
      BY <2>7 DEF Obey, Time, Goto, vars
    <3> QED BY <3>1 DEF Away, TakesKeyOrNears
  <2>8. CASE Halt \/ TimeFaults
    <3>1. at' \in {"halted", "faulted"} /\ count' = count
      BY <2>8 DEF Halt, Halts, TimeFaults, vars
    <3> QED BY <3>1 DEF TakesKeyOrNears
  <2> QED BY <1>2, <2>2, <2>3, <2>4, <2>5, <2>6, <2>7, <2>8 DEF MonitorStep
<1>3. ASSUME IInv, MonitorNext, ~ MonitorStep
      PROVE  \/ UNCHANGED at /\ count' >= count
             \/ "start" \in {at, at'}
  <2>1. CASE \E valid \in BOOLEAN : Start(valid)
    BY <2>1 DEF Start
  <2>2. CASE ResetMachine
    BY <2>2 DEF ResetMachine
  <2>3. CASE \E c \in Byte : PressKey(c)
    <3>1. count \in Nat
      BY <1>3, KeyboardAssumption DEF IInv, TypeOK
    <3>2. count' \in {count, count + 1} /\ at' = at
      BY <2>3 DEF PressKey, Push, guest
    <3> QED BY <3>1, <3>2
  <2> QED BY <1>3, <2>1, <2>2, <2>3 DEF MonitorNext
<1>4. IInv /\ [MonitorNext]_<<vars, guest>> => [Nearing]_<<vars, guest>>
  BY <1>2, <1>3
<1> QED BY <1>1, <1>4, MonitorUsesKeyboard, PTL DEF MonitorSpec
=============================================================================
