---------------------------- MODULE BufferProofs ----------------------------
(***************************************************************************)
(* Proofs about Buffer, for any initial capacity and shrink threshold, any *)
(* arguments of the constructors, and content and writes of any size: the  *)
(* indices stay in the allocated area, and the Buffer implements the queue *)
(* of ByteQueue.                                                           *)
(***************************************************************************)
EXTENDS Buffer, SequenceTheorems, TLAPS

-----------------------------------------------------------------------------
(* The inductive invariant.                                                *)

\* Every readable cell has been written.
ReadableIsWritten == \A i \in readIndex..(writeIndex - 1) : data[i] \in Byte

\* ensure_writable_size makes room for all that append is going to copy.
RoomIsForSource ==
  /\ required = 0 => source = <<>>
  /\ source # <<>> => Len(source) = required

IInv == IndicesInRange /\ ReadableIsWritten /\ RoomIsForSource

-----------------------------------------------------------------------------
(* What a step does to the content.                                        *)

\* The first n bytes are gone, and the others are where the indices say.
Drops(n) ==
  /\ ReadableSize' = ReadableSize - n
  /\ \A i \in 1..(ReadableSize - n) : data'[readIndex' + i - 1] = data[readIndex + n + i - 1]

\* The bytes there were are still in front.
Extends ==
  /\ ReadableSize' >= ReadableSize
  /\ \A i \in 1..ReadableSize : data'[readIndex' + i - 1] = data[readIndex + i - 1]

-----------------------------------------------------------------------------
(* Lemmas about the operators.                                             *)

\* A constructor allocates at least kInitialCapacity bytes.
LEMMA LargerProps ==
  ASSUME NEW a \in Nat, NEW b \in Nat
  PROVE  Larger(a, b) \in Nat /\ Larger(a, b) >= a /\ Larger(a, b) >= b
BY DEF Larger

LEMMA FreshProps ==
  ASSUME NEW n \in Nat
  PROVE  Fresh(n) \in [0..(n - 1) -> Cells]
BY DEF Fresh, Cells

\* A copy has the bytes that were to be copied.
KeptIsRight(n, from, to, len) ==
  /\ Kept(n, from, to, len) \in [0..(n - 1) -> Cells]
  /\ \A i \in to..(to + len - 1) : Kept(n, from, to, len)[i] = data[from + i - to]

LEMMA KeptProps ==
  ASSUME IndicesInRange,
         NEW n \in Nat, NEW from \in Nat, NEW to \in Nat, NEW len \in Nat,
         to + len <= n, from + len <= capacity
  PROVE  KeptIsRight(n, from, to, len)
<1>1. data \in [0..(capacity - 1) -> Cells] /\ capacity \in Nat
  BY DEF IndicesInRange, TypeOK
<1>2. ASSUME NEW i \in to..(to + len - 1) PROVE data[from + i - to] \in Cells
  BY <1>1, <1>2
<1>3. Kept(n, from, to, len) \in [0..(n - 1) -> Cells]
  BY <1>2, Zenon DEF Kept, Cells
<1>4. ASSUME NEW i \in to..(to + len - 1)
      PROVE  Kept(n, from, to, len)[i] = data[from + i - to]
  BY <1>4 DEF Kept
<1> QED BY <1>3, <1>4 DEF KeptIsRight

\* What a shrink aims at has room for what is used.
LEMMA TargetProps ==
  ASSUME NEW used \in Nat
  PROVE  Target(used) \in Nat /\ Target(used) >= used
<1>1. /\ Larger(used, InitialCapacity) \in Nat
      /\ Larger(used, InitialCapacity) >= used
  BY BufferAssumption, LargerProps
<1>2. ASSUME NEW b \in Nat PROVE b + (b \div 2) \in Nat /\ b + (b \div 2) >= b
  OBVIOUS
<1> QED BY <1>1, <1>2 DEF Target

\* The bytes written are sequences of the length asked for.
LEMMA WritesProps ==
  ASSUME NEW n \in Nat, NEW s \in Writes(n)
  PROVE  s \in Seq(Byte) /\ Len(s) = n
BY DEF Writes

-----------------------------------------------------------------------------
(* The invariant is inductive, and every step keeps the content, drops     *)
(* some of its first bytes, or extends it.                                 *)

Shape == Extends \/ \E n \in 0..ReadableSize : Drops(n)

\* What the local variables of append and ensure_writable_size may become.
CallIsSound ==
  /\ newCapacity' \in Nat
  /\ required' \in Nat
  /\ source' \in Seq(Byte)
  /\ RoomIsForSource'

\* The constructor establishes the invariant.
LEMMA InitIInv == Init => IInv
<1> SUFFICES ASSUME Init PROVE IInv
  OBVIOUS
<1>1. PICK c \in Capacities :
        /\ capacity = Larger(c, InitialCapacity)
        /\ data = Fresh(capacity)
        /\ readIndex = 0 /\ writeIndex = 0 /\ newCapacity = 0 /\ required = 0
        /\ source = <<>>
  BY DEF Init
<1>2. capacity \in Nat
  BY <1>1, BufferAssumption, LargerProps
<1>3. data \in [0..(capacity - 1) -> Cells]
  BY <1>1, <1>2, FreshProps
<1> QED BY <1>1, <1>2, <1>3, EmptySeq
        DEF IInv, IndicesInRange, TypeOK, ReadableIsWritten, RoomIsForSource

\* Copying s behind the content.
LEMMA WrittenStep ==
  ASSUME IInv, NEW s \in Seq(Byte), Len(s) <= WritableSize, Written(s), CallIsSound
  PROVE  IInv' /\ Extends
<1>1. /\ Len(s) \in Nat /\ \A i \in 1..Len(s) : s[i] \in Byte
      /\ capacity \in Nat /\ readIndex \in Nat /\ writeIndex \in Nat
      /\ data \in [0..(capacity - 1) -> Cells]
      /\ readIndex <= writeIndex /\ writeIndex + Len(s) <= capacity
  BY LenProperties, ElementOfSeq DEF IInv, IndicesInRange, TypeOK, WritableSize
<1>2. /\ writeIndex' = writeIndex + Len(s) /\ readIndex' = readIndex
      /\ capacity' = capacity
      /\ data' = [i \in 0..(capacity - 1) |->
                   IF i \in writeIndex..(writeIndex + Len(s) - 1)
                   THEN s[i - writeIndex + 1] ELSE data[i]]
  BY DEF Written
<1>3. ASSUME NEW i \in writeIndex..(writeIndex + Len(s) - 1)
      PROVE  data'[i] = s[i - writeIndex + 1] /\ s[i - writeIndex + 1] \in Byte
  <2>1. i \in 0..(capacity - 1) /\ i - writeIndex + 1 \in 1..Len(s)
    BY <1>1
  <2> QED BY <1>1, <1>2, <2>1
<1>4. ASSUME NEW i \in 0..(capacity - 1), i \notin writeIndex..(writeIndex + Len(s) - 1)
      PROVE  data'[i] = data[i]
  BY <1>2, <1>4
<1>5. data' \in [0..(capacity' - 1) -> Cells]
  <2>1. ASSUME NEW i \in 0..(capacity - 1)
        PROVE  (IF i \in writeIndex..(writeIndex + Len(s) - 1)
                THEN s[i - writeIndex + 1] ELSE data[i]) \in Cells
    <3>1. CASE i \in writeIndex..(writeIndex + Len(s) - 1)
      BY <3>1, <1>3 DEF Cells
    <3>2. CASE i \notin writeIndex..(writeIndex + Len(s) - 1)
      BY <3>2, <1>1
    <3> QED BY <3>1, <3>2
  <2> QED BY <1>2, <2>1
<1>6. IndicesInRange'
  BY <1>1, <1>2, <1>5 DEF IndicesInRange, TypeOK, CallIsSound
<1>7. ReadableIsWritten'
  <2>0. readIndex' = readIndex /\ writeIndex' = writeIndex + Len(s)
    BY <1>2
  <2> SUFFICES ASSUME NEW i \in readIndex..(writeIndex + Len(s) - 1)
               PROVE  data'[i] \in Byte
    BY <1>1, <2>0 DEF ReadableIsWritten
  <2>1. CASE i \in writeIndex..(writeIndex + Len(s) - 1)
    BY <2>1, <1>3
  <2>2. CASE i \notin writeIndex..(writeIndex + Len(s) - 1)
    <3>1. i \in 0..(capacity - 1) /\ i \in readIndex..(writeIndex - 1)
      BY <2>2, <1>1
    <3> QED BY <3>1, <2>2, <1>4 DEF IInv, ReadableIsWritten
  <2> QED BY <2>1, <2>2
<1>8. Extends
  <2>1. ReadableSize' = ReadableSize + Len(s) /\ ReadableSize \in Nat
    BY <1>1, <1>2 DEF ReadableSize
  <2>2. ASSUME NEW i \in 1..ReadableSize
        PROVE  data'[readIndex' + i - 1] = data[readIndex + i - 1]
    <3>1. /\ readIndex + i - 1 \in 0..(capacity - 1)
          /\ readIndex + i - 1 \notin writeIndex..(writeIndex + Len(s) - 1)
      BY <1>1 DEF ReadableSize
    <3> QED BY <3>1, <1>2, <1>4
  <2>3. ReadableSize' >= ReadableSize
    BY <1>1, <2>1
  <2> QED BY <2>2, <2>3 DEF Extends
<1> QED BY <1>6, <1>7, <1>8 DEF IInv, CallIsSound

\* Moving what is left of the content, to another place or to another area.
LEMMA KeptStep ==
  ASSUME IInv, CallIsSound,
         NEW n \in Nat, NEW d \in 0..ReadableSize, NEW to \in Nat,
         to + (ReadableSize - d) <= n,
         data' = Kept(n, readIndex + d, to, ReadableSize - d),
         capacity' = n, readIndex' = to, writeIndex' = to + (ReadableSize - d)
  PROVE  IInv' /\ Drops(d)
<1> PICK len : len = ReadableSize - d
  OBVIOUS
<1>1. /\ capacity \in Nat /\ readIndex \in Nat /\ writeIndex \in Nat /\ d \in Nat
      /\ readIndex <= writeIndex /\ writeIndex <= capacity
      /\ ReadableSize = writeIndex - readIndex /\ ReadableSize \in Nat
  BY DEF IInv, IndicesInRange, TypeOK, ReadableSize
<1>2. len \in Nat /\ readIndex + d \in Nat /\ readIndex + d + len = writeIndex
  BY <1>1
<1>3. /\ data' \in [0..(n - 1) -> Cells]
      /\ \A i \in to..(to + len - 1) : data'[i] = data[readIndex + d + i - to]
  <2> PICK from : from = readIndex + d
    OBVIOUS
  <2>1. data' = Kept(n, from, to, len)
    OBVIOUS
  <2>2. from \in Nat /\ to + len <= n /\ from + len <= capacity /\ IndicesInRange
    BY <1>1, <1>2 DEF IInv
  <2>3. KeptIsRight(n, from, to, len)
    BY <1>2, <2>2, KeptProps
  <2> QED BY <2>1, <2>3 DEF KeptIsRight
<1>4. IndicesInRange'
  BY <1>1, <1>2, <1>3 DEF IndicesInRange, TypeOK, CallIsSound
<1>5. ReadableIsWritten'
  <2> SUFFICES ASSUME NEW i \in to..(to + len - 1) PROVE data'[i] \in Byte
    BY DEF ReadableIsWritten
  <2>1. readIndex + d + i - to \in readIndex..(writeIndex - 1)
    BY <1>1, <1>2
  <2> QED BY <2>1, <1>3, Zenon DEF IInv, ReadableIsWritten
<1>6. Drops(d)
  <2>1. ReadableSize' = ReadableSize - d
    BY <1>1, <1>2 DEF ReadableSize
  <2>2. ASSUME NEW i \in 1..len
        PROVE  data'[readIndex' + i - 1] = data[readIndex + d + i - 1]
    <3>1. /\ to + i - 1 \in to..(to + len - 1)
          /\ readIndex + d + (to + i - 1) - to = readIndex + d + i - 1
      BY <1>1, <1>2
    <3> QED BY <3>1, <1>3
  <2> QED BY <2>1, <2>2 DEF Drops
<1> QED BY <1>4, <1>5, <1>6 DEF IInv, CallIsSound

\* Giving up the content.
LEMMA FreshStep ==
  ASSUME IInv, CallIsSound, NEW n \in Nat, data' = Fresh(n), capacity' = n,
         readIndex' = 0, writeIndex' = 0
  PROVE  IInv' /\ Drops(ReadableSize)
<1>1. data' \in [0..(n - 1) -> Cells]
  BY FreshProps
<1>2. ReadableSize \in Nat /\ ReadableSize' = 0
  BY DEF IInv, IndicesInRange, TypeOK, ReadableSize
<1>3. IndicesInRange' /\ ReadableIsWritten'
  BY <1>1 DEF IndicesInRange, TypeOK, ReadableIsWritten, CallIsSound
<1>4. Drops(ReadableSize)
  BY <1>2 DEF Drops
<1> QED BY <1>3, <1>4 DEF IInv, CallIsSound

\* A step that changes neither memory nor indices.
LEMMA StayStep ==
  ASSUME IInv, CallIsSound, UNCHANGED <<data, readIndex, writeIndex, capacity>>
  PROVE  IInv' /\ Drops(0)
<1>1. ReadableSize \in Nat /\ readIndex \in Nat
  BY DEF IInv, IndicesInRange, TypeOK, ReadableSize
<1>2. IndicesInRange' /\ ReadableIsWritten'
  BY DEF IInv, IndicesInRange, TypeOK, ReadableIsWritten, CallIsSound
<1>3. Drops(0)
  BY <1>1 DEF Drops, ReadableSize
<1> QED BY <1>2, <1>3 DEF IInv, CallIsSound

\* Between two calls the local variables are not in use.
LEMMA IdleIsSound ==
  IInv /\ UNCHANGED <<newCapacity, required, source>> => CallIsSound
BY DEF IInv, IndicesInRange, TypeOK, RoomIsForSource, CallIsSound

\* The facts about the indices that arithmetic needs.
LEMMA Numbers ==
  IInv => /\ capacity \in Nat /\ readIndex \in Nat /\ writeIndex \in Nat
          /\ newCapacity \in Nat /\ required \in Nat /\ source \in Seq(Byte)
          /\ readIndex <= writeIndex /\ writeIndex <= capacity
          /\ ReadableSize = writeIndex - readIndex /\ ReadableSize \in Nat
          /\ WritableSize = capacity - writeIndex /\ WritableSize \in Nat
BY DEF IInv, IndicesInRange, TypeOK, ReadableSize, WritableSize

\* recv into the buffer.
LEMMA ReceiveStep ==
  ASSUME IInv, NEW n \in Nat, NEW s \in Writes(n), Receive(s)
  PROVE  IInv' /\ Shape
<1>1. s \in Seq(Byte)
  BY WritesProps
<1>2. Len(s) <= WritableSize /\ Written(s) /\ UNCHANGED <<newCapacity, required, source>>
  BY Numbers DEF Receive
<1>3. IInv' /\ Extends
  BY <1>1, <1>2, IdleIsSound, WrittenStep
<1> QED BY <1>3 DEF Shape

\* ensure_writable_size, up to its loop.
LEMMA EnsureStep ==
  ASSUME IInv, NEW len \in Nat \ {0}, NEW s \in Seq(Byte),
         s = <<>> \/ Len(s) = len, EnsureWritableSize(len, s)
  PROVE  IInv' /\ Shape
<1>1. CallIsSound
  BY Numbers DEF EnsureWritableSize, CallIsSound, RoomIsForSource
<1>2. CASE WritableSize < len /\ readIndex + WritableSize >= len
  <2>1. /\ data' = Kept(capacity, readIndex, 0, ReadableSize)
        /\ readIndex' = 0 /\ writeIndex' = ReadableSize /\ capacity' = capacity
    BY <1>2 DEF EnsureWritableSize
  <2> PICK n : n = capacity
    OBVIOUS
  <2>2. /\ readIndex + 0 = readIndex /\ ReadableSize - 0 = ReadableSize
        /\ 0 + (ReadableSize - 0) = ReadableSize /\ ReadableSize <= n
        /\ n \in Nat /\ 0 \in Nat /\ 0 \in 0..ReadableSize
    BY Numbers
  <2>3. IInv' /\ Drops(0)
    BY <1>1, <2>1, <2>2, KeptStep
  <2> QED BY <2>2, <2>3 DEF Shape
<1>3. CASE ~(WritableSize < len /\ readIndex + WritableSize >= len)
  <2>1. UNCHANGED <<data, readIndex, writeIndex, capacity>>
    BY <1>3 DEF EnsureWritableSize
  <2>2. IInv' /\ Drops(0)
    BY <1>1, <2>1, StayStep
  <2>3. 0 \in 0..ReadableSize
    BY Numbers
  <2> QED BY <2>2, <2>3 DEF Shape
<1> QED BY <1>2, <1>3

\* The loop of ensure_writable_size, and the rest of append.
LEMMA GrowStep == ASSUME IInv, Grow PROVE IInv' /\ Shape
<1>0. 0 \in 0..ReadableSize
  BY Numbers
<1>1. CASE Double
  <2>1. /\ UNCHANGED <<data, readIndex, writeIndex, capacity, required, source>>
        /\ newCapacity' \in Nat
    BY <1>1, Numbers, SMTT(30) DEF Double
  <2>2. CallIsSound
    BY <2>1, Numbers DEF CallIsSound, IInv, RoomIsForSource
  <2>3. IInv' /\ Drops(0)
    BY <2>1, <2>2, StayStep
  <2> QED BY <1>0, <2>3 DEF Shape
<1>2. CASE Reallocate
  <2>1. /\ data' = Kept(newCapacity, readIndex, 0, ReadableSize)
        /\ readIndex' = 0 /\ writeIndex' = ReadableSize /\ capacity' = newCapacity
        /\ newCapacity >= ReadableSize + required
        /\ UNCHANGED <<newCapacity, required, source>>
    BY <1>2 DEF Reallocate
  <2> PICK n : n = newCapacity
    OBVIOUS
  <2>2. /\ readIndex + 0 = readIndex /\ ReadableSize - 0 = ReadableSize
        /\ 0 + (ReadableSize - 0) = ReadableSize /\ ReadableSize <= n
        /\ n \in Nat /\ 0 \in Nat
    BY <2>1, Numbers, SMTT(30)
  <2>3. CallIsSound
    BY <2>1, IdleIsSound
  <2>4. IInv' /\ Drops(0)
    BY <1>0, <2>1, <2>2, <2>3, KeptStep
  <2> QED BY <1>0, <2>4 DEF Shape
<1>3. CASE Finish
  <2>1. /\ required \in 1..WritableSize /\ Written(source)
        /\ newCapacity' = 0 /\ required' = 0 /\ source' = <<>>
    BY <1>3 DEF Finish
  <2>2. CallIsSound
    BY <2>1, EmptySeq DEF CallIsSound, RoomIsForSource
  <2> PICK s : s = source
    OBVIOUS
  <2>3. s \in Seq(Byte) /\ Len(s) <= WritableSize
    BY <2>1, Numbers, EmptySeq DEF IInv, RoomIsForSource
  <2>4. IInv' /\ Extends
    BY <2>1, <2>2, <2>3, WrittenStep
  <2> QED BY <2>4 DEF Shape
<1> QED BY <1>1, <1>2, <1>3 DEF Grow

\* The cases of shrink_if_needed_.
LEMMA ShrinkCases ==
  ASSUME NEW r, ShrinkIfNeeded(r)
  PROVE  \/ /\ capacity' = IF capacity > InitialCapacity * 4
                           THEN InitialCapacity ELSE capacity
            /\ data' = Fresh(capacity') /\ readIndex' = 0 /\ writeIndex' = 0
         \/ /\ data' = Kept(capacity, r, r, writeIndex - r)
            /\ readIndex' = r /\ UNCHANGED <<writeIndex, capacity>>
         \/ /\ data' = Kept(Target(writeIndex - r), r, 0, writeIndex - r)
            /\ capacity' = Target(writeIndex - r)
            /\ readIndex' = 0 /\ writeIndex' = writeIndex - r
BY Zenon DEF ShrinkIfNeeded

\* been_read: whether the content stays in its place, moves to the front of a
\* smaller area, or is used up, it loses the bytes read.
LEMMA BeenReadStep ==
  ASSUME IInv, NEW len \in 1..ReadableSize, BeenRead(len)
  PROVE  IInv' /\ Shape
<1> PICK r : r = readIndex + len
  OBVIOUS
<1> PICK used : used = writeIndex - r
  OBVIOUS
<1>1. CallIsSound
  BY IdleIsSound DEF BeenRead
<1>2. /\ len \in 0..ReadableSize /\ r \in Nat /\ used \in Nat /\ capacity \in Nat
      /\ used = ReadableSize - len /\ r + used = writeIndex /\ 0 + used = used
      /\ ReadableSize \in Nat /\ ReadableSize \in 0..ReadableSize
      /\ r + used <= capacity /\ 0 \in Nat
  <2>1. /\ readIndex \in Nat /\ writeIndex \in Nat /\ capacity \in Nat
        /\ readIndex <= writeIndex /\ writeIndex <= capacity
        /\ ReadableSize = writeIndex - readIndex
    BY Numbers
  <2>2. len \in 1..(writeIndex - readIndex)
    BY <2>1
  <2> QED BY <2>1, <2>2
<1>3. \/ ShrinkIfNeeded(r)
      \/ /\ data' = Kept(capacity, r, r, used)
         /\ readIndex' = r /\ UNCHANGED <<writeIndex, capacity>>
  BY DEF BeenRead
<1>4. CASE /\ capacity' = IF capacity > InitialCapacity * 4
                          THEN InitialCapacity ELSE capacity
           /\ data' = Fresh(capacity') /\ readIndex' = 0 /\ writeIndex' = 0
  <2>1. capacity' \in Nat
    BY <1>2, <1>4, BufferAssumption
  <2> PICK n : n = capacity'
    OBVIOUS
  <2>2. IInv' /\ Drops(ReadableSize)
    BY <1>1, <1>4, <2>1, FreshStep
  <2> QED BY <1>2, <2>2 DEF Shape
<1>5. CASE /\ data' = Kept(capacity, r, r, used)
           /\ readIndex' = r /\ UNCHANGED <<writeIndex, capacity>>
  <2> PICK n : n = capacity
    OBVIOUS
  <2>1. IInv' /\ Drops(len)
    BY <1>1, <1>2, <1>5, KeptStep, Zenon
  <2> QED BY <1>2, <2>1 DEF Shape
<1>6. CASE /\ data' = Kept(Target(used), r, 0, used)
           /\ capacity' = Target(used)
           /\ readIndex' = 0 /\ writeIndex' = used
  <2> PICK n : n = Target(used)
    OBVIOUS
  <2>1. n \in Nat /\ used <= n
    BY <1>2, TargetProps
  <2>2. IInv' /\ Drops(len)
    BY <1>1, <1>2, <1>6, <2>1, KeptStep
  <2> QED BY <1>2, <2>2 DEF Shape
<1> QED BY <1>3, <1>4, <1>5, <1>6, ShrinkCases

\* clear, a move, and what is assigned to an empty Buffer.
LEMMA AssignStep ==
  ASSUME IInv, \/ Clear \/ MovedFrom \/ \E c \in Capacities : AssignEmpty(c)
  PROVE  IInv' /\ Shape
<1>1. PICK n \in Nat : data' = Fresh(n) /\ capacity' = n /\ readIndex' = 0 /\ writeIndex' = 0
  <2>1. CASE Clear
    BY <2>1, Numbers DEF Clear
  <2>2. CASE MovedFrom
    BY <2>2 DEF MovedFrom
  <2>3. ASSUME NEW c \in Capacities, AssignEmpty(c)
        PROVE  \E n \in Nat : data' = Fresh(n) /\ capacity' = n /\ readIndex' = 0 /\ writeIndex' = 0
    <3>1. Larger(c, InitialCapacity) \in Nat
      BY BufferAssumption, LargerProps, Zenon
    <3> QED BY <2>3, <3>1 DEF AssignEmpty
  <2> QED BY <2>1, <2>2, <2>3
<1>2. CallIsSound
  BY IdleIsSound DEF Clear, MovedFrom, AssignEmpty
<1>3. IInv' /\ Drops(ReadableSize)
  BY <1>1, <1>2, FreshStep
<1>4. ReadableSize \in 0..ReadableSize
  BY Numbers
<1> QED BY <1>3, <1>4 DEF Shape

\* A Buffer made from n bytes is assigned to an empty one.
LEMMA AssignDataStep ==
  ASSUME IInv, NEW n \in Nat, NEW s \in Writes(n), AssignData(s)
  PROVE  IInv' /\ Shape
<1>1. /\ s \in Seq(Byte) /\ Len(s) \in Nat /\ \A i \in 1..Len(s) : s[i] \in Byte
  BY WritesProps, LenProperties, ElementOfSeq
<1>2. /\ ReadableSize = 0 /\ capacity' = Len(s) /\ readIndex' = 0 /\ writeIndex' = Len(s)
      /\ data' = [i \in 0..(Len(s) - 1) |-> s[i + 1]]
  BY DEF AssignData
<1>3. CallIsSound
  BY IdleIsSound DEF AssignData
<1>4. ASSUME NEW i \in 0..(Len(s) - 1)
      PROVE  s[i + 1] \in Byte /\ s[i + 1] \in Cells /\ data'[i] = s[i + 1]
  <2>1. i + 1 \in 1..Len(s)
    BY <1>1
  <2> QED BY <1>1, <1>2, <2>1 DEF Cells
<1>5. data' \in [0..(Len(s) - 1) -> Cells]
  BY <1>2, <1>4
<1>6. IndicesInRange'
  BY <1>1, <1>2, <1>3, <1>5 DEF IndicesInRange, TypeOK, CallIsSound
<1>7. ReadableIsWritten'
  <2>1. readIndex' = 0 /\ writeIndex' = Len(s)
    BY <1>2
  <2> QED BY <1>1, <1>4, <2>1 DEF ReadableIsWritten
<1>8. Extends
  BY <1>1, <1>2 DEF Extends, ReadableSize
<1> QED BY <1>3, <1>6, <1>7, <1>8 DEF IInv, CallIsSound, Shape

\* Every call keeps the invariant, and is a write, a read, or invisible.
LEMMA StepIInv == IInv /\ Next => IInv' /\ Shape
<1> SUFFICES ASSUME IInv, Next
             PROVE  IInv' /\ Shape
  OBVIOUS
<1>0. 1..MaxWrite \subseteq Nat /\ 0..MaxWrite \subseteq Nat
  BY BufferAssumption
<1>1. CASE \E n \in 1..MaxWrite : \E s \in Writes(n) : Receive(s)
  BY <1>0, <1>1, ReceiveStep
<1>2. CASE \E n \in 1..MaxWrite : \E s \in Writes(n) : EnsureWritableSize(n, s)
  <2>1. PICK n \in 1..MaxWrite : \E s \in Writes(n) : EnsureWritableSize(n, s)
    BY <1>2
  <2>2. PICK s \in Writes(n) : EnsureWritableSize(n, s)
    BY <2>1
  <2>3. n \in Nat /\ n # 0
    BY BufferAssumption
  <2>4. s \in Seq(Byte) /\ Len(s) = n
    BY <2>3, WritesProps
  <2> QED BY <2>2, <2>3, <2>4, EnsureStep
<1>3. CASE \E n \in 1..MaxWrite : EnsureWritableSize(n, <<>>)
  <2>1. PICK n \in 1..MaxWrite : EnsureWritableSize(n, <<>>)
    BY <1>3
  <2>2. n \in Nat /\ n # 0 /\ <<>> \in Seq(Byte)
    BY BufferAssumption
  <2> QED BY <2>1, <2>2, EnsureStep, Zenon
<1>4. CASE Grow
  BY <1>4, GrowStep
<1>5. CASE \E len \in 1..ReadableSize : BeenRead(len)
  BY <1>5, BeenReadStep
<1>6. CASE Clear \/ MovedFrom \/ \E c \in Capacities : AssignEmpty(c)
  BY <1>6, AssignStep
<1>7. CASE \E n \in 0..MaxWrite : \E s \in Writes(n) : AssignData(s)
  BY <1>0, <1>7, AssignDataStep
<1> QED BY <1>1, <1>2, <1>3, <1>4, <1>5, <1>6, <1>7 DEF Next

LEMMA Invariance == Spec => []IInv
<1>1. IInv /\ UNCHANGED vars => IInv'
  <2> SUFFICES ASSUME IInv, UNCHANGED vars
               PROVE  IInv'
    OBVIOUS
  <2>1. UNCHANGED <<data, readIndex, writeIndex, capacity, newCapacity, required, source>>
    BY DEF vars
  <2> QED BY <2>1 DEF IInv, IndicesInRange, TypeOK, ReadableIsWritten, RoomIsForSource
<1> QED BY <1>1, InitIInv, StepIInv, PTL DEF Spec

-----------------------------------------------------------------------------
(* The theorems.                                                           *)

\* read_index_ <= write_index_ <= capacity_, always: no size the Buffer
\* reports has wrapped around, whatever was read, written, moved or shrunk.
THEOREM IndicesKept == Spec => []IndicesInRange
<1>1. IInv => IndicesInRange
  BY DEF IInv
<1> QED BY <1>1, Invariance, PTL

\* The content as a sequence.
ContentIsSpan ==
  /\ Content \in Seq(Byte)
  /\ Len(Content) = ReadableSize
  /\ ReadableSize \in Nat
  /\ \A i \in 1..ReadableSize : Content[i] = data[readIndex + i - 1]

LEMMA ContentProps == IInv => ContentIsSpan
<1> SUFFICES ASSUME IInv
             PROVE  ContentIsSpan
  OBVIOUS
<1>1. /\ readIndex \in Nat /\ writeIndex \in Nat /\ ReadableSize \in Nat
      /\ ReadableSize = writeIndex - readIndex
  BY Numbers
<1>2. ASSUME NEW i \in 1..ReadableSize
      PROVE  data[readIndex + i - 1] \in Byte
  <2>1. readIndex + i - 1 \in readIndex..(writeIndex - 1)
    BY <1>1
  <2> QED BY <2>1 DEF IInv, ReadableIsWritten
<1>3. Content \in [1..ReadableSize -> Byte]
  BY <1>2 DEF Content
<1> QED BY <1>1, <1>3 DEF ContentIsSpan, Content

\* A sequence that holds what c has behind its first n elements.
LEMMA TailOf ==
  ASSUME NEW c \in Seq(Byte), NEW d \in Seq(Byte), NEW n \in 0..Len(c),
         Len(d) = Len(c) - n, \A i \in 1..Len(d) : d[i] = c[n + i]
  PROVE  d = SubSeq(c, n + 1, Len(c))
<1>1. Len(c) \in Nat /\ n \in Nat /\ n + 1 \in Int
  BY LenProperties
<1>2. \A i \in (n + 1)..Len(c) : c[i] \in Byte
  BY <1>1, ElementOfSeq
<1>3. /\ SubSeq(c, n + 1, Len(c)) \in Seq(Byte)
      /\ Len(SubSeq(c, n + 1, Len(c))) = Len(d)
      /\ \A i \in 1..Len(d) : SubSeq(c, n + 1, Len(c))[i] = c[n + i]
  BY <1>1, <1>2, SMT
<1> QED BY <1>3, SeqEqual

\* A longer sequence in which c comes first.
LEMMA PrefixOf ==
  ASSUME NEW c \in Seq(Byte), NEW d \in Seq(Byte),
         Len(d) >= Len(c), \A i \in 1..Len(c) : d[i] = c[i]
  PROVE  SubSeq(d, 1, Len(c)) = c
<1>1. Len(c) \in Nat /\ Len(d) \in Nat
  BY LenProperties
<1>2. /\ SubSeq(d, 1, Len(c)) \in Seq(Byte)
      /\ Len(SubSeq(d, 1, Len(c))) = Len(c)
      /\ \A i \in 1..Len(c) : SubSeq(d, 1, Len(c))[i] = d[i]
  BY <1>1, SMT
<1> QED BY <1>2, SeqEqual

\* A read takes bytes off the front of the queue, a write puts bytes behind
\* it, and what moves, grows or shrinks the area leaves it alone.
LEMMA ShapeIsQueueStep ==
  ASSUME IInv, IInv', Shape
  PROVE  [Queue!Next]_Content
<1> PICK c : c = Content
  OBVIOUS
<1> PICK d : d = Content'
  OBVIOUS
<1> PICK m : m = ReadableSize
  OBVIOUS
<1>1. /\ c \in Seq(Byte) /\ Len(c) = m /\ m \in Nat
      /\ \A i \in 1..m : c[i] = data[readIndex + i - 1]
  BY ContentProps DEF ContentIsSpan
<1>2. ContentIsSpan'
  BY ContentProps, PTL
<1>3. /\ d \in Seq(Byte) /\ Len(d) = ReadableSize' /\ ReadableSize' \in Nat
      /\ \A i \in 1..ReadableSize' : d[i] = data'[readIndex' + i - 1]
  BY <1>2 DEF ContentIsSpan
<1>4. ASSUME NEW n \in 0..m, Drops(n)
      PROVE  [Queue!Next]_Content
  <2>1. Len(d) = Len(c) - n /\ \A i \in 1..Len(d) : data'[readIndex' + i - 1] = data[readIndex + n + i - 1]
    BY <1>1, <1>3, <1>4 DEF Drops
  <2>2. ASSUME NEW i \in 1..Len(d)
        PROVE  d[i] = c[n + i]
    <3>1. n + i \in 1..m /\ readIndex + (n + i) - 1 = readIndex + n + i - 1
      BY <1>1, <2>1, Numbers, SMTT(30)
    <3> QED BY <1>1, <1>3, <2>1, <3>1, Zenon
  <2>3. d = SubSeq(c, n + 1, Len(c))
    BY <1>1, <1>3, <2>1, <2>2, TailOf, Zenon
  <2>4. CASE n = 0
    BY <1>1, <2>3, <2>4, SubSeqFull
  <2>5. CASE n # 0
    <3>1. n \in 1..Len(c)
      BY <1>1, <2>5
    <3> QED BY <2>3, <3>1 DEF Queue!Next, Queue!Take
  <2> QED BY <2>4, <2>5
<1>5. CASE Extends
  <2>1. /\ Len(d) >= Len(c)
        /\ \A i \in 1..m : data'[readIndex' + i - 1] = data[readIndex + i - 1]
    BY <1>1, <1>3, <1>5 DEF Extends
  <2>2. \A i \in 1..Len(c) : d[i] = c[i]
    BY <1>1, <1>3, <2>1
  <2>3. SubSeq(d, 1, Len(c)) = c
    BY <1>1, <1>3, <2>1, <2>2, PrefixOf
  <2>4. CASE Len(d) = Len(c)
    BY <1>1, <1>3, <2>3, <2>4, SubSeqFull
  <2>5. CASE Len(d) # Len(c)
    <3>1. Len(d) > Len(c)
      BY <1>1, <1>3, <2>1, <2>5
    <3> QED BY <1>3, <2>3, <3>1 DEF Queue!Next, Queue!Put
  <2> QED BY <2>4, <2>5
<1> QED BY <1>4, <1>5 DEF Shape

\* The Buffer implements the queue of bytes: no byte is lost, doubled or
\* reordered by a copy, a move to the front, a growth or a shrink, and no byte
\* that was never written is handed out.
THEOREM BufferIsQueue == Spec => ImplementsQueue
<1>1. Init => Queue!Init
  <2> SUFFICES ASSUME Init PROVE Content = <<>>
    BY DEF Queue!Init
  <2>1. Content \in Seq(Byte) /\ Len(Content) = ReadableSize
    BY InitIInv, ContentProps DEF ContentIsSpan
  <2>2. ReadableSize = 0
    BY DEF Init, ReadableSize
  <2> QED BY <2>1, <2>2, EmptySeq
<1>2. IInv /\ IInv' /\ [Next]_vars => [Queue!Next]_Content
  <2>1. UNCHANGED vars => UNCHANGED Content
    BY DEF vars, Content, ReadableSize
  <2> QED BY <2>1, StepIInv, ShapeIsQueueStep
<1> QED BY <1>1, <1>2, Invariance, PTL DEF Spec, ImplementsQueue, Queue!Spec
=============================================================================
