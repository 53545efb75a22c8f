------------------------------- MODULE Buffer -------------------------------
(***************************************************************************)
(* Buffer (cxpnet/buffer.h): the growing and shrinking byte buffer through *)
(* which connections receive and send.  The doubling loop of               *)
(* ensure_writable_size is a step of its own per turn, because it is not   *)
(* obvious that it ends.  Memory outside of [read_index_, write_index_) is *)
(* garbage: allocations return it and the code leaves it behind.           *)
(***************************************************************************)
EXTENDS Integers, Sequences

CONSTANTS
  Byte,             \* byte values
  Garbage,          \* the contents of memory that was not written
  InitialCapacity,  \* kInitialCapacity
  ShrinkThreshold,  \* kShrinkThreshold
  Capacities,       \* arguments of the first constructor
  MaxWrite,         \* bound: bytes written or asked for at once
  MaxContent        \* bound: bytes in the buffer

ASSUME BufferAssumption ==
  /\ Garbage \notin Byte
  /\ InitialCapacity \in Nat \ {0}
  /\ ShrinkThreshold \in Nat
  /\ Capacities \subseteq Nat
  /\ MaxWrite \in Nat
  /\ MaxContent \in Nat

VARIABLES
  data,         \* data_: [0 .. capacity_ - 1 -> Byte or Garbage]
  readIndex,    \* read_index_
  writeIndex,   \* write_index_
  capacity,     \* capacity_
  newCapacity,  \* new_capacity, in ensure_writable_size
  required,     \* the bytes it has to make room for; 0: not inside it
  source        \* what append copies afterwards; <<>>: called on its own

vars == <<data, readIndex, writeIndex, capacity, newCapacity, required, source>>

Cells == Byte \cup {Garbage}
Fresh(n) == [i \in 0..(n - 1) |-> Garbage]   \* new char[n]

ReadableSize == writeIndex - readIndex
WritableSize == capacity - writeIndex
Content == [i \in 1..ReadableSize |-> data[readIndex + i - 1]]

\* std::max
Larger(a, b) == IF a > b THEN a ELSE b

\* Mutant: the copy starts at data_, not at data_ + read_index_.
KeptFromStart(n, from, to, len) ==
  [i \in 0..(n - 1) |-> IF i \in to..(to + len - 1)
                        THEN data[i - to] ELSE Garbage]

\* An area of n bytes that holds, from index to, the len bytes that data_ has
\* from index from: the outcome of memcpy, memmove, or of moving an index.
Kept(n, from, to, len) ==
  [i \in 0..(n - 1) |-> IF i \in to..(to + len - 1)
                        THEN data[from + i - to] ELSE Garbage]

TypeOK ==
  /\ capacity \in Nat
  /\ readIndex \in Nat
  /\ writeIndex \in Nat
  /\ data \in [0..(capacity - 1) -> Cells]
  /\ newCapacity \in Nat
  /\ required \in Nat
  /\ source \in Seq(Byte)

Init ==
  \E c \in Capacities :
    /\ capacity = Larger(c, InitialCapacity)
    /\ data = Fresh(capacity)
    /\ readIndex = 0
    /\ writeIndex = 0
    /\ newCapacity = 0
    /\ required = 0
    /\ source = <<>>

Idle == required = 0

-----------------------------------------------------------------------------
\* Copying s to to_write(), or the kernel's recv doing so, and been_written.
Written(s) ==
  /\ data' = [i \in 0..(capacity - 1) |->
                IF i \in writeIndex..(writeIndex + Len(s) - 1)
                THEN s[i - writeIndex + 1] ELSE data[i]]
  /\ writeIndex' = writeIndex + Len(s)
  /\ UNCHANGED <<readIndex, capacity>>

\* recv into the free space behind the content, and been_written.
Receive(s) ==
  /\ Idle
  /\ Len(s) \in 1..WritableSize
  /\ Written(s)
  /\ UNCHANGED <<newCapacity, required, source>>

\* ensure_writable_size(len) of append(s), or, with s empty, of a reader that
\* wants room to receive.  There is room, or the content is moved to the
\* front, or a larger area has to be found.
EnsureWritableSize(len, s) ==
  /\ Idle
  /\ IF WritableSize < len /\ readIndex + WritableSize >= len
     THEN /\ data' = Kept(capacity, readIndex, 0, ReadableSize)
          /\ readIndex' = 0
          /\ writeIndex' = ReadableSize
     ELSE UNCHANGED <<data, readIndex, writeIndex>>
  /\ newCapacity' = capacity
  /\ required' = len
  /\ source' = s
  /\ UNCHANGED capacity

\* Mutant: twice capacity_ instead of twice new_capacity.
DoubleOnce ==
  /\ required > WritableSize
  /\ newCapacity < ReadableSize + required
  /\ newCapacity' = capacity * 2
  /\ UNCHANGED <<data, readIndex, writeIndex, capacity, required, source>>

\* One turn of the loop that doubles the capacity.
Double ==
  /\ required > WritableSize
  /\ newCapacity < ReadableSize + required
  /\ newCapacity' = newCapacity * 2
  /\ UNCHANGED <<data, readIndex, writeIndex, capacity, required, source>>

\* The loop is done: the content is copied to the larger area.
Reallocate ==
  /\ required > WritableSize
  /\ newCapacity >= ReadableSize + required
  /\ data' = Kept(newCapacity, readIndex, 0, ReadableSize)
  /\ capacity' = newCapacity
  /\ readIndex' = 0
  /\ writeIndex' = ReadableSize
  /\ UNCHANGED <<newCapacity, required, source>>

\* ensure_writable_size has made room; append copies and returns.
Finish ==
  /\ required \in 1..WritableSize
  /\ Written(source)
  /\ newCapacity' = 0
  /\ required' = 0
  /\ source' = <<>>

-----------------------------------------------------------------------------
\* Mutant: what is used does not count.
TargetFixed(used) == InitialCapacity + (InitialCapacity \div 2)

\* The capacity a shrink aims at.
Target(used) ==
  LET base == Larger(used, InitialCapacity) IN base + (base \div 2)

\* shrink_if_needed_, with read_index_ at r.
ShrinkIfNeeded(r) ==
  LET used   == writeIndex - r
      idle   == capacity - used
      target == Target(used)
  IN CASE used = 0 ->
            /\ capacity' = IF capacity > InitialCapacity * 4
                           THEN InitialCapacity ELSE capacity
            /\ data' = Fresh(capacity')
            /\ readIndex' = 0
            /\ writeIndex' = 0
       [] used > 0 /\ (idle * 4 <= capacity * 3 \/ idle < ShrinkThreshold) ->
            /\ data' = Kept(capacity, r, r, used)
            /\ readIndex' = r
            /\ UNCHANGED <<writeIndex, capacity>>
       [] OTHER ->
            /\ data' = Kept(target, r, 0, used)
            /\ capacity' = target
            /\ readIndex' = 0
            /\ writeIndex' = used

\* been_read(len)
BeenRead(len) ==
  /\ Idle
  /\ len \in 1..ReadableSize
  /\ IF len = ReadableSize \/ readIndex + len >= capacity \div 2
     THEN ShrinkIfNeeded(readIndex + len)
     ELSE /\ readIndex' = readIndex + len
          /\ data' = Kept(capacity, readIndex', readIndex', writeIndex - readIndex')
          /\ UNCHANGED <<writeIndex, capacity>>
  /\ UNCHANGED <<newCapacity, required, source>>

\* clear(): what was readable is given up.
Clear ==
  /\ Idle
  /\ data' = Fresh(capacity)
  /\ readIndex' = 0
  /\ writeIndex' = 0
  /\ UNCHANGED <<capacity, newCapacity, required, source>>

\* The Buffer is moved from, by the other one's constructor or assignment: the
\* content is taken over, and no memory is left.
MovedFrom ==
  /\ Idle
  /\ data' = Fresh(0)
  /\ readIndex' = 0
  /\ writeIndex' = 0
  /\ capacity' = 0
  /\ UNCHANGED <<newCapacity, required, source>>

\* An empty one is assigned Buffer(c) ...
AssignEmpty(c) ==
  /\ Idle
  /\ ReadableSize = 0
  /\ capacity' = Larger(c, InitialCapacity)
  /\ data' = Fresh(capacity')
  /\ readIndex' = 0
  /\ writeIndex' = 0
  /\ UNCHANGED <<newCapacity, required, source>>

\* ... or Buffer(s, len), which is full, and has no memory when len is 0.
AssignData(s) ==
  /\ Idle
  /\ ReadableSize = 0
  /\ capacity' = Len(s)
  /\ data' = [i \in 0..(Len(s) - 1) |-> s[i + 1]]
  /\ readIndex' = 0
  /\ writeIndex' = Len(s)
  /\ UNCHANGED <<newCapacity, required, source>>

-----------------------------------------------------------------------------
\* What is written: up to MaxWrite bytes, with the content below the bound.
Writes(n) == {s \in [1..n -> Byte] : ReadableSize + n <= MaxContent}

Grow == Double \/ Reallocate \/ Finish

Next ==
  \/ \E n \in 1..MaxWrite : \E s \in Writes(n) : Receive(s)
  \/ \E n \in 1..MaxWrite : \E s \in Writes(n) : EnsureWritableSize(n, s)
  \/ \E n \in 1..MaxWrite : EnsureWritableSize(n, <<>>)
  \/ Grow
  \/ \E len \in 1..ReadableSize : BeenRead(len)
  \/ Clear
  \/ MovedFrom
  \/ \E c \in Capacities : AssignEmpty(c)
  \/ \E n \in 0..MaxWrite : \E s \in Writes(n) : AssignData(s)

Spec == Init /\ [][Next]_vars

\* A call of append or ensure_writable_size goes on.
FairSpec == Spec /\ WF_vars(Grow)

-----------------------------------------------------------------------------
(* Properties.                                                             *)

\* The indices stay in the allocated area: readable_size() and
\* writable_size(), subtractions of unsigned numbers, do not wrap, and a
\* shrink leaves room for the content.
IndicesInRange ==
  /\ TypeOK
  /\ readIndex <= writeIndex
  /\ writeIndex <= capacity

\* append and ensure_writable_size return, unless the Buffer has no memory, as
\* after a move: 0 doubled is 0.
GrowthEnds == (required > 0 /\ capacity > 0) ~> required = 0

\* The buffer is a queue of bytes.
Queue == INSTANCE ByteQueue WITH content <- Content

\* Reading, writing, moving, growing and shrinking are steps of that queue,
\* or invisible to it. In particular no cell that was not written is read.
ImplementsQueue == Queue!Spec
=============================================================================
