------------------------ MODULE VASharedBufferProofs ------------------------
(***************************************************************************)
(* The lock, the positions and the bytes of VASharedBuffer for every       *)
(* capacity and any number of bytes.                                       *)
(***************************************************************************)
EXTENDS VASharedBuffer, TLAPS

----------------------------------------------------------------------------
(* Positions and cells. *)

\* A number in range that differs by whole laps is the remainder.
LEMMA RemainderUnique ==
  ASSUME NEW a \in Int, NEW k \in Int, NEW d \in Cell, a = Capacity * k + d
  PROVE  a % Capacity = d
<1>1. Capacity \in Nat /\ Capacity > 0
  BY BufferAssumption
<1>2. /\ a \div Capacity \in Int /\ a % Capacity \in 0 .. (Capacity - 1)
      /\ a = Capacity * (a \div Capacity) + (a % Capacity)
  <2>1. a \div Capacity \in Int
    BY <1>1
  <2>2. a % Capacity \in 0 .. (Capacity - 1)
    BY <1>1
  <2>3. a = Capacity * (a \div Capacity) + (a % Capacity)
    BY <1>1
  <2> QED BY <2>1, <2>2, <2>3
<1> DEFINE j == k - (a \div Capacity)
<1>3. j \in Int /\ Capacity * j = (a % Capacity) - d
  BY <1>1, <1>2 DEF Cell
<1>4. j <= 0
  <2>1. SUFFICES ASSUME j >= 1 PROVE FALSE
    BY <1>3
  <2>2. Capacity * j >= Capacity
    <3> HIDE DEF j
    <3> QED BY <2>1, <1>1, <1>3
  <2> QED BY <2>2, <1>1, <1>2, <1>3 DEF Cell
<1>5. j >= 0
  <2>1. SUFFICES ASSUME j <= -1 PROVE FALSE
    BY <1>3
  <2>2. Capacity * j <= -Capacity
    <3> HIDE DEF j
    <3> QED BY <2>1, <1>1, <1>3
  <2> QED BY <2>2, <1>1, <1>2, <1>3 DEF Cell
<1>6. j = 0
  BY <1>3, <1>4, <1>5
<1> HIDE DEF j
<1> QED BY <1>6, <1>3, <1>2, <1>1 DEF Cell

\* How far the cell of a position p is from the cell of position w, as a copy
\* from w on counts: p - w for the next Capacity positions, one lap more for
\* those before.
LEMMA DistanceOf ==
  ASSUME NEW p \in Nat, NEW w \in Nat, -Capacity <= p - w, p - w < Capacity
  PROVE  /\ p % Capacity \in Cell
         /\ ((p % Capacity) - w) % Capacity = IF p >= w THEN p - w ELSE p - w + Capacity
<1>1. Capacity \in Nat /\ Capacity > 0
  BY BufferAssumption
<1> DEFINE k == p \div Capacity
           r == p % Capacity
<1>2. k \in Int /\ r \in Cell /\ p = Capacity * k + r
  BY <1>1 DEF Cell
<1>3. Capacity * (-k) \in Int /\ Capacity * (-k) = -(Capacity * k)
  BY <1>1, <1>2
<1>4. Capacity * (-k - 1) \in Int /\ Capacity * (-k - 1) = -(Capacity * k) - Capacity
  BY <1>1, <1>2
<1>5. Capacity * k \in Int
  BY <1>1, <1>2
<1> HIDE DEF k, r
<1>6. CASE p >= w
  <2>1. r - w = Capacity * (-k) + (p - w) /\ p - w \in Cell /\ -k \in Int /\ r - w \in Int
    BY <1>1, <1>2, <1>3, <1>5, <1>6 DEF Cell
  <2>2. (r - w) % Capacity = p - w
    BY <2>1, RemainderUnique
  <2> QED BY <2>2, <1>2, <1>6 DEF r
<1>7. CASE p < w
  <2>1. /\ r - w = Capacity * (-k - 1) + (p - w + Capacity) /\ p - w + Capacity \in Cell
        /\ -k - 1 \in Int /\ r - w \in Int
    BY <1>1, <1>2, <1>4, <1>5, <1>7 DEF Cell
  <2>2. (r - w) % Capacity = p - w + Capacity
    BY <2>1, RemainderUnique
  <2> QED BY <2>2, <1>2, <1>7 DEF r
<1> QED BY <1>6, <1>7

----------------------------------------------------------------------------
(* The inductive invariant. *)

\* The lock: who is inside has it, and one at a time.
LockInv ==
  /\ Inside # {} => futex = "LOCK_OWNED"
  /\ ~ ("reader" \in Inside /\ "writer" \in Inside)

\* What each process is inside for, and what it has worked out is still true.
SizeInv ==
  /\ pc["writer"] \notin {"idle", "release"} => stamp + size["writer"] <= MaxByte
  /\ pc["writer"] \in {"copy", "advance"} => size["writer"] <= Writable
  /\ pc["reader"] \in {"copy", "advance"} => size["reader"] <= Readable

\* The byte at position p, for the positions from a up to b.
Holds(a, b) ==
  \A p \in Nat : a <= p /\ p < b => cell[p % Capacity] = stamp - writePos + p

ByteInv ==
  /\ Holds(readPos, writePos)
  /\ pc["writer"] = "advance" => Holds(writePos, writePos + size["writer"])

IInv == TypeOK /\ LockInv /\ PositionsInRange /\ SizeInv /\ ByteInv

LEMMA InitHolds == Init => IInv
BY BufferAssumption DEF Init, IInv, TypeOK, LockInv, Inside, PositionsInRange, SizeInv, ByteInv, Holds,
       Proc, Cell, Writable, Readable

\* A step that leaves the data and both positions alone, and sizes of calls under
\* way too, keeps what the invariant says of the bytes.
LEMMA BytesStay ==
  ASSUME IInv, UNCHANGED <<readPos, writePos, cell, stamp>>,
         pc'["writer"] = "advance" => pc["writer"] = "advance" /\ size'["writer"] = size["writer"]
  PROVE  ByteInv'
<1>1. Holds(readPos, writePos)'
  BY DEF IInv, ByteInv, Holds
<1>2. pc'["writer"] = "advance" => Holds(writePos, writePos + size["writer"])'
  BY DEF IInv, ByteInv, Holds
<1> QED BY <1>1, <1>2 DEF ByteInv

LEMMA LockStep ==
  ASSUME IInv, NEW p \in Proc, Begin(p) \/ TryLock(p) \/ Timeout(p) \/ WakeFutex(p)
  PROVE  IInv'
<1> USE BufferAssumption DEF Goto, shared, Proc
<1>1. TypeOK' /\ LockInv' /\ PositionsInRange' /\ SizeInv'
  <2> USE DEF IInv, TypeOK, LockInv, Inside, PositionsInRange, SizeInv, Writable, Readable
  <2>1. CASE Begin(p)
    BY <2>1 DEF Begin, Op
  <2>2. CASE TryLock(p)
    BY <2>2 DEF TryLock, LockFree
  <2>3. CASE Timeout(p)
    BY <2>3 DEF Timeout
  <2>4. CASE WakeFutex(p)
    BY <2>4 DEF WakeFutex
  <2> QED BY <2>1, <2>2, <2>3, <2>4
<1>2. /\ UNCHANGED <<readPos, writePos, cell, stamp>>
      /\ pc'["writer"] = "advance" => pc["writer"] = "advance" /\ size'["writer"] = size["writer"]
  BY DEF Begin, TryLock, Timeout, WakeFutex, IInv, TypeOK
<1> QED BY <1>1, <1>2, BytesStay DEF IInv

LEMMA ReaderStep ==
  ASSUME IInv, Reset \/ SizeRead \/ CopyOut \/ AdvanceRead
  PROVE  IInv'
<1> USE BufferAssumption DEF Goto, shared, Proc
<1>1. TypeOK' /\ LockInv' /\ PositionsInRange' /\ SizeInv'
  <2> USE DEF IInv, TypeOK, LockInv, Inside, PositionsInRange, SizeInv, Writable, Readable
  <2>1. CASE Reset
    <3>1. /\ pc' = [pc EXCEPT !["reader"] = "release"] /\ pc["reader"] = "locked"
          /\ UNCHANGED <<futex, cell, op, size, stamp>>
      BY <2>1 DEF Reset
    <3>2. /\ readPos' \in Nat /\ writePos' \in Nat
          /\ readPos' <= writePos' /\ writePos' - readPos' <= Capacity
      BY <2>1 DEF Reset
    <3>3. pc'["writer"] = pc["writer"] /\ pc["writer"] \notin {"copy", "advance"}
      BY <3>1
    <3>4. SizeInv'
      BY <3>1, <3>3
    <3> QED BY <3>1, <3>2, <3>4
  <2>2. CASE SizeRead
    BY <2>2 DEF SizeRead, ReadSize, MinOf
  <2>3. CASE CopyOut
    BY <2>3 DEF CopyOut
  <2>4. CASE AdvanceRead
    <3>1. /\ readPos \in Nat /\ writePos \in Nat /\ size["reader"] \in Nat
          /\ readPos' = readPos + size["reader"] /\ readPos' <= writePos
      BY <2>4 DEF AdvanceRead
    <3>2. pc' = [pc EXCEPT !["reader"] = "release"] /\ pc["reader"] = "advance"
      BY <2>4 DEF AdvanceRead
    <3>3. pc'["writer"] = pc["writer"] /\ pc["writer"] \notin {"copy", "advance"}
      BY <3>2
    <3>4. TypeOK' /\ LockInv'
      BY <2>4, <3>1, <3>2 DEF AdvanceRead
    <3>5. PositionsInRange'
      BY <2>4, <3>1 DEF AdvanceRead
    <3>6. SizeInv'
      BY <2>4, <3>2, <3>3 DEF AdvanceRead
    <3> QED BY <3>4, <3>5, <3>6
  <2> QED BY <2>1, <2>2, <2>3, <2>4
<1>2. pc'["writer"] # "advance"
  BY DEF Reset, SizeRead, CopyOut, AdvanceRead, IInv, TypeOK, LockInv, Inside
<1>3. CASE Reset
  <2>1. readPos' = writePos' \/ UNCHANGED <<readPos, writePos>>
    BY <1>3 DEF Reset
  <2>2. Holds(readPos, writePos)'
    BY <1>3, <2>1 DEF Reset, Holds, IInv, ByteInv, TypeOK, PositionsInRange
  <2> QED BY <2>2, <1>1, <1>2 DEF IInv, ByteInv
<1>4. CASE SizeRead \/ CopyOut
  <2>1. UNCHANGED <<readPos, writePos, cell, stamp>>
    BY <1>4 DEF SizeRead, CopyOut
  <2> QED BY <2>1, <1>1, <1>2, BytesStay DEF IInv
<1>5. CASE AdvanceRead
  <2>1. readPos' >= readPos /\ readPos' \in Nat /\ UNCHANGED <<writePos, cell, stamp>>
    BY <1>5 DEF AdvanceRead, IInv, TypeOK
  <2>2. Holds(readPos, writePos)'
    <3>1. Holds(readPos, writePos)
      BY DEF IInv, ByteInv
    <3>2. readPos \in Nat /\ writePos \in Nat
      BY DEF IInv, TypeOK
    <3> SUFFICES ASSUME NEW p \in Nat, readPos' <= p, p < writePos'
                 PROVE  cell'[p % Capacity] = stamp' - writePos' + p
      BY DEF Holds
    <3>3. readPos <= p /\ p < writePos
      BY <2>1, <3>2
    <3> QED BY <3>1, <3>3, <2>1 DEF Holds
  <2> QED BY <2>2, <1>1, <1>2 DEF IInv, ByteInv
<1> QED BY <1>3, <1>4, <1>5

\* A copy of n bytes that fits leaves the bytes before it alone, and puts each
\* of its own in its place.
LEMMA FilledHolds ==
  ASSUME IInv, NEW n \in Nat, n <= Writable, cell' = Filled(n), UNCHANGED <<readPos, writePos, stamp>>
  PROVE  /\ Holds(readPos, writePos)'
         /\ Holds(writePos, writePos + n)'
<1> USE DEF Holds
<1>1. /\ readPos \in Nat /\ writePos \in Nat /\ stamp \in Nat /\ Capacity \in Nat
      /\ readPos <= writePos /\ writePos - readPos + n <= Capacity
  BY BufferAssumption DEF IInv, TypeOK, PositionsInRange, Writable
<1>2. ASSUME NEW p \in Nat, readPos <= p, p < writePos
      PROVE  cell'[p % Capacity] = stamp - writePos + p
  <2>1. p % Capacity \in Cell /\ ((p % Capacity) - writePos) % Capacity = p - writePos + Capacity
    <3>1. -Capacity <= p - writePos /\ p - writePos < Capacity /\ ~ (p >= writePos)
      BY <1>1, <1>2
    <3> QED BY <3>1, <1>1, DistanceOf
  <2>2. ~ (p - writePos + Capacity < n)
    BY <1>1, <1>2
  <2>3. cell'[p % Capacity] = cell[p % Capacity]
    BY <2>1, <2>2 DEF Filled
  <2> QED BY <2>3, <1>2 DEF IInv, ByteInv
<1>3. ASSUME NEW p \in Nat, writePos <= p, p < writePos + n
      PROVE  cell'[p % Capacity] = stamp - writePos + p
  <2>1. p % Capacity \in Cell /\ ((p % Capacity) - writePos) % Capacity = p - writePos
    <3>1. -Capacity <= p - writePos /\ p - writePos < Capacity /\ p >= writePos
      BY <1>1, <1>3
    <3> QED BY <3>1, <1>1, DistanceOf
  <2>2. cell'[p % Capacity] = stamp + (p - writePos)
    <3> DEFINE c == p % Capacity
    <3>1. cell'[c] = IF (c - writePos) % Capacity < n THEN stamp + ((c - writePos) % Capacity) ELSE cell[c]
      BY <2>1 DEF Filled
    <3>2. p - writePos < n
      BY <1>1, <1>3
    <3> HIDE DEF c
    <3>3. (c - writePos) % Capacity = p - writePos
      BY <2>1 DEF c
    <3>4. cell'[c] = stamp + (p - writePos)
      BY <3>1, <3>2, <3>3
    <3> QED BY <3>4 DEF c
  <2> QED BY <2>2, <1>1, <1>3
<1> QED BY <1>2, <1>3

\* A copy keeps the cells in their type.
LEMMA FilledType ==
  ASSUME IInv, NEW n \in Nat, stamp + n <= MaxByte
  PROVE  Filled(n) \in [Cell -> -1 .. (MaxByte - 1)]
<1> SUFFICES ASSUME NEW i \in Cell
             PROVE  (LET d == (i - writePos) % Capacity IN IF d < n THEN stamp + d ELSE cell[i])
                       \in -1 .. (MaxByte - 1)
  BY DEF Filled
<1>1. (i - writePos) % Capacity \in 0 .. (Capacity - 1)
  BY BufferAssumption DEF IInv, TypeOK, Cell
<1> QED BY <1>1, BufferAssumption DEF IInv, TypeOK, Cell

LEMMA CopyInStep == ASSUME IInv, CopyIn PROVE IInv'
<1> USE BufferAssumption DEF Goto, Proc
<1>1. PICK n \in Nat :
        /\ n <= size["writer"] /\ cell' = Filled(n)
        /\ \/ pc' = [pc EXCEPT !["writer"] = "advance"] /\ n = size["writer"]
           \/ pc' = [pc EXCEPT !["writer"] = "release"]
  <2>1. CASE cell' = Filled(size["writer"]) /\ Goto("writer", "advance")
    BY <2>1 DEF IInv, TypeOK
  <2>2. CASE /\ \E n \in {0, Capacity - (writePos % Capacity)} :
                   n < size["writer"] /\ cell' = Filled(n)
             /\ Goto("writer", "release")
    <3>1. Capacity - (writePos % Capacity) \in Nat
      BY DEF IInv, TypeOK
    <3>2. PICK n \in {0, Capacity - (writePos % Capacity)} : n < size["writer"] /\ cell' = Filled(n)
      BY <2>2
    <3>3. n \in Nat /\ n <= size["writer"]
      BY <3>1, <3>2 DEF IInv, TypeOK
    <3> QED BY <2>2, <3>2, <3>3
  <2> QED BY <2>1, <2>2 DEF CopyIn
<1>2. pc["writer"] = "copy" /\ UNCHANGED <<futex, readPos, writePos, op, size, stamp>>
  BY DEF CopyIn
<1>3. n <= Writable /\ stamp + n <= MaxByte
  BY <1>1, <1>2 DEF IInv, SizeInv, TypeOK, PositionsInRange, Writable
<1>4. cell' \in [Cell -> -1 .. (MaxByte - 1)]
  BY <1>1, <1>3, FilledType
<1>5. TypeOK' /\ LockInv' /\ PositionsInRange' /\ SizeInv'
  BY <1>1, <1>2, <1>4
     DEF IInv, TypeOK, LockInv, Inside, PositionsInRange, SizeInv, Writable, Readable
<1>6. Holds(readPos, writePos)' /\ Holds(writePos, writePos + n)'
  BY <1>1, <1>2, <1>3, FilledHolds
<1>7. pc'["writer"] = "advance" => n = size'["writer"]
  BY <1>1, <1>2 DEF IInv, TypeOK
<1>8. ByteInv'
  BY <1>6, <1>7 DEF ByteInv, Holds
<1> QED BY <1>5, <1>8 DEF IInv

LEMMA WriterStep == ASSUME IInv, SizeWrite \/ CopyIn \/ AdvanceWrite PROVE IInv'
<1> USE BufferAssumption DEF Goto, shared, Proc
<1>1. CASE SizeWrite
  <2>1. TypeOK' /\ LockInv' /\ PositionsInRange' /\ SizeInv'
    BY <1>1 DEF IInv, TypeOK, LockInv, Inside, PositionsInRange, SizeInv, Writable, Readable,
                SizeWrite, WriteSize, MinOf
  <2>2. UNCHANGED <<readPos, writePos, cell, stamp>> /\ pc'["writer"] # "advance"
    BY <1>1 DEF SizeWrite, IInv, TypeOK
  <2> QED BY <2>1, <2>2, BytesStay DEF IInv
<1>2. CASE AdvanceWrite
  <2>1. TypeOK' /\ LockInv' /\ PositionsInRange' /\ SizeInv'
    <3> USE DEF IInv, TypeOK, SizeInv, Writable, AdvanceWrite
    <3>1. /\ readPos \in Nat /\ writePos \in Nat /\ stamp \in Nat /\ size["writer"] \in Nat
          /\ stamp + size["writer"] <= MaxByte /\ size["writer"] <= Capacity - (writePos - readPos)
          /\ readPos <= writePos
      BY <1>2 DEF PositionsInRange
    <3>2. pc' = [pc EXCEPT !["writer"] = "release"] /\ pc["writer"] = "advance"
      BY <1>2
    <3>3. TypeOK'
      BY <1>2, <3>1, <3>2
    <3>4. LockInv'
      BY <1>2, <3>2 DEF LockInv, Inside
    <3>5. PositionsInRange'
      BY <1>2, <3>1 DEF PositionsInRange
    <3>6. pc'["reader"] = pc["reader"] /\ pc["reader"] \notin {"copy", "advance"}
      BY <3>2 DEF LockInv, Inside
    <3>7. pc'["writer"] = "release"
      BY <3>2
    <3> QED BY <3>3, <3>4, <3>5, <3>6, <3>7
  <2>2. /\ readPos' = readPos /\ cell' = cell /\ pc'["writer"] # "advance"
        /\ writePos' = writePos + size["writer"] /\ stamp' = stamp + size["writer"]
        /\ size["writer"] \in Nat /\ writePos \in Nat /\ stamp \in Nat /\ readPos \in Nat
        /\ readPos <= writePos
        /\ Holds(readPos, writePos) /\ Holds(writePos, writePos + size["writer"])
    BY <1>2 DEF AdvanceWrite, IInv, TypeOK, ByteInv, PositionsInRange
  <2>3. Holds(readPos, writePos)'
    BY <2>2 DEF Holds
  <2> QED BY <2>1, <2>2, <2>3 DEF IInv, ByteInv
<1> QED BY <1>1, <1>2, CopyInStep

\* The strengthening is kept by every step.
THEOREM BufferInvariant == Spec => []IInv
<1>1. IInv /\ UNCHANGED vars => IInv'
  BY DEF IInv, TypeOK, LockInv, Inside, PositionsInRange, SizeInv, ByteInv, Holds, Writable,
         Readable, vars, shared
<1>2. IInv /\ [Next]_vars => IInv'
  BY <1>1, LockStep, ReaderStep, WriterStep DEF Next
<1> QED BY <1>2, InitHolds, PTL DEF Spec

\* Every variable keeps its type, for every capacity.
THEOREM BufferTypeCorrect == Spec => []TypeOK
<1>1. IInv => TypeOK
  BY DEF IInv
<1> QED BY <1>1, BufferInvariant, PTL

\* One process at a time is between WaitForFutex and WakeFutex, whatever times
\* out, and nobody gives back the lock of another.
THEOREM AccessIsExclusive == Spec => []ExclusiveAccess
<1>1. IInv => ExclusiveAccess
  <2>1. \A p \in Inside : p \in {"reader", "writer"}
    BY DEF Inside, Proc
  <2> QED BY <2>1 DEF IInv, LockInv, ExclusiveAccess, Proc
<1> QED BY <1>1, BufferInvariant, PTL

\* Neither unsigned difference of the two positions wraps.
THEOREM PositionsStayInRange == Spec => []PositionsInRange
<1>1. IInv => PositionsInRange
  BY DEF IInv
<1> QED BY <1>1, BufferInvariant, PTL

\* The reader gets the last bytes that were written, in order, whatever was
\* reset or failed half-way.
THEOREM BytesStayInOrder == Spec => []BytesInOrder
<1>1. IInv => BytesInOrder
  <2> SUFFICES ASSUME IInv, NEW i \in 0 .. (Readable - 1)
               PROVE  cell[(readPos + i) % Capacity] = stamp - Readable + i
    BY DEF BytesInOrder
  <2>1. readPos + i \in Nat /\ readPos <= readPos + i /\ readPos + i < writePos
    BY DEF IInv, TypeOK, PositionsInRange, Readable
  <2>2. cell[(readPos + i) % Capacity] = stamp - writePos + (readPos + i)
    BY <2>1 DEF IInv, ByteInv, Holds
  <2> QED BY <2>2, <2>1 DEF IInv, TypeOK, Readable
<1> QED BY <1>1, BufferInvariant, PTL

=============================================================================
