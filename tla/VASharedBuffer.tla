--------------------------- MODULE VASharedBuffer ---------------------------
(***************************************************************************)
(* The shared buffer through which a virtual device hands captured audio   *)
(* to the server: VASharedBufferOperator (va_shared_buffer_operator.cpp),  *)
(* used by VACaptureSource as the reader and by the device's process as    *)
(* the writer.                                                             *)
(*                                                                         *)
(* Every operation takes the lock in VASharedStatusInfo::futex first, with *)
(* WaitForFutex, and releases it with WakeFutex.  Bytes are numbered in    *)
(* the order they are written; a cell holds the number of its byte.        *)
(***************************************************************************)
EXTENDS Integers

CONSTANTS
  Capacity,   \* bytes of the data area
  MinRead,    \* minReadSize_
  MaxByte,    \* bound: bytes written in a behaviour
  MaxSize     \* bound: bytes asked for in one call

ASSUME BufferAssumption ==
  /\ Capacity \in Nat \ {0} /\ MaxSize \in Nat \ {0}
  /\ MinRead \in Nat /\ MaxByte \in Nat

VARIABLES
  futex,            \* VASharedStatusInfo
  readPos, writePos,
  cell,             \* the data area
  pc, op,           \* where each process is, and in which call
  size,             \* dataSize, then the bytes the call moves
  stamp             \* bytes written so far

shared == <<futex, readPos, writePos, cell>>
vars   == <<shared, pc, op, size, stamp>>

Proc     == {"reader", "writer"}
Op       == [reader |-> {"Read", "Reset", "SetReadPosToWritePos",
                         "GetReadableSize"},
             writer |-> {"Write"}]
Cell     == 0..(Capacity - 1)
Readable == writePos - readPos
Writable == Capacity - (writePos - readPos)

MinOf(a, b) == IF a <= b THEN a ELSE b

Goto(p, label) == pc' = [pc EXCEPT ![p] = label]

Init ==
  /\ futex = "LOCK_RELEASED" /\ readPos = 0 /\ writePos = 0
  /\ cell = [i \in Cell |-> -1]
  /\ pc = [p \in Proc |-> "idle"] /\ op = [p \in Proc |-> "none"]
  /\ size = [p \in Proc |-> 0]
  /\ stamp = 0

Begin(p) ==
  /\ pc[p] = "idle"
  /\ \E o \in Op[p], n \in 1..MaxSize :
       /\ o = "Write" => stamp + n <= MaxByte
       /\ op' = [op EXCEPT ![p] = o] /\ size' = [size EXCEPT ![p] = n]
  /\ Goto(p, "wait")
  /\ UNCHANGED <<shared, stamp>>

----------------------------------------------------------------------------
(* WaitForFutex and WakeFutex. *)

\* HasEnoughReadableData is the predicate of Read, the others have none.
Pred(p) == op[p] = "Read" => Readable > MinRead

LockIgnored == TRUE
LockFree == futex = "LOCK_RELEASED"

\* One turn of the loop: the exchange happens before pred() is asked.
TryLock(p) ==
  /\ pc[p] = "wait" /\ LockFree
  /\ futex' = "LOCK_OWNED"
  /\ Goto(p, IF Pred(p) THEN "locked" ELSE "wait")
  /\ UNCHANGED <<readPos, writePos, cell, op, size, stamp>>

\* FUTEX_TIMEOUT: the operation returns and leaves the futex as it is.
Timeout(p) ==
  /\ pc[p] = "wait"
  /\ Goto(p, "idle")
  /\ UNCHANGED <<shared, op, size, stamp>>

WakeFutex(p) ==
  /\ pc[p] = "release"
  /\ futex' = "LOCK_RELEASED"
  /\ Goto(p, "idle")
  /\ UNCHANGED <<readPos, writePos, cell, op, size, stamp>>

----------------------------------------------------------------------------
(* The operations, between the two. *)

Reset ==
  /\ pc["reader"] = "locked"
  /\ \/ op["reader"] = "Reset" /\ readPos' = 0 /\ writePos' = 0
     \/ /\ op["reader"] = "SetReadPosToWritePos"
        /\ readPos' = writePos /\ UNCHANGED writePos
     \/ op["reader"] = "GetReadableSize" /\ UNCHANGED <<readPos, writePos>>
  /\ Goto("reader", "release")
  /\ UNCHANGED <<futex, cell, op, size, stamp>>

\* How much a Write moves, and how much a Read does.
WriteSizeUnbounded == size["writer"]
WriteSize == MinOf(size["writer"], Writable)
ReadSize == MinOf(size["reader"], Readable)

SizeRead ==
  /\ pc["reader"] = "locked" /\ op["reader"] = "Read"
  /\ size' = [size EXCEPT !["reader"] = ReadSize]
  /\ Goto("reader", IF ReadSize = 0 THEN "release" ELSE "copy")
  /\ UNCHANGED <<shared, op, stamp>>

\* memcpy_s out of the data area, then readPos; a copy that fails moves
\* nothing.
CopyOut ==
  /\ pc["reader"] = "copy"
  /\ \/ Goto("reader", "advance")
     \/ Goto("reader", "release")
  /\ UNCHANGED <<shared, op, size, stamp>>

AdvanceRead ==
  /\ pc["reader"] = "advance"
  /\ readPos' = readPos + size["reader"]
  /\ Goto("reader", "release")
  /\ UNCHANGED <<futex, writePos, cell, op, size, stamp>>

SizeWrite ==
  /\ pc["writer"] = "locked"
  /\ size' = [size EXCEPT !["writer"] = WriteSize]
  /\ Goto("writer", IF WriteSize = 0 THEN "release" ELSE "copy")
  /\ UNCHANGED <<shared, op, stamp>>

\* The data area after n bytes were copied in from writePos on.
Filled(n) ==
  [i \in Cell |->
     LET d == (i - writePos) % Capacity IN IF d < n THEN stamp + d ELSE cell[i]]

\* WriteToAshmem, once or in two parts, the first of which may be all that
\* succeeds.
CopyIn ==
  /\ pc["writer"] = "copy"
  /\ \/ cell' = Filled(size["writer"]) /\ Goto("writer", "advance")
     \/ /\ \E n \in {0, Capacity - (writePos % Capacity)} :
             n < size["writer"] /\ cell' = Filled(n)
        /\ Goto("writer", "release")
  /\ UNCHANGED <<futex, readPos, writePos, op, size, stamp>>

AdvanceWrite ==
  /\ pc["writer"] = "advance"
  /\ writePos' = writePos + size["writer"]
  /\ stamp' = stamp + size["writer"]
  /\ Goto("writer", "release")
  /\ UNCHANGED <<futex, readPos, cell, op, size>>

----------------------------------------------------------------------------
Next ==
  \/ \E p \in Proc : Begin(p) \/ TryLock(p) \/ Timeout(p) \/ WakeFutex(p)
  \/ Reset \/ SizeRead \/ CopyOut \/ AdvanceRead
  \/ SizeWrite \/ CopyIn \/ AdvanceWrite

Spec == Init /\ [][Next]_vars

----------------------------------------------------------------------------
Inside == {p \in Proc : pc[p] \notin {"idle", "wait"}}

TypeOK ==
  /\ futex \in {"LOCK_RELEASED", "LOCK_OWNED"}
  /\ readPos \in Nat /\ writePos \in Nat
  /\ cell \in [Cell -> -1..(MaxByte - 1)]
  /\ pc \in [Proc -> {"idle", "wait", "locked", "copy", "advance", "release"}]
  /\ size \in [Proc -> 0..MaxSize]
  /\ stamp \in 0..MaxByte

\* One process at a time is between WaitForFutex and WakeFutex, and the
\* futex says so: nobody releases the lock of another.
ExclusiveAccess ==
  Inside # {} => futex = "LOCK_OWNED" /\ \E p \in Proc : Inside = {p}

\* The positions never make the unsigned differences of the two sizes wrap.
PositionsInRange == readPos <= writePos /\ writePos - readPos <= Capacity

\* The bytes between the positions are the last ones written, in order,
\* whatever was reset or failed in between.
BytesInOrder ==
  \A i \in 0..(Readable - 1) :
    cell[(readPos + i) % Capacity] = stamp - Readable + i

=============================================================================
