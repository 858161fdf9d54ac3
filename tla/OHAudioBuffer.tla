--------------------------- MODULE OHAudioBuffer ---------------------------
(***************************************************************************)
(* The playback ring shared by one client and the audio server:            *)
(* OHAudioBufferBase (oh_audio_buffer_base.cpp) as it is driven by         *)
(*                                                                         *)
(*   "client"  RendererInClientInner::WriteCacheData, the only writer      *)
(*   "server"  RendererInServer::WriteData / OnWriteData, the engine's     *)
(*             data callback                                               *)
(*   "flush"   RendererInClientInner::FlushAudioStream and the             *)
(*             RendererInServer::FlushOhAudioBuffer it calls               *)
(*                                                                         *)
(* basePosInFrame, curReadFrame and curWriteFrame are separate atomics in  *)
(* shared memory and no lock covers the client and the server together, so *)
(* a step of the model touches at most one of them that another process    *)
(* may change: every label below is a point at which the others can run.   *)
(*                                                                         *)
(* Frames are numbered from 0 in the order the client writes them.  A slot *)
(* of the data area holds the number of the frame whose bytes it carries,  *)
(* or Silence.                                                             *)
(***************************************************************************)
EXTENDS Integers

CONSTANTS
  Total,       \* totalSizeInFrame_: frames the data area holds
  Span,        \* spanSizeInFrame_: frames the engine asks for at a time
  HpaeEngine,  \* TRUE: OnWriteData(int8_t *, size_t), FALSE: WriteData()
  NotifyTimesOut, \* the client may stop waiting for FLUSH_STREAM
  MaxWrite,    \* bound: frames in one call of Write
  MaxFrame     \* bound: frames written in a behaviour

ASSUME RingAssumption ==
  /\ Total \in Nat \ {0}
  /\ Span \in 1..Total
  /\ HpaeEngine \in BOOLEAN /\ NotifyTimesOut \in BOOLEAN
  /\ MaxWrite \in Nat \ {0}
  /\ MaxFrame \in Nat

VARIABLES
  basePosInFrame, curWriteFrame, curReadFrame,  \* BasicBufferInfo
  slot,        \* the data area
  pc,          \* the label each process is at
  pos,         \* position a process works from
  len,         \* frames it works on
  off,         \* the offset it computed for pos
  seen,        \* the base position it last loaded
  remain,      \* remainSize of WriteCacheData
  writeMutex,  \* client: RendererInClientInner::writeMutex_
  writeLock    \* server: RendererInServer::writeLock_

ring  == <<basePosInFrame, curWriteFrame, curReadFrame, slot>>
local == <<pos, len, off, seen, remain>>
locks == <<writeMutex, writeLock>>
vars  == <<ring, pc, local, locks>>

Proc    == {"client", "server", "flush"}
Label   == {"idle", "wait", "pos", "base", "limit", "offset", "copy",
            "setBase", "setRead", "store", "load", "avail", "enqueue",
            "clear", "setOld", "setCheck", "storeBase", "storeRead",
            "lock", "notify"}
Silence == -1
Slots   == 0..(Total - 1)

----------------------------------------------------------------------------
(* Position arithmetic, with the slips each operator could have next to    *)
(* it (MoreThan and the like are used by no action).                       *)
(*                                                                         *)
(* A position is a uint64_t that never comes near its limit; what does     *)
(* matter is that an unsigned difference of a smaller and a larger         *)
(* position is huge, so no upper bound admits it.                          *)

\* pos >= base && pos - base < k
InRange(p, base, k) == p >= base /\ p - base < k

\* Unsigned p - base >= k.
MoreThan(p, base, k) == p < base \/ p - base > k
AtLeast(p, base, k) == p < base \/ p - base >= k

\* deltaToBase folded into the data area, as GetOffsetByFrame does.
OffsetOf(p, base) == IF p - base >= Total THEN p - base - Total
                                          ELSE p - base

\* How far slot i is from offset o: the second descriptor of a
\* RingBufferWrapper starts at dataBase_ again (GetBufferByOffset).
Distance(o, i) == IF i >= o THEN i - o ELSE i + Total - o

\* The slots behind the RingBufferWrapper for n frames from offset o.
Region(o, n) == {i \in Slots : Distance(o, i) < n}

\* Frames the client may write from p when it saw the read position at rd.
WritableFramesOffByOne(rd, p) == rd + Total + 1 - p
WritableFrames(rd, p) == rd + Total - p

\* The range check of SetCurWriteFrame against the read position.
CacheRangeExclusive(to, rd) == to >= rd /\ to - rd < Total
CacheRange(to, rd) == to >= rd /\ to - rd <= Total

\* The base position SetCurReadFrame moves to.
BaseOfTarget(base, to) == to
MovedBase(base, to) == base + Total

MinOf(a, b) == IF a <= b THEN a ELSE b

target(p) == pos[p] + len[p]

Goto(p, label) == pc' = [pc EXCEPT ![p] = label]

----------------------------------------------------------------------------
Init ==
  /\ basePosInFrame = 0 /\ curWriteFrame = 0 /\ curReadFrame = 0
  /\ slot = [i \in Slots |-> Silence]
  /\ pc = [p \in Proc |-> "idle"]
  /\ pos = [p \in Proc |-> 0] /\ len = [p \in Proc |-> 0]
  /\ off = [p \in Proc |-> 0] /\ seen = [p \in Proc |-> 0]
  /\ remain = 0
  /\ writeMutex = "none" /\ writeLock = "none"

----------------------------------------------------------------------------
(* The client: WriteInner takes writeMutex_ and WriteCacheData loops until *)
(* remainSize is used up.                                                  *)

WriteBegin ==
  /\ pc["client"] = "idle" /\ writeMutex = "none"
  /\ writeMutex' = "client"
  /\ \E n \in 1..MaxWrite :
       /\ curWriteFrame + n <= MaxFrame
       /\ remain' = n
  /\ Goto("client", "wait")
  /\ UNCHANGED <<ring, pos, len, off, seen, writeLock>>

\* Every CHECK_AND_RETURN of WriteCacheData, and its normal end.
WriteReturn ==
  /\ Goto("client", "idle")
  /\ writeMutex' = "none"
  /\ remain' = 0

\* GetWritableDataFrames: -1 when the two positions make no sense.
GetWritableDataFrames ==
  IF InRange(curWriteFrame, curReadFrame, Total + 1)
    THEN Total - (curWriteFrame - curReadFrame) ELSE -1

\* The predicate of WaitFor casts the -1 to a large unsigned number.
WaitWritable ==
  /\ pc["client"] = "wait"
  /\ GetWritableDataFrames # 0
  /\ Goto("client", "pos")
  /\ UNCHANGED <<ring, local, locks>>

\* WaitFor timed out, or the stream is no longer RUNNING.  What WaitFor
\* calls FUTEX_OPERATION_FAILED goes on with a full ring and fails in
\* GetAllWritableBufferFromPosFrame, which comes to the same.
WaitTimeout ==
  /\ pc["client"] = "wait"
  /\ WriteReturn
  /\ UNCHANGED <<ring, pos, len, off, seen, writeLock>>

LoadWritePos ==
  /\ pc["client"] = "pos"
  /\ pos' = [pos EXCEPT !["client"] = curWriteFrame]
  /\ IF curWriteFrame >= curReadFrame
       THEN Goto("client", "base") /\ UNCHANGED <<writeMutex, remain>>
       ELSE WriteReturn
  /\ UNCHANGED <<ring, len, off, seen, writeLock>>

\* GetAllWritableBufferFromPosFrame loads the base position first ...
WritableBase ==
  /\ pc["client"] = "base"
  /\ seen' = [seen EXCEPT !["client"] = basePosInFrame]
  /\ Goto("client", "limit")
  /\ UNCHANGED <<ring, pos, len, off, remain, locks>>

\* ... then the read position, and checks the range.
WritableLimit ==
  /\ pc["client"] = "limit"
  /\ LET p == pos["client"]
         size == WritableFrames(curReadFrame, p)
     IN IF /\ InRange(p, seen["client"], 2 * Total)
           /\ p >= curReadFrame /\ curReadFrame + Total >= p
           /\ size # 0
          THEN /\ len' = [len EXCEPT !["client"] = MinOf(remain, size)]
               /\ Goto("client", "offset")
               /\ UNCHANGED <<writeMutex, remain>>
          ELSE WriteReturn /\ len' = len
  /\ UNCHANGED <<ring, pos, off, seen, writeLock>>

\* GetOffsetByFrame loads the base position again.
WriteOffset ==
  /\ pc["client"] = "offset"
  /\ IF InRange(pos["client"], basePosInFrame, 2 * Total)
       THEN /\ off' = [off EXCEPT !["client"] =
                         OffsetOf(pos["client"], basePosInFrame)]
            /\ Goto("client", "copy")
            /\ UNCHANGED <<writeMutex, remain>>
       ELSE WriteReturn /\ off' = off
  /\ UNCHANGED <<ring, pos, len, seen, writeLock>>

\* The data area after frames p, p + 1, ... were copied from offset o on.
Stored(o, p, n) ==
  [i \in Slots |-> IF i \in Region(o, n) THEN p + Distance(o, i) ELSE slot[i]]

\* CopyInputBufferValueToCurBuffer.
CopyIn ==
  /\ pc["client"] = "copy"
  /\ slot' = Stored(off["client"], pos["client"], len["client"])
  /\ Goto("client", "setBase")
  /\ UNCHANGED <<basePosInFrame, curWriteFrame, curReadFrame, local, locks>>

\* SetCurWriteFrame's result is ignored: the loop goes on with what is left.
NextRound ==
  IF remain = len["client"]
    THEN WriteReturn
    ELSE /\ remain' = remain - len["client"]
         /\ Goto("client", "wait")
         /\ writeMutex' = writeMutex

SetWriteBase ==
  /\ pc["client"] = "setBase"
  /\ IF InRange(target("client"), basePosInFrame, 2 * Total)
       THEN Goto("client", "setRead") /\ UNCHANGED <<writeMutex, remain>>
       ELSE NextRound
  /\ UNCHANGED <<ring, pos, len, off, seen, writeLock>>

SetWriteRead ==
  /\ pc["client"] = "setRead"
  /\ IF CacheRange(target("client"), curReadFrame)
       THEN Goto("client", "store") /\ UNCHANGED <<writeMutex, remain>>
       ELSE NextRound
  /\ UNCHANGED <<ring, pos, len, off, seen, writeLock>>

SetWriteStore ==
  /\ pc["client"] = "store"
  /\ curWriteFrame' = target("client")
  /\ NextRound
  /\ UNCHANGED <<basePosInFrame, curReadFrame, slot, pos, len, off, seen,
                 writeLock>>

----------------------------------------------------------------------------
(* The engine's callback.  OnWriteData(size_t), UpdateWriteIndex and the   *)
(* underrun notice call WriteData only when they get writeLock_;           *)
(* OnWriteData(int8_t *, size_t) takes no lock and asks for n frames.      *)

\* Who may start a callback of the server.
ServerEntersAnyway == TRUE
ServerMayEnter == HpaeEngine \/ writeLock = "none"

ServerBegin ==
  /\ pc["server"] = "idle"
  /\ ServerMayEnter
  /\ writeLock' = IF HpaeEngine THEN writeLock ELSE "server"
  /\ pos' = [pos EXCEPT !["server"] = curReadFrame]
  /\ \E n \in IF HpaeEngine THEN 1..Span ELSE {0} :
       len' = [len EXCEPT !["server"] = n]
  /\ Goto("server", "load")
  /\ UNCHANGED <<ring, off, seen, remain, writeMutex>>

\* The end of p's call: "flush" still has to be reported to the client.
Finish(p) ==
  /\ Goto(p, IF p = "server" THEN "idle" ELSE "notify")
  /\ writeLock' = IF writeLock = p THEN "none" ELSE writeLock

ServerLoadWrite ==
  /\ pc["server"] = "load"
  /\ IF IF HpaeEngine THEN target("server") <= curWriteFrame
                      ELSE pos["server"] < curWriteFrame
       THEN Goto("server", "base") /\ writeLock' = writeLock
       ELSE Finish("server")
  /\ UNCHANGED <<ring, local, writeMutex>>

\* FlushAudioStream takes writeMutex_ and calls the server, which waits
\* for writeLock_.
FlushBegin ==
  /\ pc["flush"] = "idle" /\ writeMutex = "none"
  /\ writeMutex' = "flush"
  /\ Goto("flush", "lock")
  /\ UNCHANGED <<ring, local, writeLock>>

FlushLock ==
  /\ pc["flush"] = "lock" /\ writeLock = "none"
  /\ writeLock' = "flush"
  /\ Goto("flush", "load")
  /\ UNCHANGED <<ring, local, writeMutex>>

FlushLoad ==
  /\ pc["flush"] = "load"
  /\ IF curReadFrame < curWriteFrame
       THEN Goto("flush", "pos") /\ writeLock' = writeLock
       ELSE Finish("flush")
  /\ UNCHANGED <<ring, local, writeMutex>>

\* GetAllReadableBuffer.
FlushPos ==
  /\ pc["flush"] = "pos"
  /\ pos' = [pos EXCEPT !["flush"] = curReadFrame]
  /\ Goto("flush", "base")
  /\ UNCHANGED <<ring, len, off, seen, remain, locks>>

----------------------------------------------------------------------------
(* GetAllReadableBufferFromPosFrame and SetCurReadFrame, called by the     *)
(* server's callback and by the flush.                                     *)

ReadableBase(p) ==
  /\ pc[p] = "base" /\ p # "client"
  /\ seen' = [seen EXCEPT ![p] = basePosInFrame]
  /\ Goto(p, "avail")
  /\ UNCHANGED <<ring, pos, len, off, remain, locks>>

\* Frames p works on when size frames are readable; 0 ends the server's
\* call and makes the flush skip the data area.
Taken(p, size) ==
  IF p = "flush" THEN size
  ELSE IF HpaeEngine THEN IF size < len[p] THEN 0 ELSE len[p]
  ELSE MinOf(size, Span)

ReadableAvail(p) ==
  /\ pc[p] = "avail" /\ p # "client"
  /\ LET size == curWriteFrame - pos[p]
         n    == Taken(p, size)
     IN IF /\ InRange(pos[p], seen[p], Total)
           /\ size \in 0..Total
           /\ n > 0 \/ p = "flush"
          THEN /\ len' = [len EXCEPT ![p] = n]
               /\ Goto(p, IF n = 0 THEN "setBase" ELSE "offset")
               /\ writeLock' = writeLock
          ELSE Finish(p) /\ len' = len
  /\ UNCHANGED <<ring, pos, off, seen, remain, writeMutex>>

ReadableOffset(p) ==
  /\ pc[p] = "offset" /\ p # "client"
  /\ IF InRange(pos[p], basePosInFrame, 2 * Total)
       THEN /\ off' = [off EXCEPT ![p] = OffsetOf(pos[p], basePosInFrame)]
            /\ Goto(p, IF p = "server" THEN "enqueue" ELSE "clear")
            /\ writeLock' = writeLock
       ELSE Finish(p) /\ off' = off
  /\ UNCHANGED <<ring, pos, len, seen, remain, writeMutex>>

\* EnqueueBuffer and OtherStreamEnqueue, or CopyDataToInputBuffer: the data
\* leaves the ring.
Enqueue ==
  /\ pc["server"] = "enqueue"
  /\ Goto("server", "clear")
  /\ UNCHANGED <<ring, local, locks>>

\* SetBuffersValueWithSpecifyDataLen(0).
Clear(p) ==
  /\ pc[p] = "clear"
  /\ slot' = [i \in Slots |->
                IF i \in Region(off[p], len[p]) THEN Silence ELSE slot[i]]
  /\ Goto(p, "setBase")
  /\ UNCHANGED <<basePosInFrame, curWriteFrame, curReadFrame, local, locks>>

SetReadBase(p) ==
  /\ pc[p] = "setBase" /\ p # "client"
  /\ seen' = [seen EXCEPT ![p] = basePosInFrame]
  /\ Goto(p, "setOld")
  /\ UNCHANGED <<ring, pos, len, off, remain, locks>>

SetReadOld(p) ==
  /\ pc[p] = "setOld"
  /\ IF target(p) > curReadFrame
       THEN Goto(p, "setCheck") /\ writeLock' = writeLock
       ELSE Finish(p)
  /\ UNCHANGED <<ring, local, writeMutex>>

\* Whether SetCurReadFrame moves the base position with the read position.
MovesBase(p) == AtLeast(target(p), seen[p], Total)

SetReadCheck(p) ==
  /\ pc[p] = "setCheck"
  /\ IF target(p) <= curWriteFrame
       THEN /\ Goto(p, IF MovesBase(p) THEN "storeBase" ELSE "storeRead")
            /\ writeLock' = writeLock
       ELSE Finish(p)
  /\ UNCHANGED <<ring, local, writeMutex>>

SetReadStoreBase(p) ==
  /\ pc[p] = "storeBase"
  /\ basePosInFrame' = MovedBase(seen[p], target(p))
  /\ Goto(p, "storeRead")
  /\ UNCHANGED <<curWriteFrame, curReadFrame, slot, local, locks>>

SetReadStoreRead(p) ==
  /\ pc[p] = "storeRead"
  /\ curReadFrame' = target(p)
  /\ Finish(p)
  /\ UNCHANGED <<basePosInFrame, curWriteFrame, slot, local, writeMutex>>

\* FLUSH_STREAM is notified by the engine's thread, between two callbacks,
\* unless the client's wait_for runs out before.
FlushReturn ==
  /\ pc["flush"] = "notify"
  /\ pc["server"] = "idle" \/ NotifyTimesOut
  /\ Goto("flush", "idle")
  /\ writeMutex' = "none"
  /\ UNCHANGED <<ring, local, writeLock>>

----------------------------------------------------------------------------
ClientNext ==
  \/ WriteBegin \/ WaitWritable \/ WaitTimeout \/ LoadWritePos
  \/ WritableBase \/ WritableLimit \/ WriteOffset \/ CopyIn
  \/ SetWriteBase \/ SetWriteRead \/ SetWriteStore

ReaderNext(p) ==
  \/ ReadableBase(p) \/ ReadableAvail(p) \/ ReadableOffset(p) \/ Clear(p)
  \/ SetReadBase(p) \/ SetReadOld(p) \/ SetReadCheck(p)
  \/ SetReadStoreBase(p) \/ SetReadStoreRead(p)

ServerNext ==
  ServerBegin \/ ServerLoadWrite \/ Enqueue \/ ReaderNext("server")

FlushCall ==
  FlushLock \/ FlushLoad \/ FlushPos \/ ReaderNext("flush") \/ FlushReturn

FlushNext == FlushBegin \/ FlushCall

Next == ClientNext \/ ServerNext \/ FlushNext

Spec == Init /\ [][Next]_vars

\* The engine keeps calling back, and threads inside a call keep running.
\* Nothing makes the client begin a write or a flush.
WriteCall ==
  \/ WaitWritable \/ LoadWritePos \/ WritableBase \/ WritableLimit
  \/ WriteOffset \/ CopyIn \/ SetWriteBase \/ SetWriteRead \/ SetWriteStore

Fairness ==
  /\ WF_vars(WriteCall)
  /\ WF_vars(ServerNext)
  /\ WF_vars(FlushCall) /\ SF_vars(FlushLock)

FairSpec == Spec /\ Fairness

----------------------------------------------------------------------------
(* Properties.  Those of the playback path with writeLock_ are stated for  *)
(* HpaeEngine = FALSE.                                                     *)

TypeOK ==
  /\ basePosInFrame \in Nat /\ curWriteFrame \in Nat /\ curReadFrame \in Nat
  /\ slot \in [Slots -> Nat \cup {Silence}]
  /\ pc \in [Proc -> Label]
  /\ pos \in [Proc -> Nat] /\ len \in [Proc -> 0..Total]
  /\ off \in [Proc -> Slots] /\ seen \in [Proc -> Nat]
  /\ remain \in 0..MaxWrite
  /\ writeMutex \in {"none", "client", "flush"}
  /\ writeLock \in {"none", "server", "flush"}

\* The frames the client is copying in never share a slot with the frames
\* the server is copying out or clearing, whichever base position each of
\* them computed its offset from.
RegionsDisjoint ==
  \A p \in {"server", "flush"} :
    pc["client"] = "copy" /\ pc[p] \in {"enqueue", "clear"} =>
      Region(off["client"], len["client"]) \cap Region(off[p], len[p]) = {}

\* The engine is handed, in order, exactly the frames the client wrote at
\* the positions it serves: no frame of another lap, no cleared slot.
ServesWhatWasWritten ==
  pc["server"] = "enqueue" =>
    \A i \in Region(off["server"], len["server"]) :
      slot[i] = pos["server"] + Distance(off["server"], i)

\* WriteCacheData ignores the result of SetCurWriteFrame and counts the
\* frames as written, so SetCurWriteFrame must never refuse them.
CommitNeverRefused ==
  pc["client"] \in {"setBase", "setRead", "store"} =>
    /\ InRange(target("client"), basePosInFrame, 2 * Total)
    /\ CacheRange(target("client"), curReadFrame)

\* Between two moves of the read position the three positions are in the
\* ranges every function of the ring checks; a stream that leaves them can
\* neither be read nor flushed again.
PositionsInRange ==
  (\A p \in Proc : pc[p] # "storeRead") =>
    /\ InRange(curReadFrame, basePosInFrame, Total)
    /\ InRange(curWriteFrame, curReadFrame, Total + 1)

\* A span that was played or flushed is never offered again, and the base
\* position follows by whole laps.
ReadMovesForward ==
  [][/\ curReadFrame' >= curReadFrame
     /\ basePosInFrame' \in {basePosInFrame, basePosInFrame + Total}]_vars

\* What the client has written is played or flushed in the end.
WrittenIsConsumed ==
  \A n \in 0..(MaxFrame - 1) : curWriteFrame > n ~> curReadFrame > n

\* A client waiting on a full ring is let on when the engine calls back.
WriterProceeds == pc["client"] = "wait" ~> pc["client"] # "wait"

=============================================================================
