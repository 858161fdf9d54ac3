-------------------------- MODULE OHAudioBufferInv --------------------------
(***************************************************************************)
(* The inductive invariant behind the safety properties of OHAudioBuffer   *)
(* when the server's callbacks hold writeLock_ (HpaeEngine = FALSE).       *)
(***************************************************************************)
EXTENDS OHAudioBuffer

ASSUME Locked == HpaeEngine = FALSE

Reader == {"server", "flush"}

\* Where frame q lives in the data area, whatever the base position is.
Loc(q) == q % Total

\* Who may be at which label, and which locks it then holds.
ClientLabel == {"idle", "wait", "pos", "base", "limit", "offset", "copy",
                "setBase", "setRead", "store"}
ReadLabel   == {"base", "avail", "offset", "clear", "setBase", "setOld",
                "setCheck", "storeBase", "storeRead"}
ServerLabel == ReadLabel \cup {"idle", "load", "enqueue"}
FlushLabel  == ReadLabel \cup {"idle", "lock", "load", "pos", "notify"}

FlushHolds == {"load", "pos"} \cup ReadLabel

LockInv ==
  /\ pc["client"] \in ClientLabel
  /\ pc["server"] \in ServerLabel
  /\ pc["flush"] \in FlushLabel
  /\ writeMutex = "client" <=> pc["client"] # "idle"
  /\ writeMutex = "flush"  <=> pc["flush"] # "idle"
  /\ writeLock = "server"  <=> pc["server"] # "idle"
  /\ writeLock = "flush"   <=> pc["flush"] \in FlushHolds

RingInv ==
  /\ basePosInFrame % Total = 0
  /\ basePosInFrame <= curWriteFrame
  /\ curReadFrame < basePosInFrame + Total
  /\ curReadFrame <= curWriteFrame
  /\ curWriteFrame <= curReadFrame + Total
  /\ (\A p \in Reader : pc[p] # "storeRead") => basePosInFrame <= curReadFrame

\* Labels at which a reader has its region, has cleared it, or knows the
\* base position.
Sized   == {"offset", "enqueue", "clear", "setBase", "setOld", "setCheck",
            "storeBase", "storeRead"}
Cleared == {"setBase", "setOld", "setCheck", "storeBase", "storeRead"}

\* The holder of writeLock_ works on the frames from the read position on,
\* and what it loaded is still true.
ReaderInv(p) ==
  /\ pc[p] \in ReadLabel \cup {"enqueue"} =>
       pos[p] = curReadFrame /\ curReadFrame < curWriteFrame
  /\ p = "server" /\ pc[p] = "load" => pos[p] = curReadFrame
  /\ p = "flush" /\ pc[p] = "pos" => curReadFrame < curWriteFrame
  /\ pc[p] \in Sized => len[p] > 0 /\ target(p) <= curWriteFrame
  /\ pc[p] \in {"enqueue", "clear"} => off[p] = Loc(pos[p])
  /\ pc[p] \in {"avail", "setOld", "setCheck", "storeBase"} =>
       seen[p] = basePosInFrame
  /\ pc[p] = "storeBase" => target(p) >= basePosInFrame + Total
  /\ pc[p] = "storeRead" => InRange(target(p), basePosInFrame, Total)

\* The client works on the frames from the write position on, with room
\* that can only grow meanwhile.
ClientInv ==
  /\ pc["client"] # "idle" => remain > 0
  /\ pc["client"] = "pos" => curWriteFrame < curReadFrame + Total
  /\ pc["client"] \in {"base", "limit", "offset", "copy", "setBase",
                       "setRead", "store"} =>
       /\ pos["client"] = curWriteFrame
       /\ curWriteFrame < curReadFrame + Total
  /\ pc["client"] = "limit" =>
       /\ seen["client"] <= pos["client"]
       /\ pos["client"] < seen["client"] + 2 * Total
  /\ pc["client"] \in {"offset", "copy", "setBase", "setRead", "store"} =>
       /\ 0 < len["client"] /\ len["client"] <= remain
       /\ target("client") <= curReadFrame + Total
  /\ pc["client"] = "copy" => off["client"] = Loc(pos["client"])

\* Every frame between the read position (or the end of the span that was
\* just cleared) and the write position is in its slot, and so is every
\* frame the client has copied in but not yet committed.
SlotInv ==
  /\ \A q \in Nat :
       /\ curReadFrame <= q /\ q < curWriteFrame
       /\ \A p \in Reader : pc[p] \in Cleared => target(p) <= q
       => slot[Loc(q)] = q
  /\ pc["client"] \in {"setBase", "setRead", "store"} =>
       \A q \in Nat :
         pos["client"] <= q /\ q < target("client") => slot[Loc(q)] = q

IInv ==
  /\ TypeOK /\ LockInv /\ RingInv
  /\ ReaderInv("server") /\ ReaderInv("flush")
  /\ ClientInv /\ SlotInv

=============================================================================
