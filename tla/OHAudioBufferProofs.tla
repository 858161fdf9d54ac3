------------------------ MODULE OHAudioBufferProofs ------------------------
(***************************************************************************)
(* IInv is an inductive invariant of OHAudioBuffer with HpaeEngine = FALSE *)
(* for every size of the ring and of a span.  It implies the safety        *)
(* properties TLC checks on a small ring, and that the ring implements     *)
(* FrameFifo.                                                              *)
(***************************************************************************)
EXTENDS MCRing, TLAPS, SequenceTheorems

----------------------------------------------------------------------------
(* Positions and slots. *)

\* What Z3 is told of the division by Total.
LEMMA DivMod ==
  ASSUME NEW a \in Nat
  PROVE  /\ a \div Total \in Int /\ a % Total \in 0..(Total - 1)
         /\ a = Total * (a \div Total) + (a % Total)
  BY RingAssumption

\* A quotient and a remainder in range are the quotient and the remainder.
LEMMA RemainderUnique ==
  ASSUME NEW k \in Int, NEW r \in 0..(Total - 1), NEW a \in Nat,
         a = Total * k + r
  PROVE  a % Total = r
<1> DEFINE d == k - a \div Total
<1>1. Total \in Nat /\ Total > 0
  BY RingAssumption
<1>2. a \div Total \in Int /\ a % Total \in 0..(Total - 1)
      /\ a = Total * (a \div Total) + (a % Total)
  BY DivMod
<1>3. d \in Int /\ Total * d = (a % Total) - r
  BY <1>1, <1>2
<1>4. ~ (d >= 1)
  <2>1. SUFFICES ASSUME d >= 1 PROVE FALSE
    OBVIOUS
  <2>2. Total * d >= Total
    <3> HIDE DEF d
    <3> QED BY <2>1, <1>1, <1>3
  <2> QED BY <2>2, <1>3, <1>2, <1>1
<1>5. ~ (d <= -1)
  <2>1. SUFFICES ASSUME d <= -1 PROVE FALSE
    OBVIOUS
  <2>2. Total * d <= -Total
    <3> HIDE DEF d
    <3> QED BY <2>1, <1>1, <1>3
  <2> QED BY <2>2, <1>3, <1>2, <1>1
<1>6. d = 0
  BY <1>3, <1>4, <1>5
<1> HIDE DEF d
<1> QED BY <1>6, <1>3, <1>2, <1>1

\* GetOffsetByFrame yields the same slot from every base position that is a
\* whole number of laps and passes its range check.
LEMMA OffsetIsLoc ==
  ASSUME NEW b \in Nat, b % Total = 0, NEW q \in Nat, InRange(q, b, 2 * Total)
  PROVE  OffsetOf(q, b) = Loc(q)
<1>1. Total \in Nat /\ Total > 0
  BY RingAssumption
<1>2. b \div Total \in Int /\ b = Total * (b \div Total)
  BY DivMod, <1>1
<1>3. CASE q - b >= Total
  <2>1. q = Total * (b \div Total + 1) + (q - b - Total)
    BY <1>1, <1>2
  <2>2. q - b - Total \in 0..(Total - 1)
    BY <1>1, <1>3 DEF InRange
  <2>3. b \div Total + 1 \in Int
    BY <1>2
  <2>4. q % Total = q - b - Total
    BY <2>1, <2>2, <2>3, RemainderUnique
  <2> QED BY <2>4, <1>3 DEF OffsetOf, Loc
<1>4. CASE ~ (q - b >= Total)
  <2>1. q = Total * (b \div Total) + (q - b)
    BY <1>1, <1>2
  <2>2. q - b \in 0..(Total - 1)
    BY <1>1, <1>4 DEF InRange
  <2>3. q % Total = q - b
    BY <2>1, <2>2, <1>2, RemainderUnique
  <2> QED BY <2>3, <1>4 DEF OffsetOf, Loc
<1> QED BY <1>3, <1>4

\* Two different frames in the same slot are at least a lap apart.
LEMMA SameSlot ==
  ASSUME NEW q \in Nat, NEW r \in Nat, Loc(q) = Loc(r), q < r
  PROVE  r - q >= Total
<1> DEFINE d == r \div Total - q \div Total
<1>1. Total \in Nat /\ Total > 0
  BY RingAssumption
<1>2. q \div Total \in Int /\ q = Total * (q \div Total) + (q % Total)
      /\ q % Total \in Int
  BY DivMod
<1>3. r \div Total \in Int /\ r = Total * (r \div Total) + (r % Total)
  BY DivMod
<1>4. d \in Int /\ r - q = Total * d
  BY <1>1, <1>2, <1>3 DEF Loc
<1> HIDE DEF d
<1>5. d >= 1
  <2>1. SUFFICES ASSUME d <= 0 PROVE FALSE
    BY <1>4
  <2>2. Total * d <= 0
    BY <2>1, <1>4, <1>1
  <2> QED BY <2>2, <1>4
<1>6. Total * d >= Total
  BY <1>5, <1>4, <1>1
<1> QED BY <1>6, <1>4, <1>1

\* The next lap starts at a multiple of the ring's size again.
LEMMA NextLap ==
  ASSUME NEW b \in Nat, b % Total = 0
  PROVE  (b + Total) % Total = 0
<1>1. Total \in Nat /\ Total > 0
  BY RingAssumption
<1>2. b \div Total \in Int /\ b = Total * (b \div Total)
  BY DivMod, <1>1
<1>3. b + Total = Total * (b \div Total + 1) + 0
  BY <1>1, <1>2
<1>4. b \div Total + 1 \in Int /\ b + Total \in Nat /\ 0 \in 0..(Total - 1)
  BY <1>1, <1>2
<1> QED BY <1>3, <1>4, RemainderUnique

\* The slot at distance k from the slot of frame q is that of frame q + k.
LEMMA DistanceIsFrame ==
  ASSUME NEW q \in Nat, NEW i \in Slots
  PROVE  /\ Distance(Loc(q), i) \in 0..(Total - 1)
         /\ Loc(q + Distance(Loc(q), i)) = i
<1> DEFINE k == Distance(Loc(q), i)
<1>1. Total \in Nat /\ Total > 0
  BY RingAssumption
<1>2. q \div Total \in Int /\ q = Total * (q \div Total) + Loc(q)
      /\ Loc(q) \in 0..(Total - 1)
  BY DivMod DEF Loc
<1>3. k \in 0..(Total - 1)
  BY <1>1, <1>2 DEF Distance, Slots
<1>4. CASE i >= Loc(q)
  <2>1. q + k = Total * (q \div Total) + i
    BY <1>1, <1>2, <1>4 DEF Distance, Slots
  <2>2. q + k \in Nat /\ i \in 0..(Total - 1)
    BY <1>1, <1>3 DEF Slots
  <2>3. (q + k) % Total = i
    <3> HIDE DEF k
    <3> QED BY <2>1, <2>2, <1>2, RemainderUnique
  <2> QED BY <2>3, <1>3 DEF Loc
<1>5. CASE ~ (i >= Loc(q))
  <2>1. q + k = Total * (q \div Total + 1) + i
    BY <1>1, <1>2, <1>5 DEF Distance, Slots
  <2>2. q \div Total + 1 \in Int /\ q + k \in Nat /\ i \in 0..(Total - 1)
    BY <1>2, <1>3, <1>1 DEF Slots
  <2>3. (q + k) % Total = i
    <3> HIDE DEF k
    <3> QED BY <2>1, <2>2, RemainderUnique
  <2> QED BY <2>3, <1>3 DEF Loc
<1> QED BY <1>3, <1>4, <1>5

\* Every frame has a slot.
LEMMA LocInSlots ==
  ASSUME NEW q \in Nat
  PROVE  Loc(q) \in Slots
  BY DivMod DEF Loc, Slots

\* A frame less than a lap away from the n frames from p on is in their
\* region exactly when it is one of them.
LEMMA RegionOfFrames ==
  ASSUME NEW p \in Nat, NEW n \in 0..Total, NEW q \in Nat,
         q < p + Total, p + n <= q + Total
  PROVE  /\ Loc(q) \in Region(Loc(p), n) <=> (p <= q /\ q < p + n)
         /\ p <= q => Distance(Loc(p), Loc(q)) = q - p
<1>1. Total \in Nat /\ Total > 0
  BY RingAssumption
<1> DEFINE k == Distance(Loc(p), Loc(q))
<1>2. Loc(q) \in Slots
  BY LocInSlots
<1>3. k \in 0..(Total - 1) /\ Loc(p + k) = Loc(q)
  BY <1>2, DistanceIsFrame
<1>4. Loc(q) \in Region(Loc(p), n) <=> k < n
  BY <1>2 DEF Region
<1>5. p + k \in Nat
  BY <1>3, <1>1
<1> HIDE DEF k
<1>6. p + k < q => q - (p + k) >= Total
  BY <1>3, <1>5, SameSlot
<1>7. q < p + k => p + k - q >= Total
  BY <1>3, <1>5, SameSlot
<1>8. p <= q => k = q - p
  BY <1>1, <1>3, <1>6, <1>7
<1>9. q < p => ~ (k < n)
  BY <1>1, <1>3, <1>6, <1>7
<1> QED BY <1>1, <1>3, <1>4, <1>8, <1>9 DEF k

----------------------------------------------------------------------------
(* In a state of the invariant every check of the ring's functions passes: *)
(* what is left of an action is its effect when it does not return early.  *)

\* Every check WriteCacheData makes on the way succeeds.
LEMMA ClientChecks ==
  ASSUME TypeOK, RingInv, ClientInv
  PROVE  /\ pc["client"] = "pos" => curWriteFrame >= curReadFrame
         /\ pc["client"] = "limit" =>
              /\ InRange(pos["client"], seen["client"], 2 * Total)
              /\ pos["client"] >= curReadFrame
              /\ curReadFrame + Total >= pos["client"]
              /\ WritableFrames(curReadFrame, pos["client"]) \in 1..Total
         /\ pc["client"] = "offset" =>
              InRange(pos["client"], basePosInFrame, 2 * Total)
         /\ pc["client"] \in {"setBase", "setRead", "store"} =>
              /\ InRange(target("client"), basePosInFrame, 2 * Total)
              /\ CacheRange(target("client"), curReadFrame)
<1>1. /\ basePosInFrame \in Nat /\ curWriteFrame \in Nat
      /\ curReadFrame \in Nat /\ pos["client"] \in Nat
      /\ len["client"] \in Nat /\ seen["client"] \in Nat
      /\ Total \in Nat /\ Total > 0
  BY RingAssumption DEF TypeOK, Proc
<1>2. /\ basePosInFrame <= curWriteFrame
      /\ curReadFrame < basePosInFrame + Total
      /\ curReadFrame <= curWriteFrame
      /\ curWriteFrame <= curReadFrame + Total
  BY DEF RingInv
<1> QED
  BY <1>1, <1>2 DEF ClientInv, InRange, WritableFrames, CacheRange, target

\* What each step of the client does to positions, slots and locals.
LEMMA ClientEffects ==
  ASSUME TypeOK, RingInv, ClientInv
  PROVE  /\ LoadWritePos =>
              Goto("client", "base") /\ UNCHANGED <<writeMutex, remain>>
         /\ WritableLimit =>
              \E n \in 1..Total :
                /\ n <= remain /\ pos["client"] + n <= curReadFrame + Total
                /\ len' = [len EXCEPT !["client"] = n]
                /\ Goto("client", "offset")
                /\ UNCHANGED <<writeMutex, remain>>
         /\ WriteOffset =>
              /\ off' = [off EXCEPT !["client"] =
                           OffsetOf(pos["client"], basePosInFrame)]
              /\ Goto("client", "copy")
              /\ UNCHANGED <<writeMutex, remain>>
         /\ SetWriteBase =>
              Goto("client", "setRead") /\ UNCHANGED <<writeMutex, remain>>
         /\ SetWriteRead =>
              Goto("client", "store") /\ UNCHANGED <<writeMutex, remain>>
<1>1. LoadWritePos =>
        Goto("client", "base") /\ UNCHANGED <<writeMutex, remain>>
  BY ClientChecks DEF LoadWritePos
<1>2. ASSUME WritableLimit
      PROVE  \E n \in 1..Total :
               /\ n <= remain /\ pos["client"] + n <= curReadFrame + Total
               /\ len' = [len EXCEPT !["client"] = n]
               /\ Goto("client", "offset")
               /\ UNCHANGED <<writeMutex, remain>>
  <2> DEFINE size == WritableFrames(curReadFrame, pos["client"])
             n == MinOf(remain, size)
  <2>1. /\ size \in 1..Total /\ pc["client"] = "limit"
        /\ pos["client"] + size <= curReadFrame + Total
    BY <1>2, ClientChecks, RingAssumption
       DEF WritableLimit, WritableFrames, TypeOK, Proc
  <2>2. /\ len' = [len EXCEPT !["client"] = n]
        /\ Goto("client", "offset")
        /\ UNCHANGED <<writeMutex, remain>>
    BY <1>2, <2>1, ClientChecks DEF WritableLimit
  <2>3. n \in 1..Total /\ n <= remain /\ n <= size
    <3>1. remain \in Nat /\ remain > 0
      BY <2>1 DEF TypeOK, ClientInv
    <3> QED BY <3>1, <2>1, RingAssumption DEF MinOf
  <2>4. pos["client"] + n <= curReadFrame + Total
    BY <2>1, <2>3, RingAssumption DEF TypeOK, Proc
  <2> QED BY <2>2, <2>3, <2>4
<1>3. WriteOffset =>
        /\ off' = [off EXCEPT !["client"] =
                     OffsetOf(pos["client"], basePosInFrame)]
        /\ Goto("client", "copy")
        /\ UNCHANGED <<writeMutex, remain>>
  BY ClientChecks DEF WriteOffset
<1>4. SetWriteBase =>
        Goto("client", "setRead") /\ UNCHANGED <<writeMutex, remain>>
  BY ClientChecks DEF SetWriteBase
<1>5. SetWriteRead =>
        Goto("client", "store") /\ UNCHANGED <<writeMutex, remain>>
  BY ClientChecks DEF SetWriteRead
<1> QED BY <1>1, <1>2, <1>3, <1>4, <1>5

\* writeLock_ lets one reader at a time past its first label.
LEMMA OneReader ==
  ASSUME LockInv, NEW p \in Reader, NEW q \in Reader,
         pc[p] \in ReadLabel \cup {"enqueue"},
         pc[q] \in ReadLabel \cup {"enqueue"}
  PROVE  p = q
  BY DEF LockInv, Reader, ReadLabel, FlushHolds, FlushLabel, ServerLabel

\* Every check a reader makes on the way succeeds.
LEMMA ReaderChecks ==
  ASSUME TypeOK, LockInv, RingInv, NEW p \in Reader, ReaderInv(p)
  PROVE  /\ pc[p] = "avail" =>
              /\ InRange(pos[p], seen[p], Total)
              /\ curWriteFrame - pos[p] \in 1..Total
         /\ pc[p] = "offset" =>
              InRange(pos[p], basePosInFrame, 2 * Total)
         /\ pc[p] = "setOld" => target(p) > curReadFrame
         /\ pc[p] = "setCheck" => target(p) <= curWriteFrame
<1>1. /\ basePosInFrame \in Nat /\ curWriteFrame \in Nat
      /\ curReadFrame \in Nat /\ pos[p] \in Nat
      /\ len[p] \in Nat /\ seen[p] \in Nat
      /\ Total \in Nat /\ Total > 0
  BY RingAssumption DEF TypeOK, Proc, Reader
<1>2. ASSUME pc[p] \in {"avail", "offset"}
      PROVE  basePosInFrame <= curReadFrame
  <2>1. \A q \in Reader : pc[q] # "storeRead"
    BY <1>2, OneReader DEF ReadLabel
  <2> QED BY <2>1 DEF RingInv
<1>3. /\ curReadFrame < basePosInFrame + Total
      /\ curWriteFrame <= curReadFrame + Total
  BY DEF RingInv
<1> QED BY <1>1, <1>2, <1>3
        DEF ReaderInv, ReadLabel, Sized, InRange, target

\* What each step of a reader does to positions, slots and locals.
LEMMA ReaderEffects ==
  ASSUME TypeOK, LockInv, RingInv, NEW p \in Reader, ReaderInv(p)
  PROVE  /\ ReadableAvail(p) =>
              /\ \E n \in 1..Total :
                   /\ len' = [len EXCEPT ![p] = n]
                   /\ pos[p] + n <= curWriteFrame
              /\ Goto(p, "offset") /\ writeLock' = writeLock
         /\ ReadableOffset(p) =>
              /\ off' = [off EXCEPT ![p] = OffsetOf(pos[p], basePosInFrame)]
              /\ Goto(p, IF p = "server" THEN "enqueue" ELSE "clear")
              /\ writeLock' = writeLock
         /\ SetReadOld(p) => Goto(p, "setCheck") /\ writeLock' = writeLock
         /\ SetReadCheck(p) =>
              /\ Goto(p, IF MovesBase(p) THEN "storeBase" ELSE "storeRead")
              /\ writeLock' = writeLock
<1>1. ASSUME ReadableAvail(p)
      PROVE  /\ \E n \in 1..Total :
                  /\ len' = [len EXCEPT ![p] = n]
                  /\ pos[p] + n <= curWriteFrame
             /\ Goto(p, "offset") /\ writeLock' = writeLock
  <2> DEFINE size == curWriteFrame - pos[p]
             n == Taken(p, size)
  <2>1. /\ InRange(pos[p], seen[p], Total) /\ size \in 1..Total
    BY <1>1, ReaderChecks DEF ReadableAvail
  <2>2. n \in 1..Total /\ n <= size
    BY <2>1, Locked, RingAssumption DEF Taken, MinOf, Reader
  <2>3. /\ len' = [len EXCEPT ![p] = n]
        /\ Goto(p, "offset") /\ writeLock' = writeLock
    <3>1. n > 0 /\ n # 0 /\ size \in 0..Total
      BY <2>1, <2>2, RingAssumption
    <3> QED BY <1>1, <2>1, <3>1 DEF ReadableAvail
  <2>4. pos[p] + n <= curWriteFrame
    BY <2>1, <2>2, RingAssumption DEF TypeOK, Proc, Reader
  <2> QED BY <2>2, <2>3, <2>4
<1>2. ReadableOffset(p) =>
        /\ off' = [off EXCEPT ![p] = OffsetOf(pos[p], basePosInFrame)]
        /\ Goto(p, IF p = "server" THEN "enqueue" ELSE "clear")
        /\ writeLock' = writeLock
  BY ReaderChecks DEF ReadableOffset
<1>3. SetReadOld(p) => Goto(p, "setCheck") /\ writeLock' = writeLock
  BY ReaderChecks DEF SetReadOld
<1>4. SetReadCheck(p) =>
        /\ Goto(p, IF MovesBase(p) THEN "storeBase" ELSE "storeRead")
        /\ writeLock' = writeLock
  BY ReaderChecks DEF SetReadCheck
<1> QED BY <1>1, <1>2, <1>3, <1>4

\* The offset the client copies to is the slot of its first frame.
LEMMA ClientOffset ==
  ASSUME TypeOK, RingInv, ClientInv, pc["client"] = "offset"
  PROVE  /\ pos["client"] \in Nat
         /\ OffsetOf(pos["client"], basePosInFrame) = Loc(pos["client"])
<1>1. InRange(pos["client"], basePosInFrame, 2 * Total)
  BY ClientChecks
<1>2. /\ basePosInFrame \in Nat /\ pos["client"] \in Nat
      /\ basePosInFrame % Total = 0
  BY DEF TypeOK, RingInv, Proc
<1> QED BY <1>1, <1>2, OffsetIsLoc

\* The offset a reader works from is the slot of its first frame.
LEMMA ReaderOffset ==
  ASSUME TypeOK, LockInv, RingInv, NEW p \in Reader, ReaderInv(p),
         pc[p] = "offset"
  PROVE  pos[p] \in Nat /\ OffsetOf(pos[p], basePosInFrame) = Loc(pos[p])
<1>1. InRange(pos[p], basePosInFrame, 2 * Total)
  BY ReaderChecks
<1>2. /\ basePosInFrame \in Nat /\ pos[p] \in Nat
      /\ basePosInFrame % Total = 0
  BY DEF TypeOK, RingInv, Proc, Reader
<1> QED BY <1>1, <1>2, OffsetIsLoc


\* Every step keeps the variables in their domains.
LEMMA TypeStep ==
  ASSUME IInv, [Next]_vars
  PROVE  TypeOK'
<1> USE RingAssumption, Locked DEF IInv, ring, local, locks, Goto, TypeOK, Proc, Label, Reader
<1>1. CASE WriteBegin
  BY <1>1 DEF WriteBegin
<1>2. CASE WaitWritable
  BY <1>2 DEF WaitWritable, GetWritableDataFrames, InRange
<1>3. CASE WaitTimeout
  BY <1>3 DEF WaitTimeout, WriteReturn
<1>4. CASE LoadWritePos
  BY <1>4, ClientEffects DEF LoadWritePos
<1>5. CASE WritableBase
  BY <1>5 DEF WritableBase
<1>6. CASE WritableLimit
  <2>1. PICK n \in 1..Total : /\ len' = [len EXCEPT !["client"] = n]
                              /\ Goto("client", "offset")
                              /\ UNCHANGED <<writeMutex, remain>>
    BY <1>6, ClientEffects
  <2>2. n \in 0..Total
    OBVIOUS
  <2> QED BY <1>6, <2>1, <2>2 DEF WritableLimit
<1>7. CASE WriteOffset
  <2>1. OffsetOf(pos["client"], basePosInFrame) \in Slots
    BY <1>7, ClientOffset, LocInSlots DEF WriteOffset
  <2> QED BY <1>7, <2>1, ClientEffects DEF WriteOffset
<1>8. CASE CopyIn
  <2>1. ASSUME NEW i \in Slots
        PROVE  pos["client"] + Distance(off["client"], i) \in Nat
    <3>1. /\ i \in Nat /\ off["client"] \in Nat /\ off["client"] < Total
          /\ Total \in Nat /\ pos["client"] \in Nat
      BY DEF Slots
    <3>2. Distance(off["client"], i) \in Nat
      BY <3>1 DEF Distance
    <3> QED BY <3>1, <3>2
  <2>2. slot' \in [Slots -> Nat \cup {Silence}]
    BY <1>8, <2>1 DEF CopyIn, Stored
  <2> QED BY <1>8, <2>2 DEF CopyIn
<1>9. CASE SetWriteBase
  BY <1>9, ClientEffects DEF SetWriteBase
<1>10. CASE SetWriteRead
  BY <1>10, ClientEffects DEF SetWriteRead
<1>11. CASE SetWriteStore
  <2>1. target("client") \in Nat /\ remain - len["client"] \in 0..MaxWrite
    BY <1>11 DEF SetWriteStore, ClientInv, target
  <2> QED BY <1>11, <2>1 DEF SetWriteStore, NextRound, WriteReturn
<1>12. CASE ServerBegin
  BY <1>12 DEF ServerBegin, ServerMayEnter
<1>13. CASE ServerLoadWrite
  BY <1>13 DEF ServerLoadWrite, Finish
<1>14. CASE Enqueue
  BY <1>14 DEF Enqueue
<1>15. CASE FlushBegin
  BY <1>15 DEF FlushBegin
<1>16. CASE FlushLock
  BY <1>16 DEF FlushLock
<1>17. CASE FlushLoad
  BY <1>17 DEF FlushLoad, Finish
<1>18. CASE FlushPos
  BY <1>18 DEF FlushPos
<1>19. CASE FlushReturn
  BY <1>19 DEF FlushReturn
<1>20. ASSUME NEW p \in Reader, ReadableBase(p) PROVE TypeOK'
  BY <1>20 DEF ReadableBase
<1>21. ASSUME NEW p \in Reader, ReadableAvail(p) PROVE TypeOK'
  <2>1. ReaderInv(p)
    BY DEF Reader
  <2> QED BY <1>21, <2>1, ReaderEffects DEF ReadableAvail
<1>22. ASSUME NEW p \in Reader, ReadableOffset(p) PROVE TypeOK'
  <2>1. ReaderInv(p)
    BY DEF Reader
  <2>2. OffsetOf(pos[p], basePosInFrame) \in Slots
    BY <1>22, <2>1, ReaderOffset, LocInSlots DEF ReadableOffset
  <2> QED BY <1>22, <2>1, <2>2, ReaderEffects DEF ReadableOffset
<1>23. ASSUME NEW p \in Reader, Clear(p) PROVE TypeOK'
  BY <1>23 DEF Clear, Region, Distance, Slots
<1>24. ASSUME NEW p \in Reader, SetReadBase(p) PROVE TypeOK'
  BY <1>24 DEF SetReadBase
<1>25. ASSUME NEW p \in Reader, SetReadOld(p) PROVE TypeOK'
  <2>1. ReaderInv(p)
    BY DEF Reader
  <2> QED BY <1>25, <2>1, ReaderEffects DEF SetReadOld
<1>26. ASSUME NEW p \in Reader, SetReadCheck(p) PROVE TypeOK'
  <2>1. ReaderInv(p)
    BY DEF Reader
  <2> QED BY <1>26, <2>1, ReaderEffects DEF SetReadCheck, MovesBase, AtLeast
<1>27. ASSUME NEW p \in Reader, SetReadStoreBase(p) PROVE TypeOK'
  BY <1>27 DEF SetReadStoreBase, MovedBase
<1>28. ASSUME NEW p \in Reader, SetReadStoreRead(p) PROVE TypeOK'
  BY <1>28 DEF SetReadStoreRead, Finish, target
<1>29. CASE UNCHANGED vars
  BY <1>29 DEF vars
<1> HIDE DEF IInv, TypeOK, Proc, Label, Reader
<1> QED
  BY <1>1, <1>2, <1>3, <1>4, <1>5, <1>6, <1>7, <1>8, <1>9, <1>10, <1>11, <1>12, <1>13, <1>14, <1>15, <1>16, <1>17, <1>18, <1>19, <1>20, <1>21, <1>22, <1>23, <1>24, <1>25, <1>26, <1>27, <1>28, <1>29 DEF Next, ClientNext, ServerNext, FlushNext, FlushCall, ReaderNext, Reader

\* Every step keeps the two mutexes with the processes that are in them.
LEMMA LockStep ==
  ASSUME IInv, [Next]_vars
  PROVE  LockInv'
<1> USE RingAssumption, Locked DEF IInv, ring, local, locks, Goto, TypeOK, Proc, LockInv, Reader, ClientLabel, ReadLabel, ServerLabel, FlushLabel, FlushHolds
<1>1. CASE WriteBegin
  BY <1>1 DEF WriteBegin
<1>2. CASE WaitWritable
  BY <1>2 DEF WaitWritable, GetWritableDataFrames, InRange
<1>3. CASE WaitTimeout
  BY <1>3 DEF WaitTimeout, WriteReturn
<1>4. CASE LoadWritePos
  BY <1>4, ClientEffects DEF LoadWritePos
<1>5. CASE WritableBase
  BY <1>5 DEF WritableBase
<1>6. CASE WritableLimit
  BY <1>6, ClientEffects DEF WritableLimit
<1>7. CASE WriteOffset
  BY <1>7, ClientEffects DEF WriteOffset
<1>8. CASE CopyIn
  BY <1>8 DEF CopyIn
<1>9. CASE SetWriteBase
  BY <1>9, ClientEffects DEF SetWriteBase
<1>10. CASE SetWriteRead
  BY <1>10, ClientEffects DEF SetWriteRead
<1>11. CASE SetWriteStore
  BY <1>11 DEF SetWriteStore, NextRound, WriteReturn
<1>12. CASE ServerBegin
  BY <1>12 DEF ServerBegin, ServerMayEnter
<1>13. CASE ServerLoadWrite
  BY <1>13 DEF ServerLoadWrite, Finish
<1>14. CASE Enqueue
  BY <1>14 DEF Enqueue
<1>15. CASE FlushBegin
  BY <1>15 DEF FlushBegin
<1>16. CASE FlushLock
  BY <1>16 DEF FlushLock
<1>17. CASE FlushLoad
  BY <1>17 DEF FlushLoad, Finish
<1>18. CASE FlushPos
  BY <1>18 DEF FlushPos
<1>19. CASE FlushReturn
  BY <1>19 DEF FlushReturn
<1>20. ASSUME NEW p \in Reader, ReadableBase(p) PROVE LockInv'
  BY <1>20 DEF ReadableBase
<1>21. ASSUME NEW p \in Reader, ReadableAvail(p) PROVE LockInv'
  <2>1. ReaderInv(p)
    BY DEF Reader
  <2> QED BY <1>21, <2>1, ReaderEffects DEF ReadableAvail
<1>22. ASSUME NEW p \in Reader, ReadableOffset(p) PROVE LockInv'
  <2>1. ReaderInv(p)
    BY DEF Reader
  <2> QED BY <1>22, <2>1, ReaderEffects DEF ReadableOffset
<1>23. ASSUME NEW p \in Reader, Clear(p) PROVE LockInv'
  BY <1>23 DEF Clear
<1>24. ASSUME NEW p \in Reader, SetReadBase(p) PROVE LockInv'
  BY <1>24 DEF SetReadBase
<1>25. ASSUME NEW p \in Reader, SetReadOld(p) PROVE LockInv'
  <2>1. ReaderInv(p)
    BY DEF Reader
  <2> QED BY <1>25, <2>1, ReaderEffects DEF SetReadOld
<1>26. ASSUME NEW p \in Reader, SetReadCheck(p) PROVE LockInv'
  <2>1. ReaderInv(p)
    BY DEF Reader
  <2> QED BY <1>26, <2>1, ReaderEffects DEF SetReadCheck, MovesBase, AtLeast
<1>27. ASSUME NEW p \in Reader, SetReadStoreBase(p) PROVE LockInv'
  BY <1>27 DEF SetReadStoreBase, MovedBase
<1>28. ASSUME NEW p \in Reader, SetReadStoreRead(p) PROVE LockInv'
  BY <1>28 DEF SetReadStoreRead, Finish
<1>29. CASE UNCHANGED vars
  BY <1>29 DEF vars
<1> HIDE DEF IInv, TypeOK, Proc, LockInv, Reader, ClientLabel, ReadLabel, ServerLabel, FlushLabel, FlushHolds
<1> QED
  BY <1>1, <1>2, <1>3, <1>4, <1>5, <1>6, <1>7, <1>8, <1>9, <1>10, <1>11, <1>12, <1>13, <1>14, <1>15, <1>16, <1>17, <1>18, <1>19, <1>20, <1>21, <1>22, <1>23, <1>24, <1>25, <1>26, <1>27, <1>28, <1>29 DEF Next, ClientNext, ServerNext, FlushNext, FlushCall, ReaderNext, Reader

\* Every step keeps the three positions in range.
LEMMA RingStep ==
  ASSUME IInv, [Next]_vars
  PROVE  RingInv'
<1> USE RingAssumption, Locked DEF IInv, ring, local, locks, Goto, TypeOK, Proc, RingInv, Reader
<1>1. CASE WriteBegin
  BY <1>1 DEF WriteBegin
<1>2. CASE WaitWritable
  BY <1>2 DEF WaitWritable, GetWritableDataFrames, InRange
<1>3. CASE WaitTimeout
  BY <1>3 DEF WaitTimeout, WriteReturn
<1>4. CASE LoadWritePos
  BY <1>4, ClientEffects DEF LoadWritePos
<1>5. CASE WritableBase
  BY <1>5 DEF WritableBase
<1>6. CASE WritableLimit
  BY <1>6, ClientEffects DEF WritableLimit
<1>7. CASE WriteOffset
  BY <1>7, ClientEffects DEF WriteOffset
<1>8. CASE CopyIn
  BY <1>8 DEF CopyIn
<1>9. CASE SetWriteBase
  BY <1>9, ClientEffects DEF SetWriteBase
<1>10. CASE SetWriteRead
  BY <1>10, ClientEffects DEF SetWriteRead
<1>11. CASE SetWriteStore
  BY <1>11 DEF SetWriteStore, NextRound, WriteReturn, target, ClientInv
<1>12. CASE ServerBegin
  BY <1>12 DEF ServerBegin, ServerMayEnter
<1>13. CASE ServerLoadWrite
  BY <1>13 DEF ServerLoadWrite, Finish
<1>14. CASE Enqueue
  BY <1>14 DEF Enqueue
<1>15. CASE FlushBegin
  BY <1>15 DEF FlushBegin
<1>16. CASE FlushLock
  BY <1>16 DEF FlushLock
<1>17. CASE FlushLoad
  BY <1>17 DEF FlushLoad, Finish
<1>18. CASE FlushPos
  BY <1>18 DEF FlushPos
<1>19. CASE FlushReturn
  BY <1>19 DEF FlushReturn
<1>20. ASSUME NEW p \in Reader, ReadableBase(p) PROVE RingInv'
  BY <1>20 DEF ReadableBase
<1>21. ASSUME NEW p \in Reader, ReadableAvail(p) PROVE RingInv'
  <2>1. ReaderInv(p)
    BY DEF Reader
  <2> QED BY <1>21, <2>1, ReaderEffects DEF ReadableAvail
<1>22. ASSUME NEW p \in Reader, ReadableOffset(p) PROVE RingInv'
  <2>1. ReaderInv(p)
    BY DEF Reader
  <2> QED BY <1>22, <2>1, ReaderEffects DEF ReadableOffset
<1>23. ASSUME NEW p \in Reader, Clear(p) PROVE RingInv'
  BY <1>23 DEF Clear
<1>24. ASSUME NEW p \in Reader, SetReadBase(p) PROVE RingInv'
  BY <1>24 DEF SetReadBase
<1>25. ASSUME NEW p \in Reader, SetReadOld(p) PROVE RingInv'
  <2>1. ReaderInv(p)
    BY DEF Reader
  <2> QED BY <1>25, <2>1, ReaderEffects DEF SetReadOld
<1>26. ASSUME NEW p \in Reader, SetReadCheck(p) PROVE RingInv'
  <2>1. ReaderInv(p)
    BY DEF Reader
  <2> QED BY <1>26, <2>1, ReaderEffects DEF SetReadCheck, MovesBase, AtLeast
<1>27. ASSUME NEW p \in Reader, SetReadStoreBase(p) PROVE RingInv'
  <2>1. /\ seen[p] = basePosInFrame /\ pos[p] = curReadFrame
        /\ target(p) >= basePosInFrame + Total /\ target(p) <= curWriteFrame
    BY <1>27 DEF SetReadStoreBase, ReaderInv, ReadLabel, Sized
  <2>2. basePosInFrame' = basePosInFrame + Total
    BY <1>27, <2>1 DEF SetReadStoreBase, MovedBase
  <2>3. basePosInFrame' % Total = 0
    BY <2>2, NextLap
  <2>4. pc'[p] = "storeRead" /\ UNCHANGED <<curWriteFrame, curReadFrame>>
    BY <1>27 DEF SetReadStoreBase
  <2>5. target(p) \in Nat
    BY DEF target
  <2> QED BY <2>1, <2>2, <2>3, <2>4, <2>5
<1>28. ASSUME NEW p \in Reader, SetReadStoreRead(p) PROVE RingInv'
  <2>1. /\ InRange(target(p), basePosInFrame, Total)
        /\ target(p) <= curWriteFrame /\ curReadFrame <= target(p)
    BY <1>28 DEF SetReadStoreRead, ReaderInv, ReadLabel, Sized, target
  <2>2. /\ curReadFrame' = target(p) /\ target(p) \in Nat
        /\ UNCHANGED <<basePosInFrame, curWriteFrame>>
    BY <1>28 DEF SetReadStoreRead, target
  <2> QED BY <2>1, <2>2 DEF InRange
<1>29. CASE UNCHANGED vars
  BY <1>29 DEF vars
<1> HIDE DEF IInv, TypeOK, Proc, RingInv, Reader
<1> QED
  BY <1>1, <1>2, <1>3, <1>4, <1>5, <1>6, <1>7, <1>8, <1>9, <1>10, <1>11, <1>12, <1>13, <1>14, <1>15, <1>16, <1>17, <1>18, <1>19, <1>20, <1>21, <1>22, <1>23, <1>24, <1>25, <1>26, <1>27, <1>28, <1>29 DEF Next, ClientNext, ServerNext, FlushNext, FlushCall, ReaderNext, Reader

\* Every step keeps what the holder of writeLock_ has loaded true.
LEMMA ReaderStep ==
  ASSUME IInv, [Next]_vars
  PROVE  ReaderInv("server")' /\ ReaderInv("flush")'
<1> USE RingAssumption, Locked DEF IInv, ring, local, locks, Goto, TypeOK, Proc, LockInv, ReaderInv, target, Reader, ClientLabel, ReadLabel, ServerLabel, FlushLabel, FlushHolds, Sized
<1>1. CASE WriteBegin
  BY <1>1 DEF WriteBegin
<1>2. CASE WaitWritable
  BY <1>2 DEF WaitWritable, GetWritableDataFrames, InRange
<1>3. CASE WaitTimeout
  BY <1>3 DEF WaitTimeout, WriteReturn
<1>4. CASE LoadWritePos
  BY <1>4, ClientEffects DEF LoadWritePos
<1>5. CASE WritableBase
  BY <1>5 DEF WritableBase
<1>6. CASE WritableLimit
  BY <1>6, ClientEffects DEF WritableLimit
<1>7. CASE WriteOffset
  BY <1>7, ClientEffects DEF WriteOffset
<1>8. CASE CopyIn
  BY <1>8 DEF CopyIn
<1>9. CASE SetWriteBase
  BY <1>9, ClientEffects DEF SetWriteBase
<1>10. CASE SetWriteRead
  BY <1>10, ClientEffects DEF SetWriteRead
<1>11. CASE SetWriteStore
  <2>1. curWriteFrame' >= curWriteFrame /\ curWriteFrame' \in Nat
    BY <1>11 DEF SetWriteStore, ClientInv
  <2>2. \A p \in Reader : pc'[p] = pc[p]
    BY <1>11 DEF SetWriteStore, NextRound, WriteReturn
  <2> QED BY <1>11, <2>1, <2>2 DEF SetWriteStore
<1>12. CASE ServerBegin
  BY <1>12 DEF ServerBegin, ServerMayEnter
<1>13. CASE ServerLoadWrite
  BY <1>13 DEF ServerLoadWrite, Finish
<1>14. CASE Enqueue
  BY <1>14 DEF Enqueue
<1>15. CASE FlushBegin
  BY <1>15 DEF FlushBegin
<1>16. CASE FlushLock
  BY <1>16 DEF FlushLock
<1>17. CASE FlushLoad
  BY <1>17 DEF FlushLoad, Finish
<1>18. CASE FlushPos
  BY <1>18 DEF FlushPos
<1>19. CASE FlushReturn
  BY <1>19 DEF FlushReturn
<1>20. ASSUME NEW p \in Reader, ReadableBase(p) PROVE ReaderInv("server")' /\ ReaderInv("flush")'
  BY <1>20 DEF ReadableBase
<1>21. ASSUME NEW p \in Reader, ReadableAvail(p) PROVE ReaderInv("server")' /\ ReaderInv("flush")'
  <2>1. ReaderInv(p)
    BY DEF Reader
  <2> QED BY <1>21, <2>1, ReaderEffects DEF ReadableAvail
<1>22. ASSUME NEW p \in Reader, ReadableOffset(p)
   PROVE  ReaderInv("server")' /\ ReaderInv("flush")'
  <2>1. ReaderInv(p)
    BY DEF Reader
  <2>2. OffsetOf(pos[p], basePosInFrame) = Loc(pos[p])
    BY <1>22, <2>1, ReaderOffset DEF ReadableOffset
  <2> QED BY <1>22, <2>1, <2>2, ReaderEffects DEF ReadableOffset
<1>23. ASSUME NEW p \in Reader, Clear(p) PROVE ReaderInv("server")' /\ ReaderInv("flush")'
  BY <1>23 DEF Clear
<1>24. ASSUME NEW p \in Reader, SetReadBase(p) PROVE ReaderInv("server")' /\ ReaderInv("flush")'
  BY <1>24 DEF SetReadBase
<1>25. ASSUME NEW p \in Reader, SetReadOld(p) PROVE ReaderInv("server")' /\ ReaderInv("flush")'
  <2>1. ReaderInv(p)
    BY DEF Reader
  <2> QED BY <1>25, <2>1, ReaderEffects DEF SetReadOld
<1>26. ASSUME NEW p \in Reader, SetReadCheck(p) PROVE ReaderInv("server")' /\ ReaderInv("flush")'
  <2>1. ReaderInv(p)
    BY DEF Reader
  <2> QED BY <1>26, <2>1, ReaderEffects DEF SetReadCheck, MovesBase, AtLeast, RingInv, InRange
<1>27. ASSUME NEW p \in Reader, SetReadStoreBase(p) PROVE ReaderInv("server")' /\ ReaderInv("flush")'
  BY <1>27 DEF SetReadStoreBase, MovedBase, RingInv, InRange
<1>28. ASSUME NEW p \in Reader, SetReadStoreRead(p) PROVE ReaderInv("server")' /\ ReaderInv("flush")'
  BY <1>28 DEF SetReadStoreRead, Finish
<1>29. CASE UNCHANGED vars
  BY <1>29 DEF vars
<1> HIDE DEF IInv, TypeOK, Proc, LockInv, ReaderInv, target, Reader, ClientLabel, ReadLabel, ServerLabel, FlushLabel, FlushHolds, Sized
<1> QED
  BY <1>1, <1>2, <1>3, <1>4, <1>5, <1>6, <1>7, <1>8, <1>9, <1>10, <1>11, <1>12, <1>13, <1>14, <1>15, <1>16, <1>17, <1>18, <1>19, <1>20, <1>21, <1>22, <1>23, <1>24, <1>25, <1>26, <1>27, <1>28, <1>29 DEF Next, ClientNext, ServerNext, FlushNext, FlushCall, ReaderNext, Reader

\* Every step keeps what the client has loaded true enough to copy.
LEMMA ClientStep ==
  ASSUME IInv, [Next]_vars
  PROVE  ClientInv'
<1> USE RingAssumption, Locked DEF IInv, ring, local, locks, Goto, TypeOK, Proc, RingInv, ClientInv, target, Reader
<1>1. CASE WriteBegin
  BY <1>1 DEF WriteBegin
<1>2. CASE WaitWritable
  BY <1>2 DEF WaitWritable, GetWritableDataFrames, InRange, RingInv
<1>3. CASE WaitTimeout
  BY <1>3 DEF WaitTimeout, WriteReturn
<1>4. CASE LoadWritePos
  BY <1>4, ClientEffects DEF LoadWritePos
<1>5. CASE WritableBase
  BY <1>5 DEF WritableBase
<1>6. CASE WritableLimit
  BY <1>6, ClientEffects DEF WritableLimit
<1>7. CASE WriteOffset
  <2>1. OffsetOf(pos["client"], basePosInFrame) = Loc(pos["client"])
    BY <1>7, ClientOffset DEF WriteOffset
  <2> QED BY <1>7, <2>1, ClientEffects DEF WriteOffset
<1>8. CASE CopyIn
  BY <1>8 DEF CopyIn
<1>9. CASE SetWriteBase
  BY <1>9, ClientEffects DEF SetWriteBase
<1>10. CASE SetWriteRead
  BY <1>10, ClientEffects DEF SetWriteRead
<1>11. CASE SetWriteStore
  BY <1>11 DEF SetWriteStore, NextRound, WriteReturn
<1>12. CASE ServerBegin
  BY <1>12 DEF ServerBegin, ServerMayEnter
<1>13. CASE ServerLoadWrite
  BY <1>13 DEF ServerLoadWrite, Finish
<1>14. CASE Enqueue
  BY <1>14 DEF Enqueue
<1>15. CASE FlushBegin
  BY <1>15 DEF FlushBegin
<1>16. CASE FlushLock
  BY <1>16 DEF FlushLock
<1>17. CASE FlushLoad
  BY <1>17 DEF FlushLoad, Finish
<1>18. CASE FlushPos
  BY <1>18 DEF FlushPos
<1>19. CASE FlushReturn
  BY <1>19 DEF FlushReturn
<1>20. ASSUME NEW p \in Reader, ReadableBase(p) PROVE ClientInv'
  BY <1>20 DEF ReadableBase
<1>21. ASSUME NEW p \in Reader, ReadableAvail(p) PROVE ClientInv'
  <2>1. ReaderInv(p)
    BY DEF Reader
  <2> QED BY <1>21, <2>1, ReaderEffects DEF ReadableAvail
<1>22. ASSUME NEW p \in Reader, ReadableOffset(p) PROVE ClientInv'
  <2>1. ReaderInv(p)
    BY DEF Reader
  <2> QED BY <1>22, <2>1, ReaderEffects DEF ReadableOffset
<1>23. ASSUME NEW p \in Reader, Clear(p) PROVE ClientInv'
  BY <1>23 DEF Clear
<1>24. ASSUME NEW p \in Reader, SetReadBase(p) PROVE ClientInv'
  BY <1>24 DEF SetReadBase
<1>25. ASSUME NEW p \in Reader, SetReadOld(p) PROVE ClientInv'
  <2>1. ReaderInv(p)
    BY DEF Reader
  <2> QED BY <1>25, <2>1, ReaderEffects DEF SetReadOld
<1>26. ASSUME NEW p \in Reader, SetReadCheck(p) PROVE ClientInv'
  <2>1. ReaderInv(p)
    BY DEF Reader
  <2> QED BY <1>26, <2>1, ReaderEffects DEF SetReadCheck, MovesBase, AtLeast
<1>27. ASSUME NEW p \in Reader, SetReadStoreBase(p) PROVE ClientInv'
  BY <1>27 DEF SetReadStoreBase, MovedBase
<1>28. ASSUME NEW p \in Reader, SetReadStoreRead(p) PROVE ClientInv'
  BY <1>28 DEF SetReadStoreRead, Finish, ReaderInv, LockInv, ReadLabel, Sized
<1>29. CASE UNCHANGED vars
  BY <1>29 DEF vars
<1> HIDE DEF IInv, TypeOK, Proc, RingInv, ClientInv, target, Reader
<1> QED
  BY <1>1, <1>2, <1>3, <1>4, <1>5, <1>6, <1>7, <1>8, <1>9, <1>10, <1>11, <1>12, <1>13, <1>14, <1>15, <1>16, <1>17, <1>18, <1>19, <1>20, <1>21, <1>22, <1>23, <1>24, <1>25, <1>26, <1>27, <1>28, <1>29 DEF Next, ClientNext, ServerNext, FlushNext, FlushCall, ReaderNext, Reader

\* Every step keeps the frames that can still be served in their slots.
LEMMA SlotStep ==
  ASSUME IInv, [Next]_vars
  PROVE  SlotInv'
<1> USE RingAssumption, Locked DEF IInv, ring, local, locks, Goto, TypeOK, Proc, SlotInv, target, Reader, Cleared
<1>1. CASE WriteBegin
  BY <1>1 DEF WriteBegin
<1>2. CASE WaitWritable
  BY <1>2 DEF WaitWritable, GetWritableDataFrames, InRange
<1>3. CASE WaitTimeout
  BY <1>3 DEF WaitTimeout, WriteReturn
<1>4. CASE LoadWritePos
  BY <1>4, ClientEffects DEF LoadWritePos
<1>5. CASE WritableBase
  BY <1>5 DEF WritableBase
<1>6. CASE WritableLimit
  BY <1>6, ClientEffects DEF WritableLimit
<1>7. CASE WriteOffset
  BY <1>7, ClientEffects DEF WriteOffset
<1>8. CASE CopyIn
  <2> DEFINE w == pos["client"]
             n == len["client"]
  <2>1. /\ w = curWriteFrame /\ off["client"] = Loc(w)
        /\ w + n <= curReadFrame + Total
    BY <1>8 DEF CopyIn, ClientInv
  <2>2. /\ w \in Nat /\ n \in 0..Total /\ curReadFrame \in Nat
        /\ curReadFrame <= curWriteFrame
    BY DEF RingInv
  <2>3. ASSUME NEW q \in Nat, curReadFrame <= q, q < w + n
        PROVE  slot'[Loc(q)] = IF w <= q THEN q ELSE slot[Loc(q)]
    <3>1. /\ Loc(q) \in Region(Loc(w), n) <=> w <= q
          /\ w <= q => Distance(Loc(w), Loc(q)) = q - w
      BY <2>1, <2>2, <2>3, RegionOfFrames
    <3>2. slot'[Loc(q)] = IF Loc(q) \in Region(Loc(w), n)
                            THEN w + Distance(Loc(w), Loc(q)) ELSE slot[Loc(q)]
      BY <1>8, <2>1, LocInSlots DEF CopyIn, Stored
    <3> QED BY <3>1, <3>2, <2>2
  <2>4. UNCHANGED <<curReadFrame, curWriteFrame, pos, len>>
        /\ \A p \in Reader : pc'[p] = pc[p]
    BY <1>8 DEF CopyIn
  <2> HIDE DEF TypeOK
  <2> QED BY <2>1, <2>2, <2>3, <2>4
<1>9. CASE SetWriteBase
  BY <1>9, ClientEffects DEF SetWriteBase
<1>10. CASE SetWriteRead
  BY <1>10, ClientEffects DEF SetWriteRead
<1>11. CASE SetWriteStore
  BY <1>11 DEF SetWriteStore, NextRound, WriteReturn, ClientInv
<1>12. CASE ServerBegin
  BY <1>12 DEF ServerBegin, ServerMayEnter
<1>13. CASE ServerLoadWrite
  BY <1>13 DEF ServerLoadWrite, Finish
<1>14. CASE Enqueue
  BY <1>14 DEF Enqueue
<1>15. CASE FlushBegin
  BY <1>15 DEF FlushBegin
<1>16. CASE FlushLock
  BY <1>16 DEF FlushLock
<1>17. CASE FlushLoad
  BY <1>17 DEF FlushLoad, Finish
<1>18. CASE FlushPos
  BY <1>18 DEF FlushPos
<1>19. CASE FlushReturn
  BY <1>19 DEF FlushReturn
<1>20. ASSUME NEW p \in Reader, ReadableBase(p) PROVE SlotInv'
  BY <1>20 DEF ReadableBase
<1>21. ASSUME NEW p \in Reader, ReadableAvail(p) PROVE SlotInv'
  <2>1. ReaderInv(p)
    BY DEF Reader
  <2> QED BY <1>21, <2>1, ReaderEffects DEF ReadableAvail
<1>22. ASSUME NEW p \in Reader, ReadableOffset(p) PROVE SlotInv'
  <2>1. ReaderInv(p)
    BY DEF Reader
  <2> QED BY <1>22, <2>1, ReaderEffects DEF ReadableOffset
<1>23. ASSUME NEW p \in Reader, Clear(p) PROVE SlotInv'
  <2> DEFINE r == pos[p]
             n == len[p]
  <2>1. /\ r = curReadFrame /\ off[p] = Loc(r) /\ r + n <= curWriteFrame
    BY <1>23 DEF Clear, ReaderInv, ReadLabel, Sized
  <2>2. /\ r \in Nat /\ n \in 0..Total /\ curWriteFrame \in Nat
        /\ curWriteFrame <= curReadFrame + Total
    BY DEF RingInv
  <2>3. ASSUME NEW q \in Nat, r + n <= q, q < r + Total
        PROVE  slot'[Loc(q)] = slot[Loc(q)]
    <3>1. Loc(q) \notin Region(Loc(r), n)
      BY <2>2, <2>3, RegionOfFrames
    <3> QED BY <1>23, <2>1, <3>1, LocInSlots DEF Clear
  <2>4. /\ pc[p] = "clear" /\ pc' = [pc EXCEPT ![p] = "setBase"]
        /\ UNCHANGED <<curReadFrame, curWriteFrame, pos, len>>
    BY <1>23 DEF Clear
  <2>5. ASSUME NEW q \in Nat, curReadFrame <= q, q < curWriteFrame,
               \A o \in Reader : pc'[o] \in Cleared => target(o) <= q
        PROVE  slot'[Loc(q)] = q
    <3>1. r + n <= q
      BY <2>4, <2>5
    <3>2. \A o \in Reader : pc[o] \in Cleared => target(o) <= q
      BY <2>4, <2>5
    <3> QED BY <3>1, <3>2, <2>1, <2>2, <2>3, <2>5
  <2>6. ASSUME pc["client"] \in {"setBase", "setRead", "store"},
               NEW q \in Nat, pos["client"] <= q, q < target("client")
        PROVE  slot'[Loc(q)] = q
    <3>1. pos["client"] = curWriteFrame
          /\ target("client") <= curReadFrame + Total
      BY <2>6 DEF ClientInv
    <3>2. r + n <= q /\ q < r + Total
      BY <3>1, <2>1, <2>2, <2>6
    <3> QED BY <3>2, <2>3, <2>6
  <2>7. pc'["client"] = pc["client"]
    BY <2>4
  <2> QED BY <2>4, <2>5, <2>6, <2>7
<1>24. ASSUME NEW p \in Reader, SetReadBase(p) PROVE SlotInv'
  BY <1>24 DEF SetReadBase
<1>25. ASSUME NEW p \in Reader, SetReadOld(p) PROVE SlotInv'
  <2>1. ReaderInv(p)
    BY DEF Reader
  <2> QED BY <1>25, <2>1, ReaderEffects DEF SetReadOld
<1>26. ASSUME NEW p \in Reader, SetReadCheck(p) PROVE SlotInv'
  <2>1. ReaderInv(p)
    BY DEF Reader
  <2> QED BY <1>26, <2>1, ReaderEffects DEF SetReadCheck, MovesBase, AtLeast
<1>27. ASSUME NEW p \in Reader, SetReadStoreBase(p) PROVE SlotInv'
  BY <1>27 DEF SetReadStoreBase, MovedBase
<1>28. ASSUME NEW p \in Reader, SetReadStoreRead(p) PROVE SlotInv'
  BY <1>28 DEF SetReadStoreRead, Finish, ReaderInv, LockInv, Reader, ClientLabel, ReadLabel, ServerLabel, FlushLabel, FlushHolds, Sized
<1>29. CASE UNCHANGED vars
  BY <1>29 DEF vars
<1> HIDE DEF IInv, TypeOK, Proc, SlotInv, target, Reader, Cleared
<1> QED
  BY <1>1, <1>2, <1>3, <1>4, <1>5, <1>6, <1>7, <1>8, <1>9, <1>10, <1>11, <1>12, <1>13, <1>14, <1>15, <1>16, <1>17, <1>18, <1>19, <1>20, <1>21, <1>22, <1>23, <1>24, <1>25, <1>26, <1>27, <1>28, <1>29 DEF Next, ClientNext, ServerNext, FlushNext, FlushCall, ReaderNext, Reader

----------------------------------------------------------------------------
(* The invariant holds initially and every step preserves it. *)

\* The invariant holds of a ring that has just been mapped.
LEMMA InitInv == Init => IInv
<1> SUFFICES ASSUME Init PROVE IInv
  OBVIOUS
<1>1. Total \in Nat /\ Total > 0 /\ MaxWrite \in Nat
  BY RingAssumption
<1>2. 0 % Total = 0
  BY <1>1, RemainderUnique
<1>3. TypeOK
  BY <1>1 DEF Init, TypeOK, Label, Slots, Silence
<1>4. LockInv
  BY DEF Init, LockInv, Proc, ClientLabel, ReadLabel, ServerLabel,
         FlushLabel, FlushHolds
<1>5. RingInv
  BY <1>1, <1>2 DEF Init, RingInv
<1>6. ReaderInv("server") /\ ReaderInv("flush") /\ ClientInv
  BY DEF Init, ReaderInv, ClientInv, Proc, ReadLabel, Sized
<1>7. SlotInv
  BY DEF Init, SlotInv, Proc
<1> QED BY <1>3, <1>4, <1>5, <1>6, <1>7 DEF IInv

\* The invariant is inductive.
LEMMA NextInv == IInv /\ [Next]_vars => IInv'
<1> SUFFICES ASSUME IInv, [Next]_vars PROVE IInv'
  OBVIOUS
<1>1. TypeOK' /\ LockInv' /\ RingInv'
  BY TypeStep, LockStep, RingStep
<1>2. ReaderInv("server")' /\ ReaderInv("flush")' /\ ClientInv' /\ SlotInv'
  BY ReaderStep, ClientStep, SlotStep
<1> QED BY <1>1, <1>2 DEF IInv

\* Every reachable state satisfies the inductive invariant.
THEOREM InductiveInvariant == Spec => []IInv
  BY InitInv, NextInv, PTL DEF Spec

----------------------------------------------------------------------------
(* What the invariant is for. *)

\* The positions, offsets, labels and slots stay in their domains.
THEOREM TypeCorrect == Spec => []TypeOK
<1>1. IInv => TypeOK
  BY DEF IInv
<1> QED BY <1>1, InductiveInvariant, PTL

\* The client never copies into a slot the server is reading or clearing.
THEOREM RegionsAreDisjoint == Spec => []RegionsDisjoint
<1>1. ASSUME IInv PROVE RegionsDisjoint
  <2> SUFFICES ASSUME NEW p \in Reader, pc["client"] = "copy",
                      pc[p] \in {"enqueue", "clear"}, NEW i \in Slots,
                      i \in Region(off["client"], len["client"]),
                      i \in Region(off[p], len[p])
               PROVE  FALSE
    BY DEF RegionsDisjoint, Reader, Region
  <2> DEFINE k == Distance(off["client"], i)
             j == Distance(off[p], i)
             w == pos["client"]
             r == pos[p]
  <2>1. /\ w \in Nat /\ r \in Nat /\ w = curWriteFrame /\ r = curReadFrame
        /\ Total \in Nat /\ Total > 0
    BY <1>1, RingAssumption
       DEF IInv, TypeOK, Proc, Reader, ClientInv, ReaderInv, ReadLabel
  <2>2. /\ off["client"] = Loc(w) /\ w + len["client"] <= r + Total
        /\ off[p] = Loc(r) /\ r + len[p] <= w
    BY <1>1, <2>1 DEF IInv, Reader, ClientInv, ReaderInv, Sized, target
  <2>3. /\ k \in Nat /\ k < len["client"] /\ Loc(w + k) = i
        /\ j \in Nat /\ j < len[p] /\ Loc(r + j) = i
    BY <2>1, <2>2, DistanceIsFrame DEF Region
  <2>4. len["client"] \in Nat /\ len[p] \in Nat
    BY <1>1, <2>1 DEF IInv, TypeOK, Proc, Reader
  <2> HIDE DEF k, j
  <2>5. r + j < w + k /\ r + j \in Nat /\ w + k \in Nat
    BY <2>1, <2>2, <2>3, <2>4
  <2>6. (w + k) - (r + j) >= Total
    BY <2>3, <2>5, SameSlot
  <2> QED BY <2>1, <2>2, <2>3, <2>4, <2>6
<1> QED BY <1>1, InductiveInvariant, PTL

\* The engine gets the frames the client wrote at the positions it serves.
THEOREM WrittenIsServed == Spec => []ServesWhatWasWritten
<1>1. ASSUME IInv PROVE ServesWhatWasWritten
  <2> SUFFICES ASSUME pc["server"] = "enqueue", NEW i \in Slots,
                      i \in Region(off["server"], len["server"])
               PROVE  slot[i] = pos["server"] + Distance(off["server"], i)
    BY DEF ServesWhatWasWritten, Region
  <2> DEFINE r == pos["server"]
             k == Distance(off["server"], i)
  <2>1. /\ r \in Nat /\ r = curReadFrame /\ off["server"] = Loc(r)
        /\ len["server"] \in Nat /\ r + len["server"] <= curWriteFrame
        /\ curWriteFrame \in Nat /\ Total \in Nat
    BY <1>1, RingAssumption DEF IInv, TypeOK, Proc, ReaderInv, Sized, target
  <2>2. k \in Nat /\ k < len["server"] /\ Loc(r + k) = i
    BY <2>1, DistanceIsFrame DEF Region
  <2>3. \A p \in Reader : pc[p] \notin Cleared
    BY <1>1, OneReader DEF IInv, Reader, Cleared, ReadLabel
  <2> HIDE DEF k
  <2>4. r + k \in Nat /\ curReadFrame <= r + k /\ r + k < curWriteFrame
    BY <2>1, <2>2
  <2>5. slot[Loc(r + k)] = r + k
    BY <1>1, <2>3, <2>4 DEF IInv, SlotInv
  <2> QED BY <2>2, <2>5 DEF k
<1> QED BY <1>1, InductiveInvariant, PTL

\* SetCurWriteFrame accepts every frame count WriteCacheData commits.
THEOREM CommitsAreAccepted == Spec => []CommitNeverRefused
<1>1. IInv => CommitNeverRefused
  BY ClientChecks DEF IInv, CommitNeverRefused
<1> QED BY <1>1, InductiveInvariant, PTL

\* Outside the two stores of SetCurReadFrame the positions are in range.
THEOREM PositionsAreInRange == Spec => []PositionsInRange
<1>1. ASSUME IInv PROVE PositionsInRange
  <2>1. /\ basePosInFrame \in Nat /\ curReadFrame \in Nat
        /\ curWriteFrame \in Nat /\ Total \in Nat
    BY <1>1, RingAssumption DEF IInv, TypeOK
  <2> QED BY <1>1, <2>1
          DEF IInv, RingInv, PositionsInRange, InRange, Proc, Reader
<1> QED BY <1>1, InductiveInvariant, PTL

\* No step moves the read or the base position back.
THEOREM ReadNeverMovesBack == Spec => ReadMovesForward
<1> DEFINE Forward ==
      /\ curReadFrame' >= curReadFrame
      /\ basePosInFrame' \in {basePosInFrame, basePosInFrame + Total}
<1>1. ASSUME IInv, [Next]_vars PROVE [Forward]_vars
  <2>1. curReadFrame \in Nat
    BY <1>1 DEF IInv, TypeOK
  <2>2. ASSUME NEW p \in Reader, SetReadStoreBase(p) PROVE Forward
    <3>1. seen[p] = basePosInFrame
      BY <1>1, <2>2 DEF SetReadStoreBase, IInv, ReaderInv, Reader
    <3> QED BY <2>1, <2>2, <3>1 DEF SetReadStoreBase, MovedBase
  <2>3. ASSUME NEW p \in Reader, SetReadStoreRead(p) PROVE Forward
    <3>1. pos[p] = curReadFrame /\ len[p] \in Nat
      BY <1>1, <2>3, RingAssumption
         DEF SetReadStoreRead, IInv, ReaderInv, Reader, ReadLabel, TypeOK, Proc
    <3> QED BY <2>1, <2>3, <3>1 DEF SetReadStoreRead, target
  <2>4. ASSUME UNCHANGED <<curReadFrame, basePosInFrame>> PROVE Forward
    BY <2>1, <2>4
  <2>5. ASSUME NEW p \in Reader,
               \/ ReadableBase(p) \/ ReadableAvail(p) \/ ReadableOffset(p)
               \/ Clear(p) \/ SetReadBase(p) \/ SetReadOld(p)
               \/ SetReadCheck(p)
        PROVE  UNCHANGED <<curReadFrame, basePosInFrame>>
    BY <2>5 DEF ReadableBase, ReadableAvail, ReadableOffset, Clear,
                SetReadBase, SetReadOld, SetReadCheck, ring
  <2>6. ASSUME ClientNext PROVE UNCHANGED <<curReadFrame, basePosInFrame>>
    BY <2>6 DEF ClientNext, WriteBegin, WaitWritable, WaitTimeout,
                LoadWritePos, WritableBase, WritableLimit, WriteOffset,
                CopyIn, SetWriteBase, SetWriteRead, SetWriteStore, ring
  <2>7. ASSUME \/ ServerBegin \/ ServerLoadWrite \/ Enqueue
               \/ FlushBegin \/ FlushLock \/ FlushLoad \/ FlushPos
               \/ FlushReturn
        PROVE  UNCHANGED <<curReadFrame, basePosInFrame>>
    BY <2>7 DEF ServerBegin, ServerLoadWrite, Enqueue, FlushBegin,
                FlushLock, FlushLoad, FlushPos, FlushReturn, ring
  <2> QED
    BY <1>1, <2>2, <2>3, <2>4, <2>5, <2>6, <2>7
    DEF Next, ServerNext, FlushNext, FlushCall, ReaderNext, Reader
<1> QED BY <1>1, InductiveInvariant, PTL DEF Spec, ReadMovesForward

----------------------------------------------------------------------------
(* The ring is a bounded FIFO. *)

\* The numbers of the frames from a on and before b.
Frames(a, b) == [i \in 1..(b - a) |-> a + i - 1]

\* They are a sequence of consecutive numbers.
LEMMA FramesSeq ==
  ASSUME NEW a \in Nat, NEW b \in Nat, a <= b
  PROVE  /\ Frames(a, b) \in Seq(Nat) /\ Len(Frames(a, b)) = b - a
         /\ \A i \in 1..(b - a) : Frames(a, b)[i] = a + i - 1
<1>1. b - a \in Nat
  OBVIOUS
<1>2. Frames(a, b) \in [1..(b - a) -> Nat]
  BY <1>1 DEF Frames
<1>3. Frames(a, b) \in Seq(Nat)
  BY <1>1, <1>2, SeqDef
<1>4. Len(Frames(a, b)) = b - a
  BY <1>1, <1>2, <1>3, LenProperties
<1> QED BY <1>3, <1>4 DEF Frames

\* A range of frames with the n frames after it.
LEMMA FramesPut ==
  ASSUME NEW a \in Nat, NEW b \in Nat, a <= b, NEW n \in Nat
  PROVE  Frames(a, b + n) = Frames(a, b) \o [i \in 1..n |-> b + i - 1]
<1> DEFINE s == Frames(a, b)
           t == Frames(b, b + n)
<1>1. t = [i \in 1..n |-> b + i - 1]
  <2>1. b + n - b = n
    OBVIOUS
  <2> QED BY <2>1 DEF Frames
<1>2. /\ s \in Seq(Nat) /\ Len(s) = b - a
      /\ \A i \in 1..(b - a) : s[i] = a + i - 1
  BY FramesSeq
<1>3. /\ t \in Seq(Nat) /\ Len(t) = n
      /\ \A i \in 1..n : t[i] = b + i - 1
  <2>1. b + n \in Nat /\ b <= b + n /\ b + n - b = n
    OBVIOUS
  <2> QED BY <2>1, FramesSeq
<1> HIDE DEF s, t
<1>4. /\ s \o t \in Seq(Nat) /\ Len(s \o t) = b + n - a
      /\ \A i \in 1..(b + n - a) : (s \o t)[i] = IF i <= b - a THEN s[i] ELSE t[i - (b - a)]
  <2>1. /\ s \o t \in Seq(Nat) /\ Len(s \o t) = Len(s) + Len(t)
        /\ \A i \in 1..(Len(s) + Len(t)) :
             (s \o t)[i] = IF i <= Len(s) THEN s[i] ELSE t[i - Len(s)]
    BY <1>2, <1>3, ConcatProperties
  <2>2. Len(s) + Len(t) = b + n - a
    BY <1>2, <1>3
  <2> QED BY <1>2, <2>1, <2>2
<1>5. /\ Frames(a, b + n) \in Seq(Nat) /\ Len(Frames(a, b + n)) = b + n - a
      /\ \A i \in 1..(b + n - a) : Frames(a, b + n)[i] = a + i - 1
  <2>1. b + n \in Nat /\ a <= b + n
    OBVIOUS
  <2> QED BY <2>1, FramesSeq
<1>6. ASSUME NEW i \in 1..(b + n - a) PROVE (s \o t)[i] = a + i - 1
  <2>1. CASE i <= b - a
    BY <1>2, <1>4, <2>1
  <2>2. CASE ~ (i <= b - a)
    <3>1. i - (b - a) \in 1..n /\ b + (i - (b - a)) - 1 = a + i - 1
      BY <2>2
    <3> QED BY <1>3, <1>4, <2>2, <3>1
  <2> QED BY <2>1, <2>2
<1>7. Frames(a, b + n) = s \o t
  BY <1>4, <1>5, <1>6, SeqEqual
<1> QED BY <1>1, <1>7 DEF s

\* What is left of a range of frames when the first n are gone.
LEMMA FramesTake ==
  ASSUME NEW a \in Nat, NEW b \in Nat, NEW n \in Nat, a + n <= b
  PROVE  Frames(a + n, b) = SubSeq(Frames(a, b), n + 1, Len(Frames(a, b)))
<1> DEFINE s == Frames(a, b)
           t == Frames(a + n, b)
<1>1. /\ s \in Seq(Nat) /\ Len(s) = b - a
      /\ \A i \in 1..(b - a) : s[i] = a + i - 1
  BY FramesSeq
<1>2. /\ t \in Seq(Nat) /\ Len(t) = b - a - n
      /\ \A i \in 1..(b - a - n) : t[i] = a + n + i - 1
  <2>1. a + n \in Nat /\ b - (a + n) = b - a - n
    OBVIOUS
  <2> QED BY <2>1, FramesSeq
<1> HIDE DEF s, t
<1> DEFINE u == SubSeq(s, n + 1, b - a)
<1>3. /\ u \in Seq(Nat) /\ Len(u) = b - a - n
      /\ \A i \in 1..(b - a - n) : u[i] = s[n + i]
  <2>1. /\ n + 1 \in Int /\ b - a \in Int /\ \A i \in n + 1..b - a : s[i] \in Nat
    BY <1>1
  <2>2. /\ u \in Seq(Nat)
        /\ Len(u) = IF n + 1 <= b - a THEN b - a - (n + 1) + 1 ELSE 0
        /\ \A i \in 1..(b - a - (n + 1) + 1) : u[i] = s[n + 1 + i - 1]
    BY <2>1, SubSeqProperties
  <2> HIDE DEF u
  <2>3. ASSUME NEW i \in 1..(b - a - n) PROVE u[i] = s[n + i]
    <3>1. i \in 1..(b - a - (n + 1) + 1) /\ n + 1 + i - 1 = n + i
      OBVIOUS
    <3> QED BY <2>2, <3>1
  <2>4. Len(u) = b - a - n
    BY <2>2
  <2> QED BY <2>2, <2>3, <2>4
<1> HIDE DEF u
<1>4. ASSUME NEW i \in 1..(b - a - n) PROVE t[i] = u[i]
  <2>1. n + i \in 1..(b - a) /\ a + (n + i) - 1 = a + n + i - 1
    OBVIOUS
  <2> QED BY <1>1, <1>2, <1>3, <2>1
<1>5. t = u
  BY <1>2, <1>3, <1>4, SeqEqual
<1> QED BY <1>1, <1>5 DEF s, t, u

\* The reader whose span has been cleared is the one that is served.
LEMMA Serving ==
  ASSUME IInv
  PROVE  /\ \A p \in Reader : pc[p] \in Cleared => InService = len[p] /\ First = target(p)
         /\ (\A p \in Reader : pc[p] \notin Cleared) => InService = 0 /\ First = curReadFrame
<1>1. ASSUME NEW p \in Reader, pc[p] \in Cleared
      PROVE  InService = len[p] /\ First = target(p)
  <2>1. \A q \in Reader : pc[q] \in Cleared => q = p
    BY <1>1, OneReader DEF IInv, Cleared, ReadLabel
  <2>2. InService = len[p]
    BY <1>1, <2>1 DEF InService
  <2>3. pos[p] = curReadFrame
    BY <1>1 DEF IInv, Reader, ReaderInv, Cleared, ReadLabel
  <2> QED BY <2>2, <2>3 DEF First, target
<1>2. ASSUME \A p \in Reader : pc[p] \notin Cleared
      PROVE  InService = 0 /\ First = curReadFrame
  BY <1>2 DEF InService, First, IInv, TypeOK
<1> QED BY <1>1, <1>2

\* What the FIFO holds is the frames behind the one in service.
FifoState ==
  /\ First \in Nat /\ InService \in 0..Total
  /\ First = curReadFrame + InService /\ First <= curWriteFrame
  /\ Queued = Frames(First, curWriteFrame)
  /\ \A p \in Reader : pc[p] \in Cleared => InService = len[p]
  /\ (\A p \in Reader : pc[p] \notin Cleared) => InService = 0

\* SlotInv says of every slot of the queue which frame it carries.
LEMMA QueuedIsFrames == IInv => FifoState
<1> SUFFICES ASSUME IInv PROVE FifoState
  OBVIOUS
<1> USE DEF FifoState
<1>1. /\ curWriteFrame \in Nat /\ curReadFrame \in Nat /\ curReadFrame <= curWriteFrame
      /\ Total \in Nat /\ \A p \in Reader : len[p] \in 0..Total
  BY RingAssumption DEF IInv, TypeOK, RingInv, Reader, Proc
<1>2. InService \in 0..Total /\ First <= curWriteFrame
  <2>1. CASE \E p \in Reader : pc[p] \in Cleared
    <3>1. PICK p \in Reader : pc[p] \in Cleared
      BY <2>1
    <3>2. target(p) <= curWriteFrame
      BY <3>1 DEF IInv, Reader, ReaderInv, Cleared, Sized
    <3> QED BY <1>1, <3>1, <3>2, Serving
  <2>2. CASE \A p \in Reader : pc[p] \notin Cleared
    BY <1>1, <2>2, Serving
  <2> QED BY <2>1, <2>2
<1>3. First \in Nat /\ First = curReadFrame + InService
  BY <1>1, <1>2 DEF First
<1>4. ASSUME NEW q \in Nat, First <= q, q < curWriteFrame PROVE slot[q % Total] = q
  <2>1. curReadFrame <= q
    BY <1>1, <1>2, <1>3, <1>4
  <2>2. \A p \in Reader : pc[p] \in Cleared => target(p) <= q
    BY <1>4, Serving
  <2> QED BY <1>4, <2>1, <2>2 DEF IInv, SlotInv, Loc
<1>5. ASSUME NEW i \in 1..(curWriteFrame - First)
      PROVE  slot[(First + i - 1) % Total] = First + i - 1
  <2>1. First + i - 1 \in Nat /\ First <= First + i - 1 /\ First + i - 1 < curWriteFrame
    BY <1>1, <1>3
  <2> QED BY <1>4, <2>1
<1>6. Queued = Frames(First, curWriteFrame)
  BY <1>5 DEF Queued, Frames
<1> QED BY <1>2, <1>3, <1>6, Serving

\* The same after a step.
LEMMA NextFifoState == ASSUME IInv' PROVE FifoState'
<1>1. (IInv => FifoState)'
  BY QueuedIsFrames, PTL
<1> QED BY <1>1

\* Three kinds of steps change what the FIFO holds.
Quiet ==
  /\ UNCHANGED <<curReadFrame, curWriteFrame>>
  /\ \A p \in Reader :
       /\ pc'[p] \in Cleared <=> pc[p] \in Cleared
       /\ pc[p] \in Cleared => len'[p] = len[p]

\* Every other step of the client, the server and the flush is quiet.
LEMMA FifoSteps ==
  ASSUME IInv, [Next]_vars
  PROVE  \/ SetWriteStore
         \/ \E p \in Reader : Clear(p) \/ SetReadStoreRead(p)
         \/ Quiet
<1> USE DEF IInv, ring, local, locks, Goto, TypeOK, Proc, Reader, Cleared, Quiet
<1>1. CASE ClientNext /\ ~SetWriteStore
  <2>1. ClientNext => \/ UNCHANGED len
                      \/ \E n : len' = [len EXCEPT !["client"] = n]
    BY ClientEffects DEF ClientNext, WriteBegin, WaitWritable, WaitTimeout, WriteReturn,
         LoadWritePos, WritableBase, WritableLimit, WriteOffset, CopyIn, SetWriteBase,
         SetWriteRead, SetWriteStore
  <2>2. UNCHANGED <<curReadFrame, curWriteFrame>>
    BY <1>1 DEF ClientNext, WriteBegin, WaitWritable, WaitTimeout, LoadWritePos,
         WritableBase, WritableLimit, WriteOffset, CopyIn, SetWriteBase, SetWriteRead
  <2>3. \E l : pc' = [pc EXCEPT !["client"] = l]
    BY <1>1 DEF ClientNext, WriteBegin, WaitWritable, WaitTimeout, WriteReturn, LoadWritePos,
         WritableBase, WritableLimit, WriteOffset, CopyIn, SetWriteBase, SetWriteRead,
         NextRound
  <2> QED BY <1>1, <2>1, <2>2, <2>3
<1>2. CASE ServerBegin
  BY <1>2 DEF ServerBegin
<1>3. CASE ServerLoadWrite \/ Enqueue
  BY <1>3 DEF ServerLoadWrite, Enqueue, Finish
<1>4. CASE FlushBegin \/ FlushLock \/ FlushLoad \/ FlushPos \/ FlushReturn
  BY <1>4 DEF FlushBegin, FlushLock, FlushLoad, FlushPos, FlushReturn, Finish
<1>5. ASSUME NEW p \in Reader, ReaderNext(p)
      PROVE  Clear(p) \/ SetReadStoreRead(p) \/ Quiet
  <2>1. ReaderInv(p)
    BY DEF Reader
  <2>2. CASE ReadableBase(p)
    BY <2>2 DEF ReadableBase
  <2>3. CASE ReadableAvail(p)
    <3>1. pc[p] = "avail" /\ pc' = [pc EXCEPT ![p] = "offset"] /\ UNCHANGED ring
      BY <2>1, <2>3, ReaderEffects DEF ReadableAvail
    <3>2. \E n : len' = [len EXCEPT ![p] = n]
      BY <2>1, <2>3, ReaderEffects
    <3> QED BY <3>1, <3>2
  <2>4. CASE ReadableOffset(p)
    BY <2>1, <2>4, ReaderEffects DEF ReadableOffset
  <2>5. CASE SetReadBase(p)
    BY <2>5 DEF SetReadBase
  <2>6. CASE SetReadOld(p)
    BY <2>1, <2>6, ReaderEffects DEF SetReadOld
  <2>7. CASE SetReadCheck(p)
    BY <2>1, <2>7, ReaderEffects DEF SetReadCheck
  <2>8. CASE SetReadStoreBase(p)
    BY <2>8 DEF SetReadStoreBase
  <2> QED BY <1>5, <2>2, <2>3, <2>4, <2>5, <2>6, <2>7, <2>8 DEF ReaderNext
<1>6. CASE UNCHANGED vars
  BY <1>6 DEF vars
<1> QED BY <1>1, <1>2, <1>3, <1>4, <1>5, <1>6
        DEF Next, ServerNext, FlushNext, FlushCall

\* A quiet step is a stutter of the FIFO.
LEMMA QuietStutters ==
  ASSUME FifoState, FifoState', Quiet
  PROVE  UNCHANGED <<Queued, InService, curWriteFrame>>
<1>1. InService' = InService
  BY DEF FifoState, Quiet
<1>2. First' = First
  BY <1>1 DEF FifoState, Quiet
<1>3. Queued' = Queued
  BY <1>2 DEF FifoState, Quiet, Frames
<1> QED BY <1>1, <1>3 DEF Quiet

\* A commit of the client puts its frames.
LEMMA StorePuts ==
  ASSUME IInv, FifoState, FifoState', SetWriteStore
  PROVE  \E n \in 1..Total : Fifo!Put(n)
<1> DEFINE n == len["client"]
<1>1. /\ n \in 1..Total /\ curWriteFrame' = curWriteFrame + n
      /\ curWriteFrame + n <= curReadFrame + Total
  BY DEF IInv, ClientInv, SetWriteStore, target, TypeOK, Proc
<1>2. UNCHANGED <<curReadFrame, len>> /\ \A p \in Reader : pc'[p] = pc[p]
  BY DEF SetWriteStore, NextRound, WriteReturn, Goto, Reader, IInv, TypeOK, Proc
<1>3. InService' = InService /\ First' = First
  BY <1>2 DEF FifoState
<1>4. Queued' = Queued \o [i \in 1..n |-> curWriteFrame + i - 1]
  <2>1. n \in Nat /\ curWriteFrame \in Nat
    BY <1>1 DEF IInv, TypeOK
  <2>2. /\ First \in Nat /\ First <= curWriteFrame
        /\ Queued = Frames(First, curWriteFrame)
        /\ Queued' = Frames(First, curWriteFrame + n)
    BY <1>1, <1>3 DEF FifoState, Frames
  <2> HIDE DEF n
  <2> QED BY <2>1, <2>2, FramesPut
<1>5. Len(Queued) + InService + n <= Total
  <2>1. Len(Queued) = curWriteFrame - First
    BY FramesSeq DEF FifoState, IInv, TypeOK
  <2> QED BY <1>1, <2>1, RingAssumption DEF FifoState, IInv, TypeOK
<1> QED BY <1>1, <1>3, <1>4, <1>5 DEF Fifo!Put

\* The clearing of a span takes it.
LEMMA ClearTakes ==
  ASSUME IInv, FifoState, FifoState', NEW p \in Reader, Clear(p)
  PROVE  \E n \in 1..Len(Queued) : Fifo!Take(n)
<1> DEFINE n == len[p]
<1>1. \A q \in Reader : pc[q] \notin Cleared
  BY OneReader DEF IInv, Clear, Cleared, ReadLabel
<1>2. /\ UNCHANGED <<curReadFrame, curWriteFrame, len>>
      /\ pc'[p] \in Cleared
  BY DEF Clear, Goto, IInv, TypeOK, Cleared, local, Reader, Proc
<1>3. /\ pos[p] = curReadFrame /\ n \in Nat /\ n > 0
      /\ curReadFrame + n <= curWriteFrame
  BY DEF Clear, IInv, ReaderInv, Reader, ReadLabel, Sized, target, TypeOK, Proc
<1>4. InService = 0 /\ First = curReadFrame /\ InService' = n /\ First' = curReadFrame + n
  <2>1. InService = 0 /\ First = curReadFrame + 0 /\ curReadFrame \in Nat
    BY <1>1 DEF FifoState, IInv, TypeOK
  <2>2. InService' = len'[p] /\ First' = curReadFrame' + InService'
    BY <1>2 DEF FifoState
  <2> QED BY <1>2, <2>1, <2>2
<1>5. Len(Queued) = curWriteFrame - curReadFrame
  BY <1>4, FramesSeq DEF FifoState, IInv, TypeOK
<1>6. n \in 1..Len(Queued)
  <2> HIDE DEF n
  <2> QED BY <1>3, <1>5 DEF IInv, TypeOK
<1>7. Queued' = SubSeq(Queued, n + 1, Len(Queued))
  <2>1. curReadFrame \in Nat /\ curWriteFrame \in Nat
    BY DEF IInv, TypeOK
  <2>2. /\ Queued = Frames(curReadFrame, curWriteFrame)
        /\ Queued' = Frames(curReadFrame + n, curWriteFrame)
    BY <1>2, <1>4 DEF FifoState, Frames
  <2> HIDE DEF n
  <2> QED BY <1>3, <2>1, <2>2, FramesTake
<1> QED BY <1>2, <1>4, <1>6, <1>7 DEF Fifo!Take

\* The store of curReadFrame gives the room of the span back.
LEMMA StoreGivesBack ==
  ASSUME IInv, FifoState, FifoState', NEW p \in Reader, SetReadStoreRead(p)
  PROVE  Fifo!GiveBack
<1>1. /\ pc[p] = "storeRead" /\ curReadFrame' = pos[p] + len[p]
      /\ UNCHANGED <<curWriteFrame, len>>
  BY DEF SetReadStoreRead, target, local
<1>2. pos[p] = curReadFrame /\ len[p] > 0
  BY <1>1 DEF IInv, ReaderInv, Reader, ReadLabel, Sized
<1>3. \A q \in Reader : pc'[q] \notin Cleared
  <2>1. \A q \in Reader : pc[q] \in Cleared => q = p
    BY <1>1, OneReader DEF IInv, Cleared, ReadLabel
  <2>2. pc' = [pc EXCEPT ![p] = IF p = "server" THEN "idle" ELSE "notify"]
    BY DEF SetReadStoreRead, Finish, Goto
  <2> QED BY <2>1, <2>2 DEF Cleared, IInv, TypeOK, Reader, Proc
<1>4. InService = len[p] /\ InService' = 0
  BY <1>1, <1>3 DEF FifoState, Cleared
<1>5. First' = First
  BY <1>1, <1>2, <1>4 DEF FifoState, IInv, TypeOK
<1>6. Queued' = Queued
  BY <1>1, <1>5 DEF FifoState, Frames
<1> QED BY <1>1, <1>2, <1>4, <1>6 DEF Fifo!GiveBack

\* The ring, whatever its size and however its two ends interleave, is a
\* bounded FIFO of the frames the client wrote.
THEOREM RingIsFifo == Spec => ImplementsFifo
<1>1. Init => Fifo!Init
  <2> SUFFICES ASSUME Init PROVE Fifo!Init
    OBVIOUS
  <2>1. FifoState
    BY InitInv, QueuedIsFrames
  <2>2. InService = 0 /\ curWriteFrame = 0 /\ First = 0
    BY <2>1 DEF Init, FifoState, Cleared, Reader, Proc
  <2>3. Queued = <<>>
    BY <2>1, <2>2, FramesSeq, EmptySeq DEF FifoState
  <2> QED BY <2>2, <2>3 DEF Fifo!Init
<1>2. ASSUME IInv, IInv', [Next]_vars PROVE [Fifo!Next]_(Fifo!fifoVars)
  <2>1. FifoState /\ FifoState'
    BY <1>2, QueuedIsFrames, NextFifoState
  <2>2. CASE Quiet
    BY <2>1, <2>2, QuietStutters DEF Fifo!fifoVars
  <2>3. CASE SetWriteStore
    BY <1>2, <2>1, <2>3, StorePuts DEF Fifo!Next
  <2>4. CASE \E p \in Reader : Clear(p)
    BY <1>2, <2>1, <2>4, ClearTakes DEF Fifo!Next
  <2>5. CASE \E p \in Reader : SetReadStoreRead(p)
    BY <1>2, <2>1, <2>5, StoreGivesBack DEF Fifo!Next
  <2> QED BY <1>2, <2>2, <2>3, <2>4, <2>5, FifoSteps
<1> QED BY <1>1, <1>2, InductiveInvariant, PTL DEF Spec, ImplementsFifo, Fifo!Spec

=============================================================================
