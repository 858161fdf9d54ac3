------------------------- MODULE AudioSessionProofs -------------------------
(***************************************************************************)
(* The safety properties of AudioSession for any processes, streams and    *)
(* number of timers.                                                       *)
(***************************************************************************)
EXTENDS AudioSession, TLAPS, WellFoundedInduction

----------------------------------------------------------------------------
(* The monitors. *)

MonitorType(m) ==
  /\ m.cbId \in [Pid -> CbId \cup {NoCbId}]
  /\ m.obj \in [CbId -> Pid \cup {Nobody}]

\* The first id AllocateCbId finds is one of the free ones.
LEMMA SmallestExists ==
  ASSUME NEW S \in SUBSET Nat, S # {}
  PROVE  Min(S) \in S
<1> DEFINE R == {ss \in Nat \X Nat : ss[1] < ss[2]}
<1>1. IsWellFoundedOn(R, Nat)
  BY NatLessThanWellFounded DEF OpToRel
<1>2. \E x \in S : \A y \in S : <<y, x>> \notin R
  <2> HIDE DEF R
  <2> QED BY <1>1, WFMin, Zenon
<1>3. PICK x \in S : \A y \in S : <<y, x>> \notin R
  BY <1>2
<1>4. ASSUME NEW y \in S PROVE x <= y
  <2>1. <<y, x>> \in Nat \X Nat /\ <<y, x>>[1] = y /\ <<y, x>>[2] = x
    OBVIOUS
  <2>2. ~ (y < x)
    BY <1>3, <2>1
  <2> QED BY <2>2
<1> QED BY <1>4 DEF Min

\* What StopMonitor does: p has no timer it knows, and nobody else's entry or
\* timer is touched but the one that has p's id.
LEMMA StopFacts ==
  ASSUME NEW m, MonitorType(m), NEW p \in Pid
  PROVE  LET n == StopMonitor(m, p)
         IN /\ MonitorType(n)
            /\ n.cbId[p] = NoCbId
            /\ \A q \in Pid \ {p} : n.cbId[q] = m.cbId[q]
            /\ \A i \in CbId : n.obj[i] # m.obj[i] => n.obj[i] = Nobody /\ m.cbId[p] = i
            /\ m.cbId[p] = NoCbId \/ n.obj[m.cbId[p]] = Nobody
<1> DEFINE n == StopMonitor(m, p)
<1>1. CASE m.cbId[p] = NoCbId
  BY <1>1 DEF StopMonitor, MonitorType
<1>2. CASE m.cbId[p] # NoCbId
  <2>1. m.cbId[p] \in CbId
    BY <1>2 DEF MonitorType
  <2>2. /\ n.cbId = [m.cbId EXCEPT ![p] = NoCbId]
        /\ n.obj = [m.obj EXCEPT ![m.cbId[p]] = Nobody]
    BY <1>2 DEF StopMonitor
  <2> HIDE DEF n
  <2>3. /\ MonitorType(n) /\ n.cbId[p] = NoCbId
        /\ \A q \in Pid \ {p} : n.cbId[q] = m.cbId[q]
        /\ \A i \in CbId : n.obj[i] # m.obj[i] => n.obj[i] = Nobody /\ m.cbId[p] = i
        /\ n.obj[m.cbId[p]] = Nobody
    BY <2>1, <2>2 DEF MonitorType
  <2> QED BY <2>3 DEF n
<1> QED BY <1>1, <1>2

\* What StartMonitor does: nothing, because p has a timer or no id is free, or
\* it gives p a free one.
LEMMA StartFacts ==
  ASSUME NEW m, MonitorType(m), NEW p \in Pid
  PROVE  LET n == StartMonitor(m, p)
         IN /\ MonitorType(n)
            /\ \A q \in Pid \ {p} : n.cbId[q] = m.cbId[q]
            /\ \/ n = m /\ (m.cbId[p] # NoCbId \/ \A i \in CbId : m.obj[i] # Nobody)
               \/ \E i \in CbId : /\ m.cbId[p] = NoCbId /\ n.cbId[p] = i
                                  /\ m.obj[i] = Nobody /\ n.obj[i] = p
                                  /\ \A j \in CbId \ {i} : n.obj[j] = m.obj[j]
<1> DEFINE n == StartMonitor(m, p)
           i == Min(FreeCbIds(m))
<1>1. CASE m.cbId[p] # NoCbId \/ FreeCbIds(m) = {}
  BY <1>1 DEF StartMonitor, FreeCbIds
<1>2. CASE m.cbId[p] = NoCbId /\ FreeCbIds(m) # {}
  <2>1. FreeCbIds(m) \in SUBSET Nat
    BY SessionAssumption DEF FreeCbIds, CbId
  <2>2. i \in CbId /\ m.obj[i] = Nobody
    BY <1>2, <2>1, SmallestExists DEF FreeCbIds
  <2>3. n.cbId = [m.cbId EXCEPT ![p] = i] /\ n.obj = [m.obj EXCEPT ![i] = p]
    BY <1>2 DEF StartMonitor
  <2> HIDE DEF n, i
  <2>4. /\ MonitorType(n)
        /\ \A q \in Pid \ {p} : n.cbId[q] = m.cbId[q]
        /\ m.cbId[p] = NoCbId /\ n.cbId[p] = i /\ n.obj[i] = p
        /\ \A j \in CbId \ {i} : n.obj[j] = m.obj[j]
    BY <1>2, <2>2, <2>3 DEF MonitorType
  <2> QED BY <2>2, <2>4 DEF n
<1> QED BY <1>1, <1>2

----------------------------------------------------------------------------
(* Every call and every notice changes the monitors in one of four ways. *)

Restart(m, p) == StartMonitor(StopMonitor(m, p), p)

Remonitors(p) ==
  \/ UNCHANGED <<pidCbIdMap_, monitoredObj_>>
  \/ Change(StopMonitor(Monitors, p))
  \/ Change(StartMonitor(Monitors, p))
  \/ Change(Restart(Monitors, p))

LEMMA MonitorsType == TypeOK => MonitorType(Monitors)
BY DEF TypeOK, MonitorType, Monitors

\* All four leave the other processes their entries, take from them at most the
\* timer that has p's id, and give them none; and a timer p gets is one it knows.
LEMMA RemonitorFacts ==
  ASSUME TypeOK, NEW p \in Pid, Remonitors(p)
  PROVE  /\ pidCbIdMap_' \in [Pid -> CbId \cup {NoCbId}]
         /\ monitoredObj_' \in [CbId -> Pid \cup {Nobody}]
         /\ \A q \in Pid \ {p} : pidCbIdMap_'[q] = pidCbIdMap_[q]
         /\ \A i \in CbId : pidCbIdMap_[p] = i /\ monitoredObj_'[i] = p => pidCbIdMap_'[p] = i
         /\ \A i \in CbId : monitoredObj_'[i] # monitoredObj_[i] =>
              \/ monitoredObj_'[i] = Nobody /\ pidCbIdMap_[p] = i
              \/ monitoredObj_'[i] = p /\ pidCbIdMap_'[p] = i
                   /\ (monitoredObj_[i] = Nobody \/ pidCbIdMap_[p] = i)
<1> DEFINE m == Monitors
<1>0. MonitorType(m) /\ m.cbId = pidCbIdMap_ /\ m.obj = monitoredObj_
  BY MonitorsType DEF Monitors
<1>9. Nobody # p /\ \A i \in CbId : i # NoCbId
  BY SessionAssumption DEF CbId, NoCbId
<1> HIDE DEF m
<1>1. CASE UNCHANGED <<pidCbIdMap_, monitoredObj_>>
  BY <1>1 DEF TypeOK
<1>2. CASE Change(StopMonitor(m, p))
  <2> DEFINE n == StopMonitor(m, p)
  <2>1. /\ MonitorType(n) /\ \A q \in Pid \ {p} : n.cbId[q] = m.cbId[q]
        /\ \A i \in CbId : n.obj[i] # m.obj[i] => n.obj[i] = Nobody /\ m.cbId[p] = i
        /\ m.cbId[p] = NoCbId \/ n.obj[m.cbId[p]] = Nobody
    BY <1>0, StopFacts
  <2>2. pidCbIdMap_' = n.cbId /\ monitoredObj_' = n.obj
    BY <1>2 DEF Change
  <2> HIDE DEF n
  <2> QED BY <1>0, <1>9, <2>1, <2>2 DEF MonitorType
<1>3. CASE Change(StartMonitor(m, p))
  <2> DEFINE n == StartMonitor(m, p)
  <2>1. /\ MonitorType(n) /\ \A q \in Pid \ {p} : n.cbId[q] = m.cbId[q]
        /\ \/ n = m
           \/ \E i \in CbId : /\ m.cbId[p] = NoCbId /\ n.cbId[p] = i
                              /\ m.obj[i] = Nobody /\ n.obj[i] = p
                              /\ \A j \in CbId \ {i} : n.obj[j] = m.obj[j]
    BY <1>0, StartFacts
  <2>2. pidCbIdMap_' = n.cbId /\ monitoredObj_' = n.obj
    BY <1>3 DEF Change
  <2> HIDE DEF n
  <2> QED BY <1>0, <1>9, <2>1, <2>2 DEF MonitorType
<1>4. CASE Change(Restart(m, p))
  <2> DEFINE k == StopMonitor(m, p)
             n == StartMonitor(k, p)
  <2>1. /\ MonitorType(k) /\ \A q \in Pid \ {p} : k.cbId[q] = m.cbId[q]
        /\ \A i \in CbId : k.obj[i] # m.obj[i] => k.obj[i] = Nobody /\ m.cbId[p] = i
        /\ m.cbId[p] = NoCbId \/ k.obj[m.cbId[p]] = Nobody
    BY <1>0, StopFacts
  <2> HIDE DEF k
  <2>2. /\ MonitorType(n) /\ \A q \in Pid \ {p} : n.cbId[q] = k.cbId[q]
        /\ \/ n = k
           \/ \E i \in CbId : /\ k.cbId[p] = NoCbId /\ n.cbId[p] = i
                              /\ k.obj[i] = Nobody /\ n.obj[i] = p
                              /\ \A j \in CbId \ {i} : n.obj[j] = k.obj[j]
    BY <2>1, StartFacts
  <2>3. pidCbIdMap_' = n.cbId /\ monitoredObj_' = n.obj
    BY <1>4 DEF Change, Restart, k
  <2> HIDE DEF n
  <2>4. /\ \A q \in Pid \ {p} : n.cbId[q] = m.cbId[q]
        /\ \A i \in CbId : m.cbId[p] = i /\ n.obj[i] = p => n.cbId[p] = i
        /\ \A i \in CbId : n.obj[i] # m.obj[i] =>
             \/ n.obj[i] = Nobody /\ m.cbId[p] = i
             \/ n.obj[i] = p /\ n.cbId[p] = i /\ (m.obj[i] = Nobody \/ m.cbId[p] = i)
    BY <1>9, <2>1, <2>2
  <2> QED BY <1>0, <2>2, <2>3, <2>4 DEF MonitorType
<1> QED BY <1>1, <1>2, <1>3, <1>4 DEF Remonitors, m

----------------------------------------------------------------------------
(* The inductive invariant. *)

IInv == TypeOK /\ KnownTimersWatchEmptySessions

LEMMA InitHolds == Init => IInv
<1> SUFFICES ASSUME Init PROVE IInv
  OBVIOUS
<1>1. TypeOK
  BY SessionAssumption DEF Init, TypeOK
<1>2. \A p \in Pid : TimersOf(p) = {}
  BY SessionAssumption DEF Init, TimersOf
<1> QED BY <1>1, <1>2 DEF IInv, KnownTimersWatchEmptySessions

\* What a session that is there is, and that an activated one is.
LEMMA ExistingSession ==
  ASSUME TypeOK, NEW p \in Pid, Exists(p)
  PROVE  sessionMap_[p] \in Session /\ sessionMap_[p] # NoSession
BY DEF TypeOK, Exists

LEMMA ActivatedSession ==
  ASSUME TypeOK, NEW p \in Pid, IsActivated(p)
  PROVE  sessionMap_[p] \in Session /\ sessionMap_[p] # NoSession
BY DEF TypeOK, IsActivated, NoSession, Session

\* A step that changes the session of p and its monitors, and after which p
\* knows a timer only for an empty session.
LEMMA SessionStep ==
  ASSUME IInv, NEW p \in Pid, Remonitors(p), NEW new \in Session \cup {NoSession},
         sessionMap_' = [sessionMap_ EXCEPT ![p] = new],
         UNCHANGED <<fired, ended>>,
         background' \in [Pid -> BOOLEAN], notice' \in [Pid -> BOOLEAN], calls' \in 0 .. MaxCalls,
         \A i \in CbId : monitoredObj_'[i] = p /\ pidCbIdMap_'[p] = i /\ ~InTimeOut(p)
                           => new # NoSession /\ new.streams = {}
  PROVE  IInv'
<1>1. TypeOK'
  BY RemonitorFacts DEF IInv, TypeOK
<1>2. ASSUME NEW q \in Pid, NEW i \in CbId, monitoredObj_'[i] = q, pidCbIdMap_'[q] = i, ~InTimeOut(q)
      PROVE  sessionMap_'[q] # NoSession /\ sessionMap_'[q].streams = {}
  <2>1. CASE q = p
    BY <1>2, <2>1 DEF IInv, TypeOK
  <2>2. CASE q # p
    <3>1. pidCbIdMap_[q] = i /\ monitoredObj_[i] = q
      BY <1>2, <2>2, RemonitorFacts, SessionAssumption DEF IInv
    <3>2. sessionMap_[q] # NoSession /\ sessionMap_[q].streams = {}
      BY <1>2, <3>1 DEF IInv, KnownTimersWatchEmptySessions, TimersOf, Known, Exists
    <3> QED BY <3>2, <2>2 DEF IInv, TypeOK
  <2> QED BY <2>1, <2>2
<1>3. \A q \in Pid : InTimeOut(q)' = InTimeOut(q)
  BY DEF InTimeOut
<1>4. KnownTimersWatchEmptySessions'
  BY <1>2, <1>3 DEF KnownTimersWatchEmptySessions, TimersOf, Known, Exists
<1> QED BY <1>1, <1>4 DEF IInv

\* After StopMonitor p knows no timer.
LEMMA StopLeavesNone ==
  ASSUME TypeOK, NEW p \in Pid, Change(StopMonitor(Monitors, p))
  PROVE  \A i \in CbId : pidCbIdMap_'[p] # i
<1>1. pidCbIdMap_'[p] = NoCbId
  BY MonitorsType, StopFacts DEF Change
<1> QED BY <1>1, SessionAssumption DEF CbId, NoCbId

LEMMA CallStep == ASSUME IInv, NEW p \in Pid, Call(p) PROVE IInv'
<1> DEFINE old == IF Exists(p) THEN sessionMap_[p] ELSE NewSession
<1>1. calls' \in 0 .. MaxCalls /\ UNCHANGED <<fired, ended>>
  <2>1. Calls(p)
    BY DEF Call, ActivateAudioSession, DeactivateAudioSession, SetAudioSessionScene,
           AddStreamInfo, RemoveStreamInfo, MoveProcess
  <2>2. calls \in Nat /\ MaxCalls \in Nat
    BY SessionAssumption DEF IInv, TypeOK
  <2> QED BY <2>1, <2>2 DEF Calls
<1>2. old \in Session
  BY DEF IInv, TypeOK, Exists, NewSession, Session
<1>3. CASE ActivateAudioSession(p)
  <2> DEFINE new == [old EXCEPT !.state = "ACTIVE"]
  <2>1. new \in Session /\ new # NoSession
    BY <1>2 DEF Session, NoSession
  <2>2. /\ sessionMap_' = [sessionMap_ EXCEPT ![p] = new]
        /\ Change(IF Timed(new, p) THEN Restart(Monitors, p) ELSE StopMonitor(Monitors, p))
        /\ UNCHANGED <<background, notice>>
    BY <1>3 DEF ActivateAudioSession, Restart
  <2> HIDE DEF new
  <2>3. CASE Timed(new, p)
    <3>1. Remonitors(p) /\ new.streams = {}
      BY <2>2, <2>3 DEF Remonitors, Timed
    <3> QED BY <3>1, <2>1, <2>2, <1>1, SessionStep DEF IInv, TypeOK
  <2>4. CASE ~ Timed(new, p)
    <3>1. Remonitors(p) /\ Change(StopMonitor(Monitors, p))
      BY <2>2, <2>4 DEF Remonitors
    <3>2. \A i \in CbId : pidCbIdMap_'[p] # i
      BY <3>1, StopLeavesNone DEF IInv
    <3> QED BY <3>1, <3>2, <2>1, <2>2, <1>1, SessionStep DEF IInv, TypeOK
  <2> QED BY <2>3, <2>4
<1>4. CASE DeactivateAudioSession(p)
  <2>1. /\ Remonitors(p) /\ sessionMap_' = [sessionMap_ EXCEPT ![p] = NoSession]
        /\ UNCHANGED <<background, notice>>
    BY <1>4 DEF DeactivateAudioSession, Remonitors
  <2>2. \A i \in CbId : pidCbIdMap_'[p] # i
    BY <1>4, StopLeavesNone DEF DeactivateAudioSession, IInv
  <2> QED BY <2>1, <2>2, <1>1, SessionStep DEF IInv, TypeOK
<1>5. CASE SetAudioSessionScene(p)
  <2> DEFINE new == [old EXCEPT !.scene = TRUE]
  <2>1. new \in Session /\ new # NoSession /\ new.streams = old.streams
    BY <1>2 DEF Session, NoSession
  <2>2. /\ sessionMap_' = [sessionMap_ EXCEPT ![p] = new]
        /\ UNCHANGED <<pidCbIdMap_, monitoredObj_, background, notice>>
    BY <1>5 DEF SetAudioSessionScene, IInv, TypeOK
  <2> HIDE DEF new
  <2>3. ASSUME NEW i \in CbId, monitoredObj_'[i] = p, pidCbIdMap_'[p] = i, ~InTimeOut(p)
        PROVE  new.streams = {}
    BY <2>1, <2>2, <2>3 DEF IInv, KnownTimersWatchEmptySessions, TimersOf, Known
  <2> QED BY <2>1, <2>2, <2>3, <1>1, SessionStep DEF IInv, TypeOK, Remonitors
<1>6. ASSUME NEW s \in Stream, AddStreamInfo(p, s) PROVE IInv'
  <2> DEFINE new == [sessionMap_[p] EXCEPT !.streams = @ \cup {s}]
  <2>1. new \in Session
    BY <1>6, ExistingSession DEF AddStreamInfo, IInv, Session
  <2>2. /\ sessionMap_' = [sessionMap_ EXCEPT ![p] = new] /\ Remonitors(p)
        /\ UNCHANGED <<background, notice>>
    BY <1>6 DEF AddStreamInfo, Remonitors, IInv, TypeOK
  <2>3. \A i \in CbId : pidCbIdMap_'[p] # i
    BY <1>6, StopLeavesNone DEF AddStreamInfo, IInv
  <2> HIDE DEF new
  <2> QED BY <2>1, <2>2, <2>3, <1>1, SessionStep DEF IInv, TypeOK
<1>7. ASSUME NEW s \in Stream, RemoveStreamInfo(p, s) PROVE IInv'
  <2> DEFINE new == [sessionMap_[p] EXCEPT !.streams = @ \ {s}]
  <2>1. new \in Session /\ new # NoSession /\ new.streams = sessionMap_[p].streams \ {s}
    BY <1>7, ExistingSession DEF RemoveStreamInfo, IInv, Session, NoSession
  <2>2. /\ sessionMap_' = [sessionMap_ EXCEPT ![p] = new]
        /\ UNCHANGED <<background, notice>>
        /\ IF Timed(new, p) THEN Change(StartMonitor(Monitors, p))
           ELSE UNCHANGED <<pidCbIdMap_, monitoredObj_>>
    BY <1>7 DEF RemoveStreamInfo, Change, Monitors
  <2> HIDE DEF new
  <2>3. Remonitors(p)
    BY <2>2 DEF Remonitors
  <2>4. ASSUME NEW i \in CbId, monitoredObj_'[i] = p, pidCbIdMap_'[p] = i, ~InTimeOut(p)
        PROVE  new.streams = {}
    <3>1. CASE Timed(new, p)
      BY <3>1 DEF Timed
    <3>2. CASE ~ Timed(new, p)
      BY <3>2, <2>1, <2>2, <2>4 DEF IInv, KnownTimersWatchEmptySessions, TimersOf, Known
    <3> QED BY <3>1, <3>2
  <2> QED BY <2>1, <2>2, <2>3, <2>4, <1>1, SessionStep DEF IInv, TypeOK
<1>8. CASE MoveProcess(p)
  <2>1. /\ UNCHANGED <<sessionMap_, pidCbIdMap_, monitoredObj_, fired, ended>>
        /\ background' \in [Pid -> BOOLEAN] /\ notice' \in [Pid -> BOOLEAN]
    BY <1>8, <1>1 DEF MoveProcess, IInv, TypeOK
  <2> QED BY <2>1, <1>1 DEF IInv, TypeOK, KnownTimersWatchEmptySessions, TimersOf, Known, Exists, InTimeOut
<1> QED BY <1>3, <1>4, <1>5, <1>6, <1>7, <1>8 DEF Call

LEMMA NoticeStep == ASSUME IInv, NEW p \in Pid, NotifyAppStateChange(p) PROVE IInv'
<1> DEFINE new == sessionMap_[p]
<1>1. /\ UNCHANGED <<sessionMap_, fired, ended, background, calls>>
      /\ notice' = [notice EXCEPT ![p] = FALSE]
      /\ new \in Session \cup {NoSession}
      /\ sessionMap_' = [sessionMap_ EXCEPT ![p] = new]
  BY DEF NotifyAppStateChange, IInv, TypeOK
<1>2. \/ Change(StopMonitor(Monitors, p))
      \/ Change(StartMonitor(Monitors, p)) /\ IsActivated(p) /\ new.streams = {}
      \/ UNCHANGED <<pidCbIdMap_, monitoredObj_>>
  BY DEF NotifyAppStateChange
<1>3. Remonitors(p)
  BY <1>2 DEF Remonitors
<1>4. ASSUME NEW i \in CbId, monitoredObj_'[i] = p, pidCbIdMap_'[p] = i, ~InTimeOut(p)
      PROVE  new # NoSession /\ new.streams = {}
  <2>1. CASE Change(StopMonitor(Monitors, p))
    BY <2>1, <1>4, StopLeavesNone DEF IInv
  <2>2. CASE IsActivated(p) /\ new.streams = {}
    BY <2>2, ActivatedSession DEF IInv
  <2>3. CASE UNCHANGED <<pidCbIdMap_, monitoredObj_>>
    BY <2>3, <1>4 DEF IInv, KnownTimersWatchEmptySessions, TimersOf, Known, Exists
  <2> QED BY <1>2, <2>1, <2>2, <2>3
<1> HIDE DEF new
<1> QED BY <1>1, <1>3, <1>4, SessionStep DEF IInv, TypeOK

\* A timer that goes off, and the two steps of its thread.
LEMMA TimerStep ==
  ASSUME IInv,
         \/ \E i \in CbId : GoOff(i)
         \/ \E p \in Pid : OnAudioSessionTimeOut(p) \/ RemoveFromMonitorMap(p)
  PROVE  IInv'
<1> USE DEF IInv, TypeOK, KnownTimersWatchEmptySessions, TimersOf, Known, Exists, InTimeOut
<1>1. ASSUME NEW i \in CbId, GoOff(i) PROVE IInv'
  <2> DEFINE p == monitoredObj_[i]
  <2>1. p \in Pid /\ fired[p] \in Nat
    BY <1>1 DEF GoOff
  <2>2. /\ monitoredObj_' = [monitoredObj_ EXCEPT ![i] = Nobody]
        /\ fired' = [fired EXCEPT ![p] = fired[p] + 1]
        /\ UNCHANGED <<sessionMap_, pidCbIdMap_, ended, background, notice, calls>>
    BY <1>1 DEF GoOff
  <2> HIDE DEF p
  <2>3. TypeOK'
    BY <2>1, <2>2
  <2>4. KnownTimersWatchEmptySessions'
    BY <2>1, <2>2, SessionAssumption
  <2> QED BY <2>3, <2>4
<1>2. ASSUME NEW p \in Pid, OnAudioSessionTimeOut(p) PROVE IInv'
  <2>1. /\ fired[p] \in Nat /\ fired[p] > 0 /\ ended[p] \in Nat
        /\ fired' = [fired EXCEPT ![p] = fired[p] - 1]
        /\ ended' = [ended EXCEPT ![p] = ended[p] + 1]
        /\ sessionMap_' = [sessionMap_ EXCEPT ![p] = NoSession]
        /\ UNCHANGED <<pidCbIdMap_, monitoredObj_, background, notice, calls>>
    BY <1>2 DEF OnAudioSessionTimeOut
  <2>2. TypeOK'
    BY <2>1
  <2>3. KnownTimersWatchEmptySessions'
    BY <2>1
  <2> QED BY <2>2, <2>3
<1>3. ASSUME NEW p \in Pid, RemoveFromMonitorMap(p) PROVE IInv'
  <2>1. /\ ended[p] \in Nat /\ ended[p] > 0
        /\ ended' = [ended EXCEPT ![p] = ended[p] - 1]
        /\ pidCbIdMap_' = [pidCbIdMap_ EXCEPT ![p] = NoCbId]
        /\ UNCHANGED <<sessionMap_, monitoredObj_, fired, background, notice, calls>>
    BY <1>3 DEF RemoveFromMonitorMap
  <2>2. TypeOK'
    BY <2>1
  <2>3. \A i \in CbId : i # NoCbId
    BY SessionAssumption DEF CbId, NoCbId
  <2>4. KnownTimersWatchEmptySessions'
    BY <2>1, <2>3
  <2> QED BY <2>2, <2>4
<1> QED BY <1>1, <1>2, <1>3

LEMMA NextStep == IInv /\ [Next]_vars => IInv'
<1>1. IInv /\ UNCHANGED vars => IInv'
  BY DEF IInv, TypeOK, KnownTimersWatchEmptySessions, TimersOf, Known, Exists, InTimeOut, vars
<1> QED BY <1>1, CallStep, NoticeStep, TimerStep DEF Next

THEOREM SessionInvariant == Spec => []IInv
BY InitHolds, NextStep, PTL DEF Spec

\* Every variable keeps its type: no process is left with an id that was never
\* given, and no timer with a process that is not there.
THEOREM SessionTypeCorrect == Spec => []TypeOK
<1>1. IInv => TypeOK
  BY DEF IInv
<1> QED BY <1>1, SessionInvariant, PTL

\* A timer that can still be stopped watches a session that is there and empty.
THEOREM TimersWatchEmptySessions == Spec => []KnownTimersWatchEmptySessions
<1>1. IInv => KnownTimersWatchEmptySessions
  BY DEF IInv
<1> QED BY <1>1, SessionInvariant, PTL

----------------------------------------------------------------------------
(* The action properties. *)

\* Which steps touch the monitors by way of StopMonitor and StartMonitor.
LEMMA Remonitored ==
  ASSUME TypeOK, NEW p \in Pid, Call(p) \/ NotifyAppStateChange(p)
  PROVE  Remonitors(p) /\ UNCHANGED fired
<1>1. ASSUME NEW s \in Stream, AddStreamInfo(p, s) \/ RemoveStreamInfo(p, s)
      PROVE  Remonitors(p) /\ UNCHANGED fired
  BY <1>1 DEF AddStreamInfo, RemoveStreamInfo, Calls, Remonitors, Change, Monitors
<1>2. CASE ActivateAudioSession(p)
  BY <1>2 DEF ActivateAudioSession, Calls, Remonitors, Restart
<1>3. CASE DeactivateAudioSession(p) \/ SetAudioSessionScene(p) \/ MoveProcess(p)
  BY <1>3 DEF DeactivateAudioSession, SetAudioSessionScene, MoveProcess, Calls, Remonitors
<1>4. CASE NotifyAppStateChange(p)
  BY <1>4 DEF NotifyAppStateChange, Remonitors
<1> QED BY <1>1, <1>2, <1>3, <1>4 DEF Call

\* A timer the service cannot stop comes from RemoveFromMonitorMap alone.
THEOREM OrphansHaveOneCause == Spec => OnlyRemoveFromMonitorMapOrphans
<1> DEFINE OneCause ==
      \A p \in Pid :
        /\ \A i \in TimersOf(p) : Known(p, i)
        /\ ~\A i \in TimersOf(p)' : Known(p, i)'
        => RemoveFromMonitorMap(p)
<1>1. ASSUME IInv, [Next]_vars PROVE [OneCause]_vars
  <2> SUFFICES ASSUME NEW p \in Pid, NEW i \in CbId, \A j \in TimersOf(p) : Known(p, j),
                      monitoredObj_'[i] = p, ~ RemoveFromMonitorMap(p), Next
               PROVE  pidCbIdMap_'[p] = i
    BY <1>1 DEF TimersOf, Known
  <2>1. monitoredObj_[i] = p => pidCbIdMap_[p] = i
    BY DEF TimersOf, Known
  <2>2. ASSUME NEW q \in Pid, Call(q) \/ NotifyAppStateChange(q) PROVE pidCbIdMap_'[p] = i
    <3>1. Remonitors(q)
      BY <1>1, <2>2, Remonitored DEF IInv
    <3> QED BY <1>1, <2>1, <3>1, RemonitorFacts, SessionAssumption DEF IInv
  <2>3. ASSUME NEW q \in Pid, OnAudioSessionTimeOut(q) PROVE pidCbIdMap_'[p] = i
    BY <2>1, <2>3 DEF OnAudioSessionTimeOut
  <2>4. ASSUME NEW q \in Pid, RemoveFromMonitorMap(q) PROVE pidCbIdMap_'[p] = i
    <3>1. q # p
      BY <2>4
    <3> QED BY <1>1, <2>1, <2>4, <3>1 DEF RemoveFromMonitorMap, IInv, TypeOK
  <2>5. ASSUME NEW k \in CbId, GoOff(k) PROVE pidCbIdMap_'[p] = i
    BY <1>1, <2>1, <2>5, SessionAssumption DEF GoOff, IInv, TypeOK
  <2> QED BY <2>2, <2>3, <2>4, <2>5 DEF Next
<1> QED BY <1>1, SessionInvariant, PTL DEF Spec, OnlyRemoveFromMonitorMapOrphans

\* What an activation leaves of the timers of its process: one, if there was any.
LEMMA RestartWatches ==
  ASSUME TypeOK, NEW p \in Pid, TimersOf(p) # {}, Change(Restart(Monitors, p))
  PROVE  \E i \in CbId : monitoredObj_'[i] = p
<1> DEFINE m == Monitors
           k == StopMonitor(m, p)
           n == StartMonitor(k, p)
<1>1. PICK i \in CbId : monitoredObj_[i] = p
  BY DEF TimersOf
<1>2. m.obj[i] = p /\ MonitorType(m) /\ Nobody # p
  BY <1>1, MonitorsType, SessionAssumption DEF Monitors
<1>3. monitoredObj_' = n.obj
  BY DEF Change, Restart
<1> HIDE DEF m
<1>4. /\ MonitorType(k) /\ k.cbId[p] = NoCbId
      /\ \A j \in CbId : k.obj[j] # m.obj[j] => k.obj[j] = Nobody /\ m.cbId[p] = j
  BY <1>2, StopFacts
<1> HIDE DEF k
<1>5. \/ n = k /\ \A j \in CbId : k.obj[j] # Nobody
      \/ \E j \in CbId : n.obj[j] = p
  BY <1>4, StartFacts
<1> HIDE DEF n
<1> QED BY <1>2, <1>3, <1>4, <1>5

\* A watched empty session stays watched through every call of its process.
LEMMA OwnCallsKeepWatch ==
  ASSUME TypeOK, NEW p \in Pid, Call(p) \/ NotifyAppStateChange(p), Idle(p), Idle(p)', TimersOf(p) # {}
  PROVE  \E i \in CbId : monitoredObj_'[i] = p
<1>1. PICK i \in CbId : monitoredObj_[i] = p
  BY DEF TimersOf
<1>2. sessionMap_[p] \in Session /\ sessionMap_[p] # NoSession /\ ~sessionMap_[p].scene
        /\ sessionMap_[p].streams = {}
  BY ActivatedSession DEF Idle
<1>3. CASE ActivateAudioSession(p)
  <2> DEFINE new == [sessionMap_[p] EXCEPT !.state = "ACTIVE"]
  <2>1. new.streams = {} /\ ~new.scene
    BY <1>2 DEF Session
  <2>2. Timed(new, p)
    BY <2>1 DEF Timed
  <2>3. Change(IF Timed(new, p) THEN Restart(Monitors, p) ELSE StopMonitor(Monitors, p))
    BY <1>2, <1>3 DEF ActivateAudioSession, Restart, Exists
  <2> QED BY <2>2, <2>3, RestartWatches
<1>4. CASE DeactivateAudioSession(p)
  <2>1. sessionMap_'[p] = NoSession
    BY <1>4 DEF DeactivateAudioSession, TypeOK
  <2> QED BY <2>1 DEF Idle, IsActivated, NoSession
<1>5. CASE SetAudioSessionScene(p) \/ MoveProcess(p)
  BY <1>1, <1>5 DEF SetAudioSessionScene, MoveProcess
<1>6. ASSUME NEW s \in Stream, AddStreamInfo(p, s) PROVE FALSE
  <2>1. sessionMap_'[p].streams = sessionMap_[p].streams \cup {s}
    BY <1>2, <1>6 DEF AddStreamInfo, TypeOK, Session
  <2> QED BY <2>1 DEF Idle
<1>7. ASSUME NEW s \in Stream, RemoveStreamInfo(p, s) PROVE \E j \in CbId : monitoredObj_'[j] = p
  <2>1. Change(StartMonitor(Monitors, p)) \/ UNCHANGED monitoredObj_
    BY <1>7 DEF RemoveStreamInfo, Change, Monitors
  <2>2. CASE Change(StartMonitor(Monitors, p))
    <3> DEFINE m == Monitors
               n == StartMonitor(m, p)
    <3>1. m.obj[i] = p /\ MonitorType(m)
      BY <1>1, MonitorsType DEF Monitors
    <3>2. monitoredObj_' = n.obj
      BY <2>2 DEF Change
    <3> HIDE DEF m
    <3>3. n = m \/ \E j \in CbId : n.obj[j] = p
      BY <3>1, StartFacts
    <3> HIDE DEF n
    <3> QED BY <3>1, <3>2, <3>3
  <2> QED BY <1>1, <2>1, <2>2
<1>8. CASE NotifyAppStateChange(p)
  BY <1>1, <1>2, <1>8 DEF NotifyAppStateChange
<1> QED BY <1>3, <1>4, <1>5, <1>6, <1>7, <1>8 DEF Call

\* A watched empty session loses its timer only to another process that stops a
\* timer of its own which has gone off.
THEOREM RobberyHasOneCause == Spec => OnlyStaleIdsRob
<1> DEFINE OneCause ==
      \A p \in Pid :
        Idle(p) /\ Watched(p) /\ Idle(p)' /\ ~Watched(p)'
          => \E q \in Pid \ {p} : pidCbIdMap_[q] \in TimersOf(p) \ TimersOf(p)'
<1>1. ASSUME IInv, [Next]_vars PROVE [OneCause]_vars
  <2> SUFFICES ASSUME NEW p \in Pid, Idle(p), Watched(p), Idle(p)', ~Watched(p)', Next
               PROVE  \E q \in Pid \ {p} : pidCbIdMap_[q] \in TimersOf(p) \ TimersOf(p)'
    BY <1>1
  <2>1. fired[p] \in Nat /\ ~ (fired'[p] > 0) /\ \A i \in CbId : monitoredObj_'[i] # p
    BY <1>1 DEF Watched, TimersOf, IInv, TypeOK
  <2>2. ASSUME NEW q \in Pid, Call(q) \/ NotifyAppStateChange(q)
        PROVE  q # p /\ pidCbIdMap_[q] \in TimersOf(p) \ TimersOf(p)'
    <3>1. Remonitors(q) /\ UNCHANGED fired
      BY <1>1, <2>2, Remonitored DEF IInv
    <3>2. TimersOf(p) # {}
      BY <2>1, <3>1 DEF Watched
    <3>3. q # p
      BY <1>1, <2>1, <2>2, <3>2, OwnCallsKeepWatch DEF IInv
    <3>4. PICK i \in CbId : monitoredObj_[i] = p
      BY <3>2 DEF TimersOf
    <3>5. pidCbIdMap_[q] = i
      BY <1>1, <2>1, <3>1, <3>4, RemonitorFacts, SessionAssumption DEF IInv
    <3> QED BY <2>1, <3>3, <3>4, <3>5 DEF TimersOf
  <2>3. ASSUME NEW q \in Pid, OnAudioSessionTimeOut(q) PROVE FALSE
    <3>1. CASE q = p
      <4>1. sessionMap_'[p] = NoSession
        BY <1>1, <2>3, <3>1 DEF OnAudioSessionTimeOut, IInv, TypeOK
      <4> QED BY <4>1 DEF Idle, IsActivated, NoSession
    <3>2. CASE q # p
      BY <1>1, <2>1, <2>3, <3>2 DEF OnAudioSessionTimeOut, Watched, TimersOf, IInv, TypeOK
    <3> QED BY <3>1, <3>2
  <2>4. ASSUME NEW q \in Pid, RemoveFromMonitorMap(q) PROVE FALSE
    BY <2>1, <2>4 DEF RemoveFromMonitorMap, Watched, TimersOf
  <2>5. ASSUME NEW k \in CbId, GoOff(k) PROVE FALSE
    <3>1. CASE monitoredObj_[k] = p
      <4>1. fired' = [fired EXCEPT ![p] = @ + 1] /\ fired \in [Pid -> Nat]
        BY <1>1, <2>5, <3>1 DEF GoOff, IInv, TypeOK
      <4>2. fired'[p] = fired[p] + 1
        BY <4>1
      <4> QED BY <2>1, <4>2
    <3>2. CASE monitoredObj_[k] # p
      <4>1. fired'[p] = fired[p]
        BY <1>1, <2>5, <3>2 DEF GoOff, IInv, TypeOK
      <4> QED BY <1>1, <2>1, <2>5, <3>2, <4>1 DEF GoOff, Watched, TimersOf, IInv, TypeOK
    <3> QED BY <3>1, <3>2
  <2> QED BY <2>2, <2>3, <2>4, <2>5 DEF Next
<1> QED BY <1>1, SessionInvariant, PTL DEF Spec, OnlyStaleIdsRob
=============================================================================
