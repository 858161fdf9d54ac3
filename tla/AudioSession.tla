---------------------------- MODULE AudioSession ----------------------------
(***************************************************************************)
(* The audio sessions of AudioSessionService and the timers that end those *)
(* that stay empty (audio_session_service.cpp, audio_session.cpp,          *)
(* audio_session_state_monitor.cpp, audio_policy_state_monitor.cpp).       *)
(*                                                                         *)
(* An operation of the service holds sessionServiceMutex_ and is one step. *)
(* The timers are out of its reach: a thread of AudioPolicyStateMonitor    *)
(* lets them go off and gives each a thread of its own, which ends the     *)
(* session under sessionServiceMutex_ and only later, without it, forgets  *)
(* the timer in pidCbIdMap_.  Time itself is not modelled: a timer may go  *)
(* off at any moment after its start.                                      *)
(***************************************************************************)
EXTENDS Naturals, FiniteSets, FiniteSetsExt

CONSTANTS
  Pid,
  Stream,
  MaxCbIdNum,    \* MAX_CB_ID_NUM, ids of timers
  MaxCalls,      \* bound: calls of the applications and of the app manager
  MaxCallbacks   \* bound: timers that have gone off and are not through

VARIABLES
  sessionMap_,    \* the session of each process, NoSession for none
  pidCbIdMap_,    \* AudioSessionStateMonitor: the timer of each process
  monitoredObj_,  \* AudioPolicyStateMonitor: whom each timer is for; its
                  \* idAllocator_ marks exactly the ids that have one
  fired,          \* threads before OnAudioSessionTimeOut, per process
  ended,          \* threads before RemoveFromMonitorMap, per process
  background,     \* the process is in the background
  notice,         \* NotifyAppStateChange is still to tell so
  calls

vars == <<sessionMap_, pidCbIdMap_, monitoredObj_, fired, ended, background, notice, calls>>

CbId == 0 .. MaxCbIdNum - 1
NoCbId == -1
Nobody == "nobody"
Session == [state : {"NEW", "ACTIVE"}, scene : BOOLEAN, streams : SUBSET Stream]
NoSession == [state |-> "NONE"]
NewSession == [state |-> "NEW", scene |-> FALSE, streams |-> {}]

ASSUME SessionAssumption ==
  /\ Nobody \notin Pid
  /\ {MaxCbIdNum, MaxCalls, MaxCallbacks} \subseteq Nat

Init ==
  /\ sessionMap_ = [p \in Pid |-> NoSession]
  /\ pidCbIdMap_ = [p \in Pid |-> NoCbId]
  /\ monitoredObj_ = [i \in CbId |-> Nobody]
  /\ fired = [p \in Pid |-> 0]
  /\ ended = [p \in Pid |-> 0]
  /\ background = [p \in Pid |-> FALSE]
  /\ notice = [p \in Pid |-> FALSE]
  /\ calls = 0

Exists(p) == sessionMap_[p] # NoSession
IsActivated(p) == sessionMap_[p].state = "ACTIVE"
-----------------------------------------------------------------------------
(* The monitors.  Both maps as one value, for two calls in one step. *)

Monitors == [cbId |-> pidCbIdMap_, obj |-> monitoredObj_]
Change(m) == pidCbIdMap_' = m.cbId /\ monitoredObj_' = m.obj

StopMonitorForgets(m, p) == [m EXCEPT !.cbId[p] = NoCbId]

\* UnRegisterCallback takes out whatever has the id now.
StopMonitor(m, p) ==
  IF m.cbId[p] = NoCbId THEN m
  ELSE [cbId |-> [m.cbId EXCEPT ![p] = NoCbId],
        obj  |-> [m.obj EXCEPT ![m.cbId[p]] = Nobody]]

\* AllocateCbId: the first id that is free.
FreeCbIds(m) == {i \in CbId : m.obj[i] = Nobody}

StartMonitor(m, p) ==
  IF m.cbId[p] # NoCbId \/ FreeCbIds(m) = {} THEN m
  ELSE LET i == Min(FreeCbIds(m))
       IN [cbId |-> [m.cbId EXCEPT ![p] = i], obj |-> [m.obj EXCEPT ![i] = p]]

\* Whether an empty session is timed: one without a scene for 60 seconds, one
\* with a scene for 10 in the background.
Timed(session, p) == session.streams = {} /\ (session.scene => background[p])
-----------------------------------------------------------------------------
(* The calls. *)

Calls(p) ==
  /\ calls < MaxCalls
  /\ calls' = calls + 1
  /\ UNCHANGED <<fired, ended>>

ActivateStopsLast(p) ==
  LET old == IF Exists(p) THEN sessionMap_[p] ELSE NewSession
      new == [old EXCEPT !.state = "ACTIVE"]
  IN /\ Calls(p)
     /\ sessionMap_' = [sessionMap_ EXCEPT ![p] = new]
     /\ Change(StopMonitor(IF Timed(new, p) THEN StartMonitor(Monitors, p) ELSE Monitors, p))
     /\ UNCHANGED <<background, notice>>

ActivateAudioSession(p) ==
  LET old == IF Exists(p) THEN sessionMap_[p] ELSE NewSession
      new == [old EXCEPT !.state = "ACTIVE"]
      m   == StopMonitor(Monitors, p)
  IN /\ Calls(p)
     /\ sessionMap_' = [sessionMap_ EXCEPT ![p] = new]
     /\ Change(IF Timed(new, p) THEN StartMonitor(m, p) ELSE m)
     /\ UNCHANGED <<background, notice>>

DeactivateAudioSession(p) ==
  /\ Calls(p)
  /\ Exists(p)
  /\ sessionMap_' = [sessionMap_ EXCEPT ![p] = NoSession]
  /\ Change(StopMonitor(Monitors, p))
  /\ UNCHANGED <<background, notice>>

SetAudioSessionScene(p) ==
  /\ Calls(p)
  /\ sessionMap_' = [sessionMap_ EXCEPT ![p] =
       [(IF Exists(p) THEN @ ELSE NewSession) EXCEPT !.scene = TRUE]]
  /\ UNCHANGED <<pidCbIdMap_, monitoredObj_, background, notice>>

AddLeavesTimer(p, s) ==
  /\ Calls(p)
  /\ Exists(p)
  /\ sessionMap_' = [sessionMap_ EXCEPT ![p].streams = @ \cup {s}]
  /\ UNCHANGED <<pidCbIdMap_, monitoredObj_, background, notice>>

\* The focus list adds a stream to a session, one at a time, also those that
\* already play when it is activated.  It has asked whether the session is
\* activated, under the lock of another call; the session need only be there.
AddStreamInfo(p, s) ==
  /\ Calls(p)
  /\ Exists(p)
  /\ s \notin sessionMap_[p].streams
  /\ sessionMap_' = [sessionMap_ EXCEPT ![p].streams = @ \cup {s}]
  /\ Change(StopMonitor(Monitors, p))
  /\ UNCHANGED <<background, notice>>

RemoveStreamInfo(p, s) ==
  LET new == [sessionMap_[p] EXCEPT !.streams = @ \ {s}]
  IN /\ Calls(p)
     /\ Exists(p)
     /\ sessionMap_' = [sessionMap_ EXCEPT ![p] = new]
     /\ Change(IF Timed(new, p) THEN StartMonitor(Monitors, p) ELSE Monitors)
     /\ UNCHANGED <<background, notice>>

\* The app manager moves a process, and tells the service some time later.
MoveProcess(p) ==
  /\ Calls(p)
  /\ ~notice[p]
  /\ background' = [background EXCEPT ![p] = ~@]
  /\ notice' = [notice EXCEPT ![p] = TRUE]
  /\ UNCHANGED <<sessionMap_, pidCbIdMap_, monitoredObj_>>

NotifyAppStateChange(p) ==
  /\ notice[p]
  /\ notice' = [notice EXCEPT ![p] = FALSE]
  /\ CASE Exists(p) /\ sessionMap_[p].scene /\ ~background[p] ->
            Change(StopMonitor(Monitors, p))
       [] IsActivated(p) /\ sessionMap_[p].scene /\ background[p]
            /\ sessionMap_[p].streams = {} ->
            Change(StartMonitor(Monitors, p))
       [] OTHER -> UNCHANGED <<pidCbIdMap_, monitoredObj_>>
  /\ UNCHANGED <<sessionMap_, fired, ended, background, calls>>
-----------------------------------------------------------------------------
(* The timers. *)

SkipsFirst(i) ==
  LET p == monitoredObj_[i]
  IN /\ p # Nobody /\ i # 0
     /\ monitoredObj_' = [monitoredObj_ EXCEPT ![i] = Nobody]
     /\ fired' = [fired EXCEPT ![p] = @ + 1]
     /\ UNCHANGED <<sessionMap_, pidCbIdMap_, ended, background, notice, calls>>

\* TraverseAndInvokeTimeoutCallbacks: the id is free at once.
GoOff(i) ==
  LET p == monitoredObj_[i]
  IN /\ p # Nobody
     /\ MapThenSumSet(LAMBDA q : fired[q] + ended[q], Pid) < MaxCallbacks
     /\ monitoredObj_' = [monitoredObj_ EXCEPT ![i] = Nobody]
     /\ fired' = [fired EXCEPT ![p] = @ + 1]
     /\ UNCHANGED <<sessionMap_, pidCbIdMap_, ended, background, notice, calls>>

\* Whatever has become of the session since.
OnAudioSessionTimeOut(p) ==
  /\ fired[p] > 0
  /\ fired' = [fired EXCEPT ![p] = @ - 1]
  /\ ended' = [ended EXCEPT ![p] = @ + 1]
  /\ sessionMap_' = [sessionMap_ EXCEPT ![p] = NoSession]
  /\ UNCHANGED <<pidCbIdMap_, monitoredObj_, background, notice, calls>>

RemoveFromMonitorMap(p) ==
  /\ ended[p] > 0
  /\ ended' = [ended EXCEPT ![p] = @ - 1]
  /\ pidCbIdMap_' = [pidCbIdMap_ EXCEPT ![p] = NoCbId]
  /\ UNCHANGED <<sessionMap_, monitoredObj_, fired, background, notice, calls>>

Call(p) ==
  \/ ActivateAudioSession(p) \/ DeactivateAudioSession(p) \/ SetAudioSessionScene(p)
  \/ \E s \in Stream : AddStreamInfo(p, s) \/ RemoveStreamInfo(p, s)
  \/ MoveProcess(p)

Next ==
  \/ \E p \in Pid : Call(p) \/ NotifyAppStateChange(p)
       \/ OnAudioSessionTimeOut(p) \/ RemoveFromMonitorMap(p)
  \/ \E i \in CbId : GoOff(i)

\* Timers go off, their threads run and notices come; nobody has to call.
Fairness ==
  /\ \A i \in CbId : WF_vars(GoOff(i))
  /\ \A p \in Pid : WF_vars(OnAudioSessionTimeOut(p)) /\ WF_vars(RemoveFromMonitorMap(p))
                      /\ WF_vars(NotifyAppStateChange(p))

Spec == Init /\ [][Next]_vars /\ Fairness
-----------------------------------------------------------------------------
TypeOK ==
  /\ sessionMap_ \in [Pid -> Session \cup {NoSession}]
  /\ pidCbIdMap_ \in [Pid -> CbId \cup {NoCbId}]
  /\ monitoredObj_ \in [CbId -> Pid \cup {Nobody}]
  /\ fired \in [Pid -> Nat]
  /\ ended \in [Pid -> Nat]
  /\ background \in [Pid -> BOOLEAN]
  /\ notice \in [Pid -> BOOLEAN]
  /\ calls \in 0 .. MaxCalls

TimersOf(p) == {i \in CbId : monitoredObj_[i] = p}
InTimeOut(p) == fired[p] > 0 \/ ended[p] > 0

\* Timer i of p is one that StopMonitor(p) would find.
Known(p, i) == pidCbIdMap_[p] = i

\* A timer the service can still stop belongs to a session that is there and is
\* empty, unless another timer of the process is just ending that session: no
\* stream can join a session without stopping the timer, and no session ends
\* and leaves one.
KnownTimersWatchEmptySessions ==
  \A p \in Pid : \A i \in TimersOf(p) :
    Known(p, i) /\ ~InTimeOut(p) => Exists(p) /\ sessionMap_[p].streams = {}

\* A timer the service cannot stop any more comes about in one way: the thread of
\* an older one erases the entry that a session activated in the meantime made.
OnlyRemoveFromMonitorMapOrphans ==
  [][\A p \in Pid :
       /\ \A i \in TimersOf(p) : Known(p, i)
       /\ ~\A i \in TimersOf(p)' : Known(p, i)'
       => RemoveFromMonitorMap(p)]_vars

\* An activated session without a scene that is empty has a timer, or one has
\* gone off for it.
Idle(p) == IsActivated(p) /\ ~sessionMap_[p].scene /\ sessionMap_[p].streams = {}
Watched(p) == TimersOf(p) # {} \/ fired[p] > 0

\* It loses it in one way: another process stops its own timer, which has gone
\* off, and whose id the timer has now.
OnlyStaleIdsRob ==
  [][\A p \in Pid :
       Idle(p) /\ Watched(p) /\ Idle(p)' /\ ~Watched(p)'
         => \E q \in Pid \ {p} : pidCbIdMap_[q] \in TimersOf(p) \ TimersOf(p)']_vars

\* audio_session_info.h, TIMEOUT: "The audio session remains empty for one
\* minute."  Left alone, a watched empty session ends.
EmptySessionsEnd == \A p \in Pid : []<>~(Idle(p) /\ Watched(p))
=============================================================================
