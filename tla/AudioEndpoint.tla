---------------------------- MODULE AudioEndpoint ----------------------------
(***************************************************************************)
(* Low-latency playback: the AudioEndpointInner that mixes the streams of  *)
(* applications into one fast sink, and the part of AudioProcessInClient   *)
(* and AudioProcessInServer that steers it.  A stream's status lives in    *)
(* memory that both processes write.  The endpoint's status, isStarted_    *)
(* and delayStopTime_ are read and written by the binder threads of the    *)
(* streams, the endpoint's worker and its position thread, most of it      *)
(* without a lock.                                                         *)
(***************************************************************************)
EXTENDS Naturals, FiniteSets

CONSTANTS
  Streams,
  Worker,       \* the endpoint's own thread, EndpointWorkLoopFuc
  MaxCalls,     \* bound: calls the applications make
  MaxFailures   \* bound: times the sink fails to start or to stop

ASSUME EndpointAssumption ==
  MaxCalls \in Nat /\ MaxFailures \in Nat /\ Worker \notin Streams

Threads == Streams \cup {Worker}

VARIABLES
  status,          \* streamStatus_, "NONE" when there is no stream
  at,              \* where the call of a stream is, or the worker
  dozing,          \* the streams the worker has found silent
  list,            \* processList_
  svc,             \* the Link or Unlink that holds processListMutex_
  endpointStatus,
  delayStop,       \* delayStopTime_: "never", "later" or "passed"
  isStarted,
  sink,            \* the device is on
  update,          \* where AsyncGetPosTime is
  calls, failures,
  cause            \* history: what has set device and streams apart (see Cause)

stream   == <<status, at, dozing>>
endpoint == <<endpointStatus, delayStop>>
device   == <<isStarted, sink>>
bounds   == <<calls, failures>>
vars     == <<stream, list, svc, endpoint, device, update, bounds, cause>>

\* What may have come between the streams and the device since it last started:
\*   overlooked  IDEL was stored over a stream that had been told it runs
\*   refused     a pause was refused, and the client took its stream for RUNNING
\*   late        the device was being stopped when the endpoint came to run
\*   failed      the sink did not start
\*   crossed     RUNNING was stored for a stream that had stopped since
\*   unlisted    a stream was linked and is not in the list (for good)
Cause == {"overlooked", "refused", "late", "failed", "crossed", "unlisted"}

NoCall == [at |-> "none"]

Place == {"none", "start", "resume", "pause", "wake", "unlink", "released", "onStart",
          "startDevice", "starting", "prefer", "keepStarted", "mark", "keepOn", "started",
          "onPause", "storeIdle", "storeRunning", "delay", "paused", "standby"}

TypeOK ==
  /\ status \in [Streams -> {"NONE", "IDEL", "STARTING", "RUNNING", "PAUSING", "PAUSED",
                             "STAND_BY"}]
  /\ at \in [Threads -> Place]
  /\ dozing \subseteq Streams
  /\ list \subseteq Streams
  /\ svc \in {NoCall} \cup [at : {"startDevice", "starting", "delay", "test", "add", "stopping"},
                            s : Streams]
  /\ endpointStatus \in {"UNLINKED", "IDEL", "STARTING", "RUNNING", "STOPPING"}
  /\ delayStop \in {"never", "later", "passed"}
  /\ isStarted \in BOOLEAN /\ sink \in BOOLEAN
  /\ update \in {"idle", "due", "stopping", "stopped"}
  /\ calls \in 0 .. MaxCalls /\ failures \in 0 .. MaxFailures
  /\ cause \subseteq Cause

Init ==
  /\ status = [s \in Streams |-> "NONE"] /\ at = [t \in Threads |-> "none"] /\ dozing = {}
  /\ list = {} /\ svc = NoCall
  /\ endpointStatus = "UNLINKED" /\ delayStop = "never"
  /\ isStarted = FALSE /\ sink = FALSE
  /\ update = "idle" /\ calls = 0 /\ failures = 0 /\ cause = {}

DeviceIsStarting == svc.at = "starting" \/ \E s \in Streams : at[s] = "starting"

\* listLock_, which StartDevice holds to its last store
ListIsFree ==
  /\ at[Worker] # "standby" /\ svc.at \notin {"starting", "stopping"}
  /\ \A s \in Streams : at[s] \notin {"starting", "prefer", "keepStarted"}

\* IsAnyProcessRunningInner
IsAnyProcessRunning(l) == \E s \in l : status[s] = "RUNNING"

\* A stream that is through with OnStart and not RUNNING yet is not counted, nor is
\* one that becomes RUNNING between the count and the store.
ToldToRun == {"keepOn", "keepStarted", "started"}
Overlooks(l) == IF \E s \in l : at[s] \in ToldToRun THEN {"overlooked"} ELSE {}
IdleToBeStored == \E t \in Threads : at[t] = "storeIdle"
Uncounted == IF IdleToBeStored THEN {"overlooked"} ELSE {}

Healed(c) == cause \ (c \ Uncounted)

Works == UNCHANGED failures
Fails == failures < MaxFailures /\ failures' = failures + 1

\* FastAudioRenderSink: starting a started sink or stopping a stopped one succeeds.
SinkStarts    == sink' = TRUE /\ Works
SinkStartFails == ~sink /\ Fails /\ UNCHANGED sink
SinkStops     == sink' = FALSE /\ Works
SinkStopFails == sink /\ Fails /\ UNCHANGED sink

Go(t, place) == at' = [at EXCEPT ![t] = place]
-----------------------------------------------------------------------------
(* The application's calls (AudioProcessInClientInner), one at a time for a  *)
(* stream: statusSwitchLock_.  Stop does to the endpoint what Pause does.   *)

Call(s, old, new, place) ==
  /\ at[s] = "none" /\ status[s] = old
  /\ calls < MaxCalls /\ calls' = calls + 1
  /\ status' = [status EXCEPT ![s] = new]
  /\ Go(s, place)
  /\ UNCHANGED <<dozing, list, svc, endpoint, device, update, failures, cause>>

Start(s)  == Call(s, "IDEL", "STARTING", "start")
Resume(s) == Call(s, "PAUSED", "STARTING", "resume")
Pause(s)  == \E old \in {"RUNNING", "STAND_BY"} : Call(s, old, "PAUSING", "pause")

\* The callback loop writes to a stream in stand-by.
CallExitStandBy(s) == Call(s, "STAND_BY", "STAND_BY", "wake")

\* Release, or the death of the application between two calls
Release(s) == \E old \in {"IDEL", "RUNNING", "PAUSED", "STAND_BY"} : Call(s, old, old, "unlink")

\* The call returns, and only now the client stores RUNNING or PAUSED.
Return(s) ==
  /\ \/ at[s] = "started"  /\ status' = [status EXCEPT ![s] = "RUNNING"]
     \/ at[s] = "paused"   /\ status' = [status EXCEPT ![s] = "PAUSED"]
     \/ at[s] = "released" /\ status' = [status EXCEPT ![s] = "NONE"]
  /\ Go(s, "none")
  /\ cause' = cause \cup IF at[s] = "started" THEN Uncounted ELSE {}
  /\ UNCHANGED <<dozing, list, svc, endpoint, device, update, bounds>>

\* AudioProcessInServer tests the status; the policy may refuse a start.
Accepts(call) ==
  CASE call \in {"start", "wake"} -> {"STARTING", "STAND_BY"}
    [] call = "resume"            -> {"STARTING"}
    [] call = "pause"             -> {"PAUSING"}

Accept(s) ==
  /\ at[s] \in {"start", "wake", "resume", "pause"}
  /\ status[s] \in Accepts(at[s])
  /\ Go(s, IF at[s] = "pause" THEN "onPause" ELSE "onStart")
  /\ UNCHANGED <<status, dozing, list, svc, endpoint, device, update, bounds, cause>>

Refuse(s) ==
  /\ at[s] \in {"start", "wake", "resume", "pause"}
  /\ status[s] \notin Accepts(at[s]) \/ at[s] \in {"start", "wake"}
  /\ status' = [status EXCEPT ![s] = CASE at[s] = "start"  -> "IDEL"
                                       [] at[s] = "wake"   -> @
                                       [] at[s] = "resume" -> "PAUSED"
                                       [] at[s] = "pause"  -> "RUNNING"]
  /\ cause' = cause \cup IF at[s] = "pause" THEN {"refused"} \cup Uncounted ELSE {}
  /\ Go(s, "none")
  /\ UNCHANGED <<dozing, list, svc, endpoint, device, update, bounds>>
-----------------------------------------------------------------------------
(* OnStart and OnPause, called from the handlers of AudioProcessInServer.   *)

OnStart(s) ==
  /\ at[s] = "onStart"
  /\ \/ endpointStatus = "RUNNING" /\ Go(s, "started")
     \/ endpointStatus = "IDEL" /\ ~isStarted /\ Go(s, "startDevice")
     \/ endpointStatus # "RUNNING" /\ (endpointStatus = "IDEL" => isStarted) /\ Go(s, "mark")
  /\ UNCHANGED <<status, dozing, list, svc, endpoint, device, update, bounds, cause>>

\* The endpoint is RUNNING from now on, whatever became of the device since,
ComesToRun(healed) ==
  /\ endpointStatus' = "RUNNING"
  /\ cause' = IF update \in {"stopping", "stopped"} THEN cause \cup {"late"}
              ELSE IF isStarted THEN Healed(healed) ELSE cause

SetRunning(s) ==
  /\ at[s] = "mark"
  /\ ComesToRun({"overlooked", "refused"})
  /\ Go(s, "keepOn")
  /\ UNCHANGED <<status, dozing, list, svc, delayStop, device, update, bounds>>

\* and its device shall not stop.
KeepDeviceOn(s) ==
  /\ at[s] \in {"keepOn", "keepStarted"}
  /\ delayStop' = "never"
  /\ Go(s, "started")
  /\ UNCHANGED <<status, dozing, list, svc, endpointStatus, device, update, bounds, cause>>

\* StartDevice holds listLock_ and is refused unless the endpoint is IDEL.
StartDevice == ListIsFree /\ endpointStatus = "IDEL" /\ endpointStatus' = "STARTING"
StartDeviceRefused == ListIsFree /\ endpointStatus # "IDEL"

\* With the device on, the status is what the list says at first,
DeviceStarts ==
  /\ SinkStarts /\ isStarted' = TRUE
  /\ endpointStatus' = IF IsAnyProcessRunning(list) THEN "RUNNING" ELSE "IDEL"
  /\ cause' = Healed(Cause \ {"unlisted"})
              \cup (IF IsAnyProcessRunning(list) THEN {} ELSE Overlooks(list))
              \cup (IF update \in {"stopping", "stopped"} THEN {"late"} ELSE {})

HandleStartDeviceFailed ==
  /\ isStarted' = FALSE
  /\ endpointStatus' = IF Cardinality(list) <= 1 THEN "UNLINKED" ELSE "IDEL"
  /\ cause' = cause \cup {"failed"}

\* What StartDevice answers OnStart is lost: StartInner and Resume do not look.
OnStartDevice(s) ==
  /\ at[s] = "startDevice"
  /\ \/ StartDevice /\ Go(s, "starting")
     \/ StartDeviceRefused /\ Go(s, "started") /\ UNCHANGED endpointStatus
  /\ UNCHANGED <<status, dozing, list, svc, delayStop, device, update, bounds, cause>>

OnDeviceStarted(s) ==
  /\ at[s] = "starting"
  /\ \/ DeviceStarts /\ Go(s, "prefer")
     \/ SinkStartFails /\ HandleStartDeviceFailed /\ Go(s, "started")
  /\ UNCHANGED <<status, dozing, list, svc, delayStop, update, calls>>

\* and RUNNING, as OnStart prefers it, only then; delayStopTime_ comes last.  Link
\* prefers nothing and leaves delayStopTime_ alone.
PreferRunning(s) ==
  /\ at[s] = "prefer"
  /\ ComesToRun(Cause \ {"unlisted"})
  /\ Go(s, "keepStarted")
  /\ UNCHANGED <<status, dozing, list, svc, delayStop, device, update, bounds>>

\* OnPause, and CheckStandBy of the worker, count the running streams of a RUNNING
\* endpoint,
OnPause(t) ==
  /\ at[t] = "onPause"
  /\ \/ /\ endpointStatus = "RUNNING" /\ ListIsFree
        /\ Go(t, IF IsAnyProcessRunning(list) THEN "storeRunning" ELSE "storeIdle")
     \/ endpointStatus # "RUNNING" /\ Go(t, "delay")
  /\ UNCHANGED <<status, dozing, list, svc, endpoint, device, update, bounds, cause>>

\* store what they found over whatever the status has become,
StoreIdle(t) ==
  /\ at[t] = "storeIdle"
  /\ endpointStatus' = "IDEL"
  /\ cause' = (cause \ {"crossed"}) \cup Overlooks(list)
  /\ Go(t, "delay")
  /\ UNCHANGED <<status, dozing, list, svc, delayStop, device, update, bounds>>

StoreRunning(t) ==
  /\ at[t] = "storeRunning"
  /\ endpointStatus' = "RUNNING"
  /\ cause' = cause \cup IF endpointStatus = "RUNNING" THEN {} ELSE {"crossed"}
  /\ Go(t, "delay")
  /\ UNCHANGED <<status, dozing, list, svc, delayStop, device, update, bounds>>

\* (and forget about the device)
LeaveDelayStop(t) ==
  /\ at[t] = "delay"
  /\ Go(t, IF t = Worker THEN "none" ELSE "paused")
  /\ UNCHANGED <<status, dozing, list, svc, endpoint, device, update, bounds, cause>>

\* and have the device of an IDEL one stop later.
SetDelayStop(t) ==
  /\ at[t] = "delay"
  /\ delayStop' = IF endpointStatus = "IDEL" THEN "later" ELSE delayStop
  /\ Go(t, IF t = Worker THEN "none" ELSE "paused")
  /\ UNCHANGED <<status, dozing, list, svc, endpointStatus, device, update, bounds, cause>>
-----------------------------------------------------------------------------
(* AudioService links and unlinks under processListMutex_. *)

Linked(s) == status' = [status EXCEPT ![s] = "IDEL"] /\ svc' = NoCall

LinkedUnlisted(s) == Linked(s) /\ cause' = cause \cup {"unlisted"}

\* LinkProcessStream: the first stream starts the device.  The wait for another
\* thread's StartDevice may end too early; the stream is then not in the list.
Link(s) ==
  /\ svc = NoCall /\ status[s] = "NONE" /\ at[s] = "none"
  /\ \/ /\ endpointStatus = "UNLINKED"
        /\ svc' = [at |-> "startDevice", s |-> s]
        /\ endpointStatus' = "IDEL" /\ delayStop' = "never"
        /\ cause' = cause \cup Overlooks(list)
        /\ UNCHANGED status
     \/ /\ endpointStatus \in {"RUNNING", "IDEL"}
        /\ svc' = [at |-> IF endpointStatus = "IDEL" THEN "test" ELSE "add", s |-> s]
        /\ UNCHANGED <<status, endpoint, cause>>
     \/ /\ endpointStatus = "STARTING"
        /\ LinkedUnlisted(s)
        /\ UNCHANGED endpoint
  /\ UNCHANGED <<at, dozing, list, device, update, bounds>>

\* When StartDevice does not start the device, there is no new stream, and an
\* endpoint without any is erased: Release joins its threads and gives up the sink.
EraseEndpoint ==
  /\ endpointStatus' = "UNLINKED" /\ delayStop' = "never"
  /\ isStarted' = FALSE /\ sink' = FALSE
  /\ Go(Worker, "none") /\ dozing' = {} /\ update' = "idle"
  /\ cause' = cause \cap {"unlisted"}

LinkStartsDevice ==
  /\ svc.at = "startDevice"
  /\ \/ /\ StartDevice /\ svc' = [svc EXCEPT !.at = "starting"]
        /\ UNCHANGED <<at, dozing, delayStop, device, update, cause>>
     \/ /\ StartDeviceRefused /\ svc' = NoCall
        /\ IF list = {} THEN EraseEndpoint
           ELSE UNCHANGED <<at, dozing, endpoint, device, update, cause>>
  /\ UNCHANGED <<status, list, bounds>>

LinkDeviceStarted ==
  /\ svc.at = "starting"
  /\ \/ /\ DeviceStarts
        /\ svc' = [svc EXCEPT !.at = "delay"]
        /\ UNCHANGED <<at, dozing, delayStop, update>>
     \/ /\ SinkStartFails /\ svc' = NoCall
        /\ IF list = {} THEN EraseEndpoint
           ELSE HandleStartDeviceFailed /\ UNCHANGED <<at, dozing, delayStop, update>>
  /\ UNCHANGED <<status, list, calls>>

LinkDelays ==
  /\ svc.at = "delay"
  /\ delayStop' = "later"
  /\ svc' = [svc EXCEPT !.at = "test"]
  /\ UNCHANGED <<stream, list, endpointStatus, device, update, bounds, cause>>

\* An endpoint that is not IDEL any more does not get the stream either.
LinkTests ==
  /\ svc.at = "test"
  /\ \/ endpointStatus = "IDEL" /\ svc' = [svc EXCEPT !.at = "add"] /\ UNCHANGED <<status, cause>>
     \/ endpointStatus # "IDEL" /\ LinkedUnlisted(svc.s)
  /\ UNCHANGED <<at, dozing, list, endpoint, device, update, bounds>>

\* AddProcessStreamToList
LinkAdds ==
  /\ svc.at = "add"
  /\ ListIsFree
  /\ list' = list \cup {svc.s} /\ Linked(svc.s)
  /\ UNCHANGED <<at, dozing, endpoint, device, update, bounds, cause>>

\* UnlinkProcessStream: the last stream stops the device, and the stop of an
\* endpoint without a running stream is due at once.
Unlink(s) ==
  /\ at[s] = "unlink" /\ svc = NoCall /\ ListIsFree
  /\ list' = list \ {s}
  /\ IF list' = {}
     THEN /\ svc' = [at |-> "stopping", s |-> s]
          /\ endpointStatus' = "STOPPING"
          /\ UNCHANGED <<at, delayStop, cause>>
     ELSE /\ Go(s, "released")
          /\ IF IsAnyProcessRunning(list') THEN UNCHANGED <<endpoint, cause>>
             ELSE /\ endpointStatus' = "IDEL" /\ delayStop' = "passed"
                  /\ cause' = (cause \ {"crossed"}) \cup Overlooks(list')
          /\ UNCHANGED svc
  /\ UNCHANGED <<status, dozing, device, update, bounds>>

\* UNLINKED, whatever the sink answers
StopDevice ==
  /\ svc.at = "stopping"
  /\ \/ SinkStops /\ isStarted' = FALSE
     \/ SinkStopFails /\ UNCHANGED isStarted
  /\ endpointStatus' = "UNLINKED"
  /\ svc' = NoCall /\ Go(svc.s, "released")
  /\ UNCHANGED <<status, dozing, list, delayStop, update, calls, cause>>
-----------------------------------------------------------------------------
(* The worker.  *)

KeepWorkloopRunning ==
  endpointStatus = "RUNNING" \/ (endpointStatus = "IDEL" /\ delayStop # "passed")

\* CheckAllBufferReady: running streams that have not written for a second
FindSilent ==
  /\ at[Worker] = "none" /\ KeepWorkloopRunning /\ ListIsFree
  /\ dozing' \in SUBSET {s \in list : status[s] = "RUNNING"} \ {{}}
  /\ Go(Worker, "standby")
  /\ UNCHANGED <<status, list, svc, endpoint, device, update, bounds, cause>>

\* are put into stand-by, whatever their client has stored meanwhile.
EnableStandby ==
  /\ at[Worker] = "standby"
  /\ status' = [s \in Streams |-> IF s \in dozing THEN "STAND_BY" ELSE status[s]]
  /\ dozing' = {}
  /\ Go(Worker, "onPause")
  /\ UNCHANGED <<list, svc, endpoint, device, update, bounds, cause>>
-----------------------------------------------------------------------------
(* The position thread, AsyncGetPosTime. *)

TimePasses ==
  /\ delayStop = "later" /\ delayStop' = "passed"
  /\ UNCHANGED <<stream, list, svc, endpointStatus, device, update, bounds, cause>>

\* "IDEL for too long, let's call hdi stop"
FindIdle ==
  /\ update = "idle"
  /\ endpointStatus = "IDEL" /\ isStarted /\ delayStop = "passed"
  /\ update' = "due"
  /\ UNCHANGED <<stream, list, svc, endpoint, device, bounds, cause>>

\* DelayStopDevice as it would be without its look at the status.
DelayStopUnseen ==
  /\ update = "due"
  /\ update' = "stopping"
  /\ UNCHANGED <<stream, list, svc, endpoint, device, bounds, cause>>

\* DelayStopDevice looks once more,
DelayStopDevice ==
  /\ update = "due"
  /\ update' = IF endpointStatus = "IDEL" THEN "stopping" ELSE "idle"
  /\ UNCHANGED <<stream, list, svc, endpoint, device, bounds, cause>>

\* stops the sink,
StopSink ==
  /\ update = "stopping"
  /\ \/ SinkStops /\ update' = "stopped"
     \/ SinkStopFails /\ update' = "idle"
  /\ UNCHANGED <<stream, list, svc, endpoint, isStarted, calls, cause>>

\* and notes it.
NoteStopped ==
  /\ update = "stopped"
  /\ isStarted' = FALSE /\ update' = "idle"
  /\ cause' = cause \cup IF \E s \in Streams : at[s] \in {"mark", "prefer"} THEN {"late"} ELSE {}
  /\ UNCHANGED <<stream, list, svc, endpoint, sink, bounds>>
-----------------------------------------------------------------------------
Application(s) == Link(s) \/ Start(s) \/ Resume(s) \/ Pause(s) \/ Release(s)
                  \/ CallExitStandBy(s)
Count(t) == OnPause(t) \/ StoreIdle(t) \/ StoreRunning(t) \/ SetDelayStop(t)
Handler(s) ==
  \/ Accept(s) \/ Refuse(s) \/ OnStart(s) \/ SetRunning(s) \/ KeepDeviceOn(s)
  \/ OnStartDevice(s) \/ OnDeviceStarted(s) \/ PreferRunning(s)
  \/ Count(s) \/ Unlink(s) \/ Return(s)
Service == LinkStartsDevice \/ LinkDeviceStarted \/ LinkDelays \/ LinkTests \/ LinkAdds
           \/ StopDevice
WorkLoop == EnableStandby \/ Count(Worker)
PositionThread == FindIdle \/ DelayStopDevice \/ StopSink \/ NoteStopped

Next ==
  \/ \E s \in Streams : Application(s) \/ Handler(s)
  \/ Service \/ FindSilent \/ WorkLoop \/ PositionThread \/ TimePasses

\* Calls under way go on, time passes, the position thread wakes up every second.
Fairness ==
  /\ \A s \in Streams : WF_vars(Handler(s))
  /\ WF_vars(Service) /\ WF_vars(WorkLoop) /\ WF_vars(PositionThread) /\ WF_vars(TimePasses)

Spec == Init /\ [][Next]_vars /\ Fairness
-----------------------------------------------------------------------------
\* A listed stream whose client believes it runs is heard: the fast sink is on, or
\* on its way, whatever the other streams, the worker and the position thread have
\* done with endpointStatus_, isStarted_ and delayStopTime_, unless one of the
\* overlaps Cause names has come between.
RunningIsHeard ==
  \A s \in list :
    status[s] = "RUNNING" /\ at[s] = "none" => sink \/ DeviceIsStarting \/ cause # {}

Silent ==
  /\ list # {} /\ svc = NoCall
  /\ \A s \in Streams : at[s] = "none" /\ status[s] \in {"NONE", "IDEL", "PAUSED", "STAND_BY"}

\* When every stream is silent and stays so, AsyncGetPosTime stops the sink in the
\* end, a failed stop notwithstanding, unless a stale RUNNING was stored over the
\* endpoint's status or a start met DelayStopDevice.
SilentDeviceStops == Silent ~> (~Silent \/ ~sink \/ cause \cap {"crossed", "late"} # {})
=============================================================================
