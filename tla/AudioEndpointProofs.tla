------------------------- MODULE AudioEndpointProofs -------------------------
(***************************************************************************)
(* A listed stream whose client believes it runs is heard, for any number  *)
(* of streams, of calls and of failures of the sink.                       *)
(***************************************************************************)
EXTENDS AudioEndpoint, TLAPS

----------------------------------------------------------------------------
(* The inductive invariant. *)

\* A stream that runs, or has been told so on its way back from OnStart.
Live(s) == status[s] = "RUNNING" \/ at[s] \in ToldToRun

\* A stream that is linked is in the list, unless LinkProcessStream has let one
\* through, and one that is not linked is not.  What the worker is to put into
\* stand-by cannot leave the list meanwhile.
Listed ==
  /\ \A s \in Streams :
       /\ at[s] \notin {"none", "unlink", "released"} => s \in list \/ "unlisted" \in cause
       /\ at[s] = "none" /\ status[s] # "NONE" => s \in list \/ "unlisted" \in cause
       /\ at[s] = "none" /\ status[s] = "NONE" => s \notin list
       /\ at[s] = "released" => s \notin list
       /\ at[s] # "none" => status[s] # "NONE"
  /\ at[Worker] = "standby" => dozing \subseteq list

\* The stream being linked is not in a call; the list is empty while the last one
\* stops the device.
Linking ==
  /\ svc.at \in {"startDevice", "starting", "delay", "test", "add"} =>
       at[svc.s] = "none" /\ status[svc.s] = "NONE"
  /\ svc.at = "stopping" => list = {} /\ at[svc.s] = "unlink"

\* What endpointStatus_ says of the streams and the device: UNLINKED and STOPPING
\* of an empty list, IDEL of a list without a live stream, RUNNING of a device
\* that is on, each with the overlaps that make it say something else.
StatusTells ==
  /\ endpointStatus = "STOPPING" => svc.at = "stopping"
  /\ endpointStatus = "STARTING" => DeviceIsStarting
  /\ endpointStatus = "UNLINKED" =>
       \/ "failed" \in cause
       \/ list = {} /\ svc.at \notin {"delay", "test", "add"}
  /\ endpointStatus \in {"IDEL", "STARTING"} =>
       \/ cause \cap {"overlooked", "refused", "failed"} # {}
       \/ \A s \in list : ~Live(s)
  /\ endpointStatus = "RUNNING" => sink \/ DeviceIsStarting \/ cause # {}

\* The stores that are under way and already stale: an IDEL that was counted, the
\* position thread's stop of a device it found idle, an OnStart that has tested
\* the status and is to store RUNNING.
Stores ==
  /\ IdleToBeStored => "overlooked" \in cause \/ ~IsAnyProcessRunning(list)
  /\ update \in {"stopping", "stopped"} /\ endpointStatus = "RUNNING" =>
       cause \cap {"late", "crossed"} # {}
  /\ isStarted /\ ~sink => update = "stopped"
  /\ \A s \in Streams : at[s] \in {"mark", "prefer"} =>
       \/ sink \/ DeviceIsStarting \/ update = "stopped"
       \/ cause \cap {"late", "failed", "unlisted"} # {}

IInv == TypeOK /\ Listed /\ Linking /\ StatusTells /\ Stores

\* Without an overlap, a device that is off leaves RUNNING to no listed stream:
\* the status is neither RUNNING nor, with a stream listed, UNLINKED or STOPPING,
\* and IDEL and STARTING have no live stream.
LEMMA InvImpliesHeard == IInv => RunningIsHeard
BY DEF IInv, TypeOK, Linking, StatusTells, RunningIsHeard, Live, ToldToRun

\* An endpoint without streams, calls and causes.
LEMMA InitHolds == Init => IInv
<1> USE EndpointAssumption DEF Init
<1>1. Init => TypeOK
  <2>1. Init => /\ calls \in 0 .. MaxCalls /\ failures \in 0 .. MaxFailures
               /\ at \in [Threads -> Place] /\ status \in [Streams -> {"NONE"}]
    BY DEF Place
  <2>2. QED
    BY <2>1 DEF TypeOK, Cause, NoCall
<1>2. Init => Listed /\ Linking /\ StatusTells /\ Stores
  BY DEF Threads, NoCall, Listed, Linking, StatusTells, Stores, IdleToBeStored
<1>3. QED
  BY <1>1, <1>2 DEF IInv

----------------------------------------------------------------------------
(* The record of the call that holds processListMutex_. *)

Svc == {NoCall} \cup
       [at : {"startDevice", "starting", "delay", "test", "add", "stopping"}, s : Streams]

\* There is a call exactly when it has a place, and then it has a stream.
LEMMA SvcFacts ==
  TypeOK => /\ svc \in Svc
            /\ svc.at = "none" <=> svc = NoCall
            /\ svc.at # "none" => svc.s \in Streams
            /\ \A a \in {"startDevice", "starting", "delay", "test", "add", "stopping"} :
                 svc.at # "none" => [svc EXCEPT !.at = a] \in Svc
BY DEF NoCall, Svc, TypeOK

----------------------------------------------------------------------------
(* AudioService links and unlinks. *)

\* A first stream makes the status IDEL over an empty list, or after a failure.
LEMMA LinkStep ==
  ASSUME NEW s \in Streams, IInv, Link(s) PROVE IInv'
<1> USE EndpointAssumption, SvcFacts DEF IInv, Link, stream, endpoint, device,
        bounds, Threads, DeviceIsStarting, IdleToBeStored, Linked,
        LinkedUnlisted, Overlooks, ToldToRun, NoCall
<1>1. TypeOK'
  BY DEF TypeOK, Svc, Cause, NoCall, Place
<1>2. QED
  BY <1>1 DEF Listed, Linking, StatusTells, Stores, Live, ToldToRun, IsAnyProcessRunning,
           TypeOK

\* Link starts the device, or gives the endpoint up if that is refused.
LEMMA LinkStartsDeviceStep ==
  ASSUME IInv, LinkStartsDevice PROVE IInv'
<1> USE EndpointAssumption, SvcFacts DEF IInv, LinkStartsDevice, stream,
        endpoint, device, bounds, Threads, DeviceIsStarting, IdleToBeStored,
        StartDevice, StartDeviceRefused, ListIsFree, EraseEndpoint, Go, NoCall
<1>1. (svc \in Svc)'
  BY DEF TypeOK, Svc, NoCall
<1>2. (at \in [Threads -> Place])'
  BY DEF TypeOK, Place
<1>3. (cause \subseteq Cause /\ dozing \subseteq Streams)'
  BY DEF TypeOK, Cause
<1>4. TypeOK'
  BY <1>1, <1>2, <1>3 DEF TypeOK, Svc
<1>5. QED
  BY <1>4 DEF Listed, Linking, StatusTells, Stores, Live, ToldToRun, IsAnyProcessRunning,
           TypeOK

\* The status after the start of a Link is counted on the spot.
LEMMA LinkDeviceStartedStep ==
  ASSUME IInv, LinkDeviceStarted PROVE IInv'
<1> USE EndpointAssumption, SvcFacts DEF IInv, LinkDeviceStarted, stream,
        endpoint, device, bounds, Threads, DeviceIsStarting, IdleToBeStored,
        DeviceStarts, SinkStarts, SinkStartFails, HandleStartDeviceFailed,
        Works, Fails, Healed, Uncounted, Overlooks, ToldToRun, Cause, EraseEndpoint, Go,
        NoCall
<1>1. (failures \in 0 .. MaxFailures)'
  BY DEF TypeOK
<1>2. (svc \in Svc)'
  BY DEF TypeOK, Svc, NoCall
<1>3. (at \in [Threads -> Place])'
  BY DEF TypeOK, Place
<1>4. (cause \subseteq Cause /\ dozing \subseteq Streams)'
  BY DEF TypeOK, Cause
<1>5. TypeOK'
  BY <1>1, <1>2, <1>3, <1>4 DEF TypeOK, Svc
<1>6. Listed'
  BY DEF TypeOK, Listed, Linking
<1>7. Linking'
  BY DEF TypeOK, Listed, Linking
<1>8. StatusTells'
  BY DEF TypeOK, Listed, Linking, StatusTells, Stores, Live, ToldToRun, IsAnyProcessRunning
<1>9. Stores'
  BY DEF TypeOK, Listed, Linking, StatusTells, Stores, IsAnyProcessRunning
<1>10. QED
  BY <1>5, <1>6, <1>7, <1>8, <1>9

\* Link's time to stop, its second test and the list itself.
LEMMA LinkDelaysStep ==
  ASSUME IInv, LinkDelays PROVE IInv'
<1> USE EndpointAssumption, SvcFacts DEF IInv, LinkDelays, stream, endpoint,
        device, bounds, Threads, DeviceIsStarting, IdleToBeStored
<1>1. TypeOK'
  BY DEF TypeOK, Svc, Cause, NoCall, Place
<1>2. QED
  BY <1>1 DEF Listed, Linking, StatusTells, Stores, Live, ToldToRun, IsAnyProcessRunning,
           TypeOK

LEMMA LinkTestsStep ==
  ASSUME IInv, LinkTests PROVE IInv'
<1> USE EndpointAssumption, SvcFacts DEF IInv, LinkTests, stream, endpoint,
        device, bounds, Threads, DeviceIsStarting, IdleToBeStored, Linked,
        LinkedUnlisted, NoCall
<1>1. TypeOK'
  BY DEF TypeOK, Svc, Cause, NoCall, Place
<1>2. QED
  BY <1>1 DEF Listed, Linking, StatusTells, Stores, Live, ToldToRun, IsAnyProcessRunning,
           TypeOK

LEMMA LinkAddsStep ==
  ASSUME IInv, LinkAdds PROVE IInv'
<1> USE EndpointAssumption, SvcFacts DEF IInv, LinkAdds, stream, endpoint,
        device, bounds, Threads, DeviceIsStarting, IdleToBeStored, Linked,
        ListIsFree, NoCall
<1>1. TypeOK'
  BY DEF TypeOK, Svc, Cause, NoCall, Place
<1>2. QED
  BY <1>1 DEF Listed, Linking, StatusTells, Stores, Live, ToldToRun, IsAnyProcessRunning,
           TypeOK

\* A stream leaves the list; the last one stops the device.
LEMMA UnlinkStep ==
  ASSUME NEW s \in Streams, IInv, Unlink(s) PROVE IInv'
<1> USE EndpointAssumption, SvcFacts DEF IInv, Unlink, stream, endpoint,
        device, bounds, Threads, DeviceIsStarting, IdleToBeStored, Go,
        ListIsFree, Overlooks, ToldToRun, NoCall
<1>1. TypeOK'
  BY DEF TypeOK, Svc, Cause, NoCall, Place
<1>2. QED
  BY <1>1 DEF Listed, Linking, StatusTells, Stores, Live, ToldToRun, IsAnyProcessRunning,
           TypeOK

\* The device stops with an empty list.
LEMMA StopDeviceStep ==
  ASSUME IInv, StopDevice PROVE IInv'
<1> USE EndpointAssumption, SvcFacts DEF IInv, StopDevice, stream, endpoint,
        device, bounds, Threads, DeviceIsStarting, IdleToBeStored, Go,
        SinkStops, SinkStopFails, Works, Fails, NoCall
<1>1. (failures \in 0 .. MaxFailures)'
  BY DEF TypeOK
<1>2. TypeOK'
  BY <1>1 DEF TypeOK, Svc, Cause, NoCall, Place
<1>3. QED
  BY <1>2 DEF Listed, Linking, StatusTells, Stores, Live, ToldToRun, IsAnyProcessRunning,
           TypeOK

----------------------------------------------------------------------------
(* The application's calls. *)

\* A call begins with its stream linked and in no call.
LEMMA CallStep ==
  ASSUME NEW s \in Streams, IInv, Start(s) \/ Resume(s) \/ Pause(s) \/ Release(s)
                                 \/ CallExitStandBy(s)
  PROVE  IInv'
<1> USE EndpointAssumption, SvcFacts DEF IInv, stream, endpoint, device,
        Threads, DeviceIsStarting, IdleToBeStored
<1>1. PICK old \in {"IDEL", "PAUSED", "RUNNING", "STAND_BY"},
           new \in {"STARTING", "PAUSING", "IDEL", "RUNNING", "PAUSED", "STAND_BY"},
           place \in {"start", "resume", "pause", "wake", "unlink"} :
        Call(s, old, new, place) /\ (new = "RUNNING" => old = "RUNNING")
  BY DEF Start, Resume, Pause, Release, CallExitStandBy
<1>2. TypeOK'
  BY <1>1 DEF Call, Go, TypeOK, Place
<1>3. QED
  BY <1>1, <1>2 DEF Call, Go, Listed, Linking, StatusTells, Stores, Live,
                    ToldToRun, IsAnyProcessRunning, TypeOK

\* Only the place changes: the test of the status in AudioProcessInServer.
LEMMA AcceptStep ==
  ASSUME NEW s \in Streams, IInv, Accept(s) PROVE IInv'
<1> USE EndpointAssumption, SvcFacts DEF IInv, Accept, stream, endpoint,
        device, bounds, Threads, DeviceIsStarting, IdleToBeStored, Go, Accepts
<1>1. TypeOK'
  BY DEF TypeOK, Svc, Cause, NoCall, Place
<1>2. QED
  BY <1>1 DEF Listed, Linking, StatusTells, Stores, Live, ToldToRun, IsAnyProcessRunning,
           TypeOK

\* A refused pause makes a stream RUNNING behind the back of every count.
LEMMA RefuseStep ==
  ASSUME NEW s \in Streams, IInv, Refuse(s) PROVE IInv'
<1> USE EndpointAssumption, SvcFacts DEF IInv, Refuse, stream, endpoint,
        device, bounds, Threads, DeviceIsStarting, IdleToBeStored, Go, Accepts,
        Uncounted
<1>1. TypeOK'
  BY DEF TypeOK, Svc, Cause, NoCall, Place
<1>2. Listed'
  BY DEF TypeOK, Listed, Linking
<1>3. Linking'
  BY DEF TypeOK, Listed, Linking
<1>4. StatusTells'
  BY DEF TypeOK, Listed, Linking, StatusTells, Stores, Live, ToldToRun, IsAnyProcessRunning
<1>5. Stores'
  BY DEF TypeOK, Listed, Linking, StatusTells, Stores, IsAnyProcessRunning
<1>6. QED
  BY <1>1, <1>2, <1>3, <1>4, <1>5

\* A stream becomes RUNNING that was live before; a counted IDEL now overlooks it.
LEMMA ReturnStep ==
  ASSUME NEW s \in Streams, IInv, Return(s) PROVE IInv'
<1> USE EndpointAssumption, SvcFacts DEF IInv, Return, stream, endpoint,
        device, bounds, Threads, DeviceIsStarting, IdleToBeStored, Go,
        Uncounted
<1>1. TypeOK'
  BY DEF TypeOK, Svc, Cause, NoCall, Place
<1>2. QED
  BY <1>1 DEF Listed, Linking, StatusTells, Stores, Live, ToldToRun, IsAnyProcessRunning,
           TypeOK

----------------------------------------------------------------------------
(* OnStart. *)

\* The test of OnStart: RUNNING is as good as started, IDEL starts the device, and the
\* rest is to store RUNNING.
LEMMA OnStartStep ==
  ASSUME NEW s \in Streams, IInv, OnStart(s) PROVE IInv'
<1> USE EndpointAssumption, SvcFacts DEF IInv, OnStart, stream, endpoint,
        device, bounds, Threads, DeviceIsStarting, IdleToBeStored, Go
<1>1. TypeOK'
  BY DEF TypeOK, Svc, Cause, NoCall, Place
<1>2. QED
  BY <1>1 DEF Listed, Linking, StatusTells, Stores, Live, ToldToRun, IsAnyProcessRunning,
           TypeOK

\* The store of OnStart, which may meet a device that is being stopped.
LEMMA SetRunningStep ==
  ASSUME NEW s \in Streams, IInv, SetRunning(s) PROVE IInv'
<1> USE EndpointAssumption, SvcFacts DEF IInv, SetRunning, stream, endpoint,
        device, bounds, Threads, DeviceIsStarting, IdleToBeStored, Go, Healed,
        Uncounted, ComesToRun
<1>1. TypeOK'
  BY DEF TypeOK, Svc, Cause, NoCall, Place
<1>2. QED
  BY <1>1 DEF Listed, Linking, StatusTells, Stores, Live, ToldToRun, IsAnyProcessRunning,
           TypeOK

\* The second store of OnStart.
LEMMA KeepDeviceOnStep ==
  ASSUME NEW s \in Streams, IInv, KeepDeviceOn(s) PROVE IInv'
<1> USE EndpointAssumption, SvcFacts DEF IInv, KeepDeviceOn, stream, endpoint,
        device, bounds, Threads, DeviceIsStarting, IdleToBeStored, Go
<1>1. TypeOK'
  BY DEF TypeOK, Svc, Cause, NoCall, Place
<1>2. QED
  BY <1>1 DEF Listed, Linking, StatusTells, Stores, Live, ToldToRun, IsAnyProcessRunning,
           TypeOK

\* A StartDevice that is refused leaves a live stream, but not in IDEL or STARTING.
LEMMA OnStartDeviceStep ==
  ASSUME NEW s \in Streams, IInv, OnStartDevice(s) PROVE IInv'
<1> USE EndpointAssumption, SvcFacts DEF IInv, OnStartDevice, stream, endpoint,
        device, bounds, Threads, DeviceIsStarting, IdleToBeStored, Go,
        StartDevice, StartDeviceRefused, ListIsFree
<1>1. TypeOK'
  BY DEF TypeOK, Svc, Cause, NoCall, Place
<1>2. QED
  BY <1>1 DEF Listed, Linking, StatusTells, Stores, Live, ToldToRun, IsAnyProcessRunning,
           TypeOK

\* The device is on, or the start has failed.
LEMMA OnDeviceStartedStep ==
  ASSUME NEW s \in Streams, IInv, OnDeviceStarted(s) PROVE IInv'
<1> USE EndpointAssumption, SvcFacts DEF IInv, OnDeviceStarted, stream,
        endpoint, device, bounds, Threads, DeviceIsStarting, IdleToBeStored,
        Go, DeviceStarts, SinkStarts, SinkStartFails, HandleStartDeviceFailed,
        Works, Fails, Healed, Uncounted, Overlooks, ToldToRun, Cause
<1>1. (failures \in 0 .. MaxFailures)'
  BY DEF TypeOK
<1>2. (at \in [Threads -> Place])' /\ (cause \subseteq Cause)'
  BY DEF TypeOK, Place
<1>3. (endpointStatus \in {"UNLINKED", "IDEL", "STARTING", "RUNNING", "STOPPING"})'
  OBVIOUS
<1>4. TypeOK'
  BY <1>1, <1>2, <1>3 DEF TypeOK
<1>5. Listed'
  BY DEF TypeOK, Listed, Linking
<1>6. Linking'
  BY DEF TypeOK, Listed, Linking
<1>7. StatusTells'
  BY DEF TypeOK, Listed, Linking, StatusTells, Stores, Live, ToldToRun, IsAnyProcessRunning
<1>8. Stores'
  BY DEF TypeOK, Listed, Linking, StatusTells, Stores, IsAnyProcessRunning
<1>9. QED
  BY <1>4, <1>5, <1>6, <1>7, <1>8

\* The store of the preferred state, which may meet the position thread.
LEMMA PreferRunningStep ==
  ASSUME NEW s \in Streams, IInv, PreferRunning(s) PROVE IInv'
<1> USE EndpointAssumption, SvcFacts DEF IInv, PreferRunning, stream, endpoint,
        device, bounds, Threads, DeviceIsStarting, IdleToBeStored, Go, Healed,
        Uncounted, ComesToRun, Cause
<1>1. TypeOK'
  BY DEF TypeOK, Svc, NoCall, Place
<1>2. Listed' /\ Linking'
  BY DEF TypeOK, Listed, Linking
<1>3. StatusTells'
  BY DEF TypeOK, StatusTells, Stores
<1>4. Stores'
  BY DEF TypeOK, Stores, IsAnyProcessRunning
<1>5. QED
  BY <1>1, <1>2, <1>3, <1>4

----------------------------------------------------------------------------
(* OnPause and the worker. *)

\* The count: none runs when IDEL is to be stored.
LEMMA OnPauseStep ==
  ASSUME NEW t \in Threads, IInv, OnPause(t) PROVE IInv'
<1> USE EndpointAssumption, SvcFacts DEF IInv, OnPause, stream, endpoint,
        device, bounds, Threads, DeviceIsStarting, IdleToBeStored, Go,
        ListIsFree
<1>1. TypeOK'
  BY DEF TypeOK, Svc, Cause, NoCall, Place
<1>2. QED
  BY <1>1 DEF Listed, Linking, StatusTells, Stores, Live, ToldToRun, IsAnyProcessRunning,
           TypeOK

\* The store of the count, which overlooks the streams between the two.
LEMMA StoreIdleStep ==
  ASSUME NEW t \in Threads, IInv, StoreIdle(t) PROVE IInv'
<1> USE EndpointAssumption, SvcFacts DEF IInv, StoreIdle, stream, endpoint,
        device, bounds, Threads, DeviceIsStarting, IdleToBeStored, Go,
        Overlooks
<1>1. TypeOK'
  BY DEF TypeOK, Svc, Cause, NoCall, Place
<1>2. QED
  BY <1>1 DEF Listed, Linking, StatusTells, Stores, Live, ToldToRun, IsAnyProcessRunning,
           TypeOK

\* A stale RUNNING is a cause of its own.
LEMMA StoreRunningStep ==
  ASSUME NEW t \in Threads, IInv, StoreRunning(t) PROVE IInv'
<1> USE EndpointAssumption, SvcFacts DEF IInv, StoreRunning, stream, endpoint,
        device, bounds, Threads, DeviceIsStarting, IdleToBeStored, Go
<1>1. TypeOK'
  BY DEF TypeOK, Svc, Cause, NoCall, Place
<1>2. QED
  BY <1>1 DEF Listed, Linking, StatusTells, Stores, Live, ToldToRun, IsAnyProcessRunning,
           TypeOK

\* Only delayStopTime_ changes.
LEMMA SetDelayStopStep ==
  ASSUME NEW t \in Threads, IInv, SetDelayStop(t) PROVE IInv'
<1> USE EndpointAssumption, SvcFacts DEF IInv, SetDelayStop, stream, endpoint,
        device, bounds, Threads, DeviceIsStarting, IdleToBeStored, Go
<1>1. TypeOK'
  BY DEF TypeOK, Svc, Cause, NoCall, Place
<1>2. QED
  BY <1>1 DEF Listed, Linking, StatusTells, Stores, Live, ToldToRun, IsAnyProcessRunning,
           TypeOK

\* The worker finds silent streams of the list and puts them into stand-by.
LEMMA FindSilentStep ==
  ASSUME IInv, FindSilent PROVE IInv'
<1> USE EndpointAssumption, SvcFacts DEF IInv, FindSilent, stream, endpoint,
        device, bounds, Threads, DeviceIsStarting, IdleToBeStored, Go,
        ListIsFree, KeepWorkloopRunning
<1>1. TypeOK'
  BY DEF TypeOK, Svc, Cause, NoCall, Place
<1>2. QED
  BY <1>1 DEF Listed, Linking, StatusTells, Stores, Live, ToldToRun, IsAnyProcessRunning,
           TypeOK

LEMMA EnableStandbyStep ==
  ASSUME IInv, EnableStandby PROVE IInv'
<1> USE EndpointAssumption, SvcFacts DEF IInv, EnableStandby, stream, endpoint,
        device, bounds, Threads, DeviceIsStarting, IdleToBeStored, Go
<1>1. TypeOK'
  BY DEF TypeOK, Svc, Cause, NoCall, Place
<1>2. QED
  BY <1>1 DEF Listed, Linking, StatusTells, Stores, Live, ToldToRun, IsAnyProcessRunning,
           TypeOK

----------------------------------------------------------------------------
(* The position thread. *)

\* The position thread.
LEMMA TimePassesStep ==
  ASSUME IInv, TimePasses PROVE IInv'
<1> USE EndpointAssumption, SvcFacts DEF IInv, TimePasses, stream, endpoint,
        device, bounds, Threads, DeviceIsStarting, IdleToBeStored
<1>1. TypeOK'
  BY DEF TypeOK, Svc, Cause, NoCall, Place
<1>2. QED
  BY <1>1 DEF Listed, Linking, StatusTells, Stores, Live, ToldToRun, IsAnyProcessRunning,
           TypeOK

LEMMA FindIdleStep ==
  ASSUME IInv, FindIdle PROVE IInv'
<1> USE EndpointAssumption, SvcFacts DEF IInv, FindIdle, stream, endpoint,
        device, bounds, Threads, DeviceIsStarting, IdleToBeStored
<1>1. TypeOK'
  BY DEF TypeOK, Svc, Cause, NoCall, Place
<1>2. QED
  BY <1>1 DEF Listed, Linking, StatusTells, Stores, Live, ToldToRun, IsAnyProcessRunning,
           TypeOK

LEMMA DelayStopDeviceStep ==
  ASSUME IInv, DelayStopDevice PROVE IInv'
<1> USE EndpointAssumption, SvcFacts DEF IInv, DelayStopDevice, stream,
        endpoint, device, bounds, Threads, DeviceIsStarting, IdleToBeStored
<1>1. TypeOK'
  BY DEF TypeOK, Svc, Cause, NoCall, Place
<1>2. QED
  BY <1>1 DEF Listed, Linking, StatusTells, Stores, Live, ToldToRun, IsAnyProcessRunning,
           TypeOK

LEMMA StopSinkStep ==
  ASSUME IInv, StopSink PROVE IInv'
<1> USE EndpointAssumption, SvcFacts DEF IInv, StopSink, stream, endpoint,
        device, bounds, Threads, DeviceIsStarting, IdleToBeStored, SinkStops,
        SinkStopFails, Works, Fails
<1>1. (failures \in 0 .. MaxFailures)'
  BY DEF TypeOK
<1>2. TypeOK'
  BY <1>1 DEF TypeOK, Svc, Cause, NoCall, Place
<1>3. QED
  BY <1>2 DEF Listed, Linking, StatusTells, Stores, Live, ToldToRun, IsAnyProcessRunning,
           TypeOK

LEMMA NoteStoppedStep ==
  ASSUME IInv, NoteStopped PROVE IInv'
<1> USE EndpointAssumption, SvcFacts DEF IInv, NoteStopped, stream, endpoint,
        device, bounds, Threads, DeviceIsStarting, IdleToBeStored
<1>1. TypeOK'
  BY DEF TypeOK, Svc, Cause, NoCall, Place
<1>2. QED
  BY <1>1 DEF Listed, Linking, StatusTells, Stores, Live, ToldToRun, IsAnyProcessRunning,
           TypeOK

----------------------------------------------------------------------------
(* The invariant holds, and what follows from it. *)

\* A step of somebody else leaves the invariant alone.
LEMMA StutterHolds ==
  ASSUME IInv, UNCHANGED vars PROVE IInv'
BY DEF IInv, TypeOK, Listed, Linking, StatusTells, Stores, Live, ToldToRun, IsAnyProcessRunning,
   DeviceIsStarting, IdleToBeStored, vars, stream, endpoint, device, bounds

\* The five parts of the invariant hold in every state, whoever overlaps whom.
THEOREM EndpointInvariant == Spec => []IInv
<1>1. ASSUME IInv, Next PROVE IInv'
  <2>1. ASSUME NEW s \in Streams, Application(s) PROVE IInv'
    BY <1>1, <2>1, LinkStep, CallStep DEF Application
  <2>2. ASSUME NEW t \in Threads, Count(t) PROVE IInv'
    BY <1>1, <2>2, OnPauseStep, StoreIdleStep, StoreRunningStep, SetDelayStopStep
    DEF Count
  <2>3. ASSUME NEW s \in Streams, Handler(s) PROVE IInv'
    <3>1. s \in Threads
      BY DEF Threads
    <3>2. QED
      BY <1>1, <2>2, <2>3, <3>1, AcceptStep, RefuseStep, OnStartStep, SetRunningStep,
         KeepDeviceOnStep, OnStartDeviceStep, OnDeviceStartedStep, PreferRunningStep, UnlinkStep, ReturnStep
      DEF Handler
  <2>4. CASE Service
    BY <1>1, <2>4, LinkStartsDeviceStep, LinkDeviceStartedStep, LinkDelaysStep,
       LinkTestsStep, LinkAddsStep, StopDeviceStep DEF Service
  <2>5. CASE FindSilent \/ WorkLoop
    <3>1. Worker \in Threads
      BY DEF Threads
    <3>2. QED
      BY <1>1, <2>2, <2>5, <3>1, FindSilentStep, EnableStandbyStep DEF WorkLoop
  <2>6. CASE PositionThread \/ TimePasses
    BY <1>1, <2>6, FindIdleStep, DelayStopDeviceStep, StopSinkStep, NoteStoppedStep,
       TimePassesStep DEF PositionThread
  <2>7. QED
    BY <1>1, <2>1, <2>3, <2>4, <2>5, <2>6 DEF Next
<1>2. IInv /\ [Next]_vars => IInv'
  BY <1>1, StutterHolds
<1>3. QED
  BY <1>2, InitHolds, PTL DEF Spec

\* Every variable of endpoint, streams and service keeps its type.
THEOREM EndpointTypeCorrect == Spec => []TypeOK
<1>1. IInv => TypeOK
  BY DEF IInv
<1>2. QED
  BY <1>1, EndpointInvariant, PTL

\* A listed stream whose client believes it runs has a device that is on or coming
\* on, unless an overlap that Cause names has come between.
THEOREM RunningStreamsAreHeard == Spec => []RunningIsHeard
BY InvImpliesHeard, EndpointInvariant, PTL

=============================================================================
