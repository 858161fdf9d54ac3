# TLA+ models of the OpenHarmony audio framework

The repository holds an audio framework: a client library inside each
application, an audio server that plays and records, and a policy service that
decides who may. This directory models the parts in which threads and processes
share state without one lock around it, checks the models with TLC on small
instances, and proves the central ones with TLAPS for every value of their
constants.

* [The system](#the-system)
* [Modules and code](#modules-and-code)
* [Runs](#runs)
* [Bounds](#bounds)
* [Fairness](#fairness)
* [Proofs](#proofs)
* [Where code and promise differ](#where-code-and-promise-differ)
* [What is not modelled](#what-is-not-modelled)
* [Plan](#plan)

Paths are relative to the root of the repository. Short names: `common/` is
`services/audio_service/common/src/`, `server/` and `client/` its neighbours,
`engine/` is `services/audio_engine/`.

## The system

| Component | State it keeps | Operations | Interaction | What is hard | What makes it correct |
|---|---|---|---|---|---|
| **Ring** `OHAudioBufferBase` (`common/oh_audio_buffer_base.cpp`) | base, read and write position, futex word, stream status, restore status, volumes and the data area, all in shared memory | get writable / readable region, set read / write position, wait, wake, restore handshake | client process and server process map the same memory; no common lock | three atomics that are read one by one; lap counting by the base position; a flush against both sides | regions never overlap, frames come out once and in order, positions stay in range |
| **Ring ends** `RendererInClientInner` (`client/renderer_in_client*.cpp`), `RendererInServer` (`server/renderer_in_server.cpp`) | stream state, `writeMutex_`, `writeLock_`, pending operation | write, flush, drain, start, pause, stop, release; the engine's data callback | IPC from client to server, notifications back, the engine calls the server | callbacks against IPC threads, timeouts of the notification, standby | each call ends in a state both ends agree on |
| **FutexTool** (`common/futex_tool.cpp`) | one word per ring | `FutexWait`, `FutexWake` | system calls on shared memory | the window between predicate and sleep; leaving for good | no lost wake-up; nobody sleeps through `IS_PRE_EXIT` |
| **VASharedBufferOperator** (`common/va_shared_buffer_operator.cpp`) | lock word, read and write position, data | read, write, reset, skip | the process of a virtual device writes, the server reads | a lock with a predicate and a timeout, partial copies | exclusion, bytes in order, a lock that is always given back |
| **AudioThreadTask** (`common/audio_thread_task.cpp`) | state, thread | start, stop, pause, their asynchronous forms | owners call it, the job may call it too | state tested outside the lock, states a waiter never sees | the job is quiet when paused, every call returns |
| **HpaeNoLockQueue** (`engine/utils/hpae_no_lock_queue.cpp`) | node pool, two stacks with tagged heads | push, take and run all | any thread pushes, the manager's thread takes | ABA, order, pool exhaustion | one owner per node, requests run once and in order |
| **HpaeManager** (`engine/manager/src/hpae_manager.cpp`) | sessions, pending transitions, thread, signal | every stream call as a request; `Init`, `DeInit` | policy and stream threads call, sink managers answer | answers that come late, twice or never; the thread's sleep and its end | the session follows its requests, waits end, requests are served |
| **HPAE sink and source managers** (`engine/manager/src/hpae_*_manager.cpp`, `hpae_signal_process_thread.cpp`) | streams of a device, node graph, thread | stream calls, moves, device loss | requests from and answers to `HpaeManager` | fades that end later, moves in flight | every call is answered once; a moved stream is on one sink |
| **HPAE nodes and buffers** (`engine/node`, `engine/buffer`, `engine/plugin`, `engine/simd`) | PCM buffers, effect state | process one frame | called on one manager's thread; soft link and co-buffer cross two | two clocks | signal processing |
| **NoneMixEngine** and **ProAudioStreamManager** (`server/none_mix_engine.cpp`, `server/pro_audio_stream_manager.cpp`) | direct sink, playback task, fade flags | start, pause, stop, add and remove a renderer | stream calls, the playback job stops its own engine | job against calls, re-start without the manager's lock | the sink runs exactly while a stream plays |
| **CapturerInServer / Client** (`server/capturer_in_server.cpp`, `client/capturer_in_client.cpp`) | the record ring, stream states | read, start, stop, flush | as for playback | on overflow both sides move the read position | no frame twice, none torn |
| **Fast path** (`server/audio_endpoint.cpp`, `server/audio_process_in_server.cpp`, `client/audio_process_in_client.cpp`) | endpoint state, linked processes, a ring per process | link, start, pause, the endpoint's loop | one endpoint mixes many processes | the endpoint's status is read, counted and stored without a lock by four kinds of thread; stream status atomics exchanged by both processes | a stream that runs has a device that is on; the device of silent streams stops |
| **AudioService, AudioServer** (`server/audio_service.cpp`, `server/audio_server.cpp`) | sessions, inner capture lists | create, release, mute, inner capture | IPC, policy | many maps under many locks | bookkeeping agrees |
| **Policy: interrupt** (`services/audio_policy/server/domain/interrupt`) | a focus list per zone, pre-emption, what each stream was told | activate, deactivate, loss of a client, clearing | clients ask and are told by one-way events; a session answers for its streams | states are worked out again in list order when somebody leaves; events cross the calls of the application | who sounds is who the table lets sound; a stream does what the list says |
| **Policy: sessions** (`services/audio_policy/server/domain/session`, `infra/state_monitor`) | sessions, the timer of each, ids of timers | activate, deactivate, streams come and go, timers go off | applications, the focus list, the app manager, a thread per timer | a timer's thread ends the session under the lock and forgets the timer without it; ids are used again | an empty session ends, one that plays does not |
| **Policy: pipes, routers, devices, volume, zones, effects** (`services/audio_policy/server/domain/*`) | route and device tables | select, fetch, switch | all of the above | device events during a switch | pipes agree with the streams |
| **Client API, bindings, adapters** (`frameworks/*`) | stream objects, callbacks | the public API | the two services | restore and switch of a stream | a stream survives a switch |

## Modules and code

| Module | Models | Written in |
|---|---|---|
| `OHAudioBuffer` | the playback ring with its writer, the engine's callback and flush | one action per shared load or store |
| `OHAudioBufferInv`, `OHAudioBufferProofs` | the inductive invariant `IInv` of that ring, and the proofs about it | |
| `FrameFifo` | what the ring promises: a bounded FIFO of frames | abstract |
| `MCRing` | the refinement mapping from `OHAudioBuffer` to `FrameFifo`, which TLC checks and `OHAudioBufferProofs` proves | |
| `FutexTool`, `FutexProofs` | `FutexWait` / `FutexWake` with the kernel's part, and their proofs | one action per access to the word |
| `VASharedBuffer`, `VASharedBufferProofs` | `VASharedBufferOperator`, and the proofs about it | lock attempts, then the steps of each operation |
| `AudioThreadTask` | `AudioThreadTask`; the proofs about it stand at the end of `NoneMixEngineProofs` | one action per critical section |
| `NoneMixEngine`, `NoneMixEngineProofs` | `NoneMixEngine` and `ProAudioStreamManager`, extending `AudioThreadTask`, and the proofs about both | one action per access to a field two threads share |
| `RequestQueue` | what the request queue promises: accepted requests run once, in order | abstract |
| `HpaeNoLockQueue`, `HpaeNoLockQueueProofs` | `HpaeNoLockQueue`, and the proofs about it | one action per atomic or foreign node access |
| `HpaeManager`, `HpaeManagerProofs` | `HpaeManagerThread` and the playback sessions of `HpaeManager`, and the proofs about them | one action per request, per step of the thread, of `SendRequest` and of `DeInit` |
| `RendererStream` | one playback stream: `RendererInClientInner`, `RendererInServer`, `HpaeManager`, `HpaeRendererManager`, gain and sink input node | one action per request or notification; a server call in two halves |
| `AudioInterrupt`, `MCAudioInterrupt` | the focus list of `AudioInterruptService`; the streams TLC takes | one action per critical section of `mutex_` |
| `RendererFocus`, `MCRendererFocus` | `AudioRenderer`'s calls and `OnInterrupt` on top of that list | one action per call to the service or to the stream |
| `AudioSession`, `AudioSessionProofs` | `AudioSessionService` with the two monitors, and the proofs about it | one action per operation, three per timer |
| `AudioEndpoint`, `AudioEndpointProofs` | a playback endpoint of the fast path with its streams: `AudioEndpointInner`, `AudioProcessInServer`, `AudioProcessInClient`, `FastAudioRenderSink`; the proofs about it | one action per load or store of a field that threads share without a lock |

**The ring.** `basePosInFrame`, `curWriteFrame`, `curReadFrame` are the three
atomics of `BasicBufferInfo`; `slot` is the data area, each slot holding the
number of the frame in it. Three processes have a program counter: the client in
`WriteCacheData`, the engine's callback in `WriteData` or
`OnWriteData(int8_t *, size_t)` (`HpaeEngine` chooses), and a flush that starts
in `FlushAudioStream` and runs `FlushOhAudioBuffer`. `pos`, `len`, `off`, `seen`
are their locals. Labels follow the code: `pos`, `base`, `limit`, `offset`,
`copy` are `GetAllWritableBufferFromPosFrame` and the copy, `setBase`,
`setRead`, `store` are `SetCurWriteFrame`; `base`, `avail`, `offset`, `enqueue`,
`clear` and `setBase` ... `storeRead` are `GetAllReadableBufferFromPosFrame`,
the use of the data and `SetCurReadFrame`. `writeMutex` and `writeLock` are
`writeMutex_` of the client and `writeLock_` of the server: the callback only
tries the latter, the flush waits for it. Positions are natural numbers: they
are 64 bits wide and count frames from 0. What unsigned arithmetic does to a
difference that would be negative is kept (`InRange`, `AtLeast`).

**FutexTool.** `word` is the futex word and `cond` the caller's predicate. The
kernel's part (compare and sleep in one step, wake all, time out, interrupt) is
external. A waker changes `cond` or not before `FutexWake`, as a new read
position may or may not satisfy the waiting client.

**VASharedBuffer.** `futex` is the lock word. `TryLock` is one turn of the loop
of `WaitForFutex`: exchange first, predicate second. Copies may fail, the second
part of a wrapping copy alone as well.

**AudioThreadTask.** `until` and `asleep` describe a caller in `cond_.wait`: the
states its predicate accepts and whether it has been notified since. `loop` is
the thread: at its unlocked test, in its job, before its lock, in `wait_for`, or
gone. The job is two actions, `JobPauses` and `JobEnds`, which by itself may come
in any order and any number; `NoneMixEngine` says when.

**NoneMixEngine.** `Manager` is whoever holds `streamMapMutex_`, `Trigger` a
writer in `TriggerStartIfNecessary`, which does not take it; the third actor is
the job. `at` is where an actor is in its call, down to the accesses to
`isStart_`, the sink and `playbackThread_`, and `inTask` while it is inside a
call of the task. `crossed` is a history variable: a `Start` has overlapped
another call or the job's `PauseAsync`. `torn` says that two threads touched the
shared pointer `playbackThread_` at once: what then happens is undefined, and
the behaviour ends.

**HpaeNoLockQueue.** A head is a tag and a node (`Ref`), as the two halves of
the 64-bit word are. `old`, `nxt`, `node` are the locals of the loops around the
exchanges. `ran` records the requests in the order they are run.

**HpaeManager.** It uses the queue as `RequestQueue` specifies it, which
`HpaeNoLockQueue` is shown to implement. A sender pushes and then notifies, in
two steps. `owed` are the answers the sink's manager may still send, late or
never. A pending transition carries what is left of its 60 ms in three parts:
`Long` (a millisecond or more), `Short` (less), `Due`. `asked` is a history
variable: the last request of a session that was run.

**RendererStream.** The other module about the HPAE engine looks at one stream
from end to end, with every answer computed by the layer that gives it: `state`,
`notified` and `op` are the client's control thread, `status`, `standBy`,
`offered` and `counter` the server, `mstate` and `transitions` `HpaeManager`,
`rstate`, `fade`, `fadeFor`, `isDrain` and `data` the sink. `mq`, `rq` and `ipc`
are the queues between them. `data` is one bit: there is something to read in
the next period. `races` names three races that are in the code; a behaviour
ends with the first, so the properties speak of what comes before.

**AudioInterrupt.** `audioFocusInfoList` is the list of one zone, `Table` the
focus table of `audio_interrupt_policy_config.xml` for eight types that between
them use every kind of its entries, and `Rule` what `UpdateAudioFocusStrategy`
makes of it, in the order of the code: a listed media player pauses others
instead of stopping them (`UpdateFocusStrategy`), a listed recording gives way to
a call by pausing (`UpdateMicFocusStrategy`), media players that both have a window
at the front play together (`UpdateWindowFocusStrategy`), and a stream that would
rather be muted is (`UpdateMuteAudioFocusStrategy`). `IsSameAppInShareMode` exempts
the streams of one application. `foreground` are the applications with such a
window; it may change at any time (`MoveWindow`, the window manager) and is read
afresh at every pair. `together` is a history variable: the pairs that were
admitted with both windows at the front.
`ProcessFocusEntry` is the way in, `Simulate` one turn of `SimulateFocusEntry`,
`Resumed` the way out. `told` is a history variable: what the events since the
stream asked make of it. `clearing` is `ClearAudioFocusBySessionID`, the one
operation that lets go of `mutex_` half-way.

**RendererFocus** extends it with the streams' own side. `mail` are the events
under way, each with a mark once its stream has asked for the focus again since
(`late`), `seen` is `OnInterrupt` between reading the stream's state and acting
on it, `pc` an application's call, which holds `rendererMutex_`; `OnInterrupt`
does not take that. A start the server refuses gives the focus up (`StartFails`),
a `PauseTransitent` keeps it. `quieted` is a history variable: which of the two
things that may silence a stream with the focus has happened since it started.

**AudioSession.** `pidCbIdMap_` and `monitoredObj_` are the two maps of the two
monitors: which timer a process has, and whom a timer is for. `fired` and
`ended` count the threads of timers that have gone off, before
`OnAudioSessionTimeOut` and before `RemoveFromMonitorMap`. Time is not modelled:
a timer may go off at any moment after its start.

**AudioEndpoint.** `status` is each stream's `streamStatus_`, in memory that
client and server map; `endpointStatus`, `delayStop` and `isStarted` are the
endpoint's `endpointStatus_`, `delayStopTime_` and `isStarted_`. `at` is where the
call of a stream is, from the client through `AudioProcessInServer` to the
endpoint's `OnStart` or `OnPause` and back (`"onStart"`, `"mark"` and `"keepOn"` are
the test and the two stores of `OnStart`, `"starting"`, `"prefer"` and
`"keepStarted"` the three stores of the `StartDevice` it may call, `"storeIdle"` and `"delay"` those of
`OnPause`), or where the endpoint's worker is; `svc` is the thread that holds
`processListMutex_` and links or unlinks a stream; `update` is the position
thread in `AsyncGetPosTime` and `DelayStopDevice`. `listLock_` is `ListIsFree`: who
holds it over several actions is found from `at` and `svc`. `cause` is a history
variable, the overlaps that have set device and streams apart since the device
last started; what each is stands at `Cause`.

## Runs

| Run | Shows |
|---|---|
| `MCRing` | `RegionsDisjoint`: frames being copied in are never those being played or cleared. `ServesWhatWasWritten`: the engine gets the frames of its positions. `CommitNeverRefused`: the ignored result of `SetCurWriteFrame` is always success. `ImplementsFifo`: all of it is a FIFO. `WrittenIsConsumed`: what was written is played or flushed in the end. `WriterProceeds`: a client that waits for room gets on. |
| `MCFutex` | `NoLostWakeup`: nobody sleeps on a word whose condition has come true. `SleeperReturns`: who is woken gets out. `PreExitReachesAll`: once `IS_PRE_EXIT` is set nobody stays asleep. |
| `MCVABuffer` | `ExclusiveAccess`: reader and writer are never both past the lock, and nobody gives back a lock that is not its own. `BytesInOrder`: the bytes come out as they went in, whatever failed half-way. |
| `MCEngine` | `StoppedMeansStopped`: an engine that is not marked as started has neither sink nor thread running, which is what the early return of `Stop` relies on. `RemovedStreamIsUnused`: `Release` takes no stream from a job that uses it. `EngineCallReturns`. These three as long as no `Start` crosses another call; the two of the task underneath always: `QuietUnlessDropped`: no job while the state says `PAUSED` or `STOPPED`, but for the destructor's wait. `ThreadKeepsItsWord`: a transition that was promised has a thread to make it. Two callers. |
| `MCNoLockQueue` | `EveryNodeHasOneOwner`: no node is lost or handed out twice. `ImplementsRequestQueue`: accepted requests run once and in order. |
| `MCHpaeManager` | `NoSleepOverWork`: the thread does not sleep over a request whose sender has notified. `StateFollowsRequests`: a session's state is that of its last request, or a transition to it. `EveryWaitIsTimed`: whoever waits for an answer has a timer. `OnlyTruncationOversleeps`: the thread sleeps past a timer only if less than a millisecond was left of it. `RequestsAreServed`: what was sent is run or thrown away by `DeInit`. `DeInitReturns`: a `DeInit` after the thread has started ends. Two senders, two sessions. |
| `MCRendererStream` | `AnswersArrive`: no `Start`, `Pause` or `Stop` waits when nothing is left that could answer it. `SinkFollowsManager`: once all is quiet the sink has the session connected exactly when `HpaeManager` says `RUNNING`. `LayersAgree`: and between calls client, server and manager agree, in stand-by too. `WrittenIsPlayed`: a stream that falls asleep over new data wakes. |
| `MCAudioInterrupt` | `NoClash`: two streams at full volume are a pair the table lets play together or two media players that were side by side on the screen when the later one was admitted, whatever came and went. `OnlyLateStopMisleads`: list and events disagree in one way only. `LeavingReleasesOthers`: nobody is held back by a stream that is gone. `TypeOK`: among the types, nobody is listed twice. |
| `MCRendererFocus` | `DuckHolds`: a stream held as ducked plays ducked. `FocusSounds`: a stream held as active runs, or was paused by `PauseTransitent`, or was silenced by an event from before it last asked. |
| `MCForcedPause` | `PauseHolds` does not hold (a finding) |
| `MCAudioSession` | `KnownTimersWatchEmptySessions`: a timer that can still be stopped watches a session that is there and empty. `OnlyRemoveFromMonitorMapOrphans`, `OnlyStaleIdsRob`: the two ways to lose a timer are exactly the two in the code. `EmptySessionsEnd`: a watched empty session ends. |
| `MCAudioEndpoint` | `RunningIsHeard`: a listed stream whose client believes it runs has a device that is on or coming on, unless one of six named overlaps has come between. `SilentDeviceStops`: the device of streams that are all silent stops in the end, unless one of two has. |

Every property of a passing run is broken by at least one plausible slip in the
code. The slips (`MoreThan`, `WordReloaded`, `KeepsTag`, `UpdateDequeuesFirst`,
`AddLeavesTimer`, ...) stand next to the definition they would replace and no
action uses them. Type invariants that no run lists are proved (see *Proofs*).

## Bounds

* **Ring**: three slots, spans of two, writes of one or two frames, seven frames
  in all. Seven frames are two laps and a third one begun, so the base position
  moves twice, spans wrap around the end, the ring is full and empty in every
  lap, and a process that is late by one lap meets the next. Nothing in the code
  depends on more than two laps (`0 <= write - base < 2 * totalSize`), and the
  proofs do without the bound.
* **FutexTool**: one waiter and two wakers, which is how a ring is used: the
  client waits, the server's callback and its control calls wake. `WaitTryCount`
  is 3 for 50, so that a wait can run out of tries. `MaxWake` bounds the calls of
  `FutexWake(IS_READY)`; `FutexWake(IS_PRE_EXIT)` is unbounded. For more waiters
  see *Proofs*.
* **VASharedBuffer**: four bytes, calls of up to three, seven in all, so reads
  and writes wrap and the buffer fills; `minReadSize_` is one, so a read can ask
  for more than there is; `Reset` may come at any point. Proved for any size.
* **AudioThreadTask**, **NoneMixEngine**: no bound; the state spaces are finite
  (225798 states of the engine). One stream, since the engine takes one; two
  devices, so that `CreateRender` can be for another.
* **HpaeNoLockQueue**: two nodes, two producers of two requests each. Two nodes
  are the fewest with which a head can be the same while its successor is not,
  and the pool runs out. There are five tags for four requests
  (`TagAssumption`), so none comes round. Proved for any numbers.
* **HpaeManager**: two senders, two sessions and two client requests between
  them. Two are enough for a request to overtake the answer to the one before it
  and for two senders to push while the thread goes to sleep; answers, timers,
  `Init` and `DeInit` come on top and are not counted.
* **RendererStream**: three calls of the control thread. Three are what it takes
  to start, pause or stop, and do something else while the answers of the first
  are under way. `StandbyLimit` is 2 for a counter of about a second, `MaxUnderflow`
  1 report in the queue at a time. Two limits are taken to be long: the one
  second of the client's wait and the one second of stand-by are over only when
  the queues and the 60 ms timers have come to rest (`Quiet`, `NothingElse`). A
  drain may time out at any time.
* **AudioInterrupt**: three streams of up to three applications, each of any of
  33 profiles, no bound on the calls or on the moves of windows. Two streams show
  the table, the third one what is worked out again when one of the others leaves.
  Streams and applications are symmetric sets; no liveness is checked here.
* **RendererFocus**: two streams of one or two applications, four types; an
  application acts with at most one event in the queue (`MaxEvents`), besides those
  being handled, so a stream can meet the event of its last activation in its next.
* **AudioSession**: two processes, one stream each at a time, two timer ids, six
  calls and two threads of timers at once. An orphaned timer takes four calls, a
  stopped foreign timer two processes. The safety properties are proved for any
  of these numbers, and without the bound on calls or threads playing a part.
* **AudioEndpoint**: two streams, three calls of their applications (links
  are not counted), one start or stop of the sink that fails; 661081 states. Two
  streams are what one to count and one to be overlooked take. No excuse is idle:
  where `overlooked`, `refused`, `late` or `failed` is not accepted as a cause, TLC
  finds a stream that is not heard in this run; for `crossed` and `unlisted` it
  takes a fourth call. `RunningIsHeard` is proved for any number of streams, calls
  and failures.

Deadlock is checked where the system must go on (the ring, the futex, the
virtual device's buffer, the focus list). The queue, the manager, the stream,
the sessions and the endpoint are left alone when the bounded callers have nothing more to
say, and an engine whose pointer was torn has no defined next step, so there the
check is off.

## Fairness

No run assumes that anybody calls. What is assumed:

* `OHAudioBuffer`: a client inside `Write` and a flush inside its call keep
  running; the engine keeps calling back, as it does at every period while the
  stream runs. `FlushLock` is strongly fair: the flush waits in
  `std::lock_guard` for a lock the callback holds for a short part of each
  period. The time limit of the client's wait is never relied on. `FlushReturn`
  needs the engine between two callbacks, or the time limit of
  `callServerCV_.wait_for` when `NotifyTimesOut` is set.
* `FutexTool`: threads inside a call run; neither time limits nor signals are
  relied on, so `SleeperReturns` is about the wake-up alone.
* `NoneMixEngine`: an actor inside a call runs on, and so does the thread, whose
  job ends (a fade-out and a render call take bounded time). The 500 ms of
  `wait_for` are relied on: `PauseAsync` notifies nobody and neither does the
  start of a pause.
* `HpaeManager`: the thread, a sender between push and notify, a `DeInit` under
  way and time go on. Sinks need not answer.
* `RendererStream`: every thread with something to do goes on, timers come due,
  the sink's thread processes and empties the ring if nobody writes, and the
  application goes on writing to a stream that sleeps. No wait need time out.
* `AudioSession`: timers go off, their threads run, the app manager's notices
  arrive.
* `AudioEndpoint`: calls under way go on, here and in the server, and so does the
  worker once it has found a silent stream; time passes; the position thread
  wakes every second (`UPDATE_THREAD_TIMEOUT`), notified or not. That the worker
  finds a silent stream is not assumed.

## Proofs

`OHAudioBufferProofs` proves, from `RingAssumption` (a ring of at least one
frame, a span no larger) and `Locked` (the callback takes `writeLock_`), for every
size of ring and span and any number of frames:

1. `InductiveInvariant`: `Spec => []IInv`. `IInv` is needed because the safety
   properties are not inductive: that two regions do not meet depends on where
   each offset came from. `LockInv` ties program counters to the two locks.
   `RingInv` bounds the three positions and says that the base position is
   always a multiple of the size; it follows that the offset of a frame is its
   number modulo the size whichever base position was loaded (`Loc`), which is
   why two loads of a moving base position agree. `ReaderInv` says what the
   holder of `writeLock_` loaded is still true, `ClientInv` that the room
   the client saw can only have grown, `SlotInv` which frame each slot holds.
2. `TypeCorrect`, `RegionsAreDisjoint`, `WrittenIsServed`, `CommitsAreAccepted`,
   `PositionsAreInRange` follow from `IInv`; `ReadNeverMovesBack` is the action
   property, from the same invariant.
3. `RingIsFifo`: `Spec => ImplementsFifo`, the refinement that `MCRing` checks.
   The FIFO is read off the positions and the slots: it holds the frames from the
   first one whose slot has not been cleared to the last one committed. Storing
   the write position puts the frames of a span (`StorePuts`), clearing the slots
   of one, by the callback or a flush, takes it (`ClearTakes`), storing the read
   position gives its room back (`StoreGivesBack`); every other step leaves the FIFO
   alone (`QuietStutters`). That the slots hold the frames the FIFO should
   (`QueuedIsFrames`) is `SlotInv`.

There is one lemma per group of actions and part of the invariant; the
arithmetic the solver does not have (uniqueness of quotient and remainder, two
numbers less than a lap apart with equal remainders) stands first.

`FutexProofs` proves for any number of wakers: `FutexTypeCorrect`,
`PreExitReaches` and `PreExitStays` for any number of waiters, and
`WakeupsAreNotLost` for one waiter per word. The invariant of the last says that
a waiter between its test and its system call has the word at `IS_NOT_READY`
or will see it changed.

`VASharedBufferProofs` proves, for every capacity and number of bytes,
`BufferTypeCorrect`, `AccessIsExclusive`, `PositionsStayInRange` and
`BytesStayInOrder`. The invariant adds to them: which process the lock belongs
to (`LockInv`), what its locals still say of the positions (`SizeInv`), and which
byte each cell holds, counted back from the write position, with the part of a
copy that is done (`ByteInv`). `DistanceOf` is the arithmetic of a copy that
wraps.

The end of `NoneMixEngineProofs` proves `TaskTypeCorrect`, `PausedIsQuiet` and
`WordIsKept` of `AudioThreadTask` by itself, for any number of callers and any job;
`ActorAssumption`, which is about the engine, is not used there. The two properties and the types are
inductive with one addition, `StopWaits`: a caller in `Stop` waits for `STOPPED`
and nothing else, so that it never joins a thread that runs.

`AudioSessionProofs` proves `SessionTypeCorrect`, `TimersWatchEmptySessions`,
`OrphansHaveOneCause` and `RobberyHasOneCause` for any processes, streams and
number of timer ids. The types and `KnownTimersWatchEmptySessions` are inductive
together. What `StopMonitor` and `StartMonitor` do to the two maps is said once
(`StopFacts`, `StartFacts`, `RemonitorFacts`); that the smallest free id is a free
one needs that `<` is well-founded. The two action properties follow from it by
which actions can take a timer from its process.

`HpaeManagerProofs` proves, from `MaxRequestsAssumption` (the bound is a number) and
for any number of sending threads and sessions, `ManagerTypeCorrect`,
`WorkIsNotSleptOver`, `StatesFollowRequests`, `WaitsAreTimed` and
`OversleepIsTruncation`, that is, every invariant of `MCHpaeManager`. Together they
are inductive but for two things. `ThreadLives` says that there is no thread before
`Init` and after the join only: without it `DeInit` could run the requests that are
left while the thread runs others. `SleepIsLimited` says that a thread that sleeps
without a limit has no timer in front of it with a millisecond or more to go, which
holds because nobody but the thread adds a timer while there is a thread. For `WaitsAreTimed`
the prover has to know that `DequeuePendingTransition` keeps the timers of all other
sessions (`DequeueKeepsOthers`), which rests on the first match being one
(`MinIsLeast`, from `<` being well-founded).

`NoneMixEngineProofs` proves for any set of devices `EngineTypeCorrect`,
`QuietUnlessJoining`, `EngineKeepsTheTasksWord`, `StoppedEngineIsStopped` and
`ReleaseWaitsForTheJob`. The task's own invariant does not carry over: the engine
gives up the task while its thread may still run. `EInv` says where the actors
can be (`Places`), what a waiting one waits for (`Waits`) and what is true without a
thread (`Threadless`), whether calls cross or not. What `isStart_` says of the
sink, of the thread and of the task's state (`IsStartTells`) is in the invariant
only as long as no `Start` has crossed another call or `PauseAsync`: when one has,
it is false, which is the divergence `crossed` stands for. `ActorAssumption`
(the thread that calls the engine and one client that writes) is used throughout;
`Conclude` splits every step in what holds in any case and what holds while a
`Start` is alone.

`AudioEndpointProofs` proves `EndpointTypeCorrect` and `RunningStreamsAreHeard` for any
number of streams, calls and failures of the sink. `RunningIsHeard` speaks of a
sink that is off; the invariant has to say what each value of `endpointStatus_`
means for the streams and the device (`StatusTells`), which stores are under way
and already stale (`Stores`), who is in the list (`Listed`) and which stream the
service holds (`Linking`). The attempt found that the excuse `overlooked` came too
late in one order: a client whose pause was refused believed it ran while a counted
`IDEL` was about to be stored. `Refuse` now counts it (`Uncounted`), as `Return`
did.

`HpaeNoLockQueueProofs` proves, for any producers, nodes and requests,
`QueueTypeCorrect`, `NodesHaveOneOwner` and `QueueIsAtomic`, the refinement of
`RequestQueue`. The assumptions are `CapacityAssumption` (there is a node),
`ThreadAssumption` (finitely many producers, the handler none of them) and `TagAssumption`: fewer
requests than tags. The last stands for what the code relies on: no thread sleeps
between load and exchange while 2^32 requests pass. Of a run with more requests
the theorems say nothing.

* *The memory.* `IInv` describes it by three lists of nodes: the free stack, the
  request stack and what the handler has taken and not yet run. Each is linked
  through `next`, with the tag every node has now, and a function says which list
  or thread a node belongs to. `EveryNodeHasOneOwner` reads the same lists with the
  recursive function `Chain`; that both agree (`LinkedIsChain`) rests on `<` being
  well-founded.
* *ABA.* A producer's exchange succeeds if the head is the one it loaded. Then the
  successor it read must still be the successor. `Producers` says so: the tag of a
  loaded head is at most the tag of its node, and when they are equal the node is
  free and, once its successor has been read, still linked to it. For this tags must not wrap: `TagsAreYoung` bounds a node's tag by the
  number of requests that have taken a node.
* *The refinement.* The line of the atomic queue is the request list read from its
  end, the batch is what the handler took. The exchange on the request stack
  appends a request (`PushAppends`), the handler's takes them all
  (`TakeTakesAll`), turning the list around keeps the batch (`WalkKeepsBatch`), and
  running a request runs the oldest (`RunRunsOldest`). Every other step stutters.

Three of these theorems state a property that no run lists (`PreExitStays`,
`PositionsStayInRange`, `PausedIsQuiet`); TLC agreed with them before they were
proved.

Checked by TLC only:

* `RendererStream`: three message queues and two timers, whose limits are taken to be
  long. Its invariants depend on everything that can be under way at once.
* `AudioInterrupt` and `RendererFocus`: the focus list is worked out by folds over
  sequences, about which the prover's libraries say little.
* All liveness (`WriterProceeds`, `SleeperReturns`, `DeInitReturns` and the like), which is outside what
  the prover handles.

## Where code and promise differ

With a run:

* **A forced pause that does not hold** (`MCForcedPause`). `OnInterrupt` takes no
  `rendererMutex_`. A forced `PAUSE` between `ActivateAudioInterrupt` and
  `StartAudioStream` of the same stream finds it `PREPARED` and has no effect;
  then the stream runs, and the focus list holds it as paused. In the same window
  of a later start the stream is `PAUSED` or `STOPPED` and the event is dropped
  ("No need to pause"), with the same outcome.

Met while modelling, without a run of their own:

* **HPAE callback against flush.** `OnWriteData(int8_t *, size_t)` reads the ring
  without `writeLock_`. A flush in the middle of it moves base and read position
  on; the callback then stores its older read position, which is below the base.
  `oh_audio_buffer.h:69` excludes it, and from then on every read of the stream
  is refused. (`HpaeEngine = TRUE` in `OHAudioBuffer`.)
* **Full ring.** `oh_audio_buffer.h:70` says `write - read < totalSize`; the code
  admits equality and is right to.
* **A lock kept after a timeout.** `WaitForFutex` exchanges the word before it
  asks the predicate and keeps it when the answer is no.
* **DeInit before the thread has started.** The thread sets `running_` itself and
  undoes the stop; the join waits for ever. `DeInitReturns` excludes it.
* **A limit that is none.** Less than a millisecond left of a pending transition
  is truncated to 0, which means no limit (`OnlyTruncationOversleeps` says that
  this is the only way to oversleep).
* **A Start that crosses another call of the engine** (`crossed`). A `Start` of
  the manager while the job is in `PauseAsync` leaves a thread in `STARTED`, the
  sink stopped and `isStart_` false; the next `Release` returns early and takes
  `stream_` from the running job. The trigger's `Start`, which holds no mutex,
  can do the same to `Pause` and `Stop`, and two of them can exchange
  `playbackThread_` at once.
* **CreateRender for another device** gives up the sink of a running engine
  before `AddRenderer` answers `ERROR_UNSUPPORTED`; `isStart_` is set even if the
  sink did not start; a comment says "failed 5 times" where `MAX_ERROR_COUNT` is
  50; `StopAsync` of `AudioThreadTask` has no caller outside its tests.
* **Three races of a playback stream** (`races`). `OnFadeDone` disconnects a
  session that was started again since its fade-out ended (`overtaken`).
  `StandByCheck` puts a stream to sleep that is being paused or stopped since its
  tests (`lateCheck`). The writer that saw `STREAM_STAND_BY` starts a stream
  that has been paused or stopped meanwhile (`staleStart`).
* **Notifications of a stream.** `isDrain_` of a drain that timed out answers the
  next one early; `notifiedOperation_` is one word that a later notification
  overwrites; the case `OPERATION_RELEASED` of `OnStatusUpdateSub` is behind an
  early return for the same operation.
* **Timers of sessions.** `RemoveFromMonitorMap` erases the entry of a timer
  started since, which nobody can stop then; a process whose timer has gone off
  stops the timer that has its id now. `audio_session_info.h:36` says `TIMEOUT`
  is for a session that "remains empty for one minute"; a session whose timer was
  lost stays.
* **What the endpoint's status says.** `audio_endpoint.h:61` explains `UNLINKED` as
  "no process linked", line 62 `IDEL` as "no running process", line 64 `RUNNING` as
  "at least one process is running". `OnPause` and the worker count the streams and
  then store, and a stream counts only when its client has stored
  `STREAM_RUNNING`, after its `Start` has returned: `IDEL` can be stored over a
  stream that was told it runs, whose device is then stopped three seconds later
  (`overlooked`), and `RUNNING` over streams that have all stopped, whose device
  then never stops (`crossed`). After a start of the device that failed with one
  other stream listed the status is `UNLINKED`, and the result is dropped
  (`failed`).
* **A stop that a start cannot call off.** `DelayStopDevice` looks at the status
  once more, but stops the sink after that; an `OnStart` in between finds
  `isStarted_` true and stores `RUNNING` over a device that is being stopped.
  `StartDevice` itself opens the same gap: it stores the `IDEL` it has counted, then
  the `RUNNING` that `OnStart` prefers, and only then a new `delayStopTime_`. A
  position thread that looks in between finds an idle device whose time is over
  and stops what has just been started (`late` in both cases).
* **Two media players side by side** may both sound because of their windows
  (`UpdateWindowFocusStrategy`). The service is not told when one of them leaves
  the screen, and `SimulateFocusEntry` passes over the `STOP` of the table, so both
  go on until one of them asks or leaves (`together` in `NoClash`).
* **Focus without sound.** `PauseTransitent` pauses a stream and keeps its focus
  entry `ACTIVE`, so that others stay ducked or paused for a silent stream; and a
  `PAUSE` or `STOP` sent for an earlier activation silences the one that is on,
  since an event does not say which activation it is for. `FocusSounds` says that
  these are the only two ways.
* **A stream that is in no list.** `LinkProcessStream` that finds the endpoint
  `STARTING`, or no longer `IDEL`, answers `SUCCESS` without listing the stream
  (`unlisted`): it is never mixed.
* **A pause that is refused.** `EnableStandby` stores `STREAM_STAND_BY` over the
  `STREAM_PAUSING` of a client that is about to call; the server refuses the
  pause, and the client stores `STREAM_RUNNING` (`refused`).
* `UnlinkProcessStream` sets `delayStopTime_` to one second after the clock's
  zero instead of one second from now, so that the device is due at once.
* **A capturer stays muted** (`muteFlag_`) when its stream leaves the focus list
  without an `UNMUTE`.

Limits that are not promised otherwise: with two waiters on one futex word an
ordinary wake-up can be lost (the second sets the word back to `IS_NOT_READY`);
two threads that start, pause and stop one `AudioThreadTask` at the same time can
leave one of them waiting.

## What is not modelled

* Of the ring: `ResetCurReadWritePos`, the record direction, volumes and time
  stamps, the restore handshake. Audio data other than which frame it is.
* Of `HpaeNoLockQueue`: `Reset`, which nothing calls. The two words of a node
  are read as the processor would in order; the weaker orders C++ permits for
  the plain `nextRequestIndex` are not.
* Of `HpaeManager`: moves between sinks (`movingIds_`; a `Pause` of a session that
  is being moved answers `PAUSED` and leaves it `PAUSING`), capture sessions (which
  have no timer), devices and effects, and the lifetime of the thread object
  between the null test of `SendRequest` and its use.
* Of the engine: `SwitchSink`, the contents of a fade, more than one stream at a
  time. Stopping the sink succeeds. How many periods without data there were, and
  how long a fade-out lasts, is left open.
* Of a stream: `Release`, callback mode, offload, direct and VoIP managers, moves
  between sinks, the history buffer `Flush` clears, ring positions (one bit
  `data`). `OnStatusUpdate` is one step.
* Of the focus list: zones, source concurrency, peeling recordings, games, device
  tags, remote clients, bundles without a name, sources other than the microphone
  and that of a call, the effect of a session on the table (`CanMixForSession`),
  events to the application that force nothing. A window does not move inside one
  operation of the service. Of `AudioRenderer`: renderers without a stream, muted
  and silent ones, `Release`, restore and switch, static and low latency streams;
  of the service beneath it the death of a client, pre-emption and the late stop,
  which `AudioInterrupt` has. The server pauses and stops a stream when asked.
* Of the sessions: `ClearStreamInfo`, the second API with its fake focus, the
  `TIMEOUT` event, devices. Time.
* Of the fast path: the stop of the sink at zero volume, capture and inner
  capture, a `Stop` of a paused stream (a running one does what a pause does),
  relinking and hibernation, the delayed release of an endpoint without streams,
  clients that die inside a call, the client's callback loop against its control
  calls, and the mixing. The device has started when `FastAudioRenderSink::Start`
  says so: a `CheckPositionTime` that fails leaves a device that runs.
* `VACaptureSource`: `Start` of a started source calls `Stop` under
  `statusMutex_`, and `Stop` waits for a thread that needs `statusMutex_`; that
  is seen by reading, not by a run.
* Whole components: see the table under *The system* and the reasons in
  `PROJECT.json`. Bindings, IPC stubs, parsers and signal processing have no
  shared state a checker would tell us more about than a test does.

## Plan

In order of importance:

1. Proofs: the three invariants of `RendererStream`; `NoClash` and `FocusSounds`,
   for which a step of the fold has to become a lemma.
2. Moves between sinks (`movingIds_`, `HpaeRendererManager::MoveStream`) and the
   loss of a device, in `HpaeManager` and `RendererStream`.
3. The restore handshake of the ring (`SetRestoreStatus`, `CheckRestoreStatus`,
   `SetStopFlag`) with the client that switches, and `Release`.
4. The record ring, where both sides move the read position on overflow;
   `VACaptureSource` over `VASharedBuffer`.
5. The rest of the fast path: the stop at zero volume, the delayed release of an
   endpoint, capture.
6. Zones and sessions in the focus list; the bookkeeping of pipes.
