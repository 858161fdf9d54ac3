--------------------------- MODULE NoneMixEngine ---------------------------
(***************************************************************************)
(* A direct or VoIP stream (none_mix_engine.cpp) and the calls its manager *)
(* makes (pro_audio_stream_manager.cpp): the sink, the playback thread of  *)
(* AudioThreadTask and the flag isStart_ the two are to agree with.        *)
(*                                                                         *)
(* Three threads meet here.  Start, Pause, Stop and Release of the stream  *)
(* run one at a time under streamMapMutex_ (Manager).  A client that       *)
(* writes starts the engine again without that mutex when isStart_ is      *)
(* false (Trigger).  The job of the playback thread pauses its own thread  *)
(* and stops the sink after MAX_ERROR_COUNT periods without data.  Which   *)
(* period that is, is left open, and so is how long a fade-out lasts.      *)
(***************************************************************************)
EXTENDS AudioThreadTask

CONSTANTS Manager, Trigger, Device

ASSUME ActorAssumption == Manager # Trigger /\ Caller = {Manager, Trigger}

VARIABLES
  isStart,  \* isStart_
  sink,     \* the render sink: "none" (not initialised), "stopped", "started"
  thread,   \* playbackThread_ is not null
  stream,   \* stream_ is set: the stream is in rendererStreamMap_
  device,   \* device_
  at,       \* where each actor is in its call
  call,     \* which call that is
  jobAt,    \* where the job is: mixing or inside NoneMixEngine::PauseAsync
  crossed,  \* history: a Start ran while another call or PauseAsync did
  torn      \* two threads touched playbackThread_ at once: undefined

engine == <<isStart, sink, thread, stream, device>>
evars  == <<engine, at, call, jobAt, crossed, torn>>

EngineCall == {"Start", "Pause", "Stop", "Release"}
StartLabel == {"start", "mark", "run"}
HaltLabel  == {"halt", "fade", "drop", "join", "sinkStop", "unmark", "remove"}
EngineLabel == {"idle", "inTask"} \cup StartLabel \cup HaltLabel

EInit ==
  /\ Init
  /\ isStart = FALSE /\ sink = "none" /\ thread = FALSE /\ stream = FALSE
  /\ device \in Device
  /\ at = [c \in Caller |-> "idle"] /\ call = [c \in Caller |-> "Stop"]
  /\ jobAt = "mix"
  /\ crossed = FALSE /\ torn = FALSE

----------------------------------------------------------------------------
Other(c) == CHOOSE d \in Caller : d # c

Goto(c, label) == at' = [at EXCEPT ![c] = label] /\ UNCHANGED <<call, jobAt>>
From(c, label) == at[c] = label /\ ~torn

InStart(c) == call[c] = "Start" /\ at[c] # "idle"
Busy(c)    == at[c] # "idle"

\* An actor reads or writes playbackThread_ as the other one is to change it.
TouchesThread(c) ==
  torn' = (torn \/ InStart(Other(c)) \/ at[Other(c)] = "join")
KeepsThread == UNCHANGED torn

Begin(c, k) ==
  /\ ~torn /\ at[c] = "idle"
  /\ call' = [call EXCEPT ![c] = k]
  /\ at' = [at EXCEPT ![c] = IF k = "Start" THEN "start" ELSE "halt"]
  /\ UNCHANGED <<vars, engine, jobAt, torn>>

\* ProAudioStreamManager::StartRender, PauseRender, StopRender, ReleaseRender.
ManagerCalls == stream /\ \E k \in EngineCall : Begin(Manager, k)

\* TriggerStartIfNecessary.
TriggerStartIfNecessary == stream /\ ~isStart /\ Begin(Trigger, "Start")

----------------------------------------------------------------------------
(* NoneMixEngine::Start. *)

\* The sink has to be there; a thread is made if there is none.
StartSink(c) ==
  /\ From(c, "start") /\ sink # "none"
  /\ IF thread THEN KeepsThread ELSE TouchesThread(c)
  /\ thread' = TRUE
  /\ IF isStart
       THEN sink' = sink /\ Goto(c, "run")
       ELSE sink' \in {sink, "started"} /\ Goto(c, "mark")
  /\ UNCHANGED <<vars, isStart, stream, device>>

StartWithoutSink(c) ==
  /\ From(c, "start") /\ sink = "none"
  /\ Goto(c, "idle")
  /\ UNCHANGED <<vars, engine, torn>>

\* isStart_ is set even if the sink did not start.
StartedIfSinkDid == isStart' = (sink = "started")
StartedAnyhow == isStart' = TRUE

MarkStarted(c) ==
  /\ From(c, "mark")
  /\ StartedAnyhow
  /\ Goto(c, "run")
  /\ UNCHANGED <<vars, sink, thread, stream, device, torn>>

RunThread(c) ==
  /\ From(c, "run") /\ UNCHANGED engine
  /\ IF ~thread
       THEN torn' = TRUE /\ UNCHANGED <<vars, at, call, jobAt>>
       ELSE /\ KeepsThread
            /\ IF state = "STARTED"
                 THEN Goto(c, "idle") /\ UNCHANGED vars
                 ELSE Start(c) /\ Goto(c, "inTask")

----------------------------------------------------------------------------
(* NoneMixEngine::Stop and Pause; Release stops and removes the stream. *)

\* Stop and Pause go by isStart_.
HaltIfStarted ==
  /\ From(Manager, "halt")
  /\ Goto(Manager, IF isStart THEN "fade"
                   ELSE IF call[Manager] = "Release" THEN "remove" ELSE "idle")
  /\ UNCHANGED <<vars, engine, torn>>

\* The fade-out, of which the thread is to report the end, lasts FADING_MS at
\* most.
HaltThread ==
  /\ From(Manager, "fade")
  /\ IF ~thread THEN Goto(Manager, "sinkStop") /\ UNCHANGED vars
     ELSE /\ IF call[Manager] = "Pause" THEN Pause(Manager) ELSE Stop(Manager)
          /\ Goto(Manager, "inTask")
  /\ UNCHANGED <<engine, torn>>

\* The task's Start, Pause or Stop returns.
TaskReturns(c) ==
  /\ From(c, "inTask") /\ pc[c] = "idle"
  /\ Goto(c, CASE call[c] = "Start" -> "idle"
               [] call[c] = "Pause" -> "sinkStop"
               [] OTHER             -> "drop")
  /\ UNCHANGED <<vars, engine, torn>>

\* playbackThread_ = nullptr: ~AudioThreadTask ends a thread that has been
\* started since, and joins it.
DropThread ==
  /\ From(Manager, "drop")
  /\ TouchesThread(Manager)
  /\ thread' = FALSE
  /\ state' = "STOPPED" /\ NotifyAll
  /\ Goto(Manager, "join")
  /\ UNCHANGED <<loop, caller, isStart, sink, stream, device>>

JoinThread ==
  /\ From(Manager, "join") /\ loop \in {"none", "exited"}
  /\ loop' = "none"
  /\ Goto(Manager, "sinkStop")
  /\ UNCHANGED <<state, asleep, caller, engine, torn>>

SinkAfterStop == IF sink = "none" THEN sink ELSE "stopped"

StopAudioSink ==
  /\ From(Manager, "sinkStop")
  /\ sink' = SinkAfterStop
  /\ Goto(Manager, "unmark")
  /\ UNCHANGED <<vars, isStart, thread, stream, device, torn>>

MarkStopped ==
  /\ From(Manager, "unmark")
  /\ isStart' = FALSE
  /\ Goto(Manager, IF call[Manager] = "Release" THEN "remove" ELSE "idle")
  /\ UNCHANGED <<vars, sink, thread, stream, device, torn>>

\* RemoveRenderer stops the engine once more if it has been started since.
RemoveRenderer ==
  /\ From(Manager, "remove")
  /\ IF isStart THEN stream' = stream /\ Goto(Manager, "halt")
                ELSE stream' = FALSE /\ Goto(Manager, "idle")
  /\ UNCHANGED <<vars, isStart, sink, thread, device, torn>>

----------------------------------------------------------------------------
\* CreatePlayBackEngine, without the mutex: Init gives the sink up if the
\* device is another one, before AddRenderer sees whether there is a stream
\* already.  A sink is initialised if there is none or its format differs.
SinkAfterInit(d) == IF d = device THEN sink ELSE "none"

CreateRender(d) ==
  /\ ~torn
  /\ device' = d
  /\ IF stream
       THEN sink' = SinkAfterInit(d) /\ stream' = stream
       ELSE \/ sink' = SinkAfterInit(d) /\ sink' # "none" /\ stream' = TRUE
            \/ sink' = "stopped" /\ stream' = TRUE
            \/ sink' = "none" /\ stream' = FALSE
  /\ UNCHANGED <<vars, isStart, thread, at, call, jobAt, torn>>

----------------------------------------------------------------------------
(* The job, MixStreams. *)

JobTo(label) == jobAt' = label /\ UNCHANGED <<at, call>>

\* A frame is rendered, or there is none, or there is no stream.
MixStreams ==
  /\ ~torn /\ jobAt = "mix"
  /\ JobEnds
  /\ UNCHANGED <<engine, at, call, jobAt, torn>>

\* PauseAsync as it would be if it cleared isStart_ first.
PauseThreadAndMark ==
  /\ ~torn /\ jobAt = "mix" /\ stream /\ thread
  /\ JobPauses
  /\ JobTo("sinkStop")
  /\ isStart' = FALSE
  /\ UNCHANGED <<sink, thread, stream, device, torn>>

\* PauseAsync, after too many periods without data.
PauseThread ==
  /\ ~torn /\ jobAt = "mix" /\ stream
  /\ IF thread THEN JobPauses ELSE loop = "job" /\ UNCHANGED vars
  /\ JobTo("sinkStop")
  /\ UNCHANGED <<engine, torn>>

PauseSink ==
  /\ ~torn /\ jobAt = "sinkStop"
  /\ sink' = SinkAfterStop
  /\ JobTo("unmark")
  /\ UNCHANGED <<vars, isStart, thread, stream, device, torn>>

PauseMark ==
  /\ ~torn /\ jobAt = "unmark"
  /\ isStart' = FALSE
  /\ JobEnds /\ JobTo("mix")
  /\ UNCHANGED <<sink, thread, stream, device, torn>>

----------------------------------------------------------------------------
\* The thread's and the waiting callers' own steps.
TaskStep ==
  /\ ~torn
  /\ LoopTest \/ LoopLock \/ LoopResume
  /\ UNCHANGED <<engine, at, call, jobAt, torn>>
TaskWakes(c) == ~torn /\ Wakes(c) /\ UNCHANGED <<engine, at, call, jobAt, torn>>

StartNext(c) ==
  \/ StartSink(c) \/ StartWithoutSink(c) \/ MarkStarted(c) \/ RunThread(c)
  \/ TaskReturns(c) \/ TaskWakes(c)

HaltNext ==
  \/ HaltIfStarted \/ HaltThread \/ DropThread \/ JoinThread
  \/ StopAudioSink \/ MarkStopped \/ RemoveRenderer

ThreadNext == MixStreams \/ PauseThread \/ PauseSink \/ PauseMark \/ TaskStep

\* A Start and another call, or a Start and PauseAsync, are under way.
Crossing ==
  \E c \in Caller : InStart(c) /\ (Busy(Other(c)) \/ jobAt # "mix")

EngineNext ==
  \/ ManagerCalls \/ TriggerStartIfNecessary
  \/ \E c \in Caller : StartNext(c)
  \/ HaltNext
  \/ \E d \in Device : CreateRender(d)
  \/ ThreadNext

ENext == EngineNext /\ crossed' = (crossed \/ Crossing')

ESpec == EInit /\ [][ENext]_<<vars, evars>>

\* Every thread inside a call runs on; the job ends.
FairESpec ==
  /\ ESpec
  /\ WF_<<vars, evars>>(ThreadNext /\ crossed' = (crossed \/ Crossing'))
  /\ \A c \in Caller :
       WF_<<vars, evars>>((StartNext(c) \/ (c = Manager /\ HaltNext))
                           /\ crossed' = (crossed \/ Crossing'))

----------------------------------------------------------------------------
ETypeOK ==
  /\ TypeOK
  /\ isStart \in BOOLEAN /\ thread \in BOOLEAN /\ stream \in BOOLEAN
  /\ sink \in {"none", "stopped", "started"} /\ device \in Device
  /\ at \in [Caller -> EngineLabel] /\ call \in [Caller -> EngineCall]
  /\ jobAt \in {"mix", "sinkStop", "unmark"}
  /\ crossed \in BOOLEAN /\ torn \in BOOLEAN
  /\ loop # "job" => jobAt = "mix"

\* The sink and the stream may be taken away from a paused or stopped thread: its
\* job is not running.  Only the destructor, which is about to join the thread,
\* writes STOPPED over a running job.
QuietUnlessDropped == at[Manager] # "join" => QuietWhenPaused

\* What the early return of Stop relies on: with no call under way, an engine
\* that is not marked as started has neither its sink nor its thread running,
\* unless a Start once crossed another call or PauseAsync.
StoppedMeansStopped ==
  ~crossed /\ ~isStart /\ jobAt = "mix" /\ (\A c \in Caller : at[c] = "idle")
    => sink # "started" /\ state # "STARTED"

\* Release never takes the stream away from a job that may be using it,
\* unless a Start once crossed another call or PauseAsync.
RemovedStreamIsUnused ==
  [][stream /\ ~stream' /\ ~crossed => loop # "job"]_<<vars, evars>>

\* Every call returns, though Pause waits for the job and for the thread,
\* unless a Start crossed it.
EngineCallReturns ==
  \A c \in Caller : at[c] # "idle" ~> (at[c] = "idle" \/ crossed)

=============================================================================
