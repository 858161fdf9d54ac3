------------------------- MODULE NoneMixEngineProofs -------------------------
(***************************************************************************)
(* The safety properties of NoneMixEngine, for any set of devices, and at  *)
(* the end those of AudioThreadTask by itself.  The task's own invariant   *)
(* does not carry over as it stands: the engine destroys the task while    *)
(* its thread may still run.                                               *)
(***************************************************************************)
EXTENDS NoneMixEngine, TLAPS

----------------------------------------------------------------------------
(* The inductive invariant. *)

\* Where the actors can be.
Places ==
  /\ \A c \in Caller :
       /\ at[c] \in StartLabel => call[c] = "Start"
       /\ at[c] \in HaltLabel => c = Manager /\ call[c] # "Start"
  /\ at[Trigger] # "idle" => call[Trigger] = "Start"

\* An actor waits in the task inside one of the engine's calls, for what that
\* call needs.
TaskCall(k) == IF k \in {"Start", "Pause"} THEN k ELSE "Stop"

Waits ==
  \A c \in Caller : pc[c] = "wait" =>
    /\ at[c] = "inTask" /\ op[c] = TaskCall(call[c])
    /\ op[c] \in {"Start", "Stop"} => until[c] = {"STOPPED"}
    /\ op[c] = "Pause" => until[c] \subseteq {"PAUSED", "STOPPED"}

\* Without a thread the task's state is STOPPED and nobody uses the task,
\* unless two threads tore playbackThread_.
Threadless ==
  /\ ~torn /\ ~thread =>
       state = "STOPPED" /\ \A c \in Caller : at[c] \notin {"mark", "run", "inTask"}
  /\ ~torn /\ at[Manager] = "join" => ~thread
  /\ torn => \E c \in Caller : at[c] # "idle"

\* A call of Start that is past its check of the sink.
Starting(c) == InStart(c) /\ at[c] # "start"
Halted ==
  \/ at[Manager] = "inTask" /\ call[Manager] # "Start"
  \/ at[Manager] \in {"join", "sinkStop", "unmark"}
HaltedQuietly ==
  \/ at[Manager] = "inTask" /\ call[Manager] = "Pause" /\ pc[Manager] = "idle"
  \/ at[Manager] \in {"sinkStop", "unmark"}

\* What isStart_ says of the sink, the state and the thread as long as no Start
\* has crossed another call or PauseAsync.
IsStartTells ==
  /\ (\A c \in Caller : ~Starting(c)) /\ ~isStart =>
       sink # "started" /\ state # "STARTED" /\ loop # "job"
  /\ \A c \in Caller : Starting(c) /\ at[c] # "mark" => isStart
  /\ jobAt # "mix" \/ Halted => state # "STARTED"
  /\ HaltedQuietly => loop # "job"
  /\ jobAt = "unmark" \/ at[Manager] = "unmark" => sink # "started"

EInv ==
  /\ ETypeOK /\ Places /\ Waits /\ Threadless
  /\ QuietUnlessDropped /\ ThreadKeepsItsWord
  /\ Crossing => crossed
  /\ ~crossed => IsStartTells

----------------------------------------------------------------------------
(* Two actors, and what crossing means for them. *)

\* The manager's calls and a writing client are the only two, each the other's
\* other.
LEMMA Actors ==
  /\ Manager # Trigger
  /\ \A c \in Caller : c = Manager \/ c = Trigger
  /\ Manager \in Caller /\ Trigger \in Caller
  /\ Other(Manager) = Trigger /\ Other(Trigger) = Manager
<1>1. Manager # Trigger /\ Caller = {Manager, Trigger}
  BY ActorAssumption
<1>2. Other(Manager) = Trigger
  BY <1>1 DEF Other
<1>3. Other(Trigger) = Manager
  BY <1>1 DEF Other
<1>4. QED
  BY <1>1, <1>2, <1>3

\* A Start that is under way is alone: no other call, and no PauseAsync.
Alone ==
  /\ InStart(Manager) => at[Trigger] = "idle" /\ jobAt = "mix"
  /\ InStart(Trigger) => at[Manager] = "idle" /\ jobAt = "mix"

\* As long as no two calls cross, a Start is alone.
LEMMA NoCrossing == ~Crossing => Alone
BY Actors DEF Alone, Crossing, Busy

\* The part of the invariant that holds whether calls cross or not.
Bare ==
  /\ ETypeOK /\ Places /\ Waits /\ Threadless
  /\ QuietUnlessDropped /\ ThreadKeepsItsWord

Remembers == crossed' = (crossed \/ Crossing')

\* A step has to keep Bare, and IsStartTells only if no calls cross before it or
\* after it.
LEMMA Conclude ==
  ASSUME EInv, Remembers, Bare',
         ~crossed /\ IsStartTells /\ Alone /\ Alone' => IsStartTells'
  PROVE  EInv'
<1>1. Crossing' => crossed'
  BY DEF Remembers
<1>2. ASSUME ~crossed' PROVE IsStartTells'
  <2>1. ~crossed /\ ~Crossing'
    BY <1>2 DEF Remembers
  <2>2. ~Crossing /\ IsStartTells
    BY <2>1 DEF EInv
  <2>3. Alone
    BY <2>2, NoCrossing
  <2>4. (~Crossing => Alone)'
    BY NoCrossing, PTL
  <2>5. QED
    BY <2>1, <2>2, <2>3, <2>4
<1>3. QED
  BY <1>1, <1>2 DEF EInv, Bare

\* At the start nothing runs.
LEMMA InitHolds == EInit => EInv
<1> SUFFICES ASSUME EInit PROVE EInv
  OBVIOUS
<1> USE Actors DEF EInit, Init
<1>1. ETypeOK
  BY DEF ETypeOK, TypeOK, RunningState, LoopLabel, Call, EngineLabel, EngineCall
<1>2. Places /\ Waits /\ Threadless /\ QuietUnlessDropped /\ ThreadKeepsItsWord
  BY DEF Places, StartLabel, HaltLabel, Waits, Threadless, QuietUnlessDropped,
         QuietWhenPaused, ThreadKeepsItsWord
<1>3. IsStartTells
  BY DEF IsStartTells, Starting, InStart, Halted, HaltedQuietly
<1>4. ~Crossing
  BY DEF Crossing, InStart
<1>5. QED
  BY <1>1, <1>2, <1>3, <1>4 DEF EInv

----------------------------------------------------------------------------
(* Calls begin. *)

\* A call of the manager begins with its actor idle, so it disturbs only who is where.
LEMMA ManagerCallsStep ==
  ASSUME EInv, ManagerCalls, Remembers PROVE EInv'
<1> USE Actors DEF EInv, ManagerCalls, Begin, vars, engine, StartLabel,
        HaltLabel, EngineLabel, EngineCall, TypeOK
<1>1. TypeOK'
  BY DEF ETypeOK
<1>2. Bare'
  BY <1>1 DEF Bare, ETypeOK, Places, Waits, Threadless, QuietUnlessDropped,
         QuietWhenPaused, ThreadKeepsItsWord, Remembers
<1>3. ASSUME ~crossed, IsStartTells, Alone, Alone' PROVE IsStartTells'
  BY <1>3 DEF Alone, IsStartTells, Starting, InStart, Halted, HaltedQuietly,
         ETypeOK, Places, Waits, Threadless, QuietUnlessDropped,
         QuietWhenPaused
<1>4. QED
  BY <1>2, <1>3, Conclude

\* A writing client begins a Start only when isStart_ is false.
LEMMA TriggerStartIfNecessaryStep ==
  ASSUME EInv, TriggerStartIfNecessary, Remembers PROVE EInv'
<1> USE Actors DEF EInv, TriggerStartIfNecessary, Begin, vars, engine,
        StartLabel, HaltLabel, EngineLabel, EngineCall, TypeOK
<1>1. TypeOK'
  BY DEF ETypeOK
<1>2. Bare'
  BY <1>1 DEF Bare, ETypeOK, Places, Waits, Threadless, QuietUnlessDropped,
         QuietWhenPaused, ThreadKeepsItsWord, Remembers
<1>3. ASSUME ~crossed, IsStartTells, Alone, Alone' PROVE IsStartTells'
  BY <1>3 DEF Alone, IsStartTells, Starting, InStart, Halted, HaltedQuietly,
         ETypeOK, Places, Waits, Threadless, QuietUnlessDropped,
         QuietWhenPaused
<1>4. QED
  BY <1>2, <1>3, Conclude

----------------------------------------------------------------------------
(* Start. *)

\* StartSink makes a thread; two that do so at once have torn playbackThread_,
\* and then a call is under way for good.
LEMMA StartSinkStep ==
  ASSUME NEW c \in Caller, EInv, StartSink(c), Remembers PROVE EInv'
<1> USE Actors DEF EInv, StartSink, vars, engine, From, Goto, KeepsThread,
        StartLabel, HaltLabel, EngineLabel, EngineCall, TypeOK
<1>1. TypeOK'
  BY DEF ETypeOK
<1>2. thread \/ (torn' <=> torn \/ InStart(Other(c)) \/ at[Other(c)] = "join")
  BY Zenon DEF TouchesThread
<1>3. torn' \in BOOLEAN
  BY DEF ETypeOK, TouchesThread
<1>4. Threadless'
  BY <1>2, <1>3 DEF ETypeOK, Places, Waits, Threadless
<1>5. Bare'
  BY <1>1, <1>3, <1>4 DEF Bare, ETypeOK, Places, Waits, QuietUnlessDropped,
         QuietWhenPaused, ThreadKeepsItsWord, Remembers
<1>6. ASSUME ~crossed, IsStartTells, Alone, Alone' PROVE IsStartTells'
  BY <1>6 DEF Alone, IsStartTells, Starting, InStart, Halted, HaltedQuietly,
         ETypeOK, Places, Waits, Threadless, QuietUnlessDropped, QuietWhenPaused
<1>7. QED
  BY <1>5, <1>6, Conclude

\* A Start that finds no sink returns at once.
LEMMA StartWithoutSinkStep ==
  ASSUME NEW c \in Caller, EInv, StartWithoutSink(c), Remembers PROVE EInv'
<1> USE Actors DEF EInv, StartWithoutSink, vars, engine, From, Goto,
        StartLabel, HaltLabel, EngineLabel, EngineCall, TypeOK
<1>1. TypeOK'
  BY DEF ETypeOK
<1>2. Bare'
  BY <1>1 DEF Bare, ETypeOK, Places, Waits, Threadless, QuietUnlessDropped,
         QuietWhenPaused, ThreadKeepsItsWord, Remembers
<1>3. ASSUME ~crossed, IsStartTells, Alone, Alone' PROVE IsStartTells'
  BY <1>3 DEF Alone, IsStartTells, Starting, InStart, Halted, HaltedQuietly,
         ETypeOK, Places, Waits, Threadless, QuietUnlessDropped,
         QuietWhenPaused
<1>4. QED
  BY <1>2, <1>3, Conclude

\* isStart_ is set whether the sink started or not: what it tells is one-sided.
LEMMA MarkStartedStep ==
  ASSUME NEW c \in Caller, EInv, MarkStarted(c), Remembers PROVE EInv'
<1> USE Actors DEF EInv, MarkStarted, StartedAnyhow, vars, engine, From, Goto,
        StartLabel, HaltLabel, EngineLabel, EngineCall, TypeOK
<1>1. TypeOK'
  BY DEF ETypeOK
<1>2. Bare'
  BY <1>1 DEF Bare, ETypeOK, Places, Waits, Threadless, QuietUnlessDropped,
         QuietWhenPaused, ThreadKeepsItsWord, Remembers
<1>3. ASSUME ~crossed, IsStartTells, Alone, Alone' PROVE IsStartTells'
  BY <1>3 DEF Alone, IsStartTells, Starting, InStart, Halted, HaltedQuietly,
         ETypeOK, Places, Waits, Threadless, QuietUnlessDropped,
         QuietWhenPaused
<1>4. QED
  BY <1>2, <1>3, Conclude

\* Only DoStart makes the state STARTED: here, or after a wait for STOPPED.
LEMMA RunThreadStep ==
  ASSUME NEW c \in Caller, EInv, RunThread(c), Remembers PROVE EInv'
<1> USE Actors DEF EInv, RunThread, vars, engine, From, Goto, KeepsThread,
        StartLabel, HaltLabel, EngineLabel, EngineCall, TypeOK
<1> USE DEF Start, Enters, DoStart, Return, WaitFor, NotifyAll, LoopForStart
<1>1. TypeOK'
  BY DEF ETypeOK, Places, RunningState, LoopLabel, Call
<1>2. (loop # "job" => jobAt = "mix")'
  BY DEF ETypeOK, Places, Threadless, QuietUnlessDropped, QuietWhenPaused
<1>3. ETypeOK'
  BY <1>1, <1>2 DEF ETypeOK, Remembers
<1>4. Places'
  BY DEF ETypeOK, Places
<1>5. Waits'
  BY DEF ETypeOK, Places, Waits, TaskCall
<1>6. Threadless'
  BY DEF ETypeOK, Places, Waits, Threadless
<1>7. QuietUnlessDropped' /\ ThreadKeepsItsWord'
  BY DEF ETypeOK, Places, QuietUnlessDropped, QuietWhenPaused, ThreadKeepsItsWord
<1>8. ASSUME ~crossed, IsStartTells, Alone, Alone' PROVE IsStartTells'
  BY <1>8 DEF Alone, IsStartTells, Starting, InStart, Halted, HaltedQuietly,
         ETypeOK, Places, QuietUnlessDropped, QuietWhenPaused
<1>9. QED
  BY <1>3, <1>4, <1>5, <1>6, <1>7, <1>8, Conclude DEF Bare

----------------------------------------------------------------------------
(* The task's calls return, and a waiting caller looks again. *)

\* After a Pause has returned the job is not running; after a Stop it may be.
LEMMA TaskReturnsStep ==
  ASSUME NEW c \in Caller, EInv, TaskReturns(c), Remembers PROVE EInv'
<1> USE Actors DEF EInv, TaskReturns, vars, engine, From, Goto, StartLabel,
        HaltLabel, EngineLabel, EngineCall, TypeOK
<1>1. TypeOK'
  BY DEF ETypeOK
<1>2. Bare'
  BY <1>1 DEF Bare, ETypeOK, Places, Waits, Threadless, QuietUnlessDropped,
         QuietWhenPaused, ThreadKeepsItsWord, Remembers
<1>3. ASSUME ~crossed, IsStartTells, Alone, Alone' PROVE IsStartTells'
  BY <1>3 DEF Alone, IsStartTells, Starting, InStart, Halted, HaltedQuietly,
         ETypeOK, Places, Waits, Threadless, QuietUnlessDropped,
         QuietWhenPaused
<1>4. QED
  BY <1>2, <1>3, Conclude

\* A caller that is woken waits on, starts the thread, joins it, or has seen it
\* pause.
LEMMA TaskWakesStep ==
  ASSUME NEW c \in Caller, EInv, TaskWakes(c), Remembers PROVE EInv'
<1> USE Actors DEF EInv, TaskWakes, engine, Places, Waits, StartLabel, HaltLabel,
        EngineLabel, EngineCall, ETypeOK, TypeOK
<1>1. /\ pc[c] = "wait" /\ at[c] = "inTask" /\ op[c] = TaskCall(call[c])
      /\ op[c] \in {"Start", "Stop", "Pause"} /\ op' = op
      /\ UNCHANGED <<isStart, sink, thread, stream, device, at, call, jobAt, torn>>
      /\ ~torn
  BY DEF Wakes, TaskCall
<1> HIDE DEF TaskWakes
<1>2. CASE state \notin until[c]
  <2>1. /\ asleep' = asleep \cup {c}
        /\ UNCHANGED <<state, loop, pc, until>>
    BY <1>2 DEF TaskWakes, Wakes
  <2>2. Bare'
    BY <1>1, <2>1 DEF Bare, Threadless, QuietUnlessDropped,
           QuietWhenPaused, ThreadKeepsItsWord, Remembers
  <2>3. ASSUME ~crossed, IsStartTells PROVE IsStartTells'
    BY <1>1, <2>1, <2>3 DEF IsStartTells, Starting, InStart, Halted, HaltedQuietly
  <2>4. QED
    BY <2>2, <2>3, Conclude
<1>3. CASE state \in until[c] /\ op[c] = "Start"
  <2>1. DoStart(c) /\ state = "STOPPED"
    BY <1>1, <1>3 DEF TaskWakes, Wakes
  <2>2. TypeOK'
    BY <1>1, <2>1 DEF DoStart, LoopForStart, NotifyAll, Return, RunningState, LoopLabel
  <2>3. Bare'
    BY <1>1, <2>1, <2>2 DEF Bare, DoStart, LoopForStart, Return, NotifyAll, Threadless,
           QuietUnlessDropped, QuietWhenPaused, ThreadKeepsItsWord, Remembers
  <2>4. ASSUME ~crossed, IsStartTells, Alone PROVE IsStartTells'
    BY <1>1, <1>3, <2>1, <2>4 DEF DoStart, LoopForStart, Return, TaskCall, Alone,
           IsStartTells, Starting, InStart, Halted, HaltedQuietly
  <2>5. QED
    BY <2>3, <2>4, Conclude
<1>4. CASE state \in until[c] /\ op[c] = "Stop"
  <2>1. Return(c) /\ loop' = "none" /\ UNCHANGED <<state, asleep>>
        /\ state = "STOPPED"
    BY <1>1, <1>4 DEF TaskWakes, Wakes
  <2>2. c = Manager
    BY <1>1, <1>4 DEF TaskCall
  <2>3. loop # "job" /\ jobAt = "mix"
    BY <1>1, <2>1, <2>2 DEF QuietUnlessDropped, QuietWhenPaused
  <2>4. TypeOK'
    BY <1>1, <2>1, <2>2, <1>4 DEF Wakes, TaskWakes, Return, LoopLabel
  <2>5. Bare'
    BY <1>1, <2>1, <2>2, <2>3, <2>4 DEF Bare, Return, Threadless,
           QuietUnlessDropped, QuietWhenPaused, ThreadKeepsItsWord, Remembers
  <2>6. ASSUME ~crossed, IsStartTells PROVE IsStartTells'
    BY <1>1, <2>1, <2>3, <2>6 DEF Return, IsStartTells, Starting, InStart, Halted, HaltedQuietly
  <2>7. QED
    BY <2>5, <2>6, Conclude
<1>5. CASE state \in until[c] /\ op[c] = "Pause"
  <2>1. Return(c) /\ UNCHANGED <<state, loop, asleep>> /\ state \in {"PAUSED", "STOPPED"}
    BY <1>1, <1>5 DEF TaskWakes, Wakes
  <2>2. TypeOK'
    BY <1>1, <2>1, <1>5 DEF Wakes, TaskWakes, Return
  <2>3. Bare'
    BY <1>1, <2>1, <2>2 DEF Bare, Return, Threadless,
           QuietUnlessDropped, QuietWhenPaused, ThreadKeepsItsWord, Remembers
  <2>4. ASSUME ~crossed, IsStartTells PROVE IsStartTells'
    BY <1>1, <2>1, <2>4 DEF Return, IsStartTells, Starting, InStart, Halted,
           HaltedQuietly, QuietUnlessDropped, QuietWhenPaused
  <2>5. QED
    BY <2>3, <2>4, Conclude
<1>6. QED
  BY <1>1, <1>2, <1>3, <1>4, <1>5

----------------------------------------------------------------------------
(* Pause, Stop and Release. *)

\* The early return of Stop and Pause changes nothing but the place.
LEMMA HaltIfStartedStep ==
  ASSUME EInv, HaltIfStarted, Remembers PROVE EInv'
<1> USE Actors DEF EInv, HaltIfStarted, vars, engine, From, Goto, StartLabel,
        HaltLabel, EngineLabel, EngineCall, TypeOK
<1>1. TypeOK'
  BY DEF ETypeOK
<1>2. Bare'
  BY <1>1 DEF Bare, ETypeOK, Places, Waits, Threadless, QuietUnlessDropped,
         QuietWhenPaused, ThreadKeepsItsWord, Remembers
<1>3. ASSUME ~crossed, IsStartTells, Alone, Alone' PROVE IsStartTells'
  BY <1>3 DEF Alone, IsStartTells, Starting, InStart, Halted, HaltedQuietly,
         ETypeOK, Places, Waits, Threadless, QuietUnlessDropped,
         QuietWhenPaused
<1>4. QED
  BY <1>2, <1>3, Conclude

\* Pause and Stop leave STARTED for good, as no Start is under way.
LEMMA HaltThreadStep ==
  ASSUME EInv, HaltThread, Remembers PROVE EInv'
<1> USE Actors DEF EInv, HaltThread, Pause, Stop, Enters, Return, WaitFor,
        PauseAwaits, TaskCall, vars, engine, From, Goto, StartLabel,
        HaltLabel, EngineLabel, EngineCall, TypeOK
<1>1. TypeOK'
  BY DEF ETypeOK, Places, RunningState, Call
<1>2. Bare'
  BY <1>1 DEF Bare, ETypeOK, Places, Waits, Threadless, QuietUnlessDropped,
         QuietWhenPaused, ThreadKeepsItsWord, Remembers
<1>3. ASSUME ~crossed, IsStartTells, Alone, Alone' PROVE IsStartTells'
  BY <1>3 DEF Alone, IsStartTells, Starting, InStart, Halted, HaltedQuietly,
         ETypeOK, Places, Waits, Threadless, QuietUnlessDropped,
         QuietWhenPaused, RunningState, Call
<1>4. QED
  BY <1>2, <1>3, Conclude

\* The destructor: the state is STOPPED though the job may be running, and
\* the thread is torn if a Start is under way.
LEMMA DropThreadStep ==
  ASSUME EInv, DropThread, Remembers PROVE EInv'
<1> USE Actors DEF EInv, DropThread, NotifyAll, caller, From, Goto,
        StartLabel, HaltLabel, EngineLabel, EngineCall, TypeOK
<1>1. TypeOK'
  BY DEF ETypeOK, Places, Waits, RunningState
<1>2. (torn' <=> InStart(Trigger) \/ at[Trigger] = "join") /\ torn' \in BOOLEAN
  BY Zenon DEF TouchesThread
<1>3. Threadless'
  BY <1>2 DEF ETypeOK, Places, Threadless, InStart
<1>4. ETypeOK'
  BY <1>1, <1>2 DEF ETypeOK, Remembers
<1>5. Places' /\ Waits'
  BY DEF ETypeOK, Places, Waits
<1>6. QuietUnlessDropped' /\ ThreadKeepsItsWord'
  BY DEF ETypeOK, QuietUnlessDropped, ThreadKeepsItsWord
<1>7. ASSUME ~crossed, IsStartTells, Alone, Alone' PROVE IsStartTells'
  BY <1>7 DEF Alone, IsStartTells, Starting, InStart, Halted, HaltedQuietly, ETypeOK, Places
<1>8. QED
  BY <1>3, <1>4, <1>5, <1>6, <1>7, Conclude DEF Bare

\* After the join there is no thread, so no job.
LEMMA JoinThreadStep ==
  ASSUME EInv, JoinThread, Remembers PROVE EInv'
<1> USE Actors DEF EInv, JoinThread, caller, vars, engine, From, Goto,
        StartLabel, HaltLabel, EngineLabel, EngineCall, TypeOK
<1>1. TypeOK'
  BY DEF ETypeOK, LoopLabel
<1>2. Bare'
  BY <1>1 DEF Bare, ETypeOK, Places, Waits, Threadless, QuietUnlessDropped,
         QuietWhenPaused, ThreadKeepsItsWord, Remembers
<1>3. ASSUME ~crossed, IsStartTells, Alone, Alone' PROVE IsStartTells'
  BY <1>3 DEF Alone, IsStartTells, Starting, InStart, Halted, HaltedQuietly,
         ETypeOK, Places, Waits, Threadless, QuietUnlessDropped,
         QuietWhenPaused
<1>4. QED
  BY <1>2, <1>3, Conclude

\* The sink is stopped once the job is not running.
LEMMA StopAudioSinkStep ==
  ASSUME EInv, StopAudioSink, Remembers PROVE EInv'
<1> USE Actors DEF EInv, StopAudioSink, SinkAfterStop, vars, engine, From,
        Goto, StartLabel, HaltLabel, EngineLabel, EngineCall, TypeOK
<1>1. TypeOK'
  BY DEF ETypeOK
<1>2. Bare'
  BY <1>1 DEF Bare, ETypeOK, Places, Waits, Threadless, QuietUnlessDropped,
         QuietWhenPaused, ThreadKeepsItsWord, Remembers
<1>3. ASSUME ~crossed, IsStartTells, Alone, Alone' PROVE IsStartTells'
  BY <1>3 DEF Alone, IsStartTells, Starting, InStart, Halted, HaltedQuietly,
         ETypeOK, Places, Waits, Threadless, QuietUnlessDropped,
         QuietWhenPaused
<1>4. QED
  BY <1>2, <1>3, Conclude

\* isStart_ is cleared after the sink has stopped and the thread is halted.
LEMMA MarkStoppedStep ==
  ASSUME EInv, MarkStopped, Remembers PROVE EInv'
<1> USE Actors DEF EInv, MarkStopped, vars, engine, From, Goto, 
        StartLabel, HaltLabel, EngineLabel, EngineCall, TypeOK
<1>1. ETypeOK'
  BY DEF ETypeOK, Remembers
<1>2. Places' /\ Waits'
  BY DEF ETypeOK, Places, Waits
<1>3. Threadless'
  BY DEF ETypeOK, Places, Threadless
<1>4. QuietUnlessDropped' /\ ThreadKeepsItsWord'
  BY DEF ETypeOK, QuietUnlessDropped, QuietWhenPaused, ThreadKeepsItsWord
<1>5. ASSUME ~crossed, IsStartTells, Alone, Alone' PROVE IsStartTells'
  BY <1>5 DEF Alone, IsStartTells, Starting, InStart, Halted, HaltedQuietly,
         ETypeOK, Places
<1>6. QED
  BY <1>1, <1>2, <1>3, <1>4, <1>5, Conclude DEF Bare

\* RemoveRenderer goes round again if the engine was started meanwhile.
LEMMA RemoveRendererStep ==
  ASSUME EInv, RemoveRenderer, Remembers PROVE EInv'
<1> USE Actors DEF EInv, RemoveRenderer, vars, engine, From, Goto, 
        StartLabel, HaltLabel, EngineLabel, EngineCall, TypeOK
<1>1. ETypeOK'
  BY DEF ETypeOK, Remembers
<1>2. Places' /\ Waits'
  BY DEF ETypeOK, Places, Waits
<1>3. Threadless'
  BY DEF ETypeOK, Places, Threadless
<1>4. QuietUnlessDropped' /\ ThreadKeepsItsWord'
  BY DEF ETypeOK, QuietUnlessDropped, QuietWhenPaused, ThreadKeepsItsWord
<1>5. ASSUME ~crossed, IsStartTells, Alone, Alone' PROVE IsStartTells'
  BY <1>5 DEF Alone, IsStartTells, Starting, InStart, Halted, HaltedQuietly,
         ETypeOK, Places
<1>6. QED
  BY <1>1, <1>2, <1>3, <1>4, <1>5, Conclude DEF Bare

----------------------------------------------------------------------------
(* The sink is given up or replaced, and the thread runs. *)

\* A sink that is given up or initialised again is not started.
LEMMA CreateRenderStep ==
  ASSUME NEW d \in Device, EInv, CreateRender(d), Remembers PROVE EInv'
<1> USE Actors DEF EInv, CreateRender, SinkAfterInit, vars, engine,
        StartLabel, HaltLabel, EngineLabel, EngineCall, TypeOK
<1>1. TypeOK'
  BY DEF ETypeOK
<1>2. Bare'
  BY <1>1 DEF Bare, ETypeOK, Places, Waits, Threadless, QuietUnlessDropped,
         QuietWhenPaused, ThreadKeepsItsWord, Remembers
<1>3. ASSUME ~crossed, IsStartTells, Alone, Alone' PROVE IsStartTells'
  BY <1>3 DEF Alone, IsStartTells, Starting, InStart, Halted, HaltedQuietly,
         ETypeOK, Places, Waits, Threadless, QuietUnlessDropped,
         QuietWhenPaused
<1>4. QED
  BY <1>2, <1>3, Conclude

\* The job ends and leaves the state alone.
LEMMA MixStreamsStep ==
  ASSUME EInv, MixStreams, Remembers PROVE EInv'
<1> USE Actors DEF EInv, MixStreams, JobEnds, caller, vars, engine,
        StartLabel, HaltLabel, EngineLabel, EngineCall, TypeOK
<1>1. TypeOK'
  BY DEF ETypeOK, LoopLabel
<1>2. Bare'
  BY <1>1 DEF Bare, ETypeOK, Places, Waits, Threadless, QuietUnlessDropped,
         QuietWhenPaused, ThreadKeepsItsWord, Remembers
<1>3. ASSUME ~crossed, IsStartTells, Alone, Alone' PROVE IsStartTells'
  BY <1>3 DEF Alone, IsStartTells, Starting, InStart, Halted, HaltedQuietly,
         ETypeOK, Places, Waits, Threadless, QuietUnlessDropped,
         QuietWhenPaused
<1>4. QED
  BY <1>2, <1>3, Conclude

\* PauseAsync moves STARTED to PAUSING from inside the job.
LEMMA PauseThreadStep ==
  ASSUME EInv, PauseThread, Remembers PROVE EInv'
<1> USE Actors DEF EInv, PauseThread, JobPauses, Pausing, caller, JobTo, vars,
        engine, StartLabel, HaltLabel, EngineLabel, EngineCall, TypeOK
<1>1. TypeOK'
  BY DEF ETypeOK, RunningState
<1>2. Bare'
  BY <1>1 DEF Bare, ETypeOK, Places, Waits, Threadless, QuietUnlessDropped,
         QuietWhenPaused, ThreadKeepsItsWord, Remembers
<1>3. ASSUME ~crossed, IsStartTells, Alone, Alone' PROVE IsStartTells'
  BY <1>3 DEF Alone, IsStartTells, Starting, InStart, Halted, HaltedQuietly,
         ETypeOK, Places, Waits, Threadless, QuietUnlessDropped,
         QuietWhenPaused
<1>4. QED
  BY <1>2, <1>3, Conclude

\* The job stops the sink itself.
LEMMA PauseSinkStep ==
  ASSUME EInv, PauseSink, Remembers PROVE EInv'
<1> USE Actors DEF EInv, PauseSink, SinkAfterStop, JobTo, vars, engine,
        StartLabel, HaltLabel, EngineLabel, EngineCall, TypeOK
<1>1. TypeOK'
  BY DEF ETypeOK
<1>2. Bare'
  BY <1>1 DEF Bare, ETypeOK, Places, Waits, Threadless, QuietUnlessDropped,
         QuietWhenPaused, ThreadKeepsItsWord, Remembers
<1>3. ASSUME ~crossed, IsStartTells, Alone, Alone' PROVE IsStartTells'
  BY <1>3 DEF Alone, IsStartTells, Starting, InStart, Halted, HaltedQuietly,
         ETypeOK, Places, Waits, Threadless, QuietUnlessDropped,
         QuietWhenPaused
<1>4. QED
  BY <1>2, <1>3, Conclude

\* isStart_ is cleared after the sink has stopped, as the job ends.
LEMMA PauseMarkStep ==
  ASSUME EInv, PauseMark, Remembers PROVE EInv'
<1> USE Actors DEF EInv, PauseMark, JobEnds, JobTo, caller, vars, engine,
        StartLabel, HaltLabel, EngineLabel, EngineCall, TypeOK
<1>1. TypeOK'
  BY DEF ETypeOK, LoopLabel
<1>2. Bare'
  BY <1>1 DEF Bare, ETypeOK, Places, Waits, Threadless, QuietUnlessDropped,
         QuietWhenPaused, ThreadKeepsItsWord, Remembers
<1>3. ASSUME ~crossed, IsStartTells, Alone, Alone' PROVE IsStartTells'
  BY <1>3 DEF Alone, IsStartTells, Starting, InStart, Halted, HaltedQuietly,
         ETypeOK, Places, Waits, Threadless, QuietUnlessDropped,
         QuietWhenPaused
<1>4. QED
  BY <1>2, <1>3, Conclude

\* The thread's own steps never make the state STARTED, and run the job only in it.
LEMMA TaskStepStep ==
  ASSUME EInv, TaskStep, Remembers PROVE EInv'
<1> USE Actors DEF EInv, TaskStep, LoopTest, LoopLock, LoopResume, LoopExit,
        StopsIn, NotifyAll, caller, engine, StartLabel, HaltLabel,
        EngineLabel, EngineCall, TypeOK
<1>1. TypeOK'
  BY DEF ETypeOK, RunningState, LoopLabel
<1>2. Bare'
  BY <1>1 DEF Bare, ETypeOK, Places, Waits, Threadless, QuietUnlessDropped,
         QuietWhenPaused, ThreadKeepsItsWord, Remembers
<1>3. ASSUME ~crossed, IsStartTells, Alone, Alone' PROVE IsStartTells'
  BY <1>3 DEF Alone, IsStartTells, Starting, InStart, Halted, HaltedQuietly,
         ETypeOK, Places, Waits, Threadless, QuietUnlessDropped,
         QuietWhenPaused
<1>4. QED
  BY <1>2, <1>3, Conclude

----------------------------------------------------------------------------
(* The invariant holds. *)

\* A step of somebody else leaves the invariant alone.
LEMMA StutterHolds ==
  ASSUME EInv, UNCHANGED <<vars, evars>> PROVE EInv'
<1>1. EInv' <=> EInv
  BY DEF EInv, ETypeOK, TypeOK, Places, Waits, Threadless, QuietUnlessDropped,
     QuietWhenPaused, ThreadKeepsItsWord, Crossing, Busy, IsStartTells, Starting,
     InStart, Halted, HaltedQuietly, vars, evars, engine
<1>2. QED
  BY <1>1

\* Every step keeps the invariant: one case per action.
LEMMA NextHolds == EInv /\ [ENext]_<<vars, evars>> => EInv'
<1> SUFFICES ASSUME EInv, [ENext]_<<vars, evars>> PROVE EInv'
  OBVIOUS
<1>1. CASE ENext
  <2>1. EngineNext /\ Remembers
    BY <1>1 DEF ENext, Remembers
  <2>2. CASE ManagerCalls \/ TriggerStartIfNecessary
    BY <2>1, <2>2, ManagerCallsStep, TriggerStartIfNecessaryStep
  <2>3. ASSUME NEW c \in Caller, StartNext(c) PROVE EInv'
    BY <2>1, <2>3, StartSinkStep, StartWithoutSinkStep, MarkStartedStep,
       RunThreadStep, TaskReturnsStep, TaskWakesStep DEF StartNext
  <2>4. CASE HaltNext
    BY <2>1, <2>4, HaltIfStartedStep, HaltThreadStep, DropThreadStep, JoinThreadStep,
       StopAudioSinkStep, MarkStoppedStep, RemoveRendererStep DEF HaltNext
  <2>5. ASSUME NEW d \in Device, CreateRender(d) PROVE EInv'
    BY <2>1, <2>5, CreateRenderStep
  <2>6. CASE ThreadNext
    BY <2>1, <2>6, MixStreamsStep, PauseThreadStep, PauseSinkStep, PauseMarkStep,
       TaskStepStep DEF ThreadNext
  <2>7. QED
    BY <2>1, <2>2, <2>3, <2>4, <2>5, <2>6 DEF EngineNext
<1>2. CASE UNCHANGED <<vars, evars>>
  BY <1>2, StutterHolds
<1>3. QED
  BY <1>1, <1>2

\* In every state of the engine the actors are where their calls put them, the
\* thread keeps its word, and, until a Start crosses another call, isStart_ tells
\* the truth.
THEOREM EngineInvariant == ESpec => []EInv
BY InitHolds, NextHolds, PTL DEF ESpec

----------------------------------------------------------------------------
(* What follows from it. *)

\* Every variable of the engine, of its task and of its callers keeps its type.
THEOREM EngineTypeCorrect == ESpec => []ETypeOK
<1>1. EInv => ETypeOK
  BY DEF EInv
<1>2. QED
  BY <1>1, EngineInvariant, PTL

\* While the task says PAUSED or STOPPED the job does not run, except from the
\* destructor's first step to its join.
THEOREM QuietUnlessJoining == ESpec => []QuietUnlessDropped
<1>1. EInv => QuietUnlessDropped
  BY DEF EInv
<1>2. QED
  BY <1>1, EngineInvariant, PTL

\* Inside the engine too, a state that promises a change has the thread that is to
\* make it, though the engine drops and makes threads as it goes.
THEOREM EngineKeepsTheTasksWord == ESpec => []ThreadKeepsItsWord
<1>1. EInv => ThreadKeepsItsWord
  BY DEF EInv
<1>2. QED
  BY <1>1, EngineInvariant, PTL

\* With no call under way and isStart_ false, neither the sink nor the thread of
\* the engine runs, unless a Start once crossed another call: Stop may return early.
THEOREM StoppedEngineIsStopped == ESpec => []StoppedMeansStopped
<1>1. EInv => StoppedMeansStopped
  BY DEF EInv, StoppedMeansStopped, IsStartTells, Starting, InStart
<1>2. QED
  BY <1>1, EngineInvariant, PTL

\* Release takes the stream away only when the job is not running, unless a Start
\* once crossed another call or PauseAsync.
THEOREM ReleaseWaitsForTheJob == ESpec => RemovedStreamIsUnused
<1> DEFINE Unused == stream /\ ~stream' /\ ~crossed => loop # "job"
<1>1. ASSUME EInv, [ENext]_<<vars, evars>>, stream, ~stream', ~crossed
      PROVE  loop # "job"
  <2>1. IsStartTells /\ ~Crossing
    BY <1>1 DEF EInv
  <2>2. Alone
    BY <2>1, NoCrossing
  <2>3. RemoveRenderer
    BY <1>1 DEF ENext, EngineNext, ManagerCalls, TriggerStartIfNecessary, Begin,
       StartNext, StartSink, StartWithoutSink, MarkStarted, RunThread, TaskReturns,
       TaskWakes, HaltNext, HaltIfStarted, HaltThread, DropThread, JoinThread,
       StopAudioSink, MarkStopped, CreateRender, ThreadNext, MixStreams, PauseThread,
       PauseSink, PauseMark, TaskStep, engine, evars
  <2>4. at[Manager] = "remove" /\ ~isStart
    BY <1>1, <2>3 DEF RemoveRenderer, From
  <2>5. \A c \in Caller : ~Starting(c)
    BY <1>1, <2>2, <2>4, Actors DEF EInv, Places, HaltLabel, Alone, Starting, InStart
  <2>6. QED
    BY <2>1, <2>4, <2>5 DEF IsStartTells
<1>2. EInv /\ [ENext]_<<vars, evars>> => [Unused]_<<vars, evars>>
  BY <1>1
<1>3. QED
  BY <1>2, EngineInvariant, PTL DEF ESpec, RemovedStreamIsUnused

----------------------------------------------------------------------------
(* The task by itself, whoever calls it: Spec is the task without the       *)
(* engine.  Nothing from here on rests on ActorAssumption, so the theorems  *)
(* hold for any number of callers.                                          *)

\* Only three calls wait.  A caller in Stop waits for STOPPED and nothing else,
\* so the thread it joins has left its loop.
StopWaits ==
  \A c \in Caller : pc[c] = "wait" =>
    /\ op[c] \in {"Start", "Stop", "Pause"}
    /\ op[c] = "Stop" => until[c] = {"STOPPED"}

TaskInv == TypeOK /\ StopWaits /\ QuietWhenPaused /\ ThreadKeepsItsWord

LEMMA TaskInitHolds == Init => TaskInv
BY DEF Init, TaskInv, TypeOK, StopWaits, QuietWhenPaused, ThreadKeepsItsWord,
       RunningState, LoopLabel, Call

\* The second half of Start keeps the invariant, for a caller that enters and
\* for one that has waited.
LEMMA DoStartStep ==
  ASSUME TaskInv, NEW c \in Caller, DoStart(c), op' = [op EXCEPT ![c] = "Start"]
  PROVE  TaskInv'
BY DEF TaskInv, TypeOK, StopWaits, QuietWhenPaused, ThreadKeepsItsWord, RunningState,
       LoopLabel, Call, DoStart, LoopForStart, NotifyAll, Return

LEMMA TaskCallerStep == ASSUME TaskInv, NEW c \in Caller, CallerNext(c) PROVE TaskInv'
<1> USE DEF TaskInv, TypeOK, StopWaits, QuietWhenPaused, ThreadKeepsItsWord,
            RunningState, LoopLabel, Call, Enters
<1>1. CASE Start(c)
  <2>1. CASE state = "STOPPING"
    BY <1>1, <2>1 DEF Start, WaitFor
  <2>2. CASE state # "STOPPING"
    BY <1>1, <2>2, DoStartStep DEF Start
  <2> QED BY <2>1, <2>2
<1>2. CASE Stop(c)
  <2>1. CASE state = "STOPPED"
    BY <1>2, <2>1 DEF Stop, Return
  <2>2. CASE state # "STOPPED"
    BY <1>2, <2>2 DEF Stop, WaitFor
  <2> QED BY <2>1, <2>2
<1>3. CASE StopAsync(c)
  BY <1>3 DEF StopAsync, NotifyAll, Return
<1>4. CASE Pause(c)
  <2>1. CASE state \in DOMAIN PauseAwaits
    BY <1>4, <2>1 DEF Pause, WaitFor, PauseAwaits
  <2>2. CASE state \notin DOMAIN PauseAwaits
    BY <1>4, <2>2 DEF Pause, Return
  <2> QED BY <2>1, <2>2
<1>5. CASE PauseAsync(c)
  BY <1>5 DEF PauseAsync, Pausing, Return
<1>6. CASE Wakes(c)
  <2>1. CASE state \notin until[c]
    BY <1>6, <2>1 DEF Wakes
  <2>2. CASE state \in until[c] /\ op[c] = "Start"
    <3>1. DoStart(c) /\ op' = op
      BY <1>6, <2>2 DEF Wakes
    <3> QED BY <3>1, <2>2, DoStartStep
  <2>3. CASE state \in until[c] /\ op[c] = "Stop"
    BY <1>6, <2>3 DEF Wakes, Return
  <2>4. CASE state \in until[c] /\ op[c] = "Pause"
    BY <1>6, <2>4 DEF Wakes, Return
  <2>5. op[c] \in {"Start", "Stop", "Pause"}
    BY <1>6 DEF Wakes
  <2> QED BY <2>1, <2>2, <2>3, <2>4, <2>5
<1> QED BY <1>1, <1>2, <1>3, <1>4, <1>5, <1>6 DEF CallerNext

\* The job is entered in STARTED and while it runs nobody but the thread itself
\* says PAUSED or STOPPED.
LEMMA TaskLoopStep == ASSUME TaskInv, LoopNext PROVE TaskInv'
<1> USE DEF TaskInv, TypeOK, StopWaits, QuietWhenPaused, ThreadKeepsItsWord,
            RunningState, LoopLabel, Call, caller
<1>1. CASE LoopTest
  BY <1>1 DEF LoopTest
<1>2. CASE Job
  BY <1>2 DEF Job, JobPauses, JobEnds, Pausing
<1>3. CASE LoopLock
  BY <1>3 DEF LoopLock, LoopExit, StopsIn, NotifyAll
<1>4. CASE LoopResume
  BY <1>4 DEF LoopResume, LoopExit, StopsIn, NotifyAll
<1> QED BY <1>1, <1>2, <1>3, <1>4 DEF LoopNext

\* The strengthening is kept by every step.
THEOREM TaskInvariant == Spec => []TaskInv
<1>1. TaskInv /\ UNCHANGED vars => TaskInv'
  BY DEF TaskInv, TypeOK, StopWaits, QuietWhenPaused, ThreadKeepsItsWord, vars
<1>2. TaskInv /\ [Next]_vars => TaskInv'
  BY <1>1, TaskCallerStep, TaskLoopStep DEF Next
<1> QED BY <1>2, TaskInitHolds, PTL DEF Spec

\* Every variable of the task keeps its type, however many threads call.
THEOREM TaskTypeCorrect == Spec => []TypeOK
<1>1. TaskInv => TypeOK
  BY DEF TaskInv
<1> QED BY <1>1, TaskInvariant, PTL

\* While the task says PAUSED or STOPPED its job does not run.
THEOREM PausedIsQuiet == Spec => []QuietWhenPaused
<1>1. TaskInv => QuietWhenPaused
  BY DEF TaskInv
<1> QED BY <1>1, TaskInvariant, PTL

\* A state that promises a change has a thread that will make it.
THEOREM WordIsKept == Spec => []ThreadKeepsItsWord
<1>1. TaskInv => ThreadKeepsItsWord
  BY DEF TaskInv
<1> QED BY <1>1, TaskInvariant, PTL

=============================================================================
