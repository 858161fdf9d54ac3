-------------------------- MODULE AudioThreadTask --------------------------
(***************************************************************************)
(* AudioThreadTask (audio_thread_task.cpp): a thread that runs a job again *)
(* and again and that other threads start, pause and stop.  NoneMixEngine  *)
(* drives its playback thread with it; the job, MixStreams, pauses its own *)
(* thread when the stream has had no data for a while.                     *)
(*                                                                         *)
(* state_ is written under stateMutex_ only (the destructor, which runs    *)
(* after Stop, apart), so a critical section up to cond_.wait is one step; *)
(* RunJob tests state_ outside the mutex before it runs the job.           *)
(***************************************************************************)
CONSTANT Caller  \* threads that call Start, Stop, Pause, ...

VARIABLES
  state,   \* state_
  loop,    \* where the thread in loop_ is, "none" if there is no thread
  pc, op,  \* where each caller is, and in which call
  until,   \* the states its cond_.wait is for
  asleep   \* callers that have not been notified since they waited

vars == <<state, loop, pc, op, until, asleep>>

RunningState == {"STARTED", "PAUSING", "PAUSED", "STOPPING", "STOPPED"}
LoopLabel    == {"none", "test", "job", "lock", "paused", "exited"}
Call         == {"Start", "Stop", "StopAsync", "Pause", "PauseAsync"}

Init ==
  /\ state = "STOPPED" /\ loop = "none"
  /\ pc = [c \in Caller |-> "idle"] /\ op = [c \in Caller |-> "Stop"]
  /\ until = [c \in Caller |-> {}]
  /\ asleep = {}

----------------------------------------------------------------------------
\* cond_.notify_all.
NotifyAll == asleep' = {}

Enters(c, call) == pc[c] = "idle" /\ op' = [op EXCEPT ![c] = call]

\* cond_.wait(lock, [] { return state_ is one of states; }).
WaitFor(c, states) ==
  /\ pc' = [pc EXCEPT ![c] = "wait"]
  /\ until' = [until EXCEPT ![c] = states]

Return(c) == pc' = [pc EXCEPT ![c] = "idle"] /\ UNCHANGED until

\* The thread Start leaves in loop_: one that has stopped is joined and a new
\* one takes its place.
LoopIfNone == IF loop = "none" THEN "test" ELSE loop
LoopForStart == IF state = "STOPPED" \/ loop = "none" THEN "test" ELSE loop

\* The second half of Start.
DoStart(c) ==
  /\ loop' = LoopForStart
  /\ state' = "STARTED"
  /\ NotifyAll
  /\ Return(c)

Start(c) ==
  /\ Enters(c, "Start")
  /\ IF state = "STOPPING"
       THEN WaitFor(c, {"STOPPED"}) /\ asleep' = asleep \cup {c}
            /\ UNCHANGED <<state, loop>>
       ELSE DoStart(c)

Stop(c) ==
  /\ Enters(c, "Stop")
  /\ IF state = "STOPPED"
       THEN Return(c) /\ UNCHANGED <<state, asleep>>
       ELSE /\ state' = "STOPPING" /\ asleep' = {c}
            /\ WaitFor(c, {"STOPPED"})
  /\ UNCHANGED loop

StopAsync(c) ==
  /\ Enters(c, "StopAsync")
  /\ IF state \in {"STOPPING", "STOPPED"}
       THEN UNCHANGED <<state, asleep>>
       ELSE state' = "STOPPING" /\ NotifyAll
  /\ Return(c)
  /\ UNCHANGED loop

\* What Pause waits for, in each state in which it waits.
PauseAwaitsStop == [STARTED  |-> {"PAUSED", "STOPPED"},
                    STOPPING |-> {"STOPPED"},
                    PAUSING  |-> {"STOPPED"}]
PauseAwaits == [STARTED  |-> {"PAUSED", "STOPPED"},
                STOPPING |-> {"STOPPED"},
                PAUSING  |-> {"PAUSED"}]

Pause(c) ==
  /\ Enters(c, "Pause")
  /\ state' = IF state = "STARTED" THEN "PAUSING" ELSE state
  /\ IF state \in DOMAIN PauseAwaits
       THEN WaitFor(c, PauseAwaits[state]) /\ asleep' = asleep \cup {c}
       ELSE Return(c) /\ asleep' = asleep
  /\ UNCHANGED loop

\* The state PauseAsync leaves behind; nobody is notified.
PausedAtOnce == IF state = "STARTED" THEN "PAUSED" ELSE state
Pausing == IF state = "STARTED" THEN "PAUSING" ELSE state

PauseAsync(c) ==
  /\ Enters(c, "PauseAsync")
  /\ state' = Pausing
  /\ Return(c)
  /\ UNCHANGED <<loop, asleep>>

\* A notified caller looks again; Stop joins the thread.
Wakes(c) ==
  /\ pc[c] = "wait" /\ c \notin asleep
  /\ op' = op
  /\ IF state \notin until[c]
       THEN asleep' = asleep \cup {c} /\ UNCHANGED <<state, loop, pc, until>>
       ELSE CASE op[c] = "Start" -> DoStart(c)
              [] op[c] = "Stop"  -> /\ Return(c) /\ loop' = "none"
                                    /\ UNCHANGED <<state, asleep>>
              [] op[c] = "Pause" -> Return(c) /\ UNCHANGED <<state, loop, asleep>>

----------------------------------------------------------------------------
(* RunJob. *)

caller == <<pc, op, until>>

LoopTest ==
  /\ loop = "test"
  /\ loop' = IF state = "STARTED" THEN "job" ELSE "lock"
  /\ UNCHANGED <<state, asleep, caller>>

\* The job may call PauseAsync, never StopAsync; then it ends.
JobPauses ==
  /\ loop = "job"
  /\ state' = Pausing
  /\ UNCHANGED <<loop, asleep, caller>>

JobEnds ==
  /\ loop = "job"
  /\ loop' = "lock"
  /\ UNCHANGED <<state, asleep, caller>>

Job == JobPauses \/ JobEnds

\* The states in which the thread stops.
StopsIn == {"STOPPING", "STOPPED"}

LoopExit ==
  /\ state' = "STOPPED" /\ loop' = "exited"
  /\ NotifyAll

LoopLock ==
  /\ loop = "lock"
  /\ \/ /\ state \in {"PAUSING", "PAUSED"}
        /\ state' = "PAUSED" /\ loop' = "paused" /\ NotifyAll
     \/ state \in StopsIn /\ LoopExit
     \/ /\ state = "STARTED"
        /\ loop' = "test" /\ UNCHANGED <<state, asleep>>
  /\ UNCHANGED caller

\* wait_for ends, after TIME_OUT_MS or because the state is not PAUSED.
LoopResume ==
  /\ loop = "paused"
  /\ IF state \in StopsIn
       THEN LoopExit
       ELSE loop' = "test" /\ UNCHANGED <<state, asleep>>
  /\ UNCHANGED caller

----------------------------------------------------------------------------
CallerNext(c) ==
  Start(c) \/ Stop(c) \/ StopAsync(c) \/ Pause(c) \/ PauseAsync(c) \/ Wakes(c)

LoopNext == LoopTest \/ Job \/ LoopLock \/ LoopResume

Next == (\E c \in Caller : CallerNext(c)) \/ LoopNext

Spec == Init /\ [][Next]_vars

----------------------------------------------------------------------------
TypeOK ==
  /\ state \in RunningState /\ loop \in LoopLabel
  /\ pc \in [Caller -> {"idle", "wait"}] /\ op \in [Caller -> Call]
  /\ until \in [Caller -> SUBSET RunningState]
  /\ asleep \subseteq {c \in Caller : pc[c] = "wait"}

\* While the task says PAUSED or STOPPED the job is not running, so the
\* sink and the stream it works on may be taken away.
QuietWhenPaused == state \in {"PAUSED", "STOPPED"} => loop # "job"

\* A state that promises a change is never left without the thread that is
\* to make it.
ThreadKeepsItsWord == state # "STOPPED" => loop \notin {"none", "exited"}

=============================================================================
