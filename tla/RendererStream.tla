--------------------------- MODULE RendererStream ---------------------------
(***************************************************************************)
(* One playback stream through all its layers: the application's control   *)
(* and write threads in RendererInClientInner, the binder threads and the  *)
(* callbacks of RendererInServer, the session in HpaeManager, and the one  *)
(* in HpaeRendererManager with the fade-out of its gain node.              *)
(*                                                                         *)
(* The layers talk through three queues: requests to HpaeManager (mq), its *)
(* requests to HpaeRendererManager (rq), and the one-way notifications to  *)
(* the client (ipc).  Each thread runs one request in one step, except     *)
(* that a server call is split before its request is pushed, and           *)
(* StandByCheck before it sets standByEnable_.                             *)
(***************************************************************************)
EXTENDS Naturals, Sequences

CONSTANTS
  MaxCalls,      \* bound: calls of the control thread in a behaviour
  MaxUnderflow,  \* bound: UNDERFLOW reports waiting in mq
  StandbyLimit   \* maxStandByCounter

VARIABLES
  state,       \* state_ of RendererInClientInner
  notified,    \* notifiedOperation_
  op, at,      \* the control thread's call; where each caller is in its server call
  calls,       \* calls so far, for the bound
  ipc,         \* notifications on their way to the client
  status,      \* status_ of RendererInServer
  standBy,     \* standByEnable_
  offered,     \* the shared stream status is STREAM_STAND_BY
  counter,     \* standByCounter_
  checking,    \* HpaeManager's thread is in StandByCheck, past its tests
  mq,          \* hpaeNoLockQueue_ of HpaeManager
  mstate,      \* state in rendererIdStreamInfoMap_
  transitions, \* pendingTransitionsTracker_
  rq,          \* hpaeNoLockQueue_ of HpaeRendererManager
  rstate,      \* state in sessionNodeMap_
  fade,        \* fadeOutState_ of the gain node, "none" when disconnected
  fadeFor,     \* operation_ of the gain node
  isDrain,     \* isDrain_ of the sink input node
  data,        \* the ring holds data for the next period
  races        \* races that have happened (see below)

client  == <<state, notified, op, calls>>
server  == <<status, standBy, offered, counter>>
manager == <<mstate, transitions>>
sink    == <<rstate, fade, fadeFor, isDrain, data>>
queues  == <<mq, rq, ipc>>
vars    == <<client, at, server, checking, manager, sink, queues, races>>

Caller == {"control", "writer"}
Answer == {"STARTED", "PAUSED", "STOPPED", "FLUSHED", "DRAINED"}
Call   == {"Start", "Pause", "Stop", "Flush", "Drain"}
ClientOp == Call \cup {"DrainToStop", "StopAfterStart"}
Transient == {"STARTING", "PAUSING", "STOPPING", "DRAINING",
              "FLUSHING_WHEN_STARTED", "FLUSHING_WHEN_PAUSED", "FLUSHING_WHEN_STOPPED"}

\* What can go wrong between the layers, each at one line:
\*   overtaken  a Start was run between the end of a fade-out and OnFadeDone
\*   lateCheck  StandByCheck put a stream to sleep that was being paused or stopped
\*   staleStart the writer's Start out of stand-by came after another call
Race == {"overtaken", "lateCheck", "staleStart"}

Init ==
  /\ state = "PREPARED" /\ notified = "none" /\ op = "none" /\ calls = 0
  /\ at = [c \in Caller |-> "idle"]
  /\ status = "IDLE" /\ standBy = FALSE /\ offered = FALSE /\ counter = 0
  /\ checking = FALSE
  /\ mstate = "NEW" /\ transitions = <<>>
  /\ rstate = "NEW" /\ fade = "none" /\ fadeFor = "STARTED"
  /\ isDrain = FALSE /\ data = FALSE
  /\ mq = <<>> /\ rq = <<>> /\ ipc = <<>>
  /\ races = {}

Flag(race, happened) == races' = IF happened THEN races \cup {race} ELSE races

----------------------------------------------------------------------------
(* RendererInServer, called by a client.  at[c] is "locked" or "unlocked"  *)
(* between what the call does to the status and the request it pushes, as  *)
(* statusLock_ is held or not, and "refused" when the call fails.          *)

LockIsFree == \A c \in Caller : at[c] # "locked"

\* From now on the server call of c is at place.
Reach(c, place) == at' = [at EXCEPT ![c] = place]

\* A call that finds an illegal state.
Refuse(c) == Reach(c, "refused") /\ UNCHANGED server

StartInnerDuringStandby(c) ==
  /\ counter' = 0 /\ offered' = FALSE
  /\ Reach(c, "unlocked")
  /\ UNCHANGED <<status, standBy>>

StartInner(c) ==
  \/ standBy /\ StartInnerDuringStandby(c)
  \/ /\ ~standBy /\ LockIsFree /\ status \in {"IDLE", "PAUSED", "STOPPED"}
     /\ status' = "STARTING"
     /\ Reach(c, "locked")
     /\ UNCHANGED <<standBy, offered, counter>>
  \/ /\ ~standBy /\ LockIsFree /\ status \notin {"IDLE", "PAUSED", "STOPPED"}
     /\ Refuse(c)

\* Pause and Stop take the stream out of stand-by.
LeaveStandby == standBy' = FALSE /\ offered' = (offered /\ ~standBy)

ServerPause(c) ==
  /\ LockIsFree
  /\ \/ /\ status = "STARTED"
        /\ status' = "PAUSING" /\ counter' = 0
        /\ LeaveStandby
        /\ Reach(c, "locked")
     \/ status # "STARTED" /\ Refuse(c)

StopsFrom == {"STARTED", "PAUSED", "DRAINING", "STARTING"}
ServerStop(c) ==
  /\ LockIsFree
  /\ \/ /\ status \in StopsFrom
        /\ status' = "STOPPING"
        /\ LeaveStandby
        /\ Reach(c, "unlocked")
        /\ UNCHANGED counter
     \/ status \notin StopsFrom /\ Refuse(c)

FlushFrom(st) == CASE st = "STARTED" -> "FLUSHING_WHEN_STARTED"
                   [] st = "PAUSED"  -> "FLUSHING_WHEN_PAUSED"
                   [] st = "STOPPED" -> "FLUSHING_WHEN_STOPPED"
ServerFlush(c) ==
  /\ LockIsFree
  /\ \/ /\ status \in {"STARTED", "PAUSED", "STOPPED"}
        /\ status' = FlushFrom(status)
        /\ data' = FALSE
        /\ Reach(c, "locked")
        /\ UNCHANGED <<standBy, offered, counter>>
     \/ /\ status \notin {"STARTED", "PAUSED", "STOPPED"}
        /\ Refuse(c) /\ UNCHANGED data

ServerDrain(c) ==
  /\ LockIsFree
  /\ \/ /\ status = "STARTED"
        /\ status' = "DRAINING"
        /\ Reach(c, "unlocked")
        /\ UNCHANGED <<standBy, offered, counter>>
     \/ status # "STARTED" /\ Refuse(c)

\* The second half of a server call: stream_ pushes the request.
RequestOf(o) == CASE o = "DrainToStop"    -> "Drain"
                  [] o = "StopAfterStart" -> "Stop"
                  [] OTHER                -> o

ControlPushes ==
  /\ at["control"] \in {"locked", "unlocked"}
  /\ mq' = Append(mq, RequestOf(op))
  /\ Reach("control", "wait")
  /\ UNCHANGED <<client, server, checking, manager, sink, rq, ipc, races>>

\* The writer's Start is meant for a stream that sleeps in STARTED.
WriterPushes ==
  /\ at["writer"] \in {"locked", "unlocked"}
  /\ mq' = Append(mq, "Start")
  /\ Reach("writer", "idle")
  /\ Flag("staleStart", ~standBy \/ status # "STARTED")
  /\ UNCHANGED <<client, server, checking, manager, sink, rq, ipc>>

----------------------------------------------------------------------------
(* RendererInClientInner: the control thread, under statusMutex_. *)

StopsWriter == {"Stop", "DrainToStop", "Flush", "Drain"}  \* they hold writeMutex_

Begin(o) ==
  /\ op = "none" /\ calls < MaxCalls
  /\ op' = o /\ calls' = calls + 1
  /\ UNCHANGED <<state, notified, checking, manager, queues, races>>

StartAudioStream ==
  /\ state \in {"PREPARED", "STOPPED", "PAUSED"}
  /\ Begin("Start") /\ StartInner("control") /\ UNCHANGED sink

PauseAudioStream ==
  /\ state = "RUNNING"
  /\ Begin("Pause") /\ ServerPause("control") /\ UNCHANGED sink

FlushAudioStream ==
  /\ state \in {"RUNNING", "PAUSED", "STOPPED"}
  /\ Begin("Flush") /\ ServerFlush("control")
  /\ UNCHANGED <<rstate, fade, fadeFor, isDrain>>

DrainAudioStream ==
  /\ state = "RUNNING"
  /\ Begin("Drain") /\ ServerDrain("control") /\ UNCHANGED sink

\* StopAudioStream drains a running stream first.
StopAudioStream ==
  \/ /\ state = "RUNNING"
     /\ Begin("DrainToStop") /\ ServerDrain("control") /\ UNCHANGED sink
  \/ /\ state = "PAUSED"
     /\ Begin("Stop") /\ ServerStop("control") /\ UNCHANGED sink

\* The call of the control thread ends.
Return == op' = "none" /\ Reach("control", "idle") /\ UNCHANGED server

\* Whatever the drain came to, StopAudioStream goes on.
GoOnToStop ==
  \/ state \in {"RUNNING", "PAUSED"} /\ op' = "Stop" /\ ServerStop("control")
  \/ state \notin {"RUNNING", "PAUSED"} /\ Return

Refused ==
  /\ at["control"] = "refused"
  /\ IF op = "DrainToStop" THEN GoOnToStop ELSE Return
  /\ UNCHANGED <<state, notified, calls, checking, manager, sink, queues, races>>

Awaits(o) == CASE o = "Start" -> state = "RUNNING"
               [] o = "Pause" -> state = "PAUSED"
               [] o = "Stop"  -> state = "STOPPED"
               [] o = "Flush" -> notified = "FLUSHED"
               [] o \in {"Drain", "DrainToStop"} -> notified = "DRAINED"
               [] o = "StopAfterStart" -> TRUE  \* it does not wait

WaitOver ==
  /\ at["control"] = "wait" /\ Awaits(op)
  /\ notified' = IF op \in {"Flush", "Drain", "DrainToStop"} THEN "none" ELSE notified
  /\ IF op = "DrainToStop" THEN GoOnToStop ELSE Return
  /\ UNCHANGED <<state, calls, checking, manager, sink, queues, races>>

\* Nothing is on its way that could still answer the control thread.
Quiet ==
  /\ mq = <<>> /\ rq = <<>> /\ ipc = <<>> /\ transitions = <<>>
  /\ ~checking /\ fade # "DO" /\ at["writer"] = "idle"

\* OPERATION_TIMEOUT_IN_MS is long against the queues and the transitions'
\* 60 ms, but a drain takes as long as the data in the ring.
WaitTimesOut ==
  /\ at["control"] = "wait" /\ ~Awaits(op)
  /\ Quiet \/ op \in {"Drain", "DrainToStop"}
  /\ notified' = IF op \in {"Flush", "Drain", "DrainToStop"} THEN "none" ELSE notified
  /\ state' = IF op = "Stop" THEN "INVALID" ELSE state
  /\ CASE op = "DrainToStop" -> GoOnToStop
       [] op = "Start"       -> op' = "StopAfterStart" /\ ServerStop("control")
       [] OTHER              -> Return
  /\ UNCHANGED <<calls, checking, manager, sink, queues, races>>

\* OnOperationHandled.
HandleStatusChangeOperation(n) ==
  state' = CASE n = "STARTED" -> "RUNNING"
             [] n = "PAUSED"  -> "PAUSED"
             [] n = "STOPPED" -> "STOPPED"
             [] OTHER         -> state
OnOperationHandled ==
  /\ ipc # <<>>
  /\ notified' = Head(ipc) /\ ipc' = Tail(ipc)
  /\ HandleStatusChangeOperation(Head(ipc))
  /\ UNCHANGED <<op, calls, at, server, checking, manager, sink, mq, rq, races>>

(* The write thread, in WriteInner. *)

WriterSeesStandby ==
  /\ at["writer"] = "idle" /\ offered
  /\ Reach("writer", "saw")
  /\ UNCHANGED <<client, server, checking, manager, sink, queues, races>>

WriterStarts ==
  /\ at["writer"] = "saw"
  /\ StartInner("writer")
  /\ UNCHANGED <<client, checking, manager, sink, queues, races>>

\* The rest of WriteInner; it does not wait for its Start.
WriterRefused ==
  /\ at["writer"] = "refused"
  /\ Reach("writer", "idle")
  /\ UNCHANGED <<client, server, checking, manager, sink, queues, races>>

Write ==
  /\ at["writer"] = "idle" /\ state = "RUNNING" /\ op \notin StopsWriter
  /\ data' = TRUE
  /\ UNCHANGED <<client, at, server, checking, manager, queues, races,
                 rstate, fade, fadeFor, isDrain>>

----------------------------------------------------------------------------
(* HpaeManager's thread, and RendererInServer::OnStatusUpdate on it. *)

HandleOperationStarted ==
  /\ status' = "STARTED" /\ standBy' = FALSE
  /\ offered' = (offered /\ ~standBy)
  /\ ipc' = Append(ipc, "STARTED")
  /\ UNCHANGED counter

PausedInSilence ==
  /\ IF standBy
       THEN UNCHANGED <<status, ipc, offered>>
       ELSE status' = "PAUSED" /\ ipc' = Append(ipc, "PAUSED") /\ UNCHANGED offered
  /\ UNCHANGED <<standBy, counter>>
HandleOperationPaused ==
  /\ IF standBy
       THEN offered' = TRUE /\ UNCHANGED <<status, ipc>>
       ELSE status' = "PAUSED" /\ ipc' = Append(ipc, "PAUSED") /\ UNCHANGED offered
  /\ UNCHANGED <<standBy, counter>>

HandleOperationStopped ==
  /\ status' = "STOPPED"
  /\ ipc' = Append(ipc, "STOPPED")
  /\ UNCHANGED <<standBy, offered, counter>>

HandleOperationFlushed ==
  /\ status' = CASE status = "FLUSHING_WHEN_STARTED" -> "STARTED"
                 [] status = "FLUSHING_WHEN_PAUSED"  -> "PAUSED"
                 [] status = "FLUSHING_WHEN_STOPPED" -> "STOPPED"
                 [] OTHER                            -> status
  /\ ipc' = Append(ipc, "FLUSHED")
  /\ UNCHANGED <<standBy, offered, counter>>

DrainedStarts ==
  /\ status' = "STARTED" /\ ipc' = Append(ipc, "DRAINED")
  /\ UNCHANGED <<standBy, offered, counter>>
HandleOperationDrained ==
  /\ IF status = "DRAINING"
       THEN status' = "STARTED" /\ ipc' = Append(ipc, "DRAINED")
       ELSE UNCHANGED <<status, ipc>>
  /\ UNCHANGED <<standBy, offered, counter>>

\* HandleUpdateStatus, when the pending transitions are tr.
IsValidUpdateStatus(answer) ==
  \/ answer = "PAUSED"  /\ mstate = "PAUSING"
  \/ answer = "STOPPED" /\ mstate = "STOPPING"
DequeuePendingTransition(tr) == IF tr = <<>> THEN tr ELSE Tail(tr)

UpdateDequeuesFirst(answer, tr) ==
  /\ transitions' = DequeuePendingTransition(tr)
  /\ IF IsValidUpdateStatus(answer)
       THEN /\ mstate' = answer
            /\ \/ answer = "PAUSED"  /\ HandleOperationPaused
               \/ answer = "STOPPED" /\ HandleOperationStopped
       ELSE UNCHANGED <<mstate, server, ipc>>
HandleUpdateStatus(answer, tr) ==
  IF IsValidUpdateStatus(answer)
    THEN /\ transitions' = DequeuePendingTransition(tr) /\ mstate' = answer
         /\ \/ answer = "PAUSED"  /\ HandleOperationPaused
            \/ answer = "STOPPED" /\ HandleOperationStopped
    ELSE transitions' = tr /\ UNCHANGED <<mstate, server, ipc>>

\* StandByCheck, up to ShouldEnableStandBy.  The counter's limit and the time
\* since the last write are a second each: all that is on its way when the
\* counting begins has come to an end before the limit is near.
NothingElse == Tail(mq) = <<>> /\ rq = <<>> /\ ipc = <<>> /\ transitions = <<>>

StandByCheck ==
  /\ counter' = IF standBy \/ counter = StandbyLimit \/ (counter = 0 /\ ~NothingElse)
                   THEN counter ELSE counter + 1
  /\ checking' \in {FALSE, ~standBy /\ counter' = StandbyLimit}
  /\ UNCHANGED <<status, standBy, offered>>

EnableStandBy ==
  /\ checking /\ checking' = FALSE
  /\ standBy' = TRUE
  /\ mq' = Append(mq, "Pause")
  /\ Flag("lateCheck", status # "STARTED" \/ op \in {"Pause", "Stop"})
  /\ UNCHANGED <<client, at, status, offered, counter, manager, sink, rq, ipc>>

\* One request of HpaeManager.
Forward(request, st, tr) ==
  /\ rq' = Append(rq, request)
  /\ mstate' = st /\ transitions' = tr
RunStart == Forward("Start", "RUNNING", transitions) /\ HandleOperationStarted
RunPause == /\ Forward("Pause", "PAUSING", Append(transitions, "PAUSED"))
            /\ UNCHANGED <<server, ipc>>
RunStop  == /\ Forward("Stop", "STOPPING", Append(transitions, "STOPPED"))
            /\ UNCHANGED <<server, ipc>>
RunDrain == Forward("Drain", mstate, transitions) /\ UNCHANGED <<server, ipc>>
RunFlush == HandleOperationFlushed /\ UNCHANGED <<manager, rq>>
RunAnswer(answer) == HandleUpdateStatus(answer, transitions) /\ UNCHANGED rq

RunDrained   == HandleOperationDrained /\ UNCHANGED <<manager, rq>>
RunUnderflow == StandByCheck /\ UNCHANGED <<manager, rq, ipc>>

ManagerRuns ==
  /\ ~checking /\ mq # <<>>
  /\ mq' = Tail(mq)
  /\ \/ Head(mq) = "UNDERFLOW" /\ RunUnderflow
     \/ /\ UNCHANGED checking
        /\ \/ Head(mq) = "Start"   /\ RunStart
           \/ Head(mq) = "Pause"   /\ RunPause
           \/ Head(mq) = "Stop"    /\ RunStop
           \/ Head(mq) = "Drain"   /\ RunDrain
           \/ Head(mq) = "Flush"   /\ RunFlush
           \/ Head(mq) = "DRAINED" /\ RunDrained
           \/ Head(mq) \in {"PAUSED", "STOPPED"} /\ RunAnswer(Head(mq))
  /\ UNCHANGED <<client, at, sink, races>>

\* ProcessPendingTransitionsAndGetNextDelay: 60 ms have passed.
TransitionIsDue ==
  /\ ~checking /\ transitions # <<>>
  /\ HandleUpdateStatus(Head(transitions), Tail(transitions))
  /\ UNCHANGED <<client, at, checking, sink, mq, rq, races>>

----------------------------------------------------------------------------
(* HpaeRendererManager's thread. *)

connected == fade # "none"

\* SetSessionFade of a Pause or Stop: without a gain node it answers at once.
SetSessionFade(answer, going) ==
  IF connected
    THEN /\ rstate' = going /\ fadeFor' = answer
         /\ fade' = IF fade = "NO" THEN "DO" ELSE fade
         /\ UNCHANGED mq
    ELSE /\ rstate' = answer /\ mq' = Append(mq, answer)
         /\ UNCHANGED <<fade, fadeFor>>

SinkStart ==
  /\ rstate' = "RUNNING" /\ fade' = "NO" /\ fadeFor' = "STARTED"
  /\ UNCHANGED <<isDrain, mq>>
SinkPause == SetSessionFade("PAUSED", "PAUSING") /\ UNCHANGED isDrain
SinkStop  == SetSessionFade("STOPPED", "STOPPING") /\ UNCHANGED isDrain
SinkDrain ==
  /\ isDrain' = TRUE
  /\ mq' = IF rstate # "RUNNING" THEN Append(mq, "DRAINED") ELSE mq
  /\ UNCHANGED <<rstate, fade, fadeFor>>

\* OnFadeDone does not ask whether the session was started again.
Overtaken == rstate \notin {"PAUSING", "STOPPING"}
FadeDoneKeepsSession(answer) ==
  /\ fade' = "NO" /\ rstate' = answer
  /\ mq' = Append(mq, answer)
  /\ UNCHANGED <<fadeFor, isDrain>>
OnFadeDone(answer) ==
  /\ fade' = "none" /\ rstate' = answer
  /\ mq' = Append(mq, answer)
  /\ UNCHANGED <<fadeFor, isDrain>>

FadeDone(answer) == IF answer = "PAUSED" THEN "FadedToPause" ELSE "FadedToStop"
IsFadeDone(r) == r \in {"FadedToPause", "FadedToStop"}

SinkRuns ==
  /\ rq # <<>> /\ rq' = Tail(rq)
  /\ \/ Head(rq) = "Start" /\ SinkStart
     \/ Head(rq) = "Pause" /\ SinkPause
     \/ Head(rq) = "Stop"  /\ SinkStop
     \/ Head(rq) = "Drain" /\ SinkDrain
     \/ Head(rq) = FadeDone("PAUSED")  /\ OnFadeDone("PAUSED")
     \/ Head(rq) = FadeDone("STOPPED") /\ OnFadeDone("STOPPED")
  /\ Flag("overtaken", IsFadeDone(Head(rq)) /\ Overtaken)
  /\ UNCHANGED <<client, at, server, checking, manager, data, ipc>>

\* Process: the sink input node reads a period, then the gain node fades.
\* The thread runs what its last Process pushed before it processes again.
ReadToAudioBuffer ==
  \/ /\ data /\ counter' = 0
     /\ data' \in BOOLEAN
     /\ UNCHANGED <<mq, isDrain>>
  \/ /\ ~data /\ UNCHANGED <<data, counter>>
     /\ Len(SelectSeq(mq, LAMBDA r : r = "UNDERFLOW")) < MaxUnderflow
     /\ mq' = mq \o <<"UNDERFLOW">> \o (IF isDrain THEN <<"DRAINED">> ELSE <<>>)
     /\ isDrain' = FALSE
DoFading ==
  IF fade = "DO" THEN fade' = "DONE" /\ rq' = Append(rq, FadeDone(fadeFor))
                 ELSE UNCHANGED <<fade, rq>>
Process ==
  /\ connected /\ \A i \in DOMAIN rq : ~IsFadeDone(rq[i])
  /\ ReadToAudioBuffer
  /\ DoFading
  /\ UNCHANGED <<client, at, status, standBy, offered, checking, manager,
                 rstate, fadeFor, ipc, races>>

----------------------------------------------------------------------------
(* Specification. *)

ControlCalls ==
  \/ StartAudioStream \/ PauseAudioStream \/ StopAudioStream
  \/ FlushAudioStream \/ DrainAudioStream

\* A behaviour ends with the first race: what the layers make of it is not
\* followed.
Next ==
  /\ races = {}
  /\ \/ ControlCalls \/ ControlPushes \/ Refused \/ WaitOver \/ WaitTimesOut
     \/ OnOperationHandled
     \/ WriterSeesStandby \/ WriterStarts \/ WriterPushes \/ WriterRefused \/ Write
     \/ ManagerRuns \/ EnableStandBy \/ TransitionIsDue
     \/ SinkRuns \/ Process

Spec == Init /\ [][Next]_vars

\* Every thread that has something to do goes on, a written ring is emptied,
\* and the application goes on writing to a stream that sleeps; it need not
\* call, and a wait need not time out.
FairSpec ==
  /\ Spec
  /\ WF_vars(ControlPushes) /\ WF_vars(Refused \/ WaitOver)
  /\ WF_vars(OnOperationHandled)
  /\ WF_vars(WriterSeesStandby) /\ WF_vars(WriterStarts) /\ WF_vars(WriterPushes) /\ WF_vars(WriterRefused)
  /\ WF_vars(ManagerRuns) /\ WF_vars(EnableStandBy) /\ WF_vars(TransitionIsDue)
  /\ WF_vars(SinkRuns) /\ WF_vars(Process /\ ~data')

\* Nothing is on its way, the control thread still waits, and what it waits
\* for has not come: no Start, Pause or Stop is left like that, so none times
\* out.  The answers come from HpaeManager at once, from the end of a fade-out,
\* or from the transition's timer, and each may be refused by IsValidUpdateStatus.
AnswersArrive ==
  Quiet /\ at["control"] = "wait" /\ op \in {"Start", "Pause", "Stop"} => Awaits(op)

\* When nothing is on its way the sink has the session connected exactly when
\* HpaeManager calls it RUNNING, whichever of two answers came first.
SinkFollowsManager == Quiet => (connected <=> mstate = "RUNNING")

\* ... and between two calls client, server and manager agree, on a stream that
\* sleeps in stand-by too; a late DRAINED does not bring a stopped stream back.
LayersAgree ==
  Quiet /\ op = "none" =>
    \/ <<state, status, mstate>> = <<"PREPARED", "IDLE", "NEW">>
    \/ /\ <<state, mstate>> = <<"RUNNING", "RUNNING">> /\ ~standBy
       /\ status = "STARTED" \/ (status = "DRAINING" /\ isDrain)
    \/ <<state, status, mstate>> = <<"RUNNING", "STARTED", "PAUSED">> /\ standBy /\ offered
    \/ /\ state \in {"PAUSED", "STOPPED"} /\ status = state /\ mstate = state
       /\ ~standBy /\ ~offered

\* What the application has written to a running stream is played, if it goes
\* on writing or the stream was awake: a stream that falls asleep over new data
\* is woken by the next write.
WrittenIsPlayed ==
  data /\ state = "RUNNING" /\ op = "none" ~>
    ~data \/ state # "RUNNING" \/ op # "none" \/ races # {}
=============================================================================
