--------------------------- MODULE RendererFocus ----------------------------
(***************************************************************************)
(* The focus list of AudioInterrupt together with the AudioRenderers that  *)
(* ask for it.  The events the service sends go through the queue of       *)
(* AudioPolicyServerHandler and a oneway binder call, in order for each    *)
(* stream, and reach AudioRendererInterruptCallbackImpl::OnInterrupt in a  *)
(* thread of its own, while the application starts, pauses and stops the   *)
(* stream with calls that hold rendererMutex_, which OnInterrupt does not  *)
(* take (audio_renderer.cpp, renderer_in_client_public.cpp).               *)
(*                                                                         *)
(* The server starts a stream or refuses to; it pauses and stops one when  *)
(* asked.  Left out: renderers without a stream, muted and silent ones,    *)
(* Release, the restoring and switching of a stream, the death of a client,*)
(* pre-emption and the late stop.                                          *)
(***************************************************************************)
EXTENDS AudioInterrupt

CONSTANTS
  MaxEvents   \* bound: events in the queue when an application acts

VARIABLES
  mail,           \* events under way, per stream; late: a PAUSE or STOP sent
                  \* before the stream last asked for the focus
  seen,           \* OnInterrupt between reading the state and acting on it
  pc,             \* where the application's call is
  state_,         \* the stream's state
  ducked,         \* its duck volume is below 1
  isForcePaused_,
  isForceDucked_,
  quieted         \* history: what silenced the stream since it last started and
                  \* left it the focus

client == <<mail, seen, pc, state_, ducked, isForcePaused_, isForceDucked_, quieted>>
allVars == <<vars, client>>

ASSUME RendererAssumption ==
  /\ \A p \in Profile : p.type \notin Recording
  /\ MaxEvents \in Nat

StreamState == {"PREPARED", "RUNNING", "PAUSED", "STOPPED"}
NoEvent == [hint |-> "none"]
Quiet(s) == mail[s] = <<>> /\ seen[s] = NoEvent
Free(s)  ==
  /\ pc[s] = "idle"
  /\ MapThenSumSet(LAMBDA t : Len(mail[t]), Stream) <= MaxEvents

\* SetAudioStreamInfo has made the stream; nothing has been forced on it.
RInit ==
  /\ Init
  /\ mail = [s \in Stream |-> <<>>]
  /\ seen = [s \in Stream |-> NoEvent]
  /\ pc = [s \in Stream |-> "idle"]
  /\ state_ = [s \in Stream |-> "PREPARED"]
  /\ ducked = [s \in Stream |-> FALSE]
  /\ isForcePaused_ = [s \in Stream |-> FALSE]
  /\ isForceDucked_ = [s \in Stream |-> FALSE]
  /\ quieted = [s \in Stream |-> "no"]

Mail(hint, late) == [hint |-> hint, late |-> late]
Silences(event)  == event.hint \in {"PAUSE", "STOP"}

\* SendInterruptEventWithStreamIdCallback, for all events of a critical section.
Posted(before, sent) ==
  FoldLeft(LAMBDA m, e : [m EXCEPT ![e.stream] = Append(@, Mail(e.hint, FALSE))], before, sent)

Post(sent) == mail' = Posted(mail, sent)

Goto(s, label) == pc' = [pc EXCEPT ![s] = label]
-----------------------------------------------------------------------------
(* The application's calls. *)

\* Start asks for the focus before it starts the stream.
StartAsks(s) ==
  /\ Free(s)
  /\ state_[s] \in {"PREPARED", "PAUSED", "STOPPED"}
  /\ ActivateAudioInterrupt(s)
  /\ LET overtaken == [i \in DOMAIN mail[s] |-> Mail(mail[s][i].hint, Silences(mail[s][i]))]
     IN mail' = Posted([mail EXCEPT ![s] = overtaken], Activated(s).sent)
  /\ seen' = [seen EXCEPT ![s] = IF Silences(@) THEN [@ EXCEPT !.late = TRUE] ELSE @]
  /\ Goto(s, IF Has(audioFocusInfoList', s) /\ StateOf(audioFocusInfoList', s) # "PAUSE"
             THEN "starting" ELSE "idle")
  /\ UNCHANGED <<state_, ducked, isForcePaused_, isForceDucked_, quieted>>

\* StartAudioStream
StartStream(s) ==
  /\ pc[s] = "starting"
  /\ state_' = [state_ EXCEPT ![s] = "RUNNING"]
  /\ quieted' = [quieted EXCEPT ![s] = "no"]
  /\ Goto(s, "idle")
  /\ UNCHANGED <<vars, mail, seen, ducked, isForcePaused_, isForceDucked_>>

StartFailsWithFocus(s) ==
  /\ pc[s] = "starting"
  /\ Goto(s, "idle")
  /\ UNCHANGED <<vars, mail, seen, state_, ducked, isForcePaused_, isForceDucked_, quieted>>

\* The server does not start it: the focus is given up.
StartFails(s) ==
  /\ pc[s] = "starting"
  /\ DeactivateAudioInterrupt(s)
  /\ Post(Deactivated(audioFocusInfoList, s).sent)
  /\ Goto(s, "idle")
  /\ UNCHANGED <<seen, state_, ducked, isForcePaused_, isForceDucked_, quieted>>

\* A stream that is not running refuses to pause, focus and all.
Pause(s) ==
  /\ Free(s)
  /\ state_[s] = "RUNNING"
  /\ Goto(s, "pausing")
  /\ UNCHANGED <<vars, mail, seen, state_, ducked, isForcePaused_, isForceDucked_, quieted>>

PauseStream(s) == state_' = [state_ EXCEPT ![s] = IF @ = "RUNNING" THEN "PAUSED" ELSE @]

\* PauseTransitent pauses a running stream and keeps its focus.
PauseTransitent(s) ==
  /\ Free(s)
  /\ state_[s] = "RUNNING"
  /\ PauseStream(s)
  /\ quieted' = [quieted EXCEPT ![s] = "PauseTransitent"]
  /\ UNCHANGED <<vars, mail, seen, pc, ducked, isForcePaused_, isForceDucked_>>

\* PauseAudioStream, whatever became of the stream meanwhile.
PauseAudioStream(s) ==
  /\ pc[s] = "pausing"
  /\ PauseStream(s)
  /\ Goto(s, "leaving")
  /\ UNCHANGED <<vars, mail, seen, ducked, isForcePaused_, isForceDucked_, quieted>>

\* StopAudioStream, which has no effect on a stream that never started.
StopStream(s) ==
  state_' = [state_ EXCEPT ![s] = IF @ \in {"RUNNING", "PAUSED"} THEN "STOPPED" ELSE @]

Stop(s) ==
  /\ Free(s)
  /\ StopStream(s)
  /\ Goto(s, "leaving")
  /\ UNCHANGED <<vars, mail, seen, ducked, isForcePaused_, isForceDucked_, quieted>>

\* Then both give up the focus,
Leave(s) ==
  /\ pc[s] = "leaving"
  /\ DeactivateAudioInterrupt(s)
  /\ Post(Deactivated(audioFocusInfoList, s).sent)
  /\ quieted' = [quieted EXCEPT ![s] = "no"]
  /\ Goto(s, "unducking")
  /\ UNCHANGED <<seen, state_, ducked, isForcePaused_, isForceDucked_>>

\* and set the duck volume back.
Unduck(s) ==
  /\ pc[s] = "unducking"
  /\ ducked' = [ducked EXCEPT ![s] = FALSE]
  /\ Goto(s, "idle")
  /\ UNCHANGED <<vars, mail, seen, state_, isForcePaused_, isForceDucked_, quieted>>
-----------------------------------------------------------------------------
(* OnInterrupt, a forced event. *)

\* HandleAndNotifyForcedEvent reads the state first.
TakeEvent(s) ==
  /\ seen[s] = NoEvent
  /\ mail[s] # <<>>
  /\ seen' = [seen EXCEPT ![s] =
                [hint |-> Head(mail[s]).hint, late |-> Head(mail[s]).late, state |-> state_[s]]]
  /\ mail' = [mail EXCEPT ![s] = Tail(@)]
  /\ UNCHANGED <<vars, pc, state_, ducked, isForcePaused_, isForceDucked_, quieted>>

Handling(s, hint) ==
  /\ seen[s] # NoEvent /\ seen[s].hint = hint
  /\ seen' = [seen EXCEPT ![s] = NoEvent]
  /\ UNCHANGED <<vars, mail, pc>>

\* A late event pauses or stops the stream.
NoteLate(s) ==
  quieted' = [quieted EXCEPT ![s] =
                IF seen[s].late /\ state_'[s] # state_[s] /\ Has(audioFocusInfoList, s)
                THEN "late event" ELSE @]

\* In any other state there is "No need to pause".
ForcePause(s) ==
  /\ Handling(s, "PAUSE")
  /\ IF seen[s].state \in {"RUNNING", "PREPARED"}
     THEN /\ PauseStream(s)
          /\ ducked' = [ducked EXCEPT ![s] = FALSE]
          /\ isForcePaused_' = [isForcePaused_ EXCEPT ![s] = TRUE]
     ELSE UNCHANGED <<state_, ducked, isForcePaused_>>
  /\ NoteLate(s)
  /\ UNCHANGED isForceDucked_

\* The application is told, and starts the stream if it likes.
ForceResume(s) ==
  /\ Handling(s, "RESUME")
  /\ isForcePaused_' = [isForcePaused_ EXCEPT ![s] =
                          @ /\ seen[s].state \notin {"PAUSED", "PREPARED"}]
  /\ UNCHANGED <<state_, ducked, isForceDucked_, quieted>>

ForceStop(s) ==
  /\ Handling(s, "STOP")
  /\ StopStream(s)
  /\ NoteLate(s)
  /\ ducked' = [ducked EXCEPT ![s] = FALSE]
  /\ UNCHANGED <<isForcePaused_, isForceDucked_>>

DuckWhenRunning(s) ==
  /\ Handling(s, "DUCK")
  /\ ducked' = [ducked EXCEPT ![s] = @ \/ seen[s].state = "RUNNING"]
  /\ isForceDucked_' = [isForceDucked_ EXCEPT ![s] = TRUE]
  /\ UNCHANGED <<state_, isForcePaused_, quieted>>

ForceDuck(s) ==
  /\ Handling(s, "DUCK")
  /\ ducked' = [ducked EXCEPT ![s] = TRUE]
  /\ isForceDucked_' = [isForceDucked_ EXCEPT ![s] = TRUE]
  /\ UNCHANGED <<state_, isForcePaused_, quieted>>

ForceUnduck(s) ==
  /\ Handling(s, "UNDUCK")
  /\ IF isForceDucked_[s]
     THEN /\ ducked' = [ducked EXCEPT ![s] = FALSE]
          /\ isForceDucked_' = [isForceDucked_ EXCEPT ![s] = FALSE]
     ELSE UNCHANGED <<ducked, isForceDucked_>>
  /\ UNCHANGED <<state_, isForcePaused_, quieted>>

OnInterrupt(s) ==
  TakeEvent(s) \/ ForcePause(s) \/ ForceResume(s) \/ ForceStop(s)
  \/ ForceDuck(s) \/ ForceUnduck(s)

Call(s) ==
  StartStream(s) \/ StartFails(s) \/ PauseAudioStream(s) \/ Leave(s) \/ Unduck(s)

RNext ==
  \/ \E s \in Stream :
       StartAsks(s) \/ Pause(s) \/ PauseTransitent(s) \/ Stop(s) \/ Call(s) \/ OnInterrupt(s)
  \/ \E pid \in App : MoveWindow(pid) /\ UNCHANGED client

RSpec == RInit /\ [][RNext]_allVars
-----------------------------------------------------------------------------
Settled(s) == Quiet(s) /\ pc[s] = "idle"
Entered(s, state) == Has(audioFocusInfoList, s) /\ StateOf(audioFocusInfoList, s) = state

\* A stream the service holds as ducked plays ducked once the events have come,
\* whenever they came: the DUCK that answers Start before the stream runs, an
\* UNDUCK of the last time it played, a Pause that sets the volume back.
DuckHolds ==
  \A s \in Stream :
    Settled(s) /\ Entered(s, "DUCK") /\ state_[s] = "RUNNING" => ducked[s]

\* A stream the service holds as the active one, for which others give way, is
\* running once the events have come, but for two ways to be silent and keep the
\* focus: the application called PauseTransitent, or a PAUSE or STOP sent before
\* the stream last asked for the focus came after it had started, which
\* OnInterrupt cannot tell from one that is meant.  A stream that fails to start,
\* that gives way or that is told to resume does not hold the focus.
FocusSounds ==
  \A s \in Stream :
    Settled(s) /\ Entered(s, "ACTIVE") =>
      \/ state_[s] = "RUNNING"
      \/ state_[s] = "PAUSED" /\ quieted[s] = "PauseTransitent"
      \/ state_[s] \in {"PAUSED", "STOPPED"} /\ quieted[s] = "late event"

\* audio_interrupt_info.h: with INTERRUPT_FORCE the system has changed the state
\* of the stream.  A stream the service holds as paused is not running.
PauseHolds ==
  \A s \in Stream :
    Settled(s) /\ Entered(s, "PAUSE") => state_[s] # "RUNNING"
=============================================================================
