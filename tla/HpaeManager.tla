---------------------------- MODULE HpaeManager ----------------------------
(***************************************************************************)
(* HpaeManager and its thread (hpae_manager.cpp): every call is a request  *)
(* that is pushed on hpaeNoLockQueue_ and run by HpaeManagerThread.  The   *)
(* queue is the atomic one of RequestQueue, which HpaeNoLockQueue is shown *)
(* to implement.                                                           *)
(*                                                                         *)
(* Pause and Stop of a playback session are answered later, by the manager *)
(* of its sink; pendingTransitionsTracker_ answers in its place after      *)
(* DEFAULT_PAUSE_STREAM_TIME_IN_MS.  Moving a session between sinks, and   *)
(* record sessions, which have no such timer, are left out.                *)
(***************************************************************************)
EXTENDS Naturals, SequencesExt

CONSTANTS
  Sender,      \* threads that call the manager, those of the sinks among them
  Session,     \* playback sessions
  MaxRequests  \* bound: requests of the clients in a behaviour

ASSUME MaxRequestsAssumption == MaxRequests \in Nat

VARIABLES
  init,      \* how far Init and DeInit, serialised by mutex_, have come
  thread,    \* where HpaeManagerThread::Run is, "none" without a thread
  timed,     \* the thread sleeps in wait_for rather than wait
  running,   \* running_
  signal,    \* recvSignal_
  queue,     \* hpaeNoLockQueue_
  batch,     \* the requests HandleRequests has taken
  pc,        \* senders between PushRequest and Notify
  state,     \* the state in rendererIdStreamInfoMap_, RELEASED once erased
  transitions,  \* pendingTransitionsTracker_
  owed,      \* answers the sink's manager may still give
  asked,     \* the last request of each session that was run
  requests   \* number of requests, for the bound

control  == <<init, thread, timed, running, signal, pc>>
sessions == <<state, transitions, owed, asked>>
vars     == <<control, sessions, queue, batch, requests>>

Answer    == {"PAUSED", "STOPPED"}
Operation == {"Start", "Pause", "Stop", "Destroy"}
Request   == [session : Session, op : Operation \cup Answer]
State     == {"NEW", "RUNNING", "PAUSING", "PAUSED", "STOPPING", "STOPPED", "RELEASED"}

\* The time a transition has left, in three parts: at least a millisecond,
\* less than one, none.
Due   == 0
Short == 1
Long  == 2
Transition == [session : Session, answer : Answer, left : Due .. Long]

Init ==
  /\ init = "off" /\ thread = "none" /\ timed = FALSE
  /\ running = FALSE /\ signal = FALSE
  /\ queue = <<>> /\ batch = <<>>
  /\ pc = [c \in Sender |-> "idle"]
  /\ state = [s \in Session |-> "NEW"]
  /\ transitions = <<>> /\ owed = {}
  /\ asked = [s \in Session |-> "none"]
  /\ requests = 0

----------------------------------------------------------------------------
(* SendRequest. *)

Push(c, r) ==
  /\ pc[c] = "idle"
  /\ queue' = Append(queue, r)
  /\ pc' = [pc EXCEPT ![c] = "pushed"]
  /\ UNCHANGED <<init, thread, timed, running, signal, batch, state, transitions, asked>>

\* A client pauses, starts, stops or releases a session.
ClientCalls(c) ==
  \E s \in Session, op \in Operation :
    /\ requests < MaxRequests /\ requests' = requests + 1
    /\ Push(c, [session |-> s, op |-> op])
    /\ UNCHANGED owed

\* The sink's manager answers an earlier Pause or Stop (Invoke), however
\* late, or never does.
SinkAnswers(c) ==
  \E r \in owed :
    /\ owed' = owed \ {r}
    /\ Push(c, r)
    /\ UNCHANGED requests

\* HpaeManagerThread::Notify.
Signal ==
  /\ signal' = TRUE
  /\ thread' = IF thread = "asleep" THEN "handle" ELSE thread

Notify(c) ==
  /\ pc[c] = "pushed"
  /\ pc' = [pc EXCEPT ![c] = "idle"]
  /\ IF thread = "none" THEN UNCHANGED <<signal, thread>> ELSE Signal
  /\ UNCHANGED <<init, timed, running, queue, batch, sessions, requests>>

----------------------------------------------------------------------------
(* What the requests do to a session. *)

\* IsValidUpdateStatus, for an answer to a session in state st.
AlwaysValid(answer, st) == st # "RELEASED"
IsValid(answer, st) ==
  \/ answer = "PAUSED"  /\ st = "PAUSING"
  \/ answer = "STOPPED" /\ st = "STOPPING"

DequeuePendingTransition(tr, s) == RemoveFirstMatch(tr, LAMBDA t : t.session = s)

\* HandleUpdateStatus, when the pending transitions are tr.
UpdateDequeuesFirst(s, answer, tr) ==
  /\ transitions' = DequeuePendingTransition(tr, s)
  /\ state' = IF IsValid(answer, state[s]) THEN [state EXCEPT ![s] = answer] ELSE state
HandleUpdateStatus(s, answer, tr) ==
  IF IsValid(answer, state[s])
    THEN /\ transitions' = DequeuePendingTransition(tr, s)
         /\ state' = [state EXCEPT ![s] = answer]
    ELSE transitions' = tr /\ UNCHANGED state

\* Pause or Stop: the session waits for answer.
AwaitAnswer(s, awaiting, answer) ==
  /\ state' = [state EXCEPT ![s] = awaiting]
  /\ transitions' = Append(transitions, [session |-> s, answer |-> answer, left |-> Long])
  /\ owed' = owed \cup {[session |-> s, op |-> answer]}

\* A call runs unless the session has been released (ShouldNotSkipProcess),
\* and a released session has nothing left to destroy.
Execute(s, op) ==
  IF state[s] = "RELEASED"
    THEN UNCHANGED <<state, transitions, owed, asked>>
    ELSE /\ asked' = [asked EXCEPT ![s] = op]
         /\ CASE op = "Pause"   -> AwaitAnswer(s, "PAUSING", "PAUSED")
              [] op = "Stop"    -> AwaitAnswer(s, "STOPPING", "STOPPED")
              [] op = "Start"   -> /\ state' = [state EXCEPT ![s] = "RUNNING"]
                                   /\ UNCHANGED <<transitions, owed>>
              [] op = "Destroy" -> /\ state' = [state EXCEPT ![s] = "RELEASED"]
                                   /\ UNCHANGED <<transitions, owed>>

RunRequest ==
  /\ thread = "run" \/ init = "draining"
  /\ batch # <<>> /\ batch' = Tail(batch)
  /\ LET r == Head(batch)
     IN IF r.op \in Answer
          THEN HandleUpdateStatus(r.session, r.op, transitions) /\ UNCHANGED <<owed, asked>>
          ELSE Execute(r.session, r.op)
  /\ UNCHANGED <<control, queue, requests>>

----------------------------------------------------------------------------
(* HpaeManagerThread::Run. *)

Goto(l) == thread' = l /\ UNCHANGED <<init, pc>>

SetRunning ==
  /\ thread = "born" /\ running' = TRUE
  /\ Goto("test")
  /\ UNCHANGED <<timed, signal, queue, batch, sessions, requests>>

TestRunning ==
  /\ thread = "test"
  /\ Goto(IF running THEN "lock" ELSE "exited")
  /\ UNCHANGED <<timed, running, signal, queue, batch, sessions, requests>>

\* ProcessPendingTransitionsAndGetNextDelay: the transition in front is due,
SettleDue ==
  /\ thread = "lock"
  /\ transitions # <<>> /\ Head(transitions).left = Due
  /\ LET t == Head(transitions)
     IN HandleUpdateStatus(t.session, t.answer, Tail(transitions))
  /\ UNCHANGED <<control, queue, batch, owed, asked, requests>>

DelayInSeconds == 0

\* or how long to sleep: whole milliseconds, 0 for no limit.
NextDelay == IF transitions = <<>> THEN 0 ELSE Head(transitions).left - 1

\* The predicate of the wait.
SignalOnly == signal
HasWork == queue # <<>> \/ signal

Wait ==
  /\ thread = "lock"
  /\ transitions # <<>> => Head(transitions).left # Due
  /\ timed' = (NextDelay > 0)
  /\ Goto(IF HasWork THEN "handle" ELSE "asleep")
  /\ UNCHANGED <<running, signal, queue, batch, sessions, requests>>

\* wait_for ends.  What the truncation of the delay left out is still to pass.
WaitTimesOut ==
  /\ thread = "asleep" /\ timed /\ Head(transitions).left < Long
  /\ Goto("handle")
  /\ UNCHANGED <<timed, running, signal, queue, batch, sessions, requests>>

HandleMsg ==
  /\ thread = "handle"
  /\ batch' = queue /\ queue' = <<>>
  /\ Goto("run")
  /\ UNCHANGED <<timed, running, signal, sessions, requests>>

ClearSignal ==
  /\ thread = "run" /\ batch = <<>>
  /\ signal' = FALSE
  /\ Goto("test")
  /\ UNCHANGED <<timed, running, queue, batch, sessions, requests>>

----------------------------------------------------------------------------
(* HpaeManager::Init and DeInit. *)

InitManager ==
  /\ init = "off" /\ init' = "up"
  /\ thread' = "born" /\ running' = FALSE /\ signal' = FALSE
  /\ UNCHANGED <<timed, pc, queue, batch, sessions, requests>>

\* DeactivateThread: running_ is cleared, the thread notified and joined.
DeInit ==
  /\ init = "up" /\ init' = "stopping"
  /\ running' = FALSE
  /\ UNCHANGED <<thread, timed, signal, pc, queue, batch, sessions, requests>>

StoreOnly ==
  /\ init = "stopping" /\ init' = "joining"
  /\ UNCHANGED <<thread, timed, running, signal, pc, queue, batch, sessions, requests>>

NotifyStop ==
  /\ init = "stopping" /\ init' = "joining"
  /\ Signal
  /\ UNCHANGED <<timed, running, pc, queue, batch, sessions, requests>>

\* The requests still queued are run by the caller.
Join ==
  /\ init = "joining" /\ thread = "exited"
  /\ init' = "draining" /\ thread' = "none"
  /\ batch' = queue /\ queue' = <<>>
  /\ UNCHANGED <<timed, running, signal, pc, sessions, requests>>

Drained ==
  /\ init = "draining" /\ batch = <<>>
  /\ init' = "off"
  /\ UNCHANGED <<thread, timed, running, signal, pc, queue, batch, sessions, requests>>

\* Time brings every transition nearer to its end.
Nearer(left) == IF left = Due THEN Due ELSE left - 1

TimePasses ==
  /\ \E k \in DOMAIN transitions : transitions[k].left # Due
  /\ transitions' = [k \in DOMAIN transitions |-> [transitions[k] EXCEPT !.left = Nearer(@)]]
  /\ UNCHANGED <<control, queue, batch, state, owed, asked, requests>>

----------------------------------------------------------------------------
ThreadNext ==
  \/ SetRunning \/ TestRunning \/ SettleDue \/ Wait \/ WaitTimesOut
  \/ HandleMsg \/ RunRequest \/ ClearSignal

SendNext(c) == ClientCalls(c) \/ SinkAnswers(c) \/ Notify(c)

LifeNext == InitManager \/ DeInit \/ NotifyStop \/ Join \/ Drained

Next == (\E c \in Sender : SendNext(c)) \/ ThreadNext \/ LifeNext \/ TimePasses

Spec == Init /\ [][Next]_vars

\* The thread, a sender inside SendRequest, a DeInit under way and time go
\* on; nobody has to call, and no sink has to answer.
FairSpec ==
  /\ Spec
  /\ WF_vars(ThreadNext) /\ WF_vars(TimePasses)
  /\ WF_vars(NotifyStop \/ Join \/ Drained)
  /\ \A c \in Sender : WF_vars(Notify(c))

----------------------------------------------------------------------------
TypeOK ==
  /\ init \in {"off", "up", "stopping", "joining", "draining"}
  /\ thread \in {"none", "born", "test", "lock", "asleep", "handle", "run", "exited"}
  /\ {timed, running, signal} \subseteq BOOLEAN
  /\ queue \in Seq(Request) /\ batch \in Seq(Request)
  /\ pc \in [Sender -> {"idle", "pushed"}]
  /\ state \in [Session -> State]
  /\ transitions \in Seq(Transition)
  /\ owed \subseteq Request
  /\ asked \in [Session -> Operation \cup {"none"}]
  /\ requests \in 0 .. MaxRequests

\* The thread never sleeps while a request is queued, except for the moment
\* in which the sender is on its way to Notify: the signal it clears after
\* HandleMsg may be that of a request HandleMsg did not see.
NoSleepOverWork ==
  thread = "asleep" /\ queue # <<>> => \E c \in Sender : pc[c] = "pushed"

\* The answers of the sink and those of the timer come late and in any
\* order; a session is nevertheless where its last request took it.
StateFollowsRequests ==
  \A s \in Session :
    state[s] \in CASE asked[s] = "none"    -> {"NEW"}
                   [] asked[s] = "Start"   -> {"RUNNING"}
                   [] asked[s] = "Pause"   -> {"PAUSING", "PAUSED"}
                   [] asked[s] = "Stop"    -> {"STOPPING", "STOPPED"}
                   [] asked[s] = "Destroy" -> {"RELEASED"}

HasTimer(s, answer) ==
  \E k \in DOMAIN transitions :
    transitions[k].session = s /\ transitions[k].answer = answer

\* A session that waits for an answer has a timer that will give it: no
\* answer to an earlier request, or to another session, has taken the timer
\* away.
EveryWaitIsTimed ==
  \A s \in Session :
    /\ state[s] = "PAUSING"  => HasTimer(s, "PAUSED")
    /\ state[s] = "STOPPING" => HasTimer(s, "STOPPED")

\* While a session waits, the thread does not go to sleep without a limit:
\* the sink may be silent, and then only the timer of 60 ms settles it.  The
\* one way to miss it is that less than a millisecond was left when the
\* thread went to sleep, which NextDelay takes for no timer at all.
OnlyTruncationOversleeps ==
  thread = "asleep" /\ ~timed /\ (\E s \in Session : state[s] \in {"PAUSING", "STOPPING"})
    => Head(transitions).left # Long

\* A request that is queued while the manager is up is taken and run.
RequestsAreServed ==
  init = "up" /\ queue # <<>> ~> init # "up" \/ queue = <<>>

\* DeInit returns, if the thread had set running_ when it was told to stop:
\* whatever the thread was doing, NotifyStop gets it out.  (A DeInit before
\* that is undone by SetRunning.)
DeInitReturns ==
  init = "stopping" /\ ~running /\ thread # "born" ~> init = "off"

=============================================================================
