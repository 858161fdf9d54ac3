-------------------------- MODULE HpaeManagerProofs --------------------------
(***************************************************************************)
(* The safety properties of HpaeManager for any number of threads that     *)
(* call it, any number of sessions and any number of requests.             *)
(***************************************************************************)
EXTENDS HpaeManager, TLAPS, SequenceTheorems, WellFoundedInduction

(***************************************************************************)
(* DequeuePendingTransition.                                               *)
(***************************************************************************)

\* The least index of a match is a match: < is well-founded.
LEMMA MinIsLeast ==
  ASSUME NEW I, I \subseteq Nat, I # {}
  PROVE  Min(I) \in I
<1>1. PICK x \in I : \A y \in I : ~ (<<y, x>> \in OpToRel(<, Nat))
  BY NatLessThanWellFounded, WFMin
<1>2. \A y \in I : x <= y
  <2> TAKE y \in I
  <2>1. ~ (<<y, x>> \in OpToRel(<, Nat)) /\ x \in Nat /\ y \in Nat
    BY <1>1
  <2> QED BY <2>1 DEF OpToRel
<1> QED BY <1>2 DEF Min

\* Taking one element out of a sequence keeps every other.
LEMMA RemoveAtKeepsOthers ==
  ASSUME NEW S, NEW s \in Seq(S), NEW m \in 1 .. Len(s)
  PROVE  /\ RemoveAt(s, m) \in Seq(S)
         /\ \A i \in 1 .. Len(s) : i # m =>
              \E j \in DOMAIN RemoveAt(s, m) : RemoveAt(s, m)[j] = s[i]
<1> DEFINE front == SubSeq(s, 1, m - 1)
           back == SubSeq(s, m + 1, Len(s))
<1>1. \A i \in 1 .. Len(s) : s[i] \in S
  BY ElementOfSeq
<1>2. Len(s) \in Nat
  BY LenProperties
<1>3. /\ front \in Seq(S) /\ Len(front) = m - 1
      /\ \A i \in 1 .. m - 1 : front[i] = s[i]
  <2>1. 1 \in Int /\ m - 1 \in Int /\ \A i \in 1 .. m - 1 : s[i] \in S
    BY <1>1, <1>2
  <2> QED BY <1>2, <2>1, SubSeqProperties
<1>4. /\ back \in Seq(S) /\ Len(back) = Len(s) - m
      /\ \A i \in 1 .. Len(s) - m : back[i] = s[m + i]
  <2>1. m + 1 \in Int /\ Len(s) \in Int /\ \A i \in m + 1 .. Len(s) : s[i] \in S
    BY <1>1, <1>2
  <2>2. /\ back \in Seq(S)
        /\ Len(back) = IF m + 1 <= Len(s) THEN Len(s) - (m + 1) + 1 ELSE 0
        /\ \A i \in 1 .. Len(s) - (m + 1) + 1 : back[i] = s[m + 1 + i - 1]
    BY <2>1, SubSeqProperties
  <2> HIDE DEF back
  <2>3. ASSUME NEW i \in 1 .. Len(s) - m PROVE back[i] = s[m + i]
    <3>1. i \in 1 .. Len(s) - (m + 1) + 1 /\ m + 1 + i - 1 = m + i
      BY <1>2
    <3> QED BY <2>2, <3>1
  <2> QED BY <1>2, <2>2, <2>3
<1> HIDE DEF front, back
<1>5. RemoveAt(s, m) = front \o back
  BY DEF RemoveAt, front, back
<1>6. /\ front \o back \in Seq(S)
      /\ Len(front \o back) = Len(front) + Len(back)
      /\ \A i \in 1 .. Len(front) + Len(back) :
           (front \o back)[i] = IF i <= Len(front) THEN front[i] ELSE back[i - Len(front)]
  BY <1>3, <1>4, ConcatProperties
<1>7. DOMAIN (front \o back) = 1 .. Len(s) - 1
  BY <1>2, <1>3, <1>4, <1>6, LenProperties
<1>8. ASSUME NEW i \in 1 .. Len(s), i # m
      PROVE  \E j \in DOMAIN (front \o back) : (front \o back)[j] = s[i]
  <2>1. CASE i < m
    <3>1. i \in 1 .. m - 1 /\ i \in 1 .. Len(s) - 1 /\ i \in 1 .. Len(front) + Len(back)
      BY <1>2, <1>3, <1>4, <2>1
    <3>2. i <= Len(front)
      BY <1>2, <1>3, <2>1
    <3>3. (front \o back)[i] = front[i]
      BY <1>6, <3>1, <3>2
    <3>4. front[i] = s[i]
      BY <1>3, <3>1
    <3> QED BY <1>7, <3>1, <3>3, <3>4
  <2>2. CASE i > m
    <3>1. /\ i - 1 \in 1 .. Len(s) - 1 /\ i - 1 \in 1 .. Len(front) + Len(back)
          /\ ~ (i - 1 <= Len(front)) /\ i - 1 - Len(front) = i - m
          /\ i - m \in 1 .. Len(s) - m /\ m + (i - m) = i
      BY <1>2, <1>3, <1>4, <2>2
    <3>2. (front \o back)[i - 1] = back[i - m]
      BY <1>6, <3>1
    <3>3. back[i - m] = s[i]
      BY <1>4, <3>1
    <3> QED BY <1>7, <3>1, <3>2, <3>3
  <2> QED BY <1>2, <1>8, <2>1, <2>2
<1> QED BY <1>5, <1>6, <1>8

\* It keeps the timers of the other sessions.
LEMMA DequeueKeepsOthers ==
  ASSUME NEW tr \in Seq(Transition), NEW s \in Session
  PROVE  /\ DequeuePendingTransition(tr, s) \in Seq(Transition)
         /\ \A i \in 1 .. Len(tr) : tr[i].session # s =>
              \E j \in DOMAIN DequeuePendingTransition(tr, s) :
                DequeuePendingTransition(tr, s)[j] = tr[i]
<1> DEFINE I == {i \in 1 .. Len(tr) : tr[i].session = s}
<1>1. CASE I = {}
  BY <1>1, LenProperties DEF DequeuePendingTransition, RemoveFirstMatch
<1>2. CASE I # {}
  <2>1. DequeuePendingTransition(tr, s) = RemoveAt(tr, Min(I))
    BY <1>2 DEF DequeuePendingTransition, RemoveFirstMatch, SelectInSeq
  <2>2. I \subseteq Nat
    OBVIOUS
  <2>3. Min(I) \in I
    <3> HIDE DEF I
    <3> QED BY <1>2, <2>2, MinIsLeast
  <2>4. Min(I) \in 1 .. Len(tr) /\ tr[Min(I)].session = s
    BY <2>3
  <2> HIDE DEF I
  <2> QED BY <2>1, <2>4, RemoveAtKeepsOthers
<1> QED BY <1>1, <1>2

----------------------------------------------------------------------------
(* The inductive invariant. *)

\* The requests that are left when the manager goes down are run by its
\* caller only once the thread has been joined.
ThreadLives == thread = "none" <=> init \in {"off", "draining"}

\* The thread that sleeps without a limit found no timer in front with a
\* millisecond or more to go, and nobody has added one since.
SleepIsLimited ==
  thread = "asleep" /\ ~timed /\ transitions # <<>> => Head(transitions).left # Long

IInv ==
  /\ TypeOK
  /\ ThreadLives
  /\ NoSleepOverWork
  /\ StateFollowsRequests
  /\ EveryWaitIsTimed
  /\ SleepIsLimited

\* At the start there is no thread, no request and no timer.
LEMMA InitHolds == Init => IInv
<1> SUFFICES ASSUME Init PROVE IInv
  OBVIOUS
<1>1. TypeOK
  <2>1. /\ init \in {"off", "up", "stopping", "joining", "draining"}
        /\ thread \in {"none", "born", "test", "lock", "asleep", "handle", "run", "exited"}
        /\ {timed, running, signal} \subseteq BOOLEAN
    BY DEF Init
  <2>2. queue \in Seq(Request) /\ batch \in Seq(Request) /\ transitions \in Seq(Transition)
    BY DEF Init
  <2>3. /\ pc \in [Sender -> {"idle", "pushed"}]
        /\ state \in [Session -> State]
        /\ asked \in [Session -> Operation \cup {"none"}]
    BY DEF Init, State
  <2>4. owed \subseteq Request
    BY DEF Init
  <2>5. requests \in 0 .. MaxRequests
    BY MaxRequestsAssumption DEF Init
  <2> QED BY <2>1, <2>2, <2>3, <2>4, <2>5 DEF TypeOK
<1>2. ThreadLives /\ NoSleepOverWork /\ StateFollowsRequests /\ EveryWaitIsTimed
  BY DEF Init, ThreadLives, NoSleepOverWork, StateFollowsRequests, EveryWaitIsTimed
<1>3. SleepIsLimited
  BY DEF Init, SleepIsLimited
<1> QED BY <1>1, <1>2, <1>3 DEF IInv

(* What a request or a timer does to the sessions. *)

SessionsOK ==
  /\ state \in [Session -> State]
  /\ transitions \in Seq(Transition)
  /\ owed \subseteq Request
  /\ asked \in [Session -> Operation \cup {"none"}]
  /\ StateFollowsRequests
  /\ EveryWaitIsTimed

\* The senders, Init and DeInit, and the steps of the thread that run nothing,
\* leave the sessions alone.
LEMMA SessionsUnchanged ==
  ASSUME SessionsOK, UNCHANGED sessions PROVE SessionsOK'
<1>1. UNCHANGED <<state, transitions, owed, asked>>
  BY DEF sessions
<1>2. StateFollowsRequests'
  BY <1>1 DEF SessionsOK, StateFollowsRequests
<1>3. EveryWaitIsTimed'
  BY <1>1 DEF SessionsOK, EveryWaitIsTimed, HasTimer
<1> QED BY <1>1, <1>2, <1>3 DEF SessionsOK

\* An answer settles the session it is for, or changes nothing, whichever
\* timer tr has lost: that of another answer, or of this one if it is taken.
LEMMA UpdateStatusStep ==
  ASSUME SessionsOK, NEW s \in Session, NEW answer \in Answer, NEW tr \in Seq(Transition),
         HandleUpdateStatus(s, answer, tr), UNCHANGED <<owed, asked>>,
         \A i \in 1 .. Len(transitions) :
           \/ transitions[i].session = s /\ transitions[i].answer = answer
           \/ \E j \in 1 .. Len(tr) : tr[j] = transitions[i]
  PROVE  SessionsOK'
<1> USE DEF SessionsOK
<1>1. CASE IsValid(answer, state[s])
  <2>1. /\ transitions' = DequeuePendingTransition(tr, s)
        /\ state' = [state EXCEPT ![s] = answer]
    BY <1>1 DEF HandleUpdateStatus
  <2>2. /\ transitions' \in Seq(Transition)
        /\ \A i \in 1 .. Len(tr) : tr[i].session # s =>
             \E j \in DOMAIN transitions' : transitions'[j] = tr[i]
    BY <2>1, DequeueKeepsOthers
  <2>3. state' \in [Session -> State]
    BY <2>1 DEF Answer, State
  <2>4. StateFollowsRequests'
    BY <1>1, <2>1 DEF StateFollowsRequests, IsValid, Operation
  <2>5. ASSUME NEW u \in Session, NEW a \in Answer, u # s, HasTimer(u, a)
        PROVE  HasTimer(u, a)'
    <3>1. PICK i \in 1 .. Len(transitions) :
            transitions[i].session = u /\ transitions[i].answer = a
      BY <2>5, LenProperties DEF HasTimer
    <3>2. PICK j \in 1 .. Len(tr) : tr[j] = transitions[i]
      BY <2>5, <3>1
    <3>3. tr[j].session # s
      BY <2>5, <3>1, <3>2
    <3> QED BY <2>2, <3>1, <3>2, <3>3 DEF HasTimer
  <2>6. EveryWaitIsTimed'
    <3> SUFFICES ASSUME NEW u \in Session
                 PROVE  /\ state'[u] = "PAUSING"  => HasTimer(u, "PAUSED")'
                        /\ state'[u] = "STOPPING" => HasTimer(u, "STOPPED")'
      BY DEF EveryWaitIsTimed
    <3>1. CASE u = s
      BY <2>1, <3>1 DEF Answer
    <3>2. CASE u # s
      <4>1. state'[u] = state[u]
        BY <2>1, <3>2
      <4> QED BY <2>5, <3>2, <4>1 DEF EveryWaitIsTimed, Answer
    <3> QED BY <3>1, <3>2
  <2> QED BY <2>2, <2>3, <2>4, <2>6
<1>2. CASE ~ IsValid(answer, state[s])
  <2>1. transitions' = tr /\ UNCHANGED state
    BY <1>2 DEF HandleUpdateStatus
  <2>2. StateFollowsRequests'
    BY <2>1 DEF StateFollowsRequests
  <2>3. ASSUME NEW u \in Session, NEW a \in Answer, IsValid(a, state[u]), HasTimer(u, a)
        PROVE  HasTimer(u, a)'
    <3>1. PICK i \in 1 .. Len(transitions) :
            transitions[i].session = u /\ transitions[i].answer = a
      BY <2>3, LenProperties DEF HasTimer
    <3>2. PICK j \in 1 .. Len(tr) : tr[j] = transitions[i]
      BY <1>2, <2>3, <3>1
    <3>3. DOMAIN tr = 1 .. Len(tr)
      BY LenProperties
    <3> QED BY <2>1, <3>1, <3>2, <3>3 DEF HasTimer
  <2>4. EveryWaitIsTimed'
    BY <2>1, <2>3 DEF EveryWaitIsTimed, IsValid, Answer
  <2> QED BY <2>1, <2>2, <2>4
<1> QED BY <1>1, <1>2

\* A call takes the session where the caller wants it and, if that has to be
\* waited for, starts the timer.
LEMMA ExecuteStep ==
  ASSUME SessionsOK, NEW s \in Session, NEW op \in Operation, Execute(s, op)
  PROVE  SessionsOK'
<1> USE DEF SessionsOK
<1>1. ASSUME NEW st \in State, UNCHANGED <<transitions, owed>>,
             state' = [state EXCEPT ![s] = st], asked' = [asked EXCEPT ![s] = op],
             \/ st = "RELEASED" /\ op = "Destroy"
             \/ st = "RUNNING" /\ op = "Start"
      PROVE  SessionsOK'
  <2>1. StateFollowsRequests'
    BY <1>1 DEF StateFollowsRequests
  <2>2. \A u \in Session : state'[u] \in {"PAUSING", "STOPPING"} => state'[u] = state[u]
    BY <1>1
  <2>3. EveryWaitIsTimed'
    BY <1>1, <2>2 DEF EveryWaitIsTimed, HasTimer
  <2>4. state' \in [Session -> State] /\ asked' \in [Session -> Operation \cup {"none"}]
    BY <1>1
  <2> QED BY <1>1, <2>1, <2>3, <2>4
<1>2. ASSUME NEW awaiting, NEW answer \in Answer, AwaitAnswer(s, awaiting, answer),
             \/ op = "Pause" /\ awaiting = "PAUSING" /\ answer = "PAUSED"
             \/ op = "Stop" /\ awaiting = "STOPPING" /\ answer = "STOPPED",
             state[s] # "RELEASED"
      PROVE  SessionsOK'
  <2> DEFINE t == [session |-> s, answer |-> answer, left |-> Long]
  <2>1. t \in Transition
    BY DEF Transition, Long, Due
  <2>2. /\ transitions' \in Seq(Transition)
        /\ DOMAIN transitions = 1 .. Len(transitions)
        /\ DOMAIN transitions' = 1 .. Len(transitions) + 1
        /\ \A i \in 1 .. Len(transitions) : transitions'[i] = transitions[i]
        /\ transitions'[Len(transitions) + 1] = t
    <3>1. transitions' = Append(transitions, t)
      BY <1>2 DEF AwaitAnswer
    <3> HIDE DEF t
    <3> QED BY <2>1, <3>1, AppendProperties, LenProperties
  <2>3. state' = [state EXCEPT ![s] = awaiting] /\ asked' = [asked EXCEPT ![s] = op]
    BY <1>2 DEF AwaitAnswer, Execute
  <2>4. owed' \subseteq Request
    BY <1>2 DEF AwaitAnswer, Request
  <2>5. /\ state' \in [Session -> State]
        /\ asked' \in [Session -> Operation \cup {"none"}]
        /\ StateFollowsRequests'
    BY <1>2, <2>3 DEF StateFollowsRequests, State
  <2>6. \A u \in Session, a \in Answer : HasTimer(u, a) => HasTimer(u, a)'
    BY <2>2 DEF HasTimer
  <2>7. HasTimer(s, answer)'
    <3>1. Len(transitions) + 1 \in DOMAIN transitions'
      BY <2>2, LenProperties
    <3> QED BY <2>2, <3>1 DEF HasTimer
  <2>8. EveryWaitIsTimed'
    BY <1>2, <2>3, <2>6, <2>7 DEF EveryWaitIsTimed, Answer
  <2> QED BY <2>2, <2>4, <2>5, <2>8
<1>3. CASE op \in {"Destroy", "Start"} /\ state[s] # "RELEASED"
  <2>1. asked' = [asked EXCEPT ![s] = op] /\ UNCHANGED <<transitions, owed>>
    BY <1>3 DEF Execute
  <2>2. \/ op = "Destroy" /\ state' = [state EXCEPT ![s] = "RELEASED"]
        \/ op = "Start" /\ state' = [state EXCEPT ![s] = "RUNNING"]
    BY <1>3 DEF Execute
  <2> QED BY <1>1, <2>1, <2>2 DEF State
<1>4. CASE op = "Pause" /\ state[s] # "RELEASED"
  <2>1. AwaitAnswer(s, "PAUSING", "PAUSED")
    BY <1>4 DEF Execute
  <2> QED BY <1>2, <1>4, <2>1 DEF Answer
<1>5. CASE op = "Stop" /\ state[s] # "RELEASED"
  <2>1. AwaitAnswer(s, "STOPPING", "STOPPED")
    BY <1>5 DEF Execute
  <2> QED BY <1>2, <1>5, <2>1 DEF Answer
<1>6. CASE state[s] = "RELEASED"
  BY <1>6, SessionsUnchanged DEF Execute, sessions
<1> QED BY <1>3, <1>4, <1>5, <1>6 DEF Operation

----------------------------------------------------------------------------
(* The invariant is inductive. *)

\* A thread that calls the manager only adds to the queue and sets the signal.
LEMMA SendStep == ASSUME IInv, NEW c \in Sender, SendNext(c) PROVE IInv'
<1> USE DEF IInv
<1>1. ASSUME NEW r \in Request, Push(c, r), owed' \subseteq owed, requests' \in 0 .. MaxRequests
      PROVE  IInv'
  <2>1. UNCHANGED <<init, thread, timed, running, signal, batch, state, transitions, asked>>
    BY <1>1 DEF Push
  <2>2. queue' \in Seq(Request) /\ pc' = [pc EXCEPT ![c] = "pushed"]
    BY <1>1, AppendProperties DEF Push, TypeOK
  <2>3. TypeOK'
    BY <1>1, <2>1, <2>2 DEF TypeOK
  <2>4. ThreadLives' /\ SleepIsLimited'
    BY <2>1 DEF ThreadLives, SleepIsLimited
  <2>5. NoSleepOverWork'
    BY <2>2 DEF NoSleepOverWork, TypeOK
  <2>6. StateFollowsRequests' /\ EveryWaitIsTimed'
    BY <2>1 DEF StateFollowsRequests, EveryWaitIsTimed, HasTimer
  <2> QED BY <2>3, <2>4, <2>5, <2>6
<1>2. CASE ClientCalls(c)
  <2>1. PICK s \in Session, op \in Operation :
          Push(c, [session |-> s, op |-> op]) /\ requests < MaxRequests /\ requests' = requests + 1
    BY <1>2 DEF ClientCalls
  <2>2. [session |-> s, op |-> op] \in Request
    BY DEF Request
  <2>3. requests' \in 0 .. MaxRequests
    BY <2>1, MaxRequestsAssumption DEF TypeOK
  <2> QED BY <1>1, <1>2, <2>1, <2>2, <2>3 DEF ClientCalls
<1>3. CASE SinkAnswers(c)
  <2>1. PICK r \in owed : owed' = owed \ {r} /\ Push(c, r) /\ UNCHANGED requests
    BY <1>3 DEF SinkAnswers
  <2>2. r \in Request /\ owed' \subseteq owed /\ requests' \in 0 .. MaxRequests
    BY <2>1 DEF TypeOK
  <2> QED BY <1>1, <2>1, <2>2
<1>4. CASE Notify(c)
  <2>1. UNCHANGED <<init, timed, running, queue, batch, sessions, requests>>
    BY <1>4 DEF Notify
  <2>2. /\ thread' # "asleep" /\ signal' \in BOOLEAN
        /\ (thread' = "none") <=> (thread = "none")
        /\ thread' \in {"none", "born", "test", "lock", "asleep", "handle", "run", "exited"}
    BY <1>4 DEF Notify, Signal, TypeOK
  <2>3. TypeOK'
    <3>1. pc' \in [Sender -> {"idle", "pushed"}]
      BY <1>4 DEF Notify, TypeOK
    <3> QED BY <2>1, <2>2, <3>1 DEF TypeOK, sessions
  <2>4. ThreadLives' /\ SleepIsLimited' /\ NoSleepOverWork'
    BY <2>1, <2>2 DEF ThreadLives, SleepIsLimited, NoSleepOverWork
  <2>5. SessionsOK'
    BY <2>1, SessionsUnchanged DEF SessionsOK, TypeOK
  <2> QED BY <2>3, <2>4, <2>5 DEF SessionsOK
<1> QED BY <1>2, <1>3, <1>4 DEF SendNext

\* Init starts the thread; DeInit ends it, waits, and runs what is left in its place.
LEMMA LifeStep == ASSUME IInv, LifeNext PROVE IInv'
<1> USE DEF IInv
<1>1. UNCHANGED <<timed, pc, sessions, requests>>
  BY DEF LifeNext, InitManager, DeInit, NotifyStop, Join, Drained
<1>2. thread' # "asleep" \/ UNCHANGED <<thread, queue, transitions>>
  BY DEF LifeNext, InitManager, DeInit, NotifyStop, Join, Drained, Signal, sessions
<1>3. SleepIsLimited' /\ NoSleepOverWork'
  BY <1>1, <1>2 DEF SleepIsLimited, NoSleepOverWork
<1>4. ThreadLives'
  BY DEF ThreadLives, LifeNext, InitManager, DeInit, NotifyStop, Join, Drained, Signal
<1>5. /\ init' \in {"off", "up", "stopping", "joining", "draining"}
      /\ thread' \in {"none", "born", "test", "lock", "asleep", "handle", "run", "exited"}
  BY DEF TypeOK, LifeNext, InitManager, DeInit, NotifyStop, Join, Drained, Signal
<1>6. running' \in BOOLEAN /\ signal' \in BOOLEAN
  BY DEF TypeOK, LifeNext, InitManager, DeInit, NotifyStop, Join, Drained, Signal
<1>7. queue' \in Seq(Request) /\ batch' \in Seq(Request)
  <2>1. queue' \in {queue, <<>>} /\ batch' \in {queue, batch}
    BY DEF LifeNext, InitManager, DeInit, NotifyStop, Join, Drained
  <2>2. <<>> \in Seq(Request) /\ queue \in Seq(Request) /\ batch \in Seq(Request)
    BY EmptySeq DEF TypeOK
  <2> QED BY <2>1, <2>2
<1>8. TypeOK'
  BY <1>1, <1>5, <1>6, <1>7 DEF TypeOK, sessions
<1>9. SessionsOK'
  BY <1>1, SessionsUnchanged DEF SessionsOK, TypeOK
<1> QED BY <1>3, <1>4, <1>8, <1>9 DEF SessionsOK

\* Only SettleDue and RunRequest of the thread's steps touch the sessions, and
\* the thread is awake in both.
LEMMA RunRequestStep == ASSUME IInv, RunRequest PROVE IInv'
<1> USE DEF IInv
<1>1. /\ UNCHANGED <<control, queue, requests>>
      /\ batch' \in Seq(Request) /\ Head(batch) \in Request
  BY HeadTailProperties DEF RunRequest, TypeOK
<1>2. thread # "asleep"
  BY DEF RunRequest, ThreadLives
<1>3. SessionsOK'
  <2> DEFINE r == Head(batch)
  <2>1. r.session \in Session /\ r.op \in Operation \cup Answer
    BY <1>1 DEF Request
  <2>2. SessionsOK
    BY DEF SessionsOK, TypeOK
  <2>3. CASE r.op \in Answer
    <3>1. HandleUpdateStatus(r.session, r.op, transitions) /\ UNCHANGED <<owed, asked>>
      BY <2>3 DEF RunRequest
    <3>2. transitions \in Seq(Transition)
      BY DEF TypeOK
    <3> QED BY <2>1, <2>2, <2>3, <3>1, <3>2, UpdateStatusStep
  <2>4. CASE r.op \notin Answer
    <3>1. Execute(r.session, r.op)
      BY <2>4 DEF RunRequest
    <3> QED BY <2>1, <2>2, <2>4, <3>1, ExecuteStep
  <2> QED BY <2>3, <2>4
<1> QED BY <1>1, <1>2, <1>3 DEF SessionsOK, TypeOK, control, ThreadLives, NoSleepOverWork,
           SleepIsLimited

\* The timer in front is taken away and its session settled.
LEMMA SettleDueStep == ASSUME IInv, SettleDue PROVE IInv'
<1> USE DEF IInv
<1> DEFINE t == Head(transitions)
<1>1. /\ t = transitions[1] /\ t \in Transition /\ Tail(transitions) \in Seq(Transition)
      /\ \A i \in 1 .. Len(transitions) : i # 1 =>
           i - 1 \in 1 .. Len(Tail(transitions)) /\ Tail(transitions)[i - 1] = transitions[i]
  <2>1. transitions \in Seq(Transition) /\ transitions # <<>>
    BY DEF SettleDue, TypeOK
  <2> QED BY <2>1, HeadTailProperties, LenProperties
<1>2. /\ UNCHANGED <<control, queue, batch, owed, asked, requests>>
      /\ HandleUpdateStatus(t.session, t.answer, Tail(transitions))
      /\ thread # "asleep"
  BY DEF SettleDue
<1>3. SessionsOK /\ t.session \in Session /\ t.answer \in Answer
  BY <1>1 DEF SessionsOK, TypeOK, Transition
<1>4. \A i \in 1 .. Len(transitions) :
        \/ transitions[i].session = t.session /\ transitions[i].answer = t.answer
        \/ \E j \in 1 .. Len(Tail(transitions)) : Tail(transitions)[j] = transitions[i]
  BY <1>1
<1>5. SessionsOK'
  BY <1>1, <1>2, <1>3, <1>4, UpdateStatusStep
<1> QED BY <1>2, <1>5 DEF SessionsOK, TypeOK, control, ThreadLives, NoSleepOverWork,
           SleepIsLimited

\* The thread goes to sleep with nothing to do, and with a limit if a timer asks
\* for one of a millisecond or more.
LEMMA WaitStep == ASSUME IInv, Wait PROVE IInv'
<1> USE DEF IInv
<1>1. /\ UNCHANGED <<init, pc, running, signal, queue, batch, sessions, requests>>
      /\ thread' \in {"handle", "asleep"} /\ thread = "lock"
  BY DEF Wait, Goto
<1>2. timed' \in BOOLEAN
  BY DEF Wait
<1>3. TypeOK'
  BY <1>1, <1>2 DEF TypeOK, sessions
<1>4. ThreadLives' /\ NoSleepOverWork'
  BY <1>1 DEF ThreadLives, NoSleepOverWork, Wait, Goto, HasWork
<1>5. SleepIsLimited'
  <2> SUFFICES ASSUME ~timed', transitions # <<>> PROVE Head(transitions).left # Long
    BY <1>1 DEF SleepIsLimited, sessions
  <2>1. Head(transitions).left - 1 <= 0
    <3>1. Head(transitions) \in Transition
      BY HeadTailProperties DEF TypeOK
    <3>2. ~ (NextDelay > 0)
      <4>1. timed' = (NextDelay > 0)
        BY DEF Wait
      <4> QED BY <4>1, Zenon
    <3>3. NextDelay = Head(transitions).left - 1 /\ Head(transitions).left \in 0 .. 2
      BY <3>1 DEF NextDelay, Transition, Due, Long
    <3> QED BY <3>2, <3>3
  <2> QED BY <2>1 DEF Long
<1>6. SessionsOK'
  BY <1>1, SessionsUnchanged DEF SessionsOK, TypeOK
<1> QED BY <1>3, <1>4, <1>5, <1>6 DEF SessionsOK

\* Every step of the thread.
LEMMA ThreadStep == ASSUME IInv, ThreadNext PROVE IInv'
<1> USE DEF IInv
<1>1. ASSUME UNCHANGED <<init, pc, timed, sessions, requests>>,
             thread' \in {"test", "lock", "exited", "handle", "run"}, thread # "none",
             running' \in BOOLEAN, signal' \in BOOLEAN,
             queue' \in Seq(Request), batch' \in Seq(Request)
      PROVE  IInv'
  <2>1. TypeOK'
    BY <1>1 DEF TypeOK, sessions
  <2>2. ThreadLives' /\ NoSleepOverWork' /\ SleepIsLimited'
    BY <1>1 DEF ThreadLives, NoSleepOverWork, SleepIsLimited
  <2>3. SessionsOK'
    BY <1>1, SessionsUnchanged DEF SessionsOK, TypeOK
  <2> QED BY <2>1, <2>2, <2>3 DEF SessionsOK
<1>2. CASE SetRunning
  BY <1>1, <1>2 DEF SetRunning, Goto, TypeOK
<1>3. CASE TestRunning
  BY <1>1, <1>3 DEF TestRunning, Goto, TypeOK
<1>4. CASE WaitTimesOut
  BY <1>1, <1>4 DEF WaitTimesOut, Goto, TypeOK
<1>5. CASE HandleMsg
  BY <1>1, <1>5 DEF HandleMsg, Goto, TypeOK
<1>6. CASE ClearSignal
  BY <1>1, <1>6 DEF ClearSignal, Goto, TypeOK
<1> QED BY <1>2, <1>3, <1>4, <1>5, <1>6, WaitStep, SettleDueStep, RunRequestStep DEF ThreadNext

\* Time takes a timer away from nobody and gives none a millisecond back.
LEMMA TimeStep == ASSUME IInv, TimePasses PROVE IInv'
<1> USE DEF IInv
<1>1. /\ UNCHANGED <<control, queue, batch, state, owed, asked, requests>>
      /\ transitions \in Seq(Transition) /\ transitions # <<>>
      /\ DOMAIN transitions = 1 .. Len(transitions) /\ Len(transitions) \in Nat
      /\ \A k \in 1 .. Len(transitions) : transitions[k] \in Transition
  <2>1. transitions \in Seq(Transition) /\ DOMAIN transitions # {}
    BY DEF TimePasses, TypeOK
  <2> QED BY <2>1, LenProperties, ElementOfSeq DEF TimePasses
<1>2. /\ DOMAIN transitions' = DOMAIN transitions
      /\ transitions' = [k \in 1 .. Len(transitions) |-> transitions'[k]]
      /\ \A k \in 1 .. Len(transitions) :
           transitions'[k] = [transitions[k] EXCEPT !.left = Nearer(transitions[k].left)]
  BY <1>1 DEF TimePasses
<1>3. \A k \in 1 .. Len(transitions) :
        /\ transitions'[k] \in Transition /\ transitions'[k].left # Long
        /\ transitions'[k].session = transitions[k].session
        /\ transitions'[k].answer = transitions[k].answer
  <2> TAKE k \in 1 .. Len(transitions)
  <2>1. Nearer(transitions[k].left) \in {0, 1}
    BY <1>1 DEF Nearer, Transition, Due, Long
  <2> QED BY <1>1, <1>2, <2>1 DEF Transition, Due, Long
<1>4. transitions' \in Seq(Transition)
  <2>1. transitions' \in [1 .. Len(transitions) -> Transition]
    BY <1>2, <1>3
  <2> QED BY <1>1, <2>1, SeqDef
<1>5. TypeOK' /\ ThreadLives' /\ NoSleepOverWork' /\ StateFollowsRequests'
  BY <1>1, <1>4 DEF TypeOK, ThreadLives, NoSleepOverWork, StateFollowsRequests, control
<1>6. EveryWaitIsTimed'
  BY <1>1, <1>2, <1>3 DEF EveryWaitIsTimed, HasTimer
<1>7. SleepIsLimited'
  <2>1. 1 \in 1 .. Len(transitions) /\ Head(transitions') = transitions'[1]
    BY <1>1, <1>2, <1>4
  <2> QED BY <1>3, <2>1 DEF SleepIsLimited
<1> QED BY <1>5, <1>6, <1>7

\* The strengthening is kept by every step.
THEOREM ManagerInvariant == Spec => []IInv
<1>1. IInv /\ UNCHANGED vars => IInv'
  <2> SUFFICES ASSUME IInv, UNCHANGED vars PROVE IInv'
    OBVIOUS
  <2>1. TypeOK' /\ ThreadLives' /\ NoSleepOverWork' /\ SleepIsLimited'
    BY DEF IInv, TypeOK, ThreadLives, NoSleepOverWork, SleepIsLimited, vars, control, sessions
  <2>2. SessionsOK'
    BY SessionsUnchanged DEF SessionsOK, IInv, TypeOK, vars
  <2> QED BY <2>1, <2>2 DEF IInv, SessionsOK
<1>2. IInv /\ [Next]_vars => IInv'
  BY <1>1, SendStep, ThreadStep, LifeStep, TimeStep DEF Next
<1> QED BY <1>2, InitHolds, PTL DEF Spec

\* Every variable of the manager keeps its type, whoever calls.
THEOREM ManagerTypeCorrect == Spec => []TypeOK
<1>1. IInv => TypeOK
  BY DEF IInv
<1> QED BY <1>1, ManagerInvariant, PTL

\* The thread sleeps over a request only while its sender is about to notify.
THEOREM WorkIsNotSleptOver == Spec => []NoSleepOverWork
<1>1. IInv => NoSleepOverWork
  BY DEF IInv
<1> QED BY <1>1, ManagerInvariant, PTL

\* Late answers of the sink and of the timer leave every session where its
\* last request took it.
THEOREM StatesFollowRequests == Spec => []StateFollowsRequests
<1>1. IInv => StateFollowsRequests
  BY DEF IInv
<1> QED BY <1>1, ManagerInvariant, PTL

\* No answer takes the timer of a session that still waits.
THEOREM WaitsAreTimed == Spec => []EveryWaitIsTimed
<1>1. IInv => EveryWaitIsTimed
  BY DEF IInv
<1> QED BY <1>1, ManagerInvariant, PTL

\* A sleep without limit while a session waits comes of the truncated delay.
THEOREM OversleepIsTruncation == Spec => []OnlyTruncationOversleeps
<1>1. IInv => OnlyTruncationOversleeps
  <2>1. EveryWaitIsTimed /\ (\E s \in Session : state[s] \in {"PAUSING", "STOPPING"})
          => transitions # <<>>
    BY DEF EveryWaitIsTimed, HasTimer
  <2> QED BY <2>1 DEF IInv, SleepIsLimited, OnlyTruncationOversleeps
<1> QED BY <1>1, ManagerInvariant, PTL

=============================================================================
