----------------------------- MODULE FutexTool -----------------------------
(***************************************************************************)
(* FutexTool::FutexWait and FutexTool::FutexWake (futex_tool.cpp): how a   *)
(* thread of the client waits for room or data in a shared ring, and how   *)
(* the other side, or another thread of the client, wakes it up.           *)
(*                                                                         *)
(* cond stands for the predicate the caller passes in (room in the ring,   *)
(* a state that is no longer RUNNING, a restore request): a waker makes it *)
(* true before it calls FutexWake, and the waiter's caller makes it false  *)
(* again when it has used what it waited for.                              *)
(*                                                                         *)
(* The futex system calls are the kernel's: FUTEX_WAIT compares the word   *)
(* and goes to sleep in one step, FUTEX_WAKE releases every sleeper.       *)
(***************************************************************************)
EXTENDS Naturals

CONSTANTS
  Waiter, Waker,  \* threads that call FutexWait, FutexWake
  WaitTryCount,   \* WAIT_TRY_COUNT
  MaxWake         \* bound: calls of FutexWake(IS_READY) in a behaviour

ASSUME FutexAssumption ==
  /\ Waiter \cap Waker = {}
  /\ WaitTryCount \in Nat \ {0}
  /\ MaxWake \in Nat

VARIABLES
  word,    \* the futex word
  cond,    \* what pred() returns
  pc,      \* the label each thread is at
  tries,   \* tryCount of each waiter
  result,  \* the FutexCode of each waiter's last call
  wakes    \* calls of FutexWake so far

vars == <<word, cond, pc, tries, result, wakes>>

Word        == {"IS_READY", "IS_NOT_READY", "IS_PRE_EXIT"}
FutexCode   == {"FUTEX_SUCCESS", "FUTEX_TIMEOUT", "FUTEX_OPERATION_FAILED"}
WaiterLabel == {"idle", "take", "pred", "sleep", "asleep", "late", "again"}
WakerLabel  == {"idle", "swap", "preExit", "wake"}

Goto(t, label) == pc' = [pc EXCEPT ![t] = label]

Init ==
  /\ word = "IS_READY" /\ cond = FALSE
  /\ pc = [t \in Waiter \cup Waker |-> "idle"]
  /\ tries = [w \in Waiter |-> 0]
  /\ result = [w \in Waiter |-> "FUTEX_SUCCESS"]
  /\ wakes = 0

----------------------------------------------------------------------------
(* FutexWait. *)

Enter(w) ==
  /\ pc[w] = "idle"
  /\ tries' = [tries EXCEPT ![w] = 0]
  /\ Goto(w, "take")
  /\ UNCHANGED <<word, cond, result, wakes>>

Return(w, code) ==
  /\ result' = [result EXCEPT ![w] = code]
  /\ Goto(w, "idle")

\* The caller used up what it waited for, outside FutexWait.
Consume(w) ==
  /\ pc[w] = "idle"
  /\ cond' = FALSE
  /\ UNCHANGED <<word, pc, tries, result, wakes>>

\* What compare_exchange_strong(IS_READY, IS_NOT_READY) leaves in the word.
Taken == IF word = "IS_READY" THEN "IS_NOT_READY" ELSE word

TakeWord(w) ==
  /\ pc[w] = "take"
  /\ word' = Taken
  /\ IF word = "IS_PRE_EXIT"
       THEN Return(w, "FUTEX_OPERATION_FAILED")
       ELSE Goto(w, "pred") /\ result' = result
  /\ UNCHANGED <<cond, tries, wakes>>

TestPred(w) ==
  /\ pc[w] = "pred"
  /\ IF cond THEN Return(w, "FUTEX_SUCCESS")
             ELSE Goto(w, "sleep") /\ result' = result
  /\ UNCHANGED <<word, cond, tries, wakes>>

\* cost >= timeout, before the system call.
TimeIsUp(w) ==
  /\ pc[w] = "sleep"
  /\ Return(w, "FUTEX_TIMEOUT")
  /\ UNCHANGED <<word, cond, tries, wakes>>

\* The value FutexWait gives the system call to compare the word with, and
\* the slip of loading it from the word just before.
WordReloaded == word
AwaitedWord == "IS_NOT_READY"

\* FUTEX_WAIT compares and sleeps in one step; if not it is EAGAIN.
SleepsOn == word = AwaitedWord

SystemWait(w) ==
  /\ pc[w] = "sleep"
  /\ Goto(w, IF SleepsOn THEN "asleep" ELSE "again")
  /\ UNCHANGED <<word, cond, tries, result, wakes>>

\* A signal, or the time given to the kernel, ends the sleep.
Interrupted(w) ==
  /\ pc[w] = "asleep"
  /\ Goto(w, "again")
  /\ UNCHANGED <<word, cond, tries, result, wakes>>

KernelTimeout(w) ==
  /\ pc[w] = "asleep"
  /\ Goto(w, "late")
  /\ UNCHANGED <<word, cond, tries, result, wakes>>

\* Whether the loop goes round again.
TriesAgain(w) == tries[w] + 1 < WaitTryCount

\* After the system call: pred() once more, then ETIMEDOUT, then tryCount.
Awake(w) ==
  /\ pc[w] \in {"again", "late"}
  /\ IF cond \/ pc[w] = "late"
       THEN /\ Return(w, IF cond THEN "FUTEX_SUCCESS" ELSE "FUTEX_TIMEOUT")
            /\ tries' = tries
       ELSE /\ tries' = [tries EXCEPT ![w] = @ + 1]
            /\ IF TriesAgain(w)
                 THEN Goto(w, "take") /\ result' = result
                 ELSE Return(w, "FUTEX_OPERATION_FAILED")
  /\ UNCHANGED <<word, cond, wakes>>

----------------------------------------------------------------------------
(* FutexWake. *)

\* SetCurReadFrame and SetCurWriteFrame wake whether or not the predicate
\* of the thread that waits became true by it.
WakeBegin(k) ==
  /\ pc[k] = "idle" /\ wakes < MaxWake
  /\ wakes' = wakes + 1
  /\ cond' \in {cond, TRUE}
  /\ Goto(k, "swap")
  /\ UNCHANGED <<word, tries, result>>

\* compare_exchange_strong(IS_NOT_READY, IS_READY).
SwappedBlindly == "IS_READY"
Swapped == IF word = "IS_NOT_READY" THEN "IS_READY" ELSE word

\* Whether the system call follows: if the exchange was successful.
WakesWhenReady == word = "IS_READY"
WakesSleepers == word = "IS_NOT_READY"

SwapWord(k) ==
  /\ pc[k] = "swap"
  /\ word' = Swapped
  /\ Goto(k, IF WakesSleepers THEN "wake" ELSE "idle")
  /\ UNCHANGED <<cond, tries, result, wakes>>

\* FutexWake(IS_PRE_EXIT): JoinCallbackLoop, AudioProcessInClient::Release
\* and CapturerInServer::StopSession.
PreExitBegin(k) ==
  /\ pc[k] = "idle"
  /\ Goto(k, "preExit")
  /\ UNCHANGED <<word, cond, tries, result, wakes>>

StorePreExit(k) ==
  /\ pc[k] = "preExit"
  /\ word' = "IS_PRE_EXIT"
  /\ Goto(k, "wake")
  /\ UNCHANGED <<cond, tries, result, wakes>>

\* FUTEX_WAKE of INT_MAX sleepers.
Woken(w) == pc[w] = "asleep"

SystemWake(k) ==
  /\ pc[k] = "wake"
  /\ pc' = [t \in Waiter \cup Waker |->
              IF t = k THEN "idle"
              ELSE IF t \in Waiter /\ Woken(t) THEN "again" ELSE pc[t]]
  /\ UNCHANGED <<word, cond, tries, result, wakes>>

----------------------------------------------------------------------------
WaiterStep(w) ==
  \/ TakeWord(w) \/ TestPred(w) \/ SystemWait(w) \/ Awake(w)

WaiterNext(w) ==
  \/ Enter(w) \/ Consume(w) \/ WaiterStep(w)
  \/ TimeIsUp(w) \/ Interrupted(w) \/ KernelTimeout(w)

WakerStep(k) == SwapWord(k) \/ StorePreExit(k) \/ SystemWake(k)

WakerNext(k) == WakeBegin(k) \/ PreExitBegin(k) \/ WakerStep(k)

Next == (\E w \in Waiter : WaiterNext(w)) \/ (\E k \in Waker : WakerNext(k))

Spec == Init /\ [][Next]_vars

\* Threads inside a call keep running; no timeout or signal is relied on.
FairSpec ==
  /\ Spec
  /\ \A w \in Waiter : WF_vars(WaiterStep(w))
  /\ \A k \in Waker : WF_vars(WakerStep(k))

----------------------------------------------------------------------------
TypeOK ==
  /\ word \in Word /\ cond \in BOOLEAN
  /\ pc \in [Waiter \cup Waker -> WaiterLabel \cup WakerLabel]
  /\ \A w \in Waiter : pc[w] \in WaiterLabel
  /\ \A k \in Waker : pc[k] \in WakerLabel
  /\ tries \in [Waiter -> 0..WaitTryCount]
  /\ result \in [Waiter -> FutexCode]
  /\ wakes \in 0..MaxWake

WakeOnItsWay ==
  \/ \E k \in Waker : pc[k] = "wake"
  \/ word = "IS_NOT_READY" /\ \E k \in Waker : pc[k] = "swap"

\* A waiter that sleeps although its predicate is true is about to be
\* woken: the predicate cannot have become true between the test and the
\* system call and the wake-up been lost.  This needs what the clients of
\* the rings ensure, one waiter per ring: a second one could set the word
\* back to IS_NOT_READY between the first one's test and its system call.
NoLostWakeup ==
  \A w \in Waiter : pc[w] = "asleep" /\ cond => WakeOnItsWay

\* Nobody is left asleep by FutexWake(IS_PRE_EXIT), however many wait.
PreExitReachesAll ==
  \A w \in Waiter : pc[w] = "asleep" /\ word = "IS_PRE_EXIT" =>
    \E k \in Waker : pc[k] = "wake"

\* Neither a waiter's nor a waker's exchange takes IS_PRE_EXIT back.
PreExitIsFinal == [][word = "IS_PRE_EXIT" => word' = "IS_PRE_EXIT"]_word

\* A sleeper whose predicate is true gets out, without the timeout.
SleeperReturns ==
  \A w \in Waiter : pc[w] = "asleep" /\ cond ~> pc[w] # "asleep"

=============================================================================
