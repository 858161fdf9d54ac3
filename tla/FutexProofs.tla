---------------------------- MODULE FutexProofs ----------------------------
(***************************************************************************)
(* NoLostWakeup for one waiter and any number of wakers and calls, and the *)
(* PRE_EXIT properties for any number of waiters.                          *)
(***************************************************************************)
EXTENDS FutexTool, TLAPS

Thread == Waiter \cup Waker

\* A call that goes on has tries left.
TriesInv == \A w \in Waiter : pc[w] # "idle" => tries[w] < WaitTryCount

\* Nobody sleeps on a word other than IS_NOT_READY once the wake-up for it
\* has been given.
SleepInv ==
  \A w \in Waiter : pc[w] = "asleep" /\ word # "IS_NOT_READY" =>
    \E k \in Waker : pc[k] = "wake"

\* With one waiter, a waiter whose test is out of date is stopped by the
\* word, or a waker is still to change it.
WakeInv ==
  \A w \in Waiter :
    /\ pc[w] = "sleep" /\ cond /\ word = "IS_NOT_READY" =>
         \E k \in Waker : pc[k] = "swap"
    /\ pc[w] = "asleep" /\ cond => WakeOnItsWay

\* Every step keeps the variables in their domains.
LEMMA TypeStep == TypeOK /\ TriesInv /\ [Next]_vars => TypeOK' /\ TriesInv'
<1> USE FutexAssumption
    DEF TypeOK, TriesInv, Word, FutexCode, WaiterLabel, WakerLabel
<1> SUFFICES ASSUME TypeOK, TriesInv, [Next]_vars PROVE TypeOK' /\ TriesInv'
  OBVIOUS
<1>1. ASSUME NEW w \in Waiter, WaiterNext(w) PROVE TypeOK' /\ TriesInv'
  <2>1. CASE Enter(w)
    BY <2>1 DEF Enter, Goto
  <2>2. CASE Consume(w)
    BY <2>2 DEF Consume
  <2>3. CASE TakeWord(w)
    BY <2>3 DEF TakeWord, Taken, Goto, Return
  <2>4. CASE TestPred(w)
    BY <2>4 DEF TestPred, Goto, Return
  <2>5. CASE SystemWait(w)
    BY <2>5 DEF SystemWait, Goto
  <2>6. CASE Awake(w)
    <3>1. CASE cond \/ pc[w] = "late"
      BY <2>6, <3>1 DEF Awake, Return, Goto
    <3>2. CASE ~ (cond \/ pc[w] = "late")
      <4>1. tries[w] \in Nat /\ tries[w] < WaitTryCount
        BY <2>6 DEF Awake
      <4>2. tries' = [tries EXCEPT ![w] = tries[w] + 1]
        BY <2>6, <3>2 DEF Awake
      <4>3. CASE TriesAgain(w)
        BY <2>6, <3>2, <4>1, <4>2, <4>3 DEF Awake, Return, Goto, TriesAgain
      <4>4. CASE ~ TriesAgain(w)
        BY <2>6, <3>2, <4>1, <4>2, <4>4 DEF Awake, Return, Goto, TriesAgain
      <4> QED BY <4>3, <4>4
    <3> QED BY <3>1, <3>2
  <2>7. CASE TimeIsUp(w)
    BY <2>7 DEF TimeIsUp, Return, Goto
  <2>8. CASE Interrupted(w)
    BY <2>8 DEF Interrupted, Goto
  <2>9. CASE KernelTimeout(w)
    BY <2>9 DEF KernelTimeout, Goto
  <2> QED BY <1>1, <2>1, <2>2, <2>3, <2>4, <2>5, <2>6, <2>7, <2>8, <2>9
          DEF WaiterNext, WaiterStep
<1>2. ASSUME NEW k \in Waker, WakerNext(k) PROVE TypeOK' /\ TriesInv'
  <2>1. CASE WakeBegin(k)
    <3>1. wakes' \in 0..MaxWake
      BY <2>1 DEF WakeBegin
    <3>2. cond' \in BOOLEAN
      BY <2>1, Zenon DEF WakeBegin
    <3>3. pc' = [pc EXCEPT ![k] = "swap"] /\ UNCHANGED <<word, tries, result>>
      BY <2>1 DEF WakeBegin, Goto
    <3>4. /\ pc' \in [Waiter \cup Waker -> WaiterLabel \cup WakerLabel]
          /\ \A v \in Waiter : pc'[v] = pc[v]
          /\ \A j \in Waker : pc'[j] \in WakerLabel
      BY <3>3
    <3> QED BY <3>1, <3>2, <3>3, <3>4
  <2>2. CASE SwapWord(k)
    BY <2>2 DEF SwapWord, Swapped, Goto
  <2>3. CASE PreExitBegin(k)
    BY <2>3 DEF PreExitBegin, Goto
  <2>4. CASE StorePreExit(k)
    BY <2>4 DEF StorePreExit, Goto
  <2>5. CASE SystemWake(k)
    BY <2>5 DEF SystemWake, Woken
  <2> QED BY <1>2, <2>1, <2>2, <2>3, <2>4, <2>5 DEF WakerNext, WakerStep
<1>3. CASE UNCHANGED vars
  BY <1>3 DEF vars
<1> QED BY <1>1, <1>2, <1>3 DEF Next

\* The labels, the result codes and the try count stay in their domains.
THEOREM FutexTypeCorrect == Spec => []TypeOK
<1>1. Init => TypeOK /\ TriesInv
  <2> SUFFICES ASSUME Init PROVE TypeOK /\ TriesInv
    OBVIOUS
  <2>1. 0 \in 0..WaitTryCount /\ 0 \in 0..MaxWake /\ 0 < WaitTryCount
    BY FutexAssumption
  <2> QED BY <2>1
             DEF Init, TypeOK, TriesInv, Word, FutexCode, WaiterLabel, WakerLabel
<1> QED BY <1>1, TypeStep, PTL DEF Spec

\* Every step keeps a wake-up on its way to those who sleep on a word that
\* has changed.
LEMMA SleepStep == TypeOK /\ SleepInv /\ [Next]_vars => SleepInv'
<1> USE FutexAssumption DEF TypeOK, SleepInv
<1> SUFFICES ASSUME TypeOK, SleepInv, [Next]_vars PROVE SleepInv'
  OBVIOUS
<1>1. ASSUME NEW w \in Waiter, WaiterNext(w) PROVE SleepInv'
  <2>1. \A k \in Waker : pc'[k] = pc[k]
    BY <1>1 DEF WaiterNext, WaiterStep, Enter, Consume, TakeWord, TestPred,
                SystemWait, Awake, TimeIsUp, Interrupted, KernelTimeout,
                Goto, Return
  <2>2. CASE SystemWait(w)
    BY <2>1, <2>2 DEF SystemWait, SleepsOn, AwaitedWord, Goto
  <2>3. CASE TakeWord(w)
    BY <2>1, <2>3 DEF TakeWord, Taken, Goto, Return
  <2>4. CASE Enter(w) \/ Consume(w) \/ TestPred(w) \/ Awake(w)
             \/ TimeIsUp(w) \/ Interrupted(w) \/ KernelTimeout(w)
    <3>1. word' = word
      BY <2>4 DEF Enter, Consume, TestPred, Awake, TimeIsUp, Interrupted,
                  KernelTimeout
    <3>2. \A v \in Waiter : pc'[v] = "asleep" => pc[v] = "asleep"
      BY <2>4 DEF Enter, Consume, TestPred, Awake, TimeIsUp, Interrupted,
                  KernelTimeout, Goto, Return
    <3> QED BY <2>1, <3>1, <3>2
  <2> QED BY <1>1, <2>2, <2>3, <2>4 DEF WaiterNext, WaiterStep
<1>2. ASSUME NEW k \in Waker, WakerNext(k) PROVE SleepInv'
  <2>1. CASE WakeBegin(k)
    BY <2>1 DEF WakeBegin, Goto
  <2>2. CASE SwapWord(k)
    BY <2>2 DEF SwapWord, Swapped, WakesSleepers, Goto
  <2>3. CASE PreExitBegin(k)
    BY <2>3 DEF PreExitBegin, Goto
  <2>4. CASE StorePreExit(k)
    BY <2>4 DEF StorePreExit, Goto
  <2>5. CASE SystemWake(k)
    BY <2>5 DEF SystemWake, Woken
  <2> QED BY <1>2, <2>1, <2>2, <2>3, <2>4, <2>5 DEF WakerNext, WakerStep
<1>3. CASE UNCHANGED vars
  BY <1>3 DEF vars
<1> QED BY <1>1, <1>2, <1>3 DEF Next

\* FutexWake(IS_PRE_EXIT) leaves nobody asleep, however many threads wait.
THEOREM PreExitReaches == Spec => []PreExitReachesAll
<1>1. Init => SleepInv
  BY FutexAssumption DEF Init, SleepInv
<1>2. SleepInv => PreExitReachesAll
  BY DEF SleepInv, PreExitReachesAll
<1> QED BY <1>1, <1>2, SleepStep, FutexTypeCorrect, PTL DEF Spec

\* No exchange of the word takes IS_PRE_EXIT back.
THEOREM PreExitStays == Spec => PreExitIsFinal
<1>1. [Next]_vars => [word = "IS_PRE_EXIT" => word' = "IS_PRE_EXIT"]_word
  BY DEF Next, vars, WaiterNext, WaiterStep, Enter, Consume, TakeWord, Taken,
         TestPred, SystemWait, Awake, TimeIsUp, Interrupted, KernelTimeout,
         WakerNext, WakerStep, WakeBegin, SwapWord, Swapped, PreExitBegin,
         StorePreExit, SystemWake
<1> QED BY <1>1, PTL DEF Spec, PreExitIsFinal

----------------------------------------------------------------------------
\* Every step keeps a wake-up on its way to the one waiter whose predicate
\* has become true.
LEMMA WakeStep ==
  ASSUME \A v, w \in Waiter : v = w
  PROVE  TypeOK /\ SleepInv /\ WakeInv /\ [Next]_vars => WakeInv'
<1> USE FutexAssumption DEF TypeOK, WakeInv, WakeOnItsWay
<1> SUFFICES ASSUME TypeOK, SleepInv, WakeInv, [Next]_vars PROVE WakeInv'
  OBVIOUS
<1>1. ASSUME NEW w \in Waiter, WaiterNext(w) PROVE WakeInv'
  <2>1. \A k \in Waker : pc'[k] = pc[k]
    BY <1>1 DEF WaiterNext, WaiterStep, Enter, Consume, TakeWord, TestPred,
                SystemWait, Awake, TimeIsUp, Interrupted, KernelTimeout,
                Goto, Return
  <2>2. CASE SystemWait(w)
    BY <2>1, <2>2 DEF SystemWait, SleepsOn, AwaitedWord, Goto
  <2>3. CASE TestPred(w)
    BY <2>1, <2>3 DEF TestPred, Goto, Return
  <2>4. CASE Enter(w) \/ TakeWord(w) \/ Awake(w) \/ TimeIsUp(w)
             \/ Interrupted(w) \/ KernelTimeout(w)
    <3>1. pc'[w] \notin {"sleep", "asleep"}
      BY <2>4 DEF Enter, TakeWord, Awake, TimeIsUp, Interrupted,
                  KernelTimeout, Goto, Return
    <3> QED BY <3>1
  <2>5. CASE Consume(w)
    BY <2>1, <2>5 DEF Consume
  <2> QED BY <1>1, <2>2, <2>3, <2>4, <2>5 DEF WaiterNext, WaiterStep
<1>2. ASSUME NEW k \in Waker, WakerNext(k) PROVE WakeInv'
  <2>1. CASE WakeBegin(k)
    <3>1. pc'[k] = "swap" /\ word' = word
      BY <2>1 DEF WakeBegin, Goto
    <3>2. \A t \in Thread : t # k => pc'[t] = pc[t]
      BY <2>1 DEF WakeBegin, Goto, Thread
    <3>3. \A v \in Waiter : pc'[v] = pc[v]
      BY <3>2 DEF Thread
    <3>4. \A v \in Waiter : pc[v] = "asleep" =>
            word = "IS_NOT_READY" \/ \E j \in Waker : pc[j] = "wake"
      BY DEF SleepInv
    <3>5. pc[k] = "idle"
      BY <2>1 DEF WakeBegin
    <3>6. \A j \in Waker : pc[j] = "wake" => pc'[j] = "wake"
      BY <3>2, <3>5 DEF Thread
    <3> QED BY <3>1, <3>3, <3>4, <3>6
  <2>2. CASE SwapWord(k)
    BY <2>2 DEF SwapWord, Swapped, WakesSleepers, Goto
  <2>3. CASE PreExitBegin(k)
    BY <2>3 DEF PreExitBegin, Goto
  <2>4. CASE StorePreExit(k)
    BY <2>4 DEF StorePreExit, Goto
  <2>5. CASE SystemWake(k)
    <3>1. \A v \in Waiter : pc'[v] # "asleep"
      BY <2>5 DEF SystemWake, Woken
    <3>2. /\ \A v \in Waiter : pc'[v] = "sleep" => pc[v] = "sleep"
          /\ \A j \in Waker : pc[j] = "swap" => pc'[j] = "swap"
      BY <2>5 DEF SystemWake, Woken
    <3>3. word' = word /\ cond' = cond
      BY <2>5 DEF SystemWake
    <3> QED BY <3>1, <3>2, <3>3
  <2> QED BY <1>2, <2>1, <2>2, <2>3, <2>4, <2>5 DEF WakerNext, WakerStep
<1>3. CASE UNCHANGED vars
  BY <1>3 DEF vars
<1> QED BY <1>1, <1>2, <1>3 DEF Next

\* Between its test of the predicate and its system call the only waiter of
\* a ring cannot miss the wake-up.
THEOREM WakeupsAreNotLost ==
  ASSUME \A v, w \in Waiter : v = w
  PROVE  Spec => []NoLostWakeup
<1>1. Init => SleepInv /\ WakeInv
  BY FutexAssumption DEF Init, SleepInv, WakeInv
<1>2. WakeInv => NoLostWakeup
  BY DEF WakeInv, NoLostWakeup
<1>3. TypeOK /\ SleepInv /\ WakeInv /\ [Next]_vars => WakeInv'
  BY WakeStep
<1> QED BY <1>1, <1>2, <1>3, SleepStep, FutexTypeCorrect, PTL DEF Spec

=============================================================================
