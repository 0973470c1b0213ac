-------------------------- MODULE SemaphoreProofs ---------------------------
(***************************************************************************)
(* Proofs about Semaphore for any finite set of tasks and any counts.      *)
(***************************************************************************)
EXTENDS Semaphore, KernelLemmas

\* A waiter does not hold a unit yet; needed to count the units.
WaiterHoldsNone == \A t \in held : pc[t] = "out"

IInv ==
  /\ TypeOK
  /\ WaitListExact
  /\ NoIdleUnit
  /\ UnitConservation
  /\ WaiterHoldsNone

\* A semaphore fresh from sema_init has its units in the count and no waiter.
LEMMA InitIInv == Init => IInv
<1> SUFFICES ASSUME Init PROVE IInv
  OBVIOUS
<1>1. TypeOK
  BY SemaphoreConstants DEF Init, TypeOK, SleepStates, TaskStates, Signals
<1>2. Range(wait_list) = {} /\ Owed = {}
  BY DEF Init, Range, Owed
<1>3. WaitListExact
  BY <1>2 DEF Init, WaitListExact, NoDup
<1>4. UnitConservation
  BY <1>2, CardEmpty, SemaphoreConstants DEF Init, UnitConservation
<1> QED BY <1>1, <1>3, <1>4 DEF Init, IInv, NoIdleUnit, WaiterHoldsNone

\* The sets that are counted are finite.
LEMMA Finiteness ==
  ASSUME TypeOK
  PROVE  /\ IsFiniteSet(held) /\ Cardinality(held) \in Nat
         /\ IsFiniteSet(Owed) /\ Cardinality(Owed) \in Nat
BY SemaphoreConstants, CardSubset DEF TypeOK, Owed

\* The fast path and down_trylock move a unit from the count to the caller.
LEMMA TakeUnitIInv ==
  ASSUME IInv, NEW t \in Tasks, CanCall(t), TakeUnit(t)
  PROVE  IInv'
<1> USE DEF IInv, TakeUnit, CanCall, waiter
<1>1. TypeOK'
  BY DEF TypeOK
<1>2. WaitListExact' /\ NoIdleUnit'
  BY DEF WaitListExact, NoIdleUnit, Range, TypeOK
<1>3. Owed' = Owed
  BY DEF Owed
<1>4. Cardinality(held') = Cardinality(held) + 1
  BY Finiteness, CardMore
<1>5. UnitConservation'
  BY <1>3, <1>4, Finiteness, SemaphoreConstants DEF UnitConservation, TypeOK
<1>6. WaiterHoldsNone'
  BY DEF WaiterHoldsNone
<1> QED BY <1>1, <1>2, <1>5, <1>6

\* __down_common queues the caller as a waiter without a unit, or gives up at
\* once with the list as it was.
LEMMA EnterIInv ==
  ASSUME IInv, NEW t \in Tasks, NEW st \in SleepStates,
         NEW tmo \in {"none", "left", "expired"},
         CanCall(t), DownCommonEnter(t, st, tmo)
  PROVE  IInv'
<1> USE DEF IInv, CanCall
<1>1. CASE UNCHANGED <<wait_list, waiter, state>>
  <2>1. UNCHANGED <<count, wait_list, pc, up, mode, timeout, state, sig, held, extra>>
    BY <1>1 DEF DownCommonEnter, waiter
  <2> QED BY <2>1 DEF TypeOK, WaitListExact, NoIdleUnit, UnitConservation,
                      WaiterHoldsNone, Owed
<1>2. CASE /\ wait_list' = Append(wait_list, t)
           /\ pc' = [pc EXCEPT ![t] = "wait"]
           /\ up' = [up EXCEPT ![t] = FALSE]
           /\ mode' = [mode EXCEPT ![t] = st]
           /\ timeout' = [timeout EXCEPT ![t] = tmo]
           /\ state' = [state EXCEPT ![t] = st]
  <2>0. UNCHANGED <<count, held, sig, extra>> /\ count = 0
    BY DEF DownCommonEnter
  <2>1. t \notin Range(wait_list)
    BY DEF WaitListExact
  <2>2. /\ wait_list' \in Seq(Tasks) /\ NoDup(wait_list')
        /\ Range(wait_list') = Range(wait_list) \cup {t}
    BY <1>2, <2>1, AppendList DEF TypeOK, WaitListExact
  <2>3. TypeOK'
    BY <1>2, <2>0, <2>2 DEF TypeOK, TaskStates
  <2>4. WaitListExact'
    BY <1>2, <2>2 DEF WaitListExact, TypeOK
  <2>5. Owed' = Owed
    BY <1>2 DEF Owed, TypeOK
  <2>6. UnitConservation' /\ NoIdleUnit'
    BY <2>0, <2>5 DEF UnitConservation, NoIdleUnit
  <2>7. WaiterHoldsNone'
    BY <1>2, <2>0 DEF WaiterHoldsNone, TypeOK
  <2> QED BY <2>3, <2>4, <2>6, <2>7
<1> QED BY <1>1, <1>2 DEF DownCommonEnter

\* A waiter that finds waiter.up set turns the unit it is owed into a held one.
LEMMA GrantedIInv ==
  ASSUME IInv, NEW t \in Tasks, pc[t] = "wait", Granted(t), UNCHANGED <<sig, extra>>
  PROVE  IInv'
<1> USE DEF IInv, Granted, LeaveWait, sem
<1>1. TypeOK'
  BY DEF TypeOK, SleepStates
<1>2. WaitListExact' /\ NoIdleUnit'
  BY DEF WaitListExact, NoIdleUnit, TypeOK
<1>3. Owed' = Owed \ {t} /\ t \in Owed /\ t \notin held
  BY DEF Owed, TypeOK, WaiterHoldsNone
<1>4. Cardinality(Owed') = Cardinality(Owed) - 1
  BY <1>3, Finiteness, CardLess
<1>5. Cardinality(held') = Cardinality(held) + 1
  BY <1>3, Finiteness, CardMore
<1>6. UnitConservation'
  BY <1>4, <1>5, Finiteness, SemaphoreConstants DEF UnitConservation, TypeOK
<1>7. WaiterHoldsNone'
  BY DEF WaiterHoldsNone, TypeOK
<1> QED BY <1>1, <1>2, <1>6, <1>7

\* A waiter that leaves with -EINTR or -ETIME was owed nothing and takes nothing.
LEMMA CancelIInv ==
  ASSUME IInv, NEW t \in Tasks, pc[t] = "wait", InterruptedOrTimedOut(t),
         UNCHANGED <<sig, extra>>
  PROVE  IInv'
<1> USE DEF IInv, InterruptedOrTimedOut, LeaveWait
<1>1. t \in Range(wait_list)
  BY DEF WaitListExact
<1>2. /\ wait_list' \in Seq(Tasks) /\ NoDup(wait_list')
      /\ Range(wait_list') = Range(wait_list) \ {t}
  BY <1>1, DelList DEF TypeOK, WaitListExact
<1>3. TypeOK'
  BY <1>2 DEF TypeOK, SleepStates
<1>4. WaitListExact'
  BY <1>2 DEF WaitListExact, TypeOK
<1>5. Owed' = Owed
  BY DEF Owed, TypeOK
<1>6. UnitConservation' /\ WaiterHoldsNone'
  BY <1>5 DEF UnitConservation, WaiterHoldsNone, TypeOK
<1>7. wait_list # <<>>
  BY <1>1 DEF Range
<1> QED BY <1>3, <1>4, <1>6, <1>7 DEF NoIdleUnit

\* The arithmetic of one more unit.
LEMMA OneMoreUnit ==
  \A c, o, h, i, e, e2, h2 \in Nat :
    c + o + h = i + e /\ h + e2 = h2 + e + 1 =>
      (c + 1) + o + h2 = i + e2 /\ c + (o + 1) + h2 = i + e2
OBVIOUS

\* up() puts the unit in the count when nobody waits, else __up owes it to the
\* first waiter.
LEMMA GiveUnitIInv ==
  ASSUME IInv, GiveUnit, UNCHANGED sig, extra' \in 0..MaxExtraUps,
         held' \subseteq held,
         Cardinality(held) + extra' = Cardinality(held') + extra + 1
  PROVE  IInv'
<1> USE DEF IInv
<1>0. Cardinality(held') \in Nat
  BY SemaphoreConstants, CardSubset DEF TypeOK
<1>9. /\ count \in Nat /\ extra \in Nat /\ extra' \in Nat /\ InitCount \in Nat
      /\ Cardinality(held) \in Nat /\ Cardinality(Owed) \in Nat
      /\ count + Cardinality(Owed) + Cardinality(held) = InitCount + extra
  BY Finiteness, SemaphoreConstants DEF TypeOK, UnitConservation
<1>10. /\ (count + 1) + Cardinality(Owed) + Cardinality(held') = InitCount + extra'
       /\ count + (Cardinality(Owed) + 1) + Cardinality(held') = InitCount + extra'
  BY <1>0, <1>9, OneMoreUnit
<1>1. CASE /\ wait_list = <<>> /\ count' = count + 1
           /\ UNCHANGED <<wait_list, waiter, state>>
  <2> USE <1>1 DEF waiter
  <2>1. TypeOK'
    BY DEF TypeOK
  <2>2. WaitListExact' /\ NoIdleUnit' /\ WaiterHoldsNone' /\ Owed' = Owed
    BY DEF WaitListExact, NoIdleUnit, WaiterHoldsNone, Owed
  <2>3. UnitConservation'
    BY <1>10, <2>2 DEF UnitConservation
  <2> QED BY <2>1, <2>2, <2>3
<1>2. CASE /\ wait_list # <<>> /\ wait_list' = Tail(wait_list)
           /\ up' = [up EXCEPT ![Head(wait_list)] = TRUE]
           /\ wake_up_process(Head(wait_list))
           /\ UNCHANGED <<count, pc, mode, timeout>>
  <2> DEFINE h == Head(wait_list)
  <2>1. /\ h \in Range(wait_list)
        /\ wait_list' \in Seq(Tasks) /\ NoDup(wait_list')
        /\ Range(wait_list') = Range(wait_list) \ {h}
    BY <1>2, TailList DEF TypeOK, WaitListExact
  <2>2. h \in Tasks /\ pc[h] = "wait" /\ ~up[h]
    BY <2>1 DEF WaitListExact
  <2>3. TypeOK'
    BY <1>2, <2>1, <2>2 DEF TypeOK, wake_up_process, TaskStates
  <2>4. WaitListExact'
    BY <1>2, <2>1, <2>2 DEF WaitListExact, TypeOK
  <2>5. Owed' = Owed \cup {h} /\ h \notin Owed
    BY <1>2, <2>2 DEF Owed, TypeOK
  <2>6. Cardinality(Owed') = Cardinality(Owed) + 1
    BY <2>5, Finiteness, CardMore
  <2>7. UnitConservation'
    BY <1>2, <1>10, <2>6 DEF UnitConservation
  <2>8. NoIdleUnit' /\ WaiterHoldsNone'
    BY <1>2 DEF NoIdleUnit, WaiterHoldsNone
  <2> QED BY <2>3, <2>4, <2>7, <2>8
<1> QED BY <1>1, <1>2 DEF GiveUnit

\* The steps that leave the queue, the count and the holders alone.
LEMMA QuietIInv ==
  ASSUME IInv, TypeOK', UNCHANGED <<sem, pc, up, held, extra>>
  PROVE  IInv'
BY DEF IInv, sem, WaitListExact, NoIdleUnit, UnitConservation, WaiterHoldsNone, Owed

\* Signals, timers and stray wake-ups touch neither units nor queue.
LEMMA EnvIInv ==
  ASSUME IInv, NEW t \in Tasks, Env(t)
  PROVE  IInv'
<1>1. UNCHANGED <<sem, pc, up, held, extra>>
  BY DEF Env, SendSignal, HandleSignal, TimerFires, SpuriousWakeup, waiter
<1>2. TypeOK'
  BY DEF Env, SendSignal, HandleSignal, TimerFires, SpuriousWakeup, waiter, sem,
         wake_up_process, IInv, TypeOK, TaskStates, Signals
<1> QED BY <1>1, <1>2, QuietIInv

\* What a waiter does when it runs again.
LEMMA ResumeIInv ==
  ASSUME IInv, NEW t \in Tasks, DownCommonResume(t)
  PROVE  IInv'
<1>1. CASE SleepAgain(t)
  <2>1. TypeOK'
    BY <1>1 DEF SleepAgain, DownCommonResume, IInv, TypeOK, TaskStates, sem, waiter
  <2> QED BY <1>1, <2>1, QuietIInv DEF SleepAgain, DownCommonResume, waiter
<1> QED BY <1>1, GrantedIInv, CancelIInv DEF DownCommonResume

\* All five down variants.
LEMMA AnyDownIInv ==
  ASSUME IInv, NEW t \in Tasks, AnyDown(t)
  PROVE  IInv'
BY TakeUnitIInv, EnterIInv
   DEF AnyDown, Down, DownInterruptible, DownKillable, DownTimeout, DownTrylock,
       DownWith, SleepStates

\* up() by a task that holds a unit.
LEMMA UpIInv ==
  ASSUME IInv, NEW t \in Tasks, Up(t)
  PROVE  IInv'
<1>1. Cardinality(held') = Cardinality(held) - 1 /\ Cardinality(held) \in Nat
  BY Finiteness, CardLess DEF Up, IInv
<1>2. Cardinality(held) + extra' = Cardinality(held') + extra + 1
  BY <1>1, SemaphoreConstants DEF Up, IInv, TypeOK
<1> QED BY <1>2, GiveUnitIInv DEF Up, IInv, TypeOK

\* up() by a context that never called down() adds a unit.
LEMMA UpFromElsewhereIInv ==
  ASSUME IInv, UpFromElsewhere
  PROVE  IInv'
<1>0. /\ Cardinality(held) \in Nat /\ extra \in Nat
      /\ held' = held /\ extra' = extra + 1
  BY Finiteness, SemaphoreConstants DEF UpFromElsewhere, IInv, TypeOK
<1>1. Cardinality(held) + extra' = Cardinality(held') + extra + 1
  BY <1>0
<1>2. extra' \in 0..MaxExtraUps
  BY SemaphoreConstants DEF UpFromElsewhere, IInv, TypeOK
<1> QED BY <1>1, <1>2, GiveUnitIInv DEF UpFromElsewhere

\* Every step of the semaphore preserves the inductive invariant.
LEMMA NextIInv == IInv /\ [Next]_vars => IInv'
<1> SUFFICES ASSUME IInv, [Next]_vars PROVE IInv'
  OBVIOUS
<1>1. CASE UNCHANGED vars
  BY <1>1, QuietIInv DEF vars, sem, IInv, TypeOK
<1>2. CASE UpFromElsewhere
  BY <1>2, UpFromElsewhereIInv
<1>3. ASSUME NEW t \in Tasks,
             AnyDown(t) \/ DownCommonResume(t) \/ Up(t) \/ Env(t)
      PROVE  IInv'
  BY <1>3, AnyDownIInv, ResumeIInv, UpIInv, EnvIInv
<1> QED BY <1>1, <1>2, <1>3 DEF Next

\* The inductive invariant holds of every execution of the semaphore.
THEOREM SemaphoreInvariant == Spec => []IInv
BY InitIInv, NextIInv, PTL DEF Spec

\* Types: in particular sem->count, an unsigned int in the code, is never
\* taken below zero by racing down variants.
THEOREM SemaphoreTypeOK == Spec => []TypeOK
BY SemaphoreInvariant, PTL DEF IInv

\* down(), its interrupted and timed-out variants, up() and __up() neither lose
\* nor make a unit, for any number of tasks and any interleaving.
THEOREM SemaphoreConservation == Spec => []UnitConservation
BY SemaphoreInvariant, PTL DEF IInv

\* sem->wait_list never holds a waiter whose down() has returned.
THEOREM SemaphoreWaitList == Spec => []WaitListExact
BY SemaphoreInvariant, PTL DEF IInv

\* up() never leaves a unit in sem->count while a waiter is queued.
THEOREM SemaphoreNoIdleUnit == Spec => []NoIdleUnit
BY SemaphoreInvariant, PTL DEF IInv
-----------------------------------------------------------------------------
\* Every step that gives a sleeping waiter a reason to run also wakes it.
LEMMA NextNoLostWakeup == TypeOK /\ NoLostWakeup /\ [Next]_vars => NoLostWakeup'
<1> SUFFICES ASSUME TypeOK, NoLostWakeup, [Next]_vars,
                    NEW p \in Tasks, pc'[p] = "wait", state'[p] # TASK_RUNNING
             PROVE  /\ state'[p] = mode'[p]
                    /\ ~up'[p]
                    /\ ~signal_pending_state(mode'[p], sig'[p])
                    /\ timeout'[p] # "expired"
  BY DEF NoLostWakeup
<1> USE DEF TypeOK, NoLostWakeup
<1>1. CASE UNCHANGED vars
  BY <1>1 DEF vars
<1>2. ASSUME GiveUnit, UNCHANGED sig
      PROVE  /\ state'[p] = mode'[p]
             /\ ~up'[p]
             /\ ~signal_pending_state(mode'[p], sig'[p])
             /\ timeout'[p] # "expired"
  BY <1>2 DEF GiveUnit, wake_up_process, waiter
<1>3. ASSUME NEW t \in Tasks, Env(t)
      PROVE  /\ state'[p] = mode'[p]
             /\ ~up'[p]
             /\ ~signal_pending_state(mode'[p], sig'[p])
             /\ timeout'[p] # "expired"
  BY <1>3 DEF Env, SendSignal, HandleSignal, TimerFires, SpuriousWakeup, waiter, sem,
              wake_up_process, signal_pending_state
<1>4. ASSUME NEW t \in Tasks, DownCommonResume(t)
      PROVE  /\ state'[p] = mode'[p]
             /\ ~up'[p]
             /\ ~signal_pending_state(mode'[p], sig'[p])
             /\ timeout'[p] # "expired"
  BY <1>4 DEF DownCommonResume, Granted, InterruptedOrTimedOut, SleepAgain, LeaveWait,
              sem, waiter
<1>5. ASSUME NEW t \in Tasks, NEW st, NEW tmo, DownWith(t, st, tmo)
      PROVE  /\ state'[p] = mode'[p]
             /\ ~up'[p]
             /\ ~signal_pending_state(mode'[p], sig'[p])
             /\ timeout'[p] # "expired"
  BY <1>5 DEF DownWith, TakeUnit, DownCommonEnter, waiter
<1>6. ASSUME NEW t \in Tasks, DownTrylock(t)
      PROVE  DownWith(t, TASK_UNINTERRUPTIBLE, "none")
  BY <1>6 DEF DownTrylock, DownWith
<1> QED BY <1>1, <1>2, <1>3, <1>4, <1>5, <1>6
        DEF Next, AnyDown, Down, DownInterruptible, DownKillable, DownTimeout, Up,
            UpFromElsewhere

\* A wakeup is never lost: no task sleeps in __down_common with waiter.up set, a
\* signal its state admits pending, or its timeout over.
THEOREM SemaphoreNoLostWakeup == Spec => []NoLostWakeup
<1>1. Init => NoLostWakeup
  BY DEF Init, NoLostWakeup
<1> QED BY <1>1, NextNoLostWakeup, SemaphoreTypeOK, PTL DEF Spec
-----------------------------------------------------------------------------
\* Units nobody holds, as the abstract semaphore counts them.
Avail == count + Cardinality(Owed)

\* up() makes one more unit available, in the count or owed.
LEMMA GiveUnitAvail ==
  ASSUME IInv, GiveUnit
  PROVE  Avail' = Avail + 1
<1>0. count \in Nat /\ Cardinality(Owed) \in Nat /\ IsFiniteSet(Owed)
  BY Finiteness DEF IInv, TypeOK
<1>1. CASE wait_list = <<>>
  <2>1. count' = count + 1 /\ Owed' = Owed
    BY <1>1 DEF GiveUnit, waiter, Owed
  <2> QED BY <1>0, <2>1 DEF Avail
<1>2. CASE wait_list # <<>>
  <2>1. /\ count' = count /\ pc' = pc
        /\ up' = [up EXCEPT ![Head(wait_list)] = TRUE]
    BY <1>2 DEF GiveUnit
  <2>2. Head(wait_list) \in Range(wait_list)
    BY <1>2, TailList DEF IInv, TypeOK, WaitListExact
  <2>3. /\ Head(wait_list) \in Tasks \ Owed
        /\ pc[Head(wait_list)] = "wait"
    BY <2>2 DEF IInv, WaitListExact, Owed
  <2>4. Owed' = Owed \cup {Head(wait_list)}
    BY <2>1, <2>3 DEF Owed, IInv, TypeOK
  <2>5. Cardinality(Owed') = Cardinality(Owed) + 1
    BY <1>0, <2>3, <2>4, CardMore
  <2> QED BY <1>0, <2>1, <2>5 DEF Avail
<1> QED BY <1>1, <1>2

\* Taking a unit on the fast path is the abstract P.
LEMMA TakeUnitAvail ==
  ASSUME IInv, NEW t \in Tasks, CanCall(t), TakeUnit(t)
  PROVE  Abstract!P(t)
<1>0. count \in Nat /\ Cardinality(Owed) \in Nat
  BY Finiteness DEF IInv, TypeOK
<1>1. count > 0 /\ count' = count - 1 /\ Owed' = Owed
  BY DEF TakeUnit, waiter, Owed
<1> QED BY <1>0, <1>1 DEF Abstract!P, TakeUnit, CanCall

\* Queueing up leaves the available units alone.
LEMMA EnterAvail ==
  ASSUME IInv, NEW t \in Tasks, NEW st, NEW tmo, CanCall(t), DownCommonEnter(t, st, tmo)
  PROVE  Avail' = Avail /\ held' = held
<1>1. Owed' = Owed
  BY DEF CanCall, DownCommonEnter, Owed, waiter, IInv, TypeOK
<1> QED BY <1>1 DEF DownCommonEnter, Avail

\* Returning with the granted unit is the abstract P; leaving or sleeping again
\* is invisible.
LEMMA ResumeAvail ==
  ASSUME IInv, NEW t \in Tasks, DownCommonResume(t)
  PROVE  Abstract!P(t) \/ (Avail' = Avail /\ held' = held)
<1>0. count \in Nat /\ Cardinality(Owed) \in Nat /\ IsFiniteSet(Owed)
  BY Finiteness DEF IInv, TypeOK
<1>1. CASE Granted(t)
  <2>1. t \in Owed /\ t \notin held /\ Owed' = Owed \ {t} /\ count' = count
    BY <1>1 DEF Granted, LeaveWait, Owed, sem, DownCommonResume, IInv, TypeOK,
                WaiterHoldsNone
  <2>2. Cardinality(Owed') = Cardinality(Owed) - 1
    BY <1>0, <2>1, CardLess
  <2>3. Cardinality(Owed') \in Nat
    BY <1>0, <2>1, CardSubset
  <2> QED BY <1>0, <1>1, <2>1, <2>2, <2>3 DEF Abstract!P, Granted
<1>2. CASE InterruptedOrTimedOut(t) \/ SleepAgain(t)
  <2>1. Owed' = Owed
    BY <1>2 DEF InterruptedOrTimedOut, SleepAgain, LeaveWait, Owed, waiter, IInv, TypeOK
  <2> QED BY <1>2, <2>1 DEF InterruptedOrTimedOut, SleepAgain, sem, Avail
<1> QED BY <1>1, <1>2 DEF DownCommonResume

\* Every step of the code is a step of the P/V semaphore or none.
LEMMA StepRefines == IInv /\ [Next]_vars => [Abstract!ANext]_(Abstract!avars)
<1> SUFFICES ASSUME IInv, [Next]_vars
             PROVE  Abstract!ANext \/ (Avail' = Avail /\ held' = held)
  BY DEF Abstract!avars, Avail
<1>1. CASE UNCHANGED vars
  BY <1>1 DEF vars, Avail, Owed
<1>2. CASE UpFromElsewhere
  BY <1>2, GiveUnitAvail
     DEF UpFromElsewhere, Abstract!ANext, Abstract!VElsewhere, Avail
<1>3. ASSUME NEW t \in Tasks, Up(t) PROVE Abstract!V(t)
  BY <1>3, GiveUnitAvail DEF Up, Abstract!V, Avail
<1>4. ASSUME NEW t \in Tasks, AnyDown(t)
      PROVE  Abstract!P(t) \/ (Avail' = Avail /\ held' = held)
  BY <1>4, TakeUnitAvail, EnterAvail
     DEF AnyDown, Down, DownInterruptible, DownKillable, DownTimeout, DownTrylock,
         DownWith
<1>5. ASSUME NEW t \in Tasks, Env(t) PROVE Avail' = Avail /\ held' = held
  BY <1>5 DEF Env, SendSignal, HandleSignal, TimerFires, SpuriousWakeup, waiter, sem,
              Avail, Owed
<1> QED BY <1>1, <1>2, <1>3, <1>4, <1>5, ResumeAvail DEF Next, Abstract!ANext

\* The semaphore component implements the P/V semaphore: no race of signals,
\* timeouts and hand-overs lets a task in without an available unit.
THEOREM SemaphoreImplementsPV == Spec => ImplementsPV
<1>1. Init => Abstract!AInit
  <2>1. ASSUME Init PROVE Owed = {}
    BY <2>1 DEF Init, Owed
  <2>2. ASSUME Init PROVE Abstract!AInit
    <3>1. Cardinality(Owed) = 0 /\ InitCount \in Nat /\ count = InitCount /\ held = {}
      BY Zenon, <2>1, <2>2, CardEmpty, SemaphoreConstants DEF Init
    <3> QED BY <3>1 DEF Abstract!AInit, Avail
  <2> QED BY <2>2
<1> QED BY <1>1, StepRefines, SemaphoreInvariant, PTL
        DEF Spec, ImplementsPV, Abstract!ASpec
=============================================================================
