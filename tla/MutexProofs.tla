----------------------------- MODULE MutexProofs ----------------------------
(***************************************************************************)
(* Proofs about Mutex for any set of tasks, on one CPU or on several.      *)
(***************************************************************************)
EXTENDS Mutex, KernelLemmas

USE Zenon

\* A mutex that was handed over was handed to the first waiter, and that waiter
\* is still the first.  The list changes at its head only when the head itself
\* leaves, which it does by taking the mutex; without this a waiter giving up on
\* a signal could expose a sleeping owner behind it.
PickupFirst == "PICKUP" \in flags => wait_list # <<>> /\ owner = Head(wait_list)

IInv == TypeOK /\ OwnerExact /\ WaitListExact /\ NoLostWakeup /\ PickupFirst

\* The labels under wait_lock.
Locked(l) == l \in {"add_waiter", "loop", "acquired"}

\* A free mutex, nobody about.
LEMMA InitIInv == Init => IInv
<1> SUFFICES ASSUME Init PROVE IInv
  OBVIOUS
<1>1. TypeOK
  BY SMT, MutexConstants DEF Init, TypeOK, Labels, SleepStates, TaskStates, Signals
<1>2. OwnerExact
  BY DEF Init, OwnerExact, HasLock
<1>3. Range(wait_list) = {} /\ NoDup(wait_list)
  BY SMT DEF Init, Range, NoDup
<1>4. WaitListExact
  BY <1>3 DEF Init, WaitListExact, Queued
<1> QED BY <1>1, <1>2, <1>4 DEF Init, IInv, NoLostWakeup, PickupFirst

\* A task goes from one label to another; the others stay where they are.
LEMMA GotoPc ==
  ASSUME TypeOK, NEW t \in Tasks, NEW l \in Labels, Goto(t, l)
  PROVE  /\ pc' \in [Tasks -> Labels] /\ pc'[t] = l
         /\ \A u \in Tasks \ {t} : pc'[u] = pc[u]
BY DEF Goto, TypeOK

\* What a return or a continuation does to the locals of a lock call.
LEMMA ReturnLocals ==
  ASSUME TypeOK, NEW t \in Tasks, NEW l \in Labels, Return(t, l) \/ Continue(t, l)
  PROVE  /\ Goto(t, l)
         /\ mode' \in [Tasks -> SleepStates]
         /\ first' \in [Tasks -> BOOLEAN]
         /\ sig' \in [Tasks -> Signals]
<1>1. CASE Return(t, l)
  <2>1. mode' \in [Tasks -> SleepStates]
    BY <1>1 DEF Return, TypeOK, SleepStates
  <2>2. first' \in [Tasks -> BOOLEAN]
    BY <1>1 DEF Return, TypeOK
  <2>3. sig' \in [Tasks -> Signals]
    BY <1>1 DEF Return, TypeOK, Signals
  <2> QED BY <1>1, <2>1, <2>2, <2>3 DEF Return
<1>2. CASE Continue(t, l)
  BY <1>2 DEF Continue, TypeOK
<1> QED BY <1>1, <1>2

\* Taking the mutex leaves the word well-formed, with no hand-off outstanding.
LEMMA TakeWord ==
  ASSUME TypeOK, OwnerExact, NEW t \in Tasks, CanTake(t), Take(t)
  PROVE  /\ owner' = t /\ owner' # NoTask
         /\ flags' \subseteq MUTEX_FLAGS
         /\ "PICKUP" \notin flags'
         /\ "WAITERS" \in flags => "WAITERS" \in flags'
         /\ \A u \in Tasks \ {t} : ~HasLock(u)
BY SMT, MutexConstants DEF TypeOK, OwnerExact, CanTake, Take, HasLock, MUTEX_FLAGS

\* Which labels those are.
LEMMA LockedLabels ==
  /\ Locked("add_waiter") /\ Locked("loop") /\ Locked("acquired")
  /\ ~Locked("out") /\ ~Locked("try") /\ ~Locked("wait_lock") /\ ~Locked("sched")
  /\ ~Locked("set_state") /\ ~Locked("retry") /\ ~Locked("relock_loop")
  /\ ~Locked("relock_acquired") /\ ~Locked("held") /\ ~Locked("unlock_slow")
  /\ ~Locked("wake_up_q")
BY SMT DEF Locked

\* A step of t to label l takes wait_lock, drops it, or does neither.
LockMoves(t, l) ==
  \/ UNCHANGED wait_lock /\ (Locked(pc[t]) <=> Locked(l))
  \/ wait_lock = NoTask /\ wait_lock' = t /\ Locked(l)
  \/ Locked(pc[t]) /\ wait_lock' = NoTask /\ ~Locked(l)

\* The conjunct of TypeOK about wait_lock, after such a step.
LEMMA WaitLockStep ==
  ASSUME TypeOK, NEW t \in Tasks, NEW l \in Labels, Goto(t, l), LockMoves(t, l)
  PROVE  /\ wait_lock' \in Tasks \cup {NoTask}
         /\ \A u \in Tasks : (wait_lock' = u) = (pc'[u] \in {"add_waiter", "loop", "acquired"})
<1>1. \A u \in Tasks : wait_lock = u <=> Locked(pc[u])
  BY SMT DEF TypeOK, Locked
<1>2. pc'[t] = l /\ \A u \in Tasks \ {t} : pc'[u] = pc[u]
  BY GotoPc
<1>3. wait_lock' \in Tasks \cup {NoTask}
  BY DEF LockMoves, TypeOK
<1>4. ASSUME NEW u \in Tasks
      PROVE  wait_lock' = u <=> Locked(pc'[u])
  <2>1. CASE u = t
    <3>1. wait_lock' = t <=> Locked(l)
      BY <1>1, MutexConstants DEF LockMoves
    <3> QED BY <1>2, <2>1, <3>1
  <2>2. CASE u # t
    <3>1. pc'[u] = pc[u] /\ u # NoTask
      BY <1>2, <2>2, MutexConstants
    <3>2. wait_lock' = u <=> wait_lock = u
      BY <1>1, <2>2, <3>1 DEF LockMoves
    <3> QED BY <1>1, <3>1, <3>2
  <2> QED BY <2>1, <2>2
<1>5. \A u \in Tasks : (wait_lock' = u) = (pc'[u] \in {"add_waiter", "loop", "acquired"})
  BY ONLY SMT, <1>4 DEF Locked
<1> QED BY <1>3, <1>5

\* The rest of TypeOK.
Typed ==
  /\ owner \in Tasks \cup {NoTask} /\ flags \subseteq MUTEX_FLAGS
  /\ wait_list \in Seq(Tasks)
  /\ mode \in [Tasks -> SleepStates] /\ first \in [Tasks -> BOOLEAN]
  /\ handoff \in [Tasks -> BOOLEAN] /\ next \in [Tasks -> Tasks \cup {NoTask}]
  /\ state \in [Tasks -> TaskStates] /\ sig \in [Tasks -> Signals]

\* So a step keeps TypeOK.
LEMMA TypeStep ==
  ASSUME TypeOK, NEW t \in Tasks, NEW l \in Labels, Goto(t, l), LockMoves(t, l), Typed'
  PROVE  TypeOK'
<1>1. pc' \in [Tasks -> Labels]
  BY GotoPc
<1>2. /\ wait_lock' \in Tasks \cup {NoTask}
      /\ \A u \in Tasks : (wait_lock' = u) = (pc'[u] \in {"add_waiter", "loop", "acquired"})
  BY WaitLockStep
<1> QED BY <1>1, <1>2 DEF Typed, TypeOK

\* The first waiter is a task.
LEMMA FirstTask ==
  ASSUME TypeOK, wait_list # <<>>
  PROVE  Head(wait_list) \in Tasks
<1>1. wait_list \in Seq(Tasks)
  BY DEF TypeOK
<1> QED BY ONLY SMT, <1>1, wait_list # <<>>

\* A step that leaves the list alone, and whoever was queued queued.
LEMMA SameQueue ==
  ASSUME IInv, NEW t \in Tasks, NEW l \in Labels, Goto(t, l), UNCHANGED wait_list,
         "WAITERS" \in flags => "WAITERS" \in flags',
         pc[t] \in {"loop", "sched", "set_state", "retry", "relock_loop",
                    "relock_acquired", "acquired"}
         <=> l \in {"loop", "sched", "set_state", "retry", "relock_loop",
                    "relock_acquired", "acquired"}
  PROVE  WaitListExact' /\ \A u \in Tasks : Queued(u)' = Queued(u)
<1>1. \A u \in Tasks : Queued(u)' = Queued(u)
  <2>1. TypeOK
    BY DEF IInv
  <2>2. pc'[t] = l /\ \A u \in Tasks \ {t} : pc'[u] = pc[u]
    BY <2>1, GotoPc
  <2> QED BY SMT, <2>2 DEF Queued
<1> QED BY <1>1 DEF IInv, WaitListExact

\* A step of t that takes the mutex on the way, t queued or not.
LEMMA TakeIInv ==
  ASSUME IInv, NEW t \in Tasks, NEW l \in Labels, CanTake(t), Take(t), Goto(t, l),
         UNCHANGED <<wait_list, handoff>>, TypeOK',
         \/ pc[t] \in {"out", "try", "wait_lock"} /\ l = "held"
         \/ pc[t] = "loop" /\ l = "acquired"
         \/ pc[t] = "retry" /\ l = "relock_acquired"
  PROVE  IInv'
<1>1. /\ owner' = t /\ owner' # NoTask /\ "PICKUP" \notin flags'
      /\ "WAITERS" \in flags => "WAITERS" \in flags'
      /\ \A u \in Tasks \ {t} : ~HasLock(u)
  BY TakeWord DEF IInv
<1>2. pc'[t] = l /\ \A u \in Tasks \ {t} : pc'[u] = pc[u]
  BY GotoPc DEF IInv
<1>3. HasLock(t)'
  BY <1>2 DEF HasLock
<1>4. \A u \in Tasks \ {t} : ~HasLock(u)'
  BY <1>1, <1>2 DEF HasLock
<1>5. OwnerExact'
  BY <1>1, <1>3, <1>4 DEF OwnerExact
<1>6. WaitListExact'
  BY <1>1, SameQueue
<1>7. NoLostWakeup' /\ PickupFirst'
  BY <1>1 DEF NoLostWakeup, PickupFirst
<1> QED BY <1>5, <1>6, <1>7 DEF IInv
\* A step of t that leaves the word and the list alone, inside or outside the
\* queue, and does not put t to sleep.
LEMMA QuietIInv ==
  ASSUME IInv, NEW t \in Tasks, NEW l \in Labels, Goto(t, l), TypeOK',
         UNCHANGED <<owner, wait_list, handoff, next>>,
         "PICKUP" \in flags' <=> "PICKUP" \in flags,
         "WAITERS" \in flags => "WAITERS" \in flags',
         \A u \in Tasks \ {t} : state'[u] = state[u],
         \/ pc[t] \in {"out", "try"} /\ l \in {"try", "wait_lock"}
         \/ pc[t] = "wait_lock" /\ l = "add_waiter"
         \/ pc[t] \in {"sched", "set_state", "retry", "relock_loop"}
            /\ l \in {"set_state", "retry", "relock_loop", "loop"}
         \/ pc[t] = "relock_acquired" /\ l = "acquired"
         \/ pc[t] = "loop" /\ l = "sched" /\ ~CanTake(t)
  PROVE  IInv'
<1>1. pc'[t] = l /\ \A u \in Tasks \ {t} : pc'[u] = pc[u]
  BY GotoPc DEF IInv
<1>2. WaitListExact' /\ \A u \in Tasks : Queued(u)' = Queued(u)
  BY SameQueue
<1>3. \A u \in Tasks : HasLock(u)' = HasLock(u)
  <2>1. HasLock(t)' = HasLock(t)
    BY <1>1 DEF HasLock
  <2>2. \A u \in Tasks \ {t} : HasLock(u)' = HasLock(u)
    BY <1>1 DEF HasLock
  <2> QED BY <2>1, <2>2
<1>4. OwnerExact'
  BY <1>2, <1>3 DEF IInv, OwnerExact, TypeOK
<1>5. PickupFirst'
  BY DEF IInv, PickupFirst
<1>6. NoLostWakeup'
  <2> SUFFICES ASSUME wait_list # <<>>, NEW h, h = Head(wait_list),
                      owner = NoTask \/ (owner = h /\ "PICKUP" \in flags'),
                      pc'[h] = "sched" /\ state'[h] # TASK_RUNNING
               PROVE  \E u \in Tasks :
                        pc'[u] = "unlock_slow" \/ (pc'[u] = "wake_up_q" /\ next[u] = h)
    BY DEF NoLostWakeup, Asleep
  <2>1. h \in Tasks
    BY FirstTask DEF IInv
  <2>2. h # t
    BY <1>1 DEF CanTake
  <2>3. Asleep(h)
    BY <1>1, <2>1, <2>2 DEF Asleep
  <2>4. PICK u \in Tasks : pc[u] = "unlock_slow" \/ (pc[u] = "wake_up_q" /\ next[u] = h)
    BY <2>3 DEF IInv, NoLostWakeup
  <2>5. u # t
    BY <2>4
  <2> QED BY <1>1, <2>4, <2>5
<1> QED BY <1>2, <1>4, <1>5, <1>6 DEF IInv

\* The lock paths that do not queue: the fast path, mutex_trylock, and
\* __mutex_lock_common up to wait_lock.
LEMMA EntryIInv ==
  ASSUME IInv, NEW t \in Tasks, LockEntry(t) \/ TryBeforeWait(t) \/ LockWaitLock(t)
  PROVE  IInv'
<1> USE DEF word, locals
<1>0. TypeOK /\ OwnerExact
  BY DEF IInv
<1>1. CASE MutexLockFast(t)
  <2> USE <1>1 DEF MutexLockFast
  <2>1. CanTake(t) /\ Take(t) /\ Goto(t, "held") /\ "held" \in Labels
    BY MutexConstants DEF CanTake, Take, Labels
  <2>2. TypeOK'
    <3>1. LockMoves(t, "held")
      BY LockedLabels DEF LockMoves
    <3>2. Typed'
      BY <1>0, <2>1, TakeWord DEF TypeOK, Typed
    <3> QED BY <1>0, <2>1, <3>1, <3>2, TypeStep
  <2> QED BY <2>1, <2>2, TakeIInv
<1>2. CASE MutexTrylock(t)
  <2> USE <1>2 DEF MutexTrylock
  <2>1. "held" \in Labels
    BY DEF Labels
  <2>2. TypeOK'
    <3>1. LockMoves(t, "held")
      BY LockedLabels DEF LockMoves
    <3>2. Typed'
      BY <1>0, <2>1, TakeWord DEF TypeOK, Typed
    <3> QED BY <1>0, <2>1, <3>1, <3>2, TypeStep
  <2> QED BY <2>1, <2>2, TakeIInv
<1>3. ASSUME NEW st \in LockModes, MutexLockCommon(t, st)
      PROVE  IInv'
  <2> USE <1>3 DEF MutexLockCommon
  <2>1. "try" \in Labels /\ st \in SleepStates
    BY MutexConstants DEF Labels
  <2>2. TypeOK'
    <3>1. LockMoves(t, "try")
      BY LockedLabels DEF LockMoves
    <3>2. mode' \in [Tasks -> SleepStates]
      BY <1>0, <2>1 DEF TypeOK
    <3>3. Typed'
      BY <1>0, <3>2 DEF TypeOK, Typed
    <3> QED BY <1>0, <2>1, <3>1, <3>3, TypeStep
  <2> QED BY <2>1, <2>2, QuietIInv
<1>4. CASE TryBeforeWait(t)
  <2> USE <1>4 DEF TryBeforeWait
  <2>1. CASE CanTake(t) /\ Take(t) /\ Return(t, "held")
    <3> USE <2>1
    <3>1. "held" \in Labels
      BY DEF Labels
    <3>2. TypeOK'
      <4>1. LockMoves(t, "held")
        BY LockedLabels DEF LockMoves
      <4>2. Goto(t, "held") /\ mode' \in [Tasks -> SleepStates]
            /\ first' \in [Tasks -> BOOLEAN] /\ sig' \in [Tasks -> Signals]
        BY <1>0, <3>1, ReturnLocals
      <4>3. Typed'
        BY <1>0, <4>2, TakeWord DEF TypeOK, Typed
      <4> QED BY <1>0, <3>1, <4>1, <4>2, <4>3, TypeStep
    <3> QED BY <1>0, <3>1, <3>2, TakeIInv, ReturnLocals
  <2>2. CASE ~CanTake(t) /\ Continue(t, "wait_lock") /\ UNCHANGED word
    <3> USE <2>2
    <3>1. "wait_lock" \in Labels
      BY DEF Labels
    <3>2. TypeOK'
      <4>1. LockMoves(t, "wait_lock")
        BY LockedLabels DEF LockMoves
      <4>2. Goto(t, "wait_lock") /\ mode' \in [Tasks -> SleepStates]
            /\ first' \in [Tasks -> BOOLEAN] /\ sig' \in [Tasks -> Signals]
        BY <1>0, <3>1, ReturnLocals
      <4>3. Typed'
        BY <1>0, <4>2 DEF TypeOK, Typed
      <4> QED BY <1>0, <3>1, <4>1, <4>2, <4>3, TypeStep
    <3> QED BY <1>0, <3>1, <3>2, QuietIInv, ReturnLocals
  <2> QED BY <2>1, <2>2
<1>5. CASE LockWaitLock(t)
  <2> USE <1>5 DEF LockWaitLock
  <2>1. CASE CanTake(t) /\ Take(t) /\ Return(t, "held") /\ UNCHANGED wait_lock
    <3> USE <2>1
    <3>1. "held" \in Labels
      BY DEF Labels
    <3>2. TypeOK'
      <4>1. LockMoves(t, "held")
        BY LockedLabels DEF LockMoves
      <4>2. Goto(t, "held") /\ mode' \in [Tasks -> SleepStates]
            /\ first' \in [Tasks -> BOOLEAN] /\ sig' \in [Tasks -> Signals]
        BY <1>0, <3>1, ReturnLocals
      <4>3. Typed'
        BY <1>0, <4>2, TakeWord DEF TypeOK, Typed
      <4> QED BY <1>0, <3>1, <4>1, <4>2, <4>3, TypeStep
    <3> QED BY <1>0, <3>1, <3>2, TakeIInv, ReturnLocals
  <2>2. CASE ~CanTake(t) /\ wait_lock' = t /\ Continue(t, "add_waiter") /\ UNCHANGED word
    <3> USE <2>2
    <3>1. "add_waiter" \in Labels
      BY DEF Labels
    <3>2. TypeOK'
      <4>1. LockMoves(t, "add_waiter")
        BY LockedLabels DEF LockMoves
      <4>2. Goto(t, "add_waiter") /\ mode' \in [Tasks -> SleepStates]
            /\ first' \in [Tasks -> BOOLEAN] /\ sig' \in [Tasks -> Signals]
        BY <1>0, <3>1, ReturnLocals
      <4>3. Typed'
        BY <1>0, <4>2 DEF TypeOK, Typed
      <4> QED BY <1>0, <3>1, <4>1, <4>2, <4>3, TypeStep
    <3> QED BY <1>0, <3>1, <3>2, QuietIInv, ReturnLocals
  <2> QED BY <2>1, <2>2
<1> QED BY <1>1, <1>2, <1>3, <1>4, <1>5 DEF LockEntry
\* __mutex_add_waiter: t joins at the tail, awake.
LEMMA AddWaiterIInv ==
  ASSUME IInv, NEW t \in Tasks, AddWaiter(t)
  PROVE  IInv'
<1> USE DEF AddWaiter
<1>1. "loop" \in Labels /\ Goto(t, "loop") /\ UNCHANGED <<mode, first, sig>>
  BY DEF Labels, Continue
<1>2. pc'[t] = "loop" /\ \A u \in Tasks \ {t} : pc'[u] = pc[u]
  BY <1>1, GotoPc DEF IInv
<1>3. wait_list \in Seq(Tasks) /\ NoDup(wait_list) /\ t \notin Range(wait_list)
  BY DEF IInv, TypeOK, WaitListExact, Queued
<1>4. /\ wait_list' \in Seq(Tasks) /\ NoDup(wait_list') /\ wait_list' # <<>>
      /\ Range(wait_list') = Range(wait_list) \cup {t}
      /\ Head(wait_list') = IF wait_list = <<>> THEN t ELSE Head(wait_list)
  <2>1. LET w == Append(wait_list, t)
        IN  /\ w \in Seq(Tasks)
            /\ NoDup(w)
            /\ Range(w) = Range(wait_list) \cup {t}
            /\ w # <<>>
    BY ONLY ZenonT(20), <1>3, AppendList
  <2>2. Head(Append(wait_list, t)) = IF wait_list = <<>> THEN t ELSE Head(wait_list)
    BY ONLY Zenon, <1>3, HeadAppend
  <2>3. wait_list' = Append(wait_list, t)
    OBVIOUS
  <2> QED BY ONLY Zenon, <2>1, <2>2, <2>3
<1>5. /\ flags' \subseteq MUTEX_FLAGS /\ "WAITERS" \in flags'
      /\ "PICKUP" \in flags' <=> "PICKUP" \in flags
  BY DEF IInv, TypeOK, WaitListExact, MUTEX_FLAGS
<1>6. TypeOK'
  <2>0. TypeOK
    BY DEF IInv
  <2>1. state' \in [Tasks -> TaskStates]
    BY <2>0 DEF TypeOK, TaskStates
  <2>2. LockMoves(t, "loop")
    BY LockedLabels DEF LockMoves
  <2>3. Typed'
    BY <1>1, <1>4, <1>5, <2>0, <2>1 DEF TypeOK, Typed
  <2> QED BY <1>1, <2>0, <2>2, <2>3, TypeStep
<1>7. \A u \in Tasks : HasLock(u)' = HasLock(u)
  BY <1>2 DEF HasLock
<1>8. \A u \in Tasks : Queued(u)' <=> Queued(u) \/ u = t
  BY <1>2 DEF Queued
<1>9. OwnerExact'
  BY <1>5, <1>7, <1>8 DEF IInv, OwnerExact, TypeOK
<1>10. WaitListExact'
  BY <1>4, <1>5, <1>8 DEF IInv, WaitListExact
<1>11. PickupFirst'
  BY <1>4, <1>5 DEF IInv, PickupFirst
<1>12. NoLostWakeup'
  <2> SUFFICES ASSUME NEW h, h = Head(wait_list'),
                      owner = NoTask \/ (owner = h /\ "PICKUP" \in flags'),
                      pc'[h] = "sched" /\ state'[h] # TASK_RUNNING
               PROVE  \E u \in Tasks :
                        pc'[u] = "unlock_slow" \/ (pc'[u] = "wake_up_q" /\ next[u] = h)
    BY DEF NoLostWakeup, Asleep
  <2>1. h # t /\ wait_list # <<>> /\ h = Head(wait_list)
    BY <1>2, <1>4
  <2>2. h \in Tasks
    BY <2>1, FirstTask DEF IInv
  <2>3. Asleep(h)
    BY <1>2, <2>1, <2>2 DEF Asleep, IInv, TypeOK
  <2>4. PICK u \in Tasks : pc[u] = "unlock_slow" \/ (pc[u] = "wake_up_q" /\ next[u] = h)
    BY <1>5, <2>1, <2>3 DEF IInv, NoLostWakeup
  <2> QED BY <1>2, <2>4
<1> QED BY <1>6, <1>9, <1>10, <1>11, <1>12 DEF IInv

\* A waiter leaves the list: the other waiters keep their order, and a new head
\* appears only when the old one leaves.
LEMMA LeaveList ==
  ASSUME IInv, NEW t \in Tasks, Queued(t), wait_list' = list_del(wait_list, t)
  PROVE  /\ wait_list' \in Seq(Tasks) /\ NoDup(wait_list')
         /\ Range(wait_list') = Range(wait_list) \ {t}
         /\ t # Head(wait_list) => wait_list' # <<>> /\ Head(wait_list') = Head(wait_list)
         /\ wait_list' # <<>> => Head(wait_list') \in Tasks \ {t}
         /\ wait_list # <<>>
<1>1. wait_list \in Seq(Tasks) /\ NoDup(wait_list) /\ t \in Range(wait_list)
  BY DEF IInv, TypeOK, WaitListExact
<1>2. /\ wait_list' \in Seq(Tasks) /\ NoDup(wait_list')
      /\ Range(wait_list') = Range(wait_list) \ {t}
  BY <1>1, DelList
<1>3. t # Head(wait_list) => wait_list' # <<>> /\ Head(wait_list') = Head(wait_list)
  BY <1>1, HeadDel
<1>4. wait_list' # <<>> => Head(wait_list') \in Range(wait_list')
  BY <1>2, TailList
<1>5. Range(wait_list) \subseteq Tasks
  BY <1>1, RangeSeq
<1>6. wait_list # <<>>
  BY ONLY SMT, <1>1 DEF Range
<1> QED BY <1>2, <1>3, <1>4, <1>5, <1>6

\* -EINTR: the waiter that gives up was not handed the mutex, so whoever is first
\* then was not either.
LEMMA InterruptedIInv ==
  ASSUME IInv, NEW t \in Tasks, pc[t] = "loop", LoopInterrupted(t), UNCHANGED <<handoff, next>>
  PROVE  IInv'
<1> USE DEF LoopInterrupted, word
<1>1. "out" \in Labels /\ Goto(t, "out")
  BY DEF Labels, Return
<1>2. pc'[t] = "out" /\ \A u \in Tasks \ {t} : pc'[u] = pc[u]
  BY <1>1, GotoPc DEF IInv
<1>3. /\ wait_list' \in Seq(Tasks) /\ NoDup(wait_list')
      /\ Range(wait_list') = Range(wait_list) \ {t}
      /\ t # Head(wait_list) => wait_list' # <<>> /\ Head(wait_list') = Head(wait_list)
      /\ wait_list' # <<>> => Head(wait_list') \in Tasks \ {t}
      /\ wait_list # <<>>
  BY LeaveList DEF Queued
<1>4. TypeOK'
  <2>0. TypeOK
    BY DEF IInv
  <2>1. state' \in [Tasks -> TaskStates]
    BY <2>0 DEF TypeOK, TaskStates
  <2>2. LockMoves(t, "out")
    BY LockedLabels DEF LockMoves
  <2>3. /\ mode' \in [Tasks -> SleepStates] /\ first' \in [Tasks -> BOOLEAN]
        /\ sig' \in [Tasks -> Signals]
    BY <1>1, <2>0, ReturnLocals
  <2>4. Typed'
    BY <1>3, <2>0, <2>1, <2>3 DEF TypeOK, Typed
  <2> QED BY <1>1, <2>0, <2>2, <2>4, TypeStep
<1>5. \A u \in Tasks : HasLock(u)' = HasLock(u)
  BY <1>2 DEF HasLock
<1>6. \A u \in Tasks : Queued(u)' <=> Queued(u) /\ u # t
  BY <1>2 DEF Queued
<1>7. owner # NoTask /\ ~(owner = t /\ "PICKUP" \in flags)
  BY DEF CanTake
<1>8. OwnerExact'
  BY <1>5, <1>6, <1>7 DEF IInv, OwnerExact, TypeOK
<1>9. WaitListExact'
  BY <1>3, <1>6 DEF IInv, WaitListExact
<1>10. PickupFirst'
  BY <1>3, <1>7 DEF IInv, PickupFirst
<1>11. NoLostWakeup'
  <2> SUFFICES ASSUME NEW h, h = Head(wait_list'), wait_list' # <<>>,
                      owner = h /\ "PICKUP" \in flags,
                      pc'[h] = "sched" /\ state'[h] # TASK_RUNNING
               PROVE  \E u \in Tasks :
                        pc'[u] = "unlock_slow" \/ (pc'[u] = "wake_up_q" /\ next[u] = h)
    BY <1>7 DEF NoLostWakeup, Asleep
  <2>1. h = Head(wait_list) /\ h \in Tasks \ {t}
    BY <1>3 DEF IInv, PickupFirst
  <2>2. Asleep(h)
    BY <1>2, <2>1 DEF Asleep, IInv, TypeOK
  <2>3. PICK u \in Tasks : pc[u] = "unlock_slow" \/ (pc[u] = "wake_up_q" /\ next[u] = h)
    BY <1>3, <2>1, <2>2 DEF IInv, NoLostWakeup
  <2> QED BY <1>2, <2>3
<1> QED BY <1>4, <1>8, <1>9, <1>10, <1>11 DEF IInv
\* The rest of the wait loop: no step of it leaves the list.
LEMMA LoopIInv ==
  ASSUME IInv, NEW t \in Tasks,
         Loop(t) \/ Woken(t) \/ SetState(t) \/ Retry(t) \/ Relock(t)
  PROVE  IInv'
<1> USE DEF word, locals
<1>0. TypeOK /\ OwnerExact
  BY DEF IInv
<1>1. CASE Loop(t)
  <2> USE <1>1 DEF Loop
  <2>1. CASE LoopAcquires(t)
    <3> USE <2>1 DEF LoopAcquires
    <3>1. "acquired" \in Labels
      BY DEF Labels
    <3>2. TypeOK'
      <4>1. LockMoves(t, "acquired")
        BY LockedLabels DEF LockMoves
      <4>2. Goto(t, "acquired") /\ mode' \in [Tasks -> SleepStates]
            /\ first' \in [Tasks -> BOOLEAN] /\ sig' \in [Tasks -> Signals]
        BY <1>0, <3>1, ReturnLocals
      <4>3. Typed'
        BY <1>0, <4>2, TakeWord DEF TypeOK, Typed
      <4> QED BY <1>0, <3>1, <4>1, <4>2, <4>3, TypeStep
    <3> QED BY <1>0, <3>1, <3>2, TakeIInv, ReturnLocals
  <2>2. CASE LoopInterrupted(t)
    BY <2>2, InterruptedIInv
  <2>3. CASE LoopSchedules(t)
    <3> USE <2>3 DEF LoopSchedules
    <3>1. "sched" \in Labels
      BY DEF Labels
    <3>2. TypeOK'
      <4>1. LockMoves(t, "sched")
        BY LockedLabels DEF LockMoves
      <4>2. Goto(t, "sched") /\ mode' \in [Tasks -> SleepStates]
            /\ first' \in [Tasks -> BOOLEAN] /\ sig' \in [Tasks -> Signals]
        BY <1>0, <3>1, ReturnLocals
      <4>3. Typed'
        BY <1>0, <4>2 DEF TypeOK, Typed
      <4> QED BY <1>0, <3>1, <4>1, <4>2, <4>3, TypeStep
    <3> QED BY <1>0, <3>1, <3>2, QuietIInv, ReturnLocals
  <2> QED BY <2>1, <2>2, <2>3
<1>2. CASE Woken(t)
  <2> USE <1>2 DEF Woken
  <2>1. "set_state" \in Labels
    BY DEF Labels
  <2>2. /\ flags' \subseteq MUTEX_FLAGS
        /\ "PICKUP" \in flags' <=> "PICKUP" \in flags
        /\ "WAITERS" \in flags => "WAITERS" \in flags'
    BY <1>0 DEF TypeOK, MUTEX_FLAGS
  <2>3. first' \in [Tasks -> BOOLEAN]
    BY <1>0 DEF TypeOK
  <2>4. TypeOK'
    <3>1. LockMoves(t, "set_state")
      BY LockedLabels DEF LockMoves
    <3>2. Typed'
      BY <1>0, <2>2, <2>3 DEF TypeOK, Typed
    <3> QED BY <1>0, <2>1, <3>1, <3>2, TypeStep
  <2> QED BY <2>1, <2>2, <2>4, QuietIInv
<1>3. CASE SetState(t)
  <2> USE <1>3 DEF SetState
  <2>1. "retry" \in Labels
    BY DEF Labels
  <2>2. state' \in [Tasks -> TaskStates] /\ \A u \in Tasks \ {t} : state'[u] = state[u]
    BY <1>0 DEF TypeOK, TaskStates
  <2>3. TypeOK'
    <3>1. LockMoves(t, "retry")
      BY LockedLabels DEF LockMoves
    <3>2. Typed'
      BY <1>0, <2>2 DEF TypeOK, Typed
    <3> QED BY <1>0, <2>1, <3>1, <3>2, TypeStep
  <2> QED BY <2>1, <2>2, <2>3, QuietIInv
<1>4. CASE Retry(t)
  <2> USE <1>4 DEF Retry
  <2>1. CASE CanTake(t) /\ Take(t) /\ Goto(t, "relock_acquired")
    <3> USE <2>1
    <3>1. "relock_acquired" \in Labels
      BY DEF Labels
    <3>2. TypeOK'
      <4>1. LockMoves(t, "relock_acquired")
        BY LockedLabels DEF LockMoves
      <4>2. Typed'
        BY <1>0, TakeWord DEF TypeOK, Typed
      <4> QED BY <1>0, <3>1, <4>1, <4>2, TypeStep
    <3> QED BY <3>1, <3>2, TakeIInv
  <2>2. CASE ~CanTake(t) /\ Goto(t, "relock_loop") /\ UNCHANGED word
    <3> USE <2>2
    <3>1. "relock_loop" \in Labels
      BY DEF Labels
    <3>2. TypeOK'
      <4>1. LockMoves(t, "relock_loop")
        BY LockedLabels DEF LockMoves
      <4>2. Typed'
        BY <1>0 DEF TypeOK, Typed
      <4> QED BY <1>0, <3>1, <4>1, <4>2, TypeStep
    <3> QED BY <3>1, <3>2, QuietIInv
  <2> QED BY <2>1, <2>2
<1>5. CASE Relock(t)
  <2> DEFINE l == IF pc[t] = "relock_loop" THEN "loop" ELSE "acquired"
  <2>1. /\ l \in Labels /\ Goto(t, l) /\ Locked(l)
        /\ wait_lock = NoTask /\ wait_lock' = t
        /\ UNCHANGED <<word, wait_list, locals, state, sig>>
        /\ \/ pc[t] = "relock_loop" /\ l = "loop"
           \/ pc[t] = "relock_acquired" /\ l = "acquired"
    BY <1>5 DEF Relock, Labels, Locked
  <2> HIDE DEF l
  <2>2. TypeOK'
    <3>1. LockMoves(t, l)
      BY <2>1 DEF LockMoves
    <3>2. Typed'
      BY <1>0, <2>1 DEF TypeOK, Typed
    <3> QED BY <1>0, <2>1, <3>1, <3>2, TypeStep
  <2> QED BY <2>1, <2>2, QuietIInv
<1> QED BY <1>1, <1>2, <1>3, <1>4, <1>5

\* The new owner leaves the list; the mutex is not free for whoever is first now.
LEMMA AcquiredIInv ==
  ASSUME IInv, NEW t \in Tasks, Acquired(t)
  PROVE  IInv'
<1> USE DEF Acquired
<1>1. "held" \in Labels /\ Goto(t, "held")
  BY DEF Labels, Return
<1>2. pc'[t] = "held" /\ \A u \in Tasks \ {t} : pc'[u] = pc[u]
  BY <1>1, GotoPc DEF IInv
<1>3. /\ wait_list' \in Seq(Tasks) /\ NoDup(wait_list')
      /\ Range(wait_list') = Range(wait_list) \ {t}
      /\ wait_list # <<>>
  BY LeaveList DEF Queued
<1>4. owner = t /\ owner # NoTask /\ "PICKUP" \notin flags /\ "WAITERS" \in flags
  BY <1>3, MutexConstants DEF IInv, OwnerExact, WaitListExact, HasLock
<1>5. /\ flags' \subseteq MUTEX_FLAGS /\ "PICKUP" \notin flags'
      /\ wait_list' # <<>> => "WAITERS" \in flags'
  BY <1>4 DEF IInv, TypeOK
<1>6. TypeOK'
  <2>0. TypeOK
    BY DEF IInv
  <2>1. state' \in [Tasks -> TaskStates]
    BY <2>0 DEF TypeOK, TaskStates
  <2>2. LockMoves(t, "held")
    BY LockedLabels DEF LockMoves
  <2>3. /\ mode' \in [Tasks -> SleepStates] /\ first' \in [Tasks -> BOOLEAN]
        /\ sig' \in [Tasks -> Signals]
    BY <1>1, <2>0, ReturnLocals
  <2>4. Typed'
    BY <1>3, <1>5, <2>0, <2>1, <2>3 DEF TypeOK, Typed
  <2> QED BY <1>1, <2>0, <2>2, <2>4, TypeStep
<1>7. \A u \in Tasks : HasLock(u)' = HasLock(u)
  BY <1>2 DEF HasLock
<1>8. \A u \in Tasks : Queued(u)' <=> Queued(u) /\ u # t
  BY <1>2 DEF Queued
<1>9. OwnerExact'
  BY <1>4, <1>5, <1>7 DEF IInv, OwnerExact, HasLock
<1>10. WaitListExact'
  BY <1>3, <1>5, <1>8 DEF IInv, WaitListExact
<1>11. NoLostWakeup' /\ PickupFirst'
  BY <1>4, <1>5 DEF NoLostWakeup, PickupFirst
<1> QED BY <1>6, <1>9, <1>10, <1>11 DEF IInv

\* The holder alone may be changing the word: any other task that HasLock would
\* be the owner too.
LEMMA OnlyOwner ==
  ASSUME IInv, NEW t \in Tasks, HasLock(t)
  PROVE  owner = t /\ "PICKUP" \notin flags /\ \A u \in Tasks \ {t} : ~HasLock(u)
BY DEF IInv, OwnerExact

\* mutex_unlock() up to wait_lock: without a hand-off the mutex is free from here
\* on, and with a waiter the unlocker stays responsible for the wakeup.
LEMMA UnlockIInv ==
  ASSUME IInv, NEW t \in Tasks, MutexUnlockFast(t) \/ MutexUnlockSlow(t)
  PROVE  IInv'
<1> DEFINE l == IF flags \cap {"HANDOFF", "WAITERS"} = {} THEN "out" ELSE "unlock_slow"
<1>1. /\ pc[t] = "held" /\ Goto(t, l) /\ l \in Labels
      /\ UNCHANGED <<flags, wait_list, wait_lock, mode, first, next, state, sig>>
      /\ l = "unlock_slow" \/ (l = "out" /\ "HANDOFF" \notin flags /\ "WAITERS" \notin flags)
  BY DEF MutexUnlockFast, MutexUnlockSlow, locals, Labels
<1>2. /\ handoff' \in [Tasks -> BOOLEAN]
      /\ \A u \in Tasks \ {t} : handoff'[u] = handoff[u]
      /\ \/ owner' = NoTask /\ (l = "unlock_slow" => ~handoff'[t])
         \/ owner' = owner /\ l = "unlock_slow" /\ handoff'[t]
  <2>1. CASE MutexUnlockFast(t)
    BY <2>1 DEF MutexUnlockFast, locals, IInv, TypeOK
  <2>2. CASE MutexUnlockSlow(t)
    <3>1. /\ handoff \in [Tasks -> BOOLEAN] /\ ("HANDOFF" \in flags) \in BOOLEAN
          /\ handoff' = [handoff EXCEPT ![t] = "HANDOFF" \in flags]
          /\ owner' = IF "HANDOFF" \in flags THEN owner ELSE NoTask
      BY SMT, <2>2 DEF MutexUnlockSlow, IInv, TypeOK
    <3>2. /\ handoff' \in [Tasks -> BOOLEAN] /\ handoff'[t] = ("HANDOFF" \in flags)
          /\ \A u \in Tasks \ {t} : handoff'[u] = handoff[u]
      BY <3>1
    <3>3. "HANDOFF" \in flags => l = "unlock_slow"
      OBVIOUS
    <3> QED BY <3>1, <3>2, <3>3
  <2> QED BY <2>1, <2>2
<1> HIDE DEF l
<1>3. owner = t /\ owner # NoTask /\ "PICKUP" \notin flags /\ \A u \in Tasks \ {t} : ~HasLock(u)
  BY <1>1, OnlyOwner, MutexConstants DEF HasLock
<1>4. pc'[t] = l /\ \A u \in Tasks \ {t} : pc'[u] = pc[u]
  BY <1>1, GotoPc DEF IInv
<1>5. TypeOK'
  <2>0. TypeOK
    BY DEF IInv
  <2>1. LockMoves(t, l)
    BY <1>1, LockedLabels DEF LockMoves
  <2>2. Typed'
    BY <1>1, <1>2, <1>3, <2>0 DEF TypeOK, Typed
  <2> QED BY <1>1, <2>0, <2>1, <2>2, TypeStep
<1>6. WaitListExact' /\ \A u \in Tasks : Queued(u)' = Queued(u)
  BY <1>1, SameQueue
<1>7. \A u \in Tasks \ {t} : ~HasLock(u)'
  BY <1>2, <1>3, <1>4 DEF HasLock
<1>8. HasLock(t)' <=> owner' = t
  BY <1>1, <1>2, <1>3, <1>4 DEF HasLock
<1>9. OwnerExact'
  BY <1>1, <1>2, <1>3, <1>7, <1>8 DEF OwnerExact
<1>10. wait_list # <<>> => l = "unlock_slow"
  BY <1>1 DEF IInv, WaitListExact
<1>11. NoLostWakeup'
  BY <1>1, <1>4, <1>10 DEF NoLostWakeup
<1>12. PickupFirst'
  BY <1>1, <1>3 DEF PickupFirst
<1> QED BY <1>5, <1>6, <1>9, <1>11, <1>12 DEF IInv
\* The wait_lock section of the unlock: a hand-off makes the first waiter the
\* owner, and either way the first waiter is the one to be woken.
LEMMA UnlockWaitLockIInv ==
  ASSUME IInv, NEW t \in Tasks, UnlockWaitLock(t)
  PROVE  IInv'
<1> DEFINE n == IF wait_list = <<>> THEN NoTask ELSE Head(wait_list)
<1>1. /\ pc[t] = "unlock_slow" /\ Goto(t, "wake_up_q") /\ "wake_up_q" \in Labels
      /\ next' = [next EXCEPT ![t] = n]
      /\ UNCHANGED <<wait_list, wait_lock, mode, first, handoff, state, sig>>
      /\ \/ /\ handoff[t] /\ owner' = n
            /\ flags' = (flags \cap {"WAITERS"}) \cup (IF n = NoTask THEN {} ELSE {"PICKUP"})
         \/ ~handoff[t] /\ UNCHANGED <<owner, flags>>
  BY DEF UnlockWaitLock, Labels, word
<1>2. /\ n \in Tasks \cup {NoTask}
      /\ wait_list # <<>> => n = Head(wait_list) /\ n \in Tasks /\ Queued(n) /\ n # NoTask
      /\ wait_list = <<>> => n = NoTask
  <2>1. wait_list # <<>> => Head(wait_list) \in Range(wait_list)
    BY TailList DEF IInv, TypeOK, WaitListExact
  <2> QED BY <2>1, MutexConstants DEF IInv, WaitListExact
<1> HIDE DEF n
<1>3. pc'[t] = "wake_up_q" /\ \A u \in Tasks \ {t} : pc'[u] = pc[u]
  BY <1>1, GotoPc DEF IInv
<1>4. /\ flags' \subseteq MUTEX_FLAGS
      /\ "WAITERS" \in flags => "WAITERS" \in flags'
      /\ owner' \in Tasks \cup {NoTask}
  BY <1>1, <1>2 DEF IInv, TypeOK, MUTEX_FLAGS
<1>5. /\ next' \in [Tasks -> Tasks \cup {NoTask}] /\ next'[t] = n
      /\ \A u \in Tasks \ {t} : next'[u] = next[u]
  BY <1>1, <1>2 DEF IInv, TypeOK
<1>6. TypeOK'
  <2>0. TypeOK
    BY DEF IInv
  <2>1. LockMoves(t, "wake_up_q")
    BY <1>1, LockedLabels DEF LockMoves
  <2>2. Typed'
    BY <1>1, <1>4, <1>5, <2>0 DEF TypeOK, Typed
  <2> QED BY <1>1, <2>0, <2>1, <2>2, TypeStep
<1>7. WaitListExact' /\ \A u \in Tasks : Queued(u)' = Queued(u)
  BY <1>1, <1>4, SameQueue
<1>8. ~HasLock(t)' /\ \A u \in Tasks \ {t} : HasLock(u)' = HasLock(u)
  BY <1>1, <1>3 DEF HasLock
<1>9. CASE handoff[t]
  <2>1. \A u \in Tasks : ~HasLock(u)'
    BY <1>1, <1>8, <1>9, OnlyOwner DEF HasLock
  <2>2. owner' = n /\ ("PICKUP" \in flags' <=> n # NoTask)
    BY <1>1, <1>9
  <2>3. OwnerExact'
    BY <1>2, <1>7, <2>1, <2>2 DEF OwnerExact
  <2>4. PickupFirst'
    BY <1>1, <1>2, <2>2 DEF PickupFirst
  <2> QED BY <2>3, <2>4, <1>1, <1>2, <1>3, <1>5, <1>6, <1>7 DEF IInv, NoLostWakeup
<1>10. CASE ~handoff[t]
  <2>1. ~HasLock(t) /\ UNCHANGED <<owner, flags>>
    BY <1>1, <1>10 DEF HasLock
  <2>2. \A u \in Tasks : HasLock(u)' <=> HasLock(u)
    BY <1>8, <2>1
  <2>3. OwnerExact'
    BY <1>7, <2>1, <2>2 DEF IInv, OwnerExact, TypeOK
  <2>4. PickupFirst'
    BY <1>1, <2>1 DEF IInv, PickupFirst
  <2> QED BY <2>3, <2>4, <1>1, <1>2, <1>3, <1>5, <1>6, <1>7 DEF IInv, NoLostWakeup
<1> QED BY <1>9, <1>10

\* wake_up_q(): the task that was first when the unlocker looked is awake.  If
\* another task is first by now, this was not the wakeup it waits for.
LEMMA WakeUpQIInv ==
  ASSUME IInv, NEW t \in Tasks, WakeUpQ(t)
  PROVE  IInv'
<1>1. /\ pc[t] = "wake_up_q" /\ Goto(t, "out") /\ "out" \in Labels
      /\ next' = [next EXCEPT ![t] = NoTask]
      /\ handoff' = [handoff EXCEPT ![t] = FALSE]
      /\ state' = [u \in Tasks |-> IF u = next[t] THEN TASK_RUNNING ELSE state[u]]
      /\ UNCHANGED <<owner, flags, wait_list, wait_lock, mode, first, sig>>
  BY DEF WakeUpQ, Labels, word
<1>2. pc'[t] = "out" /\ \A u \in Tasks \ {t} : pc'[u] = pc[u]
  BY <1>1, GotoPc DEF IInv
<1>3. state' \in [Tasks -> TaskStates]
  BY <1>1 DEF IInv, TypeOK, TaskStates
<1>4. /\ next' \in [Tasks -> Tasks \cup {NoTask}]
      /\ \A u \in Tasks \ {t} : next'[u] = next[u]
  BY <1>1 DEF IInv, TypeOK
<1>5. /\ handoff' \in [Tasks -> BOOLEAN]
      /\ \A u \in Tasks \ {t} : handoff'[u] = handoff[u]
  BY <1>1 DEF IInv, TypeOK
<1>6. TypeOK'
  <2>0. TypeOK
    BY DEF IInv
  <2>1. LockMoves(t, "out")
    BY <1>1, LockedLabels DEF LockMoves
  <2>2. Typed'
    BY <1>1, <1>3, <1>4, <1>5, <2>0 DEF TypeOK, Typed
  <2> QED BY <1>1, <2>0, <2>1, <2>2, TypeStep
<1>7. WaitListExact' /\ \A u \in Tasks : Queued(u)' = Queued(u)
  BY <1>1, SameQueue
<1>8. \A u \in Tasks : HasLock(u)' <=> HasLock(u)
  <2>1. ~HasLock(t) /\ ~HasLock(t)'
    BY <1>1, <1>2 DEF HasLock
  <2>2. \A u \in Tasks \ {t} : HasLock(u)' <=> HasLock(u)
    BY <1>2, <1>5 DEF HasLock
  <2> QED BY <2>1, <2>2
<1>9. OwnerExact'
  BY <1>1, <1>7, <1>8 DEF IInv, OwnerExact, TypeOK
<1>10. PickupFirst'
  BY <1>1 DEF IInv, PickupFirst
<1>11. NoLostWakeup'
  <2> SUFFICES ASSUME wait_list # <<>>, NEW h, h = Head(wait_list),
                      owner = NoTask \/ (owner = h /\ "PICKUP" \in flags),
                      pc'[h] = "sched" /\ state'[h] # TASK_RUNNING
               PROVE  \E u \in Tasks :
                        pc'[u] = "unlock_slow" \/ (pc'[u] = "wake_up_q" /\ next'[u] = h)
    BY <1>1 DEF NoLostWakeup, Asleep
  <2>1. h \in Tasks
    BY FirstTask DEF IInv
  <2>2. h # t /\ h # next[t] /\ Asleep(h)
    BY <1>1, <1>2, <2>1 DEF Asleep
  <2>3. PICK u \in Tasks : pc[u] = "unlock_slow" \/ (pc[u] = "wake_up_q" /\ next[u] = h)
    BY <2>2 DEF IInv, NoLostWakeup
  <2>4. u # t
    BY <1>1, <2>2, <2>3
  <2> QED BY <1>2, <1>4, <2>3, <2>4
<1> QED BY <1>6, <1>7, <1>9, <1>10, <1>11 DEF IInv

\* Signals and stray wakeups only ever wake a task.
LEMMA EnvIInv ==
  ASSUME IInv, NEW t \in Tasks, Env(t)
  PROVE  IInv'
<1>1. /\ UNCHANGED <<owner, flags, wait_list, wait_lock, pc, mode, first, handoff, next>>
      /\ state' = state \/ state' = [state EXCEPT ![t] = TASK_RUNNING]
  BY DEF Env, SendSignal, SpuriousWakeup, word, locals
<1>2. state' \in [Tasks -> TaskStates]
      /\ \A u \in Tasks : state'[u] = state[u] \/ state'[u] = TASK_RUNNING
  BY <1>1 DEF IInv, TypeOK, TaskStates
<1>3. sig' \in [Tasks -> Signals]
  <2>1. sig' = sig \/ \E s \in Signals : sig' = [sig EXCEPT ![t] = s]
    BY MutexConstants DEF Env, SendSignal, SpuriousWakeup
  <2>2. sig \in [Tasks -> Signals]
    BY DEF IInv, TypeOK
  <2> QED BY <2>1, <2>2
<1>4. TypeOK'
  BY <1>1, <1>2, <1>3 DEF IInv, TypeOK
<1>5. OwnerExact' /\ WaitListExact' /\ PickupFirst'
  BY <1>1 DEF IInv, OwnerExact, HasLock, WaitListExact, Queued, PickupFirst
<1>6. NoLostWakeup'
  <2>1. \A u \in Tasks : Asleep(u)' => Asleep(u)
    BY <1>1, <1>2 DEF Asleep
  <2>2. wait_list # <<>> => Head(wait_list) \in Tasks
    BY FirstTask DEF IInv
  <2> QED BY <1>1, <2>1, <2>2 DEF IInv, NoLostWakeup
<1> QED BY <1>4, <1>5, <1>6 DEF IInv

\* Every step keeps the invariant.
LEMMA NextIInv == IInv /\ [Next]_vars => IInv'
<1> SUFFICES ASSUME IInv, [Next]_vars PROVE IInv'
  OBVIOUS
<1>1. CASE UNCHANGED vars
  BY <1>1 DEF vars, IInv, TypeOK, OwnerExact, HasLock, WaitListExact, Queued,
              NoLostWakeup, Asleep, PickupFirst
<1>2. ASSUME NEW t \in Tasks, LockEntry(t) \/ LockPath(t) \/ UnlockPath(t) \/ Env(t)
      PROVE  IInv'
  BY <1>2, EntryIInv, AddWaiterIInv, LoopIInv, AcquiredIInv, UnlockIInv,
     UnlockWaitLockIInv, WakeUpQIInv, EnvIInv DEF LockPath, UnlockPath
<1> QED BY <1>1, <1>2 DEF Next

\* The invariant holds always; the theorems below are its parts.
THEOREM IInvAlways == Spec => []IInv
BY InitIInv, NextIInv, PTL DEF Spec

\* Mutual exclusion as the owner word records it, for any number of tasks, on one
\* CPU or on several: see OwnerExact.
THEOREM MutexOwner == Spec => []OwnerExact
<1>1. IInv => OwnerExact
  BY DEF IInv
<1> QED BY <1>1, IInvAlways, PTL

\* wait_list holds exactly the tasks in the wait loop, and WAITERS is set while it
\* is not empty.
THEOREM MutexWaitList == Spec => []WaitListExact
<1>1. IInv => WaitListExact
  BY DEF IInv
<1> QED BY <1>1, IInvAlways, PTL

\* The first waiter never sleeps on a mutex that is free or handed to it without
\* an unlocker on its way to wake it.
THEOREM MutexNoLostWakeup == Spec => []NoLostWakeup
<1>1. IInv => NoLostWakeup
  BY DEF IInv
<1> QED BY <1>1, IInvAlways, PTL
=============================================================================
