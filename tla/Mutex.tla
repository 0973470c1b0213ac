-------------------------------- MODULE Mutex -------------------------------
(***************************************************************************)
(* The sleeping mutex of the `mutex` component (mutex/src/mutex.c, with    *)
(* mutex-debug.c; no optimistic spinning, no wait/wound contexts).         *)
(*                                                                         *)
(* lock->owner is one atomic word, a task pointer and three flag bits: it  *)
(* is read and changed outside wait_lock too, so each access is a step.    *)
(* lock->wait_list changes only under wait_lock.  wake_q_add() and         *)
(* wake_up_q() do what sched/src/core.c says; in the tree they are         *)
(* commented out there, and early_sched has stubs that panic.              *)
(***************************************************************************)
EXTENDS KernelList, TaskState, FiniteSets

CONSTANTS
  Tasks,
  NoTask,       \* the NULL task pointer
  UP,           \* TRUE: one CPU, no kernel preemption (the configured build)
  LockModes,    \* bound: the sleep states the lock variants are called with
  SentSignals   \* bound: the signals that are sent

ASSUME MutexConstants ==
  /\ NoTask \notin Tasks
  /\ UP \in BOOLEAN
  /\ LockModes \subseteq SleepStates
  /\ SentSignals \subseteq Signals \ {"none"}

VARIABLES
  owner,      \* lock->owner without its flag bits
  flags,      \* the flag bits of lock->owner
  wait_list,  \* lock->wait_list: the tasks of the queued waiters
  wait_lock,  \* who holds lock->wait_lock across several steps
  pc,         \* where a task is in the mutex code
  mode,       \* __mutex_lock_common's state parameter
  first,      \* __mutex_lock_common's local `first`
  handoff,    \* __mutex_unlock_slowpath: HANDOFF was set in `owner` as it read it
  next,       \* __mutex_unlock_slowpath's local `next`
  state,      \* current->state
  sig         \* signals that became pending by or during the lock call

word == <<owner, flags>>
locals == <<mode, first, handoff, next>>
vars == <<owner, flags, wait_list, wait_lock, pc, mode, first, handoff, next, state, sig>>

MUTEX_FLAGS == {"WAITERS", "HANDOFF", "PICKUP"}

Init ==
  /\ owner = NoTask
  /\ flags = {}
  /\ wait_list = <<>>
  /\ wait_lock = NoTask
  /\ pc = [t \in Tasks |-> "out"]
  /\ mode = [t \in Tasks |-> TASK_UNINTERRUPTIBLE]
  /\ first = [t \in Tasks |-> FALSE]
  /\ handoff = [t \in Tasks |-> FALSE]
  /\ next = [t \in Tasks |-> NoTask]
  /\ state = [t \in Tasks |-> TASK_RUNNING]
  /\ sig = [t \in Tasks |-> "none"]
-----------------------------------------------------------------------------
\* Where the CPU may turn to another task on one CPU without preemption:
\* outside the mutex code, and in schedule().
SchedPoints == {"out", "held", "sched"}

Runs(t) ==
  /\ UP => \A u \in Tasks \ {t} : pc[u] \in SchedPoints

Goto(t, l) == pc' = [pc EXCEPT ![t] = l]

\* A lock call returns: its locals die, and a pending signal is handled on the
\* way to user space or counts again from the entry of the next lock call.
Return(t, l) ==
  /\ Goto(t, l)
  /\ mode' = [mode EXCEPT ![t] = TASK_UNINTERRUPTIBLE]
  /\ first' = [first EXCEPT ![t] = FALSE]
  /\ sig' = [sig EXCEPT ![t] = "none"]

\* It goes on.
Continue(t, l) == Goto(t, l) /\ UNCHANGED <<mode, first, sig>>

\* Mutant: a mutex that was handed over is anybody's.
CanTakePickup(t) == owner = NoTask \/ "PICKUP" \in flags

\* __mutex_trylock_or_owner, as its final compare-and-exchange: the mutex is
\* free, or it was handed to this very task.
CanTake(t) == owner = NoTask \/ (owner = t /\ "PICKUP" \in flags)

Take(t) ==
  /\ owner' = t
  /\ flags' = flags \ (IF owner = t THEN {"PICKUP", "HANDOFF"} ELSE {"HANDOFF"})

\* mutex_lock and its variants: __mutex_trylock_fast, then the first
\* __mutex_trylock of __mutex_lock_common.
MutexLockFast(t) ==
  /\ Runs(t) /\ pc[t] = "out"
  /\ owner = NoTask /\ flags = {}
  /\ owner' = t
  /\ Goto(t, "held")
  /\ UNCHANGED <<flags, wait_list, wait_lock, locals, state, sig>>

MutexLockCommon(t, st) ==
  /\ Runs(t) /\ pc[t] = "out"
  /\ ~(owner = NoTask /\ flags = {})
  /\ Goto(t, "try")
  /\ mode' = [mode EXCEPT ![t] = st]
  /\ UNCHANGED <<word, wait_list, wait_lock, first, handoff, next, state, sig>>

TryBeforeWait(t) ==
  /\ Runs(t) /\ pc[t] = "try"
  /\ \/ CanTake(t) /\ Take(t) /\ Return(t, "held")
     \/ ~CanTake(t) /\ Continue(t, "wait_lock") /\ UNCHANGED word
  /\ UNCHANGED <<wait_list, wait_lock, handoff, next, state>>

\* spin_lock(&lock->wait_lock) and the trylock after it; skip_wait on success.
LockWaitLock(t) ==
  /\ Runs(t) /\ pc[t] = "wait_lock"
  /\ wait_lock = NoTask
  /\ \/ CanTake(t) /\ Take(t) /\ Return(t, "held") /\ UNCHANGED wait_lock
     \/ ~CanTake(t) /\ wait_lock' = t /\ Continue(t, "add_waiter") /\ UNCHANGED word
  /\ UNCHANGED <<wait_list, handoff, next, state>>

\* __mutex_add_waiter, then set_current_state(state) before the loop.
AddWaiter(t) ==
  /\ Runs(t) /\ pc[t] = "add_waiter"
  /\ wait_list' = Append(wait_list, t)
  /\ flags' = IF wait_list = <<>> THEN flags \cup {"WAITERS"} ELSE flags
  /\ state' = [state EXCEPT ![t] = mode[t]]
  /\ Continue(t, "loop")
  /\ UNCHANGED <<owner, wait_lock, handoff, next>>

\* The head of the for loop, under wait_lock: the trylock comes before the
\* signal test so that a hand-off is never refused.
LoopAcquires(t) ==
  /\ CanTake(t)
  /\ Take(t)
  /\ Continue(t, "acquired")
  /\ UNCHANGED <<wait_list, wait_lock, state>>

LoopInterrupted(t) ==
  /\ ~CanTake(t)
  /\ signal_pending_state(mode[t], sig[t])
  /\ state' = [state EXCEPT ![t] = TASK_RUNNING]
  /\ wait_list' = list_del(wait_list, t)
  /\ wait_lock' = NoTask
  /\ Return(t, "out")
  /\ UNCHANGED word

LoopSchedules(t) ==
  /\ ~CanTake(t)
  /\ ~signal_pending_state(mode[t], sig[t])
  /\ wait_lock' = NoTask
  /\ Continue(t, "sched")
  /\ UNCHANGED <<word, wait_list, state>>

Loop(t) ==
  /\ Runs(t) /\ pc[t] = "loop"
  /\ LoopAcquires(t) \/ LoopInterrupted(t) \/ LoopSchedules(t)
  /\ UNCHANGED <<handoff, next>>

\* Mutant: the first waiter does not ask for a hand-off.
WokenNoHandoff(t) ==
  /\ Runs(t) /\ pc[t] = "sched"
  /\ state[t] = TASK_RUNNING
  /\ Goto(t, "set_state")
  /\ UNCHANGED <<word, wait_list, wait_lock, locals, state, sig>>

\* schedule_preempt_disabled() returns; the first waiter asks for a hand-off.
Woken(t) ==
  /\ Runs(t) /\ pc[t] = "sched"
  /\ state[t] = TASK_RUNNING
  /\ LET isFirst == first[t] \/ Head(wait_list) = t IN
     /\ first' = [first EXCEPT ![t] = isFirst]
     /\ flags' = IF isFirst /\ ~first[t] THEN flags \cup {"HANDOFF"} ELSE flags
  /\ Goto(t, "set_state")
  /\ UNCHANGED <<owner, wait_list, wait_lock, mode, handoff, next, state, sig>>

SetState(t) ==
  /\ Runs(t) /\ pc[t] = "set_state"
  /\ state' = [state EXCEPT ![t] = mode[t]]
  /\ Goto(t, "retry")
  /\ UNCHANGED <<word, wait_list, wait_lock, locals, sig>>

Retry(t) ==
  /\ Runs(t) /\ pc[t] = "retry"
  /\ \/ CanTake(t) /\ Take(t) /\ Goto(t, "relock_acquired")
     \/ ~CanTake(t) /\ Goto(t, "relock_loop") /\ UNCHANGED word
  /\ UNCHANGED <<wait_list, wait_lock, locals, state, sig>>

Relock(t) ==
  /\ Runs(t) /\ pc[t] \in {"relock_loop", "relock_acquired"}
  /\ wait_lock = NoTask
  /\ wait_lock' = t
  /\ Goto(t, IF pc[t] = "relock_loop" THEN "loop" ELSE "acquired")
  /\ UNCHANGED <<word, wait_list, locals, state, sig>>

\* acquired: leave the list; the last waiter out clears the flags.
Acquired(t) ==
  /\ Runs(t) /\ pc[t] = "acquired"
  /\ state' = [state EXCEPT ![t] = TASK_RUNNING]
  /\ wait_list' = list_del(wait_list, t)
  /\ flags' = IF wait_list' = <<>> THEN flags \ MUTEX_FLAGS ELSE flags
  /\ wait_lock' = NoTask
  /\ Return(t, "held")
  /\ UNCHANGED <<owner, handoff, next>>

\* mutex_trylock; a failed one changes nothing.
MutexTrylock(t) ==
  /\ Runs(t) /\ pc[t] = "out"
  /\ CanTake(t) /\ Take(t)
  /\ Goto(t, "held")
  /\ UNCHANGED <<wait_list, wait_lock, locals, state, sig>>

\* mutex_unlock: __mutex_unlock_fast, or the loop of __mutex_unlock_slowpath,
\* which clears the owner unless a hand-off is asked for.
MutexUnlockFast(t) ==
  /\ Runs(t) /\ pc[t] = "held"
  /\ owner = t /\ flags = {}
  /\ owner' = NoTask
  /\ Goto(t, "out")
  /\ UNCHANGED <<flags, wait_list, wait_lock, locals, state, sig>>

\* Mutant: only a hand-off takes the path that wakes a waiter.
MutexUnlockSlowNoWake(t) ==
  /\ Runs(t) /\ pc[t] = "held"
  /\ ~(owner = t /\ flags = {})
  /\ handoff' = [handoff EXCEPT ![t] = "HANDOFF" \in flags]
  /\ owner' = IF "HANDOFF" \in flags THEN owner ELSE NoTask
  /\ Goto(t, IF "HANDOFF" \in flags THEN "unlock_slow" ELSE "out")
  /\ UNCHANGED <<flags, wait_list, wait_lock, mode, first, next, state, sig>>

MutexUnlockSlow(t) ==
  /\ Runs(t) /\ pc[t] = "held"
  /\ ~(owner = t /\ flags = {})
  /\ handoff' = [handoff EXCEPT ![t] = "HANDOFF" \in flags]
  /\ owner' = IF "HANDOFF" \in flags THEN owner ELSE NoTask
  /\ Goto(t, IF flags \cap {"HANDOFF", "WAITERS"} = {} THEN "out" ELSE "unlock_slow")
  /\ UNCHANGED <<flags, wait_list, wait_lock, mode, first, next, state, sig>>

\* The wait_lock section of __mutex_unlock_slowpath, with __mutex_handoff.
UnlockWaitLock(t) ==
  /\ Runs(t) /\ pc[t] = "unlock_slow"
  /\ wait_lock = NoTask
  /\ LET n == IF wait_list = <<>> THEN NoTask ELSE Head(wait_list) IN
     /\ next' = [next EXCEPT ![t] = n]
     /\ IF handoff[t]
        THEN /\ owner' = n
             /\ flags' = (flags \cap {"WAITERS"})
                           \cup (IF n = NoTask THEN {} ELSE {"PICKUP"})
        ELSE UNCHANGED word
  /\ Goto(t, "wake_up_q")
  /\ UNCHANGED <<wait_list, wait_lock, mode, first, handoff, state, sig>>

WakeUpQ(t) ==
  /\ Runs(t) /\ pc[t] = "wake_up_q"
  /\ state' = [u \in Tasks |-> IF u = next[t] THEN TASK_RUNNING ELSE state[u]]
  /\ next' = [next EXCEPT ![t] = NoTask]
  /\ handoff' = [handoff EXCEPT ![t] = FALSE]
  /\ Goto(t, "out")
  /\ UNCHANGED <<word, wait_list, wait_lock, mode, first, sig>>
-----------------------------------------------------------------------------
InLock(t) ==
  pc[t] \in {"try", "wait_lock", "add_waiter", "loop", "sched", "set_state", "retry",
             "relock_loop", "relock_acquired", "acquired"}

\* Signals and wakeups meant for something else come at any time.
SendSignal(t, s) ==
  /\ InLock(t)
  /\ sig[t] = "none" \/ (sig[t] = "signal" /\ s = "fatal")
  /\ sig' = [sig EXCEPT ![t] = s]
  /\ state' = IF signal_pending_state(state[t], s)
              THEN [state EXCEPT ![t] = TASK_RUNNING] ELSE state
  /\ UNCHANGED <<word, wait_list, wait_lock, pc, locals>>

SpuriousWakeup(t) ==
  /\ state[t] # TASK_RUNNING
  /\ state' = [state EXCEPT ![t] = TASK_RUNNING]
  /\ UNCHANGED <<word, wait_list, wait_lock, pc, locals, sig>>

Env(t) == (\E s \in SentSignals : SendSignal(t, s)) \/ SpuriousWakeup(t)

LockEntry(t) ==
  \/ MutexLockFast(t)
  \/ \E st \in LockModes : MutexLockCommon(t, st)
  \/ MutexTrylock(t)

LockPath(t) ==
  \/ TryBeforeWait(t) \/ LockWaitLock(t) \/ AddWaiter(t) \/ Loop(t) \/ Woken(t)
  \/ SetState(t) \/ Retry(t) \/ Relock(t) \/ Acquired(t)

UnlockPath(t) ==
  \/ MutexUnlockFast(t) \/ MutexUnlockSlow(t) \/ UnlockWaitLock(t) \/ WakeUpQ(t)

Next == \E t \in Tasks : LockEntry(t) \/ LockPath(t) \/ UnlockPath(t) \/ Env(t)

Spec == Init /\ [][Next]_vars

\* The scheduler gives every runnable task the CPU again and again, and a
\* holder unlocks.  One CPU is shared, so the fairness is strong: another task
\* running disables a step only for a while.
FairSpec == Spec /\ \A t \in Tasks : SF_vars(LockPath(t)) /\ SF_vars(UnlockPath(t))
-----------------------------------------------------------------------------
Labels == {"out", "try", "wait_lock", "add_waiter", "loop", "sched", "set_state",
           "retry", "relock_loop", "relock_acquired", "acquired", "held",
           "unlock_slow", "wake_up_q"}

\* Types, and who holds wait_lock where.
TypeOK ==
  /\ owner \in Tasks \cup {NoTask}
  /\ flags \subseteq MUTEX_FLAGS
  /\ wait_list \in Seq(Tasks)
  /\ wait_lock \in Tasks \cup {NoTask}
  /\ pc \in [Tasks -> Labels]
  /\ mode \in [Tasks -> SleepStates]
  /\ first \in [Tasks -> BOOLEAN]
  /\ handoff \in [Tasks -> BOOLEAN]
  /\ next \in [Tasks -> Tasks \cup {NoTask}]
  /\ state \in [Tasks -> TaskStates]
  /\ sig \in [Tasks -> Signals]
  /\ \A t \in Tasks : (wait_lock = t) = (pc[t] \in {"add_waiter", "loop", "acquired"})

\* A task has the mutex from its successful trylock to the release in unlock.
HasLock(t) ==
  \/ pc[t] \in {"held", "relock_acquired", "acquired"}
  \/ pc[t] = "unlock_slow" /\ handoff[t]

Queued(t) ==
  pc[t] \in {"loop", "sched", "set_state", "retry", "relock_loop", "relock_acquired",
             "acquired"}

\* Mutual exclusion, as the owner word records it: whoever is past its trylock
\* is the owner and no hand-off is outstanding, which is what the
\* DEBUG_LOCKS_WARN_ON tests of the unlock path assert; and the owner word never
\* names a task that has left: it has the lock, or is a queued waiter the lock was
\* handed to.
OwnerExact ==
  /\ \A t \in Tasks : HasLock(t) => owner = t /\ "PICKUP" \notin flags
  /\ owner = NoTask => "PICKUP" \notin flags
  /\ owner # NoTask => HasLock(owner) \/ ("PICKUP" \in flags /\ Queued(owner))

\* wait_list is exactly the tasks between __mutex_add_waiter and
\* mutex_remove_waiter (a waiter is on its task's stack), and while it is not
\* empty the WAITERS bit is set, so that no unlock takes the fast path past it.
WaitListExact ==
  /\ NoDup(wait_list)
  /\ Range(wait_list) = {t \in Tasks : Queued(t)}
  /\ wait_list # <<>> => "WAITERS" \in flags

Asleep(t) == pc[t] = "sched" /\ state[t] # TASK_RUNNING

\* The first waiter never sleeps on a mutex that is free or handed to it, unless
\* an unlock is still on its way to wake it.
NoLostWakeup ==
  wait_list # <<>> =>
    LET h == Head(wait_list) IN
    (owner = NoTask \/ (owner = h /\ "PICKUP" \in flags)) /\ Asleep(h) =>
      \E u \in Tasks :
        \/ pc[u] = "unlock_slow"
        \/ pc[u] = "wake_up_q" /\ next[u] = h

\* mutex_lock() and its variants return as long as holders unlock: stealing by
\* trylock cannot starve the first waiter on one CPU, because it asks for a
\* hand-off once it has been woken in vain.
LockReturns == \A t \in Tasks : Queued(t) ~> pc[t] \in {"held", "out"}
=============================================================================
