------------------------------ MODULE Semaphore -----------------------------
(***************************************************************************)
(* The counting semaphore of the `semaphore` component                     *)
(* (semaphore/src/semaphore.c).                                            *)
(*                                                                         *)
(* sem->lock makes every critical section one step.  A contended down()    *)
(* is two kinds of step: the section that queues the waiter and goes to    *)
(* sleep, and, after each wakeup, the section that looks at waiter.up, the *)
(* pending signals and the time left, in that order.                       *)
(***************************************************************************)
EXTENDS KernelList, TaskState, FiniteSets

CONSTANTS
  Tasks,        \* the tasks that call down() and up()
  InitCount,    \* sema_init's val
  MaxExtraUps   \* bound: up() calls by contexts that never called down()

ASSUME SemaphoreConstants ==
  /\ IsFiniteSet(Tasks)
  /\ InitCount \in Nat
  /\ MaxExtraUps \in Nat

VARIABLES
  count,      \* sem->count
  wait_list,  \* sem->wait_list: the tasks of the queued waiters
  pc,         \* "out" of the semaphore code, or in __down_common's loop: "wait"
  up,         \* waiter.up of a task's (on-stack) semaphore_waiter
  mode,       \* __down_common's state parameter
  timeout,    \* "none": MAX_SCHEDULE_TIMEOUT; "left": > 0; "expired": <= 0
  state,      \* current->state
  sig,        \* the task's pending signals
  held,       \* tasks whose down() returned 0 and that have not called up()
  extra       \* up() calls made without a down()

sem == <<count, wait_list>>
waiter == <<pc, up, mode, timeout>>
vars == <<count, wait_list, pc, up, mode, timeout, state, sig, held, extra>>

Init ==
  /\ count = InitCount
  /\ wait_list = <<>>
  /\ pc = [t \in Tasks |-> "out"]
  /\ up = [t \in Tasks |-> FALSE]
  /\ mode = [t \in Tasks |-> TASK_UNINTERRUPTIBLE]
  /\ timeout = [t \in Tasks |-> "none"]
  /\ state = [t \in Tasks |-> TASK_RUNNING]
  /\ sig = [t \in Tasks |-> "none"]
  /\ held = {}
  /\ extra = 0
-----------------------------------------------------------------------------
\* A task calls a down variant.  A task holds at most one unit (bound).
CanCall(t) == pc[t] = "out" /\ t \notin held

\* sem->count > 0: take a unit without waiting.
TakeUnit(t) ==
  /\ count > 0
  /\ count' = count - 1
  /\ held' = held \cup {t}
  /\ UNCHANGED <<wait_list, waiter, state, sig, extra>>

\* wake_up_process(): a sleeper becomes runnable, whatever it sleeps for.
wake_up_process(t) == state' = [state EXCEPT ![t] = TASK_RUNNING]

\* Mutant: list_add() for list_add_tail().
DownCommonEnterLifo(t, st, tmo) ==
  /\ count = 0
  /\ ~signal_pending_state(st, sig[t]) /\ tmo # "expired"
  /\ wait_list' = list_add(wait_list, t)
  /\ pc' = [pc EXCEPT ![t] = "wait"]
  /\ up' = [up EXCEPT ![t] = FALSE]
  /\ mode' = [mode EXCEPT ![t] = st]
  /\ timeout' = [timeout EXCEPT ![t] = tmo]
  /\ state' = [state EXCEPT ![t] = st]
  /\ UNCHANGED <<count, held, sig, extra>>

\* __down_common up to its first schedule_timeout().  A signal already pending
\* or a timeout already over unlinks the waiter again in the same section.
DownCommonEnter(t, st, tmo) ==
  /\ count = 0
  /\ IF signal_pending_state(st, sig[t]) \/ tmo = "expired"
     THEN UNCHANGED <<wait_list, waiter, state>>
     ELSE /\ wait_list' = Append(wait_list, t)
          /\ pc' = [pc EXCEPT ![t] = "wait"]
          /\ up' = [up EXCEPT ![t] = FALSE]
          /\ mode' = [mode EXCEPT ![t] = st]
          /\ timeout' = [timeout EXCEPT ![t] = tmo]
          /\ state' = [state EXCEPT ![t] = st]
  /\ UNCHANGED <<count, held, sig, extra>>

DownWith(t, st, tmo) ==
  /\ CanCall(t)
  /\ TakeUnit(t) \/ DownCommonEnter(t, st, tmo)

Down(t) == DownWith(t, TASK_UNINTERRUPTIBLE, "none")
DownInterruptible(t) == DownWith(t, TASK_INTERRUPTIBLE, "none")
DownKillable(t) == DownWith(t, TASK_KILLABLE, "none")
DownTimeout(t) ==
  \E tmo \in {"left", "expired"} : DownWith(t, TASK_UNINTERRUPTIBLE, tmo)

\* A failed down_trylock() changes nothing.
DownTrylock(t) == CanCall(t) /\ TakeUnit(t)

\* What is left of __down_common's loop body after schedule_timeout(): the
\* unit handed over by __up() wins over a signal, a signal over the timeout.
LeaveWait(t) ==
  /\ pc' = [pc EXCEPT ![t] = "out"]
  /\ up' = [up EXCEPT ![t] = FALSE]
  /\ mode' = [mode EXCEPT ![t] = TASK_UNINTERRUPTIBLE]
  /\ timeout' = [timeout EXCEPT ![t] = "none"]

Granted(t) ==
  /\ up[t]
  /\ LeaveWait(t)
  /\ held' = held \cup {t}
  /\ UNCHANGED <<sem, state>>

\* Mutant: the signal is looked at before waiter.up.
SignalBeforeUp(t) ==
  /\ signal_pending_state(mode[t], sig[t]) \/ timeout[t] = "expired"
  /\ LeaveWait(t)
  /\ wait_list' = IF up[t] THEN wait_list ELSE list_del(wait_list, t)
  /\ UNCHANGED <<count, state, held>>

InterruptedOrTimedOut(t) ==
  /\ ~up[t]
  /\ signal_pending_state(mode[t], sig[t]) \/ timeout[t] = "expired"
  /\ LeaveWait(t)
  /\ wait_list' = list_del(wait_list, t)
  /\ UNCHANGED <<count, state, held>>

\* Mutant: the signal is tested once, before the loop.
SleepAgainUnchecked(t) ==
  /\ ~up[t]
  /\ timeout[t] # "expired"
  /\ state' = [state EXCEPT ![t] = mode[t]]
  /\ UNCHANGED <<sem, waiter, held>>

SleepAgain(t) ==
  /\ ~up[t]
  /\ ~signal_pending_state(mode[t], sig[t])
  /\ timeout[t] # "expired"
  /\ state' = [state EXCEPT ![t] = mode[t]]
  /\ UNCHANGED <<sem, waiter, held>>

DownCommonResume(t) ==
  /\ pc[t] = "wait"
  /\ state[t] = TASK_RUNNING
  /\ Granted(t) \/ InterruptedOrTimedOut(t) \/ SleepAgain(t)
  /\ UNCHANGED <<sig, extra>>

\* up() without a waiter, and __up(): hand the unit to the first waiter.
GiveUnit ==
  \/ /\ wait_list = <<>>
     /\ count' = count + 1
     /\ UNCHANGED <<wait_list, waiter, state>>
  \/ /\ wait_list # <<>>
     /\ wait_list' = Tail(wait_list)
     /\ up' = [up EXCEPT ![Head(wait_list)] = TRUE]
     /\ wake_up_process(Head(wait_list))
     /\ UNCHANGED <<count, pc, mode, timeout>>

Up(t) ==
  /\ t \in held
  /\ held' = held \ {t}
  /\ GiveUnit
  /\ UNCHANGED <<sig, extra>>

UpFromElsewhere ==
  /\ extra < MaxExtraUps
  /\ extra' = extra + 1
  /\ GiveUnit
  /\ UNCHANGED <<sig, held>>
-----------------------------------------------------------------------------
\* The environment: signals, the timer armed by schedule_timeout(), wakeups
\* meant for something else, and a task handling its signals outside down().
SendSignal(t, s) ==
  /\ sig[t] = "none" \/ (sig[t] = "signal" /\ s = "fatal")
  /\ sig' = [sig EXCEPT ![t] = s]
  /\ IF signal_pending_state(state[t], s)
     THEN wake_up_process(t)
     ELSE UNCHANGED state
  /\ UNCHANGED <<sem, waiter, held, extra>>

HandleSignal(t) ==
  /\ pc[t] = "out"
  /\ sig[t] = "signal"
  /\ sig' = [sig EXCEPT ![t] = "none"]
  /\ UNCHANGED <<sem, waiter, state, held, extra>>

TimerFires(t) ==
  /\ pc[t] = "wait"
  /\ timeout[t] = "left"
  /\ timeout' = [timeout EXCEPT ![t] = "expired"]
  /\ wake_up_process(t)
  /\ UNCHANGED <<sem, pc, up, mode, sig, held, extra>>

SpuriousWakeup(t) ==
  /\ state[t] # TASK_RUNNING
  /\ wake_up_process(t)
  /\ UNCHANGED <<sem, waiter, sig, held, extra>>

Env(t) ==
  \/ \E s \in Signals \ {"none"} : SendSignal(t, s)
  \/ HandleSignal(t)
  \/ TimerFires(t)
  \/ SpuriousWakeup(t)

AnyDown(t) ==
  \/ Down(t)
  \/ DownInterruptible(t)
  \/ DownKillable(t)
  \/ DownTimeout(t)
  \/ DownTrylock(t)

Next ==
  \/ \E t \in Tasks : AnyDown(t) \/ DownCommonResume(t) \/ Up(t) \/ Env(t)
  \/ UpFromElsewhere

Spec == Init /\ [][Next]_vars

\* A runnable task runs (the scheduler), and a holder releases its unit.
FairSpec ==
  /\ Spec
  /\ \A t \in Tasks : WF_vars(DownCommonResume(t)) /\ WF_vars(Up(t))
-----------------------------------------------------------------------------
\* Type invariant: the count never goes below zero (it is unsigned in the code).
TypeOK ==
  /\ count \in Nat
  /\ wait_list \in Seq(Tasks)
  /\ pc \in [Tasks -> {"out", "wait"}]
  /\ up \in [Tasks -> BOOLEAN]
  /\ mode \in [Tasks -> SleepStates]
  /\ timeout \in [Tasks -> {"none", "left", "expired"}]
  /\ state \in [Tasks -> TaskStates]
  /\ sig \in [Tasks -> Signals]
  /\ held \subseteq Tasks
  /\ extra \in 0..MaxExtraUps

\* Waiters __up() has handed a unit to and that have not run since.
Owed == {t \in Tasks : pc[t] = "wait" /\ up[t]}

\* wait_list holds exactly the waiters that have not been handed a unit, each
\* once.  A waiter lives on its task's stack, so an entry that outlives the
\* return of down() with -EINTR or -ETIME would be a dangling pointer.
WaitListExact ==
  /\ NoDup(wait_list)
  /\ Range(wait_list) = {t \in Tasks : pc[t] = "wait" /\ ~up[t]}

\* No unit is free while a task waits for one: up() either counts or hands
\* over, and a waiter that gives up leaves the count alone.
NoIdleUnit == wait_list # <<>> => count = 0

\* Units are neither lost nor made: whatever races a signal, a timeout and
\* up() run, every unit is in the count, owed to a woken waiter, or held.
UnitConservation ==
  count + Cardinality(Owed) + Cardinality(held) = InitCount + extra

\* A task never sleeps on with a reason to be awake: a unit handed to it, a
\* signal its sleep admits, or an expired timeout.
NoLostWakeup ==
  \A t \in Tasks : pc[t] = "wait" /\ state[t] # TASK_RUNNING =>
    /\ state[t] = mode[t]
    /\ ~up[t]
    /\ ~signal_pending_state(mode[t], sig[t])
    /\ timeout[t] # "expired"

\* The queued, interruptible semaphore behaves like a plain P/V semaphore whose
\* available units are the counted ones and those owed to woken waiters.
Abstract == INSTANCE AbstractSemaphore
  WITH avail <- count + Cardinality(Owed), held <- held
ImplementsPV == Abstract!ASpec

\* Every down() returns as long as holders release: nobody starves in the
\* queue, whichever waiters are interrupted or time out.
DownReturns == \A t \in Tasks : pc[t] = "wait" ~> pc[t] = "out"
=============================================================================
