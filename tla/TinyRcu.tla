------------------------------- MODULE TinyRcu ------------------------------
(***************************************************************************)
(* Read-copy-update on one CPU: the `rcu` component's rcu/src/tiny.c, with *)
(* the callers that report quiescent states (__schedule() and the tick)    *)
(* and the RCU softirq.                                                    *)
(*                                                                         *)
(* Nothing records readers: rcu_read_lock() only keeps the task from being *)
(* switched out.  The grace period rests on where rcu_qs() is called.      *)
(***************************************************************************)
EXTENDS Integers, Sequences, Functions

CONSTANTS
  Tasks,
  Idle,    \* the idle task
  Heads    \* the rcu_heads callbacks are posted with

ASSUME TinyRcuConstants ==
  /\ Idle \notin Tasks
  /\ "irq" \notin Tasks \cup {Idle} /\ "softirq" \notin Tasks \cup {Idle}

VARIABLES
  current,       \* the task on the CPU
  user,          \* it runs in user mode
  ctx,           \* what has interrupted it: softirqs, an interrupt (on top of both)
  softirq_at,    \* where the softirq is
  pending,       \* RCU_SOFTIRQ is pending
  need_resched,  \* TIF_NEED_RESCHED
  rcucblist,     \* rcu_ctrlblk.rcucblist
  done,          \* rcu_ctrlblk.donetail: behind that many callbacks of the list
  curtail,       \* rcu_ctrlblk.curtail: likewise, or Detached
  list,          \* rcu_process_callbacks: the local list
  reading,       \* the contexts inside a read-side critical section
  guards,        \* ghost: the sections open when call_rcu() was called, still open
  posted,        \* ghost: the callbacks posted, not invoked yet
  ahead          \* ghost: those of them that were posted earlier

cpu == <<current, user, ctx, softirq_at>>
ctrlblk == <<rcucblist, done, curtail>>
ghost == <<guards, posted, ahead>>
vars == <<current, user, ctx, softirq_at, pending, need_resched, rcucblist, done, curtail, list,
          reading, guards, posted, ahead>>

AllTasks == Tasks \cup {Idle}
Contexts == AllTasks \cup {"irq", "softirq"}

\* A tail pointer into the last callback that rcu_process_callbacks took off the list.
Detached == -1

Init ==
  /\ current \in AllTasks
  /\ user = FALSE
  /\ ctx = {}
  /\ softirq_at = "none"
  /\ pending = FALSE
  /\ need_resched = FALSE
  /\ rcucblist = <<>>
  /\ done = 0
  /\ curtail = 0
  /\ list = <<>>
  /\ reading = {}
  /\ guards = [h \in Heads |-> {}]
  /\ posted = {}
  /\ ahead = [h \in Heads |-> {}]
-----------------------------------------------------------------------------
\* The context that runs now.
Here ==
  IF "irq" \in ctx THEN "irq" ELSE IF "softirq" \in ctx THEN "softirq" ELSE current
Queued == Range(list) \cup Range(rcucblist)

\* Kernel code that may use RCU; softirq actions other than RCU's, and RCU
\* callbacks, are such code too.
InKernel ==
  /\ ctx = {} => ~user
  /\ Here = "softirq" => softirq_at # "take"

RcuReadLock ==
  /\ InKernel
  /\ Here \notin reading
  /\ reading' = reading \cup {Here}
  /\ UNCHANGED <<cpu, pending, need_resched, ctrlblk, list, ghost>>

RcuReadUnlock ==
  /\ InKernel
  /\ Here \in reading
  /\ reading' = reading \ {Here}
  /\ guards' = [h \in Heads |-> guards[h] \ {Here}]
  /\ UNCHANGED <<cpu, pending, need_resched, ctrlblk, list, posted, ahead>>

\* *curtail = head: behind the callbacks that are on the list, or, were curtail not
\* pulled back when they were taken off it, behind those being invoked, if any.
LinkAtTail(h) ==
  IF curtail = Detached
  THEN /\ list' = IF list = <<>> THEN list ELSE Append(list, h)
       /\ UNCHANGED <<rcucblist, curtail>>
  ELSE /\ rcucblist' = Append(SubSeq(rcucblist, 1, curtail), h)
       /\ curtail' = curtail + 1
       /\ UNCHANGED list

\* What a callback has to wait for, and what rcu_barrier() relies on.
RecordPosted(h) ==
  /\ guards' = [guards EXCEPT ![h] = reading]
  /\ ahead' = [ahead EXCEPT ![h] = posted]
  /\ posted' = posted \cup {h}

\* Mutant: the idle task does not force a reschedule.
CallRcuIdle(h) ==
  /\ InKernel
  /\ h \notin Queued
  /\ LinkAtTail(h)
  /\ RecordPosted(h)
  /\ UNCHANGED <<cpu, pending, need_resched, done, reading>>

\* A head is posted again only after its callback has been invoked.
CallRcu(h) ==
  /\ InKernel
  /\ h \notin Queued
  /\ LinkAtTail(h)
  /\ need_resched' = (need_resched \/ current = Idle)
  /\ RecordPosted(h)
  /\ UNCHANGED <<cpu, pending, done, reading>>

\* A quiescent state: everything posted so far may be invoked.
rcu_qs ==
  /\ done' = curtail
  /\ pending' = (pending \/ done # curtail)

\* __schedule(), called outside read-side sections.
Schedule ==
  /\ ctx = {} /\ ~user /\ current \notin reading
  /\ rcu_qs
  /\ need_resched' = FALSE
  /\ current' \in AllTasks
  /\ UNCHANGED <<user, ctx, softirq_at, rcucblist, curtail, list, reading, ghost>>

\* Wake-ups and the scheduler's own tick ask for a context switch at any time.
ReschedCurr ==
  /\ ~need_resched
  /\ need_resched' = TRUE
  /\ UNCHANGED <<cpu, pending, ctrlblk, list, reading, ghost>>

\* Back to user mode, unless the task has to be rescheduled first; and a system
\* call or an exception.
ReturnToUser ==
  /\ ctx = {} /\ ~user /\ current \in Tasks /\ current \notin reading
  /\ ~need_resched
  /\ user' = TRUE
  /\ UNCHANGED <<current, ctx, softirq_at, pending, need_resched, ctrlblk, list, reading, ghost>>

EnterKernel ==
  /\ ctx = {} /\ user
  /\ user' = FALSE
  /\ UNCHANGED <<current, ctx, softirq_at, pending, need_resched, ctrlblk, list, reading, ghost>>

\* Mutant: every tick counts as a quiescent state.
RcuSchedClockIrqAlways(user_tick) ==
  /\ rcu_qs
  /\ UNCHANGED need_resched

\* rcu_sched_clock_irq(user): user mode is a quiescent state, otherwise ask for
\* a context switch.
RcuSchedClockIrq(user_tick) ==
  IF user_tick
  THEN rcu_qs /\ UNCHANGED need_resched
  ELSE /\ need_resched' = (need_resched \/ done # curtail)
       /\ UNCHANGED <<done, pending>>

\* An interrupt, the tick among them.  user_mode(regs) is about what the
\* interrupt came on, so it is false on top of a softirq.
Tick ==
  /\ Here # "irq"
  /\ RcuSchedClockIrq(user /\ ctx = {})
  /\ ctx' = ctx \cup {"irq"}
  /\ UNCHANGED <<current, user, softirq_at, rcucblist, curtail, list, reading, ghost>>

OtherIrq ==
  /\ Here # "irq"
  /\ ctx' = ctx \cup {"irq"}
  /\ UNCHANGED <<current, user, softirq_at, pending, need_resched, ctrlblk, list, reading, ghost>>

\* Mutant: the interrupted kernel code is preempted.
IrqExitPreempts ==
  /\ Here = "irq" /\ "irq" \notin reading
  /\ ctx' = ctx \ {"irq"}
  /\ current' \in IF need_resched /\ ctx' = {} THEN AllTasks ELSE {current}
  /\ UNCHANGED <<user, softirq_at, pending, need_resched, ctrlblk, list, reading, ghost>>

\* The interrupt returns: to run softirqs if there are any (other vectors may be
\* pending too) and it is not on top of one, or to where it came from.
IrqExit ==
  /\ Here = "irq" /\ "irq" \notin reading
  /\ \/ /\ "softirq" \notin ctx
        /\ ctx' = {"softirq"}
        /\ softirq_at' = IF pending THEN "take" ELSE "code"
        /\ pending' = FALSE
        /\ UNCHANGED user
     \/ /\ "softirq" \notin ctx => ~pending
        /\ ctx' = ctx \ {"irq"}
        /\ user' = (user /\ ~(need_resched /\ ctx' = {}))
        /\ UNCHANGED <<softirq_at, pending>>
  /\ UNCHANGED <<current, need_resched, ctrlblk, list, reading, ghost>>

\* local_bh_enable() in a task, inside a read-side section or not.
LocalBhEnable ==
  /\ ctx = {} /\ ~user
  /\ pending
  /\ ctx' = {"softirq"}
  /\ softirq_at' = "take"
  /\ pending' = FALSE
  /\ UNCHANGED <<current, user, need_resched, ctrlblk, list, reading, ghost>>

\* Mutant: curtail stays behind the last callback although that was taken.
TakeCallbacksStale ==
  /\ Here = "softirq" /\ softirq_at = "take"
  /\ IF done = 0
     THEN UNCHANGED <<ctrlblk, list>>
     ELSE /\ list' = SubSeq(rcucblist, 1, done)
          /\ rcucblist' = SubSeq(rcucblist, done + 1, Len(rcucblist))
          /\ curtail' = IF curtail = done THEN Detached ELSE curtail - done
          /\ done' = 0
  /\ softirq_at' = "code"
  /\ UNCHANGED <<current, user, ctx, pending, need_resched, reading, ghost>>

\* rcu_process_callbacks: take the callbacks that are done, with the tails pulled
\* back to the head of the list (curtail only if nothing is left behind donetail), ...
TakeCallbacks ==
  /\ Here = "softirq" /\ softirq_at = "take"
  /\ IF done = 0
     THEN UNCHANGED <<ctrlblk, list>>
     ELSE /\ list' = SubSeq(rcucblist, 1, done)
          /\ rcucblist' = SubSeq(rcucblist, done + 1, Len(rcucblist))
          /\ curtail' = IF curtail = done THEN 0 ELSE curtail - done
          /\ done' = 0
  /\ softirq_at' = "code"
  /\ UNCHANGED <<current, user, ctx, pending, need_resched, reading, ghost>>

\* ... and invoke them one by one with interrupts on: rcu_reclaim_tiny of the next
\* callback, after which its head may be reused.
InvokeCallback ==
  /\ Here = "softirq" /\ softirq_at = "code" /\ "softirq" \notin reading
  /\ list # <<>>
  /\ list' = Tail(list)
  /\ posted' = posted \ {Head(list)}
  /\ ahead' = [h \in Heads |-> ahead[h] \ {Head(list)}]
  /\ UNCHANGED <<cpu, pending, need_resched, ctrlblk, reading, guards>>

\* __do_softirq goes round again or ends.
SoftirqEnd ==
  /\ Here = "softirq" /\ softirq_at = "code" /\ "softirq" \notin reading
  /\ list = <<>>
  /\ \/ /\ pending
        /\ pending' = FALSE
        /\ softirq_at' = "take"
        /\ UNCHANGED <<ctx, user>>
     \/ /\ ctx' = {}
        /\ softirq_at' = "none"
        /\ user' = (user /\ ~need_resched)
        /\ UNCHANGED pending
  /\ UNCHANGED <<current, need_resched, ctrlblk, list, reading, ghost>>
-----------------------------------------------------------------------------
SoftirqStep == TakeCallbacks \/ InvokeCallback \/ SoftirqEnd

Next ==
  \/ RcuReadLock \/ RcuReadUnlock
  \/ \E h \in Heads : CallRcu(h)
  \/ Schedule \/ ReschedCurr \/ ReturnToUser \/ EnterKernel
  \/ Tick \/ OtherIrq \/ IrqExit \/ LocalBhEnable
  \/ SoftirqStep

Spec == Init /\ [][Next]_vars

\* can_stop_idle_tick(): the tick may be off in an idle CPU that has no task to
\* switch to and no softirq pending; rcu_needs_cpu() does not keep it on.
TickStopped == current = Idle /\ ~need_resched /\ ~pending

\* The tick comes unless it is stopped, interrupt handlers, softirqs and readers
\* finish, and kernel code that is to be rescheduled is.
FairSpec ==
  /\ Spec
  /\ SF_vars(Tick /\ ~TickStopped)
  /\ SF_vars(IrqExit)
  /\ SF_vars(SoftirqStep)
  /\ SF_vars(Schedule /\ need_resched)
  /\ \A c \in {"irq", "softirq", "task"} :
       SF_vars(RcuReadUnlock /\ (IF c = "task" THEN ctx = {} ELSE Here = c))
-----------------------------------------------------------------------------
\* Type invariant; donetail points into the list, curtail behind its last callback.
TypeOK ==
  /\ current \in AllTasks
  /\ user \in BOOLEAN
  /\ ctx \subseteq {"softirq", "irq"}
  /\ softirq_at \in {"none", "take", "code"}
  /\ pending \in BOOLEAN
  /\ need_resched \in BOOLEAN
  /\ rcucblist \in Seq(Heads)
  /\ done \in 0..Len(rcucblist)
  /\ curtail = Len(rcucblist)
  /\ list \in Seq(Heads)
  /\ reading \subseteq Contexts
  /\ guards \in [Heads -> SUBSET Contexts]
  /\ posted \subseteq Heads
  /\ ahead \in [Heads -> SUBSET Heads]

\* A callback whose grace period counts as over, and so each one invoked, has no
\* reader left that was inside its section when call_rcu() was called.
GracePeriod ==
  /\ \A i \in 1..done : guards[rcucblist[i]] = {}
  /\ \A i \in 1..Len(list) : guards[list[i]] = {}

\* synchronize_rcu() does nothing: wherever a task may call it, no task and no
\* interrupt handler is inside a read-side section.
SynchronizeIsGracePeriod ==
  ctx = {} /\ current \notin reading => reading = {}

\* The callbacks in the order they will be invoked, and those before the i-th.
Posted == list \o rcucblist
Before(s, i) == {s[j] : j \in 1..(i - 1)}

\* No callback is lost, and they are invoked in the order they are posted, which is
\* why rcu_barrier() gets by with posting one more: those before it are exactly the
\* older ones.
BarrierOrder ==
  /\ posted = Queued
  /\ \A i \in 1..Len(Posted) : ahead[Posted[i]] = Before(Posted, i)

\* Every posted callback is invoked, also on a CPU that goes idle with its tick
\* stopped.
CallbackInvoked == \A h \in Heads : (h \in posted) ~> (h \notin posted)
=============================================================================
