------------------------------- MODULE Softirq ------------------------------
(***************************************************************************)
(* The `softirq` component (softirq/src/softirq.c) on the one CPU of the   *)
(* configured build: raising and running softirqs, local_bh_disable() and  *)
(* local_bh_enable(), and tasklets.                                        *)
(*                                                                         *)
(* The CPU is a stack of activations: a task at the bottom, an interrupt   *)
(* or a __do_softirq() on top of what it interrupted.  Only the top runs.  *)
(* An interrupt is taken wherever interrupts are enabled, so what the code *)
(* does between local_irq_disable() and local_irq_enable() is one step.    *)
(***************************************************************************)
EXTENDS Integers, Sequences, FiniteSets, FiniteSetsExt, SequencesExt

CONSTANTS
  Vecs,                 \* the softirq numbers in use
  TASKLET_SOFTIRQ,      \* the one that runs tasklet_action
  Tasklets,
  None,
  MAX_SOFTIRQ_RESTART,
  MaxBh,                \* bound: local_bh_disable() nesting within an activation
  MaxDisable            \* bound: tasklet_disable() nesting

ASSUME SoftirqConstants ==
  /\ Vecs \subseteq Nat /\ IsFiniteSet(Vecs)
  /\ TASKLET_SOFTIRQ \in Vecs
  /\ None \notin Tasklets
  /\ MAX_SOFTIRQ_RESTART \in Nat \ {0}
  /\ MaxBh \in Nat /\ MaxDisable \in Nat

VARIABLES
  stack,          \* the activations on the CPU
  pending,        \* local_softirq_pending()
  softirq_count,  \* the softirq bits of preempt_count, in units of SOFTIRQ_OFFSET
  hardirq_count,  \* its hardirq bits, in units of HARDIRQ_OFFSET
  sched,          \* tasklets with TASKLET_STATE_SCHED
  disabled,       \* tasklet -> its disable count
  tasklet_vec,    \* tasklet_vec: the list of queued tasklets
  ksoftirqd,      \* "none", "asleep" or "running"
  bug             \* BUG() was reached

tasklet == <<sched, disabled, tasklet_vec>>
vars == <<stack, pending, softirq_count, hardirq_count, sched, disabled, tasklet_vec,
          ksoftirqd, bug>>

\* An activation: what it runs, where it is, how often it has disabled bottom
\* halves, the tasklet it has marked but not queued yet, and __do_softirq's and
\* tasklet_action_common's locals.
Activation(fn, at) ==
  [fn |-> fn, at |-> at, bh |-> 0, marked |-> None, todo |-> {}, max_restart |-> 0,
   prev_count |-> 0, list |-> <<>>, runs |-> None]

Init ==
  /\ stack = <<Activation("task", "code")>>
  /\ pending = {}
  /\ softirq_count = 0
  /\ hardirq_count = 0
  /\ sched = {}
  /\ disabled = [t \in Tasklets |-> 0]
  /\ tasklet_vec = <<>>
  /\ ksoftirqd = "none"
  /\ bug = FALSE
-----------------------------------------------------------------------------
Top == Last(stack)
Below == Front(stack)
BecomeTop(f) == stack' = Append(Below, f)

in_interrupt == softirq_count > 0 \/ hardirq_count > 0

\* Interrupts are off in interrupt handlers only: the other sections that turn
\* them off are single steps.
IrqsOn == Top.fn # "irq"

\* Code that calls into this component: a task, an interrupt handler, a softirq
\* action or a tasklet, and none of them inside tasklet_schedule().
InCode == Top.at = "code" /\ Top.marked = None

wakeup_softirqd == ksoftirqd' = IF ksoftirqd = "asleep" THEN "running" ELSE ksoftirqd

\* SOFTIRQ_NOW_MASK: HI_SOFTIRQ (which nothing raises) and TASKLET_SOFTIRQ.
ksoftirqd_running(p) == TASKLET_SOFTIRQ \notin p /\ ksoftirqd = "running"

raise_softirq_irqoff(v) ==
  /\ pending' = pending \cup {v}
  /\ IF in_interrupt THEN UNCHANGED ksoftirqd ELSE wakeup_softirqd

RaiseSoftirq(v) ==
  /\ InCode
  /\ raise_softirq_irqoff(v)
  /\ UNCHANGED <<stack, softirq_count, hardirq_count, tasklet, bug>>

\* Mutant: set_bit() for test_and_set_bit().
TaskletScheduleMarkAlways(t) ==
  /\ InCode
  /\ sched' = sched \cup {t}
  /\ BecomeTop([Top EXCEPT !.marked = t])
  /\ UNCHANGED <<pending, softirq_count, hardirq_count, disabled, tasklet_vec, ksoftirqd, bug>>

\* tasklet_schedule: test_and_set_bit, then the section of
\* __tasklet_schedule_common.
TaskletScheduleMark(t) ==
  /\ InCode
  /\ t \notin sched
  /\ sched' = sched \cup {t}
  /\ BecomeTop([Top EXCEPT !.marked = t])
  /\ UNCHANGED <<pending, softirq_count, hardirq_count, disabled, tasklet_vec, ksoftirqd, bug>>

TaskletScheduleCommon ==
  /\ Top.marked # None
  /\ tasklet_vec' = Append(tasklet_vec, Top.marked)
  /\ raise_softirq_irqoff(TASKLET_SOFTIRQ)
  /\ BecomeTop([Top EXCEPT !.marked = None])
  /\ UNCHANGED <<softirq_count, hardirq_count, sched, disabled, bug>>

TaskletDisable(t) ==
  /\ InCode
  /\ disabled[t] < MaxDisable
  /\ disabled' = [disabled EXCEPT ![t] = @ + 1]
  /\ UNCHANGED <<stack, pending, softirq_count, hardirq_count, sched, tasklet_vec, ksoftirqd, bug>>

TaskletEnable(t) ==
  /\ InCode
  /\ disabled[t] > 0
  /\ disabled' = [disabled EXCEPT ![t] = @ - 1]
  /\ UNCHANGED <<stack, pending, softirq_count, hardirq_count, sched, tasklet_vec, ksoftirqd, bug>>

\* SOFTIRQ_DISABLE_OFFSET is twice SOFTIRQ_OFFSET.
LocalBhDisable ==
  /\ InCode /\ Top.fn # "irq"
  /\ Top.bh < MaxBh
  /\ softirq_count' = softirq_count + 2
  /\ BecomeTop([Top EXCEPT !.bh = @ + 1])
  /\ UNCHANGED <<pending, hardirq_count, tasklet, ksoftirqd, bug>>

\* __local_bh_enable_ip up to its call of do_softirq, which finds out for itself
\* whether an interrupt has dealt with the pending softirqs meanwhile.
LocalBhEnable ==
  /\ InCode /\ Top.fn # "irq"
  /\ Top.bh > 0
  /\ softirq_count' = softirq_count - 2
  /\ LET f == [Top EXCEPT !.bh = @ - 1]
         calls == softirq_count' = 0 /\ hardirq_count = 0 /\ pending # {}
     IN BecomeTop(IF calls THEN [f EXCEPT !.at = "do_softirq"] ELSE f)
  /\ UNCHANGED <<pending, hardirq_count, tasklet, ksoftirqd, bug>>

\* __do_softirq up to its first local_irq_enable(), on top of the stack s.
EnterSoftirq(s) ==
  /\ stack' = Append(s, [Activation("softirq", "vec") EXCEPT !.todo = pending,
                           !.max_restart = MAX_SOFTIRQ_RESTART])
  /\ softirq_count' = softirq_count + 1
  /\ pending' = {}

DoSoftirq ==
  LET back == Append(Below, [Top EXCEPT !.at = "code"]) IN
  /\ Top.at = "do_softirq"
  /\ IF ~in_interrupt /\ pending # {} /\ ~ksoftirqd_running(pending)
     THEN EnterSoftirq(back)
     ELSE stack' = back /\ UNCHANGED <<softirq_count, pending>>
  /\ UNCHANGED <<hardirq_count, tasklet, ksoftirqd, bug>>

\* An interrupt: irq_enter(), and, when its handler is done, irq_exit().
IrqEnter ==
  /\ IrqsOn
  /\ stack' = Append(stack, Activation("irq", "code"))
  /\ hardirq_count' = hardirq_count + 1
  /\ UNCHANGED <<pending, softirq_count, tasklet, ksoftirqd, bug>>

\* Mutant: irq_exit() tests for a hard interrupt only.
IrqExitInSoftirq ==
  /\ InCode /\ Top.fn = "irq"
  /\ hardirq_count' = hardirq_count - 1
  /\ IF hardirq_count' = 0 /\ pending # {} /\ ~ksoftirqd_running(pending)
     THEN EnterSoftirq(Below)
     ELSE stack' = Below /\ UNCHANGED <<softirq_count, pending>>
  /\ UNCHANGED <<tasklet, ksoftirqd, bug>>

\* Mutant: irq_exit() only ever wakes ksoftirqd.
IrqExitDefers ==
  /\ InCode /\ Top.fn = "irq"
  /\ hardirq_count' = hardirq_count - 1
  /\ stack' = Below
  /\ wakeup_softirqd
  /\ UNCHANGED <<softirq_count, pending, tasklet, bug>>

IrqExit ==
  /\ InCode /\ Top.fn = "irq"
  /\ hardirq_count' = hardirq_count - 1
  /\ IF softirq_count = 0 /\ hardirq_count' = 0 /\ pending # {}
          /\ ~ksoftirqd_running(pending)
     THEN EnterSoftirq(Below)
     ELSE stack' = Below /\ UNCHANGED <<softirq_count, pending>>
  /\ UNCHANGED <<tasklet, ksoftirqd, bug>>

\* The loop of __do_softirq over the pending vectors, lowest number first.
RunVec ==
  /\ Top.fn = "softirq" /\ Top.at = "vec" /\ Top.todo # {}
  /\ LET v == Min(Top.todo) IN
     BecomeTop([Top EXCEPT !.todo = @ \ {v}, !.prev_count = softirq_count,
                  !.at = IF v = TASKLET_SOFTIRQ THEN "tasklet_action" ELSE "code"])
  /\ UNCHANGED <<pending, softirq_count, hardirq_count, tasklet, ksoftirqd, bug>>

\* Mutant: a changed preempt_count is not set right.
ActionReturnsUnchecked ==
  /\ BecomeTop([Top EXCEPT !.bh = 0, !.at = "vec"])
  /\ UNCHANGED <<pending, softirq_count, hardirq_count, tasklet, ksoftirqd, bug>>

\* An action returns; preempt_count is set right if it comes back changed.
ActionReturns ==
  /\ softirq_count' = Top.prev_count
  /\ BecomeTop([Top EXCEPT !.bh = 0, !.at = "vec"])
  /\ UNCHANGED <<pending, hardirq_count, tasklet, ksoftirqd, bug>>

OtherActionReturns ==
  /\ Top.fn = "softirq" /\ InCode /\ Top.runs = None
  /\ ActionReturns

\* After the last vector: start over, or leave the rest to ksoftirqd when the
\* time is up, a task is to run (both are left open) or restarts are used up.
SoftirqRestart ==
  /\ Top.fn = "softirq" /\ Top.at = "vec" /\ Top.todo = {}
  /\ pending # {}
  /\ Top.max_restart - 1 # 0
  /\ BecomeTop([Top EXCEPT !.max_restart = @ - 1, !.todo = pending])
  /\ pending' = {}
  /\ UNCHANGED <<softirq_count, hardirq_count, tasklet, ksoftirqd, bug>>

SoftirqExit ==
  /\ Top.fn = "softirq" /\ Top.at = "vec" /\ Top.todo = {}
  /\ IF pending # {} THEN wakeup_softirqd ELSE UNCHANGED ksoftirqd
  /\ softirq_count' = softirq_count - 1
  /\ stack' = Below
  /\ UNCHANGED <<pending, hardirq_count, tasklet, bug>>

\* tasklet_action_common: take the whole list over.
TaskletTake ==
  /\ Top.at = "tasklet_action"
  /\ BecomeTop([Top EXCEPT !.list = tasklet_vec, !.at = "tasklets"])
  /\ tasklet_vec' = <<>>
  /\ UNCHANGED <<pending, softirq_count, hardirq_count, sched, disabled, ksoftirqd, bug>>

\* Its loop: an enabled tasklet is to run, a disabled one is queued again.
TaskletCheck ==
  /\ Top.at = "tasklets" /\ Top.list # <<>>
  /\ LET t == Head(Top.list)  f == [Top EXCEPT !.list = Tail(@)] IN
     \/ /\ disabled[t] = 0
        /\ BecomeTop([f EXCEPT !.at = "clear", !.runs = t])
        /\ UNCHANGED <<tasklet_vec, pending>>
     \/ /\ disabled[t] # 0
        /\ BecomeTop([f EXCEPT !.at = "requeue", !.runs = t])
        /\ UNCHANGED <<tasklet_vec, pending>>
  /\ UNCHANGED <<softirq_count, hardirq_count, sched, disabled, ksoftirqd, bug>>

TaskletRequeue ==
  /\ Top.at = "requeue"
  /\ tasklet_vec' = Append(tasklet_vec, Top.runs)
  /\ pending' = pending \cup {TASKLET_SOFTIRQ}
  /\ BecomeTop([Top EXCEPT !.at = "tasklets", !.runs = None])
  /\ UNCHANGED <<softirq_count, hardirq_count, sched, disabled, ksoftirqd, bug>>

\* test_and_clear_bit of SCHED, then the tasklet's function.
TaskletClear ==
  /\ Top.at = "clear"
  /\ bug' = (bug \/ Top.runs \notin sched)
  /\ sched' = sched \ {Top.runs}
  /\ BecomeTop([Top EXCEPT !.at = "code"])
  /\ UNCHANGED <<pending, softirq_count, hardirq_count, disabled, tasklet_vec, ksoftirqd>>

TaskletReturns ==
  /\ InCode /\ Top.runs # None
  /\ BecomeTop([Top EXCEPT !.at = "tasklets", !.runs = None])
  /\ UNCHANGED <<pending, softirq_count, hardirq_count, tasklet, ksoftirqd, bug>>

TaskletsDone ==
  /\ Top.at = "tasklets" /\ Top.list = <<>>
  /\ ActionReturns
-----------------------------------------------------------------------------
\* What the activation on top does on its own account ...
Calls ==
  \/ \E v \in Vecs : RaiseSoftirq(v)
  \/ \E t \in Tasklets : TaskletScheduleMark(t) \/ TaskletDisable(t) \/ TaskletEnable(t)
  \/ LocalBhDisable

\* ... and what it has to do next.
Continues ==
  \/ TaskletScheduleCommon
  \/ LocalBhEnable
  \/ DoSoftirq
  \/ IrqExit

SoftirqContinues ==
  \/ RunVec
  \/ OtherActionReturns
  \/ SoftirqRestart
  \/ SoftirqExit
  \/ TaskletTake
  \/ TaskletCheck
  \/ TaskletRequeue
  \/ TaskletClear
  \/ TaskletReturns
  \/ TaskletsDone

Next == Calls \/ Continues \/ SoftirqContinues \/ IrqEnter

Spec == Init /\ [][Next]_vars

\* Interrupts keep coming (the scheduling tick), handlers and softirq actions
\* return, nested bottom-half sections end, and a burst of interrupts leaves the
\* interrupted code time to go on, on each level of the stack.
FairSpec ==
  /\ Spec
  /\ \A fn \in {"task", "softirq", "irq"} :
       /\ SF_vars(Top.fn = fn /\ Continues)
       /\ SF_vars(Top.fn = fn /\ Top.bh = 1 /\ LocalBhEnable)
  /\ SF_vars(SoftirqContinues)
  /\ SF_vars(IrqEnter)
-----------------------------------------------------------------------------
Activations == {stack[i] : i \in 1..Len(stack)}
SumBh == FoldSeq(LAMBDA f, n : f.bh + n, 0, stack)
Serving == Cardinality({i \in 1..Len(stack) : stack[i].fn = "softirq"})

\* Type invariant.
TypeOK ==
  /\ pending \subseteq Vecs
  /\ softirq_count \in Nat /\ hardirq_count \in Nat
  /\ sched \subseteq Tasklets
  /\ disabled \in [Tasklets -> 0..MaxDisable]
  /\ tasklet_vec \in Seq(Tasklets)
  /\ ksoftirqd \in {"none", "asleep", "running"}
  /\ stack # <<>> /\ stack[1].fn = "task"
  /\ \A f \in Activations : f.todo \subseteq Vecs /\ f.max_restart \in 0..MAX_SOFTIRQ_RESTART

\* preempt_count says at all times what the CPU is doing: the bottom halves
\* disabled by all activations, whether softirqs are served, and the interrupts.
PreemptCountExact ==
  /\ softirq_count = 2 * SumBh + Serving
  /\ hardirq_count = Cardinality({i \in 1..Len(stack) : stack[i].fn = "irq"})

\* __do_softirq never runs on top of another __do_softirq, nor of code that has
\* disabled bottom halves, through whichever of irq_exit() and local_bh_enable().
BhExclusion ==
  \A i, j \in 1..Len(stack) :
    i < j /\ stack[j].fn = "softirq" => stack[i].fn # "softirq" /\ stack[i].bh = 0

\* Where tasklets with SCHED set are: marked, queued, or taken and not run yet.
Places ==
  tasklet_vec
    \o FoldSeq(LAMBDA f, s : s \o f.list
                 \o (IF f.marked = None THEN <<>> ELSE <<f.marked>>)
                 \o (IF f.at \in {"clear", "requeue"} THEN <<f.runs>> ELSE <<>>), <<>>, stack)

\* A tasklet has one link field: it is in one list at most, once, exactly while
\* its SCHED bit is set; the BUG() in tasklet_action_common is never reached.
TaskletOnce ==
  /\ \A i, j \in 1..Len(Places) : Places[i] = Places[j] => i = j
  /\ ToSet(Places) = sched
  /\ ~bug

\* "If tasklet_schedule() is called, then tasklet is guaranteed to be executed":
\* unless it is disabled, and also when restarts run out and without ksoftirqd.
TaskletRuns ==
  \A t \in Tasklets : (t \in sched) ~> (t \notin sched \/ disabled[t] > 0)
=============================================================================
