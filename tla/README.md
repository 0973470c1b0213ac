# clinux in TLA+

clinux takes the Linux kernel (5.9/5.10, RISC-V) apart into about two hundred
components, compiles each into a relocatable object, and links just those that
a *top component* needs into an image. This directory holds TLA+ models of parts
of it whose correctness rests on order and interleaving, TLC configurations that
check them, and TLAPS proofs.

The models follow the configured build (`include/generated/autoconf.h`): one CPU,
no kernel preemption (PREEMPT_NONE), tiny RCU, debugging of mutexes, rwsems and
spinlocks on, tick stopped on idle. Where a model interleaves more finely than
that build can, the text says so.

## Inventory

| part | operations | what makes it hard |
|---|---|---|
| `tools/find_dep` | discover, build_dependency, traverse, output | two recursive walks over graphs that may be cyclic; duplicate exports; panics half-way |
| `semaphore` | five `down` variants, `up` | grant racing a signal or a timeout; sleep/wake window |
| `mutex` | lock variants, trylock, unlock (fast and slow) | lock-free owner word with flag bits; hand-off against stealing |
| `rwsem` | read/write lock, trylock, unlock, downgrade | one counter for readers, writer, waiters and hand-off; kills while queued |
| `percpu_rwsem`, `rcu/sync.c` | read on two paths, write, free and re-init | counters per CPU that only mean something summed; grace periods shared by updaters |
| `softirq` | raise, `__do_softirq`, irq enter/exit, bh disable/enable, tasklets | interrupts wherever they are enabled; restart limit; no ksoftirqd |
| `rcu` (tiny) | call_rcu, quiescent states, callback softirq | readers leave no trace; all rests on where rcu_qs() is called |
| `klist` | add, del, remove, iterate | list changed under iterators; the remover waits for the last one |
| `percpu_refcount` | get/tryget/put, kill, resurrect, mode switch | lock-free users against mode switches; wrapping counters; RCU callbacks |
| `kthread` | create, park, unpark, stop | a request owned in turn by creator, kthreadd and thread; a killed creator |

Interactions: the sleeping locks, `klist` and `kthread` use task states and
wake-ups (`TaskState`) and lists (`KernelList`, lists as sequences).
`PercpuRwsem` EXTENDS `RcuSync` and calls its actions. `PercpuRef` and `RcuSync`
use the grace period that `TinyRcu` establishes as a contract (their guard sets
have the meaning of `guards` in `TinyRcu`); that use is not a checked refinement.

## Modules

**FindDep.** One initial state per choice of component files. `DiscoverFile` and
`AddLdsSymbols` are `discover_modules`; `BuildSymbol`/`BuildReturn` and
`TraverseDepend`/`TraverseReturn` are one iteration, or the return, of the two
recursive functions over an explicit stack; `Output` is the rest of `main`. The
reference definitions (`Provider`, `Needs`, `Reached`, `Cyclic`) use only the
files and least closed sets.

**Semaphore.** Each stretch under `sem->lock` is one action. `UpFromElsewhere` is
an `up()` by a context that never called `down()`. `AbstractSemaphore` is a P/V
semaphore whose units are those counted plus those handed to waiters that have
not run yet.

**Mutex.** Every access to `lock->owner` is an action. `UP = TRUE` switches tasks
only at `schedule()` and outside the mutex code, `UP = FALSE` anywhere. The fast
paths are compiled in (DEBUG_LOCK_ALLOC is off) and modelled with the slow ones.

**Rwsem.** `count` is one integer with the code's bits; every access to it is a
step, also under `wait_lock`. `rwsem_mark_wake()` is `MarkWriter`, `MarkReader`,
`MarkUndo`, `MarkOwned` and `MarkGrant`, with `ret` the caller to go back to. Every
sleep is killable: one that is not is one for which no signal comes. `MCRwsem`
gives each task a script of calls, on one CPU with kernel preemption.

**RcuSync, PercpuRwsem.** `gp_state` and `gp_count` change under `rss_lock`, one step
each. Of the read-side sections only those sent to the fast path are kept.
Each access to `read_count`, `block` and `writer` is a step, finer than the
configured build; `readers_active_check()` adds one CPU per step. `__wake_up()` holds the
queue's lock for the whole walk: the model, and so the proofs about it, are for fewer than 64
waiters, after which the code drops the lock for a moment (wait.c:87-92). `rcu_barrier()` in
`rcu_sync_dtor()` waits for the callbacks posted before it and no others.

**Softirq.** The CPU is a stack of activations; only the top runs, and an interrupt
may come wherever they are enabled.

**TinyRcu.** `Schedule` and `Tick` report quiescent states as `__schedule` and
`rcu_sched_clock_irq` do. The callback list is a sequence, its two tail pointers `done` and
`curtail` positions in it. A `curtail` that is not pulled back when the list is split
(tiny.c:121) would be `Detached`: what is linked there is lost, or goes behind callbacks that
are being invoked. The ghosts `guards`, `posted` and `ahead` state what a grace period
and `rcu_barrier` mean.

**Klist.** Critical sections of `k_lock` are steps; dropping the reference, `put()`
and the steps of `klist_remove`'s wait are separate. `klist_release`, from `woken` to the
reset of `n_klist`, is part of the section: this is right on one CPU, as built, where
nothing else runs while `k_lock` is held. On two, `klist_remove`, which reads `woken`
without a lock, could return a moment before the reset. The list of waiters is a set:
`klist_release` goes through all of it. `Beyond` are the nodes that a walk along the
links passes, and `First` the first of them.

**PercpuRef.** An operation is the read of the flags, for `tryget_live` the second
test of DEAD, then the change of a counter. Words wrap at `2 * BIAS`. Who waits for a switch
in progress sleeps on `waitq` until the callback's `wake_up_all`, and then looks again. A
mode switch may come on any reference, also one without PERCPU_REF_ALLOW_REINIT, whose
counters the callback then frees although it is in use; it stays atomic.

**Kthread.** Steps are accesses to shared state; a task may be switched between any
two, except from `complete()` to the `schedule()` after it. Once its creation has returned a
thread may be woken by anybody at any time (`WorkArrives`), also before it has run its
function for the first time, where kthread.c:276-291 does not look again after the sleep:
such a wake-up starts the function unless `kthread_stop` came first.

Callers keep their contracts: a mutex is unlocked by its owner; `klist_remove` is
called once per node and not inside an iteration over the list; `percpu_ref_get`
is called with a reference held, kill and reinit alternate, and a reference that was
released and exited is not switched; a thread is parked,
unparked and stopped by one owner in turn, and its function returns only when
told to stop.

## Runs

| run | instance | distinct states | shows |
|---|---|---|---|
| find_dep | choices of component files | 76,697 | order of initialisers, exact image, justified panics, termination |
| semaphore | 3 tasks, 1 unit, 1 foreign `up` | 97,254 | no lost wakeup, implements P/V, every `down` returns |
| mutex | 3 tasks, one CPU | 7,409 | exclusion, no lost wakeup, lock calls return |
| softirq | 2 tasklets, 2 vectors | 35,488 | preempt_count, exclusion, tasklets queued once and run |
| rcu | 2 tasks + idle, 3 callbacks | 17,367 | grace periods, none lost or overtaken, callbacks invoked |
| klist | 3 tasks, 2 nodes | 160,508 | references, iteration, object lifetime, removal |
| percpu_ref | 2 users, up to 2 references each, `get` and `tryget_live` | 2,127,048 | counts, release, counters safe, confirmation after a switch |
| percpu_ref_live | 1 user | 126,128 | release after kill; operations return |
| kthread | 2 creators, 2 requests | 206,850 | requests freed once, no start after an early stop, park holds, calls return |
| percpu_rwsem | reader, writer, one of both; 2 CPUs | 527,040 | exclusion, no fast reader, no lost wakeup, back to the fast path |
| rwsem | 3 tasks, one CPU | 656,789 | exclusion and count, no lost wakeup, hand-off kept |
| rwsem_preempt | 3 tasks, scripted, preemptible | about 1.03 million to the violation | a lost wakeup (see below) |

Bounds. Three tasks are a holder, a waiter and a competitor, or two waiters and a
thief. Two tasklets fill and reorder the list; two vectors are tasklets and any
other softirq; `MAX_SOFTIRQ_RESTART` is 2, bottom halves nest 2 deep (`MaxBh`),
tasklets are disabled once (`MaxDisable`). Three callbacks are one ready, one
waiting, one being posted. `MAX_READERS_WAKEUP` is 2, so that readers are
woken in groups; the properties of run rwsem also hold with 1 (677,399 states), where
the limit cuts a group short.
percpu_ref has one CPU, as the build, so that references move between CPUs only in
the theorems; `percpu_ref_tryget`, which is `tryget_live` without the test of DEAD, is left
to them too, to keep the run short (with it TLC finds no error in 3,389,925 states either); a
reference taken in atomic and dropped in per-CPU mode makes its counter wrap (`BIAS` = 16, a word of five bits); `PercpuRefConstants` assumes that twice what
all users may hold stays below the bias (2^63 in the code), which keeps the biased
count from zero. `MaxCalls` = 2 bounds the writers of percpu_rwsem. Its counters wrap at
`Width` = 5: the module assumes that there are fewer than `Width` tasks, and that all but
one of them, each counted once on every CPU, are fewer too. In the code that is by default
at most 0x8000 tasks (`PID_MAX_DEFAULT`, threads.h:28) on one CPU (`CONFIG_NR_CPUS`,
threads.h:15-21) against 2^32. klist with 3 tasks and 3 nodes
has no error either and is too slow for a run.

## Fairness

* Semaphore: weak fairness of resuming and of releasing.
* Mutex: strong fairness per task, since tasks share a CPU. The liveness claim is
  for `UP = TRUE`. With `UP = FALSE` TLC refutes `LockReturns`: a `mutex_trylock` clears
  the hand-off bit, which the first waiter sets only once, and the waiter starves.
* Softirq: strong fairness of interrupts, of each level going on, and of the
  outermost `local_bh_enable`: interrupts keep coming and leave time in between.
* TinyRcu: the tick comes unless `can_stop_idle_tick` allows it to be off; sections
  and handlers end; a CPU asked to reschedule does.
* PercpuRef: sections and callbacks end, users drop what they hold, locks that are
  free again and again are got. A kill or a switch that is woken and finds the next switch
  already in progress waits again, so `OperationsReturn` leaves out the case that the other
  party keeps starting switches.
* Kthread: weak fairness of creators' returning steps, of kthreadd and of threads.
* PercpuRwsem: weak fairness of each task's progress and of the RCU callback.
* Klist and Rwsem have no liveness property. An iteration may start at a dead node
  that is still linked, so such iterations could delay `klist_remove` for ever.
  For Rwsem no liveness property has been stated.

## Proofs

For any constants that satisfy the modules' assumptions, TLAPS checks:

* `KernelLemmas`: what the other proofs share. Lists without duplicates (adding,
  deleting, first element, order); counting up to a number and building up a finite set;
  sizes of finite sets; sums of a function over a finite set, and remainders. Induction
  is done on sets: a subset of `Nat`, or of `SUBSET S`, that holds the start and is closed
  under the step is all of it, which needs no operator as a parameter.
* `SemaphoreProofs`: types, conservation of units, the wait list, no idle unit beside a
  waiter, no lost wakeup, and that Semaphore implements `AbstractSemaphore`. `NoLostWakeup`
  is inductive together with the types alone; the units need the list to be exactly the
  queued tasks, and so does the refinement.
* `MutexProofs`: owner, wait list and no lost wakeup, for any tasks and both values of
  `UP`. `PickupFirst` is the strengthening: a mutex handed over was handed to the first
  waiter, and it is still first.
* `TinyRcuProofs`: a callback runs, and `synchronize_rcu` returns, only after every
  section that was open at the call has ended; and no callback is lost
  and all run in the order posted, through the splicing of the lists (`BarrierOrder` with
  `LocalList`, and `curtail` always behind the last callback of the list).
* `KthreadProofs`: a creation request is freed by exactly one of creator, kthreadd and
  thread, and is not used afterwards. `IInv` says who has the request at every point of
  its way. On top of it `CInv` ties flags, state and completion of a thread to the
  position of its owner and its own; from it follow that a thread enters its function only
  if it was woken or parked before it was stopped, and that a parked one stays parked.
* `PercpuRwsemProofs`: `SInv` (the count of updaters, `Guarded`, the callback, sleepers,
  destruction: what the barrier waits for is all that is posted, since GP_REPLAY was taken
  back) for `RcuSync`; that `PercpuRwsem` implements `RcuSync`; hence that no
  reader is on the fast path while a writer is inside. Then `PInv` (which tasks are where,
  one owner of `block`, of the queue's lock and of the sum), `NInv` (the counters add up,
  modulo `Width`, to readers and those backing out; and what the writer has added so far
  together with the CPUs still to come is the readers that were there, plus some of those
  backing out, so a sum of zero means none), `QInv` and `BInv` (who is on the way to wake
  the queue, or to prod the writer). They give exclusion and no lost wakeup.
* `PercpuRefProofs`: `RInv`. The atomic count and the per-CPU counters add up, as words, to
  the references, those taken and dropped by calls that have read the flags and not yet
  changed a counter included; such a call is in a section that the switch's callback has to
  wait for; and the bias stays in until the callback has added up. It gives `CountExact`,
  `ReleaseExact`, `PercpuSafe` and the action property `ConfirmedAfterSwitch`.
* `KlistProofs`: `Inv`. A node's count is the list's reference and the iterators at it; it
  is linked as long as it is used; a remover is queued until its node is released; and what
  an iteration has still to visit is live and lies beyond its current node in the list's
  order, which linking and unlinking keep. It gives all five properties of the run, among
  them the action property `RemoveReturnsUnlinked`.

TLC also finds each inductive invariant to hold on the instance of its run (for `SumExact`
with the bound variable `e` taken from `0..Met(upto)`, the values its body allows, as TLC cannot
enumerate `Nat`). Type invariants of the modules with proofs are proved instead of run.

Only model-checked: all of FindDep, Softirq and Rwsem, and every liveness property, since
the prover has neither fairness nor ENABLED. FindDep's properties compare two recursive
walks with least closed sets, and its stack would need an invariant about every suspended
call; Softirq's rest on the whole stack of activations; Rwsem's on the bits of `count`
for every place a task can be in. Their safety properties are not out of the prover's
reach; the invariants have not been worked out.

## Where code and comments disagree

`rwsem_preempt` is the one finding with a run. On one CPU **with** kernel preemption,
a writer that queued, dropped `wait_lock` to wake others and became first meanwhile
still has `wstate` NOT_FIRST; a hand-off bit left by a killed waiter then turns it
away from a free lock, and it sleeps until another task comes (the comment at
rwsem.c:1230 says it blocks "until there are no active lockers"). Its limits:

* the shipped configuration is not preemptible, and run `rwsem`, with three tasks and
  without preemption, does not show it;
* the models take `wake_q_add` and `wake_up_q` as `sched/src/core.c` has them in comments.
  The only definitions compiled are the stubs of `early_sched/src/init.c:63-73`, which
  panic: today's image stops at the first such call, in the mutex's unlock slow path
  and in the rwsem's slow paths;
* an SMP build would turn on optimistic spinning, which is not modelled.

Remarks from reading the code, without a run:

* mutex.c:58 says bit 0 indicates a non-empty list; a waiter that leaves on a signal
  (mutex.c:1088-1096) leaves it set on an empty one. The cost is one slow unlock.
* softirq.c:470 says ksoftirqd is woken; its creation is commented out
  (softirq.c:727-742). The softirq waits for the next interrupt.
* percpu-refcount.h:265-267 says that `tryget_live` gives out nothing after
  `confirm_kill`. For a reference already in atomic mode the confirmation comes at once
  (percpu-refcount.c:176), and a try under way may still succeed. It holds after a
  switch (`ConfirmedAfterSwitch`), which is how cgroup, the one caller, uses it.
* rwsem.c:145 lists three places that change the hand-off bit; rwsem.c:1110 is a fourth.
  The bit may stay set on an empty list until the next waiter.
* kthread.c:579 says that `kthread_stop` returns -EINTR if `wake_up_process` was never
  called; it also does when the stop comes before the woken thread has run (`StartsOnlyIfAsked` is
  the converse: a stop before the first wake-up keeps the function from running).

## Not modelled

* Within modelled parts: wound/wait mutexes; optimistic spinning; `tasklet_hi` (the same
  code on another vector) and interrupt threads; the non-owner rwsem calls and
  reader-count overflow; kthread workers and CPU binding; `srcutiny.c`.
* Protocols a model could cover and that are left out for their size: workqueues
  (flush and cancel first), timers, wait queues at large, rtmutex and futex.
* Data-heavy imported Linux code, far beyond an instance TLC can explore: memory
  management, file systems, network stack, drivers, scheduling classes.
* Assembly, traps and generated headers, which have no protocol of their own.

The models therefore cover a small fraction of the repository's lines. Weak memory is
not modelled: steps are sequentially consistent, as they are on one CPU.

PROJECT.json lists the hazards these models were built around. Four have no property of a run:
`mutex.c:1281` (a woken task may have exited; tasks of the model do not) and
`find_dep/src/main.rs:81` (files left on disk by a panic half-way; the model has no disk),
`percpu-refcount.c:176` (the early confirmation above) and `rcu/src/sync.c:201` (the run has too
few writers' calls; theorem `RcuSyncCallback` covers it). The list is a selection: places guarded by the same
properties as a listed one are not all repeated.
