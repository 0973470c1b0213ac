----------------------------- MODULE PercpuRwsem ----------------------------
(***************************************************************************)
(* The per-CPU reader-writer semaphore of the `percpu_rwsem` component     *)
(* (percpu_rwsem/src/percpu-rwsem.c, include/linux/percpu-rwsem.h), on top *)
(* of rcu_sync.  Readers count themselves on their own CPU and, while no   *)
(* writer is about, do nothing else.                                       *)
(*                                                                         *)
(* Each access to read_count, block or the writer pointer is a step.  Those *)
(* made under waiters.lock are too: block changes outside that lock.       *)
(* A reader may leave on another CPU than it came in on, so the counters   *)
(* wrap and only their sum, modulo their width, means anything.            *)
(***************************************************************************)
EXTENDS RcuSync, Sequences, Functions

CONSTANTS
  Readers, Writers,  \* the tasks that down_read(), and those that down_write()
  NCpus,             \* the possible CPUs are 1..NCpus
  Width,             \* read_count wraps at this: 2^32 in the code
  NoTask,
  MaxCalls           \* bound: the calls of percpu_down_write() and of the trylock

ASSUME PercpuRwsemConstants ==
  /\ Readers \subseteq Tasks /\ Writers \subseteq Tasks
  /\ NCpus \in Nat \ {0}
  \* Far from overflow, also for a sum that meets every other task on each CPU.
  /\ Width \in Nat /\ Cardinality(Tasks) < Width /\ (Cardinality(Tasks) - 1) * NCpus < Width
  /\ NoTask \notin Tasks

CPUs == 1..NCpus

VARIABLES
  read_count,   \* per CPU
  block,
  writer,       \* sem->writer.task, for rcuwait
  waiters,      \* the wait queue: tasks, readers and writers in one order
  wlock,        \* who holds waiters.lock
  granted,      \* the queued tasks whose wq_entry.private was cleared: they own the lock
  unint,        \* the tasks in TASK_UNINTERRUPTIBLE
  pc,
  via,          \* for whom __percpu_down_read_trylock() is called
  cpu,          \* the CPU it increments, and decrements, on
  sum, upto,    \* readers_active_check(): the partial sum, the CPUs added
  calls         \* for the bound

sem == <<read_count, block, writer, waiters, wlock, granted>>
local == <<via, cpu, sum, upto>>
vars == <<SyncVars, sem, unint, pc, local, calls>>

Init ==
  /\ SyncInit
  /\ read_count = [c \in CPUs |-> 0]
  /\ block = FALSE
  /\ writer = NoTask
  /\ waiters = <<>>
  /\ wlock = NoTask
  /\ granted = {}
  /\ unint = {}
  /\ pc = [t \in Tasks |-> "out"]
  /\ via = [t \in Tasks |-> "down"]
  /\ cpu = [t \in Tasks |-> 1]
  /\ sum = 0 /\ upto = 0
  /\ calls = 0
-----------------------------------------------------------------------------
At(t, from) == pc[t] = from
Goto(t, to) == pc' = [pc EXCEPT ![t] = to]

Inc(c) == read_count' = [read_count EXCEPT ![c] = (@ + 1) % Width]
Dec(c) == read_count' = [read_count EXCEPT ![c] = (@ - 1) % Width]

\* rcuwait_wake_up(&sem->writer)
ProdWriter == unint' = unint \ {writer}

\* The head of the queue owns the lock: off the queue, private cleared, woken.
GrantHead ==
  /\ granted' = granted \cup {Head(waiters)}
  /\ waiters' = Tail(waiters)
  /\ unint' = unint \ {Head(waiters)}

\* percpu_down_read() and percpu_down_read_trylock(): which path.
StartRead(t, how) ==
  /\ At(t, "out") /\ t \in Readers /\ life = "live"
  /\ \/ rcu_sync_is_idle(t) /\ Goto(t, "fast") /\ UNCHANGED via
     \/ /\ gp_state # "IDLE"
        /\ Goto(t, "inc") /\ via' = [via EXCEPT ![t] = how]
        /\ UNCHANGED SyncVars
  /\ UNCHANGED <<sem, unint, cpu, sum, upto>>

percpu_down_read(t) == StartRead(t, "down") /\ UNCHANGED calls

percpu_down_read_trylock(t) ==
  /\ calls < MaxCalls
  /\ StartRead(t, "trylock")
  /\ calls' = calls + 1

\* The fast path: one increment, then preempt_enable().
FastInc(t) ==
  /\ At(t, "fast")
  /\ \E c \in CPUs : Inc(c)
  /\ EndSection(t)
  /\ Goto(t, "read")
  /\ UNCHANGED <<block, writer, waiters, wlock, granted, unint, local, calls>>

\* __percpu_down_read_trylock(): count oneself ...
TryInc(t) ==
  /\ At(t, "inc")
  /\ \E c \in CPUs : Inc(c) /\ cpu' = [cpu EXCEPT ![t] = c]
  /\ Goto(t, "test")
  /\ UNCHANGED <<SyncVars, block, writer, waiters, wlock, granted, unint, via, sum, upto, calls>>

\* ... then look for a writer.  On success, return to the caller.
TryTest(t) ==
  /\ At(t, "test")
  /\ \/ block /\ Goto(t, "dec") /\ UNCHANGED <<waiters, wlock, granted, unint>>
     \/ /\ ~block /\ via[t] \in {"down", "trylock"}
        /\ Goto(t, "read")
        /\ UNCHANGED <<waiters, wlock, granted, unint>>
     \/ /\ ~block /\ via[t] = "wait"    \* percpu_rwsem_wait() unlocks
        /\ Goto(t, "read") /\ wlock' = NoTask
        /\ UNCHANGED <<waiters, granted, unint>>
     \/ /\ ~block /\ via[t] = "wake"    \* the wake function; on to the next waiter
        /\ Goto(t, "up_next") /\ GrantHead
        /\ UNCHANGED wlock
  /\ cpu' = [cpu EXCEPT ![t] = IF block THEN @ ELSE 1]
  /\ via' = [via EXCEPT ![t] = IF block THEN @ ELSE "down"]
  /\ UNCHANGED <<SyncVars, read_count, block, writer, sum, upto, calls>>

TryDec(t) ==
  /\ At(t, "dec")
  /\ Dec(cpu[t])
  /\ cpu' = [cpu EXCEPT ![t] = 1]
  /\ Goto(t, "prod")
  /\ UNCHANGED <<SyncVars, block, writer, waiters, wlock, granted, unint, via, sum, upto, calls>>

\* Let the writer count again; return FALSE to the caller.
TryProd(t) ==
  /\ At(t, "prod")
  /\ ProdWriter
  /\ \/ via[t] = "down" /\ Goto(t, "queue") /\ UNCHANGED <<waiters, wlock>>
     \/ via[t] = "trylock" /\ Goto(t, "out") /\ UNCHANGED <<waiters, wlock>>
     \/ via[t] = "wait" /\ Goto(t, "wq_set") /\ waiters' = Append(waiters, t) /\ wlock' = NoTask
     \/ via[t] = "wake" /\ Goto(t, "up_exit") /\ wlock' = NoTask /\ UNCHANGED waiters
  /\ via' = [via EXCEPT ![t] = "down"]
  /\ UNCHANGED <<SyncVars, read_count, block, writer, granted, cpu, sum, upto, calls>>

\* percpu_up_read()
percpu_up_read(t) ==
  /\ At(t, "read")
  /\ \/ rcu_sync_is_idle(t) /\ Goto(t, "up_fast")
     \/ gp_state # "IDLE" /\ Goto(t, "up_dec") /\ UNCHANGED SyncVars
  /\ UNCHANGED <<sem, unint, local, calls>>

UpFast(t) ==
  /\ At(t, "up_fast")
  /\ \E c \in CPUs : Dec(c)
  /\ EndSection(t)
  /\ Goto(t, "out")
  /\ UNCHANGED <<block, writer, waiters, wlock, granted, unint, local, calls>>

UpDec(t) ==
  /\ At(t, "up_dec")
  /\ \E c \in CPUs : Dec(c)
  /\ Goto(t, "up_prod")
  /\ UNCHANGED <<SyncVars, block, writer, waiters, wlock, granted, unint, local, calls>>

\* Mutant: the slow path of percpu_up_read() does not wake the writer.
UpProdSilent(t) ==
  /\ At(t, "up_prod")
  /\ Goto(t, "out")
  /\ UNCHANGED <<SyncVars, sem, unint, local, calls>>

UpProd(t) ==
  /\ At(t, "up_prod")
  /\ ProdWriter
  /\ Goto(t, "out")
  /\ UNCHANGED <<SyncVars, sem, local, calls>>
-----------------------------------------------------------------------------
\* percpu_rwsem_wait() for a reader: waiters.lock, then the trylock under it.
WaitReader(t) ==
  /\ At(t, "queue") /\ spc[t] = "out" /\ wlock = NoTask
  /\ wlock' = t
  /\ via' = [via EXCEPT ![t] = "wait"]
  /\ Goto(t, "inc")
  /\ UNCHANGED <<SyncVars, read_count, block, writer, waiters, granted, unint, cpu, sum, upto,
                 calls>>

\* The same for a writer; nothing else sees its trylock apart from the queueing.
WaitWriter(t) ==
  /\ At(t, "queue") /\ spc[t] = "in" /\ wlock = NoTask
  /\ block' = TRUE
  /\ IF block
       THEN Goto(t, "wq_set") /\ waiters' = Append(waiters, t)
       ELSE Goto(t, "active") /\ UNCHANGED waiters
  /\ UNCHANGED <<SyncVars, read_count, writer, wlock, granted, unint, local, calls>>

\* The wait loop: set_current_state(), test private, schedule().
WqSet(t) ==
  /\ At(t, "wq_set")
  /\ unint' = unint \cup {t}
  /\ Goto(t, "wq_test")
  /\ UNCHANGED <<SyncVars, sem, local, calls>>

WqTest(t) ==
  /\ At(t, "wq_test")
  /\ IF t \in granted
       THEN /\ granted' = granted \ {t}
            /\ unint' = unint \ {t}
            /\ Goto(t, IF spc[t] = "in" THEN "active" ELSE "read")
       ELSE Goto(t, "wq_sched") /\ UNCHANGED <<granted, unint>>
  /\ UNCHANGED <<SyncVars, read_count, block, writer, waiters, wlock, local, calls>>

WqSched(t) ==
  /\ At(t, "wq_sched") /\ t \notin unint
  /\ Goto(t, "wq_set")
  /\ UNCHANGED <<SyncVars, sem, unint, local, calls>>
-----------------------------------------------------------------------------
\* percpu_down_write(): rcu_sync_enter() first.
percpu_down_write(t) ==
  /\ At(t, "out") /\ t \in Writers /\ calls < MaxCalls
  /\ calls' = calls + 1
  /\ rcu_sync_enter(t)
  /\ Goto(t, "enter")
  /\ UNCHANGED <<sem, unint, local>>

\* The steps of rcu_sync_enter() after its critical section.
Entering(t) ==
  /\ At(t, "enter")
  /\ EnterSync(t) \/ EnterTest(t) \/ EnterPrepare(t) \/ EnterRetest(t) \/ EnterSchedule(t)
  /\ UNCHANGED <<sem, unint, pc, local, calls>>

\* __percpu_down_write_trylock(): the exchange wins or the task queues.
WriteTry(t) ==
  /\ At(t, "enter") /\ spc[t] = "in"
  /\ block' = TRUE
  /\ Goto(t, IF block THEN "queue" ELSE "active")
  /\ UNCHANGED <<SyncVars, read_count, writer, waiters, wlock, granted, unint, local, calls>>

\* rcuwait_wait_event(): prepare_to_rcuwait() ...
WaitPrepare(t) ==
  /\ At(t, "active")
  /\ writer' = t
  /\ Goto(t, "active_set")
  /\ UNCHANGED <<SyncVars, read_count, block, waiters, wlock, granted, unint, local, calls>>

\* ... set_current_state(), and readers_active_check() starts ...
WaitSet(t) ==
  /\ At(t, "active_set")
  /\ unint' = unint \cup {t}
  /\ Goto(t, "active_sum")
  /\ UNCHANGED <<SyncVars, sem, local, calls>>

\* Mutant: the last CPU is left out of the sum.
WaitSumShort(t) ==
  /\ At(t, "active_sum") /\ upto < NCpus
  /\ sum' = IF upto + 1 = NCpus THEN sum ELSE (sum + read_count[upto + 1]) % Width
  /\ upto' = upto + 1
  /\ UNCHANGED <<SyncVars, sem, unint, pc, via, cpu, calls>>

\* ... per_cpu_sum(): one CPU at a time ...
WaitSum(t) ==
  /\ At(t, "active_sum") /\ upto < NCpus
  /\ sum' = (sum + read_count[upto + 1]) % Width
  /\ upto' = upto + 1
  /\ UNCHANGED <<SyncVars, sem, unint, pc, via, cpu, calls>>

\* ... and its verdict: finish_rcuwait(), or schedule().
WaitVerdict(t) ==
  /\ At(t, "active_sum") /\ upto = NCpus
  /\ IF sum = 0
       THEN writer' = NoTask /\ unint' = unint \ {t} /\ Goto(t, "write")
       ELSE Goto(t, "active_sched") /\ UNCHANGED <<writer, unint>>
  /\ sum' = 0 /\ upto' = 0
  /\ UNCHANGED <<SyncVars, read_count, block, waiters, wlock, granted, via, cpu, calls>>

WaitSched(t) ==
  /\ At(t, "active_sched") /\ t \notin unint
  /\ Goto(t, "active_set")
  /\ UNCHANGED <<SyncVars, sem, unint, local, calls>>

\* percpu_up_write(): open the lock ...
percpu_up_write(t) ==
  /\ At(t, "write")
  /\ block' = FALSE
  /\ Goto(t, "up_lock")
  /\ UNCHANGED <<SyncVars, read_count, writer, waiters, wlock, granted, unint, local, calls>>

\* ... __wake_up(&sem->waiters, TASK_NORMAL, 1, sem): waiters.lock, held for the whole
\* walk.  The code lets it go for a moment after every 64 waiters
\* (WAITQUEUE_WALK_BREAK_CNT): there are fewer ...
UpLock(t) ==
  /\ At(t, "up_lock") /\ wlock = NoTask
  /\ wlock' = t
  /\ Goto(t, "up_next")
  /\ UNCHANGED <<SyncVars, read_count, block, writer, waiters, granted, unint, local, calls>>

\* ... and percpu_rwsem_wake_function() for each waiter in turn.  A writer ends the
\* walk, whether it gets the lock or not; a reader only if it does not.
UpNext(t) ==
  /\ At(t, "up_next")
  /\ \/ /\ waiters = <<>>
        /\ wlock' = NoTask /\ Goto(t, "up_exit")
        /\ UNCHANGED <<block, waiters, granted, unint, via>>
     \/ /\ waiters # <<>> /\ spc[Head(waiters)] = "in"
        /\ block' = TRUE
        /\ IF block THEN UNCHANGED <<waiters, granted, unint>> ELSE GrantHead
        /\ wlock' = NoTask /\ Goto(t, "up_exit")
        /\ UNCHANGED via
     \/ /\ waiters # <<>> /\ spc[Head(waiters)] = "out"
        /\ via' = [via EXCEPT ![t] = "wake"] /\ Goto(t, "inc")
        /\ UNCHANGED <<block, waiters, wlock, granted, unint>>
  /\ UNCHANGED <<SyncVars, read_count, writer, cpu, sum, upto, calls>>

\* ... then rcu_sync_exit().
UpExit(t) ==
  /\ At(t, "up_exit")
  /\ rcu_sync_exit(t)
  /\ Goto(t, "out")
  /\ UNCHANGED <<sem, unint, local, calls>>
-----------------------------------------------------------------------------
\* RCU invokes rcu_sync_func().
RcuCallback == Callback /\ UNCHANGED <<sem, unint, pc, local, calls>>

\* percpu_free_rwsem() when nobody uses the semaphore, then, for a new one in the
\* same memory, __percpu_init_rwsem().
percpu_free_rwsem ==
  /\ \A t \in Tasks : At(t, "out")
  /\ rcu_sync_dtor \/ DtorBarrier
  /\ UNCHANGED <<sem, unint, pc, local, calls>>

percpu_init_rwsem ==
  /\ rcu_sync_init
  /\ read_count' = [c \in CPUs |-> 0]
  /\ block' = FALSE /\ writer' = NoTask /\ waiters' = <<>>
  /\ UNCHANGED <<wlock, granted, unint, pc, local, calls>>

\* A sleeping task may be woken for some other reason.
SpuriousWakeup(t) ==
  /\ t \in unint
  /\ unint' = unint \ {t}
  /\ UNCHANGED <<SyncVars, sem, pc, local, calls>>

\* A task goes on with the call it is in, and a holder releases the lock.
Progress(t) ==
  \/ FastInc(t) \/ TryInc(t) \/ TryTest(t) \/ TryDec(t) \/ TryProd(t)
  \/ percpu_up_read(t) \/ UpFast(t) \/ UpDec(t) \/ UpProd(t)
  \/ WaitReader(t) \/ WaitWriter(t) \/ WqSet(t) \/ WqTest(t) \/ WqSched(t)
  \/ Entering(t) \/ WriteTry(t)
  \/ WaitPrepare(t) \/ WaitSet(t) \/ WaitSum(t) \/ WaitVerdict(t) \/ WaitSched(t)
  \/ percpu_up_write(t) \/ UpLock(t) \/ UpNext(t) \/ UpExit(t)

Next ==
  \/ \E t \in Tasks : \/ percpu_down_read(t) \/ percpu_down_read_trylock(t)
                      \/ percpu_down_write(t) \/ Progress(t) \/ SpuriousWakeup(t)
  \/ RcuCallback \/ percpu_free_rwsem \/ percpu_init_rwsem

Spec == Init /\ [][Next]_vars

FairSpec == Spec /\ WF_vars(RcuCallback) /\ \A t \in Tasks : WF_vars(Progress(t))
-----------------------------------------------------------------------------
Pcs == {"out", "fast", "inc", "test", "dec", "prod", "read", "up_fast", "up_dec", "up_prod",
        "queue", "wq_set", "wq_test", "wq_sched", "enter", "active", "active_set", "active_sum",
        "active_sched", "write", "up_lock", "up_next", "up_exit"}

TypeOK ==
  /\ read_count \in [CPUs -> 0..(Width - 1)]
  /\ block \in BOOLEAN
  /\ writer \in Tasks \cup {NoTask} /\ wlock \in Tasks \cup {NoTask}
  /\ waiters \in Seq(Tasks) /\ granted \subseteq Tasks /\ unint \subseteq Tasks
  /\ pc \in [Tasks -> Pcs]
  /\ via \in [Tasks -> {"down", "trylock", "wait", "wake"}]
  /\ cpu \in [Tasks -> CPUs]
  /\ sum \in 0..(Width - 1) /\ upto \in 0..NCpus

\* The tasks that hold the semaphore, a waiter it was handed to included.
Reading(t) ==
  \/ pc[t] \in {"read", "up_fast", "up_dec"}
  \/ t \in granted /\ spc[t] = "out"
Writing(t) == pc[t] = "write"

\* Mutual exclusion, and what per_cpu_sum() has to add up to: while a task writes
\* nobody reads and nobody else writes or owns block, and the counters of all the
\* CPUs add up to the readers, those about to back out included.
Exclusion ==
  /\ \A t \in Tasks : Writing(t) =>
       /\ block
       /\ \A u \in Tasks : ~Reading(u)
       /\ \A u \in Tasks \ {t} :
            pc[u] \notin {"write", "active", "active_set", "active_sum", "active_sched"}
            /\ ~(u \in granted)
  /\ SumFunction(read_count) % Width =
       Cardinality({t \in Tasks : Reading(t)})
       + Cardinality({t \in Tasks : pc[t] \in {"test", "dec"}})

\* Nobody sleeps for ever: with block clear and tasks in the queue, a writer is on
\* its way through percpu_up_write()'s wakeup; and a writer asleep in
\* rcuwait_wait_event() sees a reader that holds the lock or has yet to prod it.
NoLostWakeup ==
  /\ waiters # <<>> /\ ~block =>
       \E u \in Tasks : \/ pc[u] \in {"up_lock", "up_next"}
                        \/ via[u] = "wake" /\ pc[u] \in {"inc", "test", "dec", "prod"}
  /\ \A t \in Tasks : pc[t] = "active_sched" /\ t \in unint =>
       \E u \in Tasks : Reading(u) \/ pc[u] \in {"test", "dec", "prod", "up_prod"}

\* The semaphore uses rcu_sync as RcuSync says it may be used: every step is one
\* of rcu_sync's, or leaves it alone.
UsesRcuSync == SyncSpec

\* Once no more writers arrive, all calls return and the semaphore comes to rest:
\* every writer gets its turn, the queue empties, and the readers get their fast
\* path back for good (unless rcu_sync_enter_start() took it away).
Settles ==
  <>[](/\ waiters = <<>> /\ ~block
       /\ \A t \in Tasks : spc[t] = "out"
       /\ gp_state = IF started = 1 THEN "PASSED" ELSE "IDLE")
=============================================================================
