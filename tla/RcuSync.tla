------------------------------- MODULE RcuSync ------------------------------
(***************************************************************************)
(* rcu_sync (rcu/src/sync.c): updaters switch readers from a fast path to  *)
(* a slow path and back, and share grace periods where they can.           *)
(*                                                                         *)
(* gp_state and gp_count change under rss_lock, in one step each.  Of RCU  *)
(* only the grace period is used (TinyRcu models how it comes about): it   *)
(* ends when the read-side sections open at its start are closed.  Only    *)
(* the sections that found the structure idle are kept; the others would   *)
(* merely delay a grace period.                                            *)
(***************************************************************************)
EXTENDS Integers, FiniteSets

CONSTANT Tasks

ASSUME TasksFinite == IsFiniteSet(Tasks)

VARIABLES
  gp_state,
  gp_count,
  gp_wait,      \* the updaters queued on gp_wait, in TASK_UNINTERRUPTIBLE
  cb,           \* how often cb_head is posted and not invoked yet
  spc,          \* where a task is in rcu_sync_enter(); "in": between enter and exit
  life,         \* of the structure: "live", "barrier" (in rcu_sync_dtor()), "dead"
  barrier,      \* the callbacks rcu_barrier() still waits for, those posted before it
  started,      \* 1 if rcu_sync_enter_start() was called
  fast,         \* the open read-side sections that rcu_sync_is_idle() sent to the fast path
  sync_guards,  \* ghost: those of them synchronize_rcu() still waits for
  cb_guards     \* ghost: those of them the posted callback still waits for

SyncVars == <<gp_state, gp_count, gp_wait, cb, spc, life, barrier, started, fast, sync_guards,
              cb_guards>>

States == {"IDLE", "ENTER", "PASSED", "EXIT", "REPLAY"}
Passed == {"PASSED", "EXIT", "REPLAY"}    \* gp_state >= GP_PASSED

\* rcu_sync_init(), then for some structures rcu_sync_enter_start().
SyncInit ==
  /\ started \in {0, 1}
  /\ gp_state = IF started = 1 THEN "PASSED" ELSE "IDLE"
  /\ gp_count = started
  /\ gp_wait = {}
  /\ cb = 0
  /\ spc = [t \in Tasks |-> "out"]
  /\ life = "live"
  /\ barrier = 0
  /\ fast = {}
  /\ sync_guards = {}
  /\ cb_guards = {}
-----------------------------------------------------------------------------
SpcGoto(t, to) == spc' = [spc EXCEPT ![t] = to]

\* rcu_sync_is_idle() in a read-side section: TRUE, and the reader goes the fast way.
rcu_sync_is_idle(t) ==
  /\ life = "live" /\ spc[t] = "out" /\ t \notin fast
  /\ gp_state = "IDLE"
  /\ fast' = fast \cup {t}
  /\ UNCHANGED <<gp_state, gp_count, gp_wait, cb, spc, life, barrier, started, sync_guards,
                 cb_guards>>

\* preempt_enable(): the end of that section.
EndSection(t) ==
  /\ t \in fast
  /\ fast' = fast \ {t}
  /\ sync_guards' = sync_guards \ {t}
  /\ cb_guards' = cb_guards \ {t}
  /\ UNCHANGED <<gp_state, gp_count, gp_wait, cb, spc, life, barrier, started>>

\* Mutant: a call that posts nothing.
rcu_sync_call_none(pending) ==
  /\ cb' = pending
  /\ cb_guards' = fast

\* rcu_sync_call(), with `pending` the callbacks pending before it.
rcu_sync_call(pending) ==
  /\ cb' = pending + 1
  /\ cb_guards' = fast

\* The critical section of rcu_sync_func().
rcu_sync_func(pending) ==
  \/ /\ gp_count > 0
     /\ gp_state' = "PASSED"
     /\ gp_wait' = {}
     /\ cb' = pending
     /\ UNCHANGED cb_guards
  \/ /\ gp_count = 0 /\ gp_state = "REPLAY"
     /\ gp_state' = "EXIT"
     /\ rcu_sync_call(pending)
     /\ UNCHANGED gp_wait
  \/ /\ gp_count = 0 /\ gp_state # "REPLAY"
     /\ gp_state' = "IDLE"
     /\ cb' = pending
     /\ UNCHANGED <<gp_wait, cb_guards>>

\* rcu_sync_enter(), under rss_lock; a grace period begins if it is the first.
rcu_sync_enter(t) ==
  /\ life = "live" /\ spc[t] = "out" /\ t \notin fast
  /\ gp_count' = gp_count + 1
  /\ \/ /\ gp_state = "IDLE"
        /\ gp_state' = "ENTER"
        /\ sync_guards' = fast
        /\ SpcGoto(t, "sync")
     \/ /\ gp_state # "IDLE"
        /\ SpcGoto(t, "wait")
        /\ UNCHANGED <<gp_state, sync_guards>>
  /\ UNCHANGED <<gp_wait, cb, life, barrier, started, fast, cb_guards>>

\* The first updater: synchronize_rcu() returns, then rcu_sync_func().
EnterSync(t) ==
  /\ spc[t] = "sync" /\ sync_guards = {}
  /\ rcu_sync_func(cb)
  /\ SpcGoto(t, "in")
  /\ UNCHANGED <<gp_count, life, barrier, started, fast, sync_guards>>

\* Mutant: only the first updater waits.
EnterTestPasses(t) ==
  /\ spc[t] = "wait"
  /\ SpcGoto(t, "in")
  /\ UNCHANGED <<gp_state, gp_count, gp_wait, cb, life, barrier, started, fast, sync_guards,
                 cb_guards>>

\* wait_event(): the first test, outside the queue.
EnterTest(t) ==
  /\ spc[t] = "wait"
  /\ SpcGoto(t, IF gp_state \in Passed THEN "in" ELSE "prepare")
  /\ UNCHANGED <<gp_state, gp_count, gp_wait, cb, life, barrier, started, fast, sync_guards,
                 cb_guards>>

\* prepare_to_wait_event(): queued (again), TASK_UNINTERRUPTIBLE.
EnterPrepare(t) ==
  /\ spc[t] = "prepare"
  /\ gp_wait' = gp_wait \cup {t}
  /\ SpcGoto(t, "test")
  /\ UNCHANGED <<gp_state, gp_count, cb, life, barrier, started, fast, sync_guards, cb_guards>>

\* The test in the loop; finish_wait() when it succeeds.
EnterRetest(t) ==
  /\ spc[t] = "test"
  /\ IF gp_state \in Passed
       THEN gp_wait' = gp_wait \ {t} /\ SpcGoto(t, "in")
       ELSE SpcGoto(t, "schedule") /\ UNCHANGED gp_wait
  /\ UNCHANGED <<gp_state, gp_count, cb, life, barrier, started, fast, sync_guards, cb_guards>>

\* schedule() returns once the task was woken, and so taken off the queue.
EnterSchedule(t) ==
  /\ spc[t] = "schedule" /\ t \notin gp_wait
  /\ SpcGoto(t, "prepare")
  /\ UNCHANGED <<gp_state, gp_count, gp_wait, cb, life, barrier, started, fast, sync_guards,
                 cb_guards>>

\* rcu_sync_exit(): the last updater out asks for the callback, or for another round.
rcu_sync_exit(t) ==
  /\ spc[t] = "in"
  /\ gp_count' = gp_count - 1
  /\ SpcGoto(t, "out")
  /\ \/ /\ gp_count' = 0 /\ gp_state = "PASSED"
        /\ gp_state' = "EXIT"
        /\ rcu_sync_call(cb)
     \/ /\ gp_count' = 0 /\ gp_state = "EXIT"
        /\ gp_state' = "REPLAY"
        /\ UNCHANGED <<cb, cb_guards>>
     \/ /\ gp_count' # 0 \/ gp_state \notin {"PASSED", "EXIT"}
        /\ UNCHANGED <<gp_state, cb, cb_guards>>
  /\ UNCHANGED <<gp_wait, life, barrier, started, fast, sync_guards>>

\* RCU invokes the callback a grace period after it was posted, and in the order of
\* posting: rcu_barrier() has one less to wait for.
Callback ==
  /\ cb > 0 /\ cb_guards = {}
  /\ rcu_sync_func(cb - 1)
  /\ barrier' = IF barrier > 0 THEN barrier - 1 ELSE barrier
  /\ UNCHANGED <<gp_count, spc, life, started, fast, sync_guards>>

\* rcu_sync_dtor(), called when nobody uses the structure any more.  GP_REPLAY is
\* taken back: its callback would post another one, behind the barrier.
rcu_sync_dtor ==
  /\ life = "live" /\ started = 0 /\ fast = {} /\ \A t \in Tasks : spc[t] = "out"
  /\ gp_state' = IF gp_state = "REPLAY" THEN "EXIT" ELSE gp_state
  /\ IF gp_state' = "IDLE"
     THEN life' = "dead" /\ UNCHANGED barrier
     ELSE life' = "barrier" /\ barrier' = cb
  /\ UNCHANGED <<gp_count, gp_wait, cb, spc, started, fast, sync_guards, cb_guards>>

\* rcu_barrier() returns: what was posted before it has been invoked.
DtorBarrier ==
  /\ life = "barrier" /\ barrier = 0
  /\ life' = "dead"
  /\ UNCHANGED <<gp_state, gp_count, gp_wait, cb, spc, barrier, started, fast, sync_guards,
                 cb_guards>>

\* The memory is used for another structure: rcu_sync_init() zeroes it, which takes
\* no callback back from RCU.
rcu_sync_init ==
  /\ life = "dead"
  /\ life' = "live"
  /\ gp_state' = "IDLE" /\ gp_count' = 0 /\ gp_wait' = {}
  /\ UNCHANGED <<cb, spc, barrier, started, fast, sync_guards, cb_guards>>

SyncTask(t) ==
  \/ rcu_sync_is_idle(t) \/ EndSection(t)
  \/ rcu_sync_enter(t) \/ EnterSync(t) \/ EnterTest(t) \/ EnterPrepare(t)
  \/ EnterRetest(t) \/ EnterSchedule(t) \/ rcu_sync_exit(t)

SyncNext ==
  \/ \E t \in Tasks : SyncTask(t)
  \/ Callback \/ rcu_sync_dtor \/ DtorBarrier \/ rcu_sync_init

SyncSpec == SyncInit /\ [][SyncNext]_SyncVars
-----------------------------------------------------------------------------
SyncTypeOK ==
  /\ gp_state \in States /\ gp_count \in Nat /\ cb \in Nat /\ barrier \in Nat /\ started \in {0, 1}
  /\ gp_wait \subseteq Tasks
  /\ spc \in [Tasks -> {"out", "sync", "wait", "prepare", "test", "schedule", "in"}]
  /\ life \in {"live", "barrier", "dead"}
  /\ fast \subseteq Tasks /\ sync_guards \subseteq fast /\ cb_guards \subseteq fast

\* Once rcu_sync_enter() has returned to some updater, no read-side section is
\* left on the fast path, and none enters it until the matching rcu_sync_exit().
NoFastReader == (\E t \in Tasks : spc[t] = "in") => fast = {} /\ gp_state # "IDLE"

\* cb_head is posted exactly while gp_state is GP_EXIT or GP_REPLAY: call_rcu() is
\* never called again on a pending head, and no state is left behind without the
\* callback that moves it on.  A destroyed structure has no callback and is idle.
CallbackExact ==
  /\ cb = IF gp_state \in {"EXIT", "REPLAY"} THEN 1 ELSE 0
  /\ life = "dead" => gp_state = "IDLE" /\ gp_count = 0

\* An updater asleep on gp_wait is there because the first updater still waits for
\* its grace period, and will wake it: rcu_sync_enter() loses no wakeup.
NoLostEnter ==
  \A t \in Tasks : spc[t] = "schedule" /\ t \in gp_wait => \E u \in Tasks : spc[u] = "sync"
=============================================================================
