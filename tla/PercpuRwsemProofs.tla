-------------------------- MODULE PercpuRwsemProofs -------------------------
(***************************************************************************)
(* Proofs about RcuSync for any finite set of tasks, that the per-CPU      *)
(* semaphore implements it, so that they hold of the semaphore too, and    *)
(* about the semaphore itself.  Its invariant has four parts, each kept    *)
(* with the help of the ones before it:                                    *)
(*   PInv  who holds block and waiters.lock, and who is queued;            *)
(*   NInv  the counters count the readers and the tasks that back out, and *)
(*         a sum in progress is never less than the readers it has still   *)
(*         to answer for;                                                  *)
(*   QInv  while block is clear somebody is about to wake the queue;       *)
(*   BInv  a writer that sleeps on the readers will be prodded by one.     *)
(***************************************************************************)
EXTENDS PercpuRwsem, KernelLemmas

\* Most leaves are first-order and left to Zenon; the others name SMT.
USE Zenon

\* The updaters between the critical sections of enter and exit.
Inside == {t \in Tasks : spc[t] # "out"}

\* gp_count counts them, and rcu_sync_enter_start().
CountExact ==
  /\ gp_count = started + Cardinality(Inside)
  /\ gp_state = "IDLE" => gp_count = 0
  /\ gp_state = "PASSED" => gp_count > 0

\* Fast sections are open only while idle, or while the first updater waits for
\* exactly them: this is what makes NoFastReader inductive.
Guarded ==
  /\ gp_state \in Passed => fast = {}
  /\ gp_state = "ENTER" => \E t \in Tasks : spc[t] = "sync"
  /\ \A t \in Tasks : spc[t] = "sync" => gp_state = "ENTER" /\ fast \subseteq sync_guards
  /\ \A t, u \in Tasks : spc[t] = "sync" /\ spc[u] = "sync" => t = u
  /\ \A t \in Tasks : spc[t] = "in" => gp_state \in Passed

\* Whoever sleeps on gp_wait sleeps through the grace period of the first updater.
Sleepers == \A t \in Tasks : spc[t] = "schedule" /\ t \in gp_wait => gp_state = "ENTER"

\* rcu_sync_dtor() runs with nobody about, and its barrier waits for the callback.
Destroyed ==
  /\ life # "live" => started = 0 /\ fast = {} /\ \A t \in Tasks : spc[t] = "out"
  /\ life = "barrier" => gp_state \in {"EXIT", "IDLE"} /\ barrier = cb

\* After rcu_sync_enter_start() enter and exit change nothing but the count, as its
\* comment promises.
StartedPassed == started = 1 => gp_state = "PASSED"

SInv ==
  SyncTypeOK /\ CountExact /\ Guarded /\ CallbackExact /\ Sleepers /\ Destroyed /\ StartedPassed

Spcs == {"out", "sync", "wait", "prepare", "test", "schedule", "in"}

\* Idle, or PASSED from the start.
LEMMA InitSInv == SyncInit => SInv
<1> SUFFICES ASSUME SyncInit PROVE SInv
  OBVIOUS
<1>1. Inside = {}
  BY DEF SyncInit, Inside
<1>2. Cardinality(Inside) = 0
  BY <1>1, CardEmpty
<1>3. CountExact
  BY SMT, <1>2 DEF SyncInit, CountExact
<1>4. SyncTypeOK
  BY SMT DEF SyncInit, SyncTypeOK, States
<1> QED BY <1>3, <1>4 DEF SyncInit, SInv, Guarded, CallbackExact, Sleepers, Destroyed,
                          StartedPassed, Passed

\* A task moves; the others stay.
LEMMA SpcStep ==
  ASSUME SyncTypeOK, NEW t \in Tasks, NEW l \in Spcs, SpcGoto(t, l)
  PROVE  /\ spc' \in [Tasks -> Spcs] /\ spc'[t] = l
         /\ \A u \in Tasks \ {t} : spc'[u] = spc[u]
BY DEF SpcGoto, SyncTypeOK, Spcs

\* Every step keeps the invariant.
LEMMA NextSInv == SInv /\ [SyncNext]_SyncVars => SInv'
\* A reader finds the structure idle: nobody is inside, so nobody is misled.
\* The updaters are finitely many, and counted from zero.
<1>InsideCount.
  /\ IsFiniteSet(Inside) /\ Cardinality(Inside) \in Nat
  /\ Cardinality(Inside) = 0 <=> Inside = {}
  BY <1>InsideCount, TasksFinite, CardSubset DEF Inside
\* A task inside is counted.
<1>InsideCounted.
  ASSUME SInv, NEW t \in Tasks, spc[t] # "out"
  PROVE  gp_count > 0 /\ gp_state # "IDLE" /\ life = "live"
  <2> USE <1>InsideCounted
  <2>1. Inside # {}
    BY DEF Inside
  <2>2. Cardinality(Inside) > 0
    BY SMT, <2>1, <1>InsideCount
  <2> QED BY SMT, <2>2, <1>InsideCount DEF SInv, CountExact, SyncTypeOK, Destroyed
\* A step of a task that is and stays inside keeps the count.
<1>SameInside.
  ASSUME SInv, NEW t \in Tasks, NEW l \in Spcs \ {"out"}, spc[t] # "out", SpcGoto(t, l),
         UNCHANGED <<gp_count, started>>, gp_state' # "IDLE"
  PROVE  CountExact'
  <2> USE <1>SameInside
  <2>1. Inside' = Inside
    BY SpcStep DEF SInv, Inside
  <2>2. gp_count > 0
    BY <1>InsideCounted
  <2> QED BY <2>1, <2>2 DEF SInv, CountExact
<1>IdleSInv.
  ASSUME SInv, NEW t \in Tasks, rcu_sync_is_idle(t)
  PROVE  SInv'
  <2> USE <1>IdleSInv
  <2> USE DEF rcu_sync_is_idle
  <2>1. \A u \in Tasks : spc[u] = "out"
    BY <1>InsideCounted
  <2>2. SyncTypeOK'
    BY DEF SInv, SyncTypeOK
  <2>3. CountExact'
    BY DEF SInv, CountExact, Inside
  <2>4. Guarded'
    BY <2>1 DEF Guarded, Passed
  <2> QED BY <2>1, <2>2, <2>3, <2>4 DEF SInv, CallbackExact, Sleepers, Destroyed, StartedPassed
\* A fast section ends.
<1>EndSectionSInv.
  ASSUME SInv, NEW t \in Tasks, EndSection(t)
  PROVE  SInv'
  <2> USE <1>EndSectionSInv
  <2> USE DEF EndSection
  <2>1. SyncTypeOK'
    BY DEF SInv, SyncTypeOK
  <2>2. CountExact'
    BY DEF SInv, CountExact, Inside
  <2>3. Guarded'
    BY DEF SInv, Guarded
  <2> QED BY <2>1, <2>2, <2>3 DEF SInv, CallbackExact, Sleepers, Destroyed, StartedPassed
\* An updater enters; the first one starts a grace period for the fast sections.
<1>EnterSInv.
  ASSUME SInv, NEW t \in Tasks, rcu_sync_enter(t)
  PROVE  SInv'
  <2> USE <1>EnterSInv
  <2> DEFINE l == IF gp_state = "IDLE" THEN "sync" ELSE "wait"
  <2>1. /\ spc[t] = "out" /\ life = "live" /\ SpcGoto(t, l) /\ l \in Spcs /\ l # "out"
        /\ gp_count' = gp_count + 1
        /\ UNCHANGED <<gp_wait, cb, life, barrier, started, fast, cb_guards>>
    BY DEF rcu_sync_enter, Spcs
  <2>2. \/ gp_state = "IDLE" /\ gp_state' = "ENTER" /\ sync_guards' = fast /\ l = "sync"
        \/ gp_state # "IDLE" /\ gp_state' = gp_state /\ sync_guards' = sync_guards /\ l = "wait"
    BY DEF rcu_sync_enter
  <2> HIDE DEF l
  <2>3. spc' \in [Tasks -> Spcs] /\ spc'[t] = l /\ \A u \in Tasks \ {t} : spc'[u] = spc[u]
    BY <2>1, SpcStep DEF SInv
  <2>4. SyncTypeOK'
    BY SMT, <2>1, <2>2, <2>3 DEF SInv, SyncTypeOK, States, Spcs
  <2>5. Inside' = Inside \cup {t} /\ t \notin Inside
    BY <2>1, <2>3 DEF Inside
  <2>6. Cardinality(Inside') = Cardinality(Inside) + 1
    BY <2>5, <1>InsideCount, CardMore
  <2>7. CountExact'
    BY SMT, <2>1, <2>2, <2>6, <1>InsideCount DEF SInv, CountExact, SyncTypeOK
  <2>8. Guarded'
    <3>1. CASE gp_state = "IDLE"
      <4>1. \A u \in Tasks : spc[u] = "out"
        BY <3>1, <1>InsideCounted
      <4> QED BY <2>1, <2>2, <2>3, <3>1, <4>1 DEF Guarded, Passed
    <3>2. CASE gp_state # "IDLE"
      BY <2>1, <2>2, <2>3, <3>2 DEF SInv, Guarded
    <3> QED BY <3>1, <3>2
  <2>9. CallbackExact' /\ StartedPassed'
    BY <2>1, <2>2 DEF SInv, CallbackExact, StartedPassed
  <2>10. Sleepers' /\ Destroyed'
    BY <2>1, <2>2, <2>3 DEF SInv, Sleepers, Destroyed
  <2> QED BY <2>4, <2>7, <2>8, <2>9, <2>10 DEF SInv
\* The first updater's grace period is over: the sections it waited for are all
\* the fast ones there were.
<1>EnterSyncSInv.
  ASSUME SInv, NEW t \in Tasks, EnterSync(t)
  PROVE  SInv'
  <2> USE <1>EnterSyncSInv
  <2>1. /\ spc[t] = "sync" /\ SpcGoto(t, "in") /\ "in" \in Spcs /\ sync_guards = {}
        /\ UNCHANGED <<gp_count, life, barrier, started, fast, sync_guards>>
    BY DEF EnterSync, Spcs
  <2>2. gp_count > 0 /\ life = "live" /\ gp_state = "ENTER" /\ fast = {} /\ cb = 0
    BY <2>1, <1>InsideCounted DEF SInv, Guarded, CallbackExact
  <2>3. gp_state' = "PASSED" /\ gp_wait' = {} /\ cb' = cb /\ cb_guards' = cb_guards
    BY SMT, <2>2 DEF EnterSync, rcu_sync_func, SInv, SyncTypeOK
  <2>4. spc' \in [Tasks -> Spcs] /\ spc'[t] = "in" /\ \A u \in Tasks \ {t} : spc'[u] = spc[u]
    BY <2>1, SpcStep DEF SInv
  <2>5. SyncTypeOK'
    BY <2>1, <2>3, <2>4 DEF SInv, SyncTypeOK, States, Spcs
  <2>6. CountExact'
    BY <2>1, <2>3, <1>SameInside
  <2>7. Guarded'
    BY <2>1, <2>2, <2>3, <2>4 DEF SInv, Guarded, Passed
  <2> QED BY <2>1, <2>2, <2>3, <2>5, <2>6, <2>7
          DEF SInv, CallbackExact, Sleepers, Destroyed, StartedPassed
\* The steps of wait_event(): it returns, or sleeps, on what it saw of gp_state.
<1>WaitSInv.
  ASSUME SInv, NEW t \in Tasks,
         EnterTest(t) \/ EnterPrepare(t) \/ EnterRetest(t) \/ EnterSchedule(t)
  PROVE  SInv'
  <2> USE <1>WaitSInv
  <2>1. PICK l \in Spcs \ {"out", "sync"} :
          /\ SpcGoto(t, l)
          /\ l = "in" => gp_state \in Passed
          /\ l = "schedule" => gp_state \notin Passed
    BY SMT DEF EnterTest, EnterPrepare, EnterRetest, EnterSchedule, Spcs
  <2>2. /\ spc[t] \in {"wait", "prepare", "test", "schedule"}
        /\ UNCHANGED <<gp_state, gp_count, cb, life, barrier, started, fast, sync_guards,
                       cb_guards>>
        /\ gp_wait' \subseteq gp_wait \cup {t}
    BY DEF EnterTest, EnterPrepare, EnterRetest, EnterSchedule
  <2>3. gp_state # "IDLE" /\ life = "live"
    BY <2>2, <1>InsideCounted
  <2>4. spc' \in [Tasks -> Spcs] /\ spc'[t] = l /\ \A u \in Tasks \ {t} : spc'[u] = spc[u]
    BY <2>1, SpcStep DEF SInv
  <2>5. SyncTypeOK'
    BY <2>2, <2>4 DEF SInv, SyncTypeOK, Spcs
  <2>6. CountExact'
    BY <2>1, <2>2, <2>3, <1>SameInside
  <2>7. Guarded'
    BY <2>1, <2>2, <2>4 DEF SInv, Guarded
  <2>8. Sleepers'
    <3>1. gp_state \notin Passed => gp_state = "ENTER"
      BY <2>3 DEF SInv, SyncTypeOK, States, Passed
    <3> QED BY <2>1, <2>2, <2>4, <3>1 DEF SInv, Sleepers
  <2> QED BY <2>2, <2>3, <2>5, <2>6, <2>7, <2>8 DEF SInv, CallbackExact, Destroyed, StartedPassed
\* An updater leaves; the last one out posts the callback unless it is pending.
<1>ExitSInv.
  ASSUME SInv, NEW t \in Tasks, rcu_sync_exit(t)
  PROVE  SInv'
  <2> USE <1>ExitSInv
  <2>1. /\ spc[t] = "in" /\ SpcGoto(t, "out") /\ "out" \in Spcs
        /\ gp_count' = gp_count - 1
        /\ UNCHANGED <<gp_wait, life, barrier, started, fast, sync_guards>>
    BY DEF rcu_sync_exit, Spcs
  <2>2. gp_count > 0 /\ life = "live" /\ gp_state \in Passed /\ fast = {}
    BY <2>1, <1>InsideCounted DEF SInv, Guarded
  <2>3. /\ gp_state' \in Passed
        /\ cb' = IF gp_state' \in {"EXIT", "REPLAY"} THEN 1 ELSE 0
        /\ cb_guards' = cb_guards \/ cb_guards' = fast
        /\ gp_count' # 0 => gp_state' = gp_state
        /\ gp_state' = "PASSED" => gp_count' # 0
    BY SMT, <2>2 DEF rcu_sync_exit, rcu_sync_call, SInv, CallbackExact, Passed
  <2>4. spc' \in [Tasks -> Spcs] /\ spc'[t] = "out" /\ \A u \in Tasks \ {t} : spc'[u] = spc[u]
    BY <2>1, SpcStep DEF SInv
  <2>5. SyncTypeOK'
    BY SMT, <2>1, <2>2, <2>3, <2>4 DEF SInv, SyncTypeOK, States, Passed, Spcs
  <2>6. Inside' = Inside \ {t} /\ t \in Inside
    BY <2>1, <2>4 DEF Inside
  <2>7. Cardinality(Inside') = Cardinality(Inside) - 1 /\ Cardinality(Inside') \in Nat
    BY <2>6, <1>InsideCount, CardLess
  <2>8. gp_count' = started' + Cardinality(Inside')
    BY SMT, <2>1, <2>7, <1>InsideCount DEF SInv, CountExact, SyncTypeOK
  <2>9. CountExact'
    BY SMT, <2>3, <2>5, <2>8 DEF CountExact, Passed, SyncTypeOK
  <2>10. Guarded'
    BY <2>1, <2>2, <2>3, <2>4 DEF SInv, Guarded, Passed
  <2>11. StartedPassed'
    BY SMT, <2>1, <2>3, <2>7, <2>8 DEF SInv, StartedPassed, SyncTypeOK
  <2>12. Sleepers'
    BY <2>1, <2>2, <2>4 DEF SInv, Sleepers, Passed
  <2> QED BY <2>1, <2>2, <2>3, <2>5, <2>9, <2>10, <2>11, <2>12
          DEF SInv, CallbackExact, Destroyed
\* The callback: with an updater inside it only ends the episode; with none it goes
\* another round or lets the readers back.
<1>CallbackSInv.
  ASSUME SInv, Callback
  PROVE  SInv'
  <2> USE <1>CallbackSInv
  <2>1. /\ cb > 0 /\ UNCHANGED <<gp_count, spc, life, started, fast, sync_guards>>
        /\ rcu_sync_func(cb - 1) /\ barrier' = IF barrier > 0 THEN barrier - 1 ELSE barrier
    BY DEF Callback
  <2>2. cb = 1 /\ gp_state \in {"EXIT", "REPLAY"} /\ fast = {} /\ started = 0
    BY SMT, <2>1 DEF SInv, CallbackExact, Guarded, Passed, StartedPassed, SyncTypeOK
  <2>3. \A t \in Tasks : spc[t] # "sync" /\ (spc[t] = "schedule" => t \notin gp_wait)
    BY <2>2 DEF SInv, Guarded, Sleepers
  <2>4. UNCHANGED Inside
    BY <2>1 DEF Inside
  <2>5. CASE gp_count > 0 /\ gp_state' = "PASSED" /\ gp_wait' = {} /\ cb' = cb - 1
             /\ UNCHANGED cb_guards
    <3>1. life = "live"
      <4>1. Cardinality(Inside) # 0
        BY SMT, <2>2, <2>5 DEF SInv, CountExact, SyncTypeOK
      <4>2. PICK t \in Tasks : spc[t] # "out"
        BY <4>1, <1>InsideCount DEF Inside
      <4> QED BY <4>2, <1>InsideCounted
    <3>2. SyncTypeOK' /\ CountExact'
      BY SMT, <2>1, <2>2, <2>4, <2>5 DEF SInv, SyncTypeOK, CountExact, States
    <3>3. Guarded'
      BY <2>1, <2>2, <2>3, <2>5 DEF SInv, Guarded, Passed
    <3> QED BY SMT, <2>1, <2>2, <2>5, <3>1, <3>2, <3>3
            DEF SInv, CallbackExact, Sleepers, Destroyed, StartedPassed
  <2>6. CASE gp_count = 0 /\ gp_state = "REPLAY" /\ gp_state' = "EXIT" /\ cb' = (cb - 1) + 1
             /\ cb_guards' = fast /\ UNCHANGED gp_wait
    <3>1. SyncTypeOK' /\ CountExact'
      BY SMT, <2>1, <2>2, <2>4, <2>6 DEF SInv, SyncTypeOK, CountExact, States
    <3>2. Guarded'
      BY <2>1, <2>2, <2>3, <2>6 DEF SInv, Guarded, Passed
    <3> QED BY SMT, <2>1, <2>2, <2>3, <2>6, <3>1, <3>2
            DEF SInv, CallbackExact, Sleepers, Destroyed, StartedPassed
  <2>7. CASE gp_count = 0 /\ gp_state # "REPLAY" /\ gp_state' = "IDLE" /\ cb' = cb - 1
             /\ UNCHANGED <<gp_wait, cb_guards>>
    <3>1. SyncTypeOK' /\ CountExact'
      BY SMT, <2>1, <2>2, <2>4, <2>7 DEF SInv, SyncTypeOK, CountExact, States
    <3>2. \A t \in Tasks : spc[t] = "out"
      <4>1. Inside = {}
        BY SMT, <2>2, <2>7, <1>InsideCount DEF SInv, CountExact
      <4> QED BY <4>1 DEF Inside
    <3>3. Guarded'
      BY <2>1, <2>7, <3>2 DEF Guarded, Passed
    <3> QED BY SMT, <2>1, <2>2, <2>3, <2>7, <3>1, <3>2, <3>3
            DEF SInv, CallbackExact, Sleepers, Destroyed, StartedPassed
  <2> QED BY <2>1, <2>5, <2>6, <2>7 DEF rcu_sync_func, rcu_sync_call
\* rcu_sync_dtor(), and the next life of the memory.
<1>LifeSInv.
  ASSUME SInv, rcu_sync_dtor \/ DtorBarrier \/ rcu_sync_init
  PROVE  SInv'
  <2> USE <1>LifeSInv
  <2>1. UNCHANGED Inside
    BY DEF Inside, rcu_sync_dtor, DtorBarrier, rcu_sync_init
  <2>2. CASE rcu_sync_dtor
    <3> USE <2>2 DEF rcu_sync_dtor
    <3>1. Inside = {}
      BY DEF Inside
    <3>2. gp_count = 0
      BY SMT, <3>1, <1>InsideCount DEF SInv, CountExact
    <3>3. gp_state \in {"IDLE", "EXIT", "REPLAY"}
      BY SMT, <3>2 DEF SInv, SyncTypeOK, CountExact, Guarded, States
    <3>4. SyncTypeOK' /\ CountExact'
      BY <2>1, <3>2, <3>3 DEF SInv, SyncTypeOK, CountExact, States
    <3>5. Guarded' /\ CallbackExact'
      BY <3>2, <3>3 DEF SInv, Guarded, CallbackExact, Passed
    <3>6. Sleepers' /\ Destroyed' /\ StartedPassed'
      BY <3>3 DEF SInv, Sleepers, Destroyed, StartedPassed
    <3> QED BY <3>4, <3>5, <3>6 DEF SInv
  <2>3. CASE DtorBarrier
    <3> USE <2>3 DEF DtorBarrier
    <3>1. gp_state = "IDLE"
      BY SMT DEF SInv, Destroyed, CallbackExact
    <3>2. SyncTypeOK' /\ CountExact'
      BY <2>1 DEF SInv, SyncTypeOK, CountExact
    <3>3. Guarded' /\ CallbackExact'
      BY <3>1 DEF SInv, Guarded, CallbackExact, CountExact
    <3> QED BY <3>2, <3>3 DEF SInv, Sleepers, Destroyed, StartedPassed
  <2>4. CASE rcu_sync_init
    <3> USE <2>4 DEF rcu_sync_init
    <3>1. gp_state = "IDLE" /\ gp_count = 0 /\ cb = 0
      BY DEF SInv, CallbackExact
    <3>2. SyncTypeOK' /\ CountExact'
      BY <2>1, <3>1 DEF SInv, SyncTypeOK, CountExact
    <3>3. Guarded' /\ CallbackExact'
      BY <3>1 DEF SInv, Guarded, CallbackExact
    <3> QED BY <3>1, <3>2, <3>3 DEF SInv, Sleepers, Destroyed, StartedPassed
  <2> QED BY <2>2, <2>3, <2>4
<1> SUFFICES ASSUME SInv, [SyncNext]_SyncVars PROVE SInv'
  OBVIOUS
<1>1. CASE UNCHANGED SyncVars
  BY <1>1 DEF SyncVars, SInv, SyncTypeOK, CountExact, Inside, Guarded, CallbackExact,
              Sleepers, Destroyed, StartedPassed
<1>2. ASSUME NEW t \in Tasks, SyncTask(t)
      PROVE  SInv'
  BY <1>2, <1>IdleSInv, <1>EndSectionSInv, <1>EnterSInv, <1>EnterSyncSInv, <1>WaitSInv,
     <1>ExitSInv DEF SyncTask
<1> QED BY <1>1, <1>2, <1>CallbackSInv, <1>LifeSInv DEF SyncNext

\* The invariant holds always; the theorems below follow from it.
THEOREM SInvAlways == SyncSpec => []SInv
BY InitSInv, NextSInv, PTL DEF SyncSpec

\* Once rcu_sync_enter() has returned no reader is on the fast path: see
\* NoFastReader.
THEOREM RcuSyncNoFastReader == SyncSpec => []NoFastReader
<1>1. SInv => NoFastReader
  BY DEF SInv, Guarded, NoFastReader, Passed
<1> QED BY <1>1, SInvAlways, PTL

\* The callback is posted exactly in GP_EXIT and GP_REPLAY, so never twice; after
\* rcu_sync_dtor() nothing is pending.
THEOREM RcuSyncCallback == SyncSpec => []CallbackExact
<1>1. SInv => CallbackExact
  BY DEF SInv
<1> QED BY <1>1, SInvAlways, PTL

\* An updater asleep in rcu_sync_enter() will be woken by the first one.
THEOREM RcuSyncNoLostEnter == SyncSpec => []NoLostEnter
<1>1. SInv => NoLostEnter
  BY DEF SInv, Guarded, Sleepers, NoLostEnter
<1> QED BY <1>1, SInvAlways, PTL

\* rcu_sync_enter_start() makes enter and exit leave gp_state alone.
THEOREM RcuSyncStarted == SyncSpec => []StartedPassed
<1>1. SInv => StartedPassed
  BY DEF SInv
<1> QED BY <1>1, SInvAlways, PTL
-----------------------------------------------------------------------------
\* Every step of the semaphore is a step of rcu_sync or leaves it alone.
LEMMA StepUses == [Next]_vars => [SyncNext]_SyncVars
<1> SUFFICES ASSUME [Next]_vars PROVE [SyncNext]_SyncVars
  OBVIOUS
<1>1. CASE UNCHANGED vars
  BY <1>1 DEF vars
<1>2. ASSUME NEW t \in Tasks, percpu_down_read(t) \/ percpu_down_read_trylock(t)
      PROVE  SyncTask(t) \/ UNCHANGED SyncVars
  BY <1>2 DEF percpu_down_read, percpu_down_read_trylock, StartRead, SyncTask
<1>3. ASSUME NEW t \in Tasks, percpu_down_write(t) \/ SpuriousWakeup(t)
      PROVE  SyncTask(t) \/ UNCHANGED SyncVars
  BY <1>3 DEF percpu_down_write, SpuriousWakeup, SyncTask
<1>4. ASSUME NEW t \in Tasks, Progress(t)
      PROVE  SyncTask(t) \/ UNCHANGED SyncVars
  <2>1. CASE FastInc(t) \/ UpFast(t)
    BY <2>1 DEF FastInc, UpFast, SyncTask
  <2>2. CASE percpu_up_read(t)
    BY <2>2 DEF percpu_up_read, SyncTask
  <2>3. CASE Entering(t)
    BY <2>3 DEF Entering, SyncTask
  <2>4. CASE UpExit(t)
    BY <2>4 DEF UpExit, SyncTask
  <2>5. CASE TryInc(t) \/ TryTest(t) \/ TryDec(t) \/ TryProd(t) \/ UpDec(t) \/ UpProd(t)
    BY <2>5 DEF TryInc, TryTest, TryDec, TryProd, UpDec, UpProd
  <2>6. CASE WaitReader(t) \/ WaitWriter(t) \/ WqSet(t) \/ WqTest(t) \/ WqSched(t)
    BY <2>6 DEF WaitReader, WaitWriter, WqSet, WqTest, WqSched
  <2>7. CASE WriteTry(t) \/ WaitPrepare(t) \/ WaitSet(t) \/ WaitSum(t) \/ WaitVerdict(t)
             \/ WaitSched(t)
    BY <2>7 DEF WriteTry, WaitPrepare, WaitSet, WaitSum, WaitVerdict, WaitSched
  <2>8. CASE percpu_up_write(t) \/ UpLock(t) \/ UpNext(t)
    BY <2>8 DEF percpu_up_write, UpLock, UpNext
  <2> QED BY <1>4, <2>1, <2>2, <2>3, <2>4, <2>5, <2>6, <2>7, <2>8 DEF Progress
<1>5. ASSUME RcuCallback \/ percpu_free_rwsem \/ percpu_init_rwsem
      PROVE  Callback \/ rcu_sync_dtor \/ DtorBarrier \/ rcu_sync_init
  BY <1>5 DEF RcuCallback, percpu_free_rwsem, percpu_init_rwsem
<1> QED BY <1>1, <1>2, <1>3, <1>4, <1>5 DEF Next, SyncNext

\* The semaphore uses rcu_sync only as RcuSync allows, whatever its bounds and
\* however many CPUs there are.
THEOREM RwsemUsesRcuSync == Spec => UsesRcuSync
<1>1. Init => SyncInit
  BY DEF Init
<1> QED BY <1>1, StepUses, PTL DEF Spec, UsesRcuSync, SyncSpec

\* So a writer past rcu_sync_enter() meets no reader on the fast path, in
\* percpu_down_read() or percpu_up_read().
THEOREM RwsemNoFastReader == Spec => []NoFastReader
BY RwsemUsesRcuSync, RcuSyncNoFastReader, PTL DEF UsesRcuSync
-----------------------------------------------------------------------------
\* Where a task is outside rcu_sync, in the trylock, asleep on the queue, the owner
\* of block, and in percpu_up_write().
Outside == {"out", "fast", "read", "up_fast", "up_dec", "up_prod"}
Trying == {"inc", "test", "dec", "prod"}
Waits == {"wq_set", "wq_test", "wq_sched"}
Active == {"active", "active_set", "active_sum", "active_sched", "write"}
Upping == {"up_lock", "up_next", "up_exit"}

\* Who holds waiters.lock, and who owns block.
Locked(t) == pc[t] = "up_next" \/ (pc[t] \in Trying /\ via[t] \in {"wait", "wake"})
Owner(t) == pc[t] \in Active \/ (t \in granted /\ spc[t] = "in")

\* How far a task is, and how far in rcu_sync.
Place(t) ==
  /\ pc[t] \in Outside => spc[t] = "out"
  /\ pc[t] = "enter" => spc[t] # "out"
  /\ pc[t] \in Active \cup Upping => spc[t] = "in"
  /\ pc[t] \in Waits \cup {"queue"} => spc[t] \in {"out", "in"}
  /\ pc[t] \in Trying => spc[t] = IF via[t] = "wake" THEN "in" ELSE "out"
  /\ pc[t] \in {"fast", "up_fast"} => t \in fast
  /\ pc[t] # "out" => life = "live"

\* What it has of the semaphore.
Holds(t) ==
  /\ t \in Range(waiters) \cup granted => pc[t] \in Waits
  /\ Locked(t) => wlock = t
  /\ via[t] = "wake" /\ pc[t] \in {"inc", "test"} =>
       waiters # <<>> /\ spc[Head(waiters)] = "out"
  /\ Owner(t) => block
  /\ pc[t] \in {"active_set", "active_sum", "active_sched"} => writer = t

OneOwner == \A t, u \in Tasks : Owner(t) /\ Owner(u) => t = u

\* The sum is kept for one writer at a time.
Summing ==
  /\ upto = 0 => sum = 0
  /\ upto # 0 => \E t \in Tasks : pc[t] = "active_sum"

Queue == NoDup(waiters) /\ Range(waiters) \cap granted = {}

PInv ==
  /\ TypeOK /\ Queue /\ OneOwner /\ Summing
  /\ \A t \in Tasks : Place(t) /\ Holds(t)

\* The tasks a step of t leaves alone.
Alone(t) == \A u \in Tasks \ {t} : pc'[u] = pc[u] /\ via'[u] = via[u] /\ spc'[u] = spc[u]

\* The queue's first entry is a task of the queue.
LEMMA HeadWaits ==
  ASSUME TypeOK, Queue, waiters # <<>>
  PROVE  /\ Head(waiters) \in Tasks /\ Head(waiters) \in Range(waiters)
         /\ Tail(waiters) \in Seq(Tasks) /\ NoDup(Tail(waiters))
         /\ Range(Tail(waiters)) = Range(waiters) \ {Head(waiters)}
         /\ Range(waiters) \subseteq Tasks
<1>1. waiters \in Seq(Tasks) /\ NoDup(waiters)
  BY DEF TypeOK, Queue
<1>2. Range(waiters) \subseteq Tasks
  BY <1>1, RangeSeq
<1> QED BY <1>1, <1>2, TailList

\* A task moves; the others stay.
LEMMA PcStep ==
  ASSUME TypeOK, NEW t \in Tasks, NEW l \in Pcs, Goto(t, l)
  PROVE  /\ pc' \in [Tasks -> Pcs] /\ pc'[t] = l
         /\ \A u \in Tasks \ {t} : pc'[u] = pc[u]
BY DEF Goto, TypeOK

\* The constants are numbers, and a counter has more values than it needs.
LEMMA Sizes ==
  /\ Width \in Nat \ {0} /\ NCpus \in Nat \ {0}
  /\ Cardinality(Tasks) \in Nat /\ Cardinality(Tasks) < Width
<1>1. Cardinality(Tasks) \in Nat
  BY TasksFinite, CardCounts
<1> QED BY SMT, <1>1, PercpuRwsemConstants

\* A counter wraps; the others stay.
LEMMA IncStep ==
  ASSUME TypeOK, NEW c \in CPUs, Inc(c)
  PROVE  /\ read_count' \in [CPUs -> 0..(Width - 1)]
         /\ read_count'[c] = (read_count[c] + 1) % Width
         /\ \A d \in CPUs \ {c} : read_count'[d] = read_count[d]
BY SMT, PercpuRwsemConstants DEF Inc, TypeOK

\* The same, down.
LEMMA DecStep ==
  ASSUME TypeOK, NEW c \in CPUs, Dec(c)
  PROVE  /\ read_count' \in [CPUs -> 0..(Width - 1)]
         /\ read_count'[c] = (read_count[c] - 1) % Width
         /\ \A d \in CPUs \ {c} : read_count'[d] = read_count[d]
BY SMT, PercpuRwsemConstants DEF Dec, TypeOK

\* Only a task in the wait loop is queued, or granted the lock.
LEMMA NotWaiting ==
  ASSUME PInv, NEW t \in Tasks, pc[t] \notin Waits
  PROVE  /\ t \notin Range(waiters) /\ t \notin granted
         /\ Owner(t) <=> pc[t] \in Active
BY DEF PInv, Holds, Owner

\* The parts of the calls within which a task keeps what it has.
SamePart(a, l) ==
  \/ a \in Outside \ {"out"} /\ l \in Outside
  \/ a \in Trying /\ l \in Trying
  \/ a \in Waits /\ l \in Waits
  \/ a \in Active /\ l \in Active
  \/ a \in Upping /\ l \in Upping

\* Nobody uses the semaphore at first.
LEMMA InitPInv == Init => PInv
<1> SUFFICES ASSUME Init PROVE PInv
  OBVIOUS
<1> USE DEF Init, SyncInit
<1>1. TypeOK
  <2>1. 0 \in 0..(Width - 1) /\ 0 \in 0..NCpus /\ <<>> \in Seq(Tasks) /\ 1 \in CPUs
    BY SMT, Sizes DEF CPUs
  <2>2. "out" \in Pcs
    BY DEF Pcs
  <2> QED BY <2>1, <2>2 DEF TypeOK
<1>2. Queue
  BY SMT DEF Queue, NoDup, Range
<1>3. \A t \in Tasks : ~Owner(t) /\ ~Locked(t)
  BY DEF Owner, Locked, Active, Trying
<1>4. OneOwner /\ Summing
  BY <1>3 DEF OneOwner, Summing
<1>5. \A t \in Tasks : Place(t)
  BY DEF Place, Active, Upping, Waits, Trying
<1>6. \A t \in Tasks : Holds(t)
  <2>1. Range(waiters) = {}
    BY SMT DEF Range
  <2> QED BY <1>3, <2>1 DEF Holds
<1> QED BY <1>1, <1>2, <1>4, <1>5, <1>6 DEF PInv

\* Every step keeps the invariant.
LEMMA NextPInv == PInv /\ SInv /\ [Next]_vars => PInv'
\* percpu_down_read() and its trylock pick a path.
\* What a step of t may do to the semaphore without disturbing the others: the
\* queue and waiters.lock are changed by whoever holds that lock or finds it free,
\* block is cleared and writer changed by the owner.
<1>Others.
  ASSUME PInv, NEW t \in Tasks, Alone(t), life' = life,
         \A u \in Tasks \ {t} :
           /\ u \in fast => u \in fast'
           /\ u \in Range(waiters') => u \in Range(waiters)
           /\ u \in granted' =>
                u \in granted \/ (u \in Range(waiters) /\ (spc[u] = "in" => block')),
         wlock' = wlock \/ wlock \in {NoTask, t},
         waiters' = waiters \/ wlock \in {NoTask, t},
         t \in Range(waiters) => spc'[t] = spc[t],
         block => block' \/ Owner(t),
         writer' = writer \/ Owner(t)
  PROVE  \A u \in Tasks \ {t} : Place(u)' /\ Holds(u)'
  <2> USE <1>Others
  <2> SUFFICES ASSUME NEW u \in Tasks \ {t} PROVE Place(u)' /\ Holds(u)'
    OBVIOUS
  <2>1. /\ pc'[u] = pc[u] /\ via'[u] = via[u] /\ spc'[u] = spc[u] /\ Place(u) /\ Holds(u)
        /\ u \in fast => u \in fast'
        /\ u \in Range(waiters') => u \in Range(waiters)
        /\ u \in granted' =>
                   u \in granted \/ (u \in Range(waiters) /\ (spc[u] = "in" => block'))
    BY DEF PInv, Alone
  <2>2. u # NoTask /\ (wlock = u => wlock' = u /\ waiters' = waiters)
    BY PercpuRwsemConstants
  <2>3. Place(u)'
    BY <2>1 DEF Place
  <2>4. Owner(u) => ~Owner(t)
    BY DEF PInv, OneOwner
  <2>5. Owner(u)' => block'
    <3>1. CASE Owner(u)
      BY <2>1, <2>4, <3>1 DEF Holds
    <3>2. CASE ~Owner(u)
      BY <2>1, <3>2 DEF Owner
    <3> QED BY <3>1, <3>2
  <2>6. Locked(u)' => Locked(u)
    BY <2>1 DEF Locked
  <2>7. u \in Range(waiters') \cup granted' => pc'[u] \in Waits
    BY <2>1 DEF Holds
  <2>8. Locked(u)' => wlock' = u
    BY <2>1, <2>2, <2>6 DEF Holds
  <2>9. ASSUME via'[u] = "wake", pc'[u] \in {"inc", "test"}
        PROVE  waiters' # <<>> /\ spc'[Head(waiters')] = "out"
    <3>1. Locked(u) /\ waiters # <<>> /\ spc[Head(waiters)] = "out"
      BY <2>1, <2>9 DEF Locked, Holds, Trying
    <3>2. waiters' = waiters
      BY <2>1, <2>2, <3>1 DEF Holds
    <3>3. Head(waiters) \in Tasks /\ Head(waiters) \in Range(waiters)
      BY <3>1, HeadWaits DEF PInv
    <3>4. spc'[Head(waiters)] = spc[Head(waiters)]
      BY <3>3 DEF Alone
    <3> QED BY <3>1, <3>2, <3>4
  <2>10. pc'[u] \in {"active_set", "active_sum", "active_sched"} => writer' = u
    <3>1. pc[u] \in {"active_set", "active_sum", "active_sched"} => Owner(u) /\ writer = u
      BY <2>1 DEF Owner, Active, Holds
    <3> QED BY <2>1, <2>4, <3>1
  <2> QED BY <2>3, <2>5, <2>7, <2>8, <2>9, <2>10 DEF Holds
\* No step makes two owners: block is free before it makes one.
<1>StillOneOwner.
  ASSUME PInv,
         \/ \A u \in Tasks : Owner(u)' => Owner(u)
         \/ ~block /\ \E x \in Tasks : \A u \in Tasks : Owner(u)' => Owner(u) \/ u = x
  PROVE  OneOwner'
  <2> USE <1>StillOneOwner
  <2>1. CASE \A u \in Tasks : Owner(u)' => Owner(u)
    BY <2>1 DEF PInv, OneOwner
  <2>2. CASE ~block /\ \E x \in Tasks : \A u \in Tasks : Owner(u)' => Owner(u) \/ u = x
    <3>1. \A u \in Tasks : ~Owner(u)
      BY <2>2 DEF PInv, Holds
    <3> QED BY <2>2, <3>1 DEF OneOwner
  <2> QED BY <2>1, <2>2
\* Most steps move a task and leave queue and block alone.
<1>MoveStep.
  ASSUME PInv, TypeOK', NEW t \in Tasks, Alone(t), life' = life,
         UNCHANGED <<waiters, granted, block>>,
         \A u \in Tasks \ {t} : u \in fast => u \in fast',
         wlock' = wlock \/ wlock \in {NoTask, t}, writer' = writer \/ Owner(t),
         t \in Range(waiters) \cup granted => pc'[t] \in Waits /\ spc'[t] = spc[t],
         Place(t)', Summing',
         Owner(t)' => Owner(t), Locked(t)' => wlock' = t,
         via'[t] = "wake" /\ pc'[t] \in {"inc", "test"} =>
           waiters # <<>> /\ spc[Head(waiters)] = "out",
         pc'[t] \in {"active_set", "active_sum", "active_sched"} => writer' = t
  PROVE  PInv'
  <2> USE <1>MoveStep
  <2>1. waiters' = waiters /\ granted' = granted /\ (block' <=> block)
    BY SMT
  <2>2. \A u \in Tasks \ {t} : Place(u)' /\ Holds(u)'
    <3>1. \A u \in Tasks \ {t} :
             /\ u \in fast => u \in fast'
             /\ u \in Range(waiters') => u \in Range(waiters)
             /\ u \in granted' =>
                   u \in granted \/ (u \in Range(waiters) /\ (spc[u] = "in" => block'))
      BY <2>1
    <3>2. waiters' = waiters \/ wlock \in {NoTask, t}
      BY <2>1
    <3>3. t \in Range(waiters) => spc'[t] = spc[t]
      OBVIOUS
    <3>4. block => block' \/ Owner(t)
      BY <2>1
    <3> QED BY <3>1, <3>2, <3>3, <3>4, <1>Others
  <2>3. Holds(t)'
    <3>1. Owner(t)' => block'
      BY <2>1 DEF PInv, Holds
    <3>2. waiters # <<>> => spc'[Head(waiters)] = spc[Head(waiters)]
      BY HeadWaits DEF PInv, Alone
    <3> QED BY <2>1, <3>1, <3>2 DEF Holds
  <2>4. OneOwner'
    <3>1. \A u \in Tasks : Owner(u)' => Owner(u)
      BY <2>1 DEF Alone, Owner
    <3> QED BY <3>1, <1>StillOneOwner
  <2>5. Queue'
    BY <2>1 DEF PInv, Queue
  <2> QED BY <2>2, <2>3, <2>4, <2>5 DEF PInv
\* The sum waits for the writer that adds it up.
<1>SummingKept.
  ASSUME PInv, UNCHANGED <<sum, upto>>, \A u \in Tasks : pc[u] = "active_sum" => pc'[u] = pc[u]
  PROVE  Summing'
  BY <1>SummingKept DEF PInv, Summing
\* A step within such a part.
<1>PartStep.
  ASSUME PInv, TypeOK', NEW t \in Tasks, NEW l \in Pcs, Goto(t, l), SamePart(pc[t], l),
         UNCHANGED <<spc, life, via, waiters, granted, block>>,
         \A u \in Tasks \ {t} : u \in fast => u \in fast',
         l \in {"fast", "up_fast"} => t \in fast',
         wlock' = wlock \/ wlock \in {NoTask, t}, writer' = writer \/ Owner(t),
         Summing', Locked(t)' => wlock' = t,
         via[t] = "wake" /\ l \in {"inc", "test"} => pc[t] \in {"inc", "test"},
         l \in {"active_set", "active_sum", "active_sched"} => writer' = t
  PROVE  PInv'
  <2> USE <1>PartStep
  <2>1. pc' \in [Tasks -> Pcs] /\ pc'[t] = l /\ \A u \in Tasks \ {t} : pc'[u] = pc[u]
    BY PcStep DEF PInv
  <2>2. spc' = spc /\ life' = life /\ via' = via /\ granted' = granted
    OBVIOUS
  <2>3. Alone(t)
    BY <2>1, <2>2 DEF Alone
  <2>4. Place(t) /\ Holds(t)
    BY DEF PInv
  <2>5. Place(t)'
    <3>1. CASE pc[t] \in Outside \ {"out"} /\ l \in Outside
      BY <2>1, <2>2, <2>4, <3>1 DEF Place, Outside, Active, Upping, Waits, Trying
    <3>2. CASE pc[t] \in Trying /\ l \in Trying
      BY <2>1, <2>2, <2>4, <3>2 DEF Place, Outside, Active, Upping, Waits, Trying
    <3>3. CASE pc[t] \in Waits /\ l \in Waits
      BY <2>1, <2>2, <2>4, <3>3 DEF Place, Outside, Active, Upping, Waits, Trying
    <3>4. CASE pc[t] \in Active /\ l \in Active
      BY <2>1, <2>2, <2>4, <3>4 DEF Place, Outside, Active, Upping, Waits, Trying
    <3>5. CASE pc[t] \in Upping /\ l \in Upping
      BY <2>1, <2>2, <2>4, <3>5 DEF Place, Outside, Active, Upping, Waits, Trying
    <3> QED BY <3>1, <3>2, <3>3, <3>4, <3>5 DEF SamePart
  <2>6. pc[t] \in Waits => l \in Waits
    BY DEF SamePart, Outside, Trying, Waits, Active, Upping
  <2>7. l \in Active => pc[t] \in Active
    BY DEF SamePart, Outside, Trying, Waits, Active, Upping
  <2>8. t \in Range(waiters) \cup granted => pc'[t] \in Waits /\ spc'[t] = spc[t]
    BY <2>1, <2>2, <2>4, <2>6 DEF Holds
  <2>9. Owner(t)' => Owner(t)
    BY <2>1, <2>2, <2>7 DEF Owner
  <2>10. via'[t] = "wake" /\ pc'[t] \in {"inc", "test"} =>
           waiters # <<>> /\ spc[Head(waiters)] = "out"
    BY <2>1, <2>2, <2>4 DEF Holds
  <2>11. pc'[t] \in {"active_set", "active_sum", "active_sched"} => writer' = t
    BY <2>1
  <2> QED BY <2>2, <2>3, <2>5, <2>8, <2>9, <2>10, <2>11, <1>MoveStep
<1>StartReadPInv.
  ASSUME PInv, NEW t \in Tasks, NEW how \in {"down", "trylock"}, StartRead(t, how)
  PROVE  PInv'
  <2> USE <1>StartReadPInv
  <2>1. /\ pc[t] = "out" /\ life = "live" /\ spc[t] = "out" /\ TypeOK
        /\ t \notin Range(waiters) /\ t \notin granted
    BY NotWaiting DEF StartRead, At, PInv, Place, Outside, Waits
  <2>2. PICK l \in {"fast", "inc"} :
          /\ Goto(t, l) /\ (l = "fast" => t \in fast')
          /\ IF l = "fast" THEN via' = via ELSE via' = [via EXCEPT ![t] = how]
    BY DEF StartRead, rcu_sync_is_idle
  <2>3. l \in Pcs
    BY DEF Pcs
  <2>4. pc' \in [Tasks -> Pcs] /\ pc'[t] = l /\ \A u \in Tasks \ {t} : pc'[u] = pc[u]
    BY <2>1, <2>2, <2>3, PcStep
  <2>5. /\ via' \in [Tasks -> {"down", "trylock", "wait", "wake"}]
        /\ l = "inc" => via'[t] = how
        /\ \A u \in Tasks \ {t} : via'[u] = via[u]
    BY <2>1, <2>2 DEF TypeOK
  <2>6. /\ spc' = spc /\ life' = life /\ fast \subseteq fast'
        /\ UNCHANGED <<sem, unint, cpu, sum, upto>>
    BY DEF StartRead, rcu_sync_is_idle, SyncVars
  <2>7. TypeOK'
    BY <2>1, <2>4, <2>5, <2>6 DEF TypeOK, sem
  <2>8. Place(t)'
    BY <2>1, <2>2, <2>4, <2>5, <2>6 DEF Place, Outside, Active, Upping, Waits, Trying
  <2>9. Summing'
    BY <2>1, <2>4, <2>6, <1>SummingKept
  <2>10. ~Owner(t)' /\ ~Locked(t)'
    BY <2>1, <2>4, <2>5, <2>6 DEF Owner, Active, Locked, Trying, sem
  <2> QED BY <2>1, <2>4, <2>5, <2>6, <2>7, <2>8, <2>9, <2>10, <1>MoveStep DEF Alone, sem
\* A reader counts itself, or leaves, on either path.
<1>ReaderPInv.
  ASSUME PInv, NEW t \in Tasks,
         FastInc(t) \/ UpFast(t) \/ percpu_up_read(t) \/ UpDec(t) \/ UpProd(t)
  PROVE  PInv'
  <2> USE <1>ReaderPInv
  <2>1. PICK l \in {"read", "out", "up_fast", "up_dec", "up_prod"} :
          Goto(t, l) /\ (l = "up_fast" => t \in fast')
    BY DEF FastInc, UpFast, percpu_up_read, UpDec, UpProd, rcu_sync_is_idle
  <2>2. pc[t] \in {"fast", "up_fast", "read", "up_dec", "up_prod"}
    BY DEF FastInc, UpFast, percpu_up_read, UpDec, UpProd, At
  <2>3. /\ spc' = spc /\ life' = life /\ via' = via /\ cpu' = cpu /\ sum' = sum /\ upto' = upto
        /\ UNCHANGED <<block, writer, waiters, wlock, granted>>
    BY DEF FastInc, UpFast, percpu_up_read, UpDec, UpProd, rcu_sync_is_idle, EndSection, SyncVars,
           sem, local
  <2>4. unint' \subseteq unint
    BY DEF FastInc, UpFast, percpu_up_read, UpDec, UpProd, ProdWriter
  <2>5. \A u \in Tasks \ {t} : u \in fast => u \in fast'
    BY DEF FastInc, UpFast, percpu_up_read, UpDec, UpProd, rcu_sync_is_idle, EndSection, SyncVars
  <2>6. TypeOK /\ l \in Pcs
    BY DEF PInv, Pcs
  <2>7. read_count' \in [CPUs -> 0..(Width - 1)]
    <3>1. CASE percpu_up_read(t) \/ UpProd(t)
      BY <2>6, <3>1 DEF percpu_up_read, UpProd, sem, TypeOK
    <3>2. CASE FastInc(t)
      BY <2>6, <3>2, IncStep DEF FastInc
    <3>3. CASE UpFast(t) \/ UpDec(t)
      BY <2>6, <3>3, DecStep DEF UpFast, UpDec
    <3> QED BY <3>1, <3>2, <3>3
  <2>8. pc' \in [Tasks -> Pcs] /\ pc'[t] = l /\ \A u \in Tasks \ {t} : pc'[u] = pc[u]
    BY <2>1, <2>6, PcStep
  <2>9. TypeOK'
    BY <2>3, <2>4, <2>6, <2>7, <2>8 DEF TypeOK
  <2>10. Summing'
    BY <2>2, <2>3, <2>8, <1>SummingKept
  <2>11. SamePart(pc[t], l)
    BY <2>1, <2>2 DEF SamePart, Outside
  <2>12. ~Locked(t)'
    BY <2>8 DEF Locked, Trying
  <2> QED BY <2>1, <2>3, <2>5, <2>6, <2>9, <2>10, <2>11, <2>12, <1>PartStep
\* The trylock counts the task, or takes it back.
<1>TryCountPInv.
  ASSUME PInv, NEW t \in Tasks, TryInc(t) \/ TryDec(t)
  PROVE  PInv'
  <2> USE <1>TryCountPInv
  <2>1. PICK l \in {"test", "prod"} :
          Goto(t, l) /\ (l = "test" => pc[t] = "inc") /\ (l = "prod" => pc[t] = "dec")
    BY DEF TryInc, TryDec, At
  <2>2. /\ spc' = spc /\ life' = life /\ via' = via /\ fast' = fast /\ sum' = sum /\ upto' = upto
        /\ UNCHANGED <<block, writer, waiters, wlock, granted, unint>>
    BY DEF TryInc, TryDec, SyncVars
  <2>4. TypeOK /\ l \in Pcs
    BY DEF PInv, Pcs
  <2>5. 1 \in CPUs
    BY SMT, PercpuRwsemConstants DEF CPUs
  <2>6. read_count' \in [CPUs -> 0..(Width - 1)] /\ cpu' \in [Tasks -> CPUs]
    <3>1. CASE TryInc(t)
      <4>1. PICK c \in CPUs : Inc(c) /\ cpu' = [cpu EXCEPT ![t] = c]
        BY <3>1 DEF TryInc
      <4> QED BY <2>4, <4>1, IncStep DEF TypeOK
    <3>2. CASE TryDec(t)
      <4>1. Dec(cpu[t]) /\ cpu[t] \in CPUs /\ cpu' = [cpu EXCEPT ![t] = 1]
        BY <2>4, <3>2 DEF TryDec, TypeOK
      <4> QED BY <2>4, <2>5, <4>1, DecStep DEF TypeOK
    <3> QED BY <3>1, <3>2
  <2>7. pc' \in [Tasks -> Pcs] /\ pc'[t] = l /\ \A u \in Tasks \ {t} : pc'[u] = pc[u]
    BY <2>1, <2>4, PcStep
  <2>8. TypeOK'
    BY <2>2, <2>4, <2>6, <2>7 DEF TypeOK
  <2>9. Summing'
    BY <2>1, <2>2, <2>7, <1>SummingKept
  <2>10. SamePart(pc[t], l)
    BY <2>1 DEF SamePart, Trying
  <2>11. Locked(t)' => wlock' = t
    <3>1. Locked(t)' => Locked(t)
      BY <2>1, <2>2, <2>7 DEF Locked, Trying
    <3> QED BY <2>2, <3>1 DEF PInv, Holds
  <2> QED BY <2>1, <2>2, <2>4, <2>8, <2>9, <2>10, <2>11, <1>PartStep
\* Asleep on the queue.
<1>WaitLoopPInv.
  ASSUME PInv, NEW t \in Tasks, WqSet(t) \/ (WqTest(t) /\ t \notin granted) \/ WqSched(t)
  PROVE  PInv'
  <2> USE <1>WaitLoopPInv
  <2>1. PICK l \in Waits : Goto(t, l)
    BY DEF WqSet, WqTest, WqSched, Waits
  <2>2. pc[t] \in Waits
    BY DEF WqSet, WqTest, WqSched, At, Waits
  <2>3. /\ spc' = spc /\ life' = life /\ via' = via /\ fast' = fast /\ sum' = sum /\ upto' = upto
        /\ UNCHANGED <<read_count, block, writer, waiters, wlock, granted, cpu>>
    BY DEF WqSet, WqTest, WqSched, SyncVars, sem, local
  <2>4. unint' \subseteq unint \cup {t}
    BY DEF WqSet, WqTest, WqSched
  <2>5. TypeOK /\ l \in Pcs
    BY DEF PInv, Pcs, Waits
  <2>6. pc' \in [Tasks -> Pcs] /\ pc'[t] = l /\ \A u \in Tasks \ {t} : pc'[u] = pc[u]
    BY <2>1, <2>5, PcStep
  <2>7. TypeOK'
    BY <2>3, <2>4, <2>5, <2>6 DEF TypeOK
  <2>8. Summing'
    BY <2>2, <2>3, <2>6, <1>SummingKept DEF Waits
  <2>9. SamePart(pc[t], l)
    BY <2>1, <2>2 DEF SamePart
  <2>10. /\ ~Locked(t)' /\ l \notin {"fast", "up_fast", "inc", "test"}
         /\ l \notin {"active_set", "active_sum", "active_sched"}
    BY <2>6 DEF Locked, Trying, Waits
  <2> QED BY <2>1, <2>3, <2>5, <2>7, <2>8, <2>9, <2>10, <1>PartStep
\* The writer waits for the readers: rcuwait_wait_event().
<1>WriterPInv.
  ASSUME PInv, NEW t \in Tasks,
         WaitPrepare(t) \/ WaitSet(t) \/ WaitVerdict(t) \/ WaitSched(t)
  PROVE  PInv'
  <2> USE <1>WriterPInv
  <2>1. PICK l \in Active :
          /\ Goto(t, l)
          /\ l \in {"active_set", "active_sum", "active_sched"} => writer' = t
    <3>1. pc[t] \in {"active_set", "active_sum", "active_sched"} => writer = t
      BY DEF PInv, Holds
    <3> QED BY <3>1 DEF WaitPrepare, WaitSet, WaitVerdict, WaitSched, At, Active, sem
  <2>2. pc[t] \in Active
    BY DEF WaitPrepare, WaitSet, WaitVerdict, WaitSched, At, Active
  <2>3. /\ spc' = spc /\ life' = life /\ via' = via /\ fast' = fast
        /\ UNCHANGED <<read_count, block, waiters, wlock, granted, cpu>>
    BY DEF WaitPrepare, WaitSet, WaitVerdict, WaitSched, SyncVars, sem, local
  <2>4. unint' \subseteq unint \cup {t} /\ writer' \in {writer, t, NoTask}
    BY DEF WaitPrepare, WaitSet, WaitVerdict, WaitSched, sem
  <2>5. \/ sum' = sum /\ upto' = upto /\ pc[t] # "active_sum"
        \/ sum' = 0 /\ upto' = 0
    BY DEF WaitPrepare, WaitSet, WaitVerdict, WaitSched, At, local
  <2>6. TypeOK /\ l \in Pcs
    BY DEF PInv, Pcs, Active
  <2>7. pc' \in [Tasks -> Pcs] /\ pc'[t] = l /\ \A u \in Tasks \ {t} : pc'[u] = pc[u]
    BY <2>1, <2>6, PcStep
  <2>8. 0 \in 0..(Width - 1) /\ 0 \in 0..NCpus
    BY SMT, <2>6, PercpuRwsemConstants DEF TypeOK
  <2>9. TypeOK'
    BY <2>3, <2>4, <2>5, <2>6, <2>7, <2>8 DEF TypeOK
  <2>10. Summing'
    <3>1. CASE sum' = 0 /\ upto' = 0
      BY <3>1 DEF Summing
    <3>2. CASE sum' = sum /\ upto' = upto /\ pc[t] # "active_sum"
      BY <2>7, <3>2, <1>SummingKept
    <3> QED BY <2>5, <3>1, <3>2
  <2>11. SamePart(pc[t], l) /\ Owner(t)
    BY <2>1, <2>2 DEF SamePart, Owner
  <2>12. ~Locked(t)' /\ l \notin {"fast", "up_fast", "inc", "test"}
    BY <2>7 DEF Locked, Trying, Active
  <2> QED BY <2>1, <2>3, <2>6, <2>9, <2>10, <2>11, <2>12, <1>PartStep
\* It adds up one more CPU.
<1>WaitSumPInv.
  ASSUME PInv, NEW t \in Tasks, WaitSum(t)
  PROVE  PInv'
  <2> USE <1>WaitSumPInv
  <2>1. /\ pc[t] = "active_sum" /\ UNCHANGED <<SyncVars, sem, unint, pc, via, cpu>>
        /\ upto < NCpus /\ upto' = upto + 1 /\ sum' = (sum + read_count[upto + 1]) % Width
    BY DEF WaitSum, At
  <2>2. TypeOK
    BY DEF PInv
  <2>3. upto + 1 \in CPUs /\ upto' \in 0..NCpus /\ upto' # 0
    BY SMT, <2>1, <2>2, PercpuRwsemConstants DEF TypeOK, CPUs
  <2>4. sum' \in 0..(Width - 1)
    <3>1. read_count[upto + 1] \in 0..(Width - 1) /\ sum \in 0..(Width - 1)
      BY <2>2, <2>3 DEF TypeOK
    <3> QED BY SMT, <2>1, <3>1, PercpuRwsemConstants
  <2>5. TypeOK'
    BY <2>1, <2>2, <2>3, <2>4 DEF TypeOK, sem
  <2>6. Summing'
    BY <2>1, <2>3 DEF Summing
  <2>7. /\ pc' = pc /\ spc' = spc /\ life' = life /\ via' = via /\ fast' = fast
        /\ UNCHANGED <<block, writer, waiters, wlock, granted>>
    BY <2>1 DEF SyncVars, sem
  <2>8. Place(t)' /\ Holds(t)
    BY <2>7 DEF PInv, Place
  <2>9. Owner(t)' <=> Owner(t)
    BY <2>7 DEF Owner
  <2>10. Locked(t)' <=> Locked(t)
    BY <2>7 DEF Locked
  <2> QED BY <2>5, <2>6, <2>7, <2>8, <2>9, <2>10, <1>MoveStep DEF Holds, Alone
\* Somebody wakes a sleeper up.
<1>SpuriousPInv.
  ASSUME PInv, NEW t \in Tasks, SpuriousWakeup(t)
  PROVE  PInv'
  <2> USE <1>SpuriousPInv
  <2>1. /\ unint' \subseteq unint /\ UNCHANGED <<SyncVars, sem, pc, local>>
    BY DEF SpuriousWakeup
  <2>2. /\ TypeOK' /\ Summing'
    BY <2>1 DEF PInv, TypeOK, Summing, sem, local
  <2>7. /\ pc' = pc /\ spc' = spc /\ life' = life /\ via' = via /\ fast' = fast
        /\ UNCHANGED <<block, writer, waiters, wlock, granted>>
    BY <2>1 DEF SyncVars, sem, local
  <2>8. Place(t)' /\ Holds(t)
    BY <2>7 DEF PInv, Place
  <2>9. Owner(t)' <=> Owner(t)
    BY <2>7 DEF Owner
  <2>10. Locked(t)' <=> Locked(t)
    BY <2>7 DEF Locked
  <2> QED BY <2>2, <2>7, <2>8, <2>9, <2>10, <1>MoveStep DEF Holds, Alone
\* A writer's way into rcu_sync, and out of it.
<1>SyncPInv.
  ASSUME PInv, SInv, NEW t \in Tasks, percpu_down_write(t) \/ Entering(t) \/ UpExit(t)
  PROVE  PInv'
  <2> USE <1>SyncPInv
  <2>1. /\ pc[t] \in {"out", "enter", "up_exit"} /\ t \notin Range(waiters) /\ t \notin granted
        /\ TypeOK /\ Place(t)
    BY NotWaiting DEF percpu_down_write, Entering, UpExit, At, PInv, Waits
  <2>2. PICK l \in Spcs : SpcGoto(t, l) /\ (l = "out" <=> UpExit(t))
    BY DEF percpu_down_write, Entering, UpExit, rcu_sync_enter, rcu_sync_exit, EnterSync, EnterTest,
           EnterPrepare, EnterRetest, EnterSchedule, Spcs, At
  <2>3. spc' \in [Tasks -> Spcs] /\ spc'[t] = l /\ \A u \in Tasks \ {t} : spc'[u] = spc[u]
    BY <2>2, SpcStep DEF SInv
  <2>4. /\ life' = life /\ fast' = fast /\ unint' = unint /\ UNCHANGED <<sem, local>>
    BY DEF percpu_down_write, Entering, UpExit, rcu_sync_enter, rcu_sync_exit, EnterSync, EnterTest,
           EnterPrepare, EnterRetest, EnterSchedule
  <2>5. /\ pc' \in [Tasks -> Pcs] /\ \A u \in Tasks \ {t} : pc'[u] = pc[u]
        /\ pc'[t] = IF UpExit(t) THEN "out" ELSE "enter"
    <3>0. "out" \in Pcs /\ "enter" \in Pcs
      BY DEF Pcs
    <3>1. CASE UpExit(t)
      BY <2>1, <3>1, <3>0, PcStep DEF UpExit
    <3>2. CASE percpu_down_write(t)
      BY <2>1, <3>2, <3>0, PcStep DEF percpu_down_write, UpExit, At
    <3>3. CASE Entering(t)
      BY <2>1, <3>3 DEF Entering, UpExit, At, TypeOK
    <3> QED BY <3>1, <3>2, <3>3
  <2>6. life = "live"
    BY <2>1 DEF Place, percpu_down_write, rcu_sync_enter, Entering, UpExit, At
  <2>7. TypeOK' /\ Summing'
    BY <2>1, <2>4, <2>5, <1>SummingKept DEF TypeOK, sem, local
  <2>8. Place(t)'
    BY <2>2, <2>3, <2>4, <2>5, <2>6 DEF Place, Outside, Active, Upping, Waits, Trying
  <2>9. ~Owner(t)' /\ ~Locked(t)'
    BY <2>1, <2>4, <2>5 DEF Owner, Active, Locked, Trying, sem
  <2> QED BY <2>1, <2>3, <2>4, <2>5, <2>7, <2>8, <2>9, <1>MoveStep DEF Alone, sem, local
\* percpu_up_write() takes waiters.lock, and goes through the queue while it does
\* not hand the lock over.
<1>WakePInv.
  ASSUME PInv, NEW t \in Tasks,
         \/ UpLock(t)
         \/ UpNext(t) /\ (waiters = <<>> \/ block \/ spc[Head(waiters)] = "out")
  PROVE  PInv'
  <2> USE <1>WakePInv
  <2>1. /\ pc[t] \in {"up_lock", "up_next"} /\ t \notin Range(waiters) /\ t \notin granted
        /\ TypeOK /\ Place(t)
        /\ pc[t] = "up_next" => wlock = t
    BY NotWaiting DEF UpLock, UpNext, At, PInv, Waits, Holds, Locked
  <2>2. spc[t] = "in" /\ life = "live"
    BY <2>1 DEF Place, Upping
  <2>3. /\ UNCHANGED <<SyncVars, read_count, writer, waiters, granted, unint, cpu, sum, upto>>
        /\ block' = block
    BY <2>1 DEF UpLock, UpNext, At, local, PInv, TypeOK
  <2>4. \/ pc[t] = "up_lock" /\ Goto(t, "up_next") /\ wlock = NoTask /\ wlock' = t /\ via' = via
        \/ pc[t] = "up_next" /\ Goto(t, "up_exit") /\ wlock' = NoTask /\ via' = via
        \/ /\ pc[t] = "up_next" /\ Goto(t, "inc") /\ wlock' = wlock
           /\ via' = [via EXCEPT ![t] = "wake"]
           /\ waiters # <<>> /\ spc[Head(waiters)] = "out"
    BY DEF UpLock, UpNext, At, local
  <2>5. PICK l \in {"up_next", "up_exit", "inc"} :
          /\ Goto(t, l)
          /\ l = "up_next" => wlock = NoTask /\ wlock' = t /\ via' = via
          /\ l = "up_exit" => wlock = t /\ wlock' = NoTask /\ via' = via
          /\ l = "inc" => wlock = t /\ wlock' = wlock /\ via' = [via EXCEPT ![t] = "wake"]
                           /\ waiters # <<>> /\ spc[Head(waiters)] = "out"
    BY <2>1, <2>4
  <2>6. l \in Pcs
    BY DEF Pcs
  <2>7. pc' \in [Tasks -> Pcs] /\ pc'[t] = l /\ \A u \in Tasks \ {t} : pc'[u] = pc[u]
    BY <2>1, <2>5, <2>6, PcStep
  <2>8. /\ via' \in [Tasks -> {"down", "trylock", "wait", "wake"}]
        /\ l = "inc" => via'[t] = "wake"
        /\ \A u \in Tasks \ {t} : via'[u] = via[u]
    BY <2>1, <2>5 DEF TypeOK
  <2>9. TypeOK'
    BY <2>1, <2>3, <2>5, <2>7, <2>8 DEF TypeOK
  <2>10. Summing'
    BY <2>1, <2>3, <2>7, <1>SummingKept
  <2>11. Place(t)'
    BY <2>2, <2>3, <2>7, <2>8 DEF Place, Outside, Active, Upping, Waits, Trying, SyncVars
  <2>12. ~Owner(t)' /\ (Locked(t)' => wlock' = t)
    BY <2>1, <2>3, <2>5, <2>7 DEF Owner, Active, Locked, Trying
  <2> QED BY <2>1, <2>3, <2>5, <2>7, <2>8, <2>9, <2>10, <2>11, <2>12,
             <1>MoveStep DEF Alone, SyncVars
\* The trylock's verdict, its last step, and a reader on its way to the queue.
<1>TryPInv.
  ASSUME PInv, NEW t \in Tasks,
         \/ TryTest(t) /\ (block \/ via[t] # "wake")
         \/ TryProd(t) /\ via[t] # "wait"
         \/ WaitReader(t)
  PROVE  PInv'
  <2> USE <1>TryPInv
  <2>1. /\ pc[t] \in {"test", "prod", "queue"} /\ t \notin Range(waiters) /\ t \notin granted
        /\ TypeOK /\ Place(t) /\ via[t] \in {"down", "trylock", "wait", "wake"}
        /\ (pc[t] # "queue" /\ via[t] \in {"wait", "wake"}) => wlock = t
    BY NotWaiting DEF TryTest, TryProd, WaitReader, At, PInv, Waits, Holds, Locked, Trying, TypeOK
  <2>2. /\ life = "live"
        /\ pc[t] # "queue" => spc[t] = IF via[t] = "wake" THEN "in" ELSE "out"
    BY <2>1 DEF Place, Trying
  <2>3. /\ UNCHANGED <<SyncVars, read_count, block, writer, waiters, granted, sum, upto>>
        /\ unint' \subseteq unint
    BY <2>1 DEF TryTest, TryProd, WaitReader, ProdWriter, sem
  <2>4. /\ pc' \in [Tasks -> Pcs] /\ \A u \in Tasks \ {t} : pc'[u] = pc[u]
        /\ via' \in [Tasks -> {"down", "trylock", "wait", "wake"}]
        /\ \A u \in Tasks \ {t} : via'[u] = via[u]
        /\ \/ pc[t] = "test" /\ pc'[t] = "dec" /\ via'[t] = via[t] /\ wlock' = wlock
           \/ /\ pc[t] # "queue" /\ via[t] # "wake" /\ pc'[t] \in {"read", "queue", "out"}
              /\ wlock' = wlock \/ (via[t] = "wait" /\ wlock' = NoTask)
           \/ pc[t] # "queue" /\ via[t] = "wake" /\ pc'[t] = "up_exit" /\ wlock' = NoTask
           \/ /\ pc[t] = "queue" /\ spc[t] = "out" /\ pc'[t] = "inc" /\ via'[t] = "wait"
              /\ wlock = NoTask /\ wlock' = t
    <3>1. CASE TryTest(t) /\ (block \/ via[t] # "wake")
      <4>1. \/ block /\ Goto(t, "dec") /\ wlock' = wlock
            \/ ~block /\ Goto(t, "read") /\ (wlock' = wlock \/ (via[t] = "wait" /\ wlock' = NoTask))
        BY <2>1, <3>1 DEF TryTest
      <4>2. /\ via' \in [Tasks -> {"down", "trylock", "wait", "wake"}]
            /\ \A u \in Tasks \ {t} : via'[u] = via[u]
            /\ block => via'[t] = via[t]
        BY SMT, <2>1, <3>1 DEF TryTest, TypeOK
      <4>3. pc[t] = "test" /\ (block \/ via[t] # "wake") /\ "dec" \in Pcs /\ "read" \in Pcs
        BY <2>1, <3>1 DEF TryTest, At, Pcs
      <4>4. /\ pc' \in [Tasks -> Pcs] /\ \A u \in Tasks \ {t} : pc'[u] = pc[u]
            /\ pc'[t] = IF block THEN "dec" ELSE "read"
        BY <2>1, <4>1, <4>3, PcStep
      <4> QED BY <4>1, <4>2, <4>3, <4>4
    <3>2. CASE TryProd(t) /\ via[t] # "wait"
      <4>1. \/ via[t] = "down" /\ Goto(t, "queue") /\ wlock' = wlock
            \/ via[t] = "trylock" /\ Goto(t, "out") /\ wlock' = wlock
            \/ via[t] = "wake" /\ Goto(t, "up_exit") /\ wlock' = NoTask
        BY <2>1, <3>2 DEF TryProd, At
      <4>2. /\ via' \in [Tasks -> {"down", "trylock", "wait", "wake"}]
            /\ \A u \in Tasks \ {t} : via'[u] = via[u]
        BY SMT, <2>1, <3>2 DEF TryProd, TypeOK
      <4>3. pc[t] = "prod" /\ "queue" \in Pcs /\ "out" \in Pcs /\ "up_exit" \in Pcs
        BY <3>2 DEF TryProd, At, Pcs
      <4>4. /\ pc' \in [Tasks -> Pcs] /\ \A u \in Tasks \ {t} : pc'[u] = pc[u]
            /\ \/ via[t] = "down" /\ pc'[t] = "queue"
               \/ via[t] = "trylock" /\ pc'[t] = "out"
               \/ via[t] = "wake" /\ pc'[t] = "up_exit"
        BY <2>1, <4>1, <4>3, PcStep
      <4> QED BY <4>1, <4>2, <4>3, <4>4
    <3>3. CASE WaitReader(t)
      BY SMT, <2>1, <3>3 DEF WaitReader, At, Goto, TypeOK, Pcs
    <3> QED BY <3>1, <3>2, <3>3
  <2>5. cpu' \in [Tasks -> CPUs]
    <3>1. 1 \in CPUs /\ cpu \in [Tasks -> CPUs]
      BY SMT, <2>1, PercpuRwsemConstants DEF CPUs, TypeOK
    <3> QED BY <3>1 DEF TryTest, TryProd, WaitReader
  <2>6. wlock' \in Tasks \cup {NoTask} /\ (wlock' = wlock \/ wlock \in {NoTask, t})
    BY <2>1, <2>4 DEF TypeOK
  <2>7. TypeOK'
    BY <2>1, <2>3, <2>4, <2>5, <2>6 DEF TypeOK
  <2>8. Summing'
    BY <2>1, <2>3, <2>4, <1>SummingKept
  <2>9. Place(t)'
    BY <2>1, <2>2, <2>3, <2>4 DEF Place, Outside, Active, Upping, Waits, Trying, SyncVars
  <2>10. ~Owner(t)' /\ (Locked(t)' => wlock' = t)
    BY <2>1, <2>3, <2>4 DEF Owner, Active, Locked, Trying
  <2>11. /\ ~(via'[t] = "wake" /\ pc'[t] \in {"inc", "test"})
         /\ pc'[t] \notin {"active_set", "active_sum", "active_sched"}
    BY <2>4
  <2> QED BY <2>1, <2>3, <2>4, <2>6, <2>7, <2>8, <2>9, <2>10, <2>11, <1>MoveStep DEF Alone, SyncVars
\* The wake function hands the lock to the head of the queue.
<1>GrantPInv.
  ASSUME PInv, NEW t \in Tasks, ~block,
         \/ TryTest(t) /\ via[t] = "wake"
         \/ UpNext(t) /\ waiters # <<>> /\ spc[Head(waiters)] = "in"
  PROVE  PInv'
  <2> USE <1>GrantPInv
  <2> DEFINE h == Head(waiters)
  <2>1. /\ pc[t] \in {"test", "up_next"} /\ t \notin Range(waiters) /\ t \notin granted
        /\ TypeOK /\ Queue /\ Place(t) /\ wlock = t
        /\ waiters # <<>>
        /\ TryTest(t) => spc[h] = "out"
    BY NotWaiting DEF TryTest, UpNext, At, PInv, Waits, Holds, Locked, Trying
  <2>2. life = "live" /\ spc[t] = "in" /\ ~(spc[h] = "in" /\ spc[h] = "out")
    BY <2>1 DEF Place, Trying, Upping, TryTest, UpNext, At
  <2>3. /\ h \in Tasks /\ h \in Range(waiters) /\ h # t
        /\ Tail(waiters) \in Seq(Tasks) /\ NoDup(Tail(waiters))
        /\ Range(Tail(waiters)) = Range(waiters) \ {h}
    BY <2>1, HeadWaits
  <2>4. /\ waiters' = Tail(waiters) /\ granted' = granted \cup {h} /\ unint' \subseteq unint
        /\ UNCHANGED <<SyncVars, read_count, writer, sum, upto>>
    BY <2>2 DEF TryTest, UpNext, GrantHead
  <2>5. \/ TryTest(t) /\ Goto(t, "up_next") /\ wlock' = wlock /\ block' = block
        \/ UpNext(t) /\ Goto(t, "up_exit") /\ wlock' = NoTask /\ block' = TRUE
    BY <2>2 DEF TryTest, UpNext
  <2>6. "up_next" \in Pcs /\ "up_exit" \in Pcs
    BY DEF Pcs
  <2>7. /\ pc' \in [Tasks -> Pcs] /\ \A u \in Tasks \ {t} : pc'[u] = pc[u]
        /\ pc'[t] \in {"up_next", "up_exit"} /\ (pc'[t] = "up_next" => wlock' = t)
    BY <2>1, <2>5, <2>6, PcStep
  <2>8. /\ via' \in [Tasks -> {"down", "trylock", "wait", "wake"}] /\ cpu' \in [Tasks -> CPUs]
        /\ \A u \in Tasks \ {t} : via'[u] = via[u]
    <3>1. 1 \in CPUs
      BY SMTT(15), PercpuRwsemConstants DEF CPUs
    <3>2. CASE TryTest(t)
      BY SMT, <2>1, <3>1, <3>2 DEF TryTest, TypeOK
    <3>3. CASE UpNext(t) /\ spc[h] = "in"
      BY <2>1, <2>2, <3>3 DEF UpNext, TypeOK
    <3> QED BY <3>2, <3>3
  <2>9. block' \in BOOLEAN /\ (spc[h] = "in" => block')
    <3>1. CASE TryTest(t) /\ block' = block
      BY <2>1, <2>2, <3>1 DEF TypeOK
    <3>2. CASE block' = TRUE
      BY <3>2
    <3> QED BY <2>5, <3>1, <3>2
  <2> HIDE DEF h
  <2>10. TypeOK'
    BY <2>1, <2>3, <2>4, <2>5, <2>7, <2>8, <2>9 DEF TypeOK
  <2>11. Summing'
    BY <2>1, <2>4, <2>7, <1>SummingKept
  <2>12. Queue'
    BY <2>1, <2>3, <2>4 DEF Queue
  <2>13. \A u \in Tasks \ {t} :
           /\ u \in fast => u \in fast'
           /\ u \in Range(waiters') => u \in Range(waiters)
           /\ u \in granted' =>
                   u \in granted \/ (u \in Range(waiters) /\ (spc[u] = "in" => block'))
    BY <2>3, <2>4, <2>9 DEF SyncVars
  <2>14. Alone(t) /\ life' = life /\ writer' = writer /\ spc' = spc
    BY <2>4, <2>7, <2>8 DEF Alone, SyncVars
  <2>15. \A u \in Tasks \ {t} : Place(u)' /\ Holds(u)'
    BY <2>1, <2>13, <2>14, <1>Others
  <2>16. Place(t)'
    BY <2>2, <2>7, <2>14 DEF Place, Outside, Active, Upping, Waits, Trying
  <2>17. t \notin granted' /\ t \notin Range(waiters')
    BY <2>1, <2>3, <2>4
  <2>18. ~Owner(t)' /\ (Locked(t)' => wlock' = t)
    BY <2>7, <2>17 DEF Owner, Active, Locked, Trying
  <2>19. Holds(t)'
    BY <2>7, <2>17, <2>18 DEF Holds
  <2>20. \A u \in Tasks : Owner(u)' => Owner(u) \/ u = h
    BY <2>4, <2>7, <2>14, <2>18 DEF Owner
  <2>21. OneOwner'
    BY <2>3, <2>20, <1>StillOneOwner
  <2> QED BY <2>10, <2>11, <2>12, <2>15, <2>16, <2>19, <2>21 DEF PInv
\* A reader or a writer joins the queue.
<1>QueuePInv.
  ASSUME PInv, NEW t \in Tasks, (TryProd(t) /\ via[t] = "wait") \/ (WaitWriter(t) /\ block)
  PROVE  PInv'
  <2> USE <1>QueuePInv
  <2>1. /\ pc[t] \in {"prod", "queue"} /\ t \notin Range(waiters) /\ t \notin granted
        /\ TypeOK /\ Queue /\ Place(t)
        /\ wlock \in {NoTask, t}
    BY NotWaiting DEF TryProd, WaitWriter, At, PInv, Waits, Holds, Locked, Trying
  <2>2. life = "live" /\ spc[t] \in {"in", "out"}
    BY <2>1 DEF Place, Trying, TryProd, WaitWriter, At
  <2>3. /\ waiters' = Append(waiters, t) /\ Goto(t, "wq_set") /\ unint' \subseteq unint
        /\ UNCHANGED <<SyncVars, read_count, writer, granted, cpu, sum, upto>>
        /\ wlock' \in {NoTask, wlock}
    BY DEF TryProd, WaitWriter, ProdWriter, local
  <2>4. /\ via' \in [Tasks -> {"down", "trylock", "wait", "wake"}]
        /\ \A u \in Tasks \ {t} : via'[u] = via[u]
    BY <2>1 DEF TryProd, WaitWriter, TypeOK, local
  <2>5. block' \in BOOLEAN /\ (block => block')
    <3>1. CASE WaitWriter(t)
      BY <3>1 DEF WaitWriter
    <3>2. CASE block' = block
      BY <2>1, <3>2 DEF TypeOK
    <3> QED BY <3>1, <3>2 DEF TryProd
  <2>6. /\ Append(waiters, t) \in Seq(Tasks) /\ NoDup(Append(waiters, t))
        /\ Range(Append(waiters, t)) = Range(waiters) \cup {t}
    <3>1. waiters \in Seq(Tasks) /\ NoDup(waiters)
      BY <2>1 DEF TypeOK, Queue
    <3> QED BY SMT, <2>1, <3>1, AppendList
  <2>7. "wq_set" \in Pcs
    BY DEF Pcs
  <2>8. pc' \in [Tasks -> Pcs] /\ pc'[t] = "wq_set" /\ \A u \in Tasks \ {t} : pc'[u] = pc[u]
    BY <2>1, <2>3, <2>7, PcStep
  <2>9. TypeOK'
    BY <2>1, <2>3, <2>4, <2>5, <2>6, <2>8 DEF TypeOK
  <2>10. Summing'
    BY <2>1, <2>3, <2>8, <1>SummingKept
  <2>11. Queue'
    BY <2>1, <2>3, <2>6 DEF Queue
  <2>12. /\ Alone(t) /\ life' = life /\ writer' = writer /\ spc' = spc
         /\ fast' = fast /\ granted' = granted
    BY <2>3, <2>4, <2>8 DEF Alone, SyncVars
  <2>13. \A u \in Tasks \ {t} : Place(u)' /\ Holds(u)'
    BY <2>1, <2>3, <2>5, <2>6, <2>12, <1>Others
  <2>14. Place(t)'
    BY <2>2, <2>8, <2>12 DEF Place, Outside, Active, Upping, Waits, Trying
  <2>15. ~Owner(t)' /\ ~Locked(t)'
    BY <2>1, <2>8, <2>12 DEF Owner, Active, Locked, Trying
  <2>16. Holds(t)'
    BY <2>8, <2>15 DEF Holds, Waits
  <2>17. \A u \in Tasks : Owner(u)' => Owner(u)
    BY <2>8, <2>12, <2>15 DEF Owner
  <2>18. OneOwner'
    BY <2>17, <1>StillOneOwner
  <2> QED BY <2>9, <2>10, <2>11, <2>13, <2>14, <2>16, <2>18 DEF PInv
\* A writer takes block, or finds it taken.
<1>WriteTryPInv.
  ASSUME PInv, NEW t \in Tasks, WriteTry(t) \/ (WaitWriter(t) /\ ~block)
  PROVE  PInv'
  <2> USE <1>WriteTryPInv
  <2>1. /\ pc[t] \in {"enter", "queue"} /\ t \notin Range(waiters) /\ t \notin granted
        /\ TypeOK /\ Queue /\ Place(t) /\ spc[t] = "in"
    BY NotWaiting DEF WriteTry, WaitWriter, At, PInv, Waits
  <2>2. life = "live"
    BY <2>1 DEF Place
  <2>3. /\ block' = TRUE /\ Goto(t, IF block THEN "queue" ELSE "active")
        /\ UNCHANGED <<SyncVars, read_count, writer, waiters, wlock, granted, unint, local>>
    BY DEF WriteTry, WaitWriter
  <2>4. (IF block THEN "queue" ELSE "active") \in Pcs
    BY DEF Pcs
  <2>5. /\ pc' \in [Tasks -> Pcs] /\ pc'[t] = (IF block THEN "queue" ELSE "active")
        /\ \A u \in Tasks \ {t} : pc'[u] = pc[u]
    BY <2>1, <2>3, <2>4, PcStep
  <2>6. block' \in BOOLEAN /\ block'
    BY <2>3
  <2>7. TypeOK' /\ Queue'
    BY <2>1, <2>3, <2>5, <2>6 DEF TypeOK, Queue, local
  <2>8. Summing'
    BY <2>1, <2>3, <2>5, <1>SummingKept DEF local
  <2>9. /\ Alone(t) /\ life' = life /\ writer' = writer /\ spc' = spc /\ fast' = fast
        /\ granted' = granted /\ waiters' = waiters /\ wlock' = wlock /\ via' = via
    BY <2>3, <2>5 DEF Alone, SyncVars, local
  <2>10. \A u \in Tasks \ {t} : Place(u)' /\ Holds(u)'
    BY <2>1, <2>6, <2>9, <1>Others
  <2>11. Place(t)'
    BY <2>1, <2>2, <2>5, <2>9 DEF Place, Outside, Active, Upping, Waits, Trying
  <2>12. ~Locked(t)' /\ pc'[t] \in {"queue", "active"}
    BY <2>5 DEF Locked, Trying
  <2>13. Holds(t)'
    BY <2>1, <2>6, <2>9, <2>12 DEF Holds
  <2>14. OneOwner'
    <3>1. CASE block
      <4>1. \A u \in Tasks : Owner(u)' => Owner(u)
        BY <2>1, <2>5, <2>9, <3>1 DEF Owner, Active
      <4> QED BY <4>1, <1>StillOneOwner
    <3>2. CASE ~block
      <4>1. \A u \in Tasks : Owner(u)' => Owner(u) \/ u = t
        BY <2>5, <2>9 DEF Owner
      <4> QED BY <3>2, <4>1, <1>StillOneOwner
    <3> QED BY <3>1, <3>2
  <2> QED BY <2>7, <2>8, <2>10, <2>11, <2>13, <2>14 DEF PInv
\* A waiter finds that the lock was handed to it; percpu_up_write() lets block go.
<1>HandOverPInv.
  ASSUME PInv, NEW t \in Tasks, (WqTest(t) /\ t \in granted) \/ percpu_up_write(t)
  PROVE  PInv'
  <2> USE <1>HandOverPInv
  <2>1. /\ pc[t] \in {"wq_test", "write"} /\ TypeOK /\ Queue /\ Place(t) /\ Holds(t)
        /\ t \notin Range(waiters) /\ (pc[t] = "write" => t \notin granted)
    BY NotWaiting DEF WqTest, percpu_up_write, At, PInv, Waits, Queue
  <2>2. /\ life = "live" /\ spc[t] \in {"in", "out"}
        /\ (pc[t] = "write" => spc[t] = "in" /\ Owner(t))
    BY <2>1 DEF Place, Waits, Active, Owner
  <2>3. PICK l \in {"active", "read", "up_lock"} :
          /\ Goto(t, l) /\ granted' = granted \ {t}
          /\ l = "active" => spc[t] = "in" /\ t \in granted /\ block' = block
          /\ l = "read" => spc[t] # "in" /\ block' = block
          /\ l = "up_lock" => pc[t] = "write"
    BY <2>1 DEF WqTest, percpu_up_write, At
  <2>4. /\ unint' \subseteq unint /\ block' \in BOOLEAN
        /\ UNCHANGED <<SyncVars, read_count, writer, waiters, wlock, local>>
    BY <2>1 DEF WqTest, percpu_up_write, TypeOK
  <2>5. l \in Pcs
    BY DEF Pcs
  <2>6. pc' \in [Tasks -> Pcs] /\ pc'[t] = l /\ \A u \in Tasks \ {t} : pc'[u] = pc[u]
    BY <2>1, <2>3, <2>5, PcStep
  <2>7. TypeOK' /\ Queue'
    BY <2>1, <2>3, <2>4, <2>6 DEF TypeOK, Queue, local
  <2>8. Summing'
    BY <2>1, <2>4, <2>6, <1>SummingKept DEF local
  <2>9. /\ Alone(t) /\ life' = life /\ writer' = writer /\ spc' = spc /\ fast' = fast
        /\ waiters' = waiters /\ wlock' = wlock /\ via' = via
    BY <2>4, <2>6 DEF Alone, SyncVars, local
  <2>10. block => block' \/ Owner(t)
    BY <2>2, <2>3
  <2>11. \A u \in Tasks \ {t} : Place(u)' /\ Holds(u)'
    BY <2>1, <2>3, <2>9, <2>10, <1>Others
  <2>12. Place(t)'
    BY <2>2, <2>3, <2>6, <2>9 DEF Place, Outside, Active, Upping, Waits, Trying
  <2>13. \A u \in Tasks : Owner(u)' => Owner(u)
    BY <2>3, <2>6, <2>9 DEF Owner, Active
  <2>14. Owner(t)' => block'
    <3>1. Owner(t)' => l = "active"
      BY <2>3, <2>6 DEF Owner, Active
    <3>2. l = "active" => Owner(t)
      BY <2>3 DEF Owner
    <3> QED BY SMT, <2>1, <2>3, <3>1, <3>2 DEF Holds
  <2>15. ~Locked(t)' /\ t \notin granted'
    BY <2>3, <2>6 DEF Locked, Trying
  <2>16. Holds(t)'
    BY <2>1, <2>6, <2>9, <2>14, <2>15 DEF Holds
  <2>17. OneOwner'
    BY <2>13, <1>StillOneOwner
  <2> QED BY <2>7, <2>8, <2>11, <2>12, <2>16, <2>17 DEF PInv
\* The steps in which no task moves.
<1>QuietPInv.
  ASSUME PInv, SInv, RcuCallback \/ percpu_free_rwsem \/ percpu_init_rwsem \/ UNCHANGED vars
  PROVE  PInv'
  <2> USE <1>QuietPInv
  <2>1. /\ UNCHANGED <<spc, fast, granted, unint, pc, via, cpu, sum, upto, wlock>>
        /\ life' # "live" => \A t \in Tasks : pc[t] = "out"
        /\ life = "dead" => \A t \in Tasks : pc[t] = "out"
        /\ life' # life => \A t \in Tasks : pc[t] = "out"
    <3>1. \A t \in Tasks : pc[t] # "out" => life = "live"
      BY DEF PInv, Place
    <3>2. UNCHANGED <<spc, fast, granted, unint, pc, via, cpu, sum, upto, wlock>>
      BY DEF RcuCallback, Callback, percpu_free_rwsem, rcu_sync_dtor, DtorBarrier,
             percpu_init_rwsem, rcu_sync_init, vars, SyncVars, sem, local
    <3>3. life' = life \/ \A t \in Tasks : pc[t] = "out"
      BY <3>1 DEF RcuCallback, Callback, percpu_free_rwsem, At, percpu_init_rwsem, rcu_sync_init,
                  vars, SyncVars
    <3> QED BY <3>1, <3>2, <3>3
  <2>2. \/ UNCHANGED <<read_count, block, writer, waiters>>
        \/ /\ \A t \in Tasks : pc[t] = "out"
           /\ read_count' = [c \in CPUs |-> 0] /\ block' = FALSE /\ writer' = NoTask
           /\ waiters' = <<>>
    BY <2>1 DEF RcuCallback, percpu_free_rwsem, percpu_init_rwsem, rcu_sync_init, vars, sem
  <2>3. TypeOK
    BY DEF PInv
  <2>4. TypeOK'
    <3>1. CASE UNCHANGED <<read_count, block, writer, waiters>>
      BY <2>1, <2>3, <3>1 DEF TypeOK
    <3>2. CASE /\ read_count' = [c \in CPUs |-> 0] /\ block' = FALSE /\ writer' = NoTask
               /\ waiters' = <<>>
      <4>1. 0 \in 0..(Width - 1) /\ <<>> \in Seq(Tasks)
        BY SMT, Sizes
      <4> QED BY <2>1, <2>3, <3>2, <4>1 DEF TypeOK
    <3> QED BY <2>2, <3>1, <3>2
  <2>5. Summing'
    BY <2>1, <1>SummingKept
  <2>6. \A t \in Tasks : Place(t)'
    BY <2>1 DEF PInv, Place
  <2>7. CASE UNCHANGED <<read_count, block, writer, waiters>>
    <3>1. \A t \in Tasks : Holds(t)'
      <4>1. \A t \in Tasks : (Locked(t)' <=> Locked(t)) /\ (Owner(t)' <=> Owner(t))
        BY <2>1, <2>7 DEF Locked, Owner
      <4> QED BY <2>1, <2>7, <4>1 DEF PInv, Holds
    <3>2. Queue' /\ OneOwner'
      BY <2>1, <2>7 DEF PInv, Queue, OneOwner, Owner
    <3> QED BY <2>4, <2>5, <2>6, <3>1, <3>2 DEF PInv
  <2>8. CASE (\A t \in Tasks : pc[t] = "out") /\ waiters' = <<>>
    <3>1. granted = {}
      BY <2>3, <2>8, NotWaiting DEF TypeOK, Waits
    <3>2. Range(waiters') = {} /\ NoDup(waiters')
      BY SMT, <2>8 DEF Range, NoDup
    <3>3. \A t \in Tasks : ~Owner(t)' /\ ~Locked(t)'
      BY <2>1, <2>8, <3>1 DEF Owner, Locked, Active, Trying
    <3>4. \A t \in Tasks : Holds(t)'
      BY <2>1, <2>8, <3>1, <3>2, <3>3 DEF Holds
    <3>5. Queue' /\ OneOwner'
      BY <2>1, <3>1, <3>2, <3>3 DEF Queue, OneOwner
    <3> QED BY <2>4, <2>5, <2>6, <3>4, <3>5 DEF PInv
  <2> QED BY <2>2, <2>7, <2>8
<1> SUFFICES ASSUME PInv, SInv, [Next]_vars PROVE PInv'
  OBVIOUS
<1>1. ASSUME NEW t \in Tasks, percpu_down_read(t) \/ percpu_down_read_trylock(t)
      PROVE  PInv'
  BY <1>1, <1>StartReadPInv DEF percpu_down_read, percpu_down_read_trylock
<1>2. ASSUME NEW t \in Tasks, percpu_down_write(t) \/ SpuriousWakeup(t)
      PROVE  PInv'
  BY <1>2, <1>SyncPInv, <1>SpuriousPInv
<1>3. ASSUME NEW t \in Tasks, Progress(t)
      PROVE  PInv'
  <2>1. CASE FastInc(t) \/ UpFast(t) \/ percpu_up_read(t) \/ UpDec(t) \/ UpProd(t)
    BY <2>1, <1>ReaderPInv
  <2>2. CASE TryInc(t) \/ TryDec(t)
    BY <2>2, <1>TryCountPInv
  <2>3. CASE TryTest(t) \/ TryProd(t) \/ WaitReader(t)
    BY <2>3, <1>TryPInv, <1>GrantPInv, <1>QueuePInv
  <2>4. CASE WqSet(t) \/ WqTest(t) \/ WqSched(t) \/ percpu_up_write(t)
    BY <2>4, <1>WaitLoopPInv, <1>HandOverPInv
  <2>5. CASE WaitWriter(t) \/ WriteTry(t)
    BY <2>5, <1>QueuePInv, <1>WriteTryPInv
  <2>6. CASE Entering(t) \/ UpExit(t)
    BY <2>6, <1>SyncPInv
  <2>7. CASE WaitPrepare(t) \/ WaitSet(t) \/ WaitSum(t) \/ WaitVerdict(t) \/ WaitSched(t)
    BY <2>7, <1>WriterPInv, <1>WaitSumPInv
  <2>8. CASE UpLock(t)
    BY <2>8, <1>WakePInv
  <2>9. CASE UpNext(t)
    <3>1. \/ waiters = <<>> \/ block \/ spc[Head(waiters)] = "out"
          \/ ~block /\ waiters # <<>> /\ spc[Head(waiters)] = "in"
      BY <2>9 DEF UpNext
    <3> QED BY <2>9, <3>1, <1>WakePInv, <1>GrantPInv
  <2> QED BY <1>3, <2>1, <2>2, <2>3, <2>4, <2>5, <2>6, <2>7, <2>8, <2>9 DEF Progress
<1> QED BY <1>1, <1>2, <1>3, <1>QuietPInv DEF Next
-----------------------------------------------------------------------------
\* A task on its way through percpu_up_write()'s wakeup, and one that gave up under
\* waiters.lock: it saw block set, and if block is clear by now the one that cleared
\* it waits for that lock.
Waker(t) == pc[t] \in {"up_lock", "up_next"} \/ (via[t] = "wake" /\ pc[t] \in Trying)
GaveUp(t) == pc[t] \in {"dec", "prod"} /\ via[t] \in {"wait", "wake"}

QInv ==
  /\ waiters # <<>> /\ ~block => \E u \in Tasks : Waker(u)
  /\ \A t \in Tasks : GaveUp(t) => block \/ \E w \in Tasks : pc[w] = "up_lock"
-----------------------------------------------------------------------------

\* Every step keeps the queue told.
LEMMA NextQInv == PInv /\ QInv /\ [Next]_vars => QInv'
\* With block set, or its owner about to wake the queue, nobody is forgotten.
<1>BlockTells.
  ASSUME block' \/ \E w \in Tasks : pc'[w] = "up_lock"
  PROVE  QInv'
  BY <1>BlockTells DEF QInv, Waker
\* A step of a task that wakes nobody, or goes on doing so.
<1>KeepTold.
  ASSUME TypeOK, QInv, NEW t \in Tasks, NEW l \in Pcs, Goto(t, l),
         \A u \in Tasks \ {t} : via'[u] = via[u],
         block => block', waiters' = <<>> \/ (waiters # <<>> /\ (Waker(t) => Waker(t)')),
         pc[t] # "up_lock", GaveUp(t)' => GaveUp(t)
  PROVE  QInv'
  <2> USE <1>KeepTold
  <2>1. pc'[t] = l /\ \A u \in Tasks \ {t} : pc'[u] = pc[u]
    BY PcStep
  <2>2. \A u \in Tasks \ {t} : (Waker(u)' <=> Waker(u)) /\ (GaveUp(u)' <=> GaveUp(u))
    BY <2>1 DEF Waker, GaveUp
  <2>3. waiters' # <<>> /\ ~block' => \E u \in Tasks : Waker(u)'
    BY <2>2 DEF QInv
  <2>4. \A u \in Tasks : GaveUp(u)' => block' \/ \E w \in Tasks : pc'[w] = "up_lock"
    BY <2>1, <2>2 DEF QInv
  <2> QED BY <2>3, <2>4 DEF QInv
\* Readers, up to the queue.
<1>ReaderTold.
  ASSUME PInv, QInv, NEW t \in Tasks,
         \/ percpu_down_read(t) \/ percpu_down_read_trylock(t) \/ FastInc(t) \/ UpFast(t)
         \/ percpu_up_read(t) \/ UpDec(t) \/ UpProd(t) \/ TryInc(t) \/ TryDec(t) \/ WaitReader(t)
  PROVE  QInv'
  <2> USE <1>ReaderTold
  <2>1. /\ TypeOK /\ via[t] \in {"down", "trylock", "wait", "wake"}
        /\ pc[t] \in {"out", "fast", "up_fast", "read", "up_dec", "up_prod", "inc", "dec", "queue"}
    BY DEF percpu_down_read, percpu_down_read_trylock, StartRead, FastInc, UpFast, percpu_up_read,
           UpDec, UpProd, TryInc, TryDec, WaitReader, At, PInv, TypeOK
  <2>2. PICK l \in {"fast", "inc", "read", "out", "up_fast", "up_dec", "up_prod", "test", "prod"} :
          /\ Goto(t, l) /\ (l = "prod" => TryDec(t)) /\ (pc[t] = "inc" => l = "test")
          /\ pc[t] = "dec" => l = "prod"
    BY DEF percpu_down_read, percpu_down_read_trylock, StartRead, FastInc, UpFast, percpu_up_read,
           UpDec, UpProd, TryInc, TryDec, WaitReader, At
  <2>3. waiters' = waiters /\ block' = block
    BY DEF percpu_down_read, percpu_down_read_trylock, StartRead, FastInc, UpFast, percpu_up_read,
           UpDec, UpProd, TryInc, TryDec, WaitReader, sem
  <2>4. /\ \A u \in Tasks \ {t} : via'[u] = via[u]
        /\ pc[t] \in {"inc", "dec"} => via' = via
    BY <2>1 DEF percpu_down_read, percpu_down_read_trylock, StartRead, FastInc, UpFast,
           percpu_up_read, UpDec, UpProd, TryInc, TryDec, WaitReader, At, local, TypeOK
  <2>5. l \in Pcs /\ pc'[t] = l
    <3>1. l \in Pcs
      BY DEF Pcs
    <3> QED BY <2>1, <2>2, <3>1, PcStep
  <2>6. Waker(t) => Waker(t)'
    BY <2>1, <2>2, <2>4, <2>5 DEF Waker, Trying
  <2>7. GaveUp(t)' => GaveUp(t)
    BY <2>1, <2>2, <2>4, <2>5 DEF GaveUp, TryDec, At
  <2>8. block => block'
    BY SMT, <2>3
  <2> QED BY <2>1, <2>2, <2>3, <2>4, <2>5, <2>6, <2>7, <2>8, <1>KeepTold
\* The wait loop, and a writer between its trylock and its wakeup.
<1>WriterTold.
  ASSUME PInv, QInv, NEW t \in Tasks,
         \/ WqSet(t) \/ WqTest(t) \/ WqSched(t) \/ WaitPrepare(t) \/ WaitSet(t) \/ WaitSched(t)
         \/ WaitVerdict(t) \/ percpu_down_write(t) \/ UpExit(t)
  PROVE  QInv'
  <2> USE <1>WriterTold
  <2>1. TypeOK /\ pc[t] \notin Trying \cup {"up_lock", "up_next"}
    BY DEF WqSet, WqTest, WqSched, WaitPrepare, WaitSet, WaitSched, WaitVerdict, percpu_down_write,
           UpExit, At, PInv, Trying
  <2>2. PICK l \in Pcs \ (Trying \cup {"up_lock", "up_next"}) : Goto(t, l)
    BY DEF WqSet, WqTest, WqSched, WaitPrepare, WaitSet, WaitSched, WaitVerdict, percpu_down_write,
           UpExit, Pcs, Trying
  <2>3. waiters' = waiters /\ block' = block /\ via' = via
    BY DEF WqSet, WqTest, WqSched, WaitPrepare, WaitSet, WaitSched, WaitVerdict, percpu_down_write,
           UpExit, sem, local
  <2>4. pc'[t] = l
    BY <2>1, <2>2, PcStep
  <2>5. ~Waker(t) /\ ~GaveUp(t)'
    BY <2>1, <2>2, <2>4 DEF Waker, GaveUp, Trying
  <2>6. block => block'
    BY SMT, <2>3
  <2> QED BY <2>1, <2>2, <2>3, <2>5, <2>6, <1>KeepTold
\* Steps that move nobody.
<1>StillTold.
  ASSUME PInv, QInv,
         \/ \E t \in Tasks : Entering(t) \/ SpuriousWakeup(t) \/ WaitSum(t)
         \/ RcuCallback \/ percpu_free_rwsem \/ percpu_init_rwsem \/ UNCHANGED vars
  PROVE  QInv'
  <2> USE <1>StillTold
  <2>1. pc' = pc /\ via' = via
    BY DEF Entering, SpuriousWakeup, WaitSum, RcuCallback, percpu_free_rwsem, percpu_init_rwsem,
           vars, local
  <2>2. CASE waiters' = waiters /\ block' = block
    BY SMT, <2>1, <2>2 DEF QInv, Waker, GaveUp
  <2>3. CASE percpu_init_rwsem
    <3>1. waiters' = <<>>
      BY <2>3 DEF percpu_init_rwsem
    <3>2. \A t \in Tasks : pc[t] = "out"
      BY <2>3 DEF percpu_init_rwsem, rcu_sync_init, PInv, Place
    <3> QED BY <2>1, <3>1, <3>2 DEF QInv, GaveUp
  <2> QED BY <2>2, <2>3
             DEF Entering, SpuriousWakeup, WaitSum, RcuCallback, percpu_free_rwsem, vars, sem
\* The trylock under waiters.lock, and the wakeup itself.
<1>TryTold.
  ASSUME PInv, QInv, NEW t \in Tasks, TryTest(t) \/ TryProd(t)
  PROVE  QInv'
  <2> USE <1>TryTold
  <2>1. /\ TypeOK /\ via[t] \in {"down", "trylock", "wait", "wake"} /\ block' = block
        /\ pc[t] \in {"test", "prod"}
    BY DEF TryTest, TryProd, At, PInv, TypeOK
  <2>2. SUFFICES ASSUME ~block PROVE QInv'
    BY SMT, <2>1, <1>BlockTells
  <2>3. PICK l \in {"read", "up_next", "queue", "out", "wq_set", "up_exit"} :
          Goto(t, l) /\ (TryTest(t) /\ via[t] = "wake" => l = "up_next")
    BY <2>2 DEF TryTest, TryProd
  <2>4. /\ l \in Pcs /\ pc'[t] = l /\ \A u \in Tasks \ {t} : pc'[u] = pc[u]
    <3>1. l \in Pcs
      BY DEF Pcs
    <3> QED BY <2>1, <2>3, <3>1, PcStep
  <2>5. \A u \in Tasks \ {t} : via'[u] = via[u]
    BY <2>1 DEF TryTest, TryProd, TypeOK
  <2>6. CASE pc[t] = "prod" /\ via[t] \in {"wait", "wake"}
    <3>1. PICK w \in Tasks : pc[w] = "up_lock"
      BY <2>2, <2>6 DEF QInv, GaveUp
    <3>2. pc'[w] = "up_lock"
      BY <2>4, <2>6, <3>1
    <3> QED BY <3>2, <1>BlockTells
  <2>7. CASE pc[t] = "test" \/ via[t] \in {"down", "trylock"}
    <3>1. waiters' = waiters \/ waiters # <<>>
      BY <2>7 DEF TryTest, TryProd, At, PInv, Holds
    <3>2. Waker(t) => Waker(t)'
      BY <2>1, <2>3, <2>4, <2>7 DEF Waker, TryTest, TryProd, At
    <3>3. ~GaveUp(t)' /\ pc[t] # "up_lock"
      BY <2>1, <2>4 DEF GaveUp
    <3> QED BY <2>1, <2>2, <2>3, <2>4, <2>5, <3>1, <3>2, <3>3, <1>KeepTold
  <2> QED BY <2>1, <2>6, <2>7
\* percpu_up_write() and a writer that takes block.
<1>WakeTold.
  ASSUME PInv, QInv, NEW t \in Tasks,
         percpu_up_write(t) \/ UpLock(t) \/ UpNext(t) \/ WaitWriter(t) \/ WriteTry(t)
  PROVE  QInv'
  <2> USE <1>WakeTold
  <2>1. TypeOK
    BY DEF PInv
  <2>2. CASE WaitWriter(t) \/ WriteTry(t)
    BY <2>2, <1>BlockTells DEF WaitWriter, WriteTry
  <2>3. CASE percpu_up_write(t)
    <3>1. pc'[t] = "up_lock"
      BY <2>1, <2>3 DEF percpu_up_write, Goto, TypeOK
    <3> QED BY <3>1, <1>BlockTells
  <2>4. CASE UpLock(t)
    <3>1. pc[t] = "up_lock" /\ Goto(t, "up_next") /\ wlock = NoTask /\ via' = via
      BY <2>4 DEF UpLock, At, local
    <3>2. pc'[t] = "up_next" /\ \A u \in Tasks \ {t} : pc'[u] = pc[u]
      BY <2>1, <3>1 DEF Goto, TypeOK
    <3>3. \A u \in Tasks : ~GaveUp(u)
      BY <3>1, PercpuRwsemConstants DEF GaveUp, PInv, Holds, Locked, Trying
    <3>4. \A u \in Tasks : ~GaveUp(u)'
      BY <3>1, <3>2, <3>3 DEF GaveUp
    <3>5. Waker(t)'
      BY <3>2 DEF Waker
    <3> QED BY <3>4, <3>5 DEF QInv
  <2>5. CASE UpNext(t)
    <3>1. CASE waiters # <<>> /\ spc[Head(waiters)] = "in"
      BY <2>5, <3>1, <1>BlockTells DEF UpNext
    <3>2. CASE waiters = <<>> \/ spc[Head(waiters)] = "out"
      <4>1. /\ pc[t] = "up_next" /\ waiters' = waiters /\ block' = block
            /\ \A u \in Tasks \ {t} : via'[u] = via[u]
        BY <2>1, <2>5, <3>2 DEF UpNext, At, TypeOK
      <4>2. PICK l \in {"up_exit", "inc"} :
              Goto(t, l) /\ (waiters # <<>> => l = "inc" /\ via' = [via EXCEPT ![t] = "wake"])
        BY <2>5, <3>2 DEF UpNext
      <4>3. l \in Pcs /\ pc'[t] = l
        <5>1. l \in Pcs
          BY DEF Pcs
        <5> QED BY <2>1, <4>2, <5>1, PcStep
      <4>4. waiters' = <<>> \/ (waiters # <<>> /\ Waker(t)')
        BY <2>1, <4>1, <4>2, <4>3 DEF Waker, Trying, TypeOK
      <4>5. ~GaveUp(t)' /\ (block => block')
        BY SMT, <4>1, <4>2, <4>3 DEF GaveUp
      <4> QED BY <2>1, <4>1, <4>2, <4>3, <4>4, <4>5, <1>KeepTold
    <3> QED BY <2>5, <3>1, <3>2 DEF UpNext
  <2> QED BY <2>2, <2>3, <2>4, <2>5
<1> SUFFICES ASSUME PInv, QInv, [Next]_vars PROVE QInv'
  OBVIOUS
<1>1. ASSUME NEW t \in Tasks,
             \/ percpu_down_read(t) \/ percpu_down_read_trylock(t) \/ percpu_down_write(t)
             \/ SpuriousWakeup(t)
      PROVE  QInv'
  BY <1>1, <1>ReaderTold, <1>WriterTold, <1>StillTold
<1>2. ASSUME NEW t \in Tasks, Progress(t)
      PROVE  QInv'
  <2>1. CASE \/ FastInc(t) \/ TryInc(t) \/ TryDec(t) \/ percpu_up_read(t) \/ UpFast(t)
             \/ UpDec(t) \/ UpProd(t) \/ WaitReader(t)
    BY <2>1, <1>ReaderTold
  <2>2. CASE TryTest(t) \/ TryProd(t)
    BY <2>2, <1>TryTold
  <2>3. CASE \/ WqSet(t) \/ WqTest(t) \/ WqSched(t) \/ WaitPrepare(t) \/ WaitSet(t)
             \/ WaitSched(t) \/ WaitVerdict(t) \/ UpExit(t)
    BY <2>3, <1>WriterTold
  <2>4. CASE Entering(t) \/ WaitSum(t)
    BY <2>4, <1>StillTold
  <2>5. CASE percpu_up_write(t) \/ UpLock(t) \/ UpNext(t) \/ WaitWriter(t) \/ WriteTry(t)
    BY <2>5, <1>WakeTold
  <2> QED BY <1>2, <2>1, <2>2, <2>3, <2>4, <2>5 DEF Progress
<1>3. CASE RcuCallback \/ percpu_free_rwsem \/ percpu_init_rwsem \/ UNCHANGED vars
  BY <1>3, <1>StillTold
<1> QED BY <1>1, <1>2, <1>3 DEF Next
-----------------------------------------------------------------------------
\* The readers and the tasks that are counted and have not looked for a writer, or
\* not taken it back, on the CPUs beyond k; and the counters of those CPUs.
Readings == {t \in Tasks : Reading(t)}
Backing(k) == {t \in Tasks : pc[t] \in {"test", "dec"} /\ cpu[t] > k}
Masked(f, k) == [c \in CPUs |-> IF c > k THEN f[c] ELSE 0]
Rest(k) == SumFunction(Masked(read_count, k))

NReading == Cardinality(Readings)
NBacking(k) == Cardinality(Backing(k))

Same(a, b) == a % Width = b % Width

\* The counters count the readers and those that back out.
Exact == Same(Rest(0), NReading + NBacking(0))

\* The tasks a sum can have met on the first k CPUs: on each CPU each task but the
\* one that adds up, at most once (before it starts there are at most all of them).
Met(k) == IF k = 0 THEN Cardinality(Tasks) ELSE (Cardinality(Tasks) - 1) * k

\* The sum so far and what is still to be added are at least the readers, but may
\* have met tasks that back out.
SumExact ==
  \E e \in Nat : /\ NReading <= e /\ e <= Met(upto)
                 /\ Same(sum + Rest(upto), e + NBacking(upto))

NoReader == \A t \in Tasks : pc[t] = "write" => Readings = {}

NInv == Exact /\ SumExact /\ NoReader
-----------------------------------------------------------------------------
\* Sets of tasks have a size.
LEMMA TaskSet ==
  ASSUME NEW S \in SUBSET Tasks
  PROVE  /\ IsFiniteSet(S) /\ Cardinality(S) \in Nat /\ Cardinality(S) <= Cardinality(Tasks)
         /\ Cardinality(S) = 0 <=> S = {}
<1>1. S \subseteq Tasks
  OBVIOUS
<1> QED BY <1>1, TasksFinite, CardSubset

\* What is equal modulo the width stays so.
LEMMA SameSum ==
  ASSUME NEW a \in Int, NEW b \in Int, NEW c \in Int, NEW d \in Int,
         Same(a, b), Same(c, d)
  PROVE  Same(a + c, b + d)
<1>1. Width \in Nat \ {0}
  BY Sizes
<1>2. (a + c) % Width = ((a % Width) + c) % Width /\ (b + c) % Width = ((b % Width) + c) % Width
  BY <1>1, ModAdd
<1>3. (c + b) % Width = ((c % Width) + b) % Width /\ (d + b) % Width = ((d % Width) + b) % Width
  BY <1>1, ModAdd
<1>4. c + b = b + c /\ d + b = b + d
  BY SMT
<1> QED BY <1>2, <1>3, <1>4 DEF Same

\* The remainder is a remainder.
LEMMA ModMod ==
  ASSUME NEW a \in Int
  PROVE  (a % Width) \in Int /\ (a % Width) % Width = a % Width
BY SMT, Sizes

\* There are finitely many CPUs.
LEMMA CpusFinite == IsFiniteSet(CPUs)
<1>1. NCpus \in Nat
  BY SMT, Sizes
<1> QED BY <1>1, UpTo DEF CPUs

\* Sums of counters are numbers.
LEMMA MaskedType ==
  ASSUME NEW f \in [CPUs -> 0..(Width - 1)], NEW k \in Int
  PROVE  /\ Masked(f, k) \in [CPUs -> Int]
         /\ SumFunction(Masked(f, k)) \in Int
<1>1. Masked(f, k) \in [CPUs -> Int]
  BY SMT, Sizes DEF Masked, CPUs
<1> QED BY <1>1, CpusFinite, SumType

\* One CPU more beyond k.
LEMMA MaskedNext ==
  ASSUME NEW f \in [CPUs -> 0..(Width - 1)], NEW k \in Int, k + 1 \in CPUs
  PROVE  SumFunction(Masked(f, k)) = f[k + 1] + SumFunction(Masked(f, k + 1))
<1>1. /\ Masked(f, k) \in [CPUs -> Int] /\ SumFunction(Masked(f, k)) \in Int
      /\ Masked(f, k + 1) \in [CPUs -> Int] /\ SumFunction(Masked(f, k + 1)) \in Int
  <2>1. k + 1 \in Int
    BY SMT
  <2> QED BY <2>1, MaskedType
<1>2. \A d \in CPUs \ {k + 1} : Masked(f, k + 1)[d] = Masked(f, k)[d]
  BY SMT, Sizes DEF Masked, CPUs
<1>3. SumFunction(Masked(f, k + 1))
        = SumFunction(Masked(f, k)) - Masked(f, k)[k + 1] + Masked(f, k + 1)[k + 1]
  <2> DEFINE e == Masked(f, k)
             h == Masked(f, k + 1)
  <2>1. e \in [CPUs -> Int] /\ h \in [CPUs -> Int] /\ \A d \in CPUs \ {k + 1} : h[d] = e[d]
    BY <1>1, <1>2
  <2> HIDE DEF e, h
  <2>2. SumFunction(h) = SumFunction(e) - e[k + 1] + h[k + 1]
    BY ONLY SMT, k + 1 \in CPUs, <2>1, CpusFinite, SumChange
  <2> QED BY <2>2 DEF e, h
<1>4. Masked(f, k)[k + 1] = f[k + 1] /\ Masked(f, k + 1)[k + 1] = 0 /\ f[k + 1] \in Int
  BY SMT, Sizes DEF Masked
<1> QED BY SMT, <1>1, <1>3, <1>4

\* All of the CPUs, and none.
LEMMA MaskedEnds ==
  ASSUME NEW f \in [CPUs -> 0..(Width - 1)]
  PROVE  Masked(f, 0) = f /\ SumFunction(Masked(f, NCpus)) = 0
<1>1. \A c \in CPUs : c > 0 /\ ~(c > NCpus)
  BY SMT, Sizes DEF CPUs
<1>2. Masked(f, 0) = f
  BY <1>1 DEF Masked
<1>3. Masked(f, NCpus) \in [CPUs -> Nat] /\ \A c \in CPUs : Masked(f, NCpus)[c] = 0
  BY SMT, <1>1 DEF Masked
<1> QED BY <1>2, <1>3, CpusFinite, SumZero

\* The numbers of the invariant are numbers, before a step and after it.
LEMMA Numbers ==
  /\ NReading \in Nat /\ NReading <= Cardinality(Tasks) /\ (NReading = 0 <=> Readings = {})
  /\ \A k : NBacking(k) \in Nat /\ NBacking(k) <= Cardinality(Tasks)
  /\ NReading' \in Nat /\ NReading' <= Cardinality(Tasks) /\ (NReading' = 0 <=> Readings' = {})
  /\ \A k : NBacking(k)' \in Nat /\ NBacking(k)' <= Cardinality(Tasks)
<1>1. /\ Readings \in SUBSET Tasks /\ Readings' \in SUBSET Tasks
      /\ \A k : Backing(k) \in SUBSET Tasks /\ Backing(k)' \in SUBSET Tasks
  BY DEF Readings, Backing
<1> QED BY <1>1, TaskSet DEF NReading, NBacking

\* A counter changes by i.
Counts(c, i) ==
  /\ read_count' \in [CPUs -> 0..(Width - 1)]
  /\ read_count'[c] = (read_count[c] + i) % Width
  /\ \A d \in CPUs \ {c} : read_count'[d] = read_count[d]

Beyond(c, k, i) == IF c > k THEN i ELSE 0

\* What a sum can have met grows by the other tasks with each CPU.
LEMMA MetGrows ==
  /\ Met(0) = Cardinality(Tasks) /\ Met(1) = Cardinality(Tasks) - 1
  /\ Met(NCpus) < Width
  /\ \A k \in Nat : Met(k) \in Int
  /\ \A k \in Nat \ {0} : Met(k + 1) = Met(k) + (Cardinality(Tasks) - 1)
<1> DEFINE T == Cardinality(Tasks) - 1
<1>1. T \in Int /\ Cardinality(Tasks) \in Int
  BY SMT, Sizes
<1>2. NCpus \in Nat \ {0} /\ T * NCpus < Width
  BY PercpuRwsemConstants
<1> HIDE DEF T
<1>3. T * 1 = T /\ \A k \in Nat : T * k \in Int /\ T * (k + 1) = T * k + T
  BY SMT, <1>1
<1>4. 1 \in Nat \ {0} /\ \A k \in Nat \ {0} : k + 1 \in Nat \ {0}
  BY SMT
<1>5. Met(0) = Cardinality(Tasks) /\ \A k \in Nat \ {0} : Met(k) = T * k
  BY DEF Met, T
<1>6. Met(1) = T /\ Met(NCpus) < Width
  BY <1>2, <1>3, <1>4, <1>5
<1>7. \A k \in Nat : Met(k) \in Int
  BY <1>1, <1>3, <1>5
<1>8. \A k \in Nat \ {0} : Met(k + 1) = Met(k) + T
  BY <1>3, <1>4, <1>5
<1> QED BY <1>5, <1>6, <1>7, <1>8 DEF T

\* Where a task stays, or comes to, that is counted as it was.
Kept(a, l) ==
  /\ a \in {"read", "up_fast", "up_dec"} <=> l \in {"read", "up_fast", "up_dec"}
  /\ a \in {"test", "dec"} <=> l \in {"test", "dec"}
  /\ l # "write"

\* No task but t is counted otherwise than before.
Untouched(t) ==
  \A u \in Tasks \ {t} : /\ Reading(u)' <=> Reading(u)
                         /\ pc'[u] = pc[u] /\ cpu'[u] = cpu[u]

\* No task both reads and backs out, and one that does neither is not counted.
LEMMA ReadOrBack ==
  ASSUME PInv, NEW S \in SUBSET Tasks, Readings \subseteq S, Backing(0) \subseteq S
  PROVE  NReading + NBacking(0) <= Cardinality(S)
<1> DEFINE A == Readings
           B == Backing(0)
<1>1. A \cap B = {} /\ A \in SUBSET S /\ B \in SUBSET S
  <2>1. \A u \in Backing(0) : ~Reading(u)
    BY NotWaiting DEF Backing, Reading, Waits
  <2> QED BY <2>1 DEF Readings
<1>2. IsFiniteSet(S)
  BY TaskSet
<1> HIDE DEF A, B
<1>3. A \cup B \in SUBSET S
  BY <1>1
<1>4. Cardinality(A \cup B) <= Cardinality(S)
  BY <1>2, <1>3, CardSubset
<1>5. Cardinality(A \cup B) = Cardinality(A) + Cardinality(B)
  BY ONLY SMTT(20), <1>1, <1>2, CardUnion
<1> QED BY <1>4, <1>5 DEF A, B, NReading, NBacking

\* Nobody reads at first, nor when the semaphore is new.
LEMMA NewNInv ==
  ASSUME TypeOK, \A c \in CPUs : read_count[c] = 0, \A t \in Tasks : pc[t] = "out", granted = {},
         sum = 0, upto = 0
  PROVE  NInv
<1>1. Readings = {} /\ Backing(0) = {}
  BY DEF Readings, Backing, Reading
<1>2. NReading = 0 /\ NBacking(0) = 0
  BY <1>1, CardEmpty DEF NReading, NBacking
<1>3. Rest(0) = 0
  <2>1. read_count \in [CPUs -> Nat]
    BY SMT, Sizes DEF TypeOK
  <2>2. SumFunction(read_count) = 0
    BY <2>1, CpusFinite, SumZero
  <2> QED BY <2>2, MaskedEnds DEF Rest, TypeOK
<1>4. 0 + 0 = 0 /\ 0 \in Nat /\ 0 <= 0 /\ 0 <= Met(0)
  BY SMT, Sizes, MetGrows
<1>5. Exact /\ SumExact
  BY <1>2, <1>3, <1>4 DEF Exact, SumExact, Same
<1> QED BY <1>5 DEF NInv, NoReader

\* Every step keeps the counts.
LEMMA NextNInv == PInv /\ TypeOK' /\ SInv /\ NInv /\ [Next]_vars => NInv'
\* The steps between the counting, one call at a time: readers ...
\* One task more.
<1>TaskMore.
  ASSUME NEW S \in SUBSET Tasks, NEW t \in Tasks \ S, NEW Z, Z = S \cup {t}
  PROVE  Cardinality(Z) = Cardinality(S) + 1
  BY <1>TaskMore, TaskSet, CardMore
\* One task less.
<1>TaskLess.
  ASSUME NEW S \in SUBSET Tasks, NEW t \in S, NEW Z, Z = S \ {t}
  PROVE  Cardinality(Z) = Cardinality(S) - 1
  BY <1>TaskLess, TaskSet, CardLess
\* What is added to one part of a sum is added to the sum.
<1>SameAdd.
  ASSUME NEW u \in Int, NEW r \in Int, NEW s \in Int, NEW d \in Int, NEW e \in Int,
         Same(s, r + d), Same(u + r, e)
  PROVE  Same(u + s, e + d)
  <2> USE <1>SameAdd
  <2>1. r + d \in Int /\ u + r \in Int /\ u + (r + d) = (u + r) + d
    BY SMT
  <2>2. Same(u, u) /\ Same(d, d)
    BY DEF Same
  <2>3. Same(u + s, u + (r + d))
    BY <2>1, <2>2, SameSum
  <2>4. Same((u + r) + d, e + d)
    BY <2>1, <2>2, SameSum
  <2> QED BY <2>1, <2>3, <2>4 DEF Same
\* A counter changes; so does the sum of those beyond k if it is one of them.
<1>MaskedStep.
  ASSUME NEW f \in [CPUs -> 0..(Width - 1)], NEW g \in [CPUs -> 0..(Width - 1)],
         NEW c \in CPUs, NEW i \in Int, NEW k \in Int,
         g[c] = (f[c] + i) % Width, \A d \in CPUs \ {c} : g[d] = f[d]
  PROVE  SumFunction(Masked(g, k)) % Width
           = (SumFunction(Masked(f, k)) + IF c > k THEN i ELSE 0) % Width
  <2> USE <1>MaskedStep
  <2> DEFINE a == SumFunction(Masked(f, k))
             b == SumFunction(Masked(g, k))
  <2>1. a \in Int /\ b \in Int /\ Masked(f, k) \in [CPUs -> Int] /\ Masked(g, k) \in [CPUs -> Int]
    BY MaskedType
  <2>2. \A d \in CPUs \ {c} : Masked(g, k)[d] = Masked(f, k)[d]
    BY DEF Masked
  <2>3. b = a - Masked(f, k)[c] + Masked(g, k)[c]
    <3> DEFINE e == Masked(f, k)
               h == Masked(g, k)
    <3>1. e \in [CPUs -> Int] /\ h \in [CPUs -> Int] /\ \A d \in CPUs \ {c} : h[d] = e[d]
      BY <2>1, <2>2
    <3> HIDE DEF e, h
    <3>2. SumFunction(h) = SumFunction(e) - e[c] + h[c]
      BY ONLY SMT, <3>1, CpusFinite, SumChange
    <3> QED BY <3>2 DEF e, h
  <2>4. f[c] \in Int /\ g[c] \in Int /\ f[c] + i \in Int /\ a - f[c] \in Int
    BY SMT, <2>1, Sizes
  <2> HIDE DEF a, b
  <2>5. CASE c > k
    <3>1. b = g[c] + (a - f[c])
      BY SMT, <2>1, <2>3, <2>4, <2>5 DEF Masked
    <3>2. (((f[c] + i) % Width) + (a - f[c])) % Width = ((f[c] + i) + (a - f[c])) % Width
      BY <2>4, Sizes, ModAdd
    <3>3. (f[c] + i) + (a - f[c]) = a + i
      BY SMT, <2>1, <2>4
    <3>4. b % Width = (a + i) % Width
      BY <3>1, <3>2, <3>3
    <3> QED BY <2>5, <3>4 DEF a, b
  <2>6. CASE ~(c > k)
    <3>1. b = a
      BY SMT, <2>1, <2>3, <2>6 DEF Masked
    <3>2. b % Width = (a + 0) % Width
      BY SMT, <2>1, <3>1
    <3> QED BY <2>6, <3>2 DEF a, b
  <2> QED BY <2>5, <2>6
\* It follows the counter that changes, if that is still to be added.
<1>RestStep.
  ASSUME TypeOK, NEW c \in CPUs, NEW i \in Int, Counts(c, i), NEW k \in Int
  PROVE  /\ Rest(k) \in Int /\ SumFunction(Masked(read_count', k)) \in Int
         /\ Beyond(c, k, i) \in Int
         /\ Same(SumFunction(Masked(read_count', k)), Rest(k) + Beyond(c, k, i))
  <2> USE <1>RestStep
  <2>1. read_count \in [CPUs -> 0..(Width - 1)] /\ read_count' \in [CPUs -> 0..(Width - 1)]
    BY DEF TypeOK, Counts
  <2>2. Rest(k) \in Int /\ SumFunction(Masked(read_count', k)) \in Int /\ Beyond(c, k, i) \in Int
    <3>1. Beyond(c, k, i) \in Int
      BY SMT DEF Beyond
    <3> QED BY <2>1, <3>1, MaskedType DEF Rest
  <2> DEFINE g == read_count'
  <2>3. /\ g \in [CPUs -> 0..(Width - 1)] /\ g[c] = (read_count[c] + i) % Width
        /\ \A d \in CPUs \ {c} : g[d] = read_count[d]
    BY DEF Counts
  <2> HIDE DEF g
  <2>4. SumFunction(Masked(g, k)) % Width
          = (SumFunction(Masked(read_count, k)) + IF c > k THEN i ELSE 0) % Width
    BY SMT, <2>1, <2>3, <1>MaskedStep
  <2> QED BY <2>2, <2>4 DEF g, Rest, Beyond, Same
\* The counters follow the tasks they count.
<1>ExactStep.
  ASSUME TypeOK, Exact, NEW c \in CPUs, NEW i \in Int, Counts(c, i),
         NReading' + NBacking(0)' = NReading + NBacking(0) + i
  PROVE  Exact'
  <2> USE <1>ExactStep
  <2>1. c > 0 /\ 0 \in Int
    BY SMT, Sizes DEF CPUs
  <2>2. Beyond(c, 0, i) = i
    BY <2>1 DEF Beyond
  <2>3. NReading + NBacking(0) \in Int
    BY SMT, Numbers
  <2>4. Rest(0) \in Int /\ Same(SumFunction(Masked(read_count', 0)), Rest(0) + Beyond(c, 0, i))
    BY <2>1, <1>RestStep
  <2>5. Same(Rest(0) + i, (NReading + NBacking(0)) + i)
    <3>1. Same(i, i)
      BY DEF Same
    <3> QED BY <2>3, <2>4, <3>1, SameSum DEF Exact
  <2> QED BY <2>2, <2>4, <2>5 DEF Exact, Rest, Same
\* Before it starts a sum is exact.
<1>SumFrom.
  ASSUME TypeOK', Exact', sum' = 0, upto' = 0
  PROVE  SumExact'
  <2> USE <1>SumFrom
  <2> DEFINE r == SumFunction(Masked(read_count', 0))
             n == NReading'
             b == NBacking(0)'
  <2>1. r \in Int
    <3>1. 0 \in Int
      BY SMT
    <3> QED BY <3>1, MaskedType DEF TypeOK
  <2>2. n \in Nat /\ b \in Nat /\ n <= Cardinality(Tasks) /\ Cardinality(Tasks) \in Nat
    BY Numbers, Sizes
  <2>3. Same(r, n + b)
    BY DEF Exact, Rest
  <2> HIDE DEF r, n, b
  <2>4. 0 + r = r /\ n <= n
    BY SMT, <2>1, <2>2
  <2>5. n <= Met(0)
    BY <2>2, MetGrows
  <2>6. \E e \in Nat : n <= e /\ e <= Met(0) /\ Same(0 + r, e + b)
    BY <2>2, <2>3, <2>4, <2>5
  <2> QED BY <2>6 DEF SumExact, r, n, b, Rest, Met
\* A sum in progress: tasks come and go that back out ...
<1>SumBacks.
  ASSUME TypeOK, SumExact, NEW c \in CPUs, NEW i \in Int, Counts(c, i),
         sum' = sum, upto' = upto, NReading' = NReading,
         NBacking(upto)' = NBacking(upto) + Beyond(c, upto, i)
  PROVE  SumExact'
  <2> USE <1>SumBacks
  <2>1. PICK e \in Nat : /\ NReading <= e /\ e <= Met(upto)
                         /\ Same(sum + Rest(upto), e + NBacking(upto))
    BY DEF SumExact
  <2>2. upto \in Int /\ sum \in Int
    BY SMT, Sizes DEF TypeOK
  <2> DEFINE r == Rest(upto)
             s == SumFunction(Masked(read_count', upto))
             d == Beyond(c, upto, i)
             b == NBacking(upto)
  <2>3. r \in Int /\ s \in Int /\ d \in Int /\ b \in Int /\ Same(s, r + d)
    BY SMT, <2>2, <1>RestStep, Numbers
  <2>4. NBacking(upto)' = b + d /\ Same(sum + r, e + b)
    BY <2>1
  <2> HIDE DEF r, s, d, b
  <2>5. e + b \in Int /\ (e + b) + d = e + (b + d)
    BY SMT, <2>3
  <2>6. Same(sum + s, (e + b) + d)
    BY ONLY Zenon, <2>2, <2>3, <2>4, <2>5, <1>SameAdd
  <2>7. Same(sum' + Rest(upto)', e + NBacking(upto)')
    BY <2>4, <2>5, <2>6 DEF s, Rest
  <2> QED BY <2>1, <2>7 DEF SumExact, Met
\* ... and readers leave.
<1>SumLeaves.
  ASSUME TypeOK, SumExact, NEW c \in CPUs, Counts(c, -1),
         sum' = sum, upto' = upto, NReading' = NReading - 1, NBacking(upto)' = NBacking(upto)
  PROVE  SumExact'
  <2> USE <1>SumLeaves
  <2>1. PICK e \in Nat : /\ NReading <= e /\ e <= Met(upto)
                         /\ Same(sum + Rest(upto), e + NBacking(upto))
    BY DEF SumExact
  <2>2. upto \in Int /\ sum \in Int /\ -1 \in Int
    BY SMT, Sizes DEF TypeOK
  <2> DEFINE r == Rest(upto)
             s == SumFunction(Masked(read_count', upto))
             d == Beyond(c, upto, -1)
             b == NBacking(upto)
             n == NReading
             m == Met(upto)
  <2>3. r \in Int /\ s \in Int /\ d \in Int /\ Same(s, r + d)
    BY <2>2, <1>RestStep
  <2>4. n \in Nat /\ NReading' = n - 1 /\ n - 1 \in Nat /\ b \in Nat /\ m \in Int /\ d \in {0, -1}
    <3>1. upto \in Nat
      BY SMT, Sizes DEF TypeOK
    <3>2. m \in Int
      BY <3>1, MetGrows
    <3>3. n \in Nat /\ b \in Nat /\ NReading' \in Nat
      BY Numbers
    <3>4. d \in {0, -1}
      BY DEF Beyond
    <3> QED BY <3>2, <3>3, <3>4
  <2>5. Same(sum + r, e + b) /\ n <= e /\ e <= m
    BY <2>1
  <2> HIDE DEF r, s, d, b, n, m
  <2>6. e + b \in Int /\ (e + b) + d = (e + d) + b
    BY SMT, <2>3, <2>4
  <2>7. Same(sum + s, (e + b) + d)
    BY ONLY Zenon, <2>2, <2>3, <2>5, <2>6, <1>SameAdd
  <2>8. e + d \in Nat /\ n - 1 <= e + d /\ e + d <= m
    BY SMT, <2>4, <2>5
  <2>9. Same(sum' + Rest(upto)', (e + d) + NBacking(upto)')
    BY <2>6, <2>7 DEF s, Rest, b
  <2>10. NReading' <= e + d /\ e + d <= Met(upto)'
    BY <2>4, <2>8 DEF m, Met
  <2> QED BY <2>8, <2>9, <2>10 DEF SumExact
\* Steps that count nobody and finish no sum.
<1>SameCounts.
  ASSUME NInv, UNCHANGED <<read_count, sum, upto>>,
         \A u \in Tasks : /\ Reading(u)' <=> Reading(u)
                          /\ pc'[u] \in {"test", "dec"} <=> pc[u] \in {"test", "dec"}
                          /\ pc[u] \in {"test", "dec"} => cpu'[u] = cpu[u]
                          /\ pc'[u] = "write" => pc[u] = "write"
  PROVE  NInv'
  <2> USE <1>SameCounts
  <2>1. Readings' = Readings /\ \A k : Backing(k)' = Backing(k)
    BY DEF Readings, Backing
  <2>2. NReading' = NReading /\ \A k : NBacking(k)' = NBacking(k)
    BY <2>1 DEF NReading, NBacking
  <2>3. \A k : Rest(k)' = Rest(k)
    BY DEF Rest
  <2>4. Exact' /\ SumExact'
    BY <2>2, <2>3 DEF NInv, Exact, SumExact, Met
  <2>5. NoReader'
    BY <2>1 DEF NInv, NoReader
  <2> QED BY <2>4, <2>5 DEF NInv
\* A task that moves on without a change of what it counts as leaves the counts alone.
<1>MoveCounts.
  ASSUME TypeOK, NInv, NEW t \in Tasks, NEW l \in Pcs, Goto(t, l), Kept(pc[t], l),
         UNCHANGED <<granted, read_count, sum, upto, cpu>>,
         \A u \in granted : spc'[u] = spc[u]
  PROVE  NInv'
  <2> USE <1>MoveCounts
  <2>1. pc'[t] = l /\ \A u \in Tasks \ {t} : pc'[u] = pc[u]
    BY PcStep
  <2>2. granted' = granted /\ cpu' = cpu
    OBVIOUS
  <2>3. \A u \in Tasks : /\ Reading(u)' <=> Reading(u)
                         /\ pc'[u] \in {"test", "dec"} <=> pc[u] \in {"test", "dec"}
                         /\ pc[u] \in {"test", "dec"} => cpu'[u] = cpu[u]
                         /\ pc'[u] = "write" => pc[u] = "write"
    <3> SUFFICES ASSUME NEW u \in Tasks
                 PROVE  /\ Reading(u)' <=> Reading(u)
                        /\ pc'[u] \in {"test", "dec"} <=> pc[u] \in {"test", "dec"}
                        /\ pc[u] \in {"test", "dec"} => cpu'[u] = cpu[u]
                        /\ pc'[u] = "write" => pc[u] = "write"
      OBVIOUS
    <3>1. CASE u = t
      BY <2>1, <2>2, <3>1 DEF Kept, Reading
    <3>2. CASE u # t
      BY <2>1, <2>2, <3>2 DEF Reading
    <3> QED BY <3>1, <3>2
  <2> QED BY <2>3, <1>SameCounts
\* With block clear no sum is under way and nobody writes; nor while a reader is in
\* the fast path.
<1>NoSum.
  ASSUME PInv, SInv, ~block \/ \E t \in Tasks : t \in fast
  PROVE  upto = 0 /\ sum = 0 /\ \A u \in Tasks : pc[u] # "write"
  <2> USE <1>NoSum
  <2>1. \A u \in Tasks : pc[u] \in Active => block /\ spc[u] = "in"
    BY DEF PInv, Holds, Owner, Place
  <2>2. \A u \in Tasks : spc[u] = "in" => fast = {}
    BY DEF SInv, Guarded
  <2>3. \A u \in Tasks : pc[u] \notin Active
    BY <2>1, <2>2
  <2> QED BY <2>3 DEF PInv, Summing, Active
\* A step of t counts nobody else otherwise than before.
<1>OthersUntouched.
  ASSUME TypeOK, NEW t \in Tasks, NEW l \in Pcs, Goto(t, l), UNCHANGED <<granted, spc>>,
         \/ cpu' = cpu
         \/ \E c \in CPUs : cpu' = [cpu EXCEPT ![t] = c]
  PROVE  Untouched(t) /\ pc'[t] = l
  <2> USE <1>OthersUntouched
  <2>1. pc'[t] = l /\ \A u \in Tasks \ {t} : pc'[u] = pc[u]
    BY PcStep
  <2>2. \A u \in Tasks \ {t} : cpu'[u] = cpu[u]
    BY DEF TypeOK
  <2> QED BY <2>1, <2>2 DEF Untouched, Reading
\* A counted task does not change a number for the others ...
<1>SameBacking.
  ASSUME NEW t \in Tasks, Untouched(t), pc[t] \notin {"test", "dec"}, pc'[t] \notin {"test", "dec"}
  PROVE  \A k : NBacking(k)' = NBacking(k)
  <2> USE <1>SameBacking
  <2>1. \A k : Backing(k)' = Backing(k)
    BY DEF Backing, Untouched
  <2> QED BY <2>1 DEF NBacking
\* ... nor the number of readers if it stays one, or stays none ...
<1>SameReading.
  ASSUME NEW t \in Tasks, Untouched(t), Reading(t)' <=> Reading(t)
  PROVE  Readings' = Readings /\ NReading' = NReading
  <2> USE <1>SameReading
  <2>1. Readings' = Readings
    BY DEF Readings, Untouched
  <2> QED BY <2>1 DEF NReading
\* ... and is one more of the readers, or one less.
<1>MoreReading.
  ASSUME NEW t \in Tasks, Untouched(t), Reading(t)', ~Reading(t)
  PROVE  NReading' = NReading + 1
  <2> USE <1>MoreReading
  <2>1. Readings' = Readings \cup {t} /\ t \in Tasks \ Readings /\ Readings \in SUBSET Tasks
    BY DEF Readings, Untouched
  <2> QED BY <2>1, <1>TaskMore DEF NReading
\* One reader less.
<1>LessReading.
  ASSUME NEW t \in Tasks, Untouched(t), ~Reading(t)', Reading(t)
  PROVE  Readings' \subseteq Readings /\ NReading' = NReading - 1
  <2> USE <1>LessReading
  <2>1. Readings' = Readings \ {t} /\ t \in Readings /\ Readings \in SUBSET Tasks
    BY DEF Readings, Untouched
  <2> QED BY <2>1, <1>TaskLess DEF NReading
\* The same for those that back out.
<1>MoreBacking.
  ASSUME TypeOK, TypeOK', NEW t \in Tasks, Untouched(t),
         pc[t] \notin {"test", "dec"}, pc'[t] \in {"test", "dec"}, NEW k \in Int
  PROVE  NBacking(k)' = NBacking(k) + Beyond(cpu'[t], k, 1)
  <2> USE <1>MoreBacking
  <2>1. CASE cpu'[t] > k
    <3>1. /\ Backing(k)' = Backing(k) \cup {t} /\ t \in Tasks \ Backing(k)
           /\ Backing(k) \in SUBSET Tasks
      BY <2>1 DEF Backing, Untouched
    <3> QED BY <2>1, <3>1, <1>TaskMore DEF NBacking, Beyond
  <2>2. CASE ~(cpu'[t] > k)
    <3>1. Backing(k)' = Backing(k)
      BY <2>2 DEF Backing, Untouched
    <3>2. NBacking(k) \in Nat /\ NBacking(k)' = NBacking(k)
      BY <3>1, Numbers DEF NBacking
    <3>3. NBacking(k)' = NBacking(k) + 0
      BY SMT, <3>2
    <3> QED BY <2>2, <3>3 DEF Beyond
  <2> QED BY <2>1, <2>2
\* One less that backs out.
<1>LessBacking.
  ASSUME TypeOK, TypeOK', NEW t \in Tasks, Untouched(t),
         pc[t] \in {"test", "dec"}, pc'[t] \notin {"test", "dec"}, NEW k \in Int
  PROVE  NBacking(k)' = NBacking(k) + Beyond(cpu[t], k, -1)
  <2> USE <1>LessBacking
  <2>1. CASE cpu[t] > k
    <3>1. Backing(k)' = Backing(k) \ {t} /\ t \in Backing(k) /\ Backing(k) \in SUBSET Tasks
      BY <2>1 DEF Backing, Untouched
    <3>2. NBacking(k) \in Nat /\ NBacking(k)' = NBacking(k) - 1
      BY <3>1, <1>TaskLess, Numbers DEF NBacking
    <3>3. NBacking(k)' = NBacking(k) + (-1)
      BY SMT, <3>2
    <3> QED BY <2>1, <3>3 DEF Beyond
  <2>2. CASE ~(cpu[t] > k)
    <3>1. Backing(k)' = Backing(k)
      BY <2>2 DEF Backing, Untouched
    <3>2. NBacking(k) \in Nat /\ NBacking(k)' = NBacking(k)
      BY <3>1, Numbers DEF NBacking
    <3>3. NBacking(k)' = NBacking(k) + 0
      BY SMT, <3>2
    <3> QED BY <2>2, <3>3 DEF Beyond
  <2> QED BY <2>1, <2>2
\* __this_cpu_inc() changes a counter by one ...
<1>IncCounts.
  ASSUME TypeOK, NEW c \in CPUs, Inc(c)
  PROVE  Counts(c, 1)
  BY <1>IncCounts, IncStep DEF Counts
\* ... and __this_cpu_dec() by minus one.
<1>DecCounts.
  ASSUME TypeOK, NEW c \in CPUs, Dec(c)
  PROVE  Counts(c, -1)
  <2> USE <1>DecCounts
  <2>1. read_count[c] - 1 = read_count[c] + (-1)
    BY SMT DEF TypeOK
  <2> QED BY <2>1, DecStep DEF Counts
\* The task that adds up is not counted: it neither reads nor backs out.
<1>AdderCountsNot.
  ASSUME PInv, NEW t \in Tasks, pc[t] = "active_sum"
  PROVE  /\ NReading + NBacking(0) <= Cardinality(Tasks) - 1
         /\ \A k : NBacking(k) <= Cardinality(Tasks) - 1
  <2> USE <1>AdderCountsNot
  <2> DEFINE S == Tasks \ {t}
  <2>1. S \in SUBSET Tasks /\ IsFiniteSet(S) /\ Cardinality(S) = Cardinality(Tasks) - 1
    BY TasksFinite, TaskSet, CardLess
  <2>2. Readings \subseteq S
    <3>1. ~Reading(t)
      BY NotWaiting DEF Reading, Waits
    <3> QED BY <3>1 DEF Readings
  <2>3. \A k : Backing(k) \subseteq S
    BY DEF Backing
  <2>4. NReading + NBacking(0) <= Cardinality(S)
    BY <2>1, <2>2, <2>3, ReadOrBack
  <2>5. \A k : NBacking(k) <= Cardinality(S)
    BY <2>1, <2>3, CardSubset DEF NBacking
  <2> QED BY <2>1, <2>4, <2>5
\* The sum of all CPUs is zero only if nobody reads.
<1>NobodyReads.
  ASSUME TypeOK, NInv, upto = NCpus, sum = 0
  PROVE  Readings = {}
  <2> USE <1>NobodyReads
  <2>1. PICK e \in Nat : /\ NReading <= e /\ e <= Met(upto)
                         /\ Same(sum + Rest(upto), e + NBacking(upto))
    BY DEF NInv, SumExact
  <2>2. Rest(upto) = 0
    BY MaskedEnds DEF Rest, TypeOK
  <2>3. NBacking(upto) = 0
    <3>1. \A v \in Tasks : ~(cpu[v] > upto)
      BY SMT, Sizes DEF TypeOK, CPUs
    <3>2. Backing(upto) = {}
      BY <3>1 DEF Backing
    <3> QED BY <3>2, CardEmpty DEF NBacking
  <2> DEFINE T == Met(NCpus)
  <2>4. T \in Int /\ T < Width /\ e <= T /\ Width \in Nat /\ NReading \in Nat /\ NReading <= e
    <3>1. NCpus \in Nat /\ Width \in Nat
      BY Sizes
    <3>2. T \in Int /\ T < Width
      BY <3>1, MetGrows
    <3>3. NReading \in Nat
      BY Numbers
    <3> QED BY <2>1, <3>1, <3>2, <3>3
  <2>5. (0 + 0) % Width = (e + 0) % Width
    BY <2>1, <2>2, <2>3 DEF Same
  <2> HIDE DEF T
  <2>6. NReading = 0
    BY SMT, <2>4, <2>5
  <2> QED BY <2>6, Numbers
<1>ReaderKeeps.
  ASSUME PInv, NInv, NEW t \in Tasks,
         \/ percpu_down_read(t) \/ percpu_down_read_trylock(t) \/ percpu_up_read(t) \/ UpProd(t)
         \/ TryProd(t) \/ WaitReader(t)
         \/ TryTest(t) /\ block
  PROVE  NInv'
  <2> USE <1>ReaderKeeps
  <2>1. PICK l \in Pcs : Goto(t, l) /\ Kept(pc[t], l)
    BY DEF percpu_down_read, percpu_down_read_trylock, StartRead, percpu_up_read, UpProd, TryProd,
           WaitReader, TryTest, At, Pcs, Kept
  <2>2. UNCHANGED <<granted, read_count, sum, upto, spc>>
    BY DEF percpu_down_read, percpu_down_read_trylock, StartRead, percpu_up_read, UpProd, TryProd,
           WaitReader, TryTest, rcu_sync_is_idle, SyncVars, sem, local
  <2>3. cpu' = cpu
    BY DEF percpu_down_read, percpu_down_read_trylock, StartRead, percpu_up_read, UpProd, TryProd,
           WaitReader, TryTest, local, PInv, TypeOK
  <2>4. \A u \in granted : spc'[u] = spc[u]
    BY <2>2
  <2> QED BY <2>1, <2>2, <2>3, <2>4, <1>MoveCounts DEF PInv
\* ... the wait loop and a writer's own steps ...
<1>WriterKeeps.
  ASSUME PInv, NInv, NEW t \in Tasks,
         \/ WaitWriter(t) \/ WqSet(t) \/ WqSched(t)
         \/ WqTest(t) /\ t \notin granted
         \/ WriteTry(t) \/ WaitPrepare(t) \/ WaitSet(t) \/ WaitSched(t)
         \/ percpu_up_write(t) \/ UpLock(t)
         \/ UpNext(t) /\ (waiters = <<>> \/ block \/ spc[Head(waiters)] = "out")
  PROVE  NInv'
  <2> USE <1>WriterKeeps
  <2>1. PICK l \in Pcs : Goto(t, l) /\ Kept(pc[t], l)
    BY DEF WaitWriter, WqSet, WqTest, WqSched, WriteTry, WaitPrepare, WaitSet, WaitSched,
           percpu_up_write, UpLock, UpNext, At, Pcs, Kept
  <2>2. UNCHANGED <<granted, read_count, sum, upto, cpu, spc>>
    BY DEF WaitWriter, WqSet, WqTest, WqSched, WriteTry, WaitPrepare, WaitSet, WaitSched,
           percpu_up_write, UpLock, UpNext, SyncVars, sem, local
  <2>3. \A u \in granted : spc'[u] = spc[u]
    BY <2>2
  <2> QED BY <2>1, <2>2, <2>3, <1>MoveCounts DEF PInv
\* ... rcu_sync, and steps of nobody's call.
<1>SyncKeeps.
  ASSUME PInv, SInv, NInv, NEW t \in Tasks,
         percpu_down_write(t) \/ Entering(t) \/ UpExit(t) \/ SpuriousWakeup(t)
  PROVE  NInv'
  <2> USE <1>SyncKeeps
  <2>1. UNCHANGED <<granted, read_count, sum, upto, cpu>>
    BY DEF percpu_down_write, Entering, UpExit, SpuriousWakeup, sem, local
  <2>2. \A u \in granted : spc'[u] = spc[u]
    <3>1. CASE SpuriousWakeup(t)
      BY <3>1 DEF SpuriousWakeup, SyncVars
    <3>2. CASE percpu_down_write(t) \/ Entering(t) \/ UpExit(t)
      <4>1. t \notin granted
        BY <3>2, NotWaiting DEF percpu_down_write, Entering, UpExit, At, Waits
      <4>2. PICK l \in Spcs : SpcGoto(t, l)
        BY <3>2 DEF percpu_down_write, Entering, UpExit, rcu_sync_enter, rcu_sync_exit, EnterSync,
           EnterTest, EnterPrepare, EnterRetest, EnterSchedule, Spcs
      <4>3. \A u \in Tasks \ {t} : spc'[u] = spc[u]
        BY <4>2, SpcStep DEF SInv
      <4> QED BY <4>1, <4>3 DEF PInv, TypeOK
    <3> QED BY <3>1, <3>2
  <2>3. CASE Entering(t) \/ SpuriousWakeup(t)
    <3>1. pc' = pc
      BY <2>3 DEF Entering, SpuriousWakeup
    <3>2. \A u \in Tasks : Reading(u)' <=> Reading(u)
      BY <2>1, <2>2, <3>1 DEF Reading
    <3> QED BY <2>1, <3>1, <3>2, <1>SameCounts
  <2>4. CASE percpu_down_write(t) \/ UpExit(t)
    <3>1. PICK l \in Pcs : Goto(t, l) /\ Kept(pc[t], l)
      BY <2>4 DEF percpu_down_write, UpExit, At, Pcs, Kept
    <3> QED BY <2>1, <2>2, <3>1, <1>MoveCounts DEF PInv
  <2> QED BY <2>3, <2>4
\* The trylock counts its task and takes it back.
<1>TryCountNInv.
  ASSUME PInv, TypeOK', NInv, NEW t \in Tasks, TryInc(t) \/ TryDec(t)
  PROVE  NInv'
  <2> USE <1>TryCountNInv
  <2>1. /\ TypeOK /\ t \notin granted /\ pc[t] \in {"inc", "dec"} /\ ~Reading(t)
    BY NotWaiting DEF TryInc, TryDec, At, PInv, Waits, Reading
  <2>2. UNCHANGED <<granted, spc>> /\ sum' = sum /\ upto' = upto
    BY DEF TryInc, TryDec, SyncVars
  <2>3. upto \in Int /\ 0 \in Int /\ 1 \in Int /\ -1 \in Int /\ 1 \in CPUs
    BY SMT, <2>1, Sizes DEF TypeOK, CPUs
  <2>4. /\ Untouched(t) /\ ~Reading(t)' /\ pc'[t] # "write"
        /\ \E c \in CPUs, i \in Int :
             Counts(c, i) /\ \A k \in Int : NBacking(k)' = NBacking(k) + Beyond(c, k, i)
    <3>1. CASE TryInc(t)
      <4>1. PICK c \in CPUs : Inc(c) /\ cpu' = [cpu EXCEPT ![t] = c]
        BY <3>1 DEF TryInc
      <4>2. Goto(t, "test") /\ "test" \in Pcs /\ pc[t] = "inc"
        BY <3>1 DEF TryInc, Pcs, At
      <4>3. Untouched(t) /\ pc'[t] = "test" /\ cpu'[t] = c
        BY <2>1, <2>2, <4>1, <4>2, <1>OthersUntouched DEF TypeOK
      <4>4. \A k \in Int : NBacking(k)' = NBacking(k) + Beyond(c, k, 1)
        BY <2>1, <4>2, <4>3, <1>MoreBacking
      <4>5. Counts(c, 1)
        BY <2>1, <4>1, <1>IncCounts
      <4> QED BY <2>1, <2>2, <2>3, <4>3, <4>4, <4>5 DEF Reading
    <3>2. CASE TryDec(t)
      <4>1. Dec(cpu[t]) /\ cpu[t] \in CPUs /\ cpu' = [cpu EXCEPT ![t] = 1]
        BY <2>1, <3>2 DEF TryDec, TypeOK
      <4>2. Goto(t, "prod") /\ "prod" \in Pcs /\ pc[t] = "dec"
        BY <3>2 DEF TryDec, Pcs, At
      <4>3. Untouched(t) /\ pc'[t] = "prod"
        BY <2>1, <2>2, <2>3, <4>1, <4>2, <1>OthersUntouched
      <4>4. \A k \in Int : NBacking(k)' = NBacking(k) + Beyond(cpu[t], k, -1)
        BY <2>1, <4>2, <4>3, <1>LessBacking
      <4>5. Counts(cpu[t], -1)
        BY <2>1, <4>1, <1>DecCounts
      <4> QED BY <2>1, <2>2, <2>3, <4>1, <4>3, <4>4, <4>5 DEF Reading
    <3> QED BY <3>1, <3>2
  <2>5. PICK c \in CPUs, i \in Int :
          Counts(c, i) /\ \A k \in Int : NBacking(k)' = NBacking(k) + Beyond(c, k, i)
    BY <2>4
  <2>6. Readings' = Readings /\ NReading' = NReading
    BY <2>1, <2>4, <1>SameReading
  <2>7. NReading' + NBacking(0)' = NReading + NBacking(0) + i
    <3>1. Beyond(c, 0, i) = i
      BY SMT, Sizes DEF Beyond, CPUs
    <3>2. NBacking(0)' = NBacking(0) + i /\ NBacking(0) \in Nat /\ NReading \in Nat
      BY <2>3, <2>5, <3>1, Numbers
    <3> QED BY SMT, <2>6, <3>2
  <2>8. Exact'
    BY <2>1, <2>5, <2>7, <1>ExactStep DEF NInv
  <2>9. SumExact'
    BY <2>1, <2>2, <2>3, <2>5, <2>6, <1>SumBacks DEF NInv
  <2>10. NoReader'
    BY <2>4, <2>6 DEF NInv, NoReader, Untouched
  <2> QED BY <2>8, <2>9, <2>10 DEF NInv
\* A reader leaves, counted wherever it runs.
<1>LeaveNInv.
  ASSUME PInv, NInv, NEW t \in Tasks, UpFast(t) \/ UpDec(t)
  PROVE  NInv'
  <2> USE <1>LeaveNInv
  <2>1. TypeOK /\ t \notin granted /\ pc[t] \in {"up_fast", "up_dec"}
    BY NotWaiting DEF UpFast, UpDec, At, PInv, Waits
  <2>2. UNCHANGED <<granted, spc>> /\ sum' = sum /\ upto' = upto /\ cpu' = cpu
    BY DEF UpFast, UpDec, EndSection, SyncVars, local
  <2>3. PICK c \in CPUs : Dec(c)
    BY DEF UpFast, UpDec
  <2>4. Counts(c, -1) /\ -1 \in Int
    <3>1. -1 \in Int
      BY SMT
    <3> QED BY <2>1, <2>3, <3>1, <1>DecCounts
  <2>5. PICK l \in {"out", "up_prod"} : Goto(t, l)
    BY DEF UpFast, UpDec
  <2>6. Untouched(t) /\ pc'[t] = l
    <3>1. l \in Pcs
      BY DEF Pcs
    <3> QED BY <2>1, <2>2, <2>5, <3>1, <1>OthersUntouched
  <2>7. Readings' \subseteq Readings /\ NReading' = NReading - 1
    BY <2>1, <2>2, <2>6, <1>LessReading DEF Reading
  <2>8. \A k : NBacking(k)' = NBacking(k)
    BY <2>1, <2>6, <1>SameBacking
  <2>9. NReading' + NBacking(0)' = NReading + NBacking(0) + (-1)
    <3>1. NBacking(0)' = NBacking(0) /\ NBacking(0) \in Nat /\ NReading \in Nat
      BY <2>8, Numbers
    <3> QED BY SMT, <2>7, <3>1
  <2>10. Exact'
    BY <2>1, <2>4, <2>9, <1>ExactStep DEF NInv
  <2>11. SumExact'
    BY <2>1, <2>2, <2>4, <2>7, <2>8, <1>SumLeaves DEF NInv
  <2>12. NoReader'
    BY <2>6, <2>7 DEF NInv, NoReader, Untouched
  <2> QED BY <2>10, <2>11, <2>12 DEF NInv
\* A reader arrives: with block clear, or on the fast path, nobody adds up.
<1>FastNInv.
  ASSUME PInv, SInv, TypeOK', NInv, NEW t \in Tasks, FastInc(t)
  PROVE  NInv'
  <2> USE <1>FastNInv
  <2>1. TypeOK /\ t \notin granted /\ pc[t] = "fast" /\ ~Reading(t) /\ t \in fast
    BY NotWaiting DEF FastInc, At, PInv, Waits, EndSection, Reading
  <2>2. UNCHANGED <<granted, spc>> /\ sum' = sum /\ upto' = upto /\ cpu' = cpu
    BY DEF FastInc, EndSection, local
  <2>3. upto = 0 /\ sum = 0 /\ \A u \in Tasks : pc[u] # "write"
    BY <2>1, <1>NoSum
  <2>4. PICK c \in CPUs : Inc(c)
    BY DEF FastInc
  <2>5. Counts(c, 1) /\ 1 \in Int
    <3>1. 1 \in Int
      BY SMT
    <3> QED BY <2>1, <2>4, <3>1, <1>IncCounts
  <2>6. Untouched(t) /\ pc'[t] = "read"
    <3>1. Goto(t, "read") /\ "read" \in Pcs
      BY DEF FastInc, Pcs
    <3> QED BY <2>1, <2>2, <3>1, <1>OthersUntouched
  <2>7. NReading' = NReading + 1
    BY <2>1, <2>6, <1>MoreReading DEF Reading
  <2>8. \A k : NBacking(k)' = NBacking(k)
    BY <2>1, <2>6, <1>SameBacking
  <2>9. NReading' + NBacking(0)' = NReading + NBacking(0) + 1
    <3>1. NBacking(0)' = NBacking(0) /\ NBacking(0) \in Nat /\ NReading \in Nat
      BY <2>8, Numbers
    <3> QED BY SMT, <2>7, <3>1
  <2>10. Exact'
    BY <2>1, <2>5, <2>9, <1>ExactStep DEF NInv
  <2>11. SumExact'
    BY <2>2, <2>3, <2>10, <1>SumFrom
  <2>12. NoReader'
    BY <2>3, <2>6 DEF NoReader, Untouched
  <2> QED BY <2>10, <2>11, <2>12 DEF NInv
\* The trylock finds block clear: whom it was for reads from now on, and is already
\* counted.
<1>TryNInv.
  ASSUME PInv, SInv, TypeOK', NInv, NEW t \in Tasks, TryTest(t), ~block
  PROVE  NInv'
  <2> USE <1>TryNInv
  <2>1. TypeOK /\ t \notin granted /\ pc[t] = "test" /\ ~Reading(t)
    BY NotWaiting DEF TryTest, At, PInv, Waits, Reading
  <2>2. sum' = sum /\ upto' = upto /\ read_count' = read_count /\ spc' = spc
    BY DEF TryTest, SyncVars
  <2>3. upto = 0 /\ sum = 0 /\ \A u \in Tasks : pc[u] # "write"
    BY <1>NoSum
  <2>4. PICK l \in {"read", "up_next"} : Goto(t, l) /\ (l = "read" <=> via[t] # "wake")
    BY DEF TryTest
  <2>5. /\ pc'[t] = l /\ \A u \in Tasks \ {t} : pc'[u] = pc[u] /\ cpu'[u] = cpu[u]
    <3>1. l \in Pcs
      BY DEF Pcs
    <3>2. \A u \in Tasks \ {t} : cpu'[u] = cpu[u]
      BY <2>1 DEF TryTest, TypeOK
    <3> QED BY <2>1, <2>4, <3>1, <3>2, PcStep
  <2>6. NBacking(0)' = NBacking(0) - 1
    <3>1. cpu[t] > 0
      BY SMTT(15), <2>1, Sizes DEF TypeOK, CPUs
    <3>2. Backing(0)' = Backing(0) \ {t} /\ t \in Backing(0) /\ Backing(0) \in SUBSET Tasks
      BY <2>1, <2>5, <3>1 DEF Backing
    <3> QED BY <3>2, <1>TaskLess DEF NBacking
  <2>7. NReading' = NReading + 1
    <3>1. PICK x \in Tasks : Readings' = Readings \cup {x} /\ x \notin Readings
      <4>1. CASE via[t] # "wake"
        <5>1. granted' = granted
          BY <4>1 DEF TryTest
        <5>2. Readings' = Readings \cup {t} /\ t \notin Readings
          BY <2>1, <2>2, <2>4, <2>5, <4>1, <5>1 DEF Readings, Reading
        <5> QED BY <5>2
      <4>2. CASE via[t] = "wake"
        <5> DEFINE h == Head(waiters)
        <5>1. waiters # <<>> /\ spc[h] = "out"
          BY <2>1, <4>2 DEF PInv, Holds
        <5>2. h \in Tasks /\ h \in Range(waiters) /\ h \notin granted /\ pc[h] \in Waits
          BY <5>1, HeadWaits DEF PInv, Queue, Holds
        <5>3. granted' = granted \cup {h}
          BY <4>2 DEF TryTest, GrantHead
        <5> HIDE DEF h
        <5>4. Readings' = Readings \cup {h} /\ h \notin Readings
          BY <2>1, <2>2, <2>4, <2>5, <4>2, <5>1, <5>2, <5>3 DEF Readings, Reading, Waits
        <5> QED BY <5>2, <5>4
      <4> QED BY <4>1, <4>2
    <3>2. Readings \in SUBSET Tasks /\ x \in Tasks \ Readings
      BY <3>1 DEF Readings
    <3> QED BY <3>1, <3>2, <1>TaskMore DEF NReading
  <2>8. NReading' + NBacking(0)' = NReading + NBacking(0)
    <3>1. NBacking(0) \in Nat /\ NReading \in Nat
      BY Numbers
    <3> QED BY SMT, <2>6, <2>7, <3>1
  <2>9. Exact'
    <3>1. Rest(0)' = Rest(0)
      BY <2>2 DEF Rest
    <3> QED BY <2>8, <3>1 DEF NInv, Exact
  <2>10. SumExact'
    BY <2>2, <2>3, <2>9, <1>SumFrom
  <2>11. NoReader'
    BY <2>3, <2>4, <2>5 DEF NoReader
  <2> QED BY <2>9, <2>10, <2>11 DEF NInv
\* The lock is handed to a writer, or its new owner finds out.
<1>HandNInv.
  ASSUME PInv, NInv, NEW t \in Tasks,
         \/ UpNext(t) /\ ~block /\ waiters # <<>> /\ spc[Head(waiters)] = "in"
         \/ WqTest(t) /\ t \in granted
  PROVE  NInv'
  <2> USE <1>HandNInv
  <2>1. TypeOK /\ pc[t] \in {"up_next", "wq_test"}
    BY DEF UpNext, WqTest, At, PInv
  <2>2. UNCHANGED <<read_count, sum, upto, cpu>> /\ spc' = spc
    BY DEF UpNext, WqTest, SyncVars, local
  <2>3. \A u \in Tasks \ {t} : pc'[u] = pc[u]
    <3>1. PICK l \in Pcs : Goto(t, l)
      BY DEF UpNext, WqTest, Pcs
    <3> QED BY <2>1, <3>1, PcStep
  <2>4. /\ pc'[t] \notin {"test", "dec", "write"}
        /\ \A u \in Tasks : Reading(u)' <=> Reading(u)
    <3>1. CASE WqTest(t) /\ t \in granted
      <4>1. /\ granted' = granted \ {t} /\ spc[t] \in {"in", "out"}
            /\ Goto(t, IF spc[t] = "in" THEN "active" ELSE "read")
        BY <3>1 DEF WqTest, At, PInv, Place, Waits
      <4>2. pc'[t] = IF spc[t] = "in" THEN "active" ELSE "read"
        BY <2>1, <4>1 DEF Goto, TypeOK
      <4>3. pc'[t] \notin {"test", "dec", "write"}
        BY <4>2
      <4>4. Reading(t)' <=> Reading(t)
        BY <2>1, <2>2, <3>1, <4>1, <4>2 DEF Reading
      <4>5. \A u \in Tasks \ {t} : Reading(u)' <=> Reading(u)
        BY <2>2, <2>3, <4>1 DEF Reading
      <4> QED BY <4>3, <4>4, <4>5
    <3>2. CASE UpNext(t) /\ ~block /\ waiters # <<>> /\ spc[Head(waiters)] = "in"
      <4>1. granted' = granted \cup {Head(waiters)} /\ Goto(t, "up_exit") /\ pc[t] = "up_next"
        BY <3>2 DEF UpNext, GrantHead, At
      <4>2. pc'[t] = "up_exit"
        BY <2>1, <4>1 DEF Goto, TypeOK
      <4>3. \A u \in Tasks : Reading(u)' <=> Reading(u)
        BY <2>2, <2>3, <3>2, <4>1, <4>2 DEF Reading
      <4> QED BY <4>2, <4>3
    <3> QED BY <3>1, <3>2
  <2> QED BY <2>1, <2>2, <2>3, <2>4, <1>SameCounts
\* One counter more is added: a task may be on it that backs out, and be met again
\* on another CPU.
<1>SumNInv.
  ASSUME PInv, TypeOK', NInv, NEW t \in Tasks, WaitSum(t)
  PROVE  NInv'
  <2> USE <1>SumNInv
  <2>1. /\ upto < NCpus /\ sum' = (sum + read_count[upto + 1]) % Width /\ upto' = upto + 1
        /\ pc' = pc /\ cpu' = cpu /\ granted' = granted /\ spc' = spc /\ read_count' = read_count
        /\ TypeOK /\ pc[t] = "active_sum"
    BY DEF WaitSum, At, sem, SyncVars, PInv
  <2>2. PICK e \in Nat : /\ NReading <= e /\ e + NBacking(upto) <= Met(upto + 1)
                         /\ Same(sum + Rest(upto), e + NBacking(upto))
    <3>1. CASE upto = 0
      <4>1. NReading \in Nat /\ NReading <= NReading
        BY SMT, Numbers
      <4>2. sum + Rest(upto) = Rest(0) /\ 0 + 1 = 1
        <5>1. 0 \in Int /\ 0 + 1 = 1
          BY SMT
        <5>2. Rest(0) \in Int /\ sum = 0
          BY <2>1, <3>1, <5>1, MaskedType DEF PInv, Summing, Rest, TypeOK
        <5>3. 0 + Rest(0) = Rest(0)
          BY SMT, <5>2
        <5> QED BY <3>1, <5>1, <5>2, <5>3
      <4>3. NReading + NBacking(upto) <= Met(upto + 1)
        BY <2>1, <3>1, <4>2, <1>AdderCountsNot, MetGrows
      <4>4. Same(sum + Rest(upto), NReading + NBacking(upto))
        BY <3>1, <4>2 DEF NInv, Exact
      <4> QED BY <4>1, <4>3, <4>4
    <3>2. CASE upto # 0
      <4>1. PICK e \in Nat : /\ NReading <= e /\ e <= Met(upto)
                             /\ Same(sum + Rest(upto), e + NBacking(upto))
        BY DEF NInv, SumExact
      <4>2. upto \in Nat
        BY SMT, <2>1, Sizes DEF TypeOK
      <4>3. Met(upto + 1) = Met(upto) + (Cardinality(Tasks) - 1) /\ Met(upto) \in Int
        BY <3>2, <4>2, MetGrows
      <4>4. /\ NBacking(upto) \in Nat /\ Cardinality(Tasks) \in Nat
            /\ NBacking(upto) <= Cardinality(Tasks) - 1
        BY <2>1, Numbers, Sizes, <1>AdderCountsNot
      <4>5. e + NBacking(upto) <= Met(upto + 1)
        BY SMT, <4>1, <4>3, <4>4
      <4> QED BY <4>1, <4>5
    <3> QED BY <3>1, <3>2
  <2>3. Readings' = Readings /\ \A k : Backing(k)' = Backing(k)
    BY <2>1 DEF Readings, Backing, Reading
  <2>4. NReading' = NReading /\ (\A k : NBacking(k)' = NBacking(k)) /\ \A k : Rest(k)' = Rest(k)
    BY <2>1, <2>3 DEF NReading, NBacking, Rest
  <2>5. upto \in Int /\ sum \in Int /\ upto + 1 \in CPUs /\ upto + 1 \in Int /\ upto \in Nat
    BY SMT, <2>1, Sizes DEF TypeOK, CPUs
  <2> DEFINE m == Met(upto + 1)
             n == NReading
             b == NBacking(upto)
             d == NBacking(upto + 1)
             x == read_count[upto + 1]
             r == Rest(upto + 1)
  <2>6. d <= b
    <3>1. Backing(upto + 1) \subseteq Backing(upto)
      <4>1. \A v \in Tasks : cpu[v] \in Int
        BY SMTT(15), <2>1, Sizes DEF TypeOK, CPUs
      <4>2. \A i \in Int : i > upto + 1 => i > upto
        BY SMT, <2>5
      <4> QED BY <4>1, <4>2 DEF Backing
    <3>2. Backing(upto) \in SUBSET Tasks
      BY DEF Backing
    <3>3. IsFiniteSet(Backing(upto))
      BY <3>2, TaskSet
    <3> QED BY <3>1, <3>3, CardSubset DEF NBacking
  <2>7. n \in Nat /\ b \in Nat /\ d \in Nat /\ m \in Int
    <3>1. upto + 1 \in Nat
      BY SMT, <2>5
    <3> QED BY <3>1, Numbers, MetGrows
  <2>8. Rest(upto) = x + r /\ x \in Int /\ r \in Int
    <3>1. read_count \in [CPUs -> 0..(Width - 1)]
      BY <2>1 DEF TypeOK
    <3>2. x \in Int
      BY SMTT(15), <2>5, <3>1, Sizes
    <3> QED BY <2>5, <3>1, <3>2, MaskedNext, MaskedType DEF Rest
  <2>9. Same(sum + (x + r), e + b) /\ n <= e /\ e + b <= m
    BY <2>2, <2>8
  <2> HIDE DEF m, n, b, d, x, r
  <2>10. e + (b - d) \in Nat /\ n <= e + (b - d) /\ e + (b - d) <= m
    BY SMT, <2>6, <2>7, <2>9
  <2>11. Same(sum' + r, (e + (b - d)) + d)
    <3>1. sum + x \in Int /\ (sum + x) + r = sum + (x + r) /\ (e + (b - d)) + d = e + b
      BY SMT, <2>5, <2>7, <2>8
    <3>2. sum' = (sum + x) % Width
      BY <2>1 DEF x
    <3>3. sum' \in Int /\ Same(sum', sum + x) /\ Same(r, r)
      BY <3>1, <3>2, ModMod DEF Same
    <3>4. Same(sum' + r, (sum + x) + r)
      BY <2>8, <3>1, <3>3, SameSum
    <3> QED BY <2>9, <3>1, <3>4 DEF Same
  <2>12. SumExact'
    <3>1. \E f \in Nat : /\ n <= f /\ f <= m /\ Same(sum' + r, f + d)
      BY <2>10, <2>11
    <3>2. m = Met(upto)'
      BY <2>1 DEF m, Met
    <3>3. NReading' = n /\ NBacking(upto)' = d /\ Rest(upto)' = r
      BY <2>1, <2>3, <2>4 DEF n, d, r, NBacking, Backing, Rest
    <3> QED BY <3>1, <3>2, <3>3 DEF SumExact
  <2>13. Exact'
    BY <2>4 DEF NInv, Exact
  <2>14. NoReader'
    BY <2>1, <2>3 DEF NInv, NoReader
  <2> QED BY <2>12, <2>13, <2>14 DEF NInv
\* So the writer that sees it may write.
<1>VerdictNInv.
  ASSUME PInv, TypeOK', NInv, NEW t \in Tasks, WaitVerdict(t)
  PROVE  NInv'
  <2> USE <1>VerdictNInv
  <2>1. /\ upto = NCpus /\ sum' = 0 /\ upto' = 0 /\ cpu' = cpu /\ pc[t] = "active_sum"
        /\ granted' = granted /\ spc' = spc /\ read_count' = read_count /\ TypeOK
    BY DEF WaitVerdict, SyncVars, PInv, At
  <2>2. PICK l \in {"write", "active_sched"} : Goto(t, l) /\ (l = "write" => sum = 0)
    BY DEF WaitVerdict
  <2>3. pc'[t] = l /\ \A u \in Tasks \ {t} : pc'[u] = pc[u]
    <3>1. l \in Pcs
      BY DEF Pcs
    <3> QED BY <2>1, <2>2, <3>1, PcStep
  <2>4. Readings' = Readings /\ \A k : Backing(k)' = Backing(k)
    <3>1. \A u \in Tasks : Reading(u)' <=> Reading(u)
      BY <2>1, <2>2, <2>3 DEF Reading
    <3> QED BY <2>1, <2>3, <3>1 DEF Readings, Backing
  <2>5. NReading' = NReading /\ (\A k : NBacking(k)' = NBacking(k)) /\ \A k : Rest(k)' = Rest(k)
    BY <2>1, <2>4 DEF NReading, NBacking, Rest
  <2>6. Exact'
    BY <2>5 DEF NInv, Exact
  <2>7. SumExact'
    BY <2>1, <2>6, <1>SumFrom
  <2>8. NoReader'
    BY <2>1, <2>2, <2>3, <2>4, <1>NobodyReads DEF NInv, NoReader
  <2> QED BY <2>6, <2>7, <2>8 DEF NInv
\* A callback, and the life of the semaphore.
<1>QuietNInv.
  ASSUME PInv, TypeOK', NInv,
         RcuCallback \/ percpu_free_rwsem \/ percpu_init_rwsem \/ UNCHANGED vars
  PROVE  NInv'
  <2> USE <1>QuietNInv
  <2>1. UNCHANGED <<granted, pc, cpu, sum, upto>> /\ spc' = spc
    BY DEF RcuCallback, Callback, percpu_free_rwsem, rcu_sync_dtor, DtorBarrier,
           percpu_init_rwsem, rcu_sync_init, vars, SyncVars, sem, local
  <2>2. \A u \in Tasks : Reading(u)' <=> Reading(u)
    BY <2>1 DEF Reading
  <2>3. CASE read_count' = read_count
    BY <2>1, <2>2, <2>3, <1>SameCounts
  <2>4. CASE percpu_init_rwsem
    <3>1. \A t \in Tasks : pc[t] = "out" /\ t \notin granted
      <4>1. life # "live"
        BY <2>4 DEF percpu_init_rwsem, rcu_sync_init
      <4> QED BY <4>1 DEF PInv, Place, Holds, Waits
    <3>2. Readings' = {} /\ Backing(0)' = {}
      BY <2>1, <3>1 DEF Readings, Backing, Reading
    <3>3. NReading' = 0 /\ NBacking(0)' = 0
      BY <3>2, CardEmpty DEF NReading, NBacking
    <3> DEFINE f == read_count'
    <3>4. f \in [CPUs -> 0..(Width - 1)] /\ \A c \in CPUs : f[c] = 0
      BY <2>4 DEF percpu_init_rwsem, TypeOK
    <3> HIDE DEF f
    <3>5. SumFunction(Masked(f, 0)) = 0
      <4>1. f \in [CPUs -> Nat]
        BY SMT, <3>4, Sizes
      <4>2. SumFunction(f) = 0
        BY <3>4, <4>1, CpusFinite, SumZero
      <4> QED BY <3>4, <4>2, MaskedEnds
    <3>6. 0 + 0 = 0
      BY SMT
    <3>7. Exact'
      BY <3>3, <3>5, <3>6 DEF Exact, Rest, Same, f
    <3>8. sum' = 0 /\ upto' = 0
      BY <2>1, <3>1 DEF PInv, Summing
    <3>9. SumExact'
      BY <3>7, <3>8, <1>SumFrom
    <3> QED BY <2>1, <3>1, <3>7, <3>9 DEF NInv, NoReader
  <2> QED BY <2>3, <2>4 DEF RcuCallback, percpu_free_rwsem, vars, sem
<1> SUFFICES ASSUME PInv, TypeOK', SInv, NInv, [Next]_vars PROVE NInv'
  OBVIOUS
<1>1. ASSUME NEW t \in Tasks, percpu_down_read(t) \/ percpu_down_read_trylock(t)
      PROVE  NInv'
  BY <1>1, <1>ReaderKeeps
<1>2. ASSUME NEW t \in Tasks, percpu_down_write(t) \/ SpuriousWakeup(t)
      PROVE  NInv'
  BY <1>2, <1>SyncKeeps
<1>3. ASSUME NEW t \in Tasks, Progress(t)
      PROVE  NInv'
  <2>1. CASE FastInc(t) \/ UpFast(t) \/ UpDec(t)
    BY <2>1, <1>FastNInv, <1>LeaveNInv
  <2>2. CASE TryInc(t) \/ TryDec(t)
    BY <2>2, <1>TryCountNInv
  <2>3. CASE TryTest(t)
    BY <2>3, <1>TryNInv, <1>ReaderKeeps
  <2>4. CASE TryProd(t) \/ percpu_up_read(t) \/ UpProd(t) \/ WaitReader(t)
    BY <2>4, <1>ReaderKeeps
  <2>5. CASE \/ WaitWriter(t) \/ WqSet(t) \/ WqSched(t) \/ WriteTry(t) \/ WaitPrepare(t)
             \/ WaitSet(t) \/ WaitSched(t) \/ percpu_up_write(t) \/ UpLock(t)
    BY <2>5, <1>WriterKeeps
  <2>6. CASE WqTest(t)
    BY <2>6, <1>WriterKeeps, <1>HandNInv
  <2>7. CASE UpNext(t)
    <3>1. waiters = <<>> \/ spc[Head(waiters)] = "in" \/ spc[Head(waiters)] = "out"
      BY <2>7 DEF UpNext
    <3> QED BY <2>7, <3>1, <1>WriterKeeps, <1>HandNInv
  <2>8. CASE WaitSum(t) \/ WaitVerdict(t)
    BY <2>8, <1>SumNInv, <1>VerdictNInv
  <2>9. CASE Entering(t) \/ UpExit(t)
    BY <2>9, <1>SyncKeeps
  <2> QED BY <1>3, <2>1, <2>2, <2>3, <2>4, <2>5, <2>6, <2>7, <2>8, <2>9 DEF Progress
<1>4. CASE RcuCallback \/ percpu_free_rwsem \/ percpu_init_rwsem \/ UNCHANGED vars
  BY <1>4, <1>QuietNInv
<1> QED BY <1>1, <1>2, <1>3, <1>4 DEF Next

\* What the counts and block together give.
LEMMA NInvExclusion ==
  ASSUME PInv, NInv
  PROVE  Exclusion
<1>1. ASSUME NEW t \in Tasks, Writing(t)
      PROVE  /\ block
             /\ \A u \in Tasks : ~Reading(u)
             /\ \A u \in Tasks \ {t} :
                  pc[u] \notin {"write", "active", "active_set", "active_sum", "active_sched"}
                  /\ ~(u \in granted)
  <2>1. Owner(t) /\ block
    BY <1>1 DEF Writing, Owner, Active, PInv, Holds
  <2>2. \A u \in Tasks : ~Reading(u)
    BY <1>1 DEF Writing, NInv, NoReader, Readings
  <2>3. \A u \in Tasks \ {t} : ~Owner(u)
    BY <2>1 DEF PInv, OneOwner
  <2>4. \A u \in Tasks : u \in granted => spc[u] \in {"in", "out"}
    BY DEF PInv, Holds, Place, Waits
  <2> QED BY <2>1, <2>2, <2>3, <2>4 DEF Owner, Active, Reading
<1>2. SumFunction(read_count) % Width =
        Cardinality({t \in Tasks : Reading(t)})
        + Cardinality({t \in Tasks : pc[t] \in {"test", "dec"}})
  <2>1. Rest(0) = SumFunction(read_count)
    BY MaskedEnds DEF Rest, PInv, TypeOK
  <2>2. Backing(0) = {t \in Tasks : pc[t] \in {"test", "dec"}}
    <3>1. \A t \in Tasks : cpu[t] > 0
      BY SMT, Sizes DEF PInv, TypeOK, CPUs
    <3> QED BY <3>1 DEF Backing
  <2>3. NReading + NBacking(0) <= Cardinality(Tasks)
    BY ReadOrBack DEF Readings, Backing
  <2> DEFINE s == NReading + NBacking(0)
             T == Cardinality(Tasks)
  <2>4. T \in Nat /\ s \in Nat /\ s <= T /\ Width \in Nat
    BY SMT, <2>3, Sizes, Numbers
  <2>5. T < Width
    BY SMT, Sizes
  <2> HIDE DEF s, T
  <2>7. s % Width = s
    BY SMT, <2>4, <2>5
  <2>8. SumFunction(read_count) % Width = s
    BY <2>1, <2>7 DEF NInv, Exact, Same, s
  <2> QED BY <2>2, <2>8 DEF s, NReading, Readings, NBacking
<1> QED BY <1>1, <1>2 DEF Exclusion
-----------------------------------------------------------------------------
\* Where a task is that will still prod the writer.
BusyAt == {"read", "up_fast", "up_dec", "test", "dec", "prod", "up_prod"}
Busy == \E u \in Tasks : pc[u] \in BusyAt \/ (u \in granted /\ spc[u] = "out")

\* A writer that sleeps, or adds up to find out whether to: unless there is somebody
\* to prod it, it will find the sum zero.
BInv ==
  \A t \in Tasks : t \in unint =>
    /\ pc[t] = "active_sched" => Busy
    /\ pc[t] = "active_sum" => Busy \/ Same(sum + Rest(upto), 0)
-----------------------------------------------------------------------------

\* Every step keeps a waiting writer's hope.
LEMMA NextBInv == PInv /\ SInv /\ NInv /\ BInv /\ [Next]_vars => BInv'
\* What is still to be added is a number.
<1>RestType.
  ASSUME TypeOK, NEW k \in Int
  PROVE  Rest(k) \in Int
  BY <1>RestType, MaskedType DEF Rest, TypeOK
\* Nobody adds up or sleeps on the readers.
<1>NobodyAdds.
  ASSUME \A u \in Tasks : u \in unint' => pc'[u] \notin {"active_sum", "active_sched"}
  PROVE  BInv'
  BY <1>NobodyAdds DEF BInv
\* Steps that leave somebody busy, or found nobody and counted nobody.
<1>KeepBusy.
  ASSUME BInv, Busy => Busy', Busy' \/ read_count' = read_count, sum' = sum, upto' = upto,
         \A u \in Tasks : /\ pc'[u] = "active_sum" /\ u \in unint' =>
                               pc[u] = "active_sum" /\ u \in unint
                          /\ pc'[u] = "active_sched" /\ u \in unint' =>
                               pc[u] = "active_sched" /\ u \in unint
  PROVE  BInv'
  <2> USE <1>KeepBusy
  <2>1. CASE Busy'
    BY <2>1 DEF BInv
  <2>2. CASE ~Busy'
    <3>1. Rest(upto)' = Rest(upto)
      BY <2>2 DEF Rest
    <3> QED BY <2>2, <3>1 DEF BInv
  <2> QED BY <2>1, <2>2
\* A task moves, and those that will prod the writer still will.
<1>MoveBusy.
  ASSUME PInv, BInv, NEW t \in Tasks, NEW l \in Pcs, Goto(t, l), granted \subseteq granted',
         \A u \in granted : spc'[u] = spc[u],
         pc[t] \in BusyAt => l \in BusyAt, l \in BusyAt \/ read_count' = read_count,
         sum' = sum, upto' = upto,
         l \notin {"active_sum", "active_sched"}, \A u \in Tasks \ {t} : u \in unint' => u \in unint
  PROVE  BInv'
  <2> USE <1>MoveBusy
  <2>1. pc'[t] = l /\ \A u \in Tasks \ {t} : pc'[u] = pc[u]
    BY PcStep DEF PInv
  <2>2. Busy => Busy'
    BY <2>1 DEF Busy
  <2>3. Busy' \/ read_count' = read_count
    BY <2>1 DEF Busy
  <2> QED BY <2>1, <2>2, <2>3, <1>KeepBusy
\* The steps that do.
<1>ReaderBusy.
  ASSUME PInv, BInv, NEW t \in Tasks,
         \/ percpu_down_read(t) \/ percpu_down_read_trylock(t) \/ percpu_up_read(t) \/ UpDec(t)
         \/ TryInc(t) \/ TryDec(t) \/ WaitReader(t)
         \/ TryTest(t) /\ block
  PROVE  BInv'
  <2> USE <1>ReaderBusy
  <2>1. PICK l \in Pcs :
          /\ Goto(t, l) /\ (pc[t] \in BusyAt => l \in BusyAt)
          /\ l \notin {"active_sum", "active_sched"}
          /\ UpDec(t) \/ TryInc(t) \/ TryDec(t) => l \in BusyAt
    BY DEF percpu_down_read, percpu_down_read_trylock, StartRead, percpu_up_read, UpDec, TryInc,
           TryDec, WaitReader, TryTest, At, Pcs, BusyAt
  <2>2. UNCHANGED <<granted, unint, spc>> /\ sum' = sum /\ upto' = upto
    BY DEF percpu_down_read, percpu_down_read_trylock, StartRead, percpu_up_read, UpDec, TryInc,
           TryDec, WaitReader, TryTest, rcu_sync_is_idle, SyncVars, sem, local
  <2>3. l \in BusyAt \/ read_count' = read_count
    BY <2>1 DEF percpu_down_read, percpu_down_read_trylock, StartRead, percpu_up_read, WaitReader,
                TryTest, sem
  <2> QED BY <2>1, <2>2, <2>3, <1>MoveBusy
\* A writer on its way changes nothing for those who will prod it.
<1>WriterBusy.
  ASSUME PInv, BInv, NEW t \in Tasks,
         \/ WaitWriter(t) \/ WqSet(t) \/ WqSched(t)
         \/ WqTest(t) /\ t \notin granted
         \/ WriteTry(t) \/ WaitPrepare(t) \/ WaitSched(t) \/ percpu_up_write(t) \/ UpLock(t)
         \/ UpNext(t)
  PROVE  BInv'
  <2> USE <1>WriterBusy
  <2>1. PICK l \in Pcs :
          /\ Goto(t, l) /\ pc[t] \notin BusyAt /\ l \notin {"active_sum", "active_sched"}
    BY DEF WaitWriter, WqSet, WqSched, WqTest, WriteTry, WaitPrepare, WaitSched, percpu_up_write,
           UpLock, UpNext, At, Pcs, BusyAt
  <2>2. spc' = spc /\ sum' = sum /\ upto' = upto /\ read_count' = read_count
    BY DEF WaitWriter, WqSet, WqSched, WqTest, WriteTry, WaitPrepare, WaitSched, percpu_up_write,
           UpLock, UpNext, SyncVars, sem, local
  <2>3. granted \subseteq granted'
    BY DEF WaitWriter, WqSet, WqSched, WqTest, WriteTry, WaitPrepare, WaitSched, percpu_up_write,
           UpLock, UpNext, GrantHead, sem
  <2>4. \A u \in Tasks \ {t} : u \in unint' => u \in unint
    BY DEF WaitWriter, WqSet, WqSched, WqTest, WriteTry, WaitPrepare, WaitSched, percpu_up_write,
           UpLock, UpNext, GrantHead
  <2> QED BY <2>1, <2>2, <2>3, <2>4, <1>MoveBusy
\* A waiter finds the lock its own.
<1>GrantedBusy.
  ASSUME PInv, BInv, NEW t \in Tasks, WqTest(t), t \in granted
  PROVE  BInv'
  <2> USE <1>GrantedBusy
  <2>1. /\ granted' = granted \ {t} /\ unint' = unint \ {t} /\ spc[t] \in {"in", "out"} /\ TypeOK
        /\ Goto(t, IF spc[t] = "in" THEN "active" ELSE "read") /\ pc[t] = "wq_test"
    BY DEF WqTest, At, PInv, Place, Waits
  <2>2. /\ pc'[t] = IF spc[t] = "in" THEN "active" ELSE "read"
        /\ \A u \in Tasks \ {t} : pc'[u] = pc[u]
    BY <2>1 DEF Goto, TypeOK
  <2>3. spc' = spc /\ sum' = sum /\ upto' = upto /\ read_count' = read_count
    BY DEF WqTest, SyncVars, local
  <2>4. Busy => Busy'
    BY <2>1, <2>2, <2>3 DEF Busy, BusyAt
  <2>5. \A u \in Tasks :
          /\ pc'[u] = "active_sum" /\ u \in unint' => pc[u] = "active_sum" /\ u \in unint
          /\ pc'[u] = "active_sched" /\ u \in unint' => pc[u] = "active_sched" /\ u \in unint
    BY <2>1, <2>2
  <2> QED BY <2>3, <2>4, <2>5, <1>KeepBusy
\* Who stops being busy prods the writer.
<1>ProdBusy.
  ASSUME PInv, NEW t \in Tasks, TryProd(t) \/ UpProd(t)
  PROVE  BInv'
  <2> USE <1>ProdBusy
  <2>1. PICK l \in Pcs : Goto(t, l) /\ l \notin {"active_sum", "active_sched"}
    BY DEF TryProd, UpProd, Pcs
  <2>2. pc'[t] = l /\ \A u \in Tasks \ {t} : pc'[u] = pc[u]
    BY <2>1, PcStep DEF PInv
  <2>3. unint' = unint \ {writer}
    BY DEF TryProd, UpProd, ProdWriter
  <2>4. \A u \in Tasks : pc[u] \in {"active_sum", "active_sched"} => writer = u
    BY DEF PInv, Holds
  <2> QED BY <2>1, <2>2, <2>3, <2>4, <1>NobodyAdds
\* Readers that need not prod anybody: no writer is that far.
<1>FreeBusy.
  ASSUME PInv, SInv, NEW t \in Tasks,
         \/ FastInc(t) \/ UpFast(t)
         \/ TryTest(t) /\ ~block
  PROVE  BInv'
  <2> USE <1>FreeBusy
  <2>1. PICK l \in Pcs : Goto(t, l) /\ l \notin {"active_sum", "active_sched"}
    BY DEF FastInc, UpFast, TryTest, Pcs
  <2>2. pc'[t] = l /\ \A u \in Tasks \ {t} : pc'[u] = pc[u]
    BY <2>1, PcStep DEF PInv
  <2>3. ~block \/ \E u \in Tasks : u \in fast
    BY DEF FastInc, UpFast, EndSection
  <2>4. \A u \in Tasks : pc[u] \in Active => block /\ spc[u] = "in"
    BY DEF PInv, Holds, Owner, Place
  <2>5. \A u \in Tasks : spc[u] = "in" => fast = {}
    BY DEF SInv, Guarded
  <2>6. \A u \in Tasks : pc[u] \notin {"active_sum", "active_sched"}
    BY <2>3, <2>4, <2>5 DEF Active
  <2> QED BY <2>1, <2>2, <2>6, <1>NobodyAdds
\* If nobody is busy the counters add up to zero.
<1>IdleZero.
  ASSUME NInv, ~Busy
  PROVE  Same(Rest(0), 0)
  <2> USE <1>IdleZero
  <2>1. Readings = {} /\ Backing(0) = {}
    BY DEF Busy, BusyAt, Readings, Backing, Reading
  <2>2. NReading = 0 /\ NBacking(0) = 0
    BY <2>1, CardEmpty DEF NReading, NBacking
  <2>3. 0 + 0 = 0
    BY SMT
  <2> QED BY <2>2, <2>3 DEF NInv, Exact
\* The writer starts to add up: nobody is busy, so the sum will be zero.
<1>SetBusy.
  ASSUME PInv, NInv, BInv, NEW t \in Tasks, WaitSet(t)
  PROVE  BInv'
  <2> USE <1>SetBusy
  <2>1. /\ pc[t] = "active_set" /\ Goto(t, "active_sum") /\ TypeOK /\ unint' = unint \cup {t}
        /\ UNCHANGED <<granted, read_count, sum, upto>> /\ spc' = spc
    BY DEF WaitSet, At, PInv, SyncVars, sem, local
  <2>2. pc'[t] = "active_sum" /\ \A u \in Tasks \ {t} : pc'[u] = pc[u]
    BY <2>1 DEF Goto, TypeOK
  <2>3. \A u \in Tasks \ {t} : pc[u] \notin Active
    BY <2>1 DEF PInv, OneOwner, Owner, Active
  <2>4. upto = 0 /\ sum = 0
    BY <2>1, <2>3 DEF PInv, Summing, Active
  <2>5. Busy => Busy'
    BY <2>1, <2>2 DEF Busy, BusyAt
  <2>6. ~Busy => Same(sum' + Rest(upto)', 0)
    <3>0. 0 \in Int
      BY SMT
    <3>1. Rest(0) \in Int
      BY <2>1, <3>0, <1>RestType
    <3>2. 0 + Rest(0) = Rest(0)
      BY SMT, <3>1
    <3>3. sum' + Rest(upto)' = 0 + Rest(0)
      BY <2>1, <2>4 DEF Rest
    <3> QED BY <3>2, <3>3, <1>IdleZero
  <2> QED BY <2>2, <2>3, <2>5, <2>6 DEF BInv, Active
\* It goes on: what is added leaves what is to be added.
<1>SumBusy.
  ASSUME PInv, BInv, NEW t \in Tasks, WaitSum(t)
  PROVE  BInv'
  <2> USE <1>SumBusy
  <2>1. /\ upto < NCpus /\ sum' = (sum + read_count[upto + 1]) % Width /\ upto' = upto + 1
        /\ pc' = pc /\ granted' = granted /\ spc' = spc /\ read_count' = read_count
        /\ unint' = unint /\ TypeOK
    BY DEF WaitSum, sem, SyncVars, PInv
  <2>2. upto \in Int /\ sum \in Int /\ upto + 1 \in CPUs /\ upto + 1 \in Int
    BY SMT, <2>1, Sizes DEF TypeOK, CPUs
  <2> DEFINE x == read_count[upto + 1]
             r == Rest(upto + 1)
  <2>3. Rest(upto) = x + r /\ x \in Int /\ r \in Int
    <3>1. read_count \in [CPUs -> 0..(Width - 1)]
      BY <2>1 DEF TypeOK
    <3>2. x \in Int
      BY SMT, <2>2, <3>1, Sizes
    <3> QED BY <2>2, <3>1, <3>2, MaskedNext, MaskedType DEF Rest
  <2>4. sum' = (sum + x) % Width /\ Rest(upto)' = r
    BY <2>1 DEF Rest
  <2> HIDE DEF x, r
  <2>5. sum + x \in Int /\ (sum + x) + r = sum + (x + r)
    BY SMT, <2>2, <2>3
  <2>6. sum' \in Int /\ Same(sum', sum + x) /\ Same(r, r)
    BY <2>4, <2>5, ModMod DEF Same
  <2>7. Same(sum' + r, (sum + x) + r)
    BY <2>3, <2>5, <2>6, SameSum
  <2>8. Same(sum + Rest(upto), 0) => Same(sum' + Rest(upto)', 0)
    BY <2>3, <2>4, <2>5, <2>7 DEF Same
  <2>9. Busy => Busy'
    BY <2>1 DEF Busy
  <2> QED BY <2>1, <2>8, <2>9 DEF BInv
\* It ends: a sum that is not zero counted somebody who is still busy.
<1>VerdictBusy.
  ASSUME PInv, BInv, NEW t \in Tasks, WaitVerdict(t)
  PROVE  BInv'
  <2> USE <1>VerdictBusy
  <2>1. /\ upto = NCpus /\ pc[t] = "active_sum" /\ TypeOK /\ unint' \subseteq unint
        /\ granted' = granted /\ spc' = spc
    BY DEF WaitVerdict, SyncVars, PInv, At
  <2>2. PICK l \in {"write", "active_sched"} : Goto(t, l) /\ (l = "active_sched" => sum # 0)
    BY DEF WaitVerdict
  <2>3. pc'[t] = l /\ \A u \in Tasks \ {t} : pc'[u] = pc[u]
    <3>1. l \in Pcs
      BY DEF Pcs
    <3> QED BY <2>1, <2>2, <3>1, PcStep
  <2>4. \A u \in Tasks \ {t} : pc[u] \notin Active
    BY <2>1 DEF PInv, OneOwner, Owner, Active
  <2>5. Busy => Busy'
    BY <2>1, <2>3 DEF Busy, BusyAt
  <2>6. sum # 0 => ~Same(sum + Rest(upto), 0)
    <3>1. Rest(upto) = 0
      BY <2>1, MaskedEnds DEF Rest, TypeOK
    <3>2. sum \in 0..(Width - 1) /\ Width \in Nat \ {0}
      BY <2>1, Sizes DEF TypeOK
    <3>3. (sum + 0) % Width = 0 % Width => sum = 0
      BY SMT, <3>2
    <3> QED BY <3>1, <3>3 DEF Same
  <2> QED BY <2>1, <2>2, <2>3, <2>4, <2>5, <2>6 DEF BInv, Active
\* rcu_sync, and steps of nobody's call.
<1>QuietBusy.
  ASSUME PInv, SInv, BInv,
         \/ \E t \in Tasks : percpu_down_write(t) \/ Entering(t) \/ UpExit(t) \/ SpuriousWakeup(t)
         \/ RcuCallback \/ percpu_free_rwsem \/ percpu_init_rwsem \/ UNCHANGED vars
  PROVE  BInv'
  <2> USE <1>QuietBusy
  <2>1. CASE percpu_init_rwsem
    <3>1. pc' = pc
      BY <2>1 DEF percpu_init_rwsem
    <3>2. \A t \in Tasks : pc[t] = "out"
      BY <2>1 DEF percpu_init_rwsem, rcu_sync_init, PInv, Place
    <3> QED BY <3>1, <3>2, <1>NobodyAdds
  <2>2. CASE RcuCallback \/ percpu_free_rwsem \/ UNCHANGED vars
    <3>1. UNCHANGED <<granted, pc, unint, sum, upto, read_count>> /\ spc' = spc
      BY <2>2 DEF RcuCallback, Callback, percpu_free_rwsem, rcu_sync_dtor, DtorBarrier,
           vars, SyncVars, sem, local
    <3>2. Busy => Busy'
      BY <3>1 DEF Busy
    <3> QED BY <3>1, <3>2, <1>KeepBusy
  <2>3. ASSUME NEW t \in Tasks,
              percpu_down_write(t) \/ Entering(t) \/ UpExit(t) \/ SpuriousWakeup(t)
        PROVE  BInv'
    <3>1. UNCHANGED <<granted, sum, upto, read_count>> /\ unint' \subseteq unint
      BY <2>3 DEF percpu_down_write, Entering, UpExit, SpuriousWakeup, sem, local
    <3>2. \A u \in granted : spc'[u] = spc[u]
      <4>1. CASE SpuriousWakeup(t)
        BY <4>1 DEF SpuriousWakeup, SyncVars
      <4>2. CASE percpu_down_write(t) \/ Entering(t) \/ UpExit(t)
        <5>1. t \notin granted
          BY <4>2, NotWaiting DEF percpu_down_write, Entering, UpExit, At, Waits
        <5>2. PICK l \in Spcs : SpcGoto(t, l)
          BY <4>2 DEF percpu_down_write, Entering, UpExit, rcu_sync_enter, rcu_sync_exit, EnterSync,
             EnterTest, EnterPrepare, EnterRetest, EnterSchedule, Spcs
        <5>3. \A u \in Tasks \ {t} : spc'[u] = spc[u]
          BY <5>2, SpcStep DEF SInv
        <5> QED BY <5>1, <5>3 DEF PInv, TypeOK
      <4> QED BY <2>3, <4>1, <4>2
    <3>3. CASE Entering(t) \/ SpuriousWakeup(t)
      <4>1. pc' = pc
        BY <3>3 DEF Entering, SpuriousWakeup
      <4>2. Busy => Busy'
        BY <3>1, <3>2, <4>1 DEF Busy
      <4> QED BY <3>1, <4>1, <4>2, <1>KeepBusy
    <3>4. CASE percpu_down_write(t) \/ UpExit(t)
      <4>1. PICK l \in Pcs : /\ Goto(t, l) /\ pc[t] \notin BusyAt
                             /\ l \notin {"active_sum", "active_sched"}
        BY <3>4 DEF percpu_down_write, UpExit, At, Pcs, BusyAt
      <4> QED BY <3>1, <3>2, <4>1, <1>MoveBusy
    <3> QED BY <2>3, <3>3, <3>4
  <2> QED BY <2>1, <2>2, <2>3
<1> SUFFICES ASSUME PInv, SInv, NInv, BInv, [Next]_vars PROVE BInv'
  OBVIOUS
<1>1. ASSUME NEW t \in Tasks,
             \/ percpu_down_read(t) \/ percpu_down_read_trylock(t) \/ percpu_down_write(t)
             \/ SpuriousWakeup(t)
      PROVE  BInv'
  BY <1>1, <1>ReaderBusy, <1>QuietBusy
<1>2. ASSUME NEW t \in Tasks, Progress(t)
      PROVE  BInv'
  <2>1. CASE TryInc(t) \/ TryDec(t) \/ percpu_up_read(t) \/ UpDec(t) \/ WaitReader(t)
    BY <2>1, <1>ReaderBusy
  <2>2. CASE TryTest(t) \/ FastInc(t) \/ UpFast(t)
    BY <2>2, <1>ReaderBusy, <1>FreeBusy
  <2>3. CASE TryProd(t) \/ UpProd(t)
    BY <2>3, <1>ProdBusy
  <2>4. CASE \/ WqSet(t) \/ WqSched(t) \/ WaitPrepare(t) \/ WaitSched(t) \/ WaitWriter(t)
             \/ WriteTry(t) \/ percpu_up_write(t) \/ UpLock(t) \/ UpNext(t)
    BY <2>4, <1>WriterBusy
  <2>5. CASE WqTest(t)
    BY <2>5, <1>WriterBusy, <1>GrantedBusy
  <2>6. CASE WaitSet(t) \/ WaitSum(t) \/ WaitVerdict(t)
    BY <2>6, <1>SetBusy, <1>SumBusy, <1>VerdictBusy
  <2>7. CASE Entering(t) \/ UpExit(t)
    BY <2>7, <1>QuietBusy
  <2> QED BY <1>2, <2>1, <2>2, <2>3, <2>4, <2>5, <2>6, <2>7 DEF Progress
<1>3. CASE RcuCallback \/ percpu_free_rwsem \/ percpu_init_rwsem \/ UNCHANGED vars
  BY <1>3, <1>QuietBusy
<1> QED BY <1>1, <1>2, <1>3 DEF Next

\* All of it holds at first.
LEMMA InitAll == Init => NInv /\ QInv /\ BInv
<1> SUFFICES ASSUME Init PROVE NInv /\ QInv /\ BInv
  OBVIOUS
<1>1. TypeOK
  BY InitPInv DEF PInv
<1>2. NInv
  BY <1>1, NewNInv DEF Init
<1>3. QInv /\ BInv
  BY DEF Init, QInv, GaveUp, BInv
<1> QED BY <1>2, <1>3

\* The parts give what the run checks.
LEMMA TellsAll ==
  ASSUME PInv, QInv, BInv
  PROVE  NoLostWakeup
<1>1. waiters # <<>> /\ ~block =>
        \E u \in Tasks : \/ pc[u] \in {"up_lock", "up_next"}
                         \/ via[u] = "wake" /\ pc[u] \in {"inc", "test", "dec", "prod"}
  BY DEF QInv, Waker, Trying
<1>2. Busy => \E u \in Tasks : Reading(u) \/ pc[u] \in {"test", "dec", "prod", "up_prod"}
  BY DEF Busy, BusyAt, Reading
<1> QED BY <1>1, <1>2 DEF BInv, NoLostWakeup

\* All of the invariant holds, for any finite set of tasks, any number of CPUs and
\* any counter width that the readers and the tasks backing out cannot fill.
THEOREM RwsemInvariant == Spec => [](SInv /\ PInv /\ NInv /\ QInv /\ BInv)
<1> DEFINE IInv == SInv /\ PInv /\ NInv /\ QInv /\ BInv
<1>1. Init => IInv
  BY InitSInv, InitPInv, InitAll DEF Init
<1>2. IInv /\ [Next]_vars => IInv'
  <2> SUFFICES ASSUME IInv, [Next]_vars PROVE IInv'
    OBVIOUS
  <2>1. SInv'
    BY StepUses, NextSInv
  <2>2. PInv'
    BY NextPInv
  <2>3. TypeOK'
    BY <2>2 DEF PInv
  <2> QED BY <2>1, <2>2, <2>3, NextNInv, NextQInv, NextBInv
<1> QED BY <1>1, <1>2, PTL DEF Spec

\* Every variable keeps its type; in particular the counters stay unsigned words and
\* writers add up no CPU that is not there.
THEOREM RwsemTypeOK == Spec => []TypeOK
<1>1. PInv => TypeOK
  BY DEF PInv
<1> QED BY <1>1, RwsemInvariant, PTL

\* percpu_down_write() returns to one writer at a time and to nobody while a reader
\* is inside, although the sum over the CPUs is taken while counters move.
THEOREM RwsemExclusion == Spec => []Exclusion
<1>1. PInv /\ NInv => Exclusion
  BY NInvExclusion
<1> QED BY <1>1, RwsemInvariant, PTL

\* Nobody is left asleep: while block is clear somebody is on the way to wake the
\* queue, and a writer sleeps on the readers only while one of them will prod it.
THEOREM RwsemNoLostWakeup == Spec => []NoLostWakeup
<1>1. PInv /\ QInv /\ BInv => NoLostWakeup
  BY TellsAll
<1> QED BY <1>1, RwsemInvariant, PTL
=============================================================================
