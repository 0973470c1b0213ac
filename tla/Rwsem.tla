-------------------------------- MODULE Rwsem -------------------------------
(***************************************************************************)
(* The reader-writer semaphore of the `rwsem` component                    *)
(* (rwsem/src/rwsem.c), without optimistic spinning, which this build does *)
(* not configure.                                                          *)
(*                                                                         *)
(* The fast paths change count without a lock, so every access to it is a  *)
(* step, those made under wait_lock too.  Stretches under wait_lock        *)
(* between two such accesses are one step.  Every sleep is killable: one   *)
(* that is not is one for which no signal comes.  wake_q_add() and         *)
(* wake_up_q() do what sched/src/core.c says; in the tree they are         *)
(* commented out there, and early_sched has stubs that panic.              *)
(* A waiter's timeout may pass at once, which stands for rt_task() too;    *)
(* the reader field never gets so large that count is negative.            *)
(***************************************************************************)
EXTENDS Integers, FiniteSets, Sequences, KernelList

CONSTANTS Tasks, NoTask,
  UP,                  \* TRUE: one CPU, no kernel preemption (the configured build);
                       \* FALSE: any interleaving
  READERS,             \* what owner holds while readers own the lock
  MAX_READERS_WAKEUP   \* 0x100 in the code

ASSUME RwsemConstants ==
  /\ IsFiniteSet(Tasks) /\ NoTask \notin Tasks /\ READERS \notin Tasks \cup {NoTask}
  /\ MAX_READERS_WAKEUP \in Nat \ {0} /\ UP \in BOOLEAN

VARIABLES
  count,      \* the writer bit, the waiters bit, the handoff bit, the readers
  owner,      \* a writer, READERS (RWSEM_READER_OWNED set) or NoTask
  wait_list,
  wait_lock,
  granted,    \* the waiting readers whose waiter.task was cleared
  asleep,     \* the tasks in TASK_KILLABLE
  killed,     \* the tasks with a fatal signal pending
  expired,    \* the waiters whose timeout has passed
  pc,
  type,       \* what a waiter waits for
  wstate,     \* of a waiting writer
  wake_q,     \* the tasks a task has yet to wake
  wake_type,  \* of the rwsem_mark_wake() under way
  ret         \* where a task goes on after rwsem_mark_wake() or wake_up_q()

vars == <<count, owner, wait_list, wait_lock, granted, asleep, killed, expired, pc, type,
          wstate, wake_q, wake_type, ret>>

WRITER_LOCKED == 1
FLAG_WAITERS == 2
FLAG_HANDOFF == 4
READER_BIAS == 8    \* 2^8 in the code, which reserves the bits between

WriterLocked == count % 2 = 1
Waiters == (count \div FLAG_WAITERS) % 2 = 1
Handoff == (count \div FLAG_HANDOFF) % 2 = 1
Active == count \div READER_BIAS
Locked == WriterLocked \/ Active # 0               \* count & RWSEM_LOCK_MASK
ReadFails == WriterLocked \/ Waiters \/ Handoff    \* count & RWSEM_READ_FAILED_MASK

Init ==
  /\ count = 0 /\ owner = NoTask /\ wait_list = <<>> /\ wait_lock = NoTask
  /\ granted = {} /\ asleep = {} /\ killed = {} /\ expired = {}
  /\ pc = [t \in Tasks |-> "out"]
  /\ type = [t \in Tasks |-> "read"]
  /\ wstate = [t \in Tasks |-> "NOT_FIRST"]
  /\ wake_q = [t \in Tasks |-> {}]
  /\ wake_type = "ANY"
  /\ ret = [t \in Tasks |-> "out"]
-----------------------------------------------------------------------------
\* On one CPU without preemption another task only runs outside the rwsem code and
\* in schedule().
SchedPoints == {"out", "read", "write", "r_sched", "w_sched"}
Runs(t) == UP => \A u \in Tasks \ {t} : pc[u] \in SchedPoints

At(t, from) == pc[t] = from /\ Runs(t)
Goto(t, to) == pc' = [pc EXCEPT ![t] = to]

\* The call is over: the waiter is gone from the stack.  (A killed task exits;
\* another takes its place.)
Leave(t, to) ==
  /\ Goto(t, to)
  /\ type' = [type EXCEPT ![t] = "read"]
  /\ wstate' = [wstate EXCEPT ![t] = "NOT_FIRST"]
  /\ expired' = expired \ {t}
  /\ killed' = killed \ {t}

frame == <<type, wstate, expired, killed>>
waking == <<wake_q, wake_type, ret>>

\* rwsem_mark_wake(sem, how), wait_lock being held; afterwards on to `to`.
CallMarkWake(t, how, to) ==
  /\ Goto(t, "mark")
  /\ wake_type' = how
  /\ ret' = [ret EXCEPT ![t] = to]
-----------------------------------------------------------------------------
\* __down_read(), __down_read_killable(): rwsem_read_trylock().
DownRead(t) ==
  /\ At(t, "out")
  /\ count' = count + READER_BIAS
  /\ Goto(t, IF ReadFails THEN "r_slow" ELSE "r_own")
  /\ UNCHANGED <<owner, wait_list, wait_lock, granted, asleep, frame, waking>>

\* __down_read_trylock() that succeeds (otherwise it leaves nothing behind).
DownReadTrylock(t) ==
  /\ At(t, "out") /\ ~ReadFails
  /\ count' = count + READER_BIAS
  /\ Goto(t, "r_own")
  /\ UNCHANGED <<owner, wait_list, wait_lock, granted, asleep, frame, waking>>

\* rwsem_set_reader_owned()
SetReaderOwned(t) ==
  /\ At(t, "r_own")
  /\ owner' = READERS
  /\ Leave(t, "read")
  /\ UNCHANGED <<count, wait_list, wait_lock, granted, asleep, waking>>

\* __down_write(), __down_write_killable(): compare and exchange.
DownWrite(t) ==
  /\ At(t, "out")
  /\ \/ count = 0 /\ count' = WRITER_LOCKED /\ Goto(t, "w_own") /\ UNCHANGED type
     \/ /\ count # 0
        /\ Goto(t, "w_slow") /\ type' = [type EXCEPT ![t] = "write"]
        /\ UNCHANGED count
  /\ UNCHANGED <<owner, wait_list, wait_lock, granted, asleep, wstate, expired, killed, waking>>

\* __down_write_trylock() that succeeds.
DownWriteTrylock(t) ==
  /\ At(t, "out") /\ count = 0
  /\ count' = WRITER_LOCKED
  /\ Goto(t, "w_own")
  /\ UNCHANGED <<owner, wait_list, wait_lock, granted, asleep, frame, waking>>

\* rwsem_set_owner()
SetOwner(t) ==
  /\ At(t, "w_own")
  /\ owner' = t
  /\ Leave(t, "write")
  /\ UNCHANGED <<count, wait_list, wait_lock, granted, asleep, waking>>

\* Mutant: what is tested is the count before the release.
UpReadStale(t) ==
  /\ At(t, "read")
  /\ count' = count - READER_BIAS
  /\ Goto(t, IF Waiters /\ ~Locked THEN "up_wake" ELSE "out")
  /\ UNCHANGED <<owner, wait_list, wait_lock, granted, asleep, frame, waking>>

\* __up_read().  The owner's pointer is cleared, its READER_OWNED bit stays.
UpRead(t) ==
  /\ At(t, "read")
  /\ count' = count - READER_BIAS
  /\ Goto(t, IF Waiters /\ ~WriterLocked /\ Active = 1 THEN "up_wake" ELSE "out")
  /\ UNCHANGED <<owner, wait_list, wait_lock, granted, asleep, frame, waking>>

\* __up_write(): rwsem_clear_owner() ...
UpWrite(t) ==
  /\ At(t, "write")
  /\ owner' = NoTask
  /\ Goto(t, "up_write")
  /\ UNCHANGED <<count, wait_list, wait_lock, granted, asleep, frame, waking>>

\* ... then the release.
UpWriteRelease(t) ==
  /\ At(t, "up_write")
  /\ count' = count - WRITER_LOCKED
  /\ Goto(t, IF Waiters THEN "up_wake" ELSE "out")
  /\ UNCHANGED <<owner, wait_list, wait_lock, granted, asleep, frame, waking>>

\* __downgrade_write() ...
DowngradeWrite(t) ==
  /\ At(t, "write")
  /\ count' = count - WRITER_LOCKED + READER_BIAS
  /\ Goto(t, IF Waiters THEN "down_own_wake" ELSE "down_own")
  /\ UNCHANGED <<owner, wait_list, wait_lock, granted, asleep, frame, waking>>

\* ... rwsem_set_reader_owned().
DowngradeOwned(t) ==
  /\ At(t, "down_own") \/ At(t, "down_own_wake")
  /\ owner' = READERS
  /\ Goto(t, IF At(t, "down_own") THEN "read" ELSE "down_wake")
  /\ UNCHANGED <<count, wait_list, wait_lock, granted, asleep, frame, waking>>

\* rwsem_wake() and rwsem_downgrade_wake()
RwsemWake(t) ==
  /\ At(t, "up_wake") \/ At(t, "down_wake")
  /\ wait_lock = NoTask
  /\ LET to == IF At(t, "up_wake") THEN "out" ELSE "read" IN
     IF wait_list = <<>>
       THEN Goto(t, to) /\ UNCHANGED <<wait_lock, wake_type, ret>>
       ELSE /\ wait_lock' = t
            /\ CallMarkWake(t, IF At(t, "up_wake") THEN "ANY" ELSE "READ_OWNED", to)
  /\ UNCHANGED <<count, owner, wait_list, granted, asleep, frame, wake_q>>
-----------------------------------------------------------------------------
\* The end of rwsem_mark_wake() and of what its callers do after it: unlock, then
\* wake_up_q().  A writer that is queueing keeps the lock if there is nobody to wake.
MarkWakeReturns(t, wake) ==
  LET woken == wake \ UNION {wake_q[u] : u \in Tasks}    \* wake_q_add() skips the others
      keeps == ret[t] = "w_set" /\ woken = {}
  IN /\ wake_q' = [wake_q EXCEPT ![t] = woken]
     /\ wait_lock' = IF keeps THEN t ELSE NoTask
     /\ wake_type' = "ANY"
     /\ IF woken = {}
          THEN Goto(t, ret[t]) /\ ret' = [ret EXCEPT ![t] = "out"]
          ELSE /\ Goto(t, "wake_q")
               /\ ret' = [ret EXCEPT ![t] = IF @ = "w_set" THEN "w_relock" ELSE @]

\* wake_up_q()
WakeUpQ(t) ==
  /\ At(t, "wake_q")
  /\ asleep' = asleep \ wake_q[t]
  /\ wake_q' = [wake_q EXCEPT ![t] = {}]
  /\ Goto(t, ret[t])
  /\ ret' = [ret EXCEPT ![t] = "out"]
  /\ UNCHANGED <<count, owner, wait_list, wait_lock, granted, frame, wake_type>>

\* rwsem_mark_wake(): a writer at the head is woken, a reader is given the lock.
MarkWriter(t) ==
  /\ At(t, "mark") /\ type[Head(wait_list)] = "write"
  /\ MarkWakeReturns(t, IF wake_type = "ANY" THEN {Head(wait_list)} ELSE {})
  /\ UNCHANGED <<count, owner, wait_list, granted, asleep, frame>>

\* The first reader's bias comes first, against writers that steal the lock.
MarkReader(t) ==
  /\ At(t, "mark") /\ type[Head(wait_list)] = "read"
  /\ IF wake_type = "READ_OWNED"
       THEN Goto(t, "mark_grant") /\ UNCHANGED count
       ELSE /\ count' = count + READER_BIAS
            /\ Goto(t, IF WriterLocked THEN "mark_undo" ELSE "mark_own")
  /\ UNCHANGED <<owner, wait_list, wait_lock, granted, asleep, frame, waking>>

\* A writer has it: undo the bias, and ask for a handoff after waiting too long.
MarkUndo(t) ==
  /\ At(t, "mark_undo")
  /\ count' = count - READER_BIAS
              + IF ~Handoff /\ Head(wait_list) \in expired THEN FLAG_HANDOFF ELSE 0
  /\ MarkWakeReturns(t, {})
  /\ UNCHANGED <<owner, wait_list, granted, asleep, frame>>

MarkOwned(t) ==
  /\ At(t, "mark_own")
  /\ owner' = READERS
  /\ Goto(t, "mark_grant")
  /\ UNCHANGED <<count, wait_list, wait_lock, granted, asleep, frame, waking>>

\* Readers from the whole queue join, up to MAX_READERS_WAKEUP of them: they are
\* counted, then their waiter.task is cleared.
QueuedReaders == SelectSeq(wait_list, LAMBDA u : type[u] = "read")

\* Mutant: the bias of the first reader is counted again.
MarkGrantTwice(t) ==
  LET n == IF Len(QueuedReaders) < MAX_READERS_WAKEUP
             THEN Len(QueuedReaders) ELSE MAX_READERS_WAKEUP
      woken == {QueuedReaders[i] : i \in 1..n}
  IN /\ At(t, "mark_grant")
     /\ wait_list' = SelectSeq(wait_list, LAMBDA u : u \notin woken)
     /\ count' = count + n * READER_BIAS
                 - (IF wait_list' = <<>> THEN FLAG_WAITERS ELSE 0)
                 - (IF Handoff THEN FLAG_HANDOFF ELSE 0)
     /\ granted' = granted \cup woken
     /\ MarkWakeReturns(t, woken)
     /\ UNCHANGED <<owner, asleep, frame>>

MarkGrant(t) ==
  LET n == IF Len(QueuedReaders) < MAX_READERS_WAKEUP
             THEN Len(QueuedReaders) ELSE MAX_READERS_WAKEUP
      woken == {QueuedReaders[i] : i \in 1..n}
      counted == IF wake_type = "READ_OWNED" THEN 0 ELSE 1
  IN /\ At(t, "mark_grant")
     /\ wait_list' = SelectSeq(wait_list, LAMBDA u : u \notin woken)
     /\ count' = count + (n - counted) * READER_BIAS
                 - (IF wait_list' = <<>> THEN FLAG_WAITERS ELSE 0)
                 - (IF Handoff THEN FLAG_HANDOFF ELSE 0)
     /\ granted' = granted \cup woken
     /\ MarkWakeReturns(t, woken)
     /\ UNCHANGED <<owner, asleep, frame>>
-----------------------------------------------------------------------------
\* rwsem_down_read_slowpath(): the bias is in count already; if nobody waits and no
\* writer has the lock, that is all it takes ...
ReadQueue(t) ==
  /\ At(t, "r_slow") /\ wait_lock = NoTask
  /\ IF wait_list = <<>> /\ ~WriterLocked /\ ~Handoff
       THEN Goto(t, "r_own") /\ UNCHANGED <<wait_list, wait_lock>>
       ELSE /\ wait_lock' = t
            /\ wait_list' = Append(wait_list, t)
            /\ Goto(t, "r_add")
  /\ UNCHANGED <<count, owner, granted, asleep, frame, waking>>

\* ... else take the bias back, and look for a lock that came free meanwhile.
ReadAdd(t) ==
  LET first == wait_list = <<t>> IN
  /\ At(t, "r_add")
  /\ count' = count - READER_BIAS + IF first THEN FLAG_WAITERS ELSE 0
  /\ IF ~WriterLocked /\ (Active = 1 \/ first)
       THEN CallMarkWake(t, "ANY", "r_set") /\ UNCHANGED wait_lock
       ELSE Goto(t, "r_set") /\ wait_lock' = NoTask /\ UNCHANGED <<wake_type, ret>>
  /\ UNCHANGED <<owner, wait_list, granted, asleep, frame, wake_q>>

\* The wait: set_current_state(), the tests, schedule().
ReadSet(t) ==
  /\ At(t, "r_set")
  /\ asleep' = asleep \cup {t}
  /\ Goto(t, "r_test")
  /\ UNCHANGED <<count, owner, wait_list, wait_lock, granted, frame, waking>>

ReadTest(t) ==
  /\ At(t, "r_test")
  /\ \/ t \in granted
        /\ granted' = granted \ {t} /\ asleep' = asleep \ {t} /\ Leave(t, "read")
     \/ t \notin granted /\ t \in killed
        /\ Goto(t, "r_sig") /\ UNCHANGED <<granted, asleep, frame>>
     \/ t \notin granted /\ t \notin killed
        /\ Goto(t, "r_sched") /\ UNCHANGED <<granted, asleep, frame>>
  /\ UNCHANGED <<count, owner, wait_list, wait_lock, waking>>

ReadSched(t) ==
  /\ At(t, "r_sched") /\ t \notin asleep
  /\ Goto(t, "r_set")
  /\ UNCHANGED <<count, owner, wait_list, wait_lock, granted, asleep, frame, waking>>

\* A signal: out_nolock, unless the lock was granted after all.
ReadSignal(t) ==
  /\ At(t, "r_sig") /\ wait_lock = NoTask
  /\ asleep' = asleep \ {t}
  /\ IF t \in granted
       THEN /\ granted' = granted \ {t} /\ Leave(t, "read")
            /\ UNCHANGED <<count, wait_list>>
       ELSE /\ wait_list' = list_del(wait_list, t)
            /\ count' = IF wait_list' = <<>>
                          THEN count - (IF Waiters THEN FLAG_WAITERS ELSE 0)
                                     - (IF Handoff THEN FLAG_HANDOFF ELSE 0)
                          ELSE count
            /\ Leave(t, "out")
            /\ UNCHANGED granted
  /\ UNCHANGED <<owner, wait_lock, waking>>
-----------------------------------------------------------------------------
\* rwsem_down_write_slowpath(): queue, and see to those who wait already.
WriteQueue(t) ==
  /\ At(t, "w_slow") /\ wait_lock = NoTask
  /\ wait_lock' = t
  /\ wait_list' = Append(wait_list, t)
  /\ \/ /\ wait_list = <<>>
        /\ wstate' = [wstate EXCEPT ![t] = "FIRST"]
        /\ count' = IF Waiters THEN count ELSE count + FLAG_WAITERS
        /\ Goto(t, "w_set") /\ UNCHANGED <<wake_type, ret>>
     \/ /\ wait_list # <<>> /\ WriterLocked
        /\ Goto(t, "w_set") /\ UNCHANGED <<count, wstate, wake_type, ret>>
     \/ /\ wait_list # <<>> /\ ~WriterLocked
        /\ CallMarkWake(t, IF Active # 0 THEN "READERS" ELSE "ANY", "w_set")
        /\ UNCHANGED <<count, wstate>>
  /\ UNCHANGED <<owner, granted, asleep, type, expired, killed, wake_q>>

\* set_current_state() before the loop, wait_lock held or taken again.
WriteSet(t) ==
  /\ \/ At(t, "w_set")
     \/ At(t, "w_relock") /\ wait_lock = NoTask
  /\ wait_lock' = t
  /\ asleep' = asleep \cup {t}
  /\ Goto(t, "w_try")
  /\ UNCHANGED <<count, owner, wait_list, granted, frame, waking>>

\* Mutant: the handoff bit stops nobody.
CanTakeAnyway(t) == ~Locked

\* rwsem_try_write_lock(): take the lock, set the handoff bit, or neither.
CanTake(t) == ~Locked /\ ~(Handoff /\ wstate[t] = "NOT_FIRST")

WriteTake(t) ==
  /\ At(t, "w_try") /\ CanTake(t)
  /\ count' = WRITER_LOCKED + IF Waiters /\ Len(wait_list) # 1 THEN FLAG_WAITERS ELSE 0
  /\ Goto(t, "w_got")
  /\ UNCHANGED <<owner, wait_list, wait_lock, granted, asleep, frame, waking>>

WriteFail(t) ==
  /\ At(t, "w_try") /\ ~CanTake(t)
  /\ count' = IF ~Handoff /\ wstate[t] = "HANDOFF" THEN count + FLAG_HANDOFF ELSE count
  /\ wait_lock' = NoTask
  /\ Goto(t, "w_sig")
  /\ UNCHANGED <<owner, wait_list, granted, asleep, frame, waking>>

WriteGot(t) ==
  /\ At(t, "w_got")
  /\ owner' = t
  /\ asleep' = asleep \ {t}
  /\ wait_list' = list_del(wait_list, t)
  /\ wait_lock' = NoTask
  /\ Leave(t, "write")
  /\ UNCHANGED <<count, granted, waking>>

\* The inner loop: signal, schedule(), is this the first waiter, is the lock free.
WriteTestSignal(t) ==
  /\ At(t, "w_sig")
  /\ IF t \in killed
       THEN Goto(t, "w_out") /\ asleep' = asleep \ {t}
       ELSE Goto(t, "w_sched") /\ UNCHANGED asleep
  /\ UNCHANGED <<count, owner, wait_list, wait_lock, granted, frame, waking>>

WriteSched(t) ==
  /\ At(t, "w_sched") /\ t \notin asleep
  /\ asleep' = asleep \cup {t}
  /\ Goto(t, IF wstate[t] = "HANDOFF" THEN "w_again" ELSE "w_first")
  /\ UNCHANGED <<count, owner, wait_list, wait_lock, granted, frame, waking>>

WriteFirst(t) ==
  /\ At(t, "w_first")
  /\ wstate' = [wstate EXCEPT ![t] = IF Head(wait_list) = t THEN "FIRST" ELSE @]
  /\ Goto(t, "w_count")
  /\ UNCHANGED <<count, owner, wait_list, wait_lock, granted, asleep, type, expired, killed, waking>>

WriteCount(t) ==
  /\ At(t, "w_count")
  /\ \/ ~Locked /\ Goto(t, "w_again") /\ UNCHANGED wstate
     \/ /\ Locked /\ wstate[t] = "FIRST" /\ t \in expired
        /\ wstate' = [wstate EXCEPT ![t] = "HANDOFF"]
        /\ Goto(t, "w_again")
     \/ /\ Locked /\ ~(wstate[t] = "FIRST" /\ t \in expired)
        /\ Goto(t, "w_sig") /\ UNCHANGED wstate
  /\ UNCHANGED <<count, owner, wait_list, wait_lock, granted, asleep, type, expired, killed, waking>>

\* trylock_again
WriteRelock(t) ==
  /\ At(t, "w_again") /\ wait_lock = NoTask
  /\ wait_lock' = t
  /\ Goto(t, "w_try")
  /\ UNCHANGED <<count, owner, wait_list, granted, asleep, frame, waking>>

\* out_nolock: off the list, handoff taken back ...
WriteOut(t) ==
  /\ At(t, "w_out") /\ wait_lock = NoTask
  /\ wait_lock' = t
  /\ wait_list' = list_del(wait_list, t)
  /\ count' = IF wstate[t] = "HANDOFF" THEN count - FLAG_HANDOFF ELSE count
  /\ Goto(t, "w_left")
  /\ UNCHANGED <<owner, granted, asleep, frame, waking>>

\* ... and the waiters bit with the last waiter, or the next one is woken.
WriteLeft(t) ==
  /\ At(t, "w_left")
  /\ IF wait_list = <<>>
       THEN /\ count' = IF Waiters THEN count - FLAG_WAITERS ELSE count
            /\ wait_lock' = NoTask
            /\ Leave(t, "out")
            /\ UNCHANGED <<wake_type, ret>>
       ELSE /\ CallMarkWake(t, "ANY", "out")
            /\ type' = [type EXCEPT ![t] = "read"]
            /\ wstate' = [wstate EXCEPT ![t] = "NOT_FIRST"]
            /\ expired' = expired \ {t} /\ killed' = killed \ {t}
            /\ UNCHANGED <<count, wait_lock>>
  /\ UNCHANGED <<owner, wait_list, granted, asleep, wake_q>>
-----------------------------------------------------------------------------
\* The environment: SIGKILL to a waiter, jiffies, other wake-ups.
Waiting(t) == \E i \in 1..Len(wait_list) : wait_list[i] = t

Kill(t) ==
  /\ Waiting(t) /\ t \notin killed
  /\ killed' = killed \cup {t}
  /\ asleep' = asleep \ {t}
  /\ UNCHANGED <<count, owner, wait_list, wait_lock, granted, pc, type, wstate, expired, waking>>

TimePasses(t) ==
  /\ Waiting(t) /\ t \notin expired
  /\ expired' = expired \cup {t}
  /\ UNCHANGED <<count, owner, wait_list, wait_lock, granted, asleep, pc, type, wstate, killed, waking>>

SpuriousWakeup(t) ==
  /\ t \in asleep
  /\ asleep' = asleep \ {t}
  /\ UNCHANGED <<count, owner, wait_list, wait_lock, granted, pc, frame, waking>>

\* A task goes on with the call it is in, and a holder releases the lock.
Progress(t) ==
  \/ SetReaderOwned(t) \/ SetOwner(t) \/ UpRead(t) \/ UpWrite(t) \/ UpWriteRelease(t)
  \/ DowngradeWrite(t) \/ DowngradeOwned(t) \/ RwsemWake(t) \/ WakeUpQ(t)
  \/ MarkWriter(t) \/ MarkReader(t) \/ MarkUndo(t) \/ MarkOwned(t) \/ MarkGrant(t)
  \/ ReadQueue(t) \/ ReadAdd(t) \/ ReadSet(t) \/ ReadTest(t) \/ ReadSched(t) \/ ReadSignal(t)
  \/ WriteQueue(t) \/ WriteSet(t) \/ WriteTake(t) \/ WriteFail(t) \/ WriteGot(t)
  \/ WriteTestSignal(t) \/ WriteSched(t) \/ WriteFirst(t) \/ WriteCount(t) \/ WriteRelock(t)
  \/ WriteOut(t) \/ WriteLeft(t)

Next == \E t \in Tasks :
  \/ DownRead(t) \/ DownReadTrylock(t) \/ DownWrite(t) \/ DownWriteTrylock(t)
  \/ Progress(t) \/ Kill(t) \/ TimePasses(t) \/ SpuriousWakeup(t)

Spec == Init /\ [][Next]_vars
-----------------------------------------------------------------------------
\* Who has the lock.  A reader has it from the moment count says so for good.
Writing(t) == pc[t] \in {"w_own", "write", "up_write", "w_got"}
Reading(t) ==
  \/ pc[t] \in {"r_own", "read", "down_own", "down_own_wake", "down_wake"}
  \/ ret[t] = "read"
  \/ t \in granted

\* The readers whose bias is in count although they may not get the lock: those on
\* their way to the queue, and the one rwsem_mark_wake() adds for the first waiter.
Transient(t) ==
  \/ pc[t] \in {"r_slow", "r_add", "mark_undo", "mark_own"}
  \/ pc[t] = "mark_grant" /\ wake_type # "READ_OWNED"

\* Mutual exclusion, and what count means at any moment: the writer bit is the one
\* writer, the reader field the readers with and without the lock.  With wait_lock
\* free the waiters bit says whether somebody waits.  The owner field passes the
\* checks of DEBUG_RWSEMS: a writer finds itself there, a reader the reader bit.
CountExact ==
  /\ \A t, u \in Tasks : Writing(t) /\ t # u => ~Writing(u) /\ ~Reading(u)
  /\ WriterLocked <=> \E t \in Tasks : Writing(t)
  /\ Active = Cardinality({t \in Tasks : Reading(t)}) + Cardinality({t \in Tasks : Transient(t)})
  /\ wait_lock = NoTask => (Waiters <=> wait_list # <<>>)
  /\ \A t \in Tasks : pc[t] = "write" => owner = t
  /\ \A t \in Tasks : pc[t] = "read" => owner = READERS

\* Nobody sleeps for ever: if the lock is free and somebody waits, a task is about to
\* wake the first waiter, or the first waiter is a writer on its way to try the lock;
\* and a reader that was given the lock in its sleep is about to be woken.
NoLostWakeup ==
  /\ wait_list # <<>> /\ ~Locked =>
       \E u \in Tasks :
         \/ pc[u] \in {"up_wake", "mark", "w_out", "w_left"}
         \/ u = Head(wait_list) /\ type[u] = "write"
            /\ (u \notin asleep \/ pc[u] \in {"w_first", "w_count", "w_again", "w_try"}
                \/ \E v \in Tasks : u \in wake_q[v])
  /\ \A t \in granted : pc[t] = "r_sched" /\ t \in asleep => \E u \in Tasks : t \in wake_q[u]

\* The handoff bit keeps its promise to the first waiter: while it is set, nobody
\* takes the lock except the first waiter, or the waiting readers along with it.
HandoffHolds ==
  [][\A t \in Tasks :
       Handoff /\ wait_list # <<>> /\ ~Writing(t) /\ ~Reading(t) /\ (Writing(t) \/ Reading(t))' =>
         \/ t = Head(wait_list)
         \/ type[Head(wait_list)] = "read" /\ Waiting(t) /\ type[t] = "read"]_vars
=============================================================================
