------------------------------ MODULE Kthread -------------------------------
(***************************************************************************)
(* kthread/kthread.c: creating kernel threads through kthreadd, and        *)
(* parking, unparking and stopping them.                                   *)
(*                                                                         *)
(* A creator's request, the kthread_create_info, passes from the creator   *)
(* to kthreadd and from there to the new thread; a creator that is killed  *)
(* leaves it behind.  Whoever exchanges create->done for NULL last frees   *)
(* it.  The steps are the accesses to what several tasks share; tasks may  *)
(* be switched between any two, except where preemption is disabled: from  *)
(* complete() to the schedule() after it.                                  *)
(***************************************************************************)
EXTENDS KernelList, TaskState

CONSTANTS
  Creators,  \* tasks that create and control threads, one at a time each
  Infos,     \* kthread_create_info structures; a thread is named after its own
  None

ASSUME KthreadConstants == None \notin Creators \cup Infos

TASK_PARKED == "parked"

VARIABLES
  pc,         \* where each creator is
  info,       \* creator -> its request, then its thread
  killed,     \* creators with a fatal signal pending
  completed,  \* creators whose completion "done" is complete
  kthread_create_list,
  live,       \* requests allocated and not freed
  done,       \* create->done: the waiting creator, or None (NULL)
  result,     \* create->result, undefined until it is written
  kpc, kinfo, kdone, kstate,  \* kthreadd: where it is, its locals, its state
  tpc,        \* where each thread is
  tdone,      \* thread -> the local "done" of kthread()
  flags,      \* thread -> subset of {"STOP", "PARK"}
  state,      \* thread -> its task state
  parked,     \* thread -> count of the completion "parked"
  asked       \* threads woken or parked before they were told to stop (ghost)

creators == <<pc, info, killed>>
create == <<kthread_create_list, live, done, result>>
kthreadd == <<kpc, kinfo, kdone, kstate>>
thread == <<tpc, tdone, flags, state, parked, asked>>
vars == <<pc, info, killed, completed, kthread_create_list, live, done, result,
          kpc, kinfo, kdone, kstate, tpc, tdone, flags, state, parked, asked>>

Init ==
  /\ pc = [c \in Creators |-> "out"]
  /\ info = [c \in Creators |-> None]
  /\ killed = {} /\ completed = {}
  /\ kthread_create_list = <<>> /\ live = {}
  /\ done = [r \in Infos |-> None]
  /\ result = [r \in Infos |-> "undefined"]
  /\ kpc = "set" /\ kinfo = None /\ kdone = None /\ kstate = TASK_RUNNING
  /\ tpc = [r \in Infos |-> "none"]
  /\ tdone = [r \in Infos |-> None]
  /\ flags = [r \in Infos |-> {}]
  /\ state = [r \in Infos |-> TASK_RUNNING]
  /\ parked = [r \in Infos |-> 0]
  /\ asked = {}
-----------------------------------------------------------------------------
\* Mutant: every sleep is ended, that of a parked thread too.
WokenAlways(r) == [state EXCEPT ![r] = TASK_RUNNING]

\* wake_up_process(k): only sleeps in TASK_NORMAL end, a parked thread stays.
Woken(r) ==
  IF state[r] \in {TASK_INTERRUPTIBLE, TASK_UNINTERRUPTIBLE}
  THEN [state EXCEPT ![r] = TASK_RUNNING] ELSE state

Goto(c, to) == pc' = [pc EXCEPT ![c] = to]

\* The signal of a creator that returns is its caller's business.
Leave(c) ==
  Goto(c, "out") /\ info' = [info EXCEPT ![c] = None] /\ killed' = killed \ {c}

\* kfree(create)
Free(r) == live' = live \ {r} /\ result' = [result EXCEPT ![r] = "undefined"]

\* __kthread_create_on_node: a request is allocated, filled in and queued ...
CreateQueue(c, r) ==
  /\ pc[c] = "out"
  /\ r \notin live /\ tpc[r] = "none" /\ \A d \in Creators : info[d] # r
  /\ Goto(c, "wake")
  /\ info' = [info EXCEPT ![c] = r]
  /\ kthread_create_list' = Append(kthread_create_list, r)
  /\ live' = live \cup {r}
  /\ done' = [done EXCEPT ![r] = c]
  /\ UNCHANGED <<killed, completed, result, kthreadd, thread>>

\* Mutant: only the first request on the list wakes kthreadd.
CreateWakeFirst(c) ==
  /\ pc[c] = "wake"
  /\ Goto(c, "wait")
  /\ kstate' = IF Len(kthread_create_list) = 1 THEN TASK_RUNNING ELSE kstate
  /\ UNCHANGED <<info, killed, completed, create, kpc, kinfo, kdone, thread>>

\* ... kthreadd is woken ...
CreateWake(c) ==
  /\ pc[c] = "wake"
  /\ Goto(c, "wait")
  /\ kstate' = TASK_RUNNING
  /\ UNCHANGED <<info, killed, completed, create, kpc, kinfo, kdone, thread>>

\* ... wait_for_completion_killable: the completion wins over the signal ...
CreateWait(c) ==
  /\ pc[c] = "wait"
  /\ \/ c \in completed /\ Goto(c, "result") /\ completed' = completed \ {c}
     \/ c \notin completed /\ c \in killed /\ Goto(c, "xchg") /\ UNCHANGED completed
  /\ UNCHANGED <<info, killed, create, kthreadd, thread>>

\* Mutant: a killed creator frees the request.
CreateGiveUpFrees(c) ==
  /\ pc[c] = "xchg"
  /\ done' = [done EXCEPT ![info[c]] = None]
  /\ IF done[info[c]] # None
     THEN Leave(c) /\ Free(info[c])
     ELSE Goto(c, "rewait") /\ UNCHANGED <<info, killed, live, result>>
  /\ UNCHANGED <<completed, kthread_create_list, kthreadd, thread>>

\* ... a killed creator leaves the request to kthreadd or to the new thread,
\* unless one of them is about to complete() already ...
CreateGiveUp(c) ==
  /\ pc[c] = "xchg"
  /\ done' = [done EXCEPT ![info[c]] = None]
  /\ IF done[info[c]] # None THEN Leave(c)
     ELSE Goto(c, "rewait") /\ UNCHANGED <<info, killed>>
  /\ UNCHANGED <<completed, kthread_create_list, live, result, kthreadd, thread>>

CreateRewait(c) ==
  /\ pc[c] = "rewait" /\ c \in completed
  /\ completed' = completed \ {c}
  /\ Goto(c, "result")
  /\ UNCHANGED <<info, killed, create, kthreadd, thread>>

\* ... the result is read and the request freed; from now on c owns the thread.
CreateResult(c) ==
  /\ pc[c] = "result"
  /\ IF result[info[c]] = "thread"
     THEN Goto(c, "own") /\ killed' = killed \ {c} /\ UNCHANGED info
     ELSE Leave(c)
  /\ Free(info[c])
  /\ UNCHANGED <<completed, kthread_create_list, done, kthreadd, thread>>

\* SIGKILL while the creator is inside, e.g. from the OOM killer.
Kill(c) ==
  /\ pc[c] \in {"wake", "wait"} /\ c \notin killed
  /\ killed' = killed \cup {c}
  /\ UNCHANGED <<pc, info, completed, create, kthreadd, thread>>
-----------------------------------------------------------------------------
\* kthreadd's loop: announce the sleep, test the list, sleep.
KthreaddSet ==
  /\ kpc = "set"
  /\ kpc' = "test" /\ kstate' = TASK_INTERRUPTIBLE
  /\ UNCHANGED <<creators, completed, create, kinfo, kdone, thread>>

KthreaddTest ==
  /\ kpc = "test"
  /\ IF kthread_create_list = <<>>
     THEN kpc' = "schedule" /\ UNCHANGED kstate
     ELSE kpc' = "take" /\ kstate' = TASK_RUNNING
  /\ UNCHANGED <<creators, completed, create, kinfo, kdone, thread>>

KthreaddWoken ==
  /\ kpc = "schedule" /\ kstate = TASK_RUNNING
  /\ kpc' = "take"
  /\ UNCHANGED <<creators, completed, create, kinfo, kdone, kstate, thread>>

\* One request is taken off the list, or the loop starts over.
KthreaddTake ==
  /\ kpc = "take"
  /\ IF kthread_create_list = <<>>
     THEN kpc' = "set" /\ UNCHANGED <<kinfo, kthread_create_list>>
     ELSE /\ kpc' = "create"
          /\ kinfo' = Head(kthread_create_list)
          /\ kthread_create_list' = Tail(kthread_create_list)
  /\ UNCHANGED <<creators, completed, live, done, result, kdone, kstate, thread>>

\* create_kthread: kernel_thread() starts the thread, or fails.
CreateKthread ==
  /\ kpc = "create"
  /\ \/ /\ kpc' = "take" /\ kinfo' = None
        /\ tpc' = [tpc EXCEPT ![kinfo] = "start"]
        /\ UNCHANGED <<tdone, flags, state, parked, asked>>
     \/ kpc' = "failed" /\ UNCHANGED <<kinfo, thread>>
  /\ UNCHANGED <<creators, completed, create, kdone, kstate>>

\* create_kthread after a failure: the creator has given up, or is told.
CreateFailed ==
  /\ kpc = "failed"
  /\ done' = [done EXCEPT ![kinfo] = None]
  /\ IF done[kinfo] = None
     THEN Free(kinfo) /\ kpc' = "take" /\ kinfo' = None /\ UNCHANGED kdone
     ELSE kpc' = "tell" /\ kdone' = done[kinfo] /\ UNCHANGED <<live, result, kinfo>>
  /\ UNCHANGED <<creators, completed, kthread_create_list, kstate, thread>>

CreateFailedTell ==
  /\ kpc = "tell"
  /\ result' = [result EXCEPT ![kinfo] = "error"]
  /\ completed' = completed \cup {kdone}
  /\ kpc' = "take" /\ kinfo' = None /\ kdone' = None
  /\ UNCHANGED <<creators, kthread_create_list, live, done, kstate, thread>>
-----------------------------------------------------------------------------
At(r, from, to) == tpc[r] = from /\ tpc' = [tpc EXCEPT ![r] = to]

\* kthread(): the new thread allocates its struct kthread, which may fail, and
\* takes the creator's completion; if the creator has given up it frees the
\* request and exits.
ThreadStart(r) ==
  /\ tpc[r] = "start"
  /\ done' = [done EXCEPT ![r] = None]
  /\ tdone' = [tdone EXCEPT ![r] = done[r]]
  /\ \/ done[r] = None /\ At(r, "start", "none") /\ Free(r)
     \/ /\ done[r] # None
        /\ \E to \in {"tell", "nomem"} : At(r, "start", to)
        /\ UNCHANGED <<live, result>>
  /\ UNCHANGED <<creators, completed, kthread_create_list, kthreadd, flags,
                 state, parked, asked>>

ThreadNoMemory(r) ==
  /\ At(r, "nomem", "none")
  /\ result' = [result EXCEPT ![r] = "error"]
  /\ completed' = completed \cup {tdone[r]}
  /\ tdone' = [tdone EXCEPT ![r] = None]
  /\ UNCHANGED <<creators, kthread_create_list, live, done, kthreadd, flags, state, parked,
                 asked>>

\* The creator is told, and the thread sleeps until it is woken.
ThreadTell(r) ==
  /\ At(r, "tell", "new")
  /\ state' = [state EXCEPT ![r] = TASK_UNINTERRUPTIBLE]
  /\ result' = [result EXCEPT ![r] = "thread"]
  /\ completed' = completed \cup {tdone[r]}
  /\ tdone' = [tdone EXCEPT ![r] = None]
  /\ UNCHANGED <<creators, kthread_create_list, live, done, kthreadd, flags, parked, asked>>

\* What a thread does from then on touches its own position, state and parked
\* completion only: see ThreadRuns.

\* Mutant: a thread that was stopped before it ran is not told apart.
ThreadWokenUnchecked(r) ==
  state[r] = TASK_RUNNING /\ At(r, "new", "parkme") /\ UNCHANGED <<state, parked>>

ThreadWoken(r) ==
  /\ state[r] = TASK_RUNNING
  /\ At(r, "new", IF "STOP" \in flags[r] THEN "exited" ELSE "parkme")
  /\ UNCHANGED <<state, parked>>

\* __kthread_parkme: announce the sleep, test SHOULD_PARK, complete and sleep.
ParkmeSet(r) ==
  /\ At(r, "parkme", "parktest")
  /\ state' = [state EXCEPT ![r] = TASK_PARKED] /\ UNCHANGED parked

ParkmeTest(r) ==
  /\ \/ "PARK" \in flags[r] /\ At(r, "parktest", "parkdone") /\ UNCHANGED state
     \/ /\ "PARK" \notin flags[r] /\ At(r, "parktest", "fn")
        /\ state' = [state EXCEPT ![r] = TASK_RUNNING]
  /\ UNCHANGED parked

ParkmeComplete(r) ==
  /\ At(r, "parkdone", "parked")
  /\ parked' = [parked EXCEPT ![r] = @ + 1] /\ UNCHANGED state

ParkmeWoken(r) ==
  state[r] = TASK_RUNNING /\ At(r, "parked", "parkme") /\ UNCHANGED <<state, parked>>

\* threadfn, as the comments on kthread_should_stop and kthread_should_park ask
\* for: it announces its sleep, returns when it should stop and parks when it
\* should park.
FnSet(r) ==
  /\ At(r, "fn", "fntest")
  /\ state' = [state EXCEPT ![r] = TASK_INTERRUPTIBLE] /\ UNCHANGED parked

FnTest(r) ==
  /\ IF flags[r] = {}
     THEN At(r, "fntest", "fnsleep") /\ UNCHANGED state
     ELSE /\ At(r, "fntest", IF "STOP" \in flags[r] THEN "exited" ELSE "parkme")
          /\ state' = [state EXCEPT ![r] = TASK_RUNNING]
  /\ UNCHANGED parked

FnWoken(r) ==
  state[r] = TASK_RUNNING /\ At(r, "fnsleep", "fn") /\ UNCHANGED <<state, parked>>

ThreadRuns(r) ==
  /\ \/ ThreadWoken(r) \/ FnSet(r) \/ FnTest(r) \/ FnWoken(r)
     \/ ParkmeSet(r) \/ ParkmeTest(r) \/ ParkmeComplete(r) \/ ParkmeWoken(r)
  /\ UNCHANGED <<creators, completed, create, kthreadd, tdone, flags, asked>>

\* Creators that still have to look at their request.
Creating(c) == pc[c] \in {"wake", "wait", "xchg", "rewait", "result"}

\* Work for the thread arrives: whoever knows it from its owner wakes it, at any
\* time.  A thread that has not run yet sleeps in no loop, so this starts it.
WorkArrives(r) ==
  /\ \E c \in Creators : info[c] = r /\ ~Creating(c)
  /\ state[r] \in {TASK_INTERRUPTIBLE, TASK_UNINTERRUPTIBLE}
  /\ state' = Woken(r)
  /\ asked' = IF "STOP" \in flags[r] THEN asked ELSE asked \cup {r}
  /\ UNCHANGED <<creators, completed, create, kthreadd, tpc, tdone, flags, parked>>
-----------------------------------------------------------------------------
\* What an owner does with its thread leaves the requests and kthreadd alone:
\* see Controls and ControlsReturn.

\* The owner starts its thread.
WakeThread(c) ==
  /\ pc[c] = "own"
  /\ state' = Woken(info[c])
  /\ asked' = asked \cup {info[c]}
  /\ UNCHANGED <<pc, info, tpc, flags, parked>>

\* kthread_park: set SHOULD_PARK, wake the thread, wait for it to park.  The
\* thread lives and the bit is clear, because one owner parks, unparks and stops
\* in turn; wait_task_inactive() is a no-op on one CPU.
KthreadPark(c) ==
  /\ pc[c] = "own" /\ Goto(c, "park_wake")
  /\ flags' = [flags EXCEPT ![info[c]] = @ \cup {"PARK"}]
  /\ asked' = asked \cup {info[c]}
  /\ UNCHANGED <<info, tpc, state, parked>>

KthreadParkWake(c) ==
  /\ pc[c] = "park_wake" /\ Goto(c, "park_wait")
  /\ state' = Woken(info[c])
  /\ UNCHANGED <<info, tpc, flags, parked, asked>>

KthreadParkWait(c) ==
  /\ pc[c] = "park_wait" /\ parked[info[c]] > 0 /\ Goto(c, "parked")
  /\ parked' = [parked EXCEPT ![info[c]] = @ - 1]
  /\ UNCHANGED <<info, tpc, flags, state, asked>>

\* kthread_unpark on its own or within kthread_stop: clear SHOULD_PARK, then
\* wake the thread if it is parked.
Unpark(c, from, to) ==
  /\ pc[c] = from /\ Goto(c, to)
  /\ flags' = [flags EXCEPT ![info[c]] = @ \ {"PARK"}]
  /\ UNCHANGED <<info, tpc, state, parked, asked>>

UnparkWake(c, from, to) ==
  /\ pc[c] = from /\ Goto(c, to)
  /\ state' = IF state[info[c]] = TASK_PARKED
              THEN [state EXCEPT ![info[c]] = TASK_RUNNING] ELSE state
  /\ UNCHANGED <<info, tpc, flags, parked, asked>>

\* kthread_stop: set SHOULD_STOP, unpark, wake, wait for the exit.
KthreadStop(c) ==
  /\ pc[c] \in {"own", "parked"} /\ Goto(c, "stop_unpark")
  /\ flags' = [flags EXCEPT ![info[c]] = @ \cup {"STOP"}]
  /\ UNCHANGED <<info, tpc, state, parked, asked>>

KthreadStopWake(c) ==
  /\ pc[c] = "stop_wake" /\ Goto(c, "stop_wait")
  /\ state' = Woken(info[c])
  /\ UNCHANGED <<info, tpc, flags, parked, asked>>

\* The thread is gone, and its struct kthread with it.
KthreadStopWait(c) ==
  /\ pc[c] = "stop_wait" /\ Goto(c, "out")
  /\ info' = [info EXCEPT ![c] = None]
  /\ At(info[c], "exited", "none")
  /\ flags' = [flags EXCEPT ![info[c]] = {}]
  /\ asked' = asked \ {info[c]}
  /\ UNCHANGED <<state, parked>>

elsewhere == <<killed, completed, create, kthreadd, tdone>>

Controls(c) ==
  /\ \/ WakeThread(c)
     \/ KthreadPark(c)
     \/ Unpark(c, "parked", "unpark_wake")
     \/ KthreadStop(c)
  /\ UNCHANGED elsewhere

ControlsReturn(c) ==
  /\ \/ KthreadParkWake(c) \/ KthreadParkWait(c)
     \/ UnparkWake(c, "unpark_wake", "own")
     \/ Unpark(c, "stop_unpark", "stop_unpark_wake")
     \/ UnparkWake(c, "stop_unpark_wake", "stop_wake")
     \/ KthreadStopWake(c) \/ KthreadStopWait(c)
  /\ UNCHANGED elsewhere
-----------------------------------------------------------------------------
CreateReturns(c) ==
  CreateWake(c) \/ CreateWait(c) \/ CreateGiveUp(c) \/ CreateRewait(c) \/ CreateResult(c)

Calls(c) == (\E r \in Infos : CreateQueue(c, r)) \/ Kill(c) \/ Controls(c)

Returns(c) == CreateReturns(c) \/ ControlsReturn(c)

Kthreadd ==
  \/ KthreaddSet \/ KthreaddTest \/ KthreaddWoken \/ KthreaddTake
  \/ CreateKthread \/ CreateFailed \/ CreateFailedTell

Thread(r) == ThreadStart(r) \/ ThreadNoMemory(r) \/ ThreadTell(r) \/ ThreadRuns(r)

Next ==
  \/ \E c \in Creators : Calls(c) \/ Returns(c)
  \/ Kthreadd
  \/ \E r \in Infos : Thread(r) \/ WorkArrives(r)

Spec == Init /\ [][Next]_vars

\* Runnable tasks run (the scheduler); calls and signals need not come.
FairSpec ==
  /\ Spec
  /\ \A c \in Creators : WF_vars(Returns(c))
  /\ WF_vars(Kthreadd)
  /\ \A r \in Infos : WF_vars(Thread(r))
-----------------------------------------------------------------------------
CreatorAt == {"out", "wake", "wait", "xchg", "rewait", "result", "own", "park_wake",
              "park_wait", "parked", "unpark_wake", "stop_unpark", "stop_unpark_wake",
              "stop_wake", "stop_wait"}
ThreadAt == {"none", "start", "nomem", "tell", "new", "parkme", "parktest", "parkdone",
             "parked", "fn", "fntest", "fnsleep", "exited"}

\* Type invariant.
TypeOK ==
  /\ pc \in [Creators -> CreatorAt]
  /\ info \in [Creators -> Infos \cup {None}]
  /\ killed \subseteq Creators /\ completed \subseteq Creators
  /\ kthread_create_list \in Seq(Infos)
  /\ live \subseteq Infos
  /\ done \in [Infos -> Creators \cup {None}]
  /\ result \in [Infos -> {"undefined", "error", "thread"}]
  /\ kpc \in {"set", "test", "schedule", "take", "create", "failed", "tell"}
  /\ kinfo \in Infos \cup {None} /\ kdone \in Creators \cup {None}
  /\ kstate \in {TASK_RUNNING, TASK_INTERRUPTIBLE}
  /\ tpc \in [Infos -> ThreadAt]
  /\ tdone \in [Infos -> Creators \cup {None}]
  /\ flags \in [Infos -> SUBSET {"STOP", "PARK"}]
  /\ state \in [Infos -> {TASK_RUNNING, TASK_INTERRUPTIBLE, TASK_UNINTERRUPTIBLE,
                          TASK_PARKED}]
  /\ parked \in [Infos -> Nat]
  /\ asked \subseteq Infos

\* Requests that kthreadd or the new thread still has to look at.
InService(r) ==
  r \in Range(kthread_create_list) \/ r = kinfo \/ tpc[r] \in {"start", "nomem", "tell"}

\* The creator whose completion, on its stack, somebody is going to complete.
Waits(c, r) == pc[c] \in {"wake", "wait", "xchg", "rewait"} /\ info[c] = r

\* However a SIGKILL races kthreadd and the new thread, a request is freed by
\* exactly one of the three, after the last of them has looked at it; nobody
\* completes a completion whose creator has returned; and a creator that goes on
\* finds the result that was written for it.
CreateInfoExact ==
  /\ live = {r \in Infos : InService(r) \/ \E c \in Creators : Creating(c) /\ info[c] = r}
  /\ \A r \in Infos : done[r] # None => Waits(done[r], r)
  /\ kpc = "tell" => Waits(kdone, kinfo)
  /\ \A r \in Infos : tpc[r] \in {"nomem", "tell"} => Waits(tdone[r], r)
  /\ \A c \in Creators : pc[c] = "result" =>
       result[info[c]] = IF tpc[info[c]] = "new" THEN "thread" ELSE "error"

\* A thread enters threadfn only if it was woken or parked before kthread_stop():
\* not when its creator was killed, and not when kthread_stop() comes first, however
\* many wake-ups follow.
StartsOnlyIfAsked ==
  \A r \in Infos : tpc[r] \in {"fn", "fntest", "fnsleep"} => r \in asked

\* From the return of kthread_park() until its owner unparks or stops it, the
\* thread sleeps in TASK_PARKED, and no completion is left over for the next
\* kthread_park() to take for its own.
ParkHolds ==
  \A c \in Creators : pc[c] = "parked" =>
    LET r == info[c] IN tpc[r] = "parked" /\ state[r] = TASK_PARKED /\ parked[r] = 0

\* kthread_create(), kthread_park(), kthread_unpark() and kthread_stop() return:
\* no wake-up of kthreadd or of the thread is lost.
CallsReturn ==
  \A c \in Creators : pc[c] \notin {"out", "own", "parked"} ~> pc[c] \in {"out", "own", "parked"}
=============================================================================
