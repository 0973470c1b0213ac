---------------------------- MODULE KthreadProofs ---------------------------
(***************************************************************************)
(* Proofs about Kthread, for any creators and any number of requests: who  *)
(* has a request and who will free it, by the inductive invariant IInv,    *)
(* and what an owner has asked of its thread and how far the thread is, by *)
(* the inductive invariant CInv on top of it.                              *)
(***************************************************************************)
EXTENDS Kthread, KernelLemmas

\* Most leaves are first-order and left to Zenon; the others name SMT.
USE Zenon

\* Where a creator owns its thread, and where a thread is one to own.
OwnerAt == {"own", "park_wake", "park_wait", "parked", "unpark_wake", "stop_unpark",
            "stop_unpark_wake", "stop_wake", "stop_wait"}
OwnedAt == {"new", "parkme", "parktest", "parkdone", "parked", "fn", "fntest", "fnsleep",
            "exited"}

\* Where kthreadd has no request at hand, and where a creator has not let go of its own.
Idle == {"set", "test", "schedule", "take"}
Waiting == {"wake", "wait", "xchg"}

\* The request is still before the exchange of create->done that serves it.
AtDoor(r) ==
  \/ r \in Range(kthread_create_list)
  \/ r = kinfo /\ kpc \in {"create", "failed"}
  \/ tpc[r] = "start"

\* A creator has a request or a thread of its own unless it is outside.
InfoOwned ==
  /\ \A c \in Creators : IF pc[c] = "out" THEN info[c] = None ELSE info[c] \in Infos
  /\ \A c, d \in Creators : info[c] = info[d] /\ info[c] # None => c = d
  /\ \A c \in Creators : pc[c] \in OwnerAt => tpc[info[c]] \in OwnedAt

\* A request is in one place at a time on its way to the new thread.
OnePlace ==
  /\ NoDup(kthread_create_list) /\ Range(kthread_create_list) \subseteq Infos
  /\ IF kpc \in Idle THEN kinfo = None ELSE kinfo \in Infos
  /\ kinfo \notin Range(kthread_create_list)
  /\ \A r \in Infos : r \in Range(kthread_create_list) \/ r = kinfo => tpc[r] = "none"

\* create->done says whether the creator still waits, until it is exchanged.
DoneExact ==
  /\ \A r \in Infos : done[r] # None =>
       /\ done[r] \in Creators /\ AtDoor(r) /\ info[done[r]] = r
       /\ pc[done[r]] \in Waiting
  /\ \A c \in Creators : info[c] # None /\ AtDoor(info[c]) => done[info[c]] = c

\* Whoever has taken create->done completes it once, for a creator that waits.
TellExact ==
  /\ kpc = "tell" => kdone \in Creators /\ Waits(kdone, kinfo) /\ kdone \notin completed
  /\ \A r \in Infos : tpc[r] \in {"nomem", "tell"} =>
       tdone[r] \in Creators /\ Waits(tdone[r], r) /\ tdone[r] \notin completed

\* A request that has been served, and the result in it.
Served(c) ==
  /\ ~InService(info[c])
  /\ tpc[info[c]] \in {"none", "new"}
  /\ result[info[c]] = IF tpc[info[c]] = "new" THEN "thread" ELSE "error"
  /\ tpc[info[c]] = "new" => state[info[c]] = TASK_UNINTERRUPTIBLE

ServedExact ==
  /\ \A c \in completed :
       c \in Creators /\ pc[c] \in Waiting \cup {"rewait"} /\ Served(c)
  /\ \A c \in Creators : pc[c] = "result" => Served(c)

LiveExact ==
  live = {r \in Infos : InService(r) \/ \E c \in Creators : Creating(c) /\ info[c] = r}

IInv ==
  /\ TypeOK
  /\ InfoOwned
  /\ OnePlace
  /\ DoneExact
  /\ TellExact
  /\ ServedExact
  /\ LiveExact

\* Owners do not wait for a request, and their threads are not being made.
LEMMA Places ==
  /\ "own" \in OwnerAt /\ "new" \in OwnedAt
  /\ "out" \notin OwnerAt /\ "wake" \notin OwnerAt /\ "wait" \notin OwnerAt
  /\ "xchg" \notin OwnerAt /\ "rewait" \notin OwnerAt /\ "result" \notin OwnerAt
  /\ "none" \notin OwnedAt /\ "start" \notin OwnedAt
  /\ "nomem" \notin OwnedAt /\ "tell" \notin OwnedAt
BY DEF OwnerAt, OwnedAt

\* Before the first call there is no request, no thread and nothing to free.
LEMMA InitIInv == Init => IInv
<1> SUFFICES ASSUME Init PROVE IInv
  OBVIOUS
<1> USE DEF Init
<1>1. TypeOK
  BY SMT DEF TypeOK, CreatorAt, ThreadAt, TASK_RUNNING
<1>2. Range(kthread_create_list) = {} /\ NoDup(kthread_create_list)
  BY SMT DEF Range, NoDup
<1>3. InfoOwned
  BY KthreadConstants DEF InfoOwned, OwnerAt
<1>4. OnePlace
  BY <1>2, RangeSeq, KthreadConstants DEF OnePlace, Idle, TypeOK
<1>5. DoneExact /\ TellExact /\ ServedExact
  BY <1>2 DEF DoneExact, TellExact, ServedExact
<1>6. LiveExact
  BY <1>2, KthreadConstants DEF LiveExact, InService, Creating
<1> QED BY <1>1, <1>3, <1>4, <1>5, <1>6 DEF IInv

\* Most steps leave the requests as they are: those of owned threads and of their
\* owners that end no call, kthreadd's when it has no request at hand, and those
\* of a creator that waits.  A new thread is asleep until it is owned.
LEMMA QuietStep ==
  ASSUME None \notin Creators \cup Infos, IInv, TypeOK', info' = info,
         completed' = completed, UNCHANGED create, kinfo' = kinfo, kdone' = kdone,
         tdone' = tdone,
         \/ kpc' = kpc
         \/ kpc \in Idle /\ kpc' \in Idle
         \/ kpc = "create" /\ kpc' = "failed",
         \A c \in Creators : \/ pc'[c] = pc[c]
                             \/ pc[c] \in OwnerAt /\ pc'[c] \in OwnerAt
                             \/ pc[c] \in Waiting /\ pc'[c] \in Waiting,
         \A r \in Infos : \/ tpc'[r] = tpc[r]
                          \/ /\ tpc[r] \in OwnedAt /\ tpc'[r] \in OwnedAt
                             /\ tpc[r] # "new" \/ state[r] # TASK_UNINTERRUPTIBLE,
         \A r \in Infos : \/ state'[r] = state[r]
                          \/ state[r] # TASK_UNINTERRUPTIBLE
                          \/ tpc[r] # "new"
                          \/ \E c \in Creators : pc[c] \in OwnerAt /\ info[c] = r
  PROVE  IInv'
<1> USE Places DEF IInv, create, Idle, Waiting
<1>1. InfoOwned'
  BY ZenonT(60) DEF InfoOwned
<1>2. OnePlace'
  BY ZenonT(30) DEF OnePlace
<1>3. DoneExact'
  <2>1. \A r \in Infos : AtDoor(r)' = AtDoor(r)
    BY ZenonT(30) DEF AtDoor
  <2>2. ASSUME NEW r \in Infos, done'[r] # None
        PROVE  /\ done'[r] \in Creators /\ AtDoor(r)' /\ info'[done'[r]] = r
               /\ pc'[done'[r]] \in Waiting
    BY SMT, <2>1, <2>2 DEF DoneExact
  <2>3. ASSUME NEW c \in Creators, info'[c] # None, AtDoor(info[c])'
        PROVE  done'[info'[c]] = c
    BY SMT, <2>3 DEF DoneExact, InfoOwned, AtDoor
  <2> QED BY <2>2, <2>3 DEF DoneExact
<1>4. TellExact'
  BY SMT DEF TellExact, Waits
<1>5. ASSUME NEW c \in Creators, Served(c), pc[c] \notin OwnerAt, info[c] \in Infos
      PROVE  Served(c)'
  <2>1. \A d \in Creators : pc[d] \in OwnerAt => info[d] # info[c]
    BY ZenonT(60), <1>5 DEF InfoOwned
  <2>2. tpc'[info[c]] = tpc[info[c]]
    BY ZenonT(40), <1>5, <2>1 DEF Served
  <2> QED BY ZenonT(30), <1>5, <2>1, <2>2 DEF Served, InService
<1>6. ServedExact'
  BY ZenonT(40), <1>5 DEF ServedExact, InfoOwned
<1>7. LiveExact'
  BY SMT DEF LiveExact, InService, Creating
<1> QED BY <1>1, <1>2, <1>3, <1>4, <1>6, <1>7

\* Every step keeps the types.
LEMMA NextTypeOK == IInv /\ [Next]_vars => TypeOK'
<1> SUFFICES ASSUME IInv, [Next]_vars PROVE TypeOK'
  OBVIOUS
<1>1. TypeOK /\ OnePlace /\ TellExact
  BY DEF IInv
<1>10. \A c \in Creators : pc[c] # "out" => info[c] \in Infos
  BY DEF IInv, InfoOwned, TypeOK
<1>11. /\ {"out", "wake", "wait", "xchg", "rewait", "result", "own", "park_wake", "park_wait",
            "parked", "unpark_wake"} \subseteq CreatorAt
       /\ {"stop_unpark", "stop_unpark_wake", "stop_wake", "stop_wait"} \subseteq CreatorAt
       /\ {"none", "start", "nomem", "tell", "new", "parkme", "parktest"} \subseteq ThreadAt
       /\ {"parkdone", "parked", "fn", "fntest", "fnsleep", "exited"} \subseteq ThreadAt
  BY DEF CreatorAt, ThreadAt
<1>12. /\ \A c \in Creators, to \in CreatorAt : Goto(c, to) => pc' \in [Creators -> CreatorAt]
       /\ \A r \in Infos, from, to \in ThreadAt : At(r, from, to) => tpc' \in [Infos -> ThreadAt]
  <2>1. pc \in [Creators -> CreatorAt] /\ tpc \in [Infos -> ThreadAt]
    BY <1>1 DEF TypeOK
  <2>2. \A c \in Creators, to \in CreatorAt : Goto(c, to) => pc' \in [Creators -> CreatorAt]
    BY <2>1 DEF Goto
  <2>3. \A r \in Infos, from, to \in ThreadAt : At(r, from, to) => tpc' \in [Infos -> ThreadAt]
    BY <2>1 DEF At
  <2> QED BY <2>2, <2>3
<1>13. /\ \A r \in Infos : Free(r) => /\ live' \subseteq Infos
                                     /\ result' \in [Infos -> {"undefined", "error", "thread"}]
       /\ \A c \in Creators : Leave(c) => /\ pc' \in [Creators -> CreatorAt]
                                         /\ info' \in [Creators -> Infos \cup {None}]
                                         /\ killed' \subseteq Creators
  <2>1. ASSUME NEW r \in Infos, Free(r)
        PROVE  /\ live' \subseteq Infos
               /\ result' \in [Infos -> {"undefined", "error", "thread"}]
    BY <1>1, <2>1 DEF TypeOK, Free
  <2>2. ASSUME NEW c \in Creators, Leave(c)
        PROVE  info' \in [Creators -> Infos \cup {None}] /\ killed' \subseteq Creators
    BY <1>1, <2>2 DEF TypeOK, Leave
  <2>3. ASSUME NEW c \in Creators, Leave(c) PROVE pc' \in [Creators -> CreatorAt]
    BY <1>11, <1>12, <2>3 DEF Leave
  <2> QED BY <2>1, <2>2, <2>3
<1>14. \A r \in Infos : Woken(r) \in [Infos -> {TASK_RUNNING, TASK_INTERRUPTIBLE,
                                               TASK_UNINTERRUPTIBLE, TASK_PARKED}]
  BY <1>1 DEF TypeOK, Woken
<1> USE <1>1, <1>11, <1>12 DEF TypeOK, creators, create, kthreadd, thread
<1>2. ASSUME NEW c \in Creators, NEW r \in Infos, CreateQueue(c, r) PROVE TypeOK'
  BY SMT, <1>2 DEF CreateQueue
<1>3. ASSUME NEW c \in Creators, CreateReturns(c) PROVE TypeOK'
  <2>1. CASE CreateWake(c)
    BY <2>1 DEF CreateWake
  <2>2. CASE CreateWait(c)
    BY <2>2 DEF CreateWait
  <2>3. CASE CreateGiveUp(c)
    BY <1>10, <1>13, <2>3 DEF CreateGiveUp
  <2>4. CASE CreateRewait(c)
    BY <2>4 DEF CreateRewait
  <2>5. CASE CreateResult(c)
    BY <1>10, <1>13, <2>5 DEF CreateResult
  <2> QED BY <1>3, <2>1, <2>2, <2>3, <2>4, <2>5 DEF CreateReturns
<1>4. ASSUME NEW c \in Creators, Kill(c) PROVE TypeOK'
  BY <1>4 DEF Kill
<1>5. ASSUME NEW c \in Creators, Controls(c) PROVE TypeOK'
  <2> USE <1>10
  <2>0. UNCHANGED elsewhere
    BY <1>5 DEF Controls
  <2> USE <2>0 DEF elsewhere
  <2>1. CASE WakeThread(c)
    BY ZenonT(40), <1>14, <2>1 DEF WakeThread
  <2>2. CASE KthreadPark(c)
    BY ZenonT(40), <2>2 DEF KthreadPark
  <2>3. CASE Unpark(c, "parked", "unpark_wake")
    BY <2>3 DEF Unpark
  <2>4. CASE KthreadStop(c)
    BY <2>4 DEF KthreadStop
  <2> QED BY <1>5, <2>1, <2>2, <2>3, <2>4 DEF Controls
<1>6. ASSUME NEW c \in Creators, ControlsReturn(c) PROVE TypeOK'
  <2> USE <1>10
  <2>0. UNCHANGED elsewhere
    BY <1>6 DEF ControlsReturn
  <2> USE <2>0 DEF elsewhere
  <2>1. CASE KthreadParkWake(c)
    BY <1>14, <2>1 DEF KthreadParkWake
  <2>2. CASE KthreadParkWait(c)
    <3>1. parked' \in [Infos -> Nat]
      <4>1. info[c] \in Infos /\ parked[info[c]] \in Nat /\ parked[info[c]] > 0
        BY <1>10, <2>2 DEF KthreadParkWait
      <4>2. parked[info[c]] - 1 \in Nat
        BY SMT, <4>1
      <4> QED BY <2>2, <4>1, <4>2 DEF KthreadParkWait
    <3> QED BY <2>2, <3>1 DEF KthreadParkWait
  <2>3. CASE UnparkWake(c, "unpark_wake", "own")
    BY <2>3 DEF UnparkWake
  <2>4. CASE Unpark(c, "stop_unpark", "stop_unpark_wake")
    BY <2>4 DEF Unpark
  <2>5. CASE UnparkWake(c, "stop_unpark_wake", "stop_wake")
    BY <2>5 DEF UnparkWake
  <2>6. CASE KthreadStopWake(c)
    BY <1>14, <2>6 DEF KthreadStopWake
  <2>7. CASE KthreadStopWait(c)
    BY <2>7 DEF KthreadStopWait
  <2> QED BY <1>6, <2>1, <2>2, <2>3, <2>4, <2>5, <2>6, <2>7 DEF ControlsReturn
<1>7. CASE Kthreadd
  <2>1. CASE KthreaddSet
    BY <2>1 DEF KthreaddSet
  <2>2. CASE KthreaddTest
    BY <2>2 DEF KthreaddTest
  <2>3. CASE KthreaddWoken
    BY <2>3 DEF KthreaddWoken
  <2>4. CASE KthreaddTake
    <3>1. kthread_create_list # <<>> =>
            Head(kthread_create_list) \in Infos /\ Tail(kthread_create_list) \in Seq(Infos)
      BY SMT
    <3>2. /\ kthread_create_list' \in Seq(Infos) /\ kinfo' \in Infos \cup {None}
          /\ kpc' \in {"set", "create"}
      BY <2>4, <3>1 DEF KthreaddTake
    <3> QED BY <2>4, <3>2 DEF KthreaddTake
  <2>5. CASE CreateKthread
    <3>1. kinfo \in Infos
      BY <2>5 DEF CreateKthread, OnePlace, Idle
    <3>2. tpc' \in [Infos -> ThreadAt]
      BY ZenonT(30), <2>5, <3>1 DEF CreateKthread
    <3> QED BY <2>5, <3>2 DEF CreateKthread
  <2>6. CASE CreateFailed
    BY ZenonT(40), <1>13, <2>6 DEF CreateFailed, OnePlace, Idle
  <2>7. CASE CreateFailedTell
    <3>1. kinfo \in Infos /\ kdone \in Creators
      BY <2>7 DEF CreateFailedTell, TellExact, OnePlace, Idle
    <3> QED BY <2>7, <3>1 DEF CreateFailedTell
  <2> QED BY <1>7, <2>1, <2>2, <2>3, <2>4, <2>5, <2>6, <2>7 DEF Kthreadd
<1>8. ASSUME NEW r \in Infos, Thread(r) \/ WorkArrives(r) PROVE TypeOK'
  <2>1. CASE ThreadStart(r)
    <3>1. CASE done[r] = None
      BY <1>13, <2>1, <3>1 DEF ThreadStart
    <3>2. CASE done[r] # None
      BY <2>1, <3>2 DEF ThreadStart
    <3> QED BY <3>1, <3>2
  <2>2. CASE ThreadNoMemory(r)
    <3>1. tdone[r] \in Creators
      BY <2>2 DEF ThreadNoMemory, At, TellExact
    <3> QED BY <2>2, <3>1 DEF ThreadNoMemory
  <2>3. CASE ThreadTell(r)
    <3>1. tdone[r] \in Creators
      BY <2>3 DEF ThreadTell, At, TellExact
    <3> QED BY <2>3, <3>1 DEF ThreadTell
  <2>4. CASE ThreadRuns(r)
    <3>0. UNCHANGED <<creators, completed, create, kthreadd, tdone, flags, asked>>
      BY <2>4 DEF ThreadRuns
    <3> USE <3>0
    <3>1. CASE ThreadWoken(r)
      BY <3>1 DEF ThreadWoken
    <3>2. CASE FnSet(r)
      BY <3>2 DEF FnSet
    <3>3. CASE FnTest(r)
      <4>1. tpc' \in [Infos -> ThreadAt]
        BY <3>3 DEF FnTest
      <4> QED BY <3>3, <4>1 DEF FnTest
    <3>4. CASE FnWoken(r)
      BY <3>4 DEF FnWoken
    <3>5. CASE ParkmeSet(r)
      BY <3>5 DEF ParkmeSet
    <3>6. CASE ParkmeTest(r)
      BY <3>6 DEF ParkmeTest
    <3>7. CASE ParkmeComplete(r)
      BY SMT, <3>7 DEF ParkmeComplete
    <3>8. CASE ParkmeWoken(r)
      BY <3>8 DEF ParkmeWoken
    <3> QED BY <2>4, <3>1, <3>2, <3>3, <3>4, <3>5, <3>6, <3>7, <3>8 DEF ThreadRuns
  <2>5. CASE WorkArrives(r)
    <3>1. asked' \subseteq Infos
      BY <2>5 DEF WorkArrives
    <3> QED BY <1>14, <2>5, <3>1 DEF WorkArrives
  <2> QED BY <1>8, <2>1, <2>2, <2>3, <2>4, <2>5 DEF Thread
<1>9. CASE UNCHANGED vars
  BY <1>9 DEF vars
<1> QED
  BY <1>2, <1>3, <1>4, <1>5, <1>6, <1>7, <1>8, <1>9 DEF Next, Calls, Returns

-----------------------------------------------------------------------------
\* What the creators and kthreadd do to a request, up to the start of the thread.

\* A fresh request is nobody else's.
LEMMA CreateQueueIInv ==
  ASSUME None \notin Creators \cup Infos, IInv, TypeOK', NEW c \in Creators, NEW r \in Infos,
         CreateQueue(c, r)
  PROVE  IInv'
<1>1. /\ pc[c] = "out" /\ tpc[r] = "none" /\ \A d \in Creators : info[d] # r
      /\ r \notin Range(kthread_create_list) /\ r # kinfo /\ done[r] = None
  BY DEF CreateQueue, IInv, LiveExact, InService, DoneExact, AtDoor
<1>2. /\ NoDup(kthread_create_list')
      /\ Range(kthread_create_list') = Range(kthread_create_list) \cup {r}
      /\ pc'[c] = "wake" /\ info'[c] = r /\ done'[r] = c
      /\ \A d \in Creators : d # c => pc'[d] = pc[d] /\ info'[d] = info[d]
      /\ \A q \in Infos : q # r => done'[q] = done[q]
      /\ live' = live \cup {r} /\ completed' = completed /\ result' = result
      /\ kpc' = kpc /\ kinfo' = kinfo /\ kdone' = kdone
      /\ tpc' = tpc /\ tdone' = tdone /\ state' = state
  BY SMT, <1>1, AppendList DEF CreateQueue, IInv, OnePlace, Goto, TypeOK, kthreadd, thread
<1>3. InfoOwned'
  BY SMT, <1>1, <1>2, Places DEF IInv, InfoOwned
<1>4. OnePlace'
  BY <1>1, <1>2 DEF IInv, OnePlace, Idle
<1>5. DoneExact'
  <2>1. ASSUME NEW q \in Infos, done'[q] # None
        PROVE  /\ done'[q] \in Creators /\ AtDoor(q)' /\ info'[done'[q]] = q
               /\ pc'[done'[q]] \in Waiting
    BY SMT, <2>1, <1>1, <1>2 DEF IInv, InfoOwned, DoneExact, AtDoor, Waiting
  <2>2. ASSUME NEW d \in Creators, info'[d] # None, AtDoor(info[d])' PROVE done'[info'[d]] = d
    BY SMT, <2>2, <1>1, <1>2 DEF IInv, InfoOwned, DoneExact, AtDoor, Waiting
  <2> QED BY <2>1, <2>2 DEF DoneExact
<1>6. TellExact'
  BY SMT, <1>1, <1>2 DEF IInv, TellExact, Waits, Waiting
<1>7. ServedExact'
  <2>1. ASSUME NEW d \in completed'
        PROVE  d \in Creators /\ pc'[d] \in Waiting \cup {"rewait"} /\ Served(d)'
    BY SMTT(30), <2>1, <1>1, <1>2 DEF IInv, InfoOwned, ServedExact, Served, InService, Waiting
  <2>2. ASSUME NEW d \in Creators, pc'[d] = "result" PROVE Served(d)'
    BY SMTT(30), <2>2, <1>1, <1>2 DEF IInv, InfoOwned, ServedExact, Served, InService, Waiting
  <2> QED BY <2>1, <2>2 DEF ServedExact
<1>8. LiveExact'
  BY SMT, <1>1, <1>2 DEF IInv, InfoOwned, OnePlace, LiveExact, InService, Creating
<1> QED BY <1>3, <1>4, <1>5, <1>6, <1>7, <1>8 DEF IInv

\* wait_for_completion() returns: the request has been served.
LEMMA CompletedIInv ==
  ASSUME None \notin Creators \cup Infos, IInv, TypeOK', NEW c \in Creators, c \in completed,
         pc[c] \in {"wait", "rewait"}, Goto(c, "result"), completed' = completed \ {c},
         UNCHANGED <<info, create, kthreadd, thread>>
  PROVE  IInv'
<1>1. Served(c) /\ ~AtDoor(info[c]) /\ \A q \in Infos : done[q] # c
  BY SMT DEF IInv, ServedExact, Served, InfoOwned, InService, AtDoor, DoneExact
<1>2. /\ pc'[c] = "result" /\ \A d \in Creators : d # c => pc'[d] = pc[d]
      /\ info' = info /\ kthread_create_list' = kthread_create_list /\ live' = live
      /\ done' = done /\ result' = result
      /\ kpc' = kpc /\ kinfo' = kinfo /\ kdone' = kdone
      /\ tpc' = tpc /\ tdone' = tdone /\ state' = state
  BY DEF IInv, Goto, TypeOK, create, kthreadd, thread
<1>3. InfoOwned'
  BY ZenonT(40), <1>1, <1>2, Places DEF IInv, InfoOwned
<1>4. OnePlace'
  BY <1>1, <1>2 DEF IInv, OnePlace, Idle
<1>5. DoneExact'
  <2>1. ASSUME NEW q \in Infos, done'[q] # None
        PROVE  /\ done'[q] \in Creators /\ AtDoor(q)' /\ info'[done'[q]] = q
               /\ pc'[done'[q]] \in Waiting
    <3>1. done'[q] = done[q] /\ done[q] # None
      BY <2>1, <1>2
    <3>2. done[q] \in Creators /\ AtDoor(q) /\ info[done[q]] = q /\ pc[done[q]] \in Waiting
      BY <3>1 DEF IInv, DoneExact
    <3> QED BY <1>1, <1>2, <3>1, <3>2 DEF AtDoor
  <2>2. ASSUME NEW d \in Creators, info'[d] # None, AtDoor(info[d])' PROVE done'[info'[d]] = d
    BY SMT, <2>2, <1>1, <1>2 DEF IInv, InfoOwned, DoneExact, AtDoor, Waiting
  <2> QED BY <2>1, <2>2 DEF DoneExact
<1>6. TellExact'
  BY ZenonT(40), <1>1, <1>2 DEF IInv, TellExact, Waits, Waiting
<1>7. ServedExact'
  <2>1. ASSUME NEW d \in completed'
        PROVE  d \in Creators /\ pc'[d] \in Waiting \cup {"rewait"} /\ Served(d)'
    BY SMT, <2>1, <1>1, <1>2 DEF IInv, InfoOwned, ServedExact, Served, InService, Waiting
  <2>2. ASSUME NEW d \in Creators, pc'[d] = "result" PROVE Served(d)'
    BY SMT, <2>2, <1>1, <1>2 DEF IInv, InfoOwned, ServedExact, Served, InService, Waiting
  <2> QED BY <2>1, <2>2 DEF ServedExact
<1>8. LiveExact'
  BY SMT, <1>1, <1>2 DEF IInv, InfoOwned, OnePlace, LiveExact, InService, Creating
<1> QED BY <1>3, <1>4, <1>5, <1>6, <1>7, <1>8 DEF IInv

\* A killed creator takes its name off the request, or waits for whoever has it.
LEMMA GiveUpIInv ==
  ASSUME None \notin Creators \cup Infos, IInv, TypeOK', NEW c \in Creators, CreateGiveUp(c)
  PROVE  IInv'
<1>1. /\ pc[c] = "xchg" /\ info[c] \in Infos
      /\ done[info[c]] # None <=> AtDoor(info[c])
      /\ \A d \in Creators : info[d] = info[c] => d = c
      /\ AtDoor(info[c]) => c \notin completed
  BY SMT DEF CreateGiveUp, IInv, InfoOwned, DoneExact, ServedExact, Served, InService, AtDoor
<1>2. /\ done[info[c]] # None => pc'[c] = "out" /\ info'[c] = None
      /\ done[info[c]] = None => pc'[c] = "rewait" /\ info'[c] = info[c]
      /\ \A d \in Creators : d # c => pc'[d] = pc[d] /\ info'[d] = info[d]
      /\ done'[info[c]] = None /\ \A q \in Infos : q # info[c] => done'[q] = done[q]
      /\ completed' = completed /\ kthread_create_list' = kthread_create_list /\ live' = live
      /\ result' = result
      /\ kpc' = kpc /\ kinfo' = kinfo /\ kdone' = kdone
      /\ tpc' = tpc /\ tdone' = tdone /\ state' = state
  BY SMTT(30), <1>1 DEF CreateGiveUp, Goto, Leave, IInv, TypeOK, kthreadd, thread
<1>3. InfoOwned'
  BY SMT, <1>1, <1>2, Places DEF IInv, InfoOwned
<1>4. OnePlace'
  BY <1>1, <1>2 DEF IInv, OnePlace, Idle
<1>5. DoneExact'
  <2>1. ASSUME NEW q \in Infos, done'[q] # None
        PROVE  /\ done'[q] \in Creators /\ AtDoor(q)' /\ info'[done'[q]] = q
               /\ pc'[done'[q]] \in Waiting
    <3>0. q # info[c]
      BY <2>1, <1>2
    <3>1. done'[q] = done[q] /\ done[q] # None
      BY <2>1, <1>2, <3>0
    <3>2. done[q] \in Creators /\ AtDoor(q) /\ info[done[q]] = q /\ pc[done[q]] \in Waiting
      BY <3>1 DEF IInv, DoneExact
    <3>3. done[q] # c
      BY <3>0, <3>2
    <3> QED BY <1>2, <3>1, <3>2, <3>3 DEF AtDoor
  <2>2. ASSUME NEW d \in Creators, info'[d] # None, AtDoor(info[d])' PROVE done'[info'[d]] = d
    <3>1. info'[d] = info[d] /\ info[d] \in Infos
      BY <1>1, <1>2, <2>2 DEF IInv, InfoOwned
    <3>2. AtDoor(info[d])
      BY <1>2, <2>2, <3>1 DEF AtDoor
    <3>3. d # c
      BY <1>1, <1>2, <2>2, <3>2
    <3>4. info[d] # info[c] /\ done'[info[d]] = done[info[d]]
      BY <1>1, <1>2, <3>1, <3>3
    <3> QED BY <2>2, <3>1, <3>2, <3>4 DEF IInv, DoneExact
  <2> QED BY <2>1, <2>2 DEF DoneExact
<1>6. TellExact'
  <2>1. ASSUME NEW d \in Creators, NEW q, Waits(d, q), ~AtDoor(q) PROVE Waits(d, q)'
    BY <1>1, <1>2, <2>1 DEF Waits
  <2>2. ASSUME NEW q \in Infos, tpc'[q] \in {"nomem", "tell"}
        PROVE  tdone'[q] \in Creators /\ Waits(tdone[q], q)' /\ tdone'[q] \notin completed'
    <3>1. tdone[q] \in Creators /\ Waits(tdone[q], q) /\ tdone[q] \notin completed
      BY <1>2, <2>2 DEF IInv, TellExact
    <3>2. ~AtDoor(q)
      BY <1>2, <2>2 DEF IInv, OnePlace, AtDoor
    <3>3. PICK d \in Creators : d = tdone[q]
      BY <3>1
    <3> QED BY <1>2, <2>1, <3>1, <3>2, <3>3 DEF Waits
  <2>3. ASSUME kpc' = "tell"
        PROVE  kdone' \in Creators /\ Waits(kdone, kinfo)' /\ kdone' \notin completed'
    <3>1. kdone \in Creators /\ Waits(kdone, kinfo) /\ kdone \notin completed
      BY <1>2, <2>3 DEF IInv, TellExact
    <3>2. ~AtDoor(kinfo)
      <4>1. kpc = "tell"
        BY <1>2, <2>3
      <4>2. kinfo \notin Range(kthread_create_list) /\ tpc[kinfo] = "none"
        BY <4>1 DEF IInv, OnePlace, Idle
      <4> QED BY <4>1, <4>2 DEF AtDoor
    <3>3. PICK d \in Creators, q \in {kinfo} : d = kdone
      BY <3>1
    <3> QED BY <1>2, <2>1, <3>1, <3>2, <3>3 DEF Waits
  <2> QED BY <2>2, <2>3 DEF TellExact
<1>7. ServedExact'
  <2>1. ASSUME NEW d \in Creators, d # c, pc[d] # "out", Served(d) PROVE Served(d)'
    <3>1. info'[d] = info[d] /\ info[d] \in Infos /\ info[d] # info[c]
      BY <1>1, <1>2, <2>1 DEF IInv, InfoOwned
    <3>2. result'[info[d]] = result[info[d]]
      BY <1>2, <3>1
    <3> QED BY <1>2, <2>1, <3>1, <3>2 DEF Served, InService
  <2>2. ASSUME NEW d \in completed'
        PROVE  d \in Creators /\ pc'[d] \in Waiting \cup {"rewait"} /\ Served(d)'
    <3>1. d \in Creators /\ pc[d] \in Waiting \cup {"rewait"} /\ Served(d)
      BY <1>2, <2>2 DEF IInv, ServedExact
    <3>2. CASE d # c
      BY <1>2, <2>1, <3>1, <3>2 DEF Waiting
    <3>3. CASE d = c
      <4>1. pc'[c] = "rewait" /\ info'[c] = info[c]
        BY <1>1, <1>2, <2>2, <3>3
      <4> QED BY <1>2, <3>1, <3>3, <4>1 DEF Served, InService
    <3> QED BY <3>2, <3>3
  <2>3. ASSUME NEW d \in Creators, pc'[d] = "result" PROVE Served(d)'
    <3>1. d # c /\ pc[d] = "result"
      BY <1>2, <2>3
    <3>2. Served(d)
      BY <3>1 DEF IInv, ServedExact
    <3> QED BY <2>1, <3>1, <3>2
  <2> QED BY <2>2, <2>3 DEF ServedExact
<1>8. LiveExact'
  BY SMTT(30), <1>1, <1>2 DEF IInv, InfoOwned, OnePlace, LiveExact, InService, Creating, AtDoor
<1> QED BY <1>3, <1>4, <1>5, <1>6, <1>7, <1>8 DEF IInv

\* The creator frees a request that nobody else can reach, and may own a thread.
LEMMA ResultIInv ==
  ASSUME None \notin Creators \cup Infos, IInv, TypeOK', NEW c \in Creators, CreateResult(c)
  PROVE  IInv'
<1>1. /\ pc[c] = "result" /\ info[c] \in Infos /\ Served(c) /\ c \notin completed
      /\ ~AtDoor(info[c]) /\ \A d \in Creators : info[d] = info[c] => d = c
  BY SMTT(30) DEF CreateResult, IInv, InfoOwned, ServedExact, Served, InService, AtDoor, Waiting
<1>2. /\ \/ pc'[c] = "own" /\ info'[c] = info[c] /\ tpc[info[c]] = "new"
         \/ pc'[c] = "out" /\ info'[c] = None
      /\ \A d \in Creators : d # c => pc'[d] = pc[d] /\ info'[d] = info[d]
      /\ live' = live \ {info[c]} /\ \A q \in Infos : q # info[c] => result'[q] = result[q]
      /\ completed' = completed /\ kthread_create_list' = kthread_create_list /\ done' = done
      /\ kpc' = kpc /\ kinfo' = kinfo /\ kdone' = kdone
      /\ tpc' = tpc /\ tdone' = tdone /\ state' = state
  BY SMTT(30), <1>1 DEF CreateResult, Served, Free, Goto, Leave, IInv, TypeOK, kthreadd, thread
<1>3. InfoOwned'
  BY SMT, <1>1, <1>2, Places DEF IInv, InfoOwned
<1>4. OnePlace'
  BY <1>1, <1>2 DEF IInv, OnePlace, Idle
<1>5. DoneExact'
  <2>1. ASSUME NEW q \in Infos, done'[q] # None
        PROVE  /\ done'[q] \in Creators /\ AtDoor(q)' /\ info'[done'[q]] = q
               /\ pc'[done'[q]] \in Waiting
    <3>1. done'[q] = done[q] /\ done[q] # None
      BY <2>1, <1>2
    <3>2. done[q] \in Creators /\ AtDoor(q) /\ info[done[q]] = q /\ pc[done[q]] \in Waiting
      BY <3>1 DEF IInv, DoneExact
    <3>3. done[q] # c
      BY <1>1, <3>2 DEF Waiting
    <3> QED BY <1>2, <3>1, <3>2, <3>3 DEF AtDoor
  <2>2. ASSUME NEW d \in Creators, info'[d] # None, AtDoor(info[d])' PROVE done'[info'[d]] = d
    <3>1. info'[d] = info[d] /\ info[d] \in Infos
      BY <1>1, <1>2, <2>2 DEF IInv, InfoOwned
    <3>2. AtDoor(info[d])
      BY <1>2, <2>2, <3>1 DEF AtDoor
    <3>3. d # c
      BY <1>1, <1>2, <2>2, <3>2
    <3>4. info[d] # info[c] /\ done'[info[d]] = done[info[d]]
      BY <1>1, <1>2, <3>1, <3>3
    <3> QED BY <2>2, <3>1, <3>2, <3>4 DEF IInv, DoneExact
  <2> QED BY <2>1, <2>2 DEF DoneExact
<1>6. TellExact'
  <2>1. ASSUME NEW d \in Creators, NEW q, Waits(d, q) PROVE Waits(d, q)'
    BY <1>1, <1>2, <2>1 DEF Waits
  <2>2. ASSUME NEW q \in Infos, tpc'[q] \in {"nomem", "tell"}
        PROVE  tdone'[q] \in Creators /\ Waits(tdone[q], q)' /\ tdone'[q] \notin completed'
    <3>1. tdone[q] \in Creators /\ Waits(tdone[q], q) /\ tdone[q] \notin completed
      BY <1>2, <2>2 DEF IInv, TellExact
    <3>2. PICK d \in Creators : d = tdone[q]
      BY <3>1
    <3> QED BY <1>2, <2>1, <3>1, <3>2 DEF Waits
  <2>3. ASSUME kpc' = "tell"
        PROVE  kdone' \in Creators /\ Waits(kdone, kinfo)' /\ kdone' \notin completed'
    <3>1. kdone \in Creators /\ Waits(kdone, kinfo) /\ kdone \notin completed
      BY <1>2, <2>3 DEF IInv, TellExact
    <3>2. PICK d \in Creators, q \in {kinfo} : d = kdone
      BY <3>1
    <3> QED BY <1>2, <2>1, <3>1, <3>2 DEF Waits
  <2> QED BY <2>2, <2>3 DEF TellExact
<1>7. ServedExact'
  <2>1. ASSUME NEW d \in Creators, d # c, pc[d] # "out", Served(d) PROVE Served(d)'
    <3>1. info'[d] = info[d] /\ info[d] \in Infos /\ info[d] # info[c]
      BY <1>1, <1>2, <2>1 DEF IInv, InfoOwned
    <3>2. result'[info[d]] = result[info[d]]
      BY <1>2, <3>1
    <3> QED BY <1>2, <2>1, <3>1, <3>2 DEF Served, InService
  <2>2. ASSUME NEW d \in completed'
        PROVE  d \in Creators /\ pc'[d] \in Waiting \cup {"rewait"} /\ Served(d)'
    <3>1. d \in Creators /\ pc[d] \in Waiting \cup {"rewait"} /\ Served(d)
      BY <1>2, <2>2 DEF IInv, ServedExact
    <3>2. d # c /\ pc[d] # "out"
      BY <1>1, <1>2, <2>2, <3>1 DEF Waiting
    <3> QED BY <1>2, <2>1, <3>1, <3>2
  <2>3. ASSUME NEW d \in Creators, pc'[d] = "result" PROVE Served(d)'
    <3>1. d # c /\ pc[d] = "result"
      BY <1>2, <2>3
    <3>2. Served(d)
      BY <3>1 DEF IInv, ServedExact
    <3> QED BY <2>1, <3>1, <3>2
  <2> QED BY <2>2, <2>3 DEF ServedExact
<1>8. LiveExact'
  BY SMT, <1>1, <1>2 DEF IInv, InfoOwned, OnePlace, LiveExact, InService, Creating, Served
<1> QED BY <1>3, <1>4, <1>5, <1>6, <1>7, <1>8 DEF IInv

\* kthreadd takes a request off the list.
LEMMA TakeIInv ==
  ASSUME None \notin Creators \cup Infos, IInv, TypeOK', kpc = "take",
         kthread_create_list # <<>>, KthreaddTake
  PROVE  IInv'
<1>1. /\ kinfo = None /\ kinfo' \in Range(kthread_create_list)
      /\ NoDup(kthread_create_list')
      /\ Range(kthread_create_list') = Range(kthread_create_list) \ {kinfo'}
  <2>1. kthread_create_list \in Seq(Infos) /\ NoDup(kthread_create_list) /\ kinfo = None
    BY DEF IInv, OnePlace, Idle, TypeOK
  <2> QED BY <2>1, TailList DEF KthreaddTake
<1>2. /\ kpc' = "create" /\ kdone' = kdone /\ completed' = completed /\ live' = live
      /\ done' = done /\ result' = result
      /\ pc' = pc /\ info' = info
      /\ tpc' = tpc /\ tdone' = tdone /\ state' = state
  BY DEF KthreaddTake, creators, thread
<1>3. InfoOwned'
  BY <1>1, <1>2, Places DEF IInv, InfoOwned
<1>4. OnePlace'
  BY <1>1, <1>2 DEF IInv, OnePlace, Idle
<1>5. DoneExact'
  <2>1. ASSUME NEW q \in Infos, done'[q] # None
        PROVE  /\ done'[q] \in Creators /\ AtDoor(q)' /\ info'[done'[q]] = q
               /\ pc'[done'[q]] \in Waiting
    BY <2>1, <1>1, <1>2 DEF IInv, InfoOwned, DoneExact, AtDoor, Waiting
  <2>2. ASSUME NEW d \in Creators, info'[d] # None, AtDoor(info[d])' PROVE done'[info'[d]] = d
    BY ZenonT(40), <2>2, <1>1, <1>2 DEF IInv, InfoOwned, DoneExact, AtDoor, Waiting
  <2> QED BY <2>1, <2>2 DEF DoneExact
<1>6. TellExact'
  BY <1>1, <1>2 DEF IInv, TellExact, Waits, Waiting
<1>7. ServedExact'
  <2>1. ASSUME NEW d \in completed'
        PROVE  d \in Creators /\ pc'[d] \in Waiting \cup {"rewait"} /\ Served(d)'
    BY SMT, <2>1, <1>1, <1>2 DEF IInv, InfoOwned, ServedExact, Served, InService, Waiting
  <2>2. ASSUME NEW d \in Creators, pc'[d] = "result" PROVE Served(d)'
    BY <2>2, <1>1, <1>2 DEF IInv, InfoOwned, ServedExact, Served, InService, Waiting
  <2> QED BY <2>1, <2>2 DEF ServedExact
<1>8. LiveExact'
  BY <1>1, <1>2 DEF IInv, InfoOwned, OnePlace, LiveExact, InService, Creating
<1> QED BY <1>3, <1>4, <1>5, <1>6, <1>7, <1>8 DEF IInv

\* The request goes to the thread that starts with it.
LEMMA CreateKthreadIInv ==
  ASSUME None \notin Creators \cup Infos, IInv, TypeOK', kpc = "create", kinfo' = None,
         CreateKthread
  PROVE  IInv'
<1>1. kinfo \in Infos /\ kinfo \notin Range(kthread_create_list) /\ tpc[kinfo] = "none"
  BY DEF IInv, OnePlace, Idle
<1>2. /\ kpc' = "take" /\ tpc'[kinfo] = "start"
      /\ \A q \in Infos : q # kinfo => tpc'[q] = tpc[q]
      /\ kdone' = kdone /\ completed' = completed /\ live' = live /\ done' = done
      /\ result' = result /\ kthread_create_list' = kthread_create_list
      /\ pc' = pc /\ info' = info
      /\ tdone' = tdone /\ state' = state
  BY SMT, <1>1 DEF CreateKthread, creators, create, IInv, TypeOK, thread
<1>3. InfoOwned'
  BY ZenonT(40), <1>1, <1>2, Places DEF IInv, InfoOwned
<1>4. OnePlace'
  BY <1>1, <1>2 DEF IInv, OnePlace, Idle
<1>5. DoneExact'
  <2>1. ASSUME NEW q \in Infos, done'[q] # None
        PROVE  /\ done'[q] \in Creators /\ AtDoor(q)' /\ info'[done'[q]] = q
               /\ pc'[done'[q]] \in Waiting
    BY ZenonT(40), <2>1, <1>1, <1>2 DEF IInv, InfoOwned, DoneExact, AtDoor, Waiting
  <2>2. ASSUME NEW d \in Creators, info'[d] # None, AtDoor(info[d])' PROVE done'[info'[d]] = d
    BY SMT, <2>2, <1>1, <1>2 DEF IInv, InfoOwned, DoneExact, AtDoor, Waiting
  <2> QED BY <2>1, <2>2 DEF DoneExact
<1>6. TellExact'
  BY <1>1, <1>2 DEF IInv, TellExact, Waits, Waiting
<1>7. ServedExact'
  <2>1. ASSUME NEW d \in completed'
        PROVE  d \in Creators /\ pc'[d] \in Waiting \cup {"rewait"} /\ Served(d)'
    BY SMTT(30), <2>1, <1>1, <1>2 DEF IInv, InfoOwned, ServedExact, Served, InService, Waiting
  <2>2. ASSUME NEW d \in Creators, pc'[d] = "result" PROVE Served(d)'
    BY SMT, <2>2, <1>1, <1>2 DEF IInv, InfoOwned, ServedExact, Served, InService, Waiting
  <2> QED BY <2>1, <2>2 DEF ServedExact
<1>8. LiveExact'
  BY ZenonT(40), <1>1, <1>2 DEF IInv, InfoOwned, OnePlace, LiveExact, InService, Creating
<1> QED BY <1>3, <1>4, <1>5, <1>6, <1>7, <1>8 DEF IInv

-----------------------------------------------------------------------------
\* What is done to a request from there on, and every other step.

\* A step on a request keeps what create->done says of the other requests.
LEMMA DoneFrame ==
  ASSUME IInv, NEW r \in Infos, pc' = pc, info' = info, done'[r] = None, ~AtDoor(r)',
         \A q \in Infos : q # r => done'[q] = done[q],
         \A q \in Infos : q # r => (AtDoor(q)' <=> AtDoor(q))
  PROVE  DoneExact'
<1>1. ASSUME NEW q \in Infos, done'[q] # None
      PROVE  /\ done'[q] \in Creators /\ AtDoor(q)' /\ info'[done'[q]] = q
             /\ pc'[done'[q]] \in Waiting
  <2>1. q # r /\ done'[q] = done[q] /\ done[q] # None
    BY <1>1
  <2>2. done[q] \in Creators /\ AtDoor(q) /\ info[done[q]] = q /\ pc[done[q]] \in Waiting
    BY <2>1 DEF IInv, DoneExact
  <2> QED BY <2>1, <2>2
<1>2. ASSUME NEW d \in Creators, NEW q \in Infos, info[d] = q, AtDoor(q)' PROVE done'[q] = d
  <2>1. q # r /\ AtDoor(q) /\ info[d] # None
    BY <1>2, KthreadConstants
  <2> QED BY <1>2, <2>1 DEF IInv, DoneExact
<1>3. ASSUME NEW d \in Creators, info'[d] # None, AtDoor(info[d])' PROVE done'[info'[d]] = d
  <2>1. info'[d] = info[d] /\ info[d] \in Infos
    BY <1>3 DEF IInv, InfoOwned
  <2> QED BY <1>2, <1>3, <2>1 DEF AtDoor
<1> QED BY <1>1, <1>3 DEF DoneExact

\* A step on a request keeps what has been served of the others.
LEMMA ServedFrame ==
  ASSUME IInv, NEW r \in Infos, pc' = pc, info' = info,
         \A q \in Infos : q # r => (InService(q)' <=> InService(q)),
         \A q \in Infos : q # r => /\ tpc'[q] = tpc[q] /\ result'[q] = result[q]
                                   /\ state'[q] = state[q],
         \A d \in completed' : d \in Creators /\ (d \in completed \/ Waits(d, r)),
         \A d \in Creators : info[d] = r /\ (d \in completed' \/ pc[d] = "result") => Served(d)'
  PROVE  ServedExact'
<1>1. ASSUME NEW d \in Creators, pc[d] # "out", info[d] # r, Served(d) PROVE Served(d)'
  <2>1. PICK q \in Infos : q = info[d] /\ q # r
    BY <1>1 DEF IInv, InfoOwned
  <2>2. info'[d] = q /\ ~InService(q)'
    BY <1>1, <2>1 DEF Served
  <2>3. tpc'[q] = tpc[q] /\ result'[q] = result[q] /\ state'[q] = state[q]
    BY <2>1
  <2>4. ~InService(info[d])'
    BY <2>2 DEF InService
  <2> QED BY <1>1, <2>1, <2>2, <2>3, <2>4 DEF Served
<1>2. ASSUME NEW d \in completed'
      PROVE  d \in Creators /\ pc'[d] \in Waiting \cup {"rewait"} /\ Served(d)'
  <2>1. d \in Creators /\ pc[d] \in Waiting \cup {"rewait"} /\ pc[d] # "out"
    BY <1>2 DEF IInv, ServedExact, Waits, Waiting
  <2>2. CASE info[d] = r
    BY <1>2, <2>1, <2>2
  <2>3. CASE info[d] # r
    <3>1. Served(d)
      BY <1>2, <2>3 DEF IInv, ServedExact, Waits
    <3> QED BY <1>1, <2>1, <2>3, <3>1
  <2> QED BY <2>2, <2>3
<1>3. ASSUME NEW d \in Creators, pc'[d] = "result" PROVE Served(d)'
  <2>1. pc[d] = "result" /\ Served(d)
    BY <1>3 DEF IInv, ServedExact
  <2> QED BY <1>1, <2>1
<1> QED BY <1>2, <1>3 DEF ServedExact

\* Without a thread kthreadd frees the request, or owes its creator an answer.
LEMMA FailedIInv ==
  ASSUME None \notin Creators \cup Infos, IInv, TypeOK', CreateFailed
  PROVE  IInv'
<1>1. /\ kpc = "failed" /\ kinfo \in Infos /\ AtDoor(kinfo) /\ tpc[kinfo] = "none"
      /\ kinfo \notin Range(kthread_create_list)
      /\ \A c \in Creators : info[c] = kinfo =>
           done[kinfo] = c /\ c \notin completed /\ pc[c] # "result"
  BY SMTT(30)
     DEF CreateFailed, IInv, OnePlace, Idle, AtDoor, DoneExact, ServedExact, Served, InService
<1>2. /\ done'[kinfo] = None /\ \A q \in Infos : q # kinfo => done'[q] = done[q]
      /\ completed' = completed /\ kthread_create_list' = kthread_create_list
      /\ pc' = pc /\ info' = info
      /\ tpc' = tpc /\ tdone' = tdone /\ state' = state
      /\ \/ /\ done[kinfo] = None /\ live' = live \ {kinfo}
            /\ \A q \in Infos : q # kinfo => result'[q] = result[q]
            /\ kpc' = "take" /\ kinfo' = None /\ kdone' = kdone
         \/ /\ done[kinfo] # None /\ live' = live /\ result' = result
            /\ kpc' = "tell" /\ kinfo' = kinfo /\ kdone' = done[kinfo]
  BY SMT, <1>1 DEF CreateFailed, Free, creators, thread, IInv, TypeOK
<1>3. InfoOwned'
  BY <1>1, <1>2, Places DEF IInv, InfoOwned
<1>4. OnePlace'
  BY ZenonT(30), <1>1, <1>2 DEF IInv, OnePlace, Idle
<1>5. DoneExact'
  <2> SUFFICES ASSUME NEW r \in Infos, r = kinfo PROVE DoneExact'
    BY <1>1
  <2>1. done'[r] = None /\ ~AtDoor(r)'
    BY <1>1, <1>2, KthreadConstants DEF AtDoor
  <2>2. \A q \in Infos : q # r => done'[q] = done[q]
    BY <1>2
  <2>3. \A q \in Infos : q # r => (AtDoor(q)' <=> AtDoor(q))
    BY <1>2, KthreadConstants DEF AtDoor
  <2> QED BY <1>2, <2>1, <2>2, <2>3, DoneFrame
<1>6. TellExact'
  <2>1. pc' = pc /\ info' = info
    BY <1>2
  <2>2. ASSUME NEW q \in Infos, tpc'[q] \in {"nomem", "tell"}
        PROVE  /\ tdone'[q] \in Creators /\ Waits(tdone'[q], q) /\ tdone'[q] \notin completed'
    <3>1. tdone[q] \in Creators /\ Waits(tdone[q], q) /\ tdone[q] \notin completed
      BY <1>2, <2>2 DEF IInv, TellExact
    <3> QED BY <1>2, <3>1
  <2>3. kpc' = "tell" => kdone' \in Creators /\ Waits(kdone', kinfo') /\ kdone' \notin completed'
    <3> SUFFICES ASSUME kpc' = "tell"
                 PROVE  kdone' \in Creators /\ Waits(kdone', kinfo') /\ kdone' \notin completed'
      OBVIOUS
    <3>1. done[kinfo] # None /\ kinfo' = kinfo /\ kdone' = done[kinfo] /\ completed' = completed
      BY <1>2
    <3>2. /\ done[kinfo] \in Creators /\ info[done[kinfo]] = kinfo
          /\ pc[done[kinfo]] \in Waiting
      BY <1>1, <3>1 DEF IInv, DoneExact
    <3> QED BY <1>1, <3>1, <3>2 DEF Waits, Waiting
  <2> QED BY <2>1, <2>2, <2>3 DEF TellExact, Waits
<1>7. ServedExact'
  <2> SUFFICES ASSUME NEW r \in Infos, r = kinfo PROVE ServedExact'
    BY <1>1
  <2>1. \A q \in Infos : q # r => (InService(q)' <=> InService(q))
    BY <1>2, KthreadConstants DEF InService
  <2>2. \A q \in Infos : q # r => /\ tpc'[q] = tpc[q] /\ result'[q] = result[q]
                                  /\ state'[q] = state[q]
    BY <1>2
  <2>3. \A d \in completed' : d \in Creators /\ (d \in completed \/ Waits(d, r))
    BY <1>1, <1>2 DEF IInv, ServedExact
  <2>4. \A d \in Creators : info[d] = r => d \notin completed' /\ pc[d] # "result"
    BY <1>1, <1>2
  <2> QED BY ZenonT(30), <1>2, <2>1, <2>2, <2>3, <2>4, ServedFrame
<1>8. LiveExact'
  BY SMTT(30), <1>1, <1>2 DEF IInv, InfoOwned, OnePlace, LiveExact, InService, Creating
<1> QED BY <1>3, <1>4, <1>5, <1>6, <1>7, <1>8 DEF IInv

\* kthreadd tells the creator, which frees the request.
LEMMA FailedTellIInv ==
  ASSUME None \notin Creators \cup Infos, IInv, TypeOK', CreateFailedTell
  PROVE  IInv'
<1>1. /\ kpc = "tell" /\ kinfo \in Infos /\ tpc[kinfo] = "none" /\ done[kinfo] = None
      /\ kinfo \notin Range(kthread_create_list)
      /\ kdone \in Creators /\ Waits(kdone, kinfo)
      /\ \A c \in Creators : info[c] = kinfo => c = kdone
  BY SMT DEF CreateFailedTell, IInv, OnePlace, Idle, TellExact, Waits, InfoOwned, DoneExact,
         AtDoor
<1>2. /\ kpc' = "take" /\ kinfo' = None /\ completed' = completed \cup {kdone}
      /\ result'[kinfo] = "error" /\ \A q \in Infos : q # kinfo => result'[q] = result[q]
      /\ kthread_create_list' = kthread_create_list /\ live' = live /\ done' = done
      /\ pc' = pc /\ info' = info
      /\ tpc' = tpc /\ tdone' = tdone /\ state' = state
  BY ZenonT(40), <1>1 DEF CreateFailedTell, creators, thread, IInv, TypeOK
<1>3. InfoOwned'
  BY <1>1, <1>2, Places DEF IInv, InfoOwned
<1>4. OnePlace'
  BY <1>1, <1>2 DEF IInv, OnePlace, Idle
<1>5. DoneExact'
  <2> SUFFICES ASSUME NEW r \in Infos, r = kinfo PROVE DoneExact'
    BY <1>1
  <2>1. done'[r] = None /\ ~AtDoor(r)'
    BY <1>1, <1>2, KthreadConstants DEF AtDoor
  <2>2. \A q \in Infos : q # r => done'[q] = done[q]
    BY <1>2
  <2>3. \A q \in Infos : q # r => (AtDoor(q)' <=> AtDoor(q))
    BY <1>2, KthreadConstants DEF AtDoor
  <2> QED BY <1>2, <2>1, <2>2, <2>3, DoneFrame
<1>6. TellExact'
  <2>1. pc' = pc /\ info' = info
    BY <1>2
  <2>2. ASSUME NEW q \in Infos, tpc'[q] \in {"nomem", "tell"}
        PROVE  /\ tdone'[q] \in Creators /\ Waits(tdone'[q], q) /\ tdone'[q] \notin completed'
    <3>1. tdone[q] \in Creators /\ Waits(tdone[q], q) /\ tdone[q] \notin completed
      BY <1>2, <2>2 DEF IInv, TellExact
    <3>2. tdone[q] # kdone
      BY <1>1, <1>2, <2>2, <3>1 DEF Waits
    <3> QED BY <1>2, <3>1, <3>2
  <2>3. kpc' = "tell" => kdone' \in Creators /\ Waits(kdone', kinfo') /\ kdone' \notin completed'
    BY <1>2
  <2> QED BY <2>1, <2>2, <2>3 DEF TellExact, Waits
<1>7. ServedExact'
  <2> SUFFICES ASSUME NEW r \in Infos, r = kinfo PROVE ServedExact'
    BY <1>1
  <2>1. \A q \in Infos : q # r => (InService(q)' <=> InService(q))
    BY <1>2, KthreadConstants DEF InService
  <2>2. \A q \in Infos : q # r => /\ tpc'[q] = tpc[q] /\ result'[q] = result[q]
                                  /\ state'[q] = state[q]
    BY <1>2
  <2>3. \A d \in completed' : d \in Creators /\ (d \in completed \/ Waits(d, r))
    BY <1>1, <1>2 DEF IInv, ServedExact
  <2>4. ASSUME NEW d \in Creators, info[d] = r PROVE Served(d)'
    <3>1. info'[d] = r /\ tpc'[r] = "none" /\ result'[r] = "error"
      BY <1>1, <1>2, <2>4
    <3>2. ~InService(info[d])'
      BY <1>1, <1>2, <3>1, KthreadConstants DEF InService
    <3> QED BY <3>1, <3>2 DEF Served
  <2> QED BY ZenonT(30), <1>2, <2>1, <2>2, <2>3, <2>4, ServedFrame
<1>8. LiveExact'
  BY ZenonT(40), <1>1, <1>2 DEF IInv, InfoOwned, OnePlace, LiveExact, InService, Creating, Waits
<1> QED BY <1>3, <1>4, <1>5, <1>6, <1>7, <1>8 DEF IInv

\* The new thread frees the request, or owes its creator an answer.
LEMMA StartIInv ==
  ASSUME None \notin Creators \cup Infos, IInv, TypeOK', NEW r \in Infos, ThreadStart(r)
  PROVE  IInv'
<1>1. /\ tpc[r] = "start" /\ AtDoor(r)
      /\ r \notin Range(kthread_create_list) /\ r # kinfo
      /\ \A c \in Creators : info[c] = r => done[r] = c /\ c \notin completed /\ pc[c] # "result"
  BY SMT DEF ThreadStart, IInv, OnePlace, AtDoor, DoneExact, ServedExact, Served, InService
<1>2. /\ done'[r] = None /\ \A q \in Infos : q # r => done'[q] = done[q]
      /\ tdone'[r] = done[r] /\ \A q \in Infos : q # r => tdone'[q] = tdone[q]
      /\ completed' = completed /\ kthread_create_list' = kthread_create_list /\ state' = state
      /\ pc' = pc /\ info' = info
      /\ kpc' = kpc /\ kinfo' = kinfo /\ kdone' = kdone
      /\ \/ /\ done[r] = None /\ tpc'[r] = "none" /\ live' = live \ {r}
            /\ \A q \in Infos : q # r => result'[q] = result[q]
         \/ /\ done[r] # None /\ tpc'[r] \in {"tell", "nomem"} /\ live' = live
            /\ result' = result
      /\ \A q \in Infos : q # r => tpc'[q] = tpc[q]
  BY SMTT(30) DEF ThreadStart, At, Free, creators, kthreadd, IInv, TypeOK
<1>3. InfoOwned'
  <2>1. ASSUME NEW c \in Creators, pc'[c] \in OwnerAt PROVE tpc'[info'[c]] \in OwnedAt
    <3>1. pc[c] \in OwnerAt /\ pc[c] # "out" /\ info'[c] = info[c]
      BY <1>2, <2>1, Places
    <3>2. info[c] \in Infos /\ tpc[info[c]] \in OwnedAt
      BY <3>1 DEF IInv, InfoOwned
    <3> QED BY ZenonT(30), <1>1, <1>2, <3>1, <3>2, Places
  <2>2. /\ \A c \in Creators : IF pc'[c] = "out" THEN info'[c] = None ELSE info'[c] \in Infos
        /\ \A c, d \in Creators : info'[c] = info'[d] /\ info'[c] # None => c = d
    BY <1>2 DEF IInv, InfoOwned
  <2> QED BY <2>1, <2>2 DEF InfoOwned
<1>4. OnePlace'
  BY ZenonT(40), <1>1, <1>2 DEF IInv, OnePlace, Idle
<1>5. DoneExact'
  <2>1. done'[r] = None /\ ~AtDoor(r)'
    BY <1>1, <1>2 DEF AtDoor
  <2>2. \A q \in Infos : q # r => done'[q] = done[q]
    BY <1>2
  <2>3. \A q \in Infos : q # r => (AtDoor(q)' <=> AtDoor(q))
    BY <1>2 DEF AtDoor
  <2> QED BY <1>2, <2>1, <2>2, <2>3, DoneFrame
<1>6. TellExact'
  <2>1. pc' = pc /\ info' = info
    BY <1>2
  <2>2. ASSUME NEW q \in Infos, tpc'[q] \in {"nomem", "tell"}
        PROVE  /\ tdone'[q] \in Creators /\ Waits(tdone'[q], q) /\ tdone'[q] \notin completed'
    <3>1. CASE q # r
      BY <1>2, <2>2, <3>1 DEF IInv, TellExact
    <3>2. CASE q = r
      <4>1. done[r] # None /\ tdone'[r] = done[r] /\ completed' = completed
        BY <1>2, <2>2, <3>2
      <4>2. done[r] \in Creators /\ info[done[r]] = r /\ pc[done[r]] \in Waiting
        BY <4>1 DEF IInv, DoneExact
      <4> QED BY <1>1, <3>2, <4>1, <4>2 DEF Waits, Waiting
    <3> QED BY <3>1, <3>2
  <2>3. kpc' = "tell" => kdone' \in Creators /\ Waits(kdone', kinfo') /\ kdone' \notin completed'
    BY <1>2 DEF IInv, TellExact
  <2> QED BY <2>1, <2>2, <2>3 DEF TellExact, Waits
<1>7. ServedExact'
  <2>1. \A q \in Infos : q # r => (InService(q)' <=> InService(q))
    BY <1>2 DEF InService
  <2>2. \A q \in Infos : q # r => /\ tpc'[q] = tpc[q] /\ result'[q] = result[q]
                                  /\ state'[q] = state[q]
    BY <1>2
  <2>3. \A d \in completed' : d \in Creators /\ (d \in completed \/ Waits(d, r))
    BY <1>1, <1>2 DEF IInv, ServedExact
  <2>4. \A d \in Creators : info[d] = r => d \notin completed' /\ pc[d] # "result"
    BY <1>1, <1>2
  <2> QED BY ZenonT(30), <1>2, <2>1, <2>2, <2>3, <2>4, ServedFrame
<1>8. LiveExact'
  <2>1. \A q \in Infos : q # r => (InService(q)' <=> InService(q))
    BY <1>2 DEF InService
  <2>2. pc' = pc /\ info' = info
    BY <1>2
  <2>3. CASE done[r] = None
    <3>1. ~InService(r)' /\ live' = live \ {r}
      BY <1>1, <1>2, <2>3 DEF InService
    <3>2. \A d \in Creators : info[d] # r
      BY <1>1, <2>3, KthreadConstants
    <3> QED BY <2>1, <2>2, <3>1, <3>2 DEF IInv, LiveExact, Creating
  <2>4. CASE done[r] # None
    <3>1. InService(r)' /\ InService(r) /\ live' = live
      BY ZenonT(30), <1>1, <1>2, <2>4 DEF InService
    <3> QED BY <2>1, <2>2, <3>1 DEF IInv, LiveExact, Creating
  <2> QED BY <2>3, <2>4
<1> QED BY <1>3, <1>4, <1>5, <1>6, <1>7, <1>8 DEF IInv

\* Without memory the thread tells the creator and exits.
LEMMA NoMemoryIInv ==
  ASSUME None \notin Creators \cup Infos, IInv, TypeOK', NEW r \in Infos, ThreadNoMemory(r)
  PROVE  IInv'
<1>1. /\ tpc[r] \in {"nomem", "tell"} /\ r \notin Range(kthread_create_list) /\ r # kinfo
      /\ tdone[r] \in Creators /\ Waits(tdone[r], r) /\ done[r] = None
      /\ \A c \in Creators : info[c] = r => c = tdone[r]
  BY SMT DEF ThreadNoMemory, At, IInv, OnePlace, TellExact, Waits, InfoOwned, DoneExact, AtDoor
<1>2. /\ tpc'[r] = "none" /\ result'[r] = "error" /\ completed' = completed \cup {tdone[r]}
      /\ \A q \in Infos : q # r => /\ tpc'[q] = tpc[q] /\ result'[q] = result[q]
                                    /\ tdone'[q] = tdone[q]
      /\ state' = state
      /\ kthread_create_list' = kthread_create_list /\ live' = live /\ done' = done
      /\ pc' = pc /\ info' = info
      /\ kpc' = kpc /\ kinfo' = kinfo /\ kdone' = kdone
  BY ZenonT(40) DEF ThreadNoMemory, At, creators, kthreadd, IInv, TypeOK
<1>3. InfoOwned'
  <2>1. ASSUME NEW c \in Creators, pc'[c] \in OwnerAt PROVE tpc'[info'[c]] \in OwnedAt
    <3>1. pc[c] \in OwnerAt /\ pc[c] # "out" /\ info'[c] = info[c]
      BY <1>2, <2>1, Places
    <3>2. info[c] \in Infos /\ tpc[info[c]] \in OwnedAt
      BY <3>1 DEF IInv, InfoOwned
    <3> QED BY ZenonT(30), <1>1, <1>2, <3>1, <3>2, Places
  <2>2. /\ \A c \in Creators : IF pc'[c] = "out" THEN info'[c] = None ELSE info'[c] \in Infos
        /\ \A c, d \in Creators : info'[c] = info'[d] /\ info'[c] # None => c = d
    BY <1>2 DEF IInv, InfoOwned
  <2> QED BY <2>1, <2>2 DEF InfoOwned
<1>4. OnePlace'
  BY <1>1, <1>2 DEF IInv, OnePlace, Idle
<1>5. DoneExact'
  <2>1. done'[r] = None /\ ~AtDoor(r)'
    BY <1>1, <1>2 DEF AtDoor
  <2>2. \A q \in Infos : q # r => done'[q] = done[q]
    BY <1>2
  <2>3. \A q \in Infos : q # r => (AtDoor(q)' <=> AtDoor(q))
    BY <1>2 DEF AtDoor
  <2> QED BY <1>2, <2>1, <2>2, <2>3, DoneFrame
<1>6. TellExact'
  <2>1. \A d, q : Waits(d, q)' <=> Waits(d, q)
    BY <1>2 DEF Waits
  <2>2. \A d, q : Waits(d, q) /\ q # r => d # tdone[r]
    BY <1>1 DEF Waits
  <2>3. ASSUME NEW q \in Infos, tpc'[q] \in {"nomem", "tell"}
        PROVE  /\ tdone'[q] \in Creators /\ Waits(tdone[q], q) /\ tdone'[q] \notin completed'
               /\ tdone'[q] = tdone[q]
    <3>1. q # r
      BY <1>2, <2>3
    <3>2. tdone[q] \in Creators /\ Waits(tdone[q], q) /\ tdone[q] \notin completed
      BY <1>2, <2>3, <3>1 DEF IInv, TellExact
    <3> QED BY <1>2, <2>2, <3>1, <3>2
  <2>4. ASSUME kpc' = "tell"
        PROVE  kdone' \in Creators /\ Waits(kdone', kinfo') /\ kdone' \notin completed'
    <3>1. kdone \in Creators /\ Waits(kdone, kinfo) /\ kdone \notin completed
      BY <1>2, <2>4 DEF IInv, TellExact
    <3> QED BY <1>1, <1>2, <2>2, <3>1
  <2> QED BY <1>2, <2>1, <2>3, <2>4 DEF TellExact
<1>7. ServedExact'
  <2>1. \A q \in Infos : q # r => (InService(q)' <=> InService(q))
    BY <1>2 DEF InService
  <2>2. \A q \in Infos : q # r => /\ tpc'[q] = tpc[q] /\ result'[q] = result[q]
                                  /\ state'[q] = state[q]
    BY <1>2
  <2>3. \A d \in completed' : d \in Creators /\ (d \in completed \/ Waits(d, r))
    BY <1>1, <1>2 DEF IInv, ServedExact
  <2>4. ASSUME NEW d \in Creators, info[d] = r PROVE Served(d)'
    BY <1>1, <1>2, <2>4, KthreadConstants DEF Served, InService
  <2> QED BY ZenonT(30), <1>2, <2>1, <2>2, <2>3, <2>4, ServedFrame
<1>8. LiveExact'
  <2>1. \E d \in Creators : Creating(d) /\ info[d] = r
    BY <1>1 DEF Waits, Creating
  <2>2. \A q \in Infos : q # r => (InService(q)' <=> InService(q))
    BY <1>2 DEF InService
  <2>3. pc' = pc /\ info' = info /\ live' = live
    BY ZenonT(30), <1>2
  <2> QED BY <2>1, <2>2, <2>3 DEF IInv, LiveExact, Creating
<1> QED BY <1>3, <1>4, <1>5, <1>6, <1>7, <1>8 DEF IInv

\* The thread tells the creator and sleeps.
LEMMA TellIInv ==
  ASSUME None \notin Creators \cup Infos, IInv, TypeOK', NEW r \in Infos, ThreadTell(r)
  PROVE  IInv'
<1>1. /\ tpc[r] \in {"nomem", "tell"} /\ r \notin Range(kthread_create_list) /\ r # kinfo
      /\ tdone[r] \in Creators /\ Waits(tdone[r], r) /\ done[r] = None
      /\ \A c \in Creators : info[c] = r => c = tdone[r]
  BY SMT DEF ThreadTell, At, IInv, OnePlace, TellExact, Waits, InfoOwned, DoneExact, AtDoor
<1>2. /\ tpc'[r] = "new" /\ result'[r] = "thread" /\ completed' = completed \cup {tdone[r]}
      /\ \A q \in Infos : q # r => /\ tpc'[q] = tpc[q] /\ result'[q] = result[q]
                                    /\ tdone'[q] = tdone[q]
      /\ state'[r] = TASK_UNINTERRUPTIBLE /\ \A q \in Infos : q # r => state'[q] = state[q]
      /\ kthread_create_list' = kthread_create_list /\ live' = live /\ done' = done
      /\ pc' = pc /\ info' = info
      /\ kpc' = kpc /\ kinfo' = kinfo /\ kdone' = kdone
  BY ZenonT(40) DEF ThreadTell, At, creators, kthreadd, IInv, TypeOK
<1>3. InfoOwned'
  BY ZenonT(40), <1>1, <1>2, Places DEF IInv, InfoOwned
<1>4. OnePlace'
  BY ZenonT(30), <1>1, <1>2 DEF IInv, OnePlace, Idle
<1>5. DoneExact'
  <2>1. done'[r] = None /\ ~AtDoor(r)'
    BY <1>1, <1>2 DEF AtDoor
  <2>2. \A q \in Infos : q # r => done'[q] = done[q]
    BY <1>2
  <2>3. \A q \in Infos : q # r => (AtDoor(q)' <=> AtDoor(q))
    BY <1>2 DEF AtDoor
  <2> QED BY <1>2, <2>1, <2>2, <2>3, DoneFrame
<1>6. TellExact'
  <2>1. \A d, q : Waits(d, q)' <=> Waits(d, q)
    BY <1>2 DEF Waits
  <2>2. \A d, q : Waits(d, q) /\ q # r => d # tdone[r]
    BY <1>1 DEF Waits
  <2>3. ASSUME NEW q \in Infos, tpc'[q] \in {"nomem", "tell"}
        PROVE  /\ tdone'[q] \in Creators /\ Waits(tdone[q], q) /\ tdone'[q] \notin completed'
               /\ tdone'[q] = tdone[q]
    <3>1. q # r
      BY <1>2, <2>3
    <3>2. tdone[q] \in Creators /\ Waits(tdone[q], q) /\ tdone[q] \notin completed
      BY <1>2, <2>3, <3>1 DEF IInv, TellExact
    <3> QED BY <1>2, <2>2, <3>1, <3>2
  <2>4. ASSUME kpc' = "tell"
        PROVE  kdone' \in Creators /\ Waits(kdone', kinfo') /\ kdone' \notin completed'
    <3>1. kdone \in Creators /\ Waits(kdone, kinfo) /\ kdone \notin completed
      BY <1>2, <2>4 DEF IInv, TellExact
    <3> QED BY <1>1, <1>2, <2>2, <3>1
  <2> QED BY <1>2, <2>1, <2>3, <2>4 DEF TellExact
<1>7. ServedExact'
  <2>1. \A q \in Infos : q # r => (InService(q)' <=> InService(q))
    BY <1>2 DEF InService
  <2>2. \A q \in Infos : q # r => /\ tpc'[q] = tpc[q] /\ result'[q] = result[q]
                                  /\ state'[q] = state[q]
    BY <1>2
  <2>3. \A d \in completed' : d \in Creators /\ (d \in completed \/ Waits(d, r))
    BY <1>1, <1>2 DEF IInv, ServedExact
  <2>4. ASSUME NEW d \in Creators, info[d] = r PROVE Served(d)'
    BY <1>1, <1>2, <2>4, KthreadConstants DEF Served, InService
  <2> QED BY ZenonT(30), <1>2, <2>1, <2>2, <2>3, <2>4, ServedFrame
<1>8. LiveExact'
  <2>1. \E d \in Creators : Creating(d) /\ info[d] = r
    BY <1>1 DEF Waits, Creating
  <2>2. \A q \in Infos : q # r => (InService(q)' <=> InService(q))
    BY <1>2 DEF InService
  <2>3. pc' = pc /\ info' = info /\ live' = live
    BY <1>2
  <2> QED BY <2>1, <2>2, <2>3 DEF IInv, LiveExact, Creating
<1> QED BY <1>3, <1>4, <1>5, <1>6, <1>7, <1>8 DEF IInv

\* A thread that has exited is nobody's.
LEMMA StopWaitIInv ==
  ASSUME None \notin Creators \cup Infos, IInv, TypeOK', NEW c \in Creators, KthreadStopWait(c),
         UNCHANGED elsewhere
  PROVE  IInv'
<1>1. /\ pc[c] = "stop_wait" /\ info[c] \in Infos /\ tpc[info[c]] = "exited"
      /\ \A d \in Creators : info[d] = info[c] => d = c
  BY DEF KthreadStopWait, At, IInv, InfoOwned
<1>2. /\ pc'[c] = "out" /\ info'[c] = None /\ tpc'[info[c]] = "none"
      /\ \A d \in Creators : d # c => pc'[d] = pc[d] /\ info'[d] = info[d]
      /\ \A q \in Infos : q # info[c] => tpc'[q] = tpc[q]
      /\ completed' = completed /\ kthread_create_list' = kthread_create_list /\ live' = live
      /\ done' = done /\ result' = result /\ tdone' = tdone /\ state' = state
      /\ kpc' = kpc /\ kinfo' = kinfo /\ kdone' = kdone
  BY ZenonT(40), <1>1 DEF KthreadStopWait, Goto, At, IInv, TypeOK, elsewhere, create, kthreadd
<1>3. InfoOwned'
  <2>1. \A d \in Creators : IF pc'[d] = "out" THEN info'[d] = None ELSE info'[d] \in Infos
    BY <1>2 DEF IInv, InfoOwned
  <2>2. ASSUME NEW d \in Creators, NEW e \in Creators, info'[d] = info'[e], info'[d] # None
        PROVE  d = e
    <3>1. d # c /\ e # c /\ info[d] = info[e] /\ info[d] # None
      BY <1>2, <2>2
    <3> QED BY <3>1 DEF IInv, InfoOwned
  <2>3. ASSUME NEW d \in Creators, pc'[d] \in OwnerAt PROVE tpc'[info'[d]] \in OwnedAt
    <3>1. d # c /\ pc[d] \in OwnerAt /\ info'[d] = info[d] /\ pc[d] # "out"
      BY <1>2, <2>3, Places
    <3>2. info[d] \in Infos /\ info[d] # info[c] /\ tpc[info[d]] \in OwnedAt
      BY <1>1, <3>1 DEF IInv, InfoOwned
    <3> QED BY <1>2, <3>1, <3>2
  <2> QED BY <2>1, <2>2, <2>3 DEF InfoOwned
<1>4. OnePlace'
  BY ZenonT(40), <1>1, <1>2 DEF IInv, OnePlace, Idle
<1>5. DoneExact'
  <2>1. ASSUME NEW q \in Infos, done'[q] # None
        PROVE  /\ done'[q] \in Creators /\ AtDoor(q)' /\ info'[done'[q]] = q
               /\ pc'[done'[q]] \in Waiting
    <3>1. done'[q] = done[q] /\ done[q] # None
      BY <2>1, <1>2
    <3>2. done[q] \in Creators /\ AtDoor(q) /\ info[done[q]] = q /\ pc[done[q]] \in Waiting
      BY <3>1 DEF IInv, DoneExact
    <3>3. done[q] # c
      BY <1>1, <3>2 DEF Waiting
    <3>4. tpc[q] = "start" => q # info[c]
      BY <1>1
    <3> QED BY <1>2, <3>1, <3>2, <3>3, <3>4 DEF AtDoor
  <2>2. ASSUME NEW d \in Creators, info'[d] # None, AtDoor(info[d])' PROVE done'[info'[d]] = d
    <3>1. d # c /\ info'[d] = info[d] /\ info[d] # info[c] /\ info[d] \in Infos
      BY <1>1, <1>2, <2>2 DEF IInv, InfoOwned
    <3>2. AtDoor(info[d]) /\ done' = done
      BY <1>2, <2>2, <3>1 DEF AtDoor
    <3> QED BY <2>2, <3>1, <3>2 DEF IInv, DoneExact
  <2> QED BY <2>1, <2>2 DEF DoneExact
<1>6. TellExact'
  <2>1. ASSUME NEW d \in Creators, NEW q, Waits(d, q) PROVE Waits(d, q)'
    BY <1>1, <1>2, <2>1 DEF Waits
  <2>2. ASSUME NEW q \in Infos, tpc'[q] \in {"nomem", "tell"}
        PROVE  tdone'[q] \in Creators /\ Waits(tdone[q], q) /\ tdone'[q] \notin completed'
               /\ tdone'[q] = tdone[q]
    <3>1. q # info[c]
      BY <1>2, <2>2
    <3> QED BY <1>2, <2>2, <3>1 DEF IInv, TellExact
  <2>3. kpc' = "tell" => kdone' \in Creators /\ Waits(kdone', kinfo') /\ kdone' \notin completed'
    BY <1>2 DEF IInv, TellExact
  <2> QED BY <1>2, <2>1, <2>2, <2>3 DEF TellExact
<1>7. ServedExact'
  <2>1. ASSUME NEW d \in Creators, d # c, pc[d] # "out", Served(d) PROVE Served(d)'
    <3>1. info'[d] = info[d] /\ info[d] \in Infos /\ info[d] # info[c]
      BY <1>1, <1>2, <2>1 DEF IInv, InfoOwned
    <3>2. tpc'[info[d]] = tpc[info[d]]
      BY <1>2, <3>1
    <3> QED BY <1>2, <2>1, <3>1, <3>2 DEF Served, InService
  <2>2. ASSUME NEW d \in completed'
        PROVE  d \in Creators /\ pc'[d] \in Waiting \cup {"rewait"} /\ Served(d)'
    <3>1. d \in Creators /\ pc[d] \in Waiting \cup {"rewait"} /\ Served(d)
      BY <1>2, <2>2 DEF IInv, ServedExact
    <3>2. d # c /\ pc[d] # "out"
      BY <1>1, <3>1 DEF Waiting
    <3> QED BY <1>2, <2>1, <3>1, <3>2
  <2>3. ASSUME NEW d \in Creators, pc'[d] = "result" PROVE Served(d)'
    <3>1. d # c /\ pc[d] = "result"
      BY <1>2, <2>3
    <3>2. Served(d)
      BY ZenonT(30), <3>1 DEF IInv, ServedExact
    <3> QED BY <2>1, <3>1, <3>2
  <2> QED BY <2>2, <2>3 DEF ServedExact
<1>8. LiveExact'
  BY SMT, <1>1, <1>2 DEF IInv, InfoOwned, OnePlace, LiveExact, InService, Creating
<1> QED BY <1>3, <1>4, <1>5, <1>6, <1>7, <1>8 DEF IInv

\* Every step keeps the invariant.
LEMMA NextIInv == IInv /\ [Next]_vars => IInv'
<1> SUFFICES ASSUME IInv, [Next]_vars PROVE IInv'
  BY ZenonT(30)
<1>0. /\ None \notin Creators \cup Infos
      /\ TypeOK /\ TypeOK' /\ \A c \in Creators : pc[c] # "out" => info[c] \in Infos
  BY NextTypeOK, KthreadConstants DEF IInv, InfoOwned
<1> USE <1>0
<1>1. ASSUME NEW c \in Creators, CreateReturns(c) \/ Kill(c) PROVE IInv'
  <2>1. CASE CreateWake(c)
    BY ZenonT(40), <2>1, QuietStep DEF CreateWake, Goto, TypeOK, Waiting, create, thread
  <2>2. CASE CreateWait(c) /\ c \in completed
    BY <2>2, CompletedIInv DEF CreateWait
  <2>3. CASE CreateWait(c) /\ c \notin completed
    BY SMT, <2>3, QuietStep DEF CreateWait, Goto, TypeOK, Waiting, create, kthreadd, thread
  <2>4. CASE CreateRewait(c)
    BY <2>4, CompletedIInv DEF CreateRewait
  <2>5. CASE Kill(c)
    BY <2>5, QuietStep DEF Kill, create, kthreadd, thread
  <2> QED BY <1>1, <2>1, <2>2, <2>3, <2>4, <2>5, GiveUpIInv, ResultIInv DEF CreateReturns
<1>2. ASSUME NEW c \in Creators, Controls(c) PROVE IInv'
  <2>1. /\ UNCHANGED elsewhere /\ info' = info /\ tpc' = tpc
        /\ \A d \in Creators : pc'[d] = pc[d] \/ (pc[d] \in OwnerAt /\ pc'[d] \in OwnerAt)
        /\ pc[c] \in OwnerAt
        /\ \A r \in Infos : r # info[c] => state'[r] = state[r]
    BY SMT, <1>2 DEF Controls, WakeThread, KthreadPark, Unpark, KthreadStop, Woken, Goto, TypeOK,
                OwnerAt
  <2> QED BY <2>1, QuietStep DEF elsewhere, create, kthreadd
<1>3. ASSUME NEW c \in Creators, ControlsReturn(c) PROVE IInv'
  <2>1. CASE KthreadStopWait(c)
    BY <1>3, <2>1, StopWaitIInv DEF ControlsReturn
  <2>2. CASE ~KthreadStopWait(c)
    <3>1. /\ UNCHANGED elsewhere /\ info' = info /\ tpc' = tpc
          /\ \A d \in Creators : pc'[d] = pc[d] \/ (pc[d] \in OwnerAt /\ pc'[d] \in OwnerAt)
          /\ pc[c] \in OwnerAt
          /\ \A r \in Infos : r # info[c] => state'[r] = state[r]
      BY SMT, <1>3, <2>2 DEF ControlsReturn, KthreadParkWake, KthreadParkWait, UnparkWake, Unpark,
                        KthreadStopWake, Woken, Goto, TypeOK, OwnerAt
    <3> QED BY <3>1, QuietStep DEF elsewhere, create, kthreadd
  <2> QED BY <2>1, <2>2
<1>4. CASE Kthreadd
  <2>1. CASE KthreaddSet \/ KthreaddTest \/ KthreaddWoken
    BY <2>1, QuietStep DEF KthreaddSet, KthreaddTest, KthreaddWoken, Idle, creators, create,
                           thread
  <2>2. CASE KthreaddTake /\ kthread_create_list = <<>>
    BY <2>2, QuietStep DEF KthreaddTake, Idle, creators, create, thread
  <2>3. CASE KthreaddTake /\ kthread_create_list # <<>>
    BY <2>3, TakeIInv DEF KthreaddTake
  <2>4. CASE CreateKthread /\ kinfo' = None
    BY <2>4, CreateKthreadIInv DEF CreateKthread
  <2>5. CASE CreateKthread /\ kinfo' # None
    BY ZenonT(30), <2>5, QuietStep DEF CreateKthread, creators, create, thread
  <2> QED BY <1>4, <2>1, <2>2, <2>3, <2>4, <2>5, FailedIInv, FailedTellIInv DEF Kthreadd
<1>5. ASSUME NEW r \in Infos, ThreadRuns(r) PROVE IInv'
  <2>1. /\ tpc[r] \in OwnedAt /\ tpc'[r] \in OwnedAt
        /\ tpc[r] # "new" \/ state[r] # TASK_UNINTERRUPTIBLE
    BY SMTT(30), <1>5 DEF ThreadRuns, ThreadWoken, FnSet, FnTest, FnWoken, ParkmeSet, ParkmeTest,
                ParkmeComplete, ParkmeWoken, At, TypeOK, OwnedAt, TASK_RUNNING,
                TASK_UNINTERRUPTIBLE
  <2>2. \A q \in Infos : q # r => tpc'[q] = tpc[q] /\ state'[q] = state[q]
    BY SMTT(15), <1>5 DEF ThreadRuns, ThreadWoken, FnSet, FnTest, FnWoken, ParkmeSet, ParkmeTest,
                ParkmeComplete, ParkmeWoken, At, TypeOK
  <2> QED BY <1>5, <2>1, <2>2, QuietStep DEF ThreadRuns, creators, create, kthreadd
<1>6. ASSUME NEW r \in Infos, WorkArrives(r) PROVE IInv'
  <2>1. PICK c \in Creators : info[c] = r /\ ~Creating(c)
    BY <1>6 DEF WorkArrives
  <2>2. pc[c] \in OwnerAt
    <3>1. pc[c] # "out"
      BY <2>1 DEF IInv, InfoOwned
    <3> QED BY SMT, <2>1, <3>1 DEF TypeOK, Creating, CreatorAt, OwnerAt
  <2>3. \A q \in Infos : q # r => state'[q] = state[q]
    BY <1>6 DEF WorkArrives, Woken, TypeOK
  <2> QED BY <1>6, <2>1, <2>2, <2>3, QuietStep DEF WorkArrives, creators, create, kthreadd
<1>7. CASE UNCHANGED vars
  BY <1>7, QuietStep DEF vars, create
<1> QED
  BY <1>1, <1>2, <1>3, <1>4, <1>5, <1>6, <1>7, CreateQueueIInv, StartIInv, NoMemoryIInv,
     TellIInv DEF Next, Calls, Returns, Thread

\* The invariant holds in every state of a behaviour.
THEOREM IInvAlways == Spec => []IInv
BY InitIInv, NextIInv, PTL DEF Spec

\* The type invariant: every variable of the model keeps its type, kthreadd and the
\* new thread complete only creators' completions, and the count of a parked
\* completion is never negative.
THEOREM KthreadTypeOK == Spec => []TypeOK
<1>1. IInv => TypeOK
  BY DEF IInv
<1> QED BY <1>1, IInvAlways, PTL

\* However kill signals race kthreadd and the new threads, with any number of
\* creators and requests: the kthread_create_info is freed once, after its last use,
\* and complete() never touches the stack of a creator that has returned.
THEOREM KthreadCreateInfo == Spec => []CreateInfoExact
<1>1. IInv => CreateInfoExact
  <2> SUFFICES ASSUME IInv PROVE CreateInfoExact
    BY ZenonT(30)
  <2> USE DEF IInv
  <2>1. \A r \in Infos : done[r] # None => Waits(done[r], r)
    BY DEF DoneExact, Waiting, Waits
  <2>2. /\ kpc = "tell" => Waits(kdone, kinfo)
        /\ \A r \in Infos : tpc[r] \in {"nomem", "tell"} => Waits(tdone[r], r)
    BY DEF TellExact
  <2>3. \A c \in Creators : pc[c] = "result" =>
          result[info[c]] = IF tpc[info[c]] = "new" THEN "thread" ELSE "error"
    BY DEF ServedExact, Served
  <2> QED BY <2>1, <2>2, <2>3 DEF CreateInfoExact, LiveExact
<1> QED BY <1>1, IInvAlways, PTL
-----------------------------------------------------------------------------
\* What an owner asks of its thread.

\* Where an owner is parking or stopping its thread, and where a thread has started.
Parks == {"park_wake", "park_wait", "parked"}
Stops == {"stop_unpark", "stop_unpark_wake", "stop_wake", "stop_wait"}
Started == {"parkme", "parktest", "parkdone", "parked", "fn", "fntest", "fnsleep"}

Owns(c, r) == pc[c] \in OwnerAt /\ info[c] = r

\* The flags of a thread follow the position of its owner.
FlagsExact(r) ==
  /\ (\A c \in Creators : ~Owns(c, r)) => flags[r] = {} /\ parked[r] = 0
  /\ \A c \in Creators : Owns(c, r) =>
       /\ "STOP" \in flags[r] <=> pc[c] \in Stops
       /\ pc[c] \in Parks => "PARK" \in flags[r] /\ r \in asked
       /\ "PARK" \in flags[r] => pc[c] \in Parks \cup {"stop_unpark"}

\* The state of a thread follows its own position; only kthread_unpark() ends the
\* sleep in TASK_PARKED, and kthread_stop() may do so before it has begun.
StateExact(r) ==
  /\ tpc[r] = "new" =>
       \/ state[r] = TASK_UNINTERRUPTIBLE
       \/ state[r] = TASK_RUNNING /\ ("STOP" \in flags[r] \/ r \in asked)
  /\ tpc[r] \in Started => r \in asked
  /\ tpc[r] \in {"parkme", "fn"} => state[r] = TASK_RUNNING
  /\ tpc[r] \in {"fntest", "fnsleep"} => state[r] \in {TASK_INTERRUPTIBLE, TASK_RUNNING}
  /\ tpc[r] = "parktest" =>
       \/ state[r] = TASK_PARKED
       \/ state[r] = TASK_RUNNING /\ "STOP" \in flags[r] /\ "PARK" \notin flags[r]
  /\ tpc[r] = "parkdone" =>
       state[r] = TASK_PARKED /\ "PARK" \in flags[r] /\ "STOP" \notin flags[r]
  /\ tpc[r] = "parked" => state[r] \in {TASK_PARKED, TASK_RUNNING}

\* The completion "parked" counts one while kthread_park() has not seen it.
Sleeps(r) == tpc[r] = "parked" /\ state[r] = TASK_PARKED

ParkedExact(r) ==
  /\ parked[r] # 0 => parked[r] = 1 /\ Sleeps(r)
  /\ \A c \in Creators : Owns(c, r) =>
       /\ pc[c] \in {"park_wake", "park_wait"} => (Sleeps(r) <=> parked[r] = 1)
       /\ pc[c] \notin {"park_wake", "park_wait"} => parked[r] = 0
       /\ pc[c] \in {"parked", "unpark_wake"} => Sleeps(r)
       /\ pc[c] = "stop_unpark" /\ "PARK" \in flags[r] => Sleeps(r)
       /\ pc[c] \in {"own", "stop_wake", "stop_wait"} => ~Sleeps(r)

ThreadInv(r) == FlagsExact(r) /\ StateExact(r) /\ ParkedExact(r)

CInv == IInv /\ \A r \in Infos : ThreadInv(r)

\* The task states differ.
LEMMA StatesDiffer ==
  /\ TASK_RUNNING # TASK_INTERRUPTIBLE /\ TASK_RUNNING # TASK_UNINTERRUPTIBLE
  /\ TASK_RUNNING # TASK_PARKED /\ TASK_INTERRUPTIBLE # TASK_UNINTERRUPTIBLE
  /\ TASK_INTERRUPTIBLE # TASK_PARKED /\ TASK_UNINTERRUPTIBLE # TASK_PARKED
BY DEF TASK_RUNNING, TASK_INTERRUPTIBLE, TASK_UNINTERRUPTIBLE, TASK_PARKED

\* A thread that nobody touches, with the same owner at the same place.
LEMMA SameThread ==
  ASSUME NEW r \in Infos, ThreadInv(r), state'[r] = state[r], flags'[r] = flags[r],
         parked'[r] = parked[r], r \in asked' <=> r \in asked,
         tpc'[r] = tpc[r] \/ (tpc[r] \notin OwnedAt /\ tpc'[r] \notin OwnedAt),
         \A c \in Creators : /\ Owns(c, r)' <=> Owns(c, r)
                             /\ Owns(c, r) => pc'[c] = pc[c]
  PROVE  ThreadInv(r)'
<1>1. FlagsExact(r)'
  BY DEF ThreadInv, FlagsExact
<1>2. Sleeps(r)' <=> Sleeps(r)
  BY DEF Sleeps, OwnedAt
<1>3. StateExact(r)'
  BY DEF ThreadInv, StateExact, OwnedAt, Started
<1>4. ParkedExact(r)'
  BY <1>2 DEF ThreadInv, ParkedExact
<1> QED BY <1>1, <1>3, <1>4 DEF ThreadInv

\* Steps that change no thread and no owner.
LEMMA QuietThreads ==
  ASSUME CInv, UNCHANGED <<flags, state, parked, asked>>,
         \A r \in Infos : \/ tpc'[r] = tpc[r]
                          \/ tpc[r] \notin OwnedAt /\ tpc'[r] \notin OwnedAt,
         \A c \in Creators : \/ pc'[c] = pc[c] /\ info'[c] = info[c]
                             \/ pc[c] \notin OwnerAt /\ pc'[c] \notin OwnerAt
  PROVE  \A r \in Infos : ThreadInv(r)'
<1> SUFFICES ASSUME NEW r \in Infos PROVE ThreadInv(r)'
  OBVIOUS
<1>1. \A c \in Creators : /\ Owns(c, r)' <=> Owns(c, r)
                          /\ Owns(c, r) => pc'[c] = pc[c]
  BY DEF Owns
<1> QED BY <1>1, SameThread DEF CInv

\* Before the first call there is no owner and no thread.
LEMMA InitCInv == Init => CInv
<1> SUFFICES ASSUME Init, NEW r \in Infos PROVE ThreadInv(r)
  BY InitIInv DEF CInv
<1>1. tpc[r] = "none" /\ flags[r] = {} /\ parked[r] = 0 /\ \A c \in Creators : pc[c] = "out"
  BY DEF Init
<1>2. \A c \in Creators : ~Owns(c, r)
  BY <1>1 DEF Owns, OwnerAt
<1> QED BY <1>1, <1>2 DEF ThreadInv, FlagsExact, StateExact, ParkedExact, Started

\* The new thread sleeps, and is not owned yet.
LEMMA TellThreads ==
  ASSUME CInv, NEW q \in Infos, ThreadTell(q)
  PROVE  \A r \in Infos : ThreadInv(r)'
<1>1. /\ tpc[q] = "tell" /\ tpc'[q] = "new" /\ state'[q] = TASK_UNINTERRUPTIBLE
      /\ \A r \in Infos : r # q => tpc'[r] = tpc[r] /\ state'[r] = state[r]
      /\ UNCHANGED <<pc, info, flags, parked, asked>>
  BY DEF ThreadTell, At, creators, CInv, IInv, TypeOK
<1>2. \A c \in Creators : ~Owns(c, q)
  BY <1>1 DEF CInv, IInv, InfoOwned, Owns, OwnedAt
<1>3. \A c \in Creators, r \in Infos : Owns(c, r)' <=> Owns(c, r)
  BY <1>1 DEF Owns
<1>4. ThreadInv(q)'
  <2>1. flags[q] = {} /\ parked[q] = 0
    BY <1>2 DEF CInv, ThreadInv, FlagsExact
  <2> QED BY <1>1, <1>2, <1>3, <2>1 DEF ThreadInv, FlagsExact, StateExact, ParkedExact, Started
<1> QED BY <1>1, <1>3, <1>4, SameThread DEF CInv

\* The creator becomes the owner of a thread that sleeps.
LEMMA ResultThreads ==
  ASSUME CInv, NEW c \in Creators, NEW q \in Infos, q = info[c], CreateResult(c)
  PROVE  \A r \in Infos : ThreadInv(r)'
<1>1. /\ pc[c] = "result" /\ info[c] \in Infos /\ Served(c)
      /\ UNCHANGED <<tpc, flags, state, parked, asked>>
      /\ \A d \in Creators : d # c => pc'[d] = pc[d] /\ info'[d] = info[d]
      /\ \A d \in Creators : info[d] = info[c] => d = c
  <2>1. pc[c] = "result" /\ IInv
    BY DEF CreateResult, CInv
  <2>2. info[c] \in Infos /\ Served(c)
    BY <2>1 DEF IInv, InfoOwned, ServedExact
  <2>3. \A d \in Creators : info[d] = info[c] => d = c
    BY <2>1, <2>2, KthreadConstants DEF IInv, InfoOwned
  <2>4. \A d \in Creators : d # c => pc'[d] = pc[d] /\ info'[d] = info[d]
    BY <2>1 DEF CreateResult, IInv, TypeOK, Goto, Leave
  <2> QED BY <2>1, <2>2, <2>3, <2>4 DEF CreateResult, thread
<1>2. CASE pc'[c] \notin OwnerAt
  BY <1>1, <1>2, Places, QuietThreads
<1>3. CASE pc'[c] \in OwnerAt
  <2>1. pc'[c] = "own" /\ info'[c] = q /\ result[q] = "thread"
    BY ZenonT(30), <1>1, <1>3, Places DEF CreateResult, Goto, Leave, CInv, IInv, TypeOK
  <2>2. tpc[q] = "new" /\ state[q] = TASK_UNINTERRUPTIBLE
    BY <1>1, <2>1 DEF Served
  <2>3. \A d \in Creators : ~Owns(d, q)
    BY <1>1, Places DEF Owns
  <2>4. flags[q] = {} /\ parked[q] = 0
    BY <1>1, <2>3 DEF CInv, ThreadInv, FlagsExact
  <2>5. \A d \in Creators : Owns(d, q)' => d = c
    BY <1>1, <2>1 DEF Owns
  <2>6. ThreadInv(q)'
    <3>1. FlagsExact(q)'
      BY <1>1, <2>1, <2>4, <2>5 DEF FlagsExact, Stops, Parks, Owns
    <3>2. StateExact(q)'
      BY <1>1, <2>2 DEF StateExact, Started
    <3>3. ParkedExact(q)'
      BY <1>1, <2>1, <2>2, <2>4, <2>5 DEF ParkedExact, Sleeps
    <3> QED BY <3>1, <3>2, <3>3 DEF ThreadInv
  <2>7. ASSUME NEW r \in Infos, r # q PROVE ThreadInv(r)'
    <3>1. \A d \in Creators : (Owns(d, r)' <=> Owns(d, r)) /\ (Owns(d, r) => pc'[d] = pc[d])
      BY <1>1, <2>1, <2>7 DEF Owns
    <3> QED BY <1>1, <3>1, SameThread DEF CInv
  <2> QED BY <2>6, <2>7
<1> QED BY <1>2, <1>3

\* A step of one thread: the others stay as they are, and so do all owners.
LEMMA OneThread ==
  ASSUME CInv, NEW q \in Infos, UNCHANGED <<pc, info, flags, asked>>,
         \A r \in Infos : r # q =>
           tpc'[r] = tpc[r] /\ state'[r] = state[r] /\ parked'[r] = parked[r],
         StateExact(q)', ParkedExact(q)', parked'[q] # parked[q] => "PARK" \in flags[q]
  PROVE  \A r \in Infos : ThreadInv(r)'
<1>1. \A c \in Creators, r \in Infos : Owns(c, r)' <=> Owns(c, r)
  BY DEF Owns
<1>2. FlagsExact(q)'
  BY <1>1 DEF CInv, ThreadInv, FlagsExact
<1> QED BY <1>1, <1>2, SameThread DEF CInv, ThreadInv

\* What a thread does.
LEMMA RunsThreads ==
  ASSUME CInv, NEW q \in Infos, ThreadRuns(q)
  PROVE  \A r \in Infos : ThreadInv(r)'
<1> DEFINE same == \A r \in Infos : r # q => /\ tpc'[r] = tpc[r] /\ state'[r] = state[r]
                                             /\ parked'[r] = parked[r]
<1>0. UNCHANGED <<pc, info, flags, asked>>
  BY DEF ThreadRuns, creators
<1>1. FlagsExact(q) /\ StateExact(q) /\ ParkedExact(q) /\ parked[q] \in Nat
  BY DEF CInv, ThreadInv, IInv, TypeOK
<1>2. \A c \in Creators : Owns(c, q)' <=> Owns(c, q)
  BY <1>0 DEF Owns
<1>3. \A c \in Creators : Owns(c, q) => pc'[c] = pc[c]
  BY <1>0
<1>4. TypeOK
  BY DEF CInv, IInv
<1>5. ASSUME ~Sleeps(q), ~Sleeps(q)', parked' = parked PROVE ParkedExact(q)'
  BY <1>0, <1>1, <1>2, <1>5 DEF ParkedExact
<1>6. CASE ThreadWoken(q)
  <2>1. /\ tpc[q] = "new" /\ tpc'[q] \in {"exited", "parkme"} /\ same /\ parked' = parked
        /\ state[q] = TASK_RUNNING /\ state' = state
        /\ tpc'[q] = "parkme" => "STOP" \notin flags[q]
    BY <1>4, <1>6 DEF ThreadWoken, At, TypeOK
  <2>2. StateExact(q)'
    BY <1>0, <1>1, <2>1, StatesDiffer DEF StateExact, Started
  <2> QED BY <1>0, <1>5, <2>1, <2>2, OneThread DEF Sleeps
<1>7. CASE FnSet(q)
  <2>1. /\ tpc[q] = "fn" /\ tpc'[q] = "fntest" /\ same /\ parked' = parked
        /\ state'[q] = TASK_INTERRUPTIBLE
    BY <1>4, <1>7 DEF FnSet, At, TypeOK
  <2>2. StateExact(q)'
    BY <1>0, <1>1, <2>1, StatesDiffer DEF StateExact, Started
  <2> QED BY <1>0, <1>5, <2>1, <2>2, OneThread DEF Sleeps
<1>8. CASE FnTest(q)
  <2>1. /\ tpc[q] = "fntest" /\ tpc'[q] \in {"fnsleep", "exited", "parkme"}
        /\ same /\ parked' = parked
        /\ IF tpc'[q] = "fnsleep" THEN state' = state ELSE state'[q] = TASK_RUNNING
    BY ZenonT(30), <1>4, <1>8 DEF FnTest, At, TypeOK
  <2>2. StateExact(q)'
    BY <1>0, <1>1, <2>1, StatesDiffer DEF StateExact, Started
  <2> QED BY <1>0, <1>5, <2>1, <2>2, OneThread DEF Sleeps
<1>9. CASE FnWoken(q)
  <2>1. /\ tpc[q] = "fnsleep" /\ tpc'[q] = "fn" /\ same /\ parked' = parked
        /\ state[q] = TASK_RUNNING /\ state' = state
    BY <1>4, <1>9 DEF FnWoken, At, TypeOK
  <2>2. StateExact(q)'
    BY <1>0, <1>1, <2>1, StatesDiffer DEF StateExact, Started
  <2> QED BY <1>0, <1>5, <2>1, <2>2, OneThread DEF Sleeps
<1>10. CASE ParkmeSet(q)
  <2>1. /\ tpc[q] = "parkme" /\ tpc'[q] = "parktest" /\ same /\ parked' = parked
        /\ state'[q] = TASK_PARKED
    BY <1>4, <1>10 DEF ParkmeSet, At, TypeOK
  <2>2. StateExact(q)'
    BY <1>0, <1>1, <2>1, StatesDiffer DEF StateExact, Started
  <2> QED BY <1>0, <1>5, <2>1, <2>2, OneThread DEF Sleeps
<1>11. CASE ParkmeTest(q)
  <2>1. /\ tpc[q] = "parktest" /\ same /\ parked' = parked
        /\ \/ tpc'[q] = "parkdone" /\ "PARK" \in flags[q] /\ state' = state
           \/ tpc'[q] = "fn" /\ state'[q] = TASK_RUNNING
    BY <1>4, <1>11 DEF ParkmeTest, At, TypeOK
  <2>2. ASSUME "PARK" \in flags[q] PROVE "STOP" \notin flags[q]
    <3>1. PICK c \in Creators : Owns(c, q)
      BY <1>1, <2>2 DEF FlagsExact
    <3>2. pc[c] # "stop_unpark"
      <4>1. tpc[q] = "parktest" => ~Sleeps(q)
        BY DEF Sleeps
      <4> QED BY <1>1, <2>1, <2>2, <3>1, <4>1 DEF ParkedExact
    <3> QED BY <1>1, <2>2, <3>1, <3>2 DEF FlagsExact, Parks, Stops
  <2>3. StateExact(q)'
    BY <1>0, <1>1, <2>1, <2>2, StatesDiffer DEF StateExact, Started
  <2> QED BY <1>0, <1>5, <2>1, <2>3, OneThread DEF Sleeps
<1>12. CASE ParkmeComplete(q)
  <2>1. /\ tpc[q] = "parkdone" /\ tpc'[q] = "parked" /\ same /\ state' = state
        /\ parked'[q] = parked[q] + 1
    BY <1>4, <1>12 DEF ParkmeComplete, At, TypeOK
  <2>2. state[q] = TASK_PARKED /\ "PARK" \in flags[q] /\ "STOP" \notin flags[q] /\ q \in asked
    BY <1>1, <2>1 DEF StateExact, Started
  <2>3. ~Sleeps(q) /\ Sleeps(q)'
    BY <2>1, <2>2 DEF Sleeps
  <2>4. parked[q] = 0 /\ parked'[q] = 1
    <3>1. parked[q] = 0
      BY <1>1, <2>3 DEF ParkedExact
    <3>2. 0 + 1 = 1
      BY SMT
    <3> QED BY <2>1, <3>1, <3>2
  <2>5. \A c \in Creators : Owns(c, q) => pc[c] \in {"park_wake", "park_wait"}
    BY <1>1, <2>2, <2>3 DEF FlagsExact, ParkedExact, Parks, Stops
  <2>6. ParkedExact(q)'
    BY <1>2, <1>3, <2>3, <2>4, <2>5 DEF ParkedExact
  <2>7. StateExact(q)'
    BY <1>0, <2>1, <2>2 DEF StateExact, Started
  <2> QED BY <1>0, <2>1, <2>2, <2>6, <2>7, OneThread
<1>13. CASE ParkmeWoken(q)
  <2>1. /\ tpc[q] = "parked" /\ tpc'[q] = "parkme" /\ same /\ parked' = parked
        /\ state[q] = TASK_RUNNING /\ state' = state
    BY <1>4, <1>13 DEF ParkmeWoken, At, TypeOK
  <2>2. StateExact(q)'
    BY <1>0, <1>1, <2>1, StatesDiffer DEF StateExact, Started
  <2> QED BY <1>0, <1>5, <2>1, <2>2, StatesDiffer, OneThread DEF Sleeps
<1> QED
  BY <1>6, <1>7, <1>8, <1>9, <1>10, <1>11, <1>12, <1>13 DEF ThreadRuns

\* A wake-up by somebody else ends no sleep in TASK_PARKED, and starts a new thread
\* only if that is not to stop.
LEMMA WorkThreads ==
  ASSUME CInv, NEW q \in Infos, WorkArrives(q)
  PROVE  \A r \in Infos : ThreadInv(r)'
<1>1. /\ UNCHANGED <<pc, info, tpc, flags, parked>>
      /\ state[q] \in {TASK_INTERRUPTIBLE, TASK_UNINTERRUPTIBLE}
      /\ state'[q] = TASK_RUNNING
      /\ \A r \in Infos : r # q => state'[r] = state[r] /\ (r \in asked' <=> r \in asked)
  BY DEF WorkArrives, Woken, creators, CInv, IInv, TypeOK
<1>2. (q \in asked => q \in asked') /\ ("STOP" \in flags[q] \/ q \in asked')
  BY DEF WorkArrives
<1>3. \A c \in Creators, r \in Infos : Owns(c, r)' <=> Owns(c, r)
  BY <1>1 DEF Owns
<1>4. FlagsExact(q) /\ StateExact(q) /\ ParkedExact(q)
  BY DEF CInv, ThreadInv
<1>5. FlagsExact(q)'
  BY <1>1, <1>2, <1>3, <1>4 DEF FlagsExact
<1>6. StateExact(q)'
  <2>1. tpc[q] \notin {"parkme", "fn", "parktest", "parkdone", "parked"}
    BY <1>1, <1>4, StatesDiffer DEF StateExact
  <2> QED BY <1>1, <1>2, <1>4, <2>1 DEF StateExact, Started
<1>7. ParkedExact(q)'
  <2>1. ~Sleeps(q) /\ ~Sleeps(q)'
    BY <1>1, StatesDiffer DEF Sleeps
  <2> QED BY <1>1, <1>3, <1>4, <2>1 DEF ParkedExact
<1> QED BY <1>1, <1>3, <1>5, <1>6, <1>7, SameThread DEF CInv, ThreadInv

\* A step of an owner changes its own thread only.
LEMMA OneOwner ==
  ASSUME CInv, NEW c \in Creators, NEW q \in Infos, q = info[c], pc[c] \in OwnerAt,
         \A d \in Creators : d # c => pc'[d] = pc[d] /\ info'[d] = info[d],
         info'[c] = info[c] \/ pc'[c] \notin OwnerAt,
         \A r \in Infos : r # q =>
           /\ tpc'[r] = tpc[r] /\ state'[r] = state[r] /\ flags'[r] = flags[r]
           /\ parked'[r] = parked[r] /\ (r \in asked' <=> r \in asked),
         ThreadInv(q)'
  PROVE  \A r \in Infos : ThreadInv(r)'
<1> SUFFICES ASSUME NEW r \in Infos, r # q PROVE ThreadInv(r)'
  OBVIOUS
<1>1. \A d \in Creators : /\ Owns(d, r)' <=> Owns(d, r)
                          /\ Owns(d, r) => pc'[d] = pc[d]
  BY DEF Owns
<1> QED BY <1>1, SameThread DEF CInv

\* What an owner does with its thread.
LEMMA OwnerThreads ==
  ASSUME CInv, NEW c \in Creators, NEW q \in Infos, q = info[c], Controls(c) \/ ControlsReturn(c)
  PROVE  \A r \in Infos : ThreadInv(r)'
<1> DEFINE others == \A r \in Infos : r # q =>
             /\ tpc'[r] = tpc[r] /\ state'[r] = state[r] /\ flags'[r] = flags[r]
             /\ parked'[r] = parked[r] /\ (r \in asked' <=> r \in asked)
           keeps(to) == /\ pc'[c] = to /\ to \in OwnerAt /\ info' = info
                        /\ \A d \in Creators : d # c => pc'[d] = pc[d]
<1>1. pc[c] \in OwnerAt
  BY DEF Controls, ControlsReturn, WakeThread, KthreadPark, Unpark, KthreadStop,
         KthreadParkWake, KthreadParkWait, UnparkWake, KthreadStopWake, KthreadStopWait, OwnerAt
<1>2. q \in Infos /\ TypeOK /\ FlagsExact(q) /\ StateExact(q) /\ ParkedExact(q)
  BY <1>1, Places DEF CInv, IInv, InfoOwned, ThreadInv
<1>3. \A d \in Creators : info[d] = q => d = c
  BY <1>2, KthreadConstants DEF CInv, IInv, InfoOwned
<1>4. /\ "STOP" \in flags[q] <=> pc[c] \in Stops
      /\ pc[c] \in Parks => "PARK" \in flags[q] /\ q \in asked
      /\ "PARK" \in flags[q] => pc[c] \in Parks \cup {"stop_unpark"}
  BY <1>1, <1>2 DEF FlagsExact, Owns
<1>5. /\ parked[q] # 0 => parked[q] = 1 /\ Sleeps(q)
      /\ pc[c] \in {"park_wake", "park_wait"} => (Sleeps(q) <=> parked[q] = 1)
      /\ pc[c] \notin {"park_wake", "park_wait"} => parked[q] = 0
      /\ pc[c] \in {"parked", "unpark_wake"} => Sleeps(q)
      /\ pc[c] = "stop_unpark" /\ "PARK" \in flags[q] => Sleeps(q)
      /\ pc[c] \in {"own", "stop_wake", "stop_wait"} => ~Sleeps(q)
  BY <1>1, <1>2 DEF ParkedExact, Owns
<1>6. ASSUME NEW to, keeps(to), others, StateExact(q)',
             /\ "STOP" \in flags'[q] <=> to \in Stops
             /\ to \in Parks => "PARK" \in flags'[q] /\ q \in asked'
             /\ "PARK" \in flags'[q] => to \in Parks \cup {"stop_unpark"},
             /\ parked'[q] # 0 => parked'[q] = 1 /\ Sleeps(q)'
             /\ to \in {"park_wake", "park_wait"} => (Sleeps(q)' <=> parked'[q] = 1)
             /\ to \notin {"park_wake", "park_wait"} => parked'[q] = 0
             /\ to \in {"parked", "unpark_wake"} => Sleeps(q)'
             /\ to = "stop_unpark" /\ "PARK" \in flags'[q] => Sleeps(q)'
             /\ to \in {"own", "stop_wake", "stop_wait"} => ~Sleeps(q)'
      PROVE  \A r \in Infos : ThreadInv(r)'
  <2>1. \A d \in Creators : Owns(d, q)' <=> d = c
    BY <1>1, <1>3, <1>6 DEF Owns
  <2>2. FlagsExact(q)'
    BY <1>6, <2>1 DEF FlagsExact
  <2>3. ParkedExact(q)'
    BY <1>6, <2>1 DEF ParkedExact
  <2> QED BY <1>1, <1>6, <2>2, <2>3, OneOwner DEF ThreadInv
<1>w. ASSUME state' = Woken(q), tpc' = tpc, flags' = flags,
             tpc[q] = "new" => q \in asked' \/ "STOP" \in flags[q],
             q \in asked => q \in asked'
      PROVE  StateExact(q)' /\ (Sleeps(q)' <=> Sleeps(q))
  <2>1. \/ state'[q] = state[q]
        \/ state[q] \in {TASK_INTERRUPTIBLE, TASK_UNINTERRUPTIBLE} /\ state'[q] = TASK_RUNNING
    BY <1>2, <1>w DEF Woken, TypeOK
  <2>2. Sleeps(q)' <=> Sleeps(q)
    BY <1>w, <2>1, StatesDiffer DEF Sleeps
  <2>3. StateExact(q)'
    BY <1>2, <1>w, <2>1, StatesDiffer DEF StateExact, Started
  <2> QED BY <2>2, <2>3
<1>o. ASSUME NEW r \in Infos, r # q PROVE Woken(q)[r] = state[r]
  BY <1>2, <1>o DEF Woken, TypeOK
<1> USE <1>2 DEF TypeOK, Goto
<1>7. CASE WakeThread(c)
  <2>1. keeps("own") /\ others /\ pc[c] = "own" /\ flags' = flags /\ parked' = parked
    BY <1>7, <1>o DEF WakeThread, OwnerAt
  <2>2. StateExact(q)' /\ (Sleeps(q)' <=> Sleeps(q))
    BY <1>7, <1>w DEF WakeThread
  <2> QED BY <1>4, <1>5, <1>6, <2>1, <2>2 DEF Parks, Stops
<1>8. CASE KthreadPark(c)
  <2>1. /\ keeps("park_wake") /\ others /\ pc[c] = "own" /\ tpc' = tpc /\ state' = state
        /\ flags'[q] = flags[q] \cup {"PARK"} /\ parked' = parked /\ q \in asked'
    BY <1>8 DEF KthreadPark, OwnerAt
  <2>2. StateExact(q)'
    BY <1>4, <2>1 DEF StateExact, Started, Stops
  <2>3. Sleeps(q)' <=> Sleeps(q)
    BY <2>1 DEF Sleeps
  <2> QED BY SMTT(30), <1>4, <1>5, <1>6, <2>1, <2>2, <2>3 DEF Parks, Stops
<1>9. CASE KthreadStop(c)
  <2>1. /\ keeps("stop_unpark") /\ others /\ pc[c] \in {"own", "parked"}
        /\ tpc' = tpc /\ state' = state /\ asked' = asked
        /\ flags'[q] = flags[q] \cup {"STOP"} /\ parked' = parked
    BY <1>9 DEF KthreadStop, OwnerAt
  <2>2. tpc[q] # "parkdone"
    BY <1>4, <1>5, <2>1 DEF StateExact, Sleeps, Parks
  <2>3. StateExact(q)'
    BY <2>1, <2>2 DEF StateExact, Started
  <2>4. Sleeps(q)' <=> Sleeps(q)
    BY <2>1 DEF Sleeps
  <2> QED BY <1>4, <1>5, <1>6, <2>1, <2>3, <2>4 DEF Parks, Stops
<1>10. CASE KthreadParkWake(c)
  <2>1. /\ keeps("park_wait") /\ others /\ pc[c] = "park_wake" /\ flags' = flags
        /\ parked' = parked /\ asked' = asked
    BY <1>10, <1>o DEF KthreadParkWake, OwnerAt
  <2>2. StateExact(q)' /\ (Sleeps(q)' <=> Sleeps(q))
    BY <1>4, <1>10, <1>w DEF KthreadParkWake, Parks
  <2> QED BY <1>4, <1>5, <1>6, <2>1, <2>2 DEF Parks, Stops
<1>11. CASE KthreadParkWait(c)
  <2>1. /\ keeps("parked") /\ others /\ pc[c] = "park_wait" /\ flags' = flags
        /\ tpc' = tpc /\ state' = state /\ asked' = asked
        /\ parked[q] > 0 /\ parked'[q] = parked[q] - 1
    BY <1>11 DEF KthreadParkWait, OwnerAt
  <2>2. StateExact(q)'
    BY <2>1 DEF StateExact, Started
  <2>3. Sleeps(q)' /\ parked'[q] = 0
    BY SMTT(30), <1>5, <2>1 DEF Sleeps
  <2> QED BY <1>4, <1>6, <2>1, <2>2, <2>3 DEF Parks, Stops
<1>12. ASSUME NEW from, NEW to, Unpark(c, from, to),
              \/ from = "parked" /\ to = "unpark_wake"
              \/ from = "stop_unpark" /\ to = "stop_unpark_wake"
       PROVE  \A r \in Infos : ThreadInv(r)'
  <2>1. /\ keeps(to) /\ others /\ pc[c] = from /\ tpc' = tpc /\ state' = state
        /\ asked' = asked /\ flags'[q] = flags[q] \ {"PARK"} /\ parked' = parked
    BY <1>12 DEF Unpark, OwnerAt
  <2>2. tpc[q] # "parkdone"
    BY <1>4, <1>5, <1>12, <2>1 DEF StateExact, Sleeps, Stops
  <2>3. StateExact(q)'
    BY <2>1, <2>2 DEF StateExact, Started
  <2>4. Sleeps(q)' <=> Sleeps(q)
    BY <2>1 DEF Sleeps
  <2> QED BY <1>4, <1>5, <1>6, <1>12, <2>1, <2>3, <2>4 DEF Parks, Stops
<1>13. ASSUME NEW from, NEW to, UnparkWake(c, from, to),
              \/ from = "unpark_wake" /\ to = "own"
              \/ from = "stop_unpark_wake" /\ to = "stop_wake"
       PROVE  \A r \in Infos : ThreadInv(r)'
  <2>1. /\ keeps(to) /\ others /\ pc[c] = from /\ tpc' = tpc /\ flags' = flags
        /\ asked' = asked /\ parked' = parked
        /\ state'[q] = IF state[q] = TASK_PARKED THEN TASK_RUNNING ELSE state[q]
    BY <1>13 DEF UnparkWake, OwnerAt
  <2>2. "PARK" \notin flags[q]
    BY <1>4, <1>13, <2>1 DEF Parks
  <2>3. tpc[q] = "parktest" => "STOP" \in flags[q]
    BY <1>4, <1>5, <1>13, <2>1 DEF Sleeps, Stops
  <2>4. StateExact(q)'
    BY <2>1, <2>2, <2>3, StatesDiffer DEF StateExact, Started
  <2>5. ~Sleeps(q)'
    BY <2>1, StatesDiffer DEF Sleeps
  <2> QED BY <1>4, <1>5, <1>6, <1>13, <2>1, <2>2, <2>4, <2>5 DEF Parks, Stops
<1>14. CASE KthreadStopWake(c)
  <2>1. /\ keeps("stop_wait") /\ others /\ pc[c] = "stop_wake" /\ flags' = flags
        /\ parked' = parked /\ asked' = asked
    BY <1>14, <1>o DEF KthreadStopWake, OwnerAt
  <2>2. StateExact(q)' /\ (Sleeps(q)' <=> Sleeps(q))
    BY <1>4, <1>14, <1>w DEF KthreadStopWake, Stops
  <2> QED BY <1>4, <1>5, <1>6, <2>1, <2>2 DEF Parks, Stops
<1>15. CASE KthreadStopWait(c)
  <2>1. /\ others /\ pc[c] = "stop_wait" /\ pc'[c] = "out" /\ info'[c] = None
        /\ tpc'[q] = "none" /\ flags'[q] = {} /\ parked' = parked
        /\ \A d \in Creators : d # c => pc'[d] = pc[d] /\ info'[d] = info[d]
    BY <1>15 DEF KthreadStopWait, At
  <2>2. parked'[q] = 0 /\ pc'[c] \notin OwnerAt
    BY <1>5, <2>1, Places
  <2>4. ASSUME NEW d \in Creators PROVE ~Owns(d, q)'
    <3>1. CASE d = c
      BY <2>2, <3>1 DEF Owns
    <3>2. CASE d # c
      BY <1>3, <2>1, <3>2 DEF Owns
    <3> QED BY <3>1, <3>2
  <2>3. ThreadInv(q)'
    BY <2>1, <2>2, <2>4 DEF ThreadInv, FlagsExact, StateExact, ParkedExact, Started
  <2> QED BY <1>1, <2>1, <2>2, <2>3, OneOwner
<1> QED
  BY <1>7, <1>8, <1>9, <1>10, <1>11, <1>12, <1>13, <1>14, <1>15 DEF Controls, ControlsReturn

\* Every step keeps the invariant of the threads.
LEMMA NextCInv == CInv /\ [Next]_vars => CInv'
<1> SUFFICES ASSUME CInv, [Next]_vars PROVE \A r \in Infos : ThreadInv(r)'
  BY NextIInv DEF CInv
<1>0. TypeOK /\ InfoOwned
  BY DEF CInv, IInv
<1>1. ASSUME NEW c \in Creators, NEW r \in Infos, CreateQueue(c, r)
      PROVE  \A q \in Infos : ThreadInv(q)'
  <2>1. /\ UNCHANGED <<tpc, flags, state, parked, asked>> /\ pc[c] = "out" /\ pc'[c] = "wake"
        /\ \A d \in Creators : d # c => pc'[d] = pc[d] /\ info'[d] = info[d]
    BY <1>0, <1>1 DEF CreateQueue, Goto, thread, TypeOK
  <2> QED BY <2>1, Places, QuietThreads
<1>2. ASSUME NEW c \in Creators, Kill(c) PROVE \A q \in Infos : ThreadInv(q)'
  BY <1>2, QuietThreads DEF Kill, thread, create, kthreadd
<1>3. ASSUME NEW c \in Creators, Controls(c) \/ ControlsReturn(c)
      PROVE  \A q \in Infos : ThreadInv(q)'
  <2>1. pc[c] # "out"
    BY <1>3 DEF Controls, ControlsReturn, WakeThread, KthreadPark, Unpark, KthreadStop,
         KthreadParkWake, KthreadParkWait, UnparkWake, KthreadStopWake, KthreadStopWait
  <2> QED BY <1>0, <1>3, <2>1, OwnerThreads DEF InfoOwned
<1>4. ASSUME NEW c \in Creators, CreateReturns(c) PROVE \A q \in Infos : ThreadInv(q)'
  <2>1. CASE CreateResult(c)
    <3>1. info[c] \in Infos
      BY <1>0, <2>1 DEF CreateResult, InfoOwned
    <3> QED BY <2>1, <3>1, ResultThreads
  <2>2. CASE ~CreateResult(c)
    <3>1. /\ UNCHANGED <<tpc, flags, state, parked, asked>>
          /\ pc[c] \in {"wake", "wait", "xchg", "rewait"}
          /\ pc'[c] \in {"wait", "xchg", "rewait", "result", "out"}
          /\ \A d \in Creators : d # c => pc'[d] = pc[d] /\ info'[d] = info[d]
      BY SMTT(30), <1>0, <1>4, <2>2 DEF CreateReturns, CreateWake, CreateWait, CreateGiveUp,
           CreateRewait, Goto, Leave, thread, TypeOK
    <3>2. pc[c] \notin OwnerAt /\ pc'[c] \notin OwnerAt
      BY <3>1, Places
    <3> QED BY <3>1, <3>2, QuietThreads
  <2> QED BY <2>1, <2>2
<1>5. CASE Kthreadd
  <2>1. UNCHANGED <<pc, info, flags, state, parked, asked>>
    BY <1>5 DEF Kthreadd, KthreaddSet, KthreaddTest, KthreaddWoken, KthreaddTake,
         CreateKthread, CreateFailed, CreateFailedTell, creators, thread
  <2>2. \A r \in Infos : \/ tpc'[r] = tpc[r]
                         \/ tpc[r] \notin OwnedAt /\ tpc'[r] \notin OwnedAt
    <3>1. CASE CreateKthread
      <4>1. kpc = "create" /\ tpc[kinfo] = "none" /\ kinfo \in Infos
        BY <3>1 DEF CreateKthread, CInv, IInv, OnePlace, Idle
      <4> QED BY SMTT(30), <1>0, <3>1, <4>1, Places DEF CreateKthread, TypeOK, thread
    <3>2. CASE ~CreateKthread
      BY <1>5, <3>2 DEF Kthreadd, KthreaddSet, KthreaddTest, KthreaddWoken, KthreaddTake,
         CreateFailed, CreateFailedTell, thread
    <3> QED BY <3>1, <3>2
  <2> QED BY <2>1, <2>2, QuietThreads
<1>6. ASSUME NEW r \in Infos, Thread(r) \/ WorkArrives(r) PROVE \A q \in Infos : ThreadInv(q)'
  <2>1. CASE ThreadStart(r) \/ ThreadNoMemory(r)
    <3>1. /\ UNCHANGED <<pc, info, flags, state, parked, asked>>
          /\ tpc[r] \in {"start", "nomem"} /\ tpc'[r] \in {"none", "nomem", "tell"}
          /\ \A q \in Infos : q # r => tpc'[q] = tpc[q]
      BY <1>0, <2>1 DEF ThreadStart, ThreadNoMemory, At, creators, TypeOK
    <3> QED BY <3>1, Places, QuietThreads
  <2>2. CASE ThreadTell(r)
    BY <2>2, TellThreads
  <2> QED BY <1>6, <2>1, <2>2, RunsThreads, WorkThreads DEF Thread
<1>7. CASE UNCHANGED vars
  BY <1>7, QuietThreads DEF vars
<1> QED
  BY <1>1, <1>2, <1>3, <1>4, <1>5, <1>6, <1>7 DEF Next, Calls, Returns

\* The invariant of the threads holds throughout.
LEMMA CInvAlways == Spec => []CInv
BY InitCInv, NextCInv, PTL DEF Spec

\* A thread enters threadfn only if it was woken or parked before kthread_stop().
THEOREM KthreadStartsOnlyIfAsked == Spec => []StartsOnlyIfAsked
<1>1. CInv => StartsOnlyIfAsked
  BY DEF CInv, ThreadInv, StateExact, StartsOnlyIfAsked, Started
<1> QED BY <1>1, CInvAlways, PTL

\* A parked thread sleeps in TASK_PARKED until its owner unparks or stops it, and
\* its completion "parked" is used up.
THEOREM KthreadParkHolds == Spec => []ParkHolds
<1>1. CInv => ParkHolds
  <2> SUFFICES ASSUME CInv, NEW c \in Creators, pc[c] = "parked"
               PROVE  /\ tpc[info[c]] = "parked" /\ state[info[c]] = TASK_PARKED
                      /\ parked[info[c]] = 0
    BY DEF ParkHolds
  <2>1. info[c] \in Infos /\ Owns(c, info[c])
    BY DEF CInv, IInv, InfoOwned, Owns, OwnerAt
  <2> QED BY <2>1 DEF CInv, ThreadInv, ParkedExact, Sleeps
<1> QED BY <1>1, CInvAlways, PTL
=============================================================================
