---------------------------- MODULE TinyRcuProofs ---------------------------
(***************************************************************************)
(* The grace period of TinyRcu, for any tasks and any callbacks.           *)
(*                                                                         *)
(* No variable of the code records readers, so the invariant says where    *)
(* they can be: inside the running task or what has interrupted it, never  *)
(* in user mode.  A quiescent state is therefore free of readers.          *)
(***************************************************************************)
EXTENDS TinyRcu, TLAPS

ReadersRun ==
  \A c \in reading :
    \/ c = current /\ ~user
    \/ c \in ctx

GuardsRead == \A h \in Heads : guards[h] \subseteq reading

IInv == TypeOK /\ ReadersRun /\ GuardsRead /\ GracePeriod

\* In a quiescent state, a context switch or a tick from user mode, nobody reads.
LEMMA QuiescentNoReader ==
  ASSUME TypeOK, ReadersRun, GuardsRead, ctx = {}, user \/ current \notin reading
  PROVE  reading = {} /\ \A h \in Heads : guards[h] = {}
BY DEF ReadersRun, GuardsRead, TypeOK

\* A callback that is posted is none of those that are ready.
LEMMA PostedNotReady ==
  ASSUME TypeOK, NEW h \in Heads, h \notin Queued
  PROVE  /\ \A i \in 1..done : rcucblist[i] # h
         /\ \A i \in 1..Len(list) : list[i] # h
<1>1. list \in Seq(Heads) /\ rcucblist \in Seq(Heads) /\ done \in 0..Len(rcucblist)
  BY DEF TypeOK
<1>2. DOMAIN list = 1..Len(list) /\ \A i \in 1..done : i \in DOMAIN rcucblist
  BY <1>1
<1> QED BY Zenon, <1>2 DEF Queued, Range

\* The context that runs is a context, and a reader in it is found there.
LEMMA HereIsContext ==
  ASSUME TypeOK
  PROVE  Here \in Contexts /\ (Here = current \/ Here \in ctx)
BY DEF TypeOK, Here, Contexts

\* rcu_qs() where nobody reads makes everything posted ready.
LEMMA QsReady ==
  ASSUME TypeOK, GracePeriod, \A h \in Heads : guards[h] = {}, rcu_qs,
         UNCHANGED <<rcucblist, list, guards>>
  PROVE  GracePeriod' /\ done' \in 0..Len(rcucblist') /\ pending' \in BOOLEAN
BY DEF TypeOK, GracePeriod, rcu_qs

\* curtail is where the list ends, so a callback is linked behind all the others.
LEMMA LinkAtEnd ==
  ASSUME TypeOK, NEW h \in Heads, LinkAtTail(h)
  PROVE  list' = list /\ rcucblist' = Append(rcucblist, h) /\ curtail' = Len(rcucblist) + 1
<1>1. curtail = Len(rcucblist) /\ rcucblist \in Seq(Heads) /\ curtail # Detached
  BY DEF TypeOK, Detached
<1>2. SubSeq(rcucblist, 1, curtail) = rcucblist
  BY <1>1
<1> QED BY <1>1, <1>2 DEF LinkAtTail

\* Nothing is posted at the start.
LEMMA InitHolds == Init => IInv
<1> SUFFICES ASSUME Init PROVE IInv
  OBVIOUS
<1> USE DEF Init
<1>1. rcucblist \in Seq(Heads) /\ list \in Seq(Heads) /\ Len(rcucblist) = 0 /\ Len(list) = 0
  OBVIOUS
<1>2. guards \in [Heads -> SUBSET Contexts] /\ ahead \in [Heads -> SUBSET Heads]
  OBVIOUS
<1>3. TypeOK
  <2>1. user \in BOOLEAN /\ pending \in BOOLEAN /\ need_resched \in BOOLEAN
    BY Zenon
  <2>2. done \in 0..Len(rcucblist) /\ curtail = Len(rcucblist) /\ posted \subseteq Heads
    BY <1>1
  <2>3. ctx \subseteq {"softirq", "irq"} /\ reading \subseteq Contexts
    BY Zenon
  <2>4. softirq_at \in {"none", "take", "code"}
    BY Zenon
  <2>5. current \in AllTasks
    BY Zenon
  <2> HIDE DEF Init
  <2> QED BY <1>1, <1>2, <2>1, <2>2, <2>3, <2>4, <2>5 DEF TypeOK
<1>4. ReadersRun /\ GuardsRead
  BY DEF ReadersRun, GuardsRead
<1>5. GracePeriod
  BY <1>1 DEF GracePeriod
<1> QED BY <1>3, <1>4, <1>5 DEF IInv

\* The reader is where the CPU is.
LEMMA LockStep == IInv /\ RcuReadLock => IInv'
<1> SUFFICES ASSUME IInv, RcuReadLock PROVE IInv'
  OBVIOUS
<1> USE DEF IInv, RcuReadLock, cpu, ctrlblk, ghost
<1>1. Here \in Contexts /\ (Here = current \/ Here \in ctx)
  BY HereIsContext
<1>2. TypeOK'
  BY <1>1 DEF TypeOK
<1>3. ReadersRun'
  <2>1. Here = current /\ Here \notin ctx => ctx = {}
    BY DEF Here, TypeOK
  <2>2. Here \in ctx \/ ~user
    BY <1>1, <2>1 DEF InKernel
  <2> QED BY <1>1, <2>2 DEF ReadersRun
<1>4. GuardsRead' /\ GracePeriod'
  BY DEF GuardsRead, GracePeriod, TypeOK
<1> QED BY <1>2, <1>3, <1>4

\* A section that ends guards nothing any more.
LEMMA UnlockStep == IInv /\ RcuReadUnlock => IInv'
<1> SUFFICES ASSUME IInv, RcuReadUnlock PROVE IInv'
  OBVIOUS
<1> USE DEF IInv, RcuReadUnlock, cpu, ctrlblk
<1>1. TypeOK'
  BY DEF TypeOK
<1>2. ReadersRun' /\ GuardsRead'
  BY DEF ReadersRun, GuardsRead, TypeOK
<1>3. GracePeriod'
  BY DEF GracePeriod, TypeOK
<1> QED BY <1>1, <1>2, <1>3

\* A new callback goes behind donetail.
LEMMA CallRcuStep == ASSUME NEW h \in Heads PROVE IInv /\ CallRcu(h) => IInv'
<1> SUFFICES ASSUME IInv, CallRcu(h) PROVE IInv'
  OBVIOUS
<1> USE DEF IInv, CallRcu, RecordPosted, cpu
<1>1. list' = list /\ rcucblist' = Append(rcucblist, h) /\ curtail' = Len(rcucblist) + 1
  BY LinkAtEnd
<1>2. /\ Len(rcucblist') = Len(rcucblist) + 1 /\ rcucblist' \in Seq(Heads)
      /\ curtail' = Len(rcucblist')
      /\ \A i \in 1..Len(rcucblist) : rcucblist'[i] = rcucblist[i]
  BY <1>1 DEF TypeOK
<1>3. TypeOK'
  <2>1. posted' \subseteq Heads /\ posted \subseteq Heads
    BY DEF TypeOK
  <2>2. need_resched' \in BOOLEAN
    OBVIOUS
  <2>3. done' \in 0..Len(rcucblist')
    BY <1>2 DEF TypeOK
  <2> QED BY <1>1, <1>2, <2>1, <2>2, <2>3 DEF TypeOK
<1>4. ReadersRun' /\ GuardsRead'
  BY DEF ReadersRun, GuardsRead, TypeOK
<1>5. GracePeriod'
  <2>1. /\ \A i \in 1..done : rcucblist[i] # h
        /\ \A i \in 1..Len(list) : list[i] # h
    BY PostedNotReady
  <2>2. \A i \in 1..done : guards'[rcucblist'[i]] = {}
    BY <1>2, <2>1 DEF GracePeriod, TypeOK
  <2>3. \A i \in 1..Len(list) : guards'[list[i]] = {}
    BY <2>1 DEF GracePeriod, TypeOK
  <2> QED BY Zenon, <1>1, <2>2, <2>3 DEF GracePeriod
<1> QED BY <1>3, <1>4, <1>5

\* A context switch is a quiescent state.
LEMMA ScheduleStep == IInv /\ Schedule => IInv'
<1> SUFFICES ASSUME IInv, Schedule PROVE IInv'
  OBVIOUS
<1> USE DEF IInv, Schedule, ghost
<1>1. reading = {} /\ \A h \in Heads : guards[h] = {}
  BY QuiescentNoReader
<1>2. GracePeriod' /\ done' \in 0..Len(rcucblist') /\ pending' \in BOOLEAN
  BY <1>1, QsReady
<1>3. TypeOK'
  BY Zenon, <1>2 DEF TypeOK
<1>4. ReadersRun' /\ GuardsRead'
  BY <1>1 DEF ReadersRun, GuardsRead
<1> QED BY <1>2, <1>3, <1>4

\* A tick from user mode is one, another tick only asks for a switch.
LEMMA TickStep == IInv /\ Tick => IInv'
<1> SUFFICES ASSUME IInv, Tick PROVE IInv'
  OBVIOUS
<1> USE DEF IInv, Tick, ghost
<1>1. GracePeriod' /\ done' \in 0..Len(rcucblist') /\ pending' \in BOOLEAN
                   /\ need_resched' \in BOOLEAN
  <2>1. CASE user /\ ctx = {}
    <3>1. \A h \in Heads : guards[h] = {}
      BY <2>1, QuiescentNoReader
    <3>2. rcu_qs /\ UNCHANGED need_resched
      BY <2>1 DEF RcuSchedClockIrq
    <3> QED BY <3>1, <3>2, QsReady DEF TypeOK
  <2>2. CASE ~(user /\ ctx = {})
    <3>1. UNCHANGED <<done, pending>> /\ need_resched' \in BOOLEAN
      BY Zenon, <2>2 DEF RcuSchedClockIrq
    <3> QED BY <3>1 DEF GracePeriod, TypeOK
  <2> QED BY <2>1, <2>2
<1>2. TypeOK'
  BY <1>1 DEF TypeOK
<1>3. ReadersRun' /\ GuardsRead'
  BY DEF ReadersRun, GuardsRead
<1> QED BY <1>1, <1>2, <1>3

\* The ready prefix moves to the local list.
LEMMA TakeStep == IInv /\ TakeCallbacks => IInv'
<1> SUFFICES ASSUME IInv, TakeCallbacks PROVE IInv'
  OBVIOUS
<1> USE DEF IInv, TakeCallbacks, ghost
<1>1. done \in 0..Len(rcucblist) /\ rcucblist \in Seq(Heads) /\ curtail = Len(rcucblist)
  BY DEF TypeOK
<1>2. ReadersRun' /\ GuardsRead'
  BY DEF ReadersRun, GuardsRead
<1>3. CASE done = 0
  <2>1. TypeOK' /\ GracePeriod'
    BY <1>3 DEF TypeOK, GracePeriod, ctrlblk
  <2> QED BY <1>2, <2>1
<1>4. CASE done # 0
  <2>1. list' \in Seq(Heads) /\ Len(list') = done
        /\ \A i \in 1..done : list'[i] = rcucblist[i]
    BY <1>1, <1>4
  <2>2. rcucblist' \in Seq(Heads) /\ curtail' = Len(rcucblist') /\ done' = 0
    <3>1. rcucblist' = SubSeq(rcucblist, done + 1, Len(rcucblist)) /\ done' = 0
      BY <1>4
    <3>2. rcucblist' \in Seq(Heads) /\ Len(rcucblist') = Len(rcucblist) - done
      BY ONLY SMTT(20), <1>1, <3>1
    <3>3. curtail' = IF curtail = done THEN 0 ELSE curtail - done
      BY <1>4
    <3> QED BY ONLY SMT, <1>1, <3>1, <3>2, <3>3
  <2>3. TypeOK'
    BY <2>1, <2>2 DEF TypeOK
  <2>4. GracePeriod'
    <3>1. \A i \in 1..done : guards'[list'[i]] = {}
      BY <2>1 DEF GracePeriod
    <3>2. 1..done' = {}
      BY <2>2
    <3> QED BY Zenon, <2>1, <3>1, <3>2 DEF GracePeriod
  <2> QED BY <1>2, <2>3, <2>4
<1> QED BY <1>3, <1>4

\* The rest of the local list stays ready.
LEMMA InvokeStep == IInv /\ InvokeCallback => IInv'
<1> SUFFICES ASSUME IInv, InvokeCallback PROVE IInv'
  OBVIOUS
<1> USE DEF IInv, InvokeCallback, cpu, ctrlblk
<1>1. list' \in Seq(Heads) /\ Len(list') = Len(list) - 1
      /\ \A i \in 1..Len(list') : list'[i] = list[i + 1]
  BY DEF TypeOK
<1>2. TypeOK'
  BY <1>1 DEF TypeOK
<1>3. ReadersRun' /\ GuardsRead'
  BY DEF ReadersRun, GuardsRead
<1>4. GracePeriod'
  <2>1. \A i \in 1..Len(list') : i + 1 \in 1..Len(list)
    BY <1>1 DEF TypeOK
  <2> QED BY <1>1, <2>1 DEF GracePeriod
<1> QED BY <1>2, <1>3, <1>4

\* The steps that only move the CPU between contexts.
LEMMA ContextStep ==
  IInv /\ (ReschedCurr \/ ReturnToUser \/ EnterKernel \/ OtherIrq \/ IrqExit
           \/ LocalBhEnable \/ SoftirqEnd) => IInv'
<1> SUFFICES ASSUME IInv, ReschedCurr \/ ReturnToUser \/ EnterKernel \/ OtherIrq
                       \/ IrqExit \/ LocalBhEnable \/ SoftirqEnd
             PROVE  IInv'
  OBVIOUS
<1> USE DEF IInv, cpu, ctrlblk, ghost
<1>1. UNCHANGED <<rcucblist, done, curtail, list, reading, guards, posted, ahead, current>>
  BY DEF ReschedCurr, ReturnToUser, EnterKernel, OtherIrq, IrqExit, LocalBhEnable, SoftirqEnd
<1>2. GuardsRead' /\ GracePeriod'
  BY <1>1 DEF GuardsRead, GracePeriod
<1>3. CASE ReschedCurr
  BY <1>1, <1>2, <1>3 DEF TypeOK, ReadersRun, ReschedCurr
<1>4. CASE ReturnToUser
  BY <1>1, <1>2, <1>4 DEF TypeOK, ReadersRun, ReturnToUser
<1>5. CASE EnterKernel
  BY Zenon, <1>1, <1>2, <1>5 DEF TypeOK, ReadersRun, EnterKernel
<1>6. CASE OtherIrq
  BY <1>1, <1>2, <1>6 DEF TypeOK, ReadersRun, OtherIrq
<1>7. CASE IrqExit
  <2>1. TypeOK'
    BY Zenon, <1>1, <1>7 DEF TypeOK, IrqExit
  <2>2. ReadersRun'
    BY Zenon, <1>1, <1>7 DEF TypeOK, IrqExit, ReadersRun, Here
  <2> QED BY <1>2, <2>1, <2>2
<1>8. CASE LocalBhEnable
  BY Zenon, <1>1, <1>2, <1>8 DEF TypeOK, ReadersRun, LocalBhEnable
<1>9. CASE SoftirqEnd
  <2>1. TypeOK'
    BY Zenon, <1>1, <1>9 DEF TypeOK, SoftirqEnd
  <2>2. ReadersRun'
    BY Zenon, <1>1, <1>9 DEF TypeOK, SoftirqEnd, ReadersRun, Here
  <2> QED BY <1>2, <2>1, <2>2
<1> QED BY <1>3, <1>4, <1>5, <1>6, <1>7, <1>8, <1>9

\* The invariant is inductive.
THEOREM RcuInvariant == Spec => []IInv
<1>1. IInv /\ [Next]_vars => IInv'
  <2> SUFFICES ASSUME IInv, [Next]_vars PROVE IInv'
    OBVIOUS
  <2>1. CASE UNCHANGED vars
    BY <2>1 DEF IInv, TypeOK, ReadersRun, GuardsRead, GracePeriod, vars
  <2>2. CASE Next
    BY <2>2, LockStep, UnlockStep, CallRcuStep, ScheduleStep, TickStep, TakeStep, InvokeStep,
       ContextStep DEF Next, SoftirqStep
  <2> QED BY <2>1, <2>2
<1> QED BY InitHolds, <1>1, PTL DEF Spec

\* Type correctness: donetail always points into the callback list, and curtail to
\* its end.
THEOREM RcuTypeOK == Spec => []TypeOK
BY RcuInvariant, PTL DEF IInv

\* Every callback that rcu_process_callbacks may invoke has outlived the readers
\* that were inside their sections when it was posted.
THEOREM RcuGracePeriod == Spec => []GracePeriod
BY RcuInvariant, PTL DEF IInv

\* synchronize_rcu() may return at once.
THEOREM RcuSynchronize == Spec => []SynchronizeIsGracePeriod
<1>1. IInv => SynchronizeIsGracePeriod
  BY DEF IInv, ReadersRun, SynchronizeIsGracePeriod
<1> QED BY <1>1, RcuInvariant, PTL
-----------------------------------------------------------------------------
\* The local list is the softirq's, and is taken only when the last one is used up.
LocalList ==
  /\ "softirq" \in ctx <=> softirq_at # "none"
  /\ list # <<>> => softirq_at = "code"

OrderInv == TypeOK /\ LocalList /\ BarrierOrder

\* The elements of two sequences, one behind the other.
LEMMA RangeConcat ==
  ASSUME NEW l \in Seq(Heads), NEW c \in Seq(Heads)
  PROVE  /\ l \o c \in Seq(Heads) /\ Len(l \o c) = Len(l) + Len(c) /\ Len(l \o c) \in Nat
         /\ Range(l) \cup Range(c) = {(l \o c)[i] : i \in 1..Len(l \o c)}
<1> DEFINE s == l \o c
<1>1. /\ s \in Seq(Heads) /\ Len(s) = Len(l) + Len(c) /\ Len(s) \in Nat
      /\ \A i \in 1..Len(l) : s[i] = l[i] /\ i \in 1..Len(s)
      /\ \A i \in 1..Len(c) : s[i + Len(l)] = c[i] /\ i + Len(l) \in 1..Len(s)
  OBVIOUS
<1>2. \A i \in 1..Len(s) : i > Len(l) => i - Len(l) \in 1..Len(c) /\ s[i] = c[i - Len(l)]
  OBVIOUS
<1>3. /\ Range(l) = {l[i] : i \in 1..Len(l)}
      /\ Range(c) = {c[i] : i \in 1..Len(c)}
  BY DEF Range
<1>4. Len(l) \in Nat
  OBVIOUS
<1> HIDE DEF s
<1>5. ASSUME NEW h \in Range(l) \cup Range(c) PROVE \E i \in 1..Len(s) : h = s[i]
  BY Zenon, <1>1, <1>3
<1>6. ASSUME NEW i \in 1..Len(s) PROVE s[i] \in Range(l) \cup Range(c)
  <2>1. CASE i > Len(l)
    BY Zenon, <1>2, <1>3, <2>1
  <2>2. CASE ~(i > Len(l))
    <3>1. i \in 1..Len(l)
      BY <1>4, <2>2
    <3> QED BY Zenon, <1>1, <1>3, <3>1
  <2> QED BY <2>1, <2>2
<1>7. Range(l) \cup Range(c) = {s[i] : i \in 1..Len(s)}
  BY Zenon, <1>5, <1>6
<1> QED BY <1>1, <1>7 DEF s

\* The callbacks posted, as a sequence and as a set.
LEMMA AllSeq ==
  TypeOK => /\ Posted \in Seq(Heads) /\ Len(Posted) \in Nat
            /\ Queued = {Posted[i] : i \in 1..Len(Posted)}
            /\ Len(Posted) = Len(list) + Len(rcucblist)
<1> SUFFICES ASSUME TypeOK
             PROVE  /\ Posted \in Seq(Heads) /\ Len(Posted) \in Nat
                    /\ Queued = {Posted[i] : i \in 1..Len(Posted)}
                    /\ Len(Posted) = Len(list) + Len(rcucblist)
  OBVIOUS
<1>1. list \in Seq(Heads) /\ rcucblist \in Seq(Heads)
  BY DEF TypeOK
<1> QED BY Zenon, <1>1, RangeConcat DEF Posted, Queued

\* The same after a step.
LEMMA AllSeqNext == TypeOK' => Queued' = {Posted'[i] : i \in 1..Len(Posted')}
<1> SUFFICES ASSUME TypeOK' PROVE Queued' = {Posted'[i] : i \in 1..Len(Posted')}
  OBVIOUS
<1>1. list' \in Seq(Heads) /\ rcucblist' \in Seq(Heads)
  BY DEF TypeOK
<1> QED BY Zenon, <1>1, RangeConcat DEF Posted, Queued

\* A callback is posted behind all the others.
LEMMA CallRcuOrder ==
  ASSUME OrderInv, TypeOK', NEW h \in Heads, CallRcu(h)
  PROVE  LocalList' /\ BarrierOrder'
<1>1. /\ UNCHANGED <<ctx, softirq_at, list>> /\ rcucblist' = Append(rcucblist, h)
      /\ ahead' = [ahead EXCEPT ![h] = Queued] /\ posted' = Queued \cup {h} /\ h \notin Queued
      /\ TypeOK /\ LocalList /\ BarrierOrder
  BY LinkAtEnd DEF CallRcu, RecordPosted, cpu, OrderInv, BarrierOrder
<1>2. /\ Posted \in Seq(Heads) /\ Len(Posted) \in Nat /\ Queued = {Posted[i] : i \in 1..Len(Posted)}
      /\ ahead \in [Heads -> SUBSET Heads]
  BY <1>1, AllSeq DEF TypeOK
<1>3. Posted' = Append(Posted, h)
  <2>1. list \in Seq(Heads) /\ rcucblist \in Seq(Heads)
    BY <1>1 DEF TypeOK
  <2> QED BY SMTT(20), <1>1, <2>1 DEF Posted
<1>4. /\ Len(Posted') = Len(Posted) + 1 /\ Posted'[Len(Posted) + 1] = h
      /\ \A i \in 1..Len(Posted) : Posted'[i] = Posted[i] /\ Posted[i] # h /\ Posted[i] \in Heads
  BY <1>1, <1>2, <1>3
<1>5. \A i \in 1..Len(Posted) : ahead[Posted[i]] = Before(Posted, i)
  BY <1>1 DEF BarrierOrder
<1>6. ASSUME NEW i \in 1..Len(Posted') PROVE ahead'[Posted'[i]] = Before(Posted', i)
  <2>1. CASE i = Len(Posted) + 1
    <3>1. ahead'[Posted'[i]] = Queued
      BY <1>1, <1>2, <1>4, <2>1
    <3>2. Before(Posted', i) = {Posted[j] : j \in 1..Len(Posted)}
      BY SMTT(20), <1>2, <1>4, <2>1 DEF Before
    <3> QED BY <1>2, <3>1, <3>2
  <2>2. CASE i # Len(Posted) + 1
    <3>1. i \in 1..Len(Posted) /\ \A j \in 1..(i - 1) : j \in 1..Len(Posted)
      BY <1>2, <1>4, <2>2
    <3>2. ahead'[Posted'[i]] = ahead[Posted[i]]
      BY <1>1, <1>2, <1>4, <3>1
    <3>3. Before(Posted', i) = Before(Posted, i)
      BY <1>4, <3>1 DEF Before
    <3> QED BY <1>5, <3>1, <3>2, <3>3
  <2> QED BY <2>1, <2>2
<1>7. posted' = Queued'
  <2>1. Queued' = {Posted'[i] : i \in 1..Len(Posted')}
    BY AllSeqNext
  <2>2. ASSUME NEW k \in posted' PROVE k \in Queued'
    BY <1>1, <1>2, <1>4, <2>1
  <2>3. ASSUME NEW i \in 1..Len(Posted') PROVE Posted'[i] \in posted'
    <3>1. i = Len(Posted) + 1 \/ i \in 1..Len(Posted)
      BY <1>2, <1>4
    <3> QED BY <1>1, <1>2, <1>4, <3>1
  <2> QED BY <2>1, <2>2, <2>3
<1>8. BarrierOrder'
  BY <1>6, <1>7 DEF BarrierOrder
<1> QED BY <1>1, <1>8 DEF LocalList

\* The ready callbacks stay in front of the others.
LEMMA TakeOrder ==
  ASSUME OrderInv, TypeOK', TakeCallbacks
  PROVE  LocalList' /\ BarrierOrder'
<1>1. /\ softirq_at = "take" /\ softirq_at' = "code" /\ ctx' = ctx
      /\ ahead' = ahead /\ posted' = posted
      /\ done = 0 => list' = list /\ rcucblist' = rcucblist
      /\ done # 0 => /\ list' = SubSeq(rcucblist, 1, done)
                     /\ rcucblist' = SubSeq(rcucblist, done + 1, Len(rcucblist))
      /\ TypeOK /\ LocalList /\ BarrierOrder
  BY DEF TakeCallbacks, ctrlblk, ghost, OrderInv
<1>2. list = <<>> /\ rcucblist \in Seq(Heads) /\ done \in 0..Len(rcucblist)
  BY <1>1 DEF LocalList, TypeOK
<1>3. Posted' = rcucblist
  <2>1. /\ list' \in Seq(Heads) /\ Len(list') = done
        /\ \A i \in 1..done : list'[i] = rcucblist[i]
    <3>1. CASE done = 0
      BY <1>1, <1>2, <3>1
    <3>2. CASE done # 0
      BY <1>1, <1>2, <3>2
    <3> QED BY <3>1, <3>2
  <2>2. /\ rcucblist' \in Seq(Heads) /\ Len(rcucblist') = Len(rcucblist) - done
        /\ \A i \in 1..(Len(rcucblist) - done) : rcucblist'[i] = rcucblist[done + i]
    <3>1. CASE done = 0
      BY <1>1, <1>2, <3>1
    <3>2. CASE done # 0
      <4>1. rcucblist' = SubSeq(rcucblist, done + 1, Len(rcucblist))
        BY <1>1, <3>2
      <4>2. rcucblist \in Seq(Heads) /\ done \in 0..Len(rcucblist)
        BY <1>2
      <4> QED BY ONLY SMTT(20), <4>1, <4>2
    <3> QED BY <3>1, <3>2
  <2>3. Posted' \in Seq(Heads) /\ Len(Posted') = Len(rcucblist)
    <3>1. Posted' = list' \o rcucblist'
      BY DEF Posted
    <3>2. list' \in Seq(Heads) /\ rcucblist' \in Seq(Heads)
      BY <2>1, <2>2
    <3>3. Posted' \in Seq(Heads) /\ Len(Posted') = Len(list') + Len(rcucblist')
      BY <3>1, <3>2
    <3> QED BY <1>2, <2>1, <2>2, <3>3
  <2>4. ASSUME NEW i \in 1..Len(rcucblist) PROVE Posted'[i] = rcucblist[i]
    <3>1. CASE i <= done
      BY <1>2, <2>1, <2>2, <3>1 DEF Posted
    <3>2. CASE i > done
      <4>1. Posted'[i] = rcucblist'[i - done]
        BY SMTT(20), <1>2, <2>1, <2>2, <3>2 DEF Posted
      <4>2. i - done \in 1..(Len(rcucblist) - done) /\ done + (i - done) = i
        BY <1>2, <3>2
      <4> QED BY <2>2, <4>1, <4>2
    <3> QED BY <1>2, <3>1, <3>2
  <2> QED BY <1>2, <2>3, <2>4
<1>4. Posted = rcucblist
  BY <1>2 DEF Posted
<1>5. Queued' = Queued
  BY <1>1, <1>3, <1>4, AllSeq, AllSeqNext
<1>6. BarrierOrder'
  BY <1>1, <1>3, <1>4, <1>5 DEF BarrierOrder
<1> QED BY <1>1, <1>6 DEF LocalList

\* The first of all callbacks is invoked; it was ahead of each of the others.
LEMMA InvokeOrder ==
  ASSUME OrderInv, TypeOK', InvokeCallback
  PROVE  LocalList' /\ BarrierOrder'
<1>1. /\ softirq_at = "code" /\ UNCHANGED <<softirq_at, ctx, rcucblist>> /\ list # <<>>
      /\ list' = Tail(list) /\ ahead' = [h \in Heads |-> ahead[h] \ {Head(list)}]
      /\ posted' = Queued \ {Head(list)}
      /\ TypeOK /\ LocalList /\ BarrierOrder
  BY DEF InvokeCallback, cpu, ctrlblk, OrderInv, BarrierOrder
<1>2. Posted \in Seq(Heads) /\ Len(Posted) \in Nat /\ Len(Posted) > 0
  <2>1. list \in Seq(Heads) /\ rcucblist \in Seq(Heads) /\ Len(list) > 0 /\ Len(rcucblist) \in Nat
    BY <1>1 DEF TypeOK
  <2> QED BY <1>1, <2>1, AllSeq
<1>3. Posted' = Tail(Posted) /\ Head(list) = Posted[1]
  <2>1. list \in Seq(Heads) /\ rcucblist \in Seq(Heads)
    BY <1>1 DEF TypeOK
  <2>2. list # <<>> /\ list' = Tail(list) /\ rcucblist' = rcucblist
    BY <1>1
  <2> QED BY ONLY SMTT(20), <2>1, <2>2 DEF Posted
<1>4. /\ Len(Posted') = Len(Posted) - 1
      /\ \A i \in 1..Len(Posted') :
           /\ Posted'[i] = Posted[i + 1]
           /\ i + 1 \in 1..Len(Posted) /\ Posted[i + 1] \in Heads
  BY <1>2, <1>3
<1>5. \A i \in 1..Len(Posted) : ahead[Posted[i]] = Before(Posted, i)
  BY <1>1 DEF BarrierOrder
<1>6. \A i \in 2..Len(Posted) : Posted[i] # Posted[1]
  <2>1. ahead[Posted[1]] = {}
    BY <1>2, <1>5 DEF Before
  <2>2. ASSUME NEW i \in 2..Len(Posted) PROVE Posted[1] \in ahead[Posted[i]]
    BY <1>2, <1>5 DEF Before
  <2> QED BY <2>1, <2>2
<1>7. ASSUME NEW i \in 1..Len(Posted') PROVE ahead'[Posted'[i]] = Before(Posted', i)
  <2>1. ahead'[Posted'[i]] = {Posted[j] : j \in 1..i} \ {Posted[1]}
    <3>1. ahead'[Posted'[i]] = ahead[Posted[i + 1]] \ {Posted[1]}
      BY <1>1, <1>3, <1>4
    <3>2. ahead[Posted[i + 1]] = Before(Posted, i + 1)
      BY <1>4, <1>5
    <3>3. Before(Posted, i + 1) = {Posted[j] : j \in 1..i}
      BY <1>2 DEF Before
    <3> QED BY <3>1, <3>2, <3>3
  <2>2. ASSUME NEW j \in 1..(i - 1)
        PROVE  Posted'[j] = Posted[j + 1] /\ j + 1 \in 1..i /\ Posted[j + 1] # Posted[1]
    <3>1. Len(Posted') = Len(Posted) - 1
      BY <1>4
    <3>2. j \in 1..Len(Posted') /\ j + 1 \in 1..i /\ j + 1 \in 2..Len(Posted)
      BY ONLY SMT, <1>2, <3>1, i \in 1..Len(Posted'), j \in 1..(i - 1)
    <3> QED BY Zenon, <1>4, <1>6, <3>2
  <2>3. ASSUME NEW j \in 1..i, Posted[j] # Posted[1]
        PROVE  j - 1 \in 1..(i - 1) /\ Posted'[j - 1] = Posted[j]
    <3>1. j # 1 /\ j - 1 \in 1..(i - 1) /\ (j - 1) + 1 = j
      BY <2>3
    <3> QED BY <2>2, <3>1
  <2>4. ASSUME NEW x \in ahead'[Posted'[i]] PROVE x \in Before(Posted', i)
    <3>1. PICK j \in 1..i : x = Posted[j] /\ Posted[j] # Posted[1]
      BY Zenon, <2>1
    <3> QED BY Zenon, <2>3, <3>1 DEF Before
  <2>5. ASSUME NEW x \in Before(Posted', i) PROVE x \in ahead'[Posted'[i]]
    BY Zenon, <2>1, <2>2 DEF Before
  <2> QED BY Zenon, <2>4, <2>5
<1>8. posted' = Queued'
  <2>1. /\ Queued = {Posted[i] : i \in 1..Len(Posted)}
        /\ Queued' = {Posted'[i] : i \in 1..Len(Posted')}
    BY <1>1, AllSeq, AllSeqNext
  <2>2. ASSUME NEW i \in 1..Len(Posted') PROVE Posted'[i] \in posted'
    <3>1. i + 1 \in 2..Len(Posted)
      BY <1>2, <1>4
    <3> QED BY <1>1, <1>3, <1>4, <1>6, <2>1, <3>1
  <2>3. ASSUME NEW i \in 1..Len(Posted), Posted[i] # Posted[1] PROVE Posted[i] \in Queued'
    <3>1. i - 1 \in 1..Len(Posted') /\ (i - 1) + 1 = i
      BY <1>2, <1>4, <2>3
    <3>2. Posted'[i - 1] = Posted[i]
      BY <1>4, <3>1
    <3> QED BY <2>1, <3>1, <3>2
  <2> QED BY <1>1, <1>3, <2>1, <2>2, <2>3
<1>9. BarrierOrder'
  BY <1>7, <1>8 DEF BarrierOrder
<1> QED BY <1>1, <1>9 DEF LocalList

\* The other steps leave the callbacks where they are.
LEMMA QuietOrder ==
  ASSUME OrderInv, TypeOK', UNCHANGED <<list, rcucblist, posted, ahead>>,
         \/ UNCHANGED <<ctx, softirq_at>>
         \/ softirq_at' = softirq_at /\ ("softirq" \in ctx' <=> "softirq" \in ctx)
         \/ "softirq" \notin ctx /\ "softirq" \in ctx' /\ softirq_at' # "none"
         \/ list = <<>> /\ ("softirq" \in ctx' <=> softirq_at' # "none")
  PROVE  LocalList' /\ BarrierOrder'
<1>1. Posted' = Posted /\ Queued' = Queued
  BY DEF Posted, Queued
<1>2. BarrierOrder'
  BY <1>1 DEF OrderInv, BarrierOrder
<1> QED BY <1>2 DEF OrderInv, LocalList

\* No callback is lost, and they are invoked in the order they are posted: see
\* BarrierOrder.
THEOREM RcuBarrierOrder == Spec => []BarrierOrder
<1>1. Init => LocalList /\ BarrierOrder
  <2> SUFFICES ASSUME Init PROVE LocalList /\ BarrierOrder
    OBVIOUS
  <2>1. Len(Posted) = 0 /\ posted = Queued
    BY DEF Init, Posted, Queued, Range
  <2>2. BarrierOrder
    BY <2>1 DEF BarrierOrder
  <2> QED BY <2>2 DEF Init, LocalList
<1>2. OrderInv /\ TypeOK' /\ [Next]_vars => LocalList' /\ BarrierOrder'
  <2> SUFFICES ASSUME OrderInv, TypeOK', [Next]_vars PROVE LocalList' /\ BarrierOrder'
    OBVIOUS
  <2>1. CASE UNCHANGED vars
    BY <2>1, QuietOrder DEF vars
  <2>2. CASE RcuReadLock \/ RcuReadUnlock \/ Schedule \/ ReschedCurr \/ ReturnToUser
             \/ EnterKernel
    BY <2>2, QuietOrder DEF RcuReadLock, RcuReadUnlock, Schedule, ReschedCurr, ReturnToUser,
       EnterKernel, cpu, ctrlblk, ghost
  <2>3. CASE Tick \/ OtherIrq
    BY <2>3, QuietOrder DEF Tick, OtherIrq, ctrlblk, ghost
  <2>4. CASE IrqExit
    BY <2>4, QuietOrder DEF IrqExit, ctrlblk, ghost
  <2>5. CASE LocalBhEnable
    BY <2>5, QuietOrder DEF LocalBhEnable, ctrlblk, ghost
  <2>6. CASE SoftirqEnd
    <3>1. "softirq" \in ctx
      BY <2>6 DEF SoftirqEnd, OrderInv, LocalList
    <3> QED BY <2>6, <3>1, QuietOrder DEF SoftirqEnd, ctrlblk, ghost
  <2>7. ASSUME NEW h \in Heads, CallRcu(h) PROVE LocalList' /\ BarrierOrder'
    BY <2>7, CallRcuOrder
  <2> QED BY <2>1, <2>2, <2>3, <2>4, <2>5, <2>6, <2>7, TakeOrder, InvokeOrder
          DEF Next, SoftirqStep
<1> QED BY <1>1, <1>2, RcuTypeOK, PTL DEF Spec, OrderInv
=============================================================================
