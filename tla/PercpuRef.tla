------------------------------ MODULE PercpuRef -----------------------------
(***************************************************************************)
(* The `percpu_refcount` component (percpu-refcount.c and the get and put  *)
(* operations of percpu-refcount.h).                                       *)
(*                                                                         *)
(* A get or put reads the flags and then changes a counter, both inside an *)
(* RCU read-side section.  The owner kills and revives the reference, the  *)
(* switcher changes its mode; percpu_ref_switch_lock serialises them but   *)
(* is dropped while one of them waits for a switch in progress.            *)
(***************************************************************************)
EXTENDS Integers, FiniteSets, Functions

CONSTANTS
  Users,    \* contexts that take and drop references
  CPUs,
  Ops,      \* what they take them with: subset of {"get", "tryget", "tryget_live"}
  BIAS,     \* PERCPU_COUNT_BIAS, half of what an unsigned long can hold
  MaxHeld   \* bound: references one user holds

ASSUME PercpuRefConstants ==
  /\ IsFiniteSet(Users) /\ IsFiniteSet(CPUs)
  /\ Ops \subseteq {"get", "tryget", "tryget_live"}
  /\ "cb" \notin Users                                        \* see guards
  /\ BIAS \in Nat /\ MaxHeld \in Nat
  /\ 2 * (SumFunction([u \in Users |-> MaxHeld]) + 3) < BIAS   \* far from overflow

VARIABLES
  count,          \* ref->count
  percpu_count,   \* the counters of the CPUs
  flags,          \* low bits of ref->percpu_count_ptr: subset of {"ATOMIC", "DEAD"}
  allocated,      \* its pointer part is not NULL
  confirm_switch, \* ref->confirm_switch: "null", the "noop" one, or the caller's "confirm"
  force_atomic,
  allow_reinit,
  posted,         \* ref->rcu is posted with call_rcu()
  cb,             \* where its callback is, "idle" when it does not run
  guards,         \* the read-side sections the posted callback has to wait for
  lock,           \* percpu_ref_switch_lock: its holder, or "none"
  op,             \* owner and switcher: the operation they are in
  at,             \* ... and where in it
  waitq,          \* percpu_ref_switch_waitq: those of them that sleep until they are woken
  call,           \* users: the operation they are in
  path,           \* users: what they read from the flags
  held,           \* references the users hold
  initial,        \* the owner holds the initial reference
  released,       \* ref->release() has been called (since the last revival)
  confirmed       \* confirm_kill has been called: "no", "rcu", "now"

refs == <<held, initial, released>>
ref == <<count, percpu_count, flags, allocated>>
switch == <<confirm_switch, force_atomic, allow_reinit, posted, cb, guards>>
admin == <<lock, op, at, waitq>>
user == <<call, path>>
vars == <<count, percpu_count, flags, allocated, confirm_switch, force_atomic, allow_reinit,
          posted, cb, guards, lock, op, at, waitq, call, path, held, initial, released,
          confirmed>>

\* An unsigned long.
Word(n) == n % (2 * BIAS)

Admins == {"owner", "switcher"}

\* percpu_ref_init with any flags; the allocation failing leaves nothing to model.
Init ==
  \E init_atomic, init_dead, reinit \in BOOLEAN :
    /\ force_atomic = init_atomic
    /\ allow_reinit = (reinit \/ init_atomic \/ init_dead)
    /\ flags = (IF init_atomic \/ init_dead THEN {"ATOMIC"} ELSE {})
                 \cup (IF init_dead THEN {"DEAD"} ELSE {})
    /\ count = (IF init_atomic \/ init_dead THEN 0 ELSE BIAS) + (IF init_dead THEN 0 ELSE 1)
    /\ initial = ~init_dead
    /\ released = init_dead
    /\ percpu_count = [c \in CPUs |-> 0]
    /\ allocated = TRUE
    /\ confirm_switch = "null"
    /\ posted = FALSE
    /\ cb = "idle"
    /\ guards = {}
    /\ lock = "none"
    /\ op = [a \in Admins |-> "none"]
    /\ at = [a \in Admins |-> "out"]
    /\ waitq = {}
    /\ call = [u \in Users |-> "none"]
    /\ path = [u \in Users |-> "none"]
    /\ held = [u \in Users |-> 0]
    /\ confirmed = "no"
-----------------------------------------------------------------------------
\* __ref_is_percpu
RefIsPercpu == flags = {}

\* rcu_read_lock() and the read of the flags.  percpu_ref_get() is for callers
\* that hold a reference.
UserBegin(u, o) ==
  /\ call[u] = "none"
  /\ o \in Ops \cup {"put"}
  /\ o \in {"get", "put"} => held[u] > 0
  /\ o # "put" => held[u] < MaxHeld
  /\ call' = [call EXCEPT ![u] = o]
  /\ path' = [path EXCEPT ![u] = IF RefIsPercpu THEN "percpu" ELSE "atomic"]
  /\ UNCHANGED <<ref, switch, admin, refs, confirmed>>

\* The operation and the section end.
UserEnd(u, change) ==
  /\ call' = [call EXCEPT ![u] = "none"]
  /\ path' = [path EXCEPT ![u] = "none"]
  /\ guards' = guards \ {u}
  /\ held' = [held EXCEPT ![u] = @ + change]
  /\ UNCHANGED <<flags, allocated, confirm_switch, force_atomic, allow_reinit, posted, cb, admin,
                 initial, confirmed>>

\* this_cpu_add and this_cpu_sub, on whatever CPU the user is.
UserPercpu(u, c) ==
  LET change == IF call[u] = "put" THEN -1 ELSE 1 IN
  /\ path[u] = "percpu"
  /\ percpu_count' = [percpu_count EXCEPT ![c] = Word(@ + change)]
  /\ UserEnd(u, change)
  /\ UNCHANGED <<count, released>>

\* Mutant: DEAD is not looked at again.
UserTestDeadNever(u) ==
  /\ call[u] = "tryget_live" /\ path[u] = "atomic"
  /\ path' = [path EXCEPT ![u] = "not_dead"]
  /\ UNCHANGED <<ref, switch, admin, call, refs, confirmed>>

\* percpu_ref_tryget_live looks at DEAD again on the atomic path.
UserTestDead(u) ==
  /\ call[u] = "tryget_live" /\ path[u] = "atomic"
  /\ IF "DEAD" \in flags
     THEN UserEnd(u, 0)
     ELSE /\ path' = [path EXCEPT ![u] = "not_dead"]
          /\ UNCHANGED <<call, guards, held, flags, allocated, confirm_switch, force_atomic,
                         allow_reinit, posted, cb, admin, initial, confirmed>>
  /\ UNCHANGED <<count, percpu_count, released>>

\* Mutant: a failing try still counts.
UserAtomicAlways(u) ==
  /\ call[u] = "tryget_live" => path[u] = "not_dead"
  /\ path[u] \in {"atomic", "not_dead"}
  /\ LET change == IF call[u] = "put" THEN -1 ELSE 1 IN
     /\ count' = Word(count + change)
     /\ released' = (released \/ (call[u] = "put" /\ count' = 0))
     /\ UserEnd(u, change)
  /\ UNCHANGED percpu_count

\* Mutant: the last put does not release.
UserAtomicSilent(u) ==
  LET change == CASE call[u] = "put" -> -1
                  [] call[u] = "get" -> 1
                  [] OTHER -> IF count = 0 THEN 0 ELSE 1
  IN
  /\ path[u] = (IF call[u] = "tryget_live" THEN "not_dead" ELSE "atomic")
  /\ count' = Word(count + change)
  /\ UserEnd(u, change)
  /\ UNCHANGED <<percpu_count, released>>

\* atomic_long_add, atomic_long_add_unless(.., 0), atomic_long_sub_and_test with
\* ref->release().
UserAtomic(u) ==
  LET change == CASE call[u] = "put" -> -1
                  [] call[u] = "get" -> 1
                  [] OTHER -> IF count = 0 THEN 0 ELSE 1
  IN
  /\ path[u] = (IF call[u] = "tryget_live" THEN "not_dead" ELSE "atomic")
  /\ count' = Word(count + change)
  /\ released' = (released \/ (call[u] = "put" /\ count' = 0))
  /\ UserEnd(u, change)
  /\ UNCHANGED percpu_count
-----------------------------------------------------------------------------
\* An operation takes the lock and sets its flag.
Start(a, o) ==
  /\ at[a] = "out" /\ lock = "none"
  /\ lock' = a
  /\ op' = [op EXCEPT ![a] = o]
  /\ UNCHANGED waitq

\* By the owner of the initial reference, also after percpu_ref_call_confirm_rcu
\* has exited a reference that cannot be used again.
PercpuRefKill(o) ==
  /\ o \in {"kill", "kill_and_confirm"}
  /\ initial
  /\ Start("owner", o)
  /\ flags' = flags \cup {"DEAD"}
  /\ at' = [at EXCEPT !["owner"] = "mode"]
  /\ confirmed' = "no"
  /\ UNCHANGED <<count, percpu_count, allocated, switch, user, refs>>

\* percpu_ref_resurrect, and percpu_ref_reinit: the same on a count of zero.
PercpuRefResurrect ==
  /\ "DEAD" \in flags /\ ~initial /\ allow_reinit /\ allocated
  /\ Start("owner", "resurrect")
  /\ flags' = flags \ {"DEAD"}
  /\ at' = [at EXCEPT !["owner"] = "get"]
  /\ UNCHANGED <<count, percpu_count, allocated, switch, user, refs, confirmed>>

\* percpu_ref_get(ref): ATOMIC is still set.
ResurrectGet ==
  /\ at["owner"] = "get"
  /\ count' = Word(count + 1)
  /\ initial' = TRUE
  /\ released' = FALSE
  /\ at' = [at EXCEPT !["owner"] = "mode"]
  /\ UNCHANGED <<percpu_count, flags, allocated, switch, lock, op, waitq, user, held, confirmed>>

\* On any reference that is in use or has not been given up.
PercpuRefSwitch(o) ==
  /\ o \in {"switch_to_atomic", "switch_to_atomic_sync", "switch_to_percpu"}
  /\ allocated \/ ~released
  /\ Start("switcher", o)
  /\ force_atomic' = (o # "switch_to_percpu")
  /\ at' = [at EXCEPT !["switcher"] = "mode"]
  /\ UNCHANGED <<ref, confirm_switch, allow_reinit, posted, cb, guards, user, refs, confirmed>>

\* wait_event_lock_irq in __percpu_ref_switch_mode: a switch is in progress, so
\* sleep on percpu_ref_switch_waitq without the lock ...
SwitchWait(a) ==
  /\ at[a] = "mode" /\ lock = a
  /\ confirm_switch # "null"
  /\ lock' = "none"
  /\ at' = [at EXCEPT ![a] = "wait"]
  /\ waitq' = waitq \cup {a}
  /\ UNCHANGED <<ref, switch, op, user, refs, confirmed>>

\* ... and, once woken, take the lock and look again.
SwitchWoken(a) ==
  /\ at[a] = "wait" /\ a \notin waitq /\ lock = "none"
  /\ lock' = a
  /\ at' = [at EXCEPT ![a] = "mode"]
  /\ UNCHANGED <<ref, switch, op, waitq, user, refs, confirmed>>

\* __percpu_ref_switch_to_atomic, with the reference that the callback drops.
SwitchToAtomic(a) ==
  LET confirm == op[a] = "kill_and_confirm" IN
  IF "ATOMIC" \in flags
  THEN /\ confirmed' = IF confirm THEN "now" ELSE confirmed
       /\ UNCHANGED <<ref, confirm_switch, posted, cb, guards>>
  ELSE /\ flags' = flags \cup {"ATOMIC"}
       /\ confirm_switch' = IF confirm THEN "confirm" ELSE "noop"
       /\ count' = Word(count + 1)
       /\ posted' = TRUE
       /\ guards' = {u \in Users : call[u] # "none"}
                      \cup (IF cb \in {"percpu", "atomic"} THEN {"cb"} ELSE {})
       /\ UNCHANGED <<percpu_count, allocated, cb, confirmed>>

\* Mutant: the counters are not zeroed.
SwitchToPercpuDirty ==
  /\ UNCHANGED <<allocated, confirm_switch, posted, cb, guards, confirmed, percpu_count>>
  /\ IF "ATOMIC" \notin flags \/ ~allow_reinit
     THEN UNCHANGED <<count, flags>>
     ELSE count' = Word(count + BIAS) /\ flags' = flags \ {"ATOMIC"}

\* __percpu_ref_switch_to_percpu
SwitchToPercpu ==
  /\ UNCHANGED <<allocated, confirm_switch, posted, cb, guards, confirmed>>
  /\ IF "ATOMIC" \notin flags \/ ~allow_reinit
     THEN UNCHANGED <<count, percpu_count, flags>>
     ELSE /\ count' = Word(count + BIAS)
          /\ percpu_count' = [c \in CPUs |-> 0]
          /\ flags' = flags \ {"ATOMIC"}

\* What follows: kill keeps the lock, percpu_ref_switch_to_atomic_sync goes on
\* waiting without it.
SwitchReturn(a) ==
  IF op[a] \in {"kill", "kill_and_confirm"}
  THEN at' = [at EXCEPT ![a] = "put"] /\ UNCHANGED <<lock, op>>
  ELSE /\ lock' = "none"
       /\ IF op[a] = "switch_to_atomic_sync"
          THEN at' = [at EXCEPT ![a] = "sync"] /\ UNCHANGED op
          ELSE at' = [at EXCEPT ![a] = "out"] /\ op' = [op EXCEPT ![a] = "none"]

\* __percpu_ref_switch_mode
SwitchMode(a) ==
  /\ at[a] = "mode" /\ lock = a
  /\ confirm_switch = "null"
  /\ IF force_atomic \/ "DEAD" \in flags THEN SwitchToAtomic(a) ELSE SwitchToPercpu
  /\ SwitchReturn(a)
  /\ UNCHANGED <<force_atomic, allow_reinit, waitq, user, refs>>

\* percpu_ref_kill_and_confirm drops the initial reference; DEAD is set, so on
\* the atomic path.
KillPut ==
  /\ at["owner"] = "put"
  /\ count' = Word(count - 1)
  /\ initial' = FALSE
  /\ released' = (released \/ count' = 0)
  /\ lock' = "none"
  /\ at' = [at EXCEPT !["owner"] = "out"]
  /\ op' = [op EXCEPT !["owner"] = "none"]
  /\ UNCHANGED <<percpu_count, flags, allocated, switch, waitq, user, held, confirmed>>

\* percpu_ref_switch_to_atomic_sync waits for the end of the switch ...
SyncWait(a) ==
  /\ at[a] = "sync" /\ confirm_switch # "null"
  /\ at' = [at EXCEPT ![a] = "sync_wait"]
  /\ waitq' = waitq \cup {a}
  /\ UNCHANGED <<ref, switch, lock, op, user, refs, confirmed>>

SyncWoken(a) ==
  /\ at[a] = "sync_wait" /\ a \notin waitq
  /\ at' = [at EXCEPT ![a] = "sync"]
  /\ UNCHANGED <<ref, switch, lock, op, waitq, user, refs, confirmed>>

\* ... and returns.
SyncDone(a) ==
  /\ at[a] = "sync" /\ confirm_switch = "null"
  /\ at' = [at EXCEPT ![a] = "out"]
  /\ op' = [op EXCEPT ![a] = "none"]
  /\ UNCHANGED <<ref, switch, lock, waitq, user, refs, confirmed>>
-----------------------------------------------------------------------------
\* Mutant: the callback does not wait for read-side sections.
SwitchRcuEarly ==
  /\ posted /\ cb = "idle"
  /\ posted' = FALSE
  /\ cb' = "confirm"
  /\ count' = Word(count + SumFunction(percpu_count) - BIAS)
  /\ UNCHANGED <<percpu_count, flags, allocated, confirm_switch, force_atomic, allow_reinit,
                 guards, admin, user, refs, confirmed>>

\* percpu_ref_switch_to_atomic_rcu, after a grace period.
SwitchRcu ==
  /\ posted /\ cb = "idle"
  /\ guards = {}
  /\ posted' = FALSE
  /\ cb' = "confirm"
  /\ count' = Word(count + SumFunction(percpu_count) - BIAS)
  /\ UNCHANGED <<percpu_count, flags, allocated, confirm_switch, force_atomic, allow_reinit,
                 guards, admin, user, refs, confirmed>>

\* percpu_ref_call_confirm_rcu: confirm, ...
CallConfirmRcu ==
  /\ cb = "confirm"
  /\ confirmed' = IF confirm_switch = "confirm" THEN "rcu" ELSE confirmed
  /\ confirm_switch' = "null"
  /\ cb' = "wake"
  /\ UNCHANGED <<ref, force_atomic, allow_reinit, posted, guards, admin, user, refs>>

\* Mutant: the waiters are not woken.
ConfirmWakeNone ==
  /\ cb = "wake"
  /\ allocated' = (allocated /\ allow_reinit)
  /\ flags' = IF allow_reinit THEN flags ELSE {"ATOMIC", "DEAD"}
  /\ cb' = IF flags' = {} THEN "percpu" ELSE "atomic"
  /\ UNCHANGED <<count, percpu_count, confirm_switch, force_atomic, allow_reinit, posted,
                 guards, admin, user, refs, confirmed>>

\* ... wake the waiters, exit if the reference cannot be used again ...
ConfirmWake ==
  /\ cb = "wake"
  /\ waitq' = {}
  /\ allocated' = (allocated /\ allow_reinit)
  /\ flags' = IF allow_reinit THEN flags ELSE {"ATOMIC", "DEAD"}
  /\ cb' = IF flags' = {} THEN "percpu" ELSE "atomic"
  /\ UNCHANGED <<count, percpu_count, confirm_switch, force_atomic, allow_reinit, posted,
                 guards, lock, op, at, user, refs, confirmed>>

\* ... and drop the switch's own reference, in whatever mode the reference is by now.
ConfirmPut ==
  /\ cb \in {"percpu", "atomic"}
  /\ IF cb = "percpu"
     THEN /\ \E c \in CPUs : percpu_count' = [percpu_count EXCEPT ![c] = Word(@ - 1)]
          /\ UNCHANGED <<count, released>>
     ELSE /\ count' = Word(count - 1)
          /\ released' = (released \/ count' = 0)
          /\ UNCHANGED percpu_count
  /\ cb' = "idle"
  /\ guards' = guards \ {"cb"}
  /\ UNCHANGED <<flags, allocated, confirm_switch, force_atomic, allow_reinit, posted, admin,
                 user, held, initial, confirmed>>

\* percpu_ref_exit by the owner of a released reference it does not revive.
PercpuRefExit ==
  /\ released /\ allocated /\ at["owner"] = "out" /\ at["switcher"] = "out"
  /\ allocated' = FALSE
  /\ flags' = {"ATOMIC", "DEAD"}
  /\ UNCHANGED <<count, percpu_count, switch, admin, user, refs, confirmed>>
-----------------------------------------------------------------------------
UserStep(u) == (\E c \in CPUs : UserPercpu(u, c)) \/ UserTestDead(u) \/ UserAtomic(u)

AdminStep(a) ==
  \/ a = "owner" /\ (ResurrectGet \/ KillPut)
  \/ SwitchWait(a) \/ SwitchWoken(a) \/ SwitchMode(a)
  \/ SyncWait(a) \/ SyncWoken(a) \/ SyncDone(a)

RcuStep == SwitchRcu \/ CallConfirmRcu \/ ConfirmWake \/ ConfirmPut

Next ==
  \/ \E u \in Users : UserStep(u) \/ \E o \in Ops \cup {"put"} : UserBegin(u, o)
  \/ \E o \in {"kill", "kill_and_confirm"} : PercpuRefKill(o)
  \/ \E o \in {"switch_to_atomic", "switch_to_atomic_sync", "switch_to_percpu"} :
       PercpuRefSwitch(o)
  \/ PercpuRefResurrect \/ PercpuRefExit
  \/ \E a \in Admins : AdminStep(a)
  \/ RcuStep

Spec == Init /\ [][Next]_vars

\* Read-side sections and RCU callbacks end, who holds a reference drops it, and
\* a lock or a wait queue that is free again and again is got.
FairSpec ==
  /\ Spec
  /\ \A u \in Users : WF_vars(UserStep(u)) /\ SF_vars(UserBegin(u, "put"))
  /\ \A a \in Admins : SF_vars(AdminStep(a))
  /\ WF_vars(RcuStep)
-----------------------------------------------------------------------------
\* Type invariant.
TypeOK ==
  /\ count \in 0..(2 * BIAS - 1)
  /\ percpu_count \in [CPUs -> 0..(2 * BIAS - 1)]
  /\ flags \subseteq {"ATOMIC", "DEAD"}
  /\ allocated \in BOOLEAN
  /\ confirm_switch \in {"null", "noop", "confirm"}
  /\ force_atomic \in BOOLEAN /\ allow_reinit \in BOOLEAN
  /\ posted \in BOOLEAN
  /\ cb \in {"idle", "confirm", "wake", "percpu", "atomic"}
  /\ guards \subseteq Users \cup {"cb"}
  /\ lock \in Admins \cup {"none"}
  /\ op \in [Admins -> {"none", "kill", "kill_and_confirm", "resurrect", "switch_to_atomic",
                        "switch_to_atomic_sync", "switch_to_percpu"}]
  /\ at \in [Admins -> {"out", "get", "mode", "wait", "put", "sync", "sync_wait"}]
  /\ waitq \subseteq Admins
  /\ call \in [Users -> {"none", "get", "tryget", "tryget_live", "put"}]
  /\ held \in [Users -> 0..MaxHeld]
  /\ path \in [Users -> {"none", "percpu", "atomic", "not_dead"}]
  /\ initial \in BOOLEAN /\ released \in BOOLEAN
  /\ confirmed \in {"no", "rcu", "now"}

One(b) == IF b THEN 1 ELSE 0

\* The references there are, with those of switches that are not over.
References ==
  SumFunction(held) + One(initial) + One(posted) + One(cb # "idle")

\* The per-CPU counters count.
Percpu == "ATOMIC" \notin flags \/ posted

\* The counters always add up to the references, though single ones wrap and a
\* reference is taken on one CPU and dropped on another, in another mode.
CountExact ==
  References = IF Percpu THEN Word(count + SumFunction(percpu_count) - BIAS) ELSE count

\* ref->release() is called when the last reference goes, not before, and not
\* missed: the reference that makes the count zero is the one that releases.
ReleaseExact == released <=> References = 0

\* A user that is about to change a per-CPU counter finds it allocated and
\* counting: the counters are not yet summed up and not freed.
PercpuSafe == \A u \in Users : path[u] = "percpu" \/ cb = "percpu" => Percpu /\ allocated

\* Once confirm_kill has been called after a switch to atomic mode,
\* percpu_ref_tryget_live() gives out no reference.
ConfirmedAfterSwitch ==
  [][\A u \in Users : confirmed = "rcu" /\ "DEAD" \in flags /\ call[u] = "tryget_live"
       => held'[u] = held[u]]_vars

\* A reference whose owner has killed it is released unless it is revived, if its
\* users only use percpu_ref_tryget_live().
KillReleases == ~initial ~> released \/ initial

\* Kills, revivals and mode switches return, also when they wait for each other,
\* unless another one keeps starting switches: who is woken at the end of a switch
\* and finds the next one in progress waits again.
OperationsReturn ==
  \A a, b \in Admins : a # b =>
    []<>(at[a] = "out") \/ ([]<>(at[b] = "out") /\ []<>(at[b] # "out"))
=============================================================================
