--------------------------- MODULE PercpuRefProofs --------------------------
(***************************************************************************)
(* PercpuRef for any users, CPUs and word size, by the inductive invariant *)
(* RInv.                                                                   *)
(***************************************************************************)
EXTENDS PercpuRef, KernelLemmas

\* Most leaves are first-order and left to Zenon; the others name SMT.
USE Zenon

\* The most references the users can hold.
AllHeld == SumFunction([u \in Users |-> MaxHeld])

\* Its size: far below half a word.
LEMMA AllHeldType ==
  AllHeld \in Nat /\ 2 * (AllHeld + 3) < BIAS
<1>1. [u \in Users |-> MaxHeld] \in [Users -> Nat] /\ IsFiniteSet(Users)
  BY PercpuRefConstants
<1>2. AllHeld \in Nat
  BY <1>1, SumNat DEF AllHeld
<1> QED BY <1>2, PercpuRefConstants DEF AllHeld

\* Words are the numbers below 2 * BIAS, each its own word.
LEMMA WordType ==
  /\ 2 * BIAS \in Nat \ {0}
  /\ \A n \in Int : Word(n) \in 0..(2 * BIAS - 1)
  /\ \A n \in 0..(2 * BIAS - 1) : Word(n) = n
<1>1. AllHeld \in Nat /\ 2 * (AllHeld + 3) < BIAS
  BY AllHeldType
<1>2. 2 * BIAS \in Nat \ {0}
  BY SMT, <1>1, PercpuRefConstants
<1>3. ASSUME NEW n \in 0..(2 * BIAS - 1) PROVE Word(n) = n
  BY SMT, <1>2 DEF Word
<1>4. ASSUME NEW n \in Int PROVE Word(n) \in 0..(2 * BIAS - 1)
  BY SMT, <1>2 DEF Word
<1> QED BY <1>2, <1>3, <1>4

\* Whatever wraps on the way, a sum of words is the word of the sum.
LEMMA WordAdd ==
  ASSUME NEW a \in Int, NEW b \in Int
  PROVE  Word(Word(a) + b) = Word(a + b)
BY WordType, ModAdd DEF Word

\* Adding on both sides.
LEMMA WordEq ==
  ASSUME NEW a \in Int, NEW b \in Int, NEW d \in Int, Word(a) = Word(b)
  PROVE  Word(a + d) = Word(b + d)
BY ZenonT(30), WordAdd

\* this_cpu_add on some CPU changes the sum of all by as much, as a word.
LEMMA PercpuSum ==
  ASSUME NEW f \in [CPUs -> 0..(2 * BIAS - 1)], NEW e \in [CPUs -> 0..(2 * BIAS - 1)],
         NEW c \in CPUs, NEW d \in Int,
         e[c] = Word(f[c] + d), \A k \in CPUs \ {c} : e[k] = f[k]
  PROVE  /\ SumFunction(f) \in Int /\ SumFunction(e) \in Int
         /\ Word(SumFunction(e)) = Word(SumFunction(f) + d)
<1>1. f \in [CPUs -> Int] /\ f[c] \in Int /\ IsFiniteSet(CPUs)
  BY SMT, PercpuRefConstants, WordType
<1>2. Word(f[c] + d) \in 0..(2 * BIAS - 1)
  BY <1>1, WordType
<1>3. e[c] = Word(f[c] + d) /\ \A k \in CPUs \ {c} : e[k] = f[k]
  OBVIOUS
<1>4. e \in [CPUs -> Int] /\ e[c] \in Int
  BY SMT, <1>2, <1>3
<1>5. SumFunction(f) \in Int /\ SumFunction(e) \in Int
  BY <1>1, <1>4, SumType
<1>6. SumFunction(e) = SumFunction(f) - f[c] + e[c]
  BY ONLY SMT, <1>1, <1>3, <1>4, c \in CPUs, SumChange
<1> DEFINE x == f[c]
           s == SumFunction(f)
           w == Word(x + d)
<1>7. Word(w + (s - x)) = Word(x + d + (s - x))
  BY SMT, <1>1, <1>5, WordAdd
<1>8. w + (s - x) = s - x + w /\ x + d + (s - x) = s + d
  BY SMT, <1>1, <1>2, <1>5
<1> QED BY <1>3, <1>5, <1>6, <1>7, <1>8
-----------------------------------------------------------------------------
Gets == {"get", "tryget", "tryget_live"}
AtomicPath == {"atomic", "not_dead"}

\* The users on a path of P in a call of C.
Pending(P, C) == SumFunction([u \in Users |-> One(path[u] \in P /\ call[u] \in C)])

\* The changes under way: gets and puts that have read the flags and will change
\* a per-CPU counter, or count.
PG == Pending({"percpu"}, Gets)
PP == Pending({"percpu"}, {"put"}) + One(cb = "percpu")
AG == Pending(AtomicPath, Gets)
AP == Pending(AtomicPath, {"put"}) + One(cb = "atomic")

\* The most references there can be.
Bound == AllHeld + 3

\* The references the per-CPU counters stand for, maybe fewer than none.
Summed == References - (count - BIAS)

\* A user in a call holds what the call needs.
Calls ==
  \A u \in Users :
    /\ call[u] = "none" <=> path[u] = "none"
    /\ path[u] = "not_dead" => call[u] = "tryget_live"
    /\ call[u] \in Gets => held[u] < MaxHeld
    /\ call[u] \in {"get", "put"} => held[u] > 0

\* A reference without ATOMIC has the owner's; one that cannot be used again is
\* switched once; a switch in progress has a confirm_switch.
Modes ==
  /\ posted \/ cb = "confirm" <=> confirm_switch # "null"
  /\ posted => cb # "confirm" /\ "ATOMIC" \in flags
  /\ initial \/ "ATOMIC" \in flags
  /\ cb = "confirm" => "ATOMIC" \in flags
  /\ ~allow_reinit /\ cb # "idle" => ~posted /\ "ATOMIC" \in flags
  /\ ~allocated => ~posted /\ cb \notin {"confirm", "wake"} /\ flags = {"ATOMIC", "DEAD"}

\* How far a kill or a revival is shows in the reference, and in the lock.
Owner ==
  /\ at["owner"] = "out" => initial \/ "DEAD" \in flags
  /\ at["owner"] = "out" /\ initial /\ "DEAD" \in flags => ~allocated
  /\ at["owner"] = "get" =>
       op["owner"] = "resurrect" /\ ~initial /\ "DEAD" \notin flags /\ "ATOMIC" \in flags
  /\ at["owner"] # "out" => allow_reinit \/ op["owner"] # "resurrect"
  /\ at["owner"] \in {"mode", "wait"} =>
       /\ initial
       /\ \/ op["owner"] = "resurrect" /\ "DEAD" \notin flags
          \/ op["owner"] \in {"kill", "kill_and_confirm"} /\ "DEAD" \in flags
  /\ at["owner"] = "put" => initial /\ {"ATOMIC", "DEAD"} \subseteq flags
  /\ op["switcher"] \notin {"kill", "kill_and_confirm"}
  /\ at["owner"] \notin {"sync", "sync_wait"} /\ at["switcher"] \notin {"get", "put"}
  /\ at["owner"] \in {"get", "mode", "put"} => lock = "owner"
  /\ at["switcher"] = "mode" => lock = "switcher"

\* Who is about to change a per-CPU counter holds up the grace period.
Guarded ==
  /\ \A u \in Users : path[u] = "percpu" => Percpu /\ (posted => u \in guards)
  /\ cb = "percpu" => Percpu /\ (posted => "cb" \in guards)

\* The counters are exact, and count stays away from both ends of a word.
CountsExact ==
  IF Percpu
  THEN /\ Word(SumFunction(percpu_count)) = Word(Summed)
       /\ IF flags = {}
          THEN count - BIAS >= AP /\ count - BIAS + AG <= Bound
          ELSE Summed + PG <= Bound /\ Summed - PP >= -Bound
  ELSE count = References

\* From the call of confirm_kill on, percpu_ref_tryget_live looks at DEAD again.
Confirming ==
  /\ confirm_switch = "confirm" /\ "DEAD" \notin flags => at["owner"] \in {"get", "mode", "wait"}
  /\ confirm_switch = "confirm" /\ "DEAD" \in flags =>
       \A u \in Users : call[u] = "tryget_live" => path[u] = "atomic" \/ (posted /\ u \in guards)
  /\ confirmed = "rcu" /\ "DEAD" \in flags =>
       \A u \in Users : call[u] = "tryget_live" => path[u] = "atomic"
  /\ confirmed = "rcu" => allow_reinit \/ "DEAD" \in flags

RInv ==
  TypeOK /\ Calls /\ Modes /\ Owner /\ Guarded /\ CountsExact /\ Confirming /\ ReleaseExact
-----------------------------------------------------------------------------
\* The constants the bounds rest on.
LEMMA BoundType ==
  /\ AllHeld \in Nat
  /\ Bound \in Nat /\ BIAS \in Nat /\ MaxHeld \in Nat /\ Bound >= 3 /\ 2 * Bound < BIAS
BY SMT, AllHeldType, PercpuRefConstants DEF Bound

\* Pending changes by what one user does.
LEMMA PendingType ==
  ASSUME NEW P, NEW C
  PROVE  Pending(P, C) \in Nat /\ Pending(P, C)' \in Nat
<1>1. [u \in Users |-> One(path[u] \in P /\ call[u] \in C)] \in [Users -> Nat]
  BY DEF One
<1>2. [u \in Users |-> One(path'[u] \in P /\ call'[u] \in C)] \in [Users -> Nat]
  BY DEF One
<1>3. IsFiniteSet(Users)
  BY PercpuRefConstants
<1> QED BY <1>1, <1>2, <1>3, SumNat DEF Pending

\* One user's next path and call change the number of users on a path by at most
\* that user.
LEMMA PendingChange ==
  ASSUME NEW P, NEW C, NEW u \in Users,
         \A v \in Users \ {u} : path'[v] = path[v] /\ call'[v] = call[v]
  PROVE  Pending(P, C)' = Pending(P, C) - One(path[u] \in P /\ call[u] \in C)
                            + One(path'[u] \in P /\ call'[u] \in C)
<1> DEFINE f == [v \in Users |-> One(path[v] \in P /\ call[v] \in C)]
           e == [v \in Users |-> One(path'[v] \in P /\ call'[v] \in C)]
<1>1. f \in [Users -> Int] /\ e \in [Users -> Int]
  BY SMT DEF One
<1>2. \A v \in Users \ {u} : e[v] = f[v]
  OBVIOUS
<1>3. f[u] = One(path[u] \in P /\ call[u] \in C) /\ e[u] = One(path'[u] \in P /\ call'[u] \in C)
  OBVIOUS
<1>4. Pending(P, C) = SumFunction(f) /\ Pending(P, C)' = SumFunction(e)
  BY DEF Pending
<1>5. IsFiniteSet(Users)
  BY PercpuRefConstants
<1> HIDE DEF f, e
<1>6. SumFunction(e) = SumFunction(f) - f[u] + e[u]
  BY ONLY SMT, <1>1, <1>2, <1>5, u \in Users, SumChange
<1> QED BY <1>3, <1>4, <1>6

\* A step that leaves the users alone leaves the changes under way.
LEMMA PendingSame ==
  ASSUME NEW P, NEW C, UNCHANGED <<path, call>>
  PROVE  Pending(P, C)' = Pending(P, C)
BY DEF Pending

\* The references of the users.
LEMMA HeldType ==
  ASSUME held \in [Users -> 0..MaxHeld]
  PROVE  held \in [Users -> Int] /\ SumFunction(held) \in Nat
<1>1. held \in [Users -> Nat] /\ held \in [Users -> Int] /\ IsFiniteSet(Users)
  BY SMT, PercpuRefConstants
<1> QED BY <1>1, SumNat

\* Every get under way has room for its reference, and every put its reference.
LEMMA RefsBound ==
  ASSUME TypeOK, Calls
  PROVE  /\ SumFunction(held) + Pending({"percpu"}, Gets) + Pending(AtomicPath, Gets)
              <= AllHeld
         /\ SumFunction(held) >= Pending({"percpu"}, {"put"}) + Pending(AtomicPath, {"put"})
<1> DEFINE pg == [u \in Users |-> One(path[u] \in {"percpu"} /\ call[u] \in Gets)]
           ag == [u \in Users |-> One(path[u] \in AtomicPath /\ call[u] \in Gets)]
           pp == [u \in Users |-> One(path[u] \in {"percpu"} /\ call[u] \in {"put"})]
           ap == [u \in Users |-> One(path[u] \in AtomicPath /\ call[u] \in {"put"})]
           g == [u \in Users |-> pg[u] + ag[u]]
           p == [u \in Users |-> pp[u] + ap[u]]
           h == [u \in Users |-> held[u] - p[u]]
           top == [u \in Users |-> held[u] + g[u]]
<1>1. /\ pg \in [Users -> Int] /\ ag \in [Users -> Int]
      /\ pp \in [Users -> Int] /\ ap \in [Users -> Int]
  BY SMT DEF One
<1>2. held \in [Users -> Int] /\ held \in [Users -> 0..MaxHeld] /\ MaxHeld \in Nat
  BY HeldType, BoundType DEF TypeOK
<1>3. \A u \in Users : held[u] + pg[u] + ag[u] \in 0..MaxHeld
  BY SMT, <1>2 DEF Calls, One, Gets, AtomicPath
<1>4. \A u \in Users : held[u] - (pp[u] + ap[u]) \in Nat
  BY SMT, <1>2 DEF Calls, One, Gets, AtomicPath
<1> HIDE DEF pg, ag, pp, ap
<1>5. g \in [Users -> Int] /\ p \in [Users -> Int]
  BY SMT, <1>1
<1>6. h \in [Users -> Nat] /\ h \in [Users -> Int] /\ top \in [Users -> 0..MaxHeld]
  BY SMT, <1>1, <1>2, <1>3, <1>4
<1>7. IsFiniteSet(Users)
  BY PercpuRefConstants
<1>8. SumFunction(g) = SumFunction(pg) + SumFunction(ag)
  BY ZenonT(30), <1>1, <1>7, SumAdd
<1>9. SumFunction(p) = SumFunction(pp) + SumFunction(ap)
  BY ZenonT(30), <1>1, <1>7, SumAdd
<1> HIDE DEF g, p
<1>10. SumFunction(top) = SumFunction(held) + SumFunction(g)
  BY ZenonT(30), <1>2, <1>5, <1>7, SumAdd
<1>11. held = [u \in Users |-> h[u] + p[u]]
  BY SMT, <1>2, <1>5
<1> HIDE DEF h, top
<1>12. SumFunction(held) = SumFunction(h) + SumFunction(p)
  BY ZenonT(30), <1>5, <1>6, <1>7, <1>11, SumAdd
<1>13. SumFunction(top) <= AllHeld
  <2> DEFINE e == [u \in Users |-> MaxHeld]
  <2>1. e \in [Users -> Int] /\ top \in [Users -> Int] /\ \A u \in Users : top[u] <= e[u]
    BY SMT, <1>2, <1>6
  <2> HIDE DEF e
  <2>2. SumFunction(top) <= SumFunction(e)
    BY <1>7, <2>1, SumBound
  <2> QED BY <2>2 DEF e, AllHeld
<1>14. SumFunction(h) \in Nat
  BY <1>6, <1>7, SumNat
<1>15. /\ SumFunction(pg) \in Int /\ SumFunction(ag) \in Int
       /\ SumFunction(pp) \in Int /\ SumFunction(ap) \in Int
       /\ SumFunction(held) \in Int
  BY <1>1, <1>2, <1>7, SumType
<1>16. /\ Pending({"percpu"}, Gets) = SumFunction(pg) /\ Pending(AtomicPath, Gets) = SumFunction(ag)
       /\ Pending({"percpu"}, {"put"}) = SumFunction(pp)
       /\ Pending(AtomicPath, {"put"}) = SumFunction(ap)
  BY DEF Pending, pg, ag, pp, ap
<1> QED BY SMT, <1>8, <1>9, <1>10, <1>12, <1>13, <1>14, <1>15, <1>16, BoundType

\* What is counted, and its bounds.
LEMMA Numbers ==
  ASSUME TypeOK, Calls
  PROVE  /\ PG \in Nat /\ PP \in Nat /\ AG \in Nat /\ AP \in Nat
         /\ References \in Nat /\ count \in Nat /\ count < 2 * BIAS /\ Summed \in Int
         /\ References + PG + AG <= Bound
         /\ ~initial \/ ~posted => References + PG + AG + 1 <= Bound
         /\ References >= PP + AP
         /\ initial \/ posted \/ cb # "idle" => References >= 1
         /\ \A u \in Users : held[u] > 0 => References >= 1
<1> DEFINE h == SumFunction(held)
           pg == Pending({"percpu"}, Gets)
           ag == Pending(AtomicPath, Gets)
           pp == Pending({"percpu"}, {"put"})
           ap == Pending(AtomicPath, {"put"})
           m == AllHeld
<1>1. pg \in Nat /\ ag \in Nat /\ pp \in Nat /\ ap \in Nat
  BY PendingType
<1>2. h + pg + ag <= m /\ h >= pp + ap /\ m \in Nat /\ Bound = m + 3
  BY RefsBound, BoundType DEF Bound
<1>3. h \in Nat
  BY HeldType DEF TypeOK
<1>4. \A u \in Users : held[u] <= h
  <2>1. held \in [Users -> Nat] /\ IsFiniteSet(Users)
    BY SMT, PercpuRefConstants DEF TypeOK
  <2> QED BY <2>1, SumNat
<1>5. /\ count \in 0..(2 * BIAS - 1) /\ BIAS \in Nat
      /\ held \in [Users -> 0..MaxHeld] /\ MaxHeld \in Nat
  BY BoundType DEF TypeOK
<1>6. PG = pg /\ AG = ag /\ PP = pp + One(cb = "percpu") /\ AP = ap + One(cb = "atomic")
  BY DEF PG, AG, PP, AP
<1>7. References = h + One(initial) + One(posted) + One(cb # "idle")
  BY DEF References
<1>8. initial \in BOOLEAN /\ posted \in BOOLEAN
  BY DEF TypeOK
<1> HIDE DEF h, pg, ag, pp, ap, m
<1>9. PG \in Nat /\ PP \in Nat /\ AG \in Nat /\ AP \in Nat /\ References \in Nat
  BY SMT, <1>1, <1>3, <1>6, <1>7 DEF One
<1>10. /\ References + PG + AG <= Bound
       /\ ~initial \/ ~posted => References + PG + AG + 1 <= Bound
  BY SMT, <1>1, <1>2, <1>3, <1>6, <1>7, <1>8 DEF One
<1>11. References >= PP + AP
  BY SMT, <1>1, <1>2, <1>3, <1>6, <1>7 DEF One
<1>12. initial \/ posted \/ cb # "idle" => References >= 1
  BY SMT, <1>3, <1>7 DEF One
<1>13. ASSUME NEW u \in Users, held[u] > 0 PROVE References >= 1
  <2>1. h >= 1
    BY SMT, <1>3, <1>4, <1>5, <1>13
  <2> QED BY SMT, <1>3, <1>7, <2>1 DEF One
<1>14. Summed \in Int
  BY SMT, <1>5, <1>9 DEF Summed
<1>15. count \in Nat /\ count < 2 * BIAS
  BY SMT, <1>5
<1> QED BY <1>9, <1>10, <1>11, <1>12, <1>13, <1>14, <1>15

\* While the per-CPU counters count, count is near BIAS and there is a reference.
LEMMA Away ==
  ASSUME RInv, Percpu
  PROVE  /\ Summed + PG <= Bound /\ Summed - PP >= -Bound
         /\ count >= BIAS - Bound /\ count <= BIAS + Bound + References
         /\ References >= 1
<1>1. /\ PG \in Nat /\ PP \in Nat /\ AG \in Nat /\ AP \in Nat
      /\ References \in Nat /\ count \in Nat /\ Summed \in Int
      /\ References + PG + AG <= Bound
      /\ References >= PP + AP
  BY Numbers DEF RInv
<1>2. References >= 1
  BY Numbers DEF RInv, Modes, Percpu
<1>3. Bound \in Nat /\ BIAS \in Nat
  BY BoundType
<1>4. Summed = References - (count - BIAS)
  BY DEF Summed
<1>5. CASE flags = {}
  <2>1. count - BIAS >= AP /\ count - BIAS + AG <= Bound
    BY <1>5 DEF RInv, CountsExact
  <2> QED BY SMT, <1>1, <1>2, <1>3, <1>4, <2>1
<1>6. CASE flags # {}
  <2>1. Summed + PG <= Bound /\ Summed - PP >= -Bound
    BY <1>6 DEF RInv, CountsExact
  <2> QED BY SMT, <1>1, <1>2, <1>3, <1>4, <2>1
<1> QED BY <1>5, <1>6

\* Neither end of a word is met by adding to or subtracting from count.
LEMMA CountStep ==
  ASSUME RInv, NEW d \in {-1, 1}, References + d \in 0..Bound
  PROVE  /\ Word(count + d) = count + d
         /\ Percpu => count + d # 0 /\ count # 0
         /\ ~Percpu => count = References
<1>1. /\ References \in Nat /\ count \in Nat /\ Bound \in Nat /\ BIAS \in Nat
      /\ Bound >= 3 /\ 2 * Bound < BIAS
  BY Numbers, BoundType DEF RInv
<1>2. CASE Percpu
  <2>1. count >= BIAS - Bound /\ count <= BIAS + Bound + References
    BY <1>2, Away
  <2>2. count + d \in 0..(2 * BIAS - 1) /\ count + d # 0 /\ count # 0
    BY SMT, <1>1, <2>1
  <2> QED BY <1>2, <2>2, WordType
<1>3. CASE ~Percpu
  <2>1. count = References
    BY <1>3 DEF RInv, CountsExact
  <2>2. count + d \in 0..(2 * BIAS - 1)
    BY SMT, <1>1, <2>1
  <2> QED BY <1>3, <2>1, <2>2, WordType
<1> QED BY <1>2, <1>3
-----------------------------------------------------------------------------
\* A step that changes count and the references alike.
LEMMA AtomicCounts ==
  ASSUME RInv, NEW d \in {-1, 1}, count' = Word(count + d), References' = References + d,
         References' \in 0..Bound, UNCHANGED <<percpu_count, flags, posted>>,
         PG' \in Nat, PP' \in Nat, AG' \in Nat, AP' \in Nat,
         PG' = PG, PP' = PP,
         flags = {} /\ d = 1 => AG' = AG - 1 /\ AP' = AP,
         flags = {} /\ d = -1 => AG' = AG /\ AP' = AP - 1
  PROVE  CountsExact' /\ count' \in 0..(2 * BIAS - 1) /\ (~Percpu => count' = References')
<1>1. /\ PG \in Nat /\ PP \in Nat /\ AG \in Nat /\ AP \in Nat
      /\ References \in Nat /\ count \in Nat /\ Summed \in Int
      /\ Bound \in Nat /\ BIAS \in Nat /\ d \in Int
  BY SMT, Numbers, BoundType DEF RInv
<1>2. count' = count + d
  BY CountStep
<1>3. Summed' = Summed
  BY SMT, <1>1, <1>2 DEF Summed
<1>4. Percpu' = Percpu
  BY DEF Percpu
<1>5. count' \in 0..(2 * BIAS - 1)
  BY SMT, <1>1, WordType
<1>6. CASE Percpu
  <2>1. Word(SumFunction(percpu_count)) = Word(Summed)
    BY <1>6 DEF RInv, CountsExact
  <2>2. flags = {} => count' - BIAS >= AP' /\ count' - BIAS + AG' <= Bound
    <3>1. SUFFICES ASSUME flags = {} PROVE count' - BIAS >= AP' /\ count' - BIAS + AG' <= Bound
      OBVIOUS
    <3>2. count - BIAS >= AP /\ count - BIAS + AG <= Bound
      BY <1>6, <3>1 DEF RInv, CountsExact
    <3> DEFINE ag == AG'
               ap == AP'
               n == count'
    <3>3. /\ ag \in Nat /\ ap \in Nat /\ n = count + d
          /\ (d = 1 => ag = AG - 1 /\ ap = AP) /\ (d = -1 => ag = AG /\ ap = AP - 1)
      BY <1>2, <3>1
    <3> HIDE DEF ag, ap, n
    <3>4. n - BIAS >= ap /\ n - BIAS + ag <= Bound
      BY SMT, <1>1, <3>2, <3>3
    <3> QED BY <3>4 DEF ag, ap, n
  <2>3. Summed' + PG' <= Bound /\ Summed' - PP' >= -Bound
    <3>1. Summed + PG <= Bound /\ Summed - PP >= -Bound
      BY <1>6, Away
    <3> QED BY <1>3, <3>1
  <2> QED BY <1>3, <1>4, <1>5, <1>6, <2>1, <2>2, <2>3 DEF CountsExact
<1>7. CASE ~Percpu
  BY <1>2, <1>4, <1>5, <1>7 DEF RInv, CountsExact
<1> QED BY <1>6, <1>7

\* A step that changes a per-CPU counter and the references alike.
LEMMA PercpuCounts ==
  ASSUME RInv, Percpu, NEW c \in CPUs, NEW d \in {-1, 1},
         percpu_count' \in [CPUs -> 0..(2 * BIAS - 1)],
         percpu_count'[c] = Word(percpu_count[c] + d),
         \A k \in CPUs \ {c} : percpu_count'[k] = percpu_count[k],
         References' = References + d,
         UNCHANGED <<count, flags, posted>>,
         PG' \in Nat, PP' \in Nat, AG' = AG, AP' = AP,
         d = 1 => PG' = PG - 1 /\ PP' = PP,
         d = -1 => PG' = PG /\ PP' = PP - 1
  PROVE  CountsExact'
<1>1. /\ PG \in Nat /\ PP \in Nat /\ References \in Nat /\ count \in Nat /\ Summed \in Int
      /\ Bound \in Nat /\ BIAS \in Nat /\ d \in Int
  BY SMT, Numbers, BoundType DEF RInv
<1>2. Summed' = Summed + d
  BY SMT, <1>1 DEF Summed
<1>3. Percpu'
  BY DEF Percpu
<1>4. Word(SumFunction(percpu_count)) = Word(Summed)
  BY DEF RInv, CountsExact
<1>5. percpu_count \in [CPUs -> 0..(2 * BIAS - 1)]
  BY DEF RInv, TypeOK
<1>6. /\ SumFunction(percpu_count) \in Int
      /\ Word(SumFunction(percpu_count')) = Word(SumFunction(percpu_count) + d)
  <2> DEFINE e == percpu_count'
             f == percpu_count
  <2>1. /\ f \in [CPUs -> 0..(2 * BIAS - 1)] /\ e \in [CPUs -> 0..(2 * BIAS - 1)]
        /\ e[c] = Word(f[c] + d) /\ \A k \in CPUs \ {c} : e[k] = f[k]
    BY <1>5
  <2> HIDE DEF e, f
  <2>2. SumFunction(f) \in Int /\ Word(SumFunction(e)) = Word(SumFunction(f) + d)
    BY ONLY SMT, <1>1, <2>1, c \in CPUs, PercpuSum
  <2> QED BY <2>2 DEF e, f
<1>7. Word(SumFunction(percpu_count')) = Word(Summed')
  BY <1>1, <1>2, <1>4, <1>6, WordEq
<1>8. Summed' + PG' <= Bound /\ Summed' - PP' >= -Bound
  <2>1. Summed + PG <= Bound /\ Summed - PP >= -Bound
    BY Away
  <2> DEFINE pg == PG'
             pp == PP'
             m == Summed'
  <2>2. /\ pg \in Nat /\ pp \in Nat /\ m = Summed + d
        /\ (d = 1 => pg = PG - 1 /\ pp = PP) /\ (d = -1 => pg = PG /\ pp = PP - 1)
    BY <1>2
  <2> HIDE DEF pg, pp, m
  <2>3. m + pg <= Bound /\ m - pp >= -Bound
    BY SMT, <1>1, <2>1, <2>2
  <2> QED BY <2>3 DEF pg, pp, m
<1>9. flags = {} => count' - BIAS >= AP' /\ count' - BIAS + AG' <= Bound
  BY DEF RInv, CountsExact
<1> QED BY <1>3, <1>6, <1>7, <1>8, <1>9 DEF CountsExact

\* this_cpu_add leaves words.
LEMMA PercpuWords ==
  ASSUME TypeOK, NEW c \in CPUs, NEW d \in {-1, 1},
         percpu_count' = [percpu_count EXCEPT ![c] = Word(@ + d)]
  PROVE  /\ percpu_count' \in [CPUs -> 0..(2 * BIAS - 1)]
         /\ percpu_count'[c] = Word(percpu_count[c] + d)
         /\ \A k \in CPUs \ {c} : percpu_count'[k] = percpu_count[k]
<1>1. percpu_count \in [CPUs -> 0..(2 * BIAS - 1)] /\ d \in Int /\ percpu_count[c] \in Int
  BY SMT, WordType DEF TypeOK
<1>2. Word(percpu_count[c] + d) \in 0..(2 * BIAS - 1)
  BY SMT, <1>1, WordType
<1> QED BY <1>1, <1>2

\* A step that changes neither.
LEMMA SameCounts ==
  ASSUME RInv, UNCHANGED <<count, percpu_count>>, References' = References, Percpu' = Percpu,
         PG' \in Nat, PP' \in Nat, AG' \in Nat, AP' \in Nat,
         Percpu /\ flags' = {} => flags = {} /\ AG' <= AG /\ AP' <= AP,
         flags' # {} => PG' <= PG /\ PP' <= PP
  PROVE  CountsExact'
<1>1. /\ PG \in Nat /\ PP \in Nat /\ AG \in Nat /\ AP \in Nat
      /\ References \in Nat /\ count \in Nat /\ Summed \in Int
      /\ Bound \in Nat /\ BIAS \in Nat
  BY Numbers, BoundType DEF RInv
<1>2. Summed' = Summed
  BY DEF Summed
<1>3. CASE Percpu
  <2>1. Word(SumFunction(percpu_count)) = Word(Summed)
    BY <1>3 DEF RInv, CountsExact
  <2>2. flags' = {} => count' - BIAS >= AP' /\ count' - BIAS + AG' <= Bound
    <3>1. SUFFICES ASSUME flags' = {} PROVE count' - BIAS >= AP' /\ count' - BIAS + AG' <= Bound
      OBVIOUS
    <3>2. flags = {} /\ AG' <= AG /\ AP' <= AP
      BY <1>3, <3>1
    <3>3. count - BIAS >= AP /\ count - BIAS + AG <= Bound
      BY <1>3, <3>2 DEF RInv, CountsExact
    <3> DEFINE ag == AG'
               ap == AP'
               n == count'
    <3>4. ag \in Nat /\ ap \in Nat /\ ag <= AG /\ ap <= AP /\ n = count
      BY <3>2
    <3> HIDE DEF ag, ap, n
    <3>5. n - BIAS >= ap /\ n - BIAS + ag <= Bound
      BY SMT, <1>1, <3>3, <3>4
    <3> QED BY <3>5 DEF ag, ap, n
  <2>3. flags' # {} => Summed' + PG' <= Bound /\ Summed' - PP' >= -Bound
    <3>1. SUFFICES ASSUME flags' # {} PROVE Summed' + PG' <= Bound /\ Summed' - PP' >= -Bound
      OBVIOUS
    <3>2. PG' <= PG /\ PP' <= PP
      BY <3>1
    <3>3. Summed + PG <= Bound /\ Summed - PP >= -Bound
      BY <1>3, Away
    <3> DEFINE pg == PG'
               pp == PP'
               m == Summed'
    <3>4. pg \in Nat /\ pp \in Nat /\ pg <= PG /\ pp <= PP /\ m = Summed
      BY <1>2, <3>2
    <3> HIDE DEF pg, pp, m
    <3>5. m + pg <= Bound /\ m - pp >= -Bound
      BY SMT, <1>1, <3>3, <3>4
    <3> QED BY <3>5 DEF pg, pp, m
  <2> QED BY <1>2, <1>3, <2>1, <2>2, <2>3 DEF CountsExact
<1>4. CASE ~Percpu
  BY <1>4 DEF RInv, CountsExact
<1> QED BY <1>3, <1>4
-----------------------------------------------------------------------------
\* The references change by what one user takes or drops.
LEMMA RefsHeld ==
  ASSUME TypeOK, NEW u \in Users, NEW d \in Int, held' = [held EXCEPT ![u] = @ + d],
         UNCHANGED <<initial, posted, cb>>
  PROVE  References' = References + d
<1>1. held \in [Users -> Int] /\ SumFunction(held) \in Nat /\ IsFiniteSet(Users)
  BY HeldType, PercpuRefConstants DEF TypeOK
<1>2. SumFunction(held') = SumFunction(held) + d
  <2> DEFINE f == held
             e == held'
  <2>1. f \in [Users -> Int] /\ e \in [Users -> Int] /\ e[u] = f[u] + d /\ f[u] \in Int
    BY SMT, <1>1
  <2>2. \A v \in Users \ {u} : e[v] = f[v]
    BY <1>1
  <2>3. SumFunction(f) \in Nat
    BY <1>1
  <2> HIDE DEF f, e
  <2>4. SumFunction(e) = SumFunction(f) - f[u] + e[u]
    BY ONLY SMT, <1>1, <2>1, <2>2, u \in Users, SumChange
  <2>5. SumFunction(e) = SumFunction(f) + d
    BY SMT, <2>1, <2>3, <2>4
  <2> QED BY <2>5 DEF f, e
<1> QED BY SMT, <1>1, <1>2 DEF References, One

\* After a step, an owner or a switch is a reference.
LEMMA RefsNext ==
  ASSUME TypeOK'
  PROVE  References' \in Nat /\ (initial' \/ posted' \/ cb' # "idle" => References' >= 1)
<1>1. held' \in [Users -> Nat] /\ IsFiniteSet(Users)
  BY SMT, PercpuRefConstants DEF TypeOK
<1>2. SumFunction(held') \in Nat
  BY <1>1, SumNat
<1> QED BY SMT, <1>2 DEF References, One

\* A user's step changes what is pending by what it does.
LEMMA UserPending ==
  ASSUME NEW u \in Users, UNCHANGED cb,
         \A v \in Users \ {u} : path'[v] = path[v] /\ call'[v] = call[v]
  PROVE  /\ PG' \in Nat /\ PP' \in Nat /\ AG' \in Nat /\ AP' \in Nat
         /\ PG' = PG - One(path[u] = "percpu" /\ call[u] \in Gets)
                    + One(path'[u] = "percpu" /\ call'[u] \in Gets)
         /\ PP' = PP - One(path[u] = "percpu" /\ call[u] = "put")
                    + One(path'[u] = "percpu" /\ call'[u] = "put")
         /\ AG' = AG - One(path[u] \in AtomicPath /\ call[u] \in Gets)
                    + One(path'[u] \in AtomicPath /\ call'[u] \in Gets)
         /\ AP' = AP - One(path[u] \in AtomicPath /\ call[u] = "put")
                    + One(path'[u] \in AtomicPath /\ call'[u] = "put")
<1> DEFINE p == path'[u]
           c == call'[u]
<1>2. ASSUME NEW P, NEW C
      PROVE  Pending(P, C)' = Pending(P, C) - One(path[u] \in P /\ call[u] \in C)
                                + One(p \in P /\ c \in C)
  BY SMT, PendingChange
<1>3. PG' = PG - One(path[u] = "percpu" /\ call[u] \in Gets) + One(p = "percpu" /\ c \in Gets)
  BY <1>2 DEF PG, One
<1>4. AG' = AG - One(path[u] \in AtomicPath /\ call[u] \in Gets)
               + One(p \in AtomicPath /\ c \in Gets)
  BY <1>2 DEF AG
<1>5. PP' = PP - One(path[u] = "percpu" /\ call[u] = "put") + One(p = "percpu" /\ c = "put")
  <2> DEFINE a == Pending({"percpu"}, {"put"})
             b == Pending({"percpu"}, {"put"})'
  <2>1. b = a - One(path[u] = "percpu" /\ call[u] = "put") + One(p = "percpu" /\ c = "put")
    BY <1>2 DEF One
  <2>2. a \in Nat /\ PP = a + One(cb = "percpu") /\ PP' = b + One(cb = "percpu")
    BY PendingType DEF PP
  <2> HIDE DEF a, b
  <2> QED BY SMT, <2>1, <2>2 DEF One
<1>6. AP' = AP - One(path[u] \in AtomicPath /\ call[u] = "put") + One(p \in AtomicPath /\ c = "put")
  <2> DEFINE a == Pending(AtomicPath, {"put"})
             b == Pending(AtomicPath, {"put"})'
  <2>1. b = a - One(path[u] \in AtomicPath /\ call[u] = "put") + One(p \in AtomicPath /\ c = "put")
    BY <1>2 DEF One
  <2>2. a \in Nat /\ AP = a + One(cb = "atomic") /\ AP' = b + One(cb = "atomic")
    BY PendingType DEF AP
  <2> HIDE DEF a, b
  <2> QED BY SMT, <2>1, <2>2 DEF One
<1>7. PG' \in Nat /\ PP' \in Nat /\ AG' \in Nat /\ AP' \in Nat
  BY SMT, PendingType DEF PG, PP, AG, AP, One
<1> QED BY <1>3, <1>4, <1>5, <1>6, <1>7

\* A step without any, and in which the switch's callback does not come to its put.
LEMMA QuietPending ==
  ASSUME UNCHANGED <<call, path>>
  PROVE  /\ PG' \in Nat /\ PP' \in Nat /\ AG' \in Nat /\ AP' \in Nat
         /\ PG' = PG /\ AG' = AG
         /\ PP' - One(cb' = "percpu") = PP - One(cb = "percpu")
         /\ AP' - One(cb' = "atomic") = AP - One(cb = "atomic")
         /\ cb' = cb => PP' = PP /\ AP' = AP
<1>1. PG' \in Nat /\ PP' \in Nat /\ AG' \in Nat /\ AP' \in Nat
  BY SMT, PendingType DEF PG, PP, AG, AP, One
<1>2. PG' = PG /\ AG' = AG
  BY PendingSame DEF PG, AG
<1>3. /\ PP' - One(cb' = "percpu") = PP - One(cb = "percpu")
      /\ cb' = cb => PP' = PP
  <2> DEFINE a == Pending({"percpu"}, {"put"})
  <2>1. a \in Nat /\ PP = a + One(cb = "percpu") /\ PP' = a + One(cb' = "percpu")
    BY PendingType, PendingSame DEF PP
  <2> HIDE DEF a
  <2> QED BY SMT, <2>1 DEF One
<1>4. /\ AP' - One(cb' = "atomic") = AP - One(cb = "atomic")
      /\ cb' = cb => AP' = AP
  <2> DEFINE a == Pending(AtomicPath, {"put"})
  <2>1. a \in Nat /\ AP = a + One(cb = "atomic") /\ AP' = a + One(cb' = "atomic")
    BY PendingType, PendingSame DEF AP
  <2> HIDE DEF a
  <2> QED BY SMT, <2>1 DEF One
<1> QED BY <1>1, <1>2, <1>3, <1>4
-----------------------------------------------------------------------------
\* Users leave alone what the owner, the switcher and the callback go by.
LEMMA SameControl ==
  ASSUME Modes, Owner,
         UNCHANGED <<flags, allocated, confirm_switch, allow_reinit, posted, cb, lock, op, at,
                     initial>>
  PROVE  Modes' /\ Owner'
<1>1. Modes'
  BY DEF Modes
<1>2. Owner'
  BY DEF Owner
<1> QED BY <1>1, <1>2

\* The end of a user's call.
LEMMA UserEndInv ==
  ASSUME RInv, NEW u \in Users, NEW d \in {-1, 0, 1}, UserEnd(u, d),
         path[u] # "none", d = 1 => call[u] \in Gets, d = -1 => call[u] = "put"
  PROVE  /\ Calls' /\ Modes' /\ Owner' /\ Guarded' /\ Confirming'
         /\ References' = References + d /\ References' \in 0..Bound
         /\ count' \in 0..(2 * BIAS - 1) /\ percpu_count' \in [CPUs -> 0..(2 * BIAS - 1)]
              /\ released' \in BOOLEAN => TypeOK'
<1>1. /\ call \in [Users -> {"none", "get", "tryget", "tryget_live", "put"}]
      /\ path \in [Users -> {"none", "percpu", "atomic", "not_dead"}]
      /\ held \in [Users -> 0..MaxHeld] /\ MaxHeld \in Nat /\ d \in Int
  BY SMT, BoundType DEF RInv, TypeOK
<1>2. /\ call' = [call EXCEPT ![u] = "none"] /\ path' = [path EXCEPT ![u] = "none"]
      /\ held' = [held EXCEPT ![u] = @ + d] /\ guards' = guards \ {u}
      /\ UNCHANGED <<flags, allocated, confirm_switch, force_atomic, allow_reinit, posted, cb,
                     lock, op, at, waitq, initial, confirmed>>
  BY DEF UserEnd, admin
<1>3. held[u] + d \in 0..MaxHeld
  BY SMT, <1>1 DEF RInv, Calls
<1>4. ASSUME NEW v \in Users
      PROVE  /\ v = u => call'[v] = "none" /\ path'[v] = "none"
             /\ v # u => call'[v] = call[v] /\ path'[v] = path[v] /\ held'[v] = held[v]
  BY <1>1, <1>2
<1>5. Calls'
  <2> SUFFICES ASSUME NEW v \in Users
               PROVE  /\ call'[v] = "none" <=> path'[v] = "none"
                      /\ path'[v] = "not_dead" => call'[v] = "tryget_live"
                      /\ call'[v] \in Gets => held'[v] < MaxHeld
                      /\ call'[v] \in {"get", "put"} => held'[v] > 0
    BY DEF Calls
  <2>1. CASE v = u
    BY <1>4, <2>1 DEF Gets
  <2>2. CASE v # u
    BY <1>4, <2>2 DEF RInv, Calls
  <2> QED BY <2>1, <2>2
<1>6. Modes' /\ Owner'
  BY <1>2, SameControl DEF RInv
<1>7. Guarded'
  <2>1. Percpu' = Percpu
    BY <1>2 DEF Percpu
  <2>2. "cb" # u
    BY PercpuRefConstants
  <2> QED BY <1>2, <1>4, <2>1, <2>2 DEF RInv, Guarded
<1>8. Confirming'
  BY SMT, <1>2, <1>4 DEF RInv, Confirming
<1>9. References' = References + d
  BY <1>1, <1>2, RefsHeld DEF RInv
<1>10. References' \in 0..Bound
  <2>1. CASE d = 1
    <3>1. PG >= 1 \/ AG >= 1
      <4> DEFINE pg == [v \in Users |-> One(path[v] \in {"percpu"} /\ call[v] \in Gets)]
                 ag == [v \in Users |-> One(path[v] \in AtomicPath /\ call[v] \in Gets)]
      <4>1. pg \in [Users -> Nat] /\ ag \in [Users -> Nat] /\ IsFiniteSet(Users)
        BY PercpuRefConstants DEF One
      <4>2. pg[u] = 1 \/ ag[u] = 1
        BY <1>1, <2>1 DEF One, AtomicPath
      <4>3. PG = SumFunction(pg) /\ AG = SumFunction(ag)
        BY DEF PG, AG, Pending
      <4> HIDE DEF pg, ag
      <4>4. pg[u] <= PG /\ ag[u] <= AG
        BY <4>1, <4>3, SumNat
      <4>5. PG \in Nat /\ AG \in Nat
        BY <4>1, <4>3, SumNat
      <4> QED BY <4>2, <4>4, <4>5
    <3> QED BY SMT, <1>9, <2>1, <3>1, Numbers, BoundType DEF RInv
  <2>2. CASE d = 0
    BY SMT, <1>9, <2>2, Numbers, BoundType DEF RInv
  <2>3. CASE d = -1
    <3>1. held[u] > 0
      BY <1>1, <2>3 DEF RInv, Calls
    <3> QED BY SMT, <1>9, <2>3, <3>1, Numbers, BoundType DEF RInv
  <2> QED BY <2>1, <2>2, <2>3
<1>11. ASSUME count' \in 0..(2 * BIAS - 1), percpu_count' \in [CPUs -> 0..(2 * BIAS - 1)],
              released' \in BOOLEAN
       PROVE  TypeOK'
  BY SMTT(20), <1>1, <1>2, <1>3, <1>11 DEF RInv, TypeOK
<1> QED BY <1>5, <1>6, <1>7, <1>8, <1>9, <1>10, <1>11

\* What it was about to do is not pending any more.
LEMMA UserEndPending ==
  ASSUME RInv, NEW u \in Users, NEW d, UserEnd(u, d)
  PROVE  /\ PG' \in Nat /\ PP' \in Nat /\ AG' \in Nat /\ AP' \in Nat
         /\ PG \in Nat /\ PP \in Nat /\ AG \in Nat /\ AP \in Nat
         /\ path[u] = "percpu" =>
              /\ AG' = AG /\ AP' = AP
              /\ call[u] \in Gets => PG' = PG - 1 /\ PP' = PP
              /\ call[u] = "put" => PG' = PG /\ PP' = PP - 1
         /\ path[u] \in AtomicPath =>
              /\ PG' = PG /\ PP' = PP
              /\ call[u] \in Gets => AG' = AG - 1 /\ AP' = AP
              /\ call[u] = "put" => AG' = AG /\ AP' = AP - 1
<1>1. /\ UNCHANGED cb /\ path'[u] = "none" /\ call'[u] = "none"
      /\ \A v \in Users \ {u} : path'[v] = path[v] /\ call'[v] = call[v]
  BY DEF RInv, TypeOK, UserEnd
<1>2. PG \in Nat /\ PP \in Nat /\ AG \in Nat /\ AP \in Nat
  BY Numbers DEF RInv
<1>3. /\ PG' \in Nat /\ PP' \in Nat /\ AG' \in Nat /\ AP' \in Nat
      /\ PG' = PG - One(path[u] = "percpu" /\ call[u] \in Gets)
      /\ PP' = PP - One(path[u] = "percpu" /\ call[u] = "put")
      /\ AG' = AG - One(path[u] \in AtomicPath /\ call[u] \in Gets)
      /\ AP' = AP - One(path[u] \in AtomicPath /\ call[u] = "put")
  <2>1. /\ One(path'[u] = "percpu" /\ call'[u] \in Gets) = 0
        /\ One(path'[u] = "percpu" /\ call'[u] = "put") = 0
        /\ One(path'[u] \in AtomicPath /\ call'[u] \in Gets) = 0
        /\ One(path'[u] \in AtomicPath /\ call'[u] = "put") = 0
    BY <1>1 DEF One, Gets, AtomicPath
  <2>2. \A x : One(x) \in Int
    BY SMT DEF One
  <2> QED BY SMT, <1>1, <1>2, <2>1, <2>2, UserPending
<1>4. path[u] = "percpu" => path[u] \notin AtomicPath
  BY DEF AtomicPath
<1>5. call[u] \in Gets => call[u] # "put"
  BY DEF Gets
<1> QED BY SMT, <1>2, <1>3, <1>4, <1>5 DEF One

\* A get or put on a per-CPU counter.
LEMMA UserPercpuInv ==
  ASSUME RInv, NEW u \in Users, NEW c \in CPUs, UserPercpu(u, c)
  PROVE  RInv'
<1> DEFINE d == IF call[u] = "put" THEN -1 ELSE 1
<1>1. /\ path[u] = "percpu" /\ UserEnd(u, d) /\ UNCHANGED <<count, released>>
      /\ percpu_count' = [percpu_count EXCEPT ![c] = Word(@ + d)]
  BY DEF UserPercpu
<1>2. d \in {-1, 1} /\ (d = 1 => call[u] \in Gets) /\ (d = -1 => call[u] = "put")
  BY SMT, <1>1 DEF RInv, TypeOK, Calls, Gets
<1>3. UNCHANGED <<flags, posted, cb, initial>>
  BY <1>1 DEF UserEnd
<1>4. Percpu
  BY <1>1 DEF RInv, Guarded
<1>5. call' = [call EXCEPT ![u] = "none"] /\ path' = [path EXCEPT ![u] = "none"]
  BY <1>1 DEF UserEnd
<1>6. /\ PG' \in Nat /\ PP' \in Nat /\ PG \in Nat /\ PP \in Nat /\ AG' = AG /\ AP' = AP
      /\ call[u] \in Gets => PG' = PG - 1 /\ PP' = PP
      /\ call[u] = "put" => PG' = PG /\ PP' = PP - 1
  BY <1>1, UserEndPending DEF AtomicPath
<1> HIDE DEF d
<1>7. /\ Calls' /\ Modes' /\ Owner' /\ Guarded' /\ Confirming'
      /\ References' = References + d /\ References' \in 0..Bound
      /\ count' \in 0..(2 * BIAS - 1) /\ percpu_count' \in [CPUs -> 0..(2 * BIAS - 1)]
           /\ released' \in BOOLEAN => TypeOK'
  BY <1>1, <1>2, UserEndInv
<1>8. /\ percpu_count' \in [CPUs -> 0..(2 * BIAS - 1)]
      /\ percpu_count'[c] = Word(percpu_count[c] + d)
      /\ \A k \in CPUs \ {c} : percpu_count'[k] = percpu_count[k]
  BY ZenonT(30), <1>1, <1>2, PercpuWords DEF RInv
<1>9. CountsExact'
  BY <1>1, <1>2, <1>3, <1>4, <1>6, <1>7, <1>8, PercpuCounts
<1>10. TypeOK'
  BY <1>1, <1>7, <1>8 DEF RInv, TypeOK
<1>11. ReleaseExact'
  <2>1. Percpu'
    BY <1>3, <1>4 DEF Percpu
  <2>2. References >= 1
    BY <1>4, Away
  <2>3. References' >= 1
    BY <1>7, <1>10, <2>1, RefsNext DEF Modes, Percpu
  <2> QED BY SMT, <1>1, <2>2, <2>3 DEF RInv, ReleaseExact
<1> QED BY <1>7, <1>9, <1>10, <1>11 DEF RInv

\* A get or put on count, whichever mode the reference is in by then.
LEMMA UserAtomicInv ==
  ASSUME RInv, NEW u \in Users, UserAtomic(u)
  PROVE  RInv'
<1> DEFINE d == CASE call[u] = "put" -> -1
                  [] call[u] = "get" -> 1
                  [] OTHER -> IF count = 0 THEN 0 ELSE 1
<1>1. /\ path[u] = (IF call[u] = "tryget_live" THEN "not_dead" ELSE "atomic")
      /\ count' = Word(count + d) /\ released' = (released \/ (call[u] = "put" /\ count' = 0))
      /\ UserEnd(u, d) /\ UNCHANGED percpu_count
  BY DEF UserAtomic
<1>2. call[u] = "put" \/ call[u] \in Gets
  BY <1>1 DEF RInv, TypeOK, Calls, Gets
<1>3. /\ d \in {-1, 0, 1} /\ (d = 1 => call[u] \in Gets) /\ (d = -1 <=> call[u] = "put")
      /\ d = 1 => call[u] = "get" \/ count # 0
      /\ d = 0 => count = 0
  BY SMT, <1>2 DEF Gets
<1> HIDE DEF d
<1>4. path[u] \in AtomicPath /\ path[u] # "none"
  BY <1>1 DEF AtomicPath
<1>5. UNCHANGED <<flags, posted, percpu_count>> /\ Percpu' = Percpu
  BY <1>1 DEF UserEnd, Percpu
<1>6. /\ Calls' /\ Modes' /\ Owner' /\ Guarded' /\ Confirming'
      /\ References' = References + d /\ References' \in 0..Bound
      /\ count' \in 0..(2 * BIAS - 1) /\ percpu_count' \in [CPUs -> 0..(2 * BIAS - 1)]
           /\ released' \in BOOLEAN => TypeOK'
  BY <1>1, <1>3, <1>4, UserEndInv
<1>7. /\ PG' \in Nat /\ PP' \in Nat /\ AG' \in Nat /\ AP' \in Nat /\ AG \in Nat /\ AP \in Nat
      /\ PG' = PG /\ PP' = PP
      /\ call[u] \in Gets => AG' = AG - 1 /\ AP' = AP
      /\ call[u] = "put" => AG' = AG /\ AP' = AP - 1
  BY <1>1, <1>4, UserEndPending
<1>8. count \in 0..(2 * BIAS - 1) /\ percpu_count' \in [CPUs -> 0..(2 * BIAS - 1)]
      /\ released \in BOOLEAN /\ References \in Nat /\ (released <=> References = 0)
  BY <1>5, Numbers DEF RInv, TypeOK, ReleaseExact
<1>9. released' \in BOOLEAN
  BY <1>1, <1>8
<1>10. CASE d \in {-1, 1}
  <2>1. CountsExact' /\ count' \in 0..(2 * BIAS - 1) /\ (~Percpu => count' = References')
    BY <1>1, <1>3, <1>5, <1>6, <1>7, <1>10, AtomicCounts
  <2>2. TypeOK'
    BY <1>6, <1>8, <1>9, <2>1
  <2>3. References + d \in 0..Bound
    BY <1>6
  <2>4. (Percpu => count' # 0 /\ count # 0) /\ (~Percpu => count = References)
    BY <1>1, <1>10, <2>3, CountStep
  <2>5. Percpu => References' >= 1
    BY <1>5, <1>6, <2>2, RefsNext DEF Percpu, Modes
  <2>6. call[u] = "get" => References >= 1
    BY Numbers DEF RInv, Calls
  <2>7. released' <=> References' = 0
    <3>1. CASE d = 1
      <4>1. References >= 1 /\ call[u] # "put"
        BY SMT, <1>3, <1>8, <2>4, <2>6, <3>1, Away DEF Gets
      <4> QED BY SMT, <1>1, <1>6, <1>8, <3>1, <4>1
    <3>2. CASE d = -1
      <4>1. References # 0 /\ call[u] = "put"
        BY SMT, <1>3, <1>6, <1>8, <3>2
      <4>2. released' <=> count' = 0
        BY ZenonT(30), <1>1, <1>8, <4>1
      <4>3. References' = 0 <=> count' = 0
        BY SMT, <1>6, <2>1, <2>4, <2>5
      <4> QED BY <4>2, <4>3
    <3> QED BY <1>10, <3>1, <3>2
  <2> QED BY <1>6, <2>1, <2>2, <2>7 DEF RInv, ReleaseExact
<1>11. CASE d = 0
  <2>1. count = 0 /\ count' = 0 /\ call[u] # "put" /\ call[u] \in Gets
    BY SMT, <1>1, <1>2, <1>3, <1>8, <1>11, WordType
  <2>2. ~Percpu /\ References = 0 /\ References' = 0
    <3>1. Percpu => count # 0
      BY SMT, Away, BoundType DEF RInv, TypeOK
    <3> QED BY SMTT(15), <1>6, <1>8, <1>11, <2>1, <3>1 DEF RInv, CountsExact
  <2>3. CountsExact' /\ ReleaseExact'
    BY <1>1, <1>5, <1>8, <2>1, <2>2 DEF CountsExact, ReleaseExact
  <2> QED BY <1>6, <1>8, <1>9, <2>1, <2>3 DEF RInv
<1> QED BY <1>3, <1>10, <1>11

\* percpu_ref_tryget_live looks at DEAD again.
LEMMA UserTestDeadInv ==
  ASSUME RInv, NEW u \in Users, UserTestDead(u)
  PROVE  RInv'
<1>1. call[u] = "tryget_live" /\ path[u] = "atomic" /\ UNCHANGED <<count, percpu_count, released>>
  BY DEF UserTestDead
<1>2. /\ path[u] \in AtomicPath /\ path[u] # "none" /\ call[u] \in Gets
      /\ count \in 0..(2 * BIAS - 1) /\ percpu_count \in [CPUs -> 0..(2 * BIAS - 1)]
      /\ released \in BOOLEAN /\ References \in Nat /\ PP \in Nat /\ PG \in Nat
  BY <1>1, Numbers DEF AtomicPath, Gets, RInv, TypeOK
<1>3. CASE UserEnd(u, 0)
  <2>1. UNCHANGED <<flags, posted>> /\ Percpu' = Percpu
    BY <1>3 DEF UserEnd, Percpu
  <2>2. /\ Calls' /\ Modes' /\ Owner' /\ Guarded' /\ Confirming' /\ TypeOK'
        /\ References' = References
    BY SMT, <1>1, <1>2, <1>3, UserEndInv
  <2>3. /\ PG' \in Nat /\ PP' \in Nat /\ AG' \in Nat /\ AP' \in Nat /\ AG \in Nat /\ AP \in Nat
        /\ PG' = PG /\ PP' = PP /\ AG' = AG - 1 /\ AP' = AP
    BY <1>2, <1>3, UserEndPending
  <2>4. AG' <= AG /\ AP' <= AP /\ PG' <= PG /\ PP' <= PP
    BY SMT, <1>2, <2>3
  <2>5. CountsExact'
    BY <1>1, <2>1, <2>2, <2>3, <2>4, SameCounts
  <2> QED BY <1>1, <2>2, <2>5 DEF RInv, ReleaseExact
<1>4. CASE "DEAD" \notin flags /\ path' = [path EXCEPT ![u] = "not_dead"]
           /\ UNCHANGED <<call, guards, held, flags, allocated, confirm_switch, force_atomic,
                          allow_reinit, posted, cb, lock, op, at, waitq, initial, confirmed>>
  <2>1. path'[u] = "not_dead" /\ \A v \in Users \ {u} : path'[v] = path[v] /\ call'[v] = call[v]
    BY <1>4 DEF RInv, TypeOK
  <2>2. TypeOK'
    BY SMT, <1>1, <1>4 DEF RInv, TypeOK
  <2>3. Calls'
    BY ZenonT(30), <1>1, <1>4, <2>1 DEF RInv, Calls
  <2>4. Modes' /\ Owner'
    BY <1>4, SameControl DEF RInv
  <2>5. Percpu' = Percpu /\ References' = References
    BY <1>4 DEF Percpu, References
  <2>6. Guarded'
    BY <1>4, <2>1, <2>5 DEF RInv, Guarded
  <2>7. Confirming'
    BY <1>4 DEF RInv, Confirming
  <2>8. /\ PG' \in Nat /\ PP' \in Nat /\ AG' \in Nat /\ AP' \in Nat
        /\ PG' = PG /\ PP' = PP /\ AG' = AG /\ AP' = AP
    <3>1. /\ One(path[u] = "percpu" /\ call[u] \in Gets) = 0
          /\ One(path'[u] = "percpu" /\ call'[u] \in Gets) = 0
          /\ One(path[u] = "percpu" /\ call[u] = "put") = 0
          /\ One(path'[u] = "percpu" /\ call'[u] = "put") = 0
          /\ One(path[u] \in AtomicPath /\ call[u] \in Gets) = 1
          /\ One(path'[u] \in AtomicPath /\ call'[u] \in Gets) = 1
          /\ One(path[u] \in AtomicPath /\ call[u] = "put") = 0
          /\ One(path'[u] \in AtomicPath /\ call'[u] = "put") = 0
      BY <1>1, <1>4, <2>1 DEF One, Gets, AtomicPath
    <3> QED BY SMT, <1>4, <2>1, <3>1, UserPending, Numbers DEF RInv
  <2>9. CountsExact'
    <3>1. AG \in Nat /\ AP \in Nat /\ AG' <= AG /\ AP' <= AP /\ PG' <= PG /\ PP' <= PP
      BY SMT, <2>8, Numbers DEF RInv
    <3> QED BY <1>1, <1>4, <2>5, <2>8, <3>1, SameCounts
  <2> QED BY <1>1, <2>2, <2>3, <2>4, <2>5, <2>6, <2>7, <2>9 DEF RInv, ReleaseExact
<1> QED BY <1>1, <1>3, <1>4 DEF UserTestDead, admin

\* A user enters a read-side section and reads the flags.
LEMMA UserBeginInv ==
  ASSUME RInv, NEW u \in Users, NEW o \in Ops \cup {"put"}, UserBegin(u, o)
  PROVE  RInv'
<1> DEFINE p == IF flags = {} THEN "percpu" ELSE "atomic"
<1>1. /\ call[u] = "none" /\ path[u] = "none"
      /\ o \in {"get", "put"} => held[u] > 0
      /\ o # "put" => held[u] < MaxHeld
      /\ call' = [call EXCEPT ![u] = o] /\ path' = [path EXCEPT ![u] = p]
      /\ UNCHANGED <<count, percpu_count, flags, allocated, confirm_switch, force_atomic,
                     allow_reinit, posted, cb, guards, lock, op, at, waitq, held, initial, released,
                     confirmed>>
  BY DEF RInv, Calls, UserBegin, RefIsPercpu, ref, switch, admin, refs
<1>2. o \in {"get", "tryget", "tryget_live", "put"}
  BY PercpuRefConstants
<1>3. /\ call'[u] = o /\ path'[u] = p
      /\ \A v \in Users \ {u} : path'[v] = path[v] /\ call'[v] = call[v]
  BY ZenonT(30), <1>1 DEF RInv, TypeOK
<1>4. TypeOK'
  BY SMT, <1>1, <1>2 DEF RInv, TypeOK
<1>5. Calls'
  BY SMT, <1>1, <1>2, <1>3 DEF RInv, Calls, Gets
<1>6. Modes' /\ Owner'
  BY <1>1, SameControl DEF RInv
<1>7. Percpu' = Percpu /\ References' = References
  BY <1>1 DEF Percpu, References
<1>8. Guarded'
  <2>1. p = "percpu" => Percpu /\ ~posted
    BY DEF RInv, Modes, Percpu
  <2> QED BY <1>1, <1>3, <1>7, <2>1 DEF RInv, Guarded
<1>9. Confirming'
  BY ZenonT(30), <1>1, <1>3 DEF RInv, Confirming
<1>10. PG \in Nat /\ PP \in Nat /\ AG \in Nat /\ AP \in Nat
  BY Numbers DEF RInv
<1>11. /\ PG' \in Nat /\ PP' \in Nat /\ AG' \in Nat /\ AP' \in Nat
       /\ flags = {} => AG' = AG /\ AP' = AP
       /\ flags # {} => PG' = PG /\ PP' = PP
  <2>1. /\ One(path[u] = "percpu" /\ call[u] \in Gets) = 0
        /\ One(path[u] = "percpu" /\ call[u] = "put") = 0
        /\ One(path[u] \in AtomicPath /\ call[u] \in Gets) = 0
        /\ One(path[u] \in AtomicPath /\ call[u] = "put") = 0
    BY <1>1 DEF One, AtomicPath
  <2>2. /\ flags # {} => One(path'[u] = "percpu" /\ call'[u] \in Gets) = 0
        /\ flags # {} => One(path'[u] = "percpu" /\ call'[u] = "put") = 0
        /\ flags = {} => One(path'[u] \in AtomicPath /\ call'[u] \in Gets) = 0
        /\ flags = {} => One(path'[u] \in AtomicPath /\ call'[u] = "put") = 0
    BY <1>3 DEF One, AtomicPath
  <2>3. UNCHANGED cb
    BY <1>1
  <2> HIDE DEF p
  <2> QED BY SMT, <1>3, <1>10, <2>1, <2>2, <2>3, UserPending
<1>12. CountsExact'
  <2>1. /\ flags' = {} => flags = {} /\ AG' <= AG /\ AP' <= AP
        /\ flags' # {} => PG' <= PG /\ PP' <= PP
    BY SMT, <1>1, <1>10, <1>11
  <2> QED BY <1>1, <1>7, <1>11, <2>1, SameCounts
<1> QED BY <1>1, <1>4, <1>5, <1>6, <1>7, <1>8, <1>9, <1>12 DEF RInv, ReleaseExact
-----------------------------------------------------------------------------
\* What the owner and the switcher do on the way to a switch changes no count.
LEMMA AdminInv ==
  ASSUME RInv, UNCHANGED <<count, percpu_count, posted, cb, guards, user, refs>>,
         TypeOK', Modes', Owner', Confirming', Percpu' = Percpu, flags' = {} => flags = {}
  PROVE  RInv'
<1>1. Calls'
  BY DEF RInv, Calls, user, refs
<1>2. Guarded'
  BY DEF RInv, Guarded, user
<1>3. References' = References
  BY DEF References, refs
<1>4. /\ PG' \in Nat /\ PP' \in Nat /\ AG' \in Nat /\ AP' \in Nat
      /\ PG' <= PG /\ PP' <= PP /\ AG' <= AG /\ AP' <= AP
  BY SMT, QuietPending, Numbers DEF RInv, user
<1>5. CountsExact'
  BY <1>3, <1>4, SameCounts
<1> QED BY <1>1, <1>2, <1>3, <1>5 DEF RInv, ReleaseExact, refs

\* percpu_ref_kill_and_confirm() marks the reference DEAD and begins a switch.
LEMMA PercpuRefKillInv ==
  ASSUME RInv, NEW o \in {"kill", "kill_and_confirm"}, PercpuRefKill(o)
  PROVE  RInv'
<1>1. /\ initial /\ at["owner"] = "out" /\ lock = "none" /\ waitq' = waitq
      /\ lock' = "owner" /\ op' = [op EXCEPT !["owner"] = o]
      /\ flags' = flags \cup {"DEAD"} /\ at' = [at EXCEPT !["owner"] = "mode"]
      /\ confirmed' = "no"
      /\ UNCHANGED <<count, percpu_count, allocated, switch, user, refs>>
      /\ UNCHANGED <<confirm_switch, force_atomic, allow_reinit, posted, cb, guards, call, path,
                     held, initial, released>>
  BY DEF PercpuRefKill, Start, switch, user, refs
<1>2. TypeOK'
  BY ZenonT(40), <1>1 DEF RInv, TypeOK, Admins
<1>3. at'["owner"] = "mode" /\ op'["owner"] = o /\ at'["switcher"] = at["switcher"]
      /\ op'["switcher"] = op["switcher"]
  BY <1>1 DEF RInv, TypeOK, Admins
<1>4. Modes'
  BY <1>1, <1>3 DEF RInv, Modes
<1>5. Owner'
  BY <1>1, <1>3 DEF RInv, Owner
<1>6. confirm_switch # "confirm"
  BY <1>1 DEF RInv, Confirming, Owner, Modes
<1>7. Confirming'
  BY <1>1, <1>6 DEF Confirming
<1>8. Percpu' = Percpu /\ flags' # {}
  BY <1>1 DEF Percpu
<1> QED BY <1>1, <1>2, <1>4, <1>5, <1>7, <1>8, AdminInv

\* percpu_ref_resurrect() clears DEAD and goes on to take the owner's reference.
LEMMA PercpuRefResurrectInv ==
  ASSUME RInv, PercpuRefResurrect
  PROVE  RInv'
<1>1. /\ "DEAD" \in flags /\ ~initial /\ allow_reinit /\ at["owner"] = "out" /\ allocated
      /\ lock = "none" /\ waitq' = waitq
      /\ lock' = "owner" /\ op' = [op EXCEPT !["owner"] = "resurrect"]
      /\ flags' = flags \ {"DEAD"} /\ at' = [at EXCEPT !["owner"] = "get"]
      /\ UNCHANGED <<count, percpu_count, allocated, switch, user, refs, confirmed>>
      /\ UNCHANGED <<confirm_switch, force_atomic, allow_reinit, posted, cb, guards, call, path,
                     held, initial, released>>
  BY DEF PercpuRefResurrect, Start, switch, user, refs
<1>2. TypeOK'
  BY ZenonT(30), <1>1 DEF RInv, TypeOK, Admins
<1>3. at'["owner"] = "get" /\ op'["owner"] = "resurrect" /\ at'["switcher"] = at["switcher"]
      /\ op'["switcher"] = op["switcher"] /\ "ATOMIC" \in flags
  BY <1>1 DEF RInv, TypeOK, Admins, Modes
<1>4. Modes'
  BY <1>1, <1>3 DEF RInv, Modes
<1>5. Owner'
  BY <1>1, <1>3 DEF RInv, Owner
<1>6. Confirming'
  BY <1>1, <1>3 DEF RInv, Confirming
<1>7. Percpu' = Percpu /\ flags' # {}
  BY SMT, <1>1, <1>3 DEF Percpu
<1> QED BY <1>1, <1>2, <1>4, <1>5, <1>6, <1>7, AdminInv

\* percpu_ref_switch_to_atomic() and percpu_ref_switch_to_percpu() set force_atomic
\* and begin a switch.
LEMMA PercpuRefSwitchInv ==
  ASSUME RInv, NEW o \in {"switch_to_atomic", "switch_to_atomic_sync", "switch_to_percpu"},
         PercpuRefSwitch(o)
  PROVE  RInv'
<1>1. /\ at["switcher"] = "out" /\ lock = "none" /\ waitq' = waitq
      /\ lock' = "switcher" /\ op' = [op EXCEPT !["switcher"] = o]
      /\ force_atomic' = (o # "switch_to_percpu") /\ at' = [at EXCEPT !["switcher"] = "mode"]
      /\ UNCHANGED <<ref, confirm_switch, allow_reinit, posted, cb, guards, user, refs, confirmed>>
      /\ UNCHANGED <<count, percpu_count, flags, allocated, call, path, held, initial, released>>
  BY DEF PercpuRefSwitch, Start, ref, user, refs
<1>2. TypeOK'
  BY SMT, <1>1 DEF RInv, TypeOK, Admins
<1>3. at'["switcher"] = "mode" /\ op'["switcher"] = o /\ at'["owner"] = at["owner"]
      /\ op'["owner"] = op["owner"]
  BY <1>1 DEF RInv, TypeOK, Admins
<1>4. Modes'
  BY <1>1, <1>3 DEF RInv, Modes
<1>5. Owner'
  BY <1>1, <1>3 DEF RInv, Owner
<1>6. Confirming'
  BY <1>1, <1>3 DEF RInv, Confirming
<1>7. Percpu' = Percpu
  BY <1>1 DEF Percpu
<1> QED BY <1>1, <1>2, <1>4, <1>5, <1>6, <1>7, AdminInv

\* Waiting for a switch in progress.
LEMMA SwitchWaitInv ==
  ASSUME RInv, NEW a \in Admins,
         SwitchWait(a) \/ SwitchWoken(a) \/ SyncWait(a) \/ SyncWoken(a) \/ SyncDone(a)
  PROVE  RInv'
<1>1. /\ \/ /\ at[a] = "mode" /\ lock = a /\ at' = [at EXCEPT ![a] = "wait"] /\ op' = op
            /\ lock' = "none"
         \/ /\ at[a] = "wait" /\ lock = "none" /\ at' = [at EXCEPT ![a] = "mode"] /\ op' = op
            /\ lock' = a
         \/ /\ at[a] = "sync" /\ at' = [at EXCEPT ![a] = "sync_wait"] /\ op' = op
            /\ lock' = lock
         \/ /\ at[a] = "sync_wait" /\ at' = [at EXCEPT ![a] = "sync"] /\ op' = op
            /\ lock' = lock
         \/ /\ at[a] = "sync" /\ at' = [at EXCEPT ![a] = "out"] /\ op' = [op EXCEPT ![a] = "none"]
            /\ lock' = lock
      /\ waitq' = waitq \/ waitq' = waitq \cup {a}
      /\ UNCHANGED <<ref, switch, user, refs, confirmed>>
      /\ UNCHANGED <<count, percpu_count, flags, allocated, confirm_switch, force_atomic,
                     allow_reinit, posted, cb, guards, call, path, held, initial, released>>
  BY DEF SwitchWait, SwitchWoken, SyncWait, SyncWoken, SyncDone, ref, switch, user, refs
<1>2. TypeOK'
  <2>1. waitq' \subseteq Admins
    BY ZenonT(30), <1>1 DEF RInv, TypeOK
  <2> QED BY SMT, <1>1, <2>1 DEF RInv, TypeOK, Admins
<1>3. /\ a = "owner" =>
           /\ \/ at["owner"] = "mode" /\ at'["owner"] = "wait" /\ lock = "owner" /\ lock' = "none"
              \/ at["owner"] = "wait" /\ at'["owner"] = "mode" /\ lock = "none" /\ lock' = "owner"
           /\ at'["switcher"] = at["switcher"] /\ op' = op
      /\ a = "switcher" =>
           /\ \/ /\ at["switcher"] = "mode" /\ at'["switcher"] = "wait"
                 /\ lock = "switcher" /\ lock' = "none"
              \/ /\ at["switcher"] = "wait" /\ at'["switcher"] = "mode"
                 /\ lock = "none" /\ lock' = "switcher"
              \/ at'["switcher"] \in {"sync", "sync_wait", "out"} /\ lock' = lock
           /\ at'["owner"] = at["owner"] /\ op'["owner"] = op["owner"]
           /\ op'["switcher"] \in {op["switcher"], "none"}
      /\ a \in {"owner", "switcher"}
  BY SMT, <1>1 DEF RInv, TypeOK, Admins, Owner
<1>4. Modes'
  BY <1>1, <1>3 DEF RInv, Modes
<1>5. Owner'
  <2>1. CASE a = "owner"
    BY <1>1, <1>3, <2>1 DEF RInv, Owner
  <2>2. CASE a = "switcher"
    BY ZenonT(30), <1>1, <1>3, <2>2 DEF RInv, Owner
  <2> QED BY <1>3, <2>1, <2>2
<1>6. Confirming'
  BY ZenonT(30), <1>1, <1>3 DEF RInv, Confirming
<1>7. Percpu' = Percpu
  BY <1>1 DEF Percpu
<1> QED BY <1>1, <1>2, <1>4, <1>5, <1>6, <1>7, AdminInv DEF switch

\* The owner of a released reference gives up its counters.
LEMMA PercpuRefExitInv ==
  ASSUME RInv, PercpuRefExit
  PROVE  RInv'
<1>1. /\ released /\ allocated /\ at["owner"] = "out" /\ at["switcher"] = "out"
      /\ allocated' = FALSE /\ flags' = {"ATOMIC", "DEAD"}
      /\ UNCHANGED <<count, percpu_count, switch, admin, user, refs, confirmed>>
      /\ UNCHANGED <<confirm_switch, force_atomic, allow_reinit, posted, cb, guards, lock, op, at,
                     waitq, call, path, held, initial, released, confirmed>>
  BY DEF PercpuRefExit, switch, admin, user, refs
<1>2. TypeOK'
  <2>1. allocated' \in BOOLEAN /\ flags' \subseteq {"ATOMIC", "DEAD"}
    BY ZenonT(30), <1>1
  <2> QED BY SMT, <1>1, <2>1 DEF RInv, TypeOK
<1>3. ~initial /\ ~posted /\ cb = "idle" /\ "ATOMIC" \in flags /\ confirm_switch = "null"
      /\ "DEAD" \in flags
  BY SMT, <1>1, Numbers DEF RInv, ReleaseExact, Modes, Owner, TypeOK
<1>4. Modes'
  BY <1>1, <1>3 DEF RInv, Modes
<1>5. Owner'
  BY <1>1, <1>3 DEF RInv, Owner
<1>6. Confirming'
  BY <1>1, <1>3 DEF RInv, Confirming
<1>7. Percpu' = Percpu /\ flags' # {}
  BY <1>1, <1>3 DEF Percpu
<1> QED BY <1>1, <1>2, <1>4, <1>5, <1>6, <1>7, AdminInv
-----------------------------------------------------------------------------
\* A revival takes the initial reference again, in atomic mode.
LEMMA ResurrectGetInv ==
  ASSUME RInv, ResurrectGet
  PROVE  RInv'
<1>1. /\ at["owner"] = "get" /\ count' = Word(count + 1)
      /\ initial' = TRUE /\ released' = FALSE /\ at' = [at EXCEPT !["owner"] = "mode"]
      /\ UNCHANGED <<percpu_count, flags, allocated, confirm_switch, force_atomic, allow_reinit,
                     posted, cb, guards, lock, op, waitq, call, path, held, confirmed>>
  BY DEF ResurrectGet, switch, user
<1>2. /\ ~initial /\ "DEAD" \notin flags /\ "ATOMIC" \in flags
      /\ allow_reinit /\ op["owner"] = "resurrect"
  BY <1>1 DEF RInv, Owner
<1>3. at'["owner"] = "mode" /\ at'["switcher"] = at["switcher"]
  BY <1>1 DEF RInv, TypeOK, Admins
<1>4. References \in Nat /\ References' = References + 1 /\ References' \in 0..Bound
  <2>1. SumFunction(held) \in Nat /\ cb' = cb /\ posted' = posted /\ held' = held
    BY <1>1, HeldType DEF RInv, TypeOK
  <2>2. References' = References + 1
    BY SMT, <1>1, <1>2, <2>1 DEF References, One
  <2> QED BY SMT, <1>2, <2>2, Numbers, BoundType DEF RInv
<1>5. /\ PG' \in Nat /\ PP' \in Nat /\ AG' \in Nat /\ AP' \in Nat /\ PG' = PG /\ PP' = PP
  BY <1>1, QuietPending
<1>6. CountsExact' /\ count' \in 0..(2 * BIAS - 1)
  BY <1>1, <1>2, <1>4, <1>5, AtomicCounts
<1>7. TypeOK'
  <2>1. initial' \in BOOLEAN /\ released' \in BOOLEAN
    BY ZenonT(30), <1>1
  <2> QED BY SMT, <1>1, <1>6, <2>1 DEF RInv, TypeOK, Admins
<1>8. Calls'
  BY <1>1 DEF RInv, Calls
<1>9. Modes'
  BY <1>1, <1>2, <1>3 DEF RInv, Modes
<1>10. Owner'
  BY <1>1, <1>2, <1>3 DEF RInv, Owner
<1>11. Guarded'
  BY <1>1 DEF RInv, Guarded, Percpu
<1>12. Confirming'
  BY <1>1, <1>3 DEF RInv, Confirming
<1>13. ReleaseExact'
  BY SMT, <1>1, <1>4 DEF ReleaseExact
<1> QED BY <1>6, <1>7, <1>8, <1>9, <1>10, <1>11, <1>12, <1>13 DEF RInv

\* A kill drops the initial reference.
LEMMA KillPutInv ==
  ASSUME RInv, KillPut
  PROVE  RInv'
<1>1. /\ at["owner"] = "put" /\ count' = Word(count - 1)
      /\ initial' = FALSE /\ released' = (released \/ count' = 0) /\ lock' = "none"
      /\ at' = [at EXCEPT !["owner"] = "out"] /\ op' = [op EXCEPT !["owner"] = "none"]
      /\ UNCHANGED <<percpu_count, flags, allocated, confirm_switch, force_atomic, allow_reinit,
                     posted, cb, guards, waitq, call, path, held, confirmed>>
  BY DEF KillPut, switch, user
<1>2. initial /\ "DEAD" \in flags /\ "ATOMIC" \in flags
  BY <1>1 DEF RInv, Owner
<1>3. /\ at'["owner"] = "out" /\ at'["switcher"] = at["switcher"]
      /\ op'["switcher"] = op["switcher"]
  BY <1>1 DEF RInv, TypeOK, Admins
<1>4. /\ References \in Nat /\ References >= 1
      /\ References' = References - 1 /\ References' \in 0..Bound
  <2>1. SumFunction(held) \in Nat /\ cb' = cb /\ posted' = posted /\ held' = held
    BY <1>1, HeldType DEF RInv, TypeOK
  <2>2. References' = References - 1
    BY SMT, <1>1, <1>2, <2>1 DEF References, One
  <2> QED BY SMT, <1>2, <2>2, Numbers, BoundType DEF RInv
<1>5. /\ PG' \in Nat /\ PP' \in Nat /\ AG' \in Nat /\ AP' \in Nat /\ PG' = PG /\ PP' = PP
  BY <1>1, QuietPending
<1>6. /\ count \in Nat /\ count - 1 = count + (-1) /\ References - 1 = References + (-1)
  BY <1>4, Numbers DEF RInv
<1>7. CountsExact' /\ count' \in 0..(2 * BIAS - 1) /\ (~Percpu => count' = References')
  BY <1>1, <1>2, <1>4, <1>5, <1>6, AtomicCounts
<1>8. TypeOK'
  BY ZenonT(30), <1>1, <1>7 DEF RInv, TypeOK, Admins
<1>9. Calls'
  BY <1>1 DEF RInv, Calls
<1>10. Modes'
  BY <1>1, <1>2, <1>3 DEF RInv, Modes
<1>11. Owner'
  BY <1>1, <1>2, <1>3 DEF RInv, Owner
<1>12. Guarded'
  BY <1>1 DEF RInv, Guarded, Percpu
<1>13. Confirming'
  BY <1>1, <1>2 DEF RInv, Confirming
<1>14. ReleaseExact'
  <2>1. Percpu => count' # 0
    BY <1>1, <1>4, <1>6, CountStep
  <2>2. Percpu => References' >= 1
    BY <1>1, <1>2, <1>8, RefsNext DEF Percpu
  <2>3. ~released
    BY SMT, <1>4 DEF RInv, ReleaseExact
  <2>4. References' = 0 <=> count' = 0
    BY SMTT(15), <1>4, <1>7, <2>1, <2>2
  <2> QED BY <1>1, <2>3, <2>4 DEF ReleaseExact
<1> QED BY <1>7, <1>8, <1>9, <1>10, <1>11, <1>12, <1>13, <1>14 DEF RInv
-----------------------------------------------------------------------------
\* After a switch the owner and the switcher are where SwitchReturn says.
LEMMA SwitchReturnOwner ==
  ASSUME RInv, NEW a \in Admins, at[a] = "mode", lock = a, SwitchReturn(a),
         UNCHANGED <<initial, allow_reinit, allocated>>, "DEAD" \in flags' <=> "DEAD" \in flags,
         "DEAD" \in flags => "ATOMIC" \in flags'
  PROVE  /\ Owner'
         /\ lock' \in Admins \cup {"none"}
         /\ at' \in [Admins -> {"out", "get", "mode", "wait", "put", "sync", "sync_wait"}]
         /\ op' \in [Admins -> {"none", "kill", "kill_and_confirm", "resurrect", "switch_to_atomic",
                                "switch_to_atomic_sync", "switch_to_percpu"}]
         /\ op[a] = "kill_and_confirm" => "DEAD" \in flags
         /\ "DEAD" \in flags \/ initial
<1>1. CASE a = "owner"
  <2>1. /\ op["owner"] \in {"kill", "kill_and_confirm", "resurrect"} /\ initial
        /\ op["owner"] # "resurrect" <=> "DEAD" \in flags
        /\ at["switcher"] # "mode"
    BY <1>1 DEF RInv, Owner
  <2>2. CASE op["owner"] \in {"kill", "kill_and_confirm"}
    <3>1. /\ at' = [at EXCEPT !["owner"] = "put"] /\ lock' = lock /\ op' = op
          /\ at'["owner"] = "put" /\ at'["switcher"] = at["switcher"]
      BY <1>1, <2>2 DEF SwitchReturn, RInv, TypeOK, Admins
    <3> QED BY <1>1, <2>1, <2>2, <3>1 DEF RInv, TypeOK, Owner, Admins
  <2>3. CASE op["owner"] = "resurrect"
    <3>1. /\ at' = [at EXCEPT !["owner"] = "out"] /\ lock' = "none"
          /\ op' = [op EXCEPT !["owner"] = "none"]
          /\ at'["owner"] = "out" /\ at'["switcher"] = at["switcher"]
          /\ op'["switcher"] = op["switcher"]
      BY ZenonT(30), <1>1, <2>3 DEF SwitchReturn, RInv, TypeOK, Admins
    <3> QED BY <1>1, <2>1, <2>3, <3>1 DEF RInv, TypeOK, Owner, Admins
  <2> QED BY <2>1, <2>2, <2>3
<1>2. CASE a = "switcher"
  <2>1. /\ op["switcher"] \notin {"kill", "kill_and_confirm"}
        /\ at["owner"] \in {"out", "wait"} /\ ("DEAD" \in flags \/ initial)
    BY <1>2 DEF RInv, Owner, Modes, TypeOK, Admins
  <2>2. /\ lock' = "none" /\ at'["owner"] = at["owner"] /\ op'["owner"] = op["owner"]
        /\ at'["switcher"] \in {"sync", "out"} /\ op'["switcher"] \in {op["switcher"], "none"}
        /\ at' \in [Admins -> {"out", "get", "mode", "wait", "put", "sync", "sync_wait"}]
        /\ op' \in [Admins -> {"none", "kill", "kill_and_confirm", "resurrect", "switch_to_atomic",
                               "switch_to_atomic_sync", "switch_to_percpu"}]
    BY SMT, <1>2, <2>1 DEF SwitchReturn, RInv, TypeOK, Admins
  <2>3. Owner'
    BY <2>1, <2>2 DEF RInv, Owner
  <2> QED BY <1>2, <2>1, <2>2, <2>3
<1> QED BY <1>1, <1>2 DEF Admins

\* The switch has nothing to do.
LEMMA SwitchNothing ==
  ASSUME RInv, NEW a \in Admins, at[a] = "mode", lock = a, confirm_switch = "null", SwitchReturn(a),
         UNCHANGED <<count, percpu_count, flags, allocated, confirm_switch, force_atomic,
                     allow_reinit, posted, cb, guards, waitq, user, refs>>,
         confirmed' \in {confirmed, "now"}, "DEAD" \in flags => "ATOMIC" \in flags
  PROVE  RInv'
<1>1. UNCHANGED <<call, path, held, initial, released>>
  BY DEF user, refs
<1>2. /\ Owner'
      /\ lock' \in Admins \cup {"none"}
      /\ at' \in [Admins -> {"out", "get", "mode", "wait", "put", "sync", "sync_wait"}]
      /\ op' \in [Admins -> {"none", "kill", "kill_and_confirm", "resurrect", "switch_to_atomic",
                             "switch_to_atomic_sync", "switch_to_percpu"}]
  BY <1>1, SwitchReturnOwner
<1>3. TypeOK'
  BY SMT, <1>1, <1>2 DEF RInv, TypeOK
<1>4. Modes'
  BY <1>1, <1>2 DEF RInv, Modes
<1>5. Confirming'
  BY <1>1 DEF RInv, Confirming
<1>6. Percpu' = Percpu
  BY DEF Percpu
<1> QED BY <1>2, <1>3, <1>4, <1>5, <1>6, AdminInv

\* The switch to atomic mode posts the callback and takes its reference.
LEMMA ToAtomicInv ==
  ASSUME RInv, NEW a \in Admins, SwitchMode(a), force_atomic \/ "DEAD" \in flags
  PROVE  RInv'
<1>1. /\ at[a] = "mode" /\ lock = a /\ confirm_switch = "null" /\ SwitchToAtomic(a)
      /\ SwitchReturn(a) /\ UNCHANGED <<force_atomic, allow_reinit, waitq, user, refs>>
      /\ UNCHANGED <<call, path, held, initial, released>>
  BY DEF SwitchMode, user, refs
<1>2. CASE "ATOMIC" \in flags
  <2>1. /\ confirmed' \in {confirmed, "now"} /\ UNCHANGED <<confirm_switch, posted, cb, guards>>
        /\ UNCHANGED <<count, percpu_count, flags, allocated>>
    BY <1>1, <1>2 DEF SwitchToAtomic, ref
  <2> QED BY <1>1, <1>2, <2>1, SwitchNothing
<1>3. CASE "ATOMIC" \notin flags
  <2>1. /\ flags' = flags \cup {"ATOMIC"} /\ count' = Word(count + 1) /\ posted' = TRUE
        /\ confirm_switch' = IF op[a] = "kill_and_confirm" THEN "confirm" ELSE "noop"
        /\ guards' = {u \in Users : call[u] # "none"}
                       \cup (IF cb \in {"percpu", "atomic"} THEN {"cb"} ELSE {})
        /\ UNCHANGED <<percpu_count, allocated, cb, confirmed>>
    BY <1>1, <1>3 DEF SwitchToAtomic
  <2>2. ~posted /\ cb # "confirm" /\ Percpu /\ (~allow_reinit => cb = "idle") /\ allocated
    BY <1>1, <1>3 DEF RInv, Modes, Percpu
  <2>3. /\ Owner'
        /\ lock' \in Admins \cup {"none"}
        /\ at' \in [Admins -> {"out", "get", "mode", "wait", "put", "sync", "sync_wait"}]
        /\ op' \in [Admins -> {"none", "kill", "kill_and_confirm", "resurrect", "switch_to_atomic",
                               "switch_to_atomic_sync", "switch_to_percpu"}]
        /\ op[a] = "kill_and_confirm" => "DEAD" \in flags
    BY <1>1, <2>1, SwitchReturnOwner
  <2>4. References \in Nat /\ References' = References + 1 /\ References + 1 \in 0..Bound
    <3>1. SumFunction(held) \in Nat
      BY HeldType DEF RInv, TypeOK
    <3>2. References' = References + 1
      BY SMTT(15), <1>1, <2>1, <2>2, <3>1 DEF References, One
    <3> QED BY SMT, <2>2, <3>2, Numbers, BoundType DEF RInv
  <2>5. count' = count + 1 /\ count \in Nat /\ count' \in 0..(2 * BIAS - 1)
    BY SMTT(15), <2>1, <2>4, CountStep, Numbers, WordType DEF RInv
  <2>6. TypeOK'
    <3>1. posted' \in BOOLEAN /\ guards' \subseteq Users \cup {"cb"}
      BY <2>1
    <3> QED BY ZenonT(30), <1>1, <2>1, <2>3, <2>5, <3>1 DEF RInv, TypeOK
  <2>7. Calls'
    BY <1>1 DEF RInv, Calls
  <2>8. Modes'
    BY <1>1, <2>1, <2>2, <2>3 DEF RInv, Modes
  <2>9. Guarded'
    BY ZenonT(30), <1>1, <2>1 DEF RInv, Guarded, Calls, Percpu
  <2>10. CountsExact'
    <3>1. Percpu' /\ flags' # {}
      BY <2>1 DEF Percpu
    <3>2. Summed' = Summed
      BY SMT, <2>4, <2>5, BoundType DEF Summed
    <3>3. PG' = PG /\ PP' = PP
      BY ZenonT(30), <1>1, <2>1, QuietPending
    <3>4. Word(SumFunction(percpu_count)) = Word(Summed)
      BY <2>2 DEF RInv, CountsExact
    <3>5. Summed + PG <= Bound /\ Summed - PP >= -Bound
      BY <2>2, Away
    <3> QED BY <2>1, <3>1, <3>2, <3>3, <3>4, <3>5 DEF CountsExact
  <2>11. Confirming'
    BY <1>1, <2>1, <2>3 DEF RInv, Confirming
  <2>12. ReleaseExact'
    BY SMT, <1>1, <2>2, <2>4, Away DEF RInv, ReleaseExact
  <2> QED BY <2>3, <2>6, <2>7, <2>8, <2>9, <2>10, <2>11, <2>12 DEF RInv
<1> QED BY <1>2, <1>3

\* The switch to per-CPU mode starts the counters at zero under a bias.
LEMMA ToPercpuInv ==
  ASSUME RInv, NEW a \in Admins, SwitchMode(a), ~force_atomic, "DEAD" \notin flags
  PROVE  RInv'
<1>1. /\ at[a] = "mode" /\ lock = a /\ confirm_switch = "null" /\ SwitchToPercpu
      /\ SwitchReturn(a) /\ UNCHANGED <<force_atomic, allow_reinit, waitq, user, refs>>
      /\ UNCHANGED <<call, path, held, initial, released>>
  BY DEF SwitchMode, user, refs
<1>2. UNCHANGED <<allocated, confirm_switch, posted, cb, guards, confirmed>>
  BY <1>1 DEF SwitchToPercpu
<1>3. CASE "ATOMIC" \notin flags \/ ~allow_reinit
  <2>1. UNCHANGED <<count, percpu_count, flags>>
    BY <1>1, <1>3 DEF SwitchToPercpu
  <2> QED BY <1>1, <1>2, <2>1, SwitchNothing
<1>4. CASE "ATOMIC" \in flags /\ allow_reinit
  <2>1. /\ count' = Word(count + BIAS) /\ percpu_count' = [c \in CPUs |-> 0]
        /\ flags' = flags \ {"ATOMIC"} /\ flags' = {}
    BY ZenonT(30), <1>1, <1>4 DEF SwitchToPercpu, RInv, TypeOK
  <2>2. ~posted /\ cb # "confirm" /\ ~Percpu /\ allocated
    BY <1>1, <1>4 DEF RInv, Modes, Percpu
  <2>3. /\ Owner'
        /\ lock' \in Admins \cup {"none"}
        /\ at' \in [Admins -> {"out", "get", "mode", "wait", "put", "sync", "sync_wait"}]
        /\ op' \in [Admins -> {"none", "kill", "kill_and_confirm", "resurrect", "switch_to_atomic",
                               "switch_to_atomic_sync", "switch_to_percpu"}]
        /\ initial
    <3>1. UNCHANGED <<initial, allow_reinit, allocated>> /\ "DEAD" \notin flags'
      BY <1>1, <1>2, <2>1
    <3> QED BY <1>1, <3>1, SwitchReturnOwner
  <2>4. References' = References
    BY <1>1, <1>2 DEF References
  <2>5. /\ References \in Nat /\ count = References /\ AG \in Nat /\ AP \in Nat
        /\ References + AG <= Bound /\ References >= AP
        /\ Bound \in Nat /\ BIAS \in Nat /\ 2 * Bound < BIAS
    BY SMT, <2>2, Numbers, BoundType DEF RInv, CountsExact
  <2>6. count' = References + BIAS /\ count' \in 0..(2 * BIAS - 1)
    <3>1. References + BIAS \in 0..(2 * BIAS - 1)
      BY SMT, <2>5
    <3> QED BY <2>1, <2>5, <3>1, WordType
  <2>7. TypeOK'
    <3>1. percpu_count' \in [CPUs -> 0..(2 * BIAS - 1)]
      BY SMT, <2>1, WordType
    <3> QED BY ZenonT(30), <1>1, <1>2, <2>1, <2>3, <2>6, <3>1 DEF RInv, TypeOK
  <2>8. Calls'
    BY ZenonT(30), <1>1 DEF RInv, Calls
  <2>9. Modes'
    BY <1>1, <1>2, <1>4, <2>1, <2>2, <2>3 DEF RInv, Modes
  <2>10. Guarded'
    BY <1>2, <2>1, <2>2 DEF Guarded, Percpu
  <2>11. CountsExact'
    <3>1. Percpu' /\ flags' = {}
      BY <2>1 DEF Percpu
    <3>2. Summed' = 0
      BY SMT, <2>4, <2>5, <2>6 DEF Summed
    <3>3. AG' = AG /\ AP' = AP
      BY <1>1, <1>2, QuietPending
    <3>4. SumFunction(percpu_count') = 0
      <4> DEFINE z == [c \in CPUs |-> 0]
      <4>1. z \in [CPUs -> Nat] /\ (\A c \in CPUs : z[c] = 0) /\ IsFiniteSet(CPUs)
        BY PercpuRefConstants
      <4> HIDE DEF z
      <4>2. SumFunction(z) = 0
        BY <4>1, SumZero
      <4> QED BY <2>1, <4>2 DEF z
    <3>5. count' - BIAS >= AP' /\ count' - BIAS + AG' <= Bound
      BY SMT, <2>5, <2>6, <3>3
    <3> QED BY <3>1, <3>2, <3>4, <3>5 DEF CountsExact
  <2>12. Confirming'
    BY <1>1, <1>2, <1>4, <2>1 DEF Confirming
  <2>13. ReleaseExact'
    BY <1>1, <2>4 DEF RInv, ReleaseExact
  <2> QED BY <2>3, <2>7, <2>8, <2>9, <2>10, <2>11, <2>12, <2>13 DEF RInv
<1> QED BY <1>3, <1>4
-----------------------------------------------------------------------------
\* The counters add up to the references.
LEMMA CountWord ==
  ASSUME RInv, Percpu
  PROVE  Word(count + SumFunction(percpu_count) - BIAS) = References
<1> DEFINE r == References
           s == SumFunction(percpu_count)
           k == count - BIAS
<1>1. PG \in Nat /\ AG \in Nat /\ r \in Nat /\ r + PG + AG <= Bound /\ count \in Nat
  BY Numbers DEF RInv
<1>2. Word(s) = Word(r - k) /\ r \in 0..(2 * BIAS - 1) /\ BIAS \in Nat /\ count \in Nat
  BY SMT, <1>1, BoundType DEF RInv, CountsExact, Summed
<1>3. s \in Int
  <2>1. percpu_count \in [CPUs -> Int] /\ IsFiniteSet(CPUs)
    BY SMT, PercpuRefConstants, WordType DEF RInv, TypeOK
  <2> QED BY <2>1, SumType
<1> HIDE DEF r, s
<1>4. k \in Int /\ r - k \in Int /\ s + k = count + s - BIAS /\ (r - k) + k = r
  BY SMT, <1>2, <1>3
<1> HIDE DEF k
<1>5. Word(s + k) = Word((r - k) + k)
  BY <1>2, <1>3, <1>4, WordEq
<1> QED BY <1>2, <1>4, <1>5, WordType DEF r, s

\* The callback adds up the counters once nobody is about to change one.
LEMMA SwitchRcuInv ==
  ASSUME RInv, SwitchRcu
  PROVE  RInv'
<1>1. /\ posted /\ cb = "idle" /\ guards = {} /\ posted' = FALSE /\ cb' = "confirm"
      /\ count' = Word(count + SumFunction(percpu_count) - BIAS)
      /\ UNCHANGED <<percpu_count, flags, allocated, confirm_switch, force_atomic, allow_reinit,
                     guards, lock, op, at, waitq, call, path, held, initial, released, confirmed>>
  BY DEF SwitchRcu, admin, user, refs
<1>2. Percpu /\ ~Percpu' /\ "ATOMIC" \in flags
  BY <1>1 DEF RInv, Modes, Percpu
<1>3. References' = References /\ References \in Nat /\ References <= Bound
  <2>1. SumFunction(held) \in Nat
    BY HeldType DEF RInv, TypeOK
  <2>2. References' = References
    BY SMT, <1>1, <2>1 DEF References, One
  <2>3. PG \in Nat /\ AG \in Nat /\ References \in Nat /\ References + PG + AG <= Bound
    BY Numbers DEF RInv
  <2> QED BY SMT, <2>2, <2>3, BoundType
<1>4. count' = References
  BY <1>1, <1>2, CountWord
<1>5. TypeOK'
  <2>0. References \in 0..(2 * BIAS - 1)
    BY SMT, <1>3, BoundType
  <2>1. posted' \in BOOLEAN /\ count' \in 0..(2 * BIAS - 1)
    BY ZenonT(30), <1>1, <1>4, <2>0
  <2> QED BY ZenonT(30), <1>1, <2>1 DEF RInv, TypeOK
<1>6. Calls'
  BY <1>1 DEF RInv, Calls
<1>7. Modes'
  BY <1>1 DEF RInv, Modes
<1>8. Owner'
  BY <1>1 DEF RInv, Owner
<1>9. Guarded'
  BY <1>1 DEF RInv, Guarded
<1>10. Confirming'
  BY <1>1 DEF RInv, Confirming
<1>11. CountsExact' /\ ReleaseExact'
  BY <1>1, <1>2, <1>3, <1>4 DEF RInv, CountsExact, ReleaseExact
<1> QED BY <1>5, <1>6, <1>7, <1>8, <1>9, <1>10, <1>11 DEF RInv

\* confirm_kill, the wake-up, and the exit of a reference that cannot be used again.
LEMMA CallConfirmInv ==
  ASSUME RInv, CallConfirmRcu \/ ConfirmWake
  PROVE  RInv'
<1>1. /\ cb \in {"confirm", "wake"} /\ cb' \in {"wake", "percpu", "atomic"}
      /\ cb' = "percpu" => flags' = {}
      /\ cb' = "atomic" => flags' # {}
      /\ UNCHANGED <<count, percpu_count, force_atomic, allow_reinit, posted, guards, lock, op,
                     at, call, path, held, initial, released>>
      /\ \/ cb = "confirm" /\ cb' = "wake" /\ UNCHANGED <<flags, allocated, waitq>>
            /\ confirm_switch' = "null"
            /\ confirmed' = IF confirm_switch = "confirm" THEN "rcu" ELSE confirmed
         \/ cb = "wake" /\ cb' # "wake" /\ allocated' = (allocated /\ allow_reinit)
            /\ flags' = (IF allow_reinit THEN flags ELSE {"ATOMIC", "DEAD"}) /\ waitq' = {}
            /\ UNCHANGED <<confirm_switch, confirmed>>
  BY ZenonT(30) DEF CallConfirmRcu, ConfirmWake, ref, admin, user, refs
<1>0. /\ ~allow_reinit => "ATOMIC" \in flags /\ "ATOMIC" \in flags' /\ ~posted
      /\ allow_reinit => flags' = flags
      /\ "DEAD" \in flags => "DEAD" \in flags'
      /\ flags' = {} <=> flags = {}
  BY ZenonT(30), <1>1 DEF RInv, Modes
<1>2. TypeOK'
  <2>1. flags' \subseteq {"ATOMIC", "DEAD"} /\ allocated' \in BOOLEAN /\ waitq' \subseteq Admins
    BY ZenonT(30), <1>1 DEF RInv, TypeOK
  <2> QED BY SMT, <1>1, <2>1 DEF RInv, TypeOK
<1>3. Calls'
  BY ZenonT(30), <1>1 DEF RInv, Calls
<1>4. Modes'
  <2>1. CASE cb = "confirm"
    <3>1. ~posted /\ "ATOMIC" \in flags /\ allocated
      BY <2>1 DEF RInv, Modes
    <3> QED BY ZenonT(30), <1>1, <2>1, <3>1 DEF RInv, Modes
  <2>2. CASE cb = "wake" /\ allow_reinit
    BY ZenonT(30), <1>0, <1>1, <2>2 DEF RInv, Modes
  <2>3. CASE cb = "wake" /\ ~allow_reinit
    BY ZenonT(30), <1>0, <1>1, <2>3 DEF RInv, Modes
  <2> QED BY <1>1, <2>1, <2>2, <2>3
<1>5. Owner'
  <2>1. CASE flags' = flags /\ allocated' = allocated
    BY <1>1, <2>1 DEF RInv, Owner
  <2>2. CASE ~allow_reinit /\ flags' = {"ATOMIC", "DEAD"} /\ ~allocated'
    BY ZenonT(30), <1>1, <2>2 DEF RInv, Owner
  <2> QED BY <1>1, <2>1, <2>2 DEF RInv, TypeOK
<1>6. Percpu' = Percpu /\ References' = References
  BY <1>0, <1>1 DEF Percpu, References
<1>7. Guarded'
  BY <1>0, <1>1, <1>6 DEF RInv, Guarded, Modes, Percpu
<1>8. Confirming'
  <2>1. CASE cb = "confirm"
    BY <1>1, <2>1 DEF RInv, Confirming, Modes, Owner
  <2>2. CASE cb = "wake"
    BY <1>0, <1>1, <2>2 DEF RInv, Confirming, Modes
  <2> QED BY <1>1, <2>1, <2>2
<1>9. PG \in Nat /\ PP \in Nat /\ AG \in Nat /\ AP \in Nat
  BY Numbers DEF RInv
<1>10. /\ PG' \in Nat /\ PP' \in Nat /\ AG' \in Nat /\ AP' \in Nat /\ PG' = PG /\ AG' = AG
       /\ flags = {} => AP' = AP
       /\ flags # {} => PP' = PP
  <2>1. /\ One(cb = "percpu") = 0 /\ One(cb = "atomic") = 0
        /\ flags = {} => One(cb' = "atomic") = 0
        /\ flags # {} => One(cb' = "percpu") = 0
    BY <1>0, <1>1 DEF One
  <2>2. /\ PG' \in Nat /\ PP' \in Nat /\ AG' \in Nat /\ AP' \in Nat
        /\ PG' = PG /\ AG' = AG
        /\ PP' - One(cb' = "percpu") = PP - One(cb = "percpu")
        /\ AP' - One(cb' = "atomic") = AP - One(cb = "atomic")
    BY <1>1, QuietPending
  <2> QED BY SMT, <1>9, <2>1, <2>2
<1>11. CountsExact'
  <2>1. /\ flags' = {} => flags = {} /\ AG' <= AG /\ AP' <= AP
        /\ flags' # {} => PG' <= PG /\ PP' <= PP
    BY SMT, <1>0, <1>9, <1>10
  <2> QED BY <1>1, <1>6, <1>10, <2>1, SameCounts
<1> QED BY <1>1, <1>2, <1>3, <1>4, <1>5, <1>6, <1>7, <1>8, <1>11 DEF RInv, ReleaseExact

\* The callback drops the switch's reference, on count or on a per-CPU counter.
LEMMA ConfirmPutInv ==
  ASSUME RInv, ConfirmPut
  PROVE  RInv'
<1>1. /\ cb \in {"percpu", "atomic"} /\ cb' = "idle" /\ guards' = guards \ {"cb"}
      /\ UNCHANGED <<flags, allocated, confirm_switch, force_atomic, allow_reinit, posted, lock,
                     op, at, waitq, call, path, held, initial, confirmed>>
  BY DEF ConfirmPut, admin, user
<1>2. /\ References \in Nat /\ References >= 1 /\ References' = References + (-1)
      /\ References' \in 0..Bound
  <2>1. SumFunction(held) \in Nat
    BY HeldType DEF RInv, TypeOK
  <2>2. References' = References + (-1)
    BY SMT, <1>1, <2>1 DEF References, One
  <2> QED BY SMTT(15), <1>1, <2>2, Numbers, BoundType DEF RInv
<1>3. Percpu' = Percpu
  BY <1>1 DEF Percpu
<1>4. ~released
  BY SMT, <1>2 DEF RInv, ReleaseExact
<1>5. Calls'
  BY <1>1 DEF RInv, Calls
<1>6. Modes'
  BY <1>1 DEF RInv, Modes
<1>7. Owner'
  BY <1>1 DEF RInv, Owner
<1>8. Guarded'
  <2>1. \A u \in Users : u \in guards => u \in guards'
    BY <1>1, PercpuRefConstants
  <2> QED BY <1>1, <1>3, <2>1 DEF RInv, Guarded
<1>9. Confirming'
  <2>1. \A u \in Users : u \in guards => u \in guards'
    BY <1>1, PercpuRefConstants
  <2> QED BY <1>1, <2>1 DEF RInv, Confirming
<1>10. PG \in Nat /\ PP \in Nat /\ AG \in Nat /\ AP \in Nat
  BY Numbers DEF RInv
<1>11. /\ PG' \in Nat /\ PP' \in Nat /\ AG' \in Nat /\ AP' \in Nat /\ PG' = PG /\ AG' = AG
       /\ cb = "percpu" => PP' = PP - 1 /\ AP' = AP
       /\ cb = "atomic" => PP' = PP /\ AP' = AP - 1
  <2>1. /\ One(cb' = "percpu") = 0 /\ One(cb' = "atomic") = 0
        /\ cb = "percpu" => One(cb = "percpu") = 1 /\ One(cb = "atomic") = 0
        /\ cb = "atomic" => One(cb = "percpu") = 0 /\ One(cb = "atomic") = 1
    BY <1>1 DEF One
  <2>2. /\ PG' \in Nat /\ PP' \in Nat /\ AG' \in Nat /\ AP' \in Nat
        /\ PG' = PG /\ AG' = AG
        /\ PP' - One(cb' = "percpu") = PP - One(cb = "percpu")
        /\ AP' - One(cb' = "atomic") = AP - One(cb = "atomic")
    BY <1>1, QuietPending
  <2> QED BY SMT, <1>10, <2>1, <2>2
<1>12. /\ Percpu => initial' \/ posted'
       /\ guards' \subseteq Users \cup {"cb"}
  BY <1>1 DEF RInv, Modes, Percpu, TypeOK
<1>13. CASE cb = "percpu"
  <2>1. PICK c \in CPUs : percpu_count' = [percpu_count EXCEPT ![c] = Word(@ - 1)]
    BY <1>13 DEF ConfirmPut
  <2>2. percpu_count[c] \in Int /\ percpu_count[c] - 1 = percpu_count[c] + (-1)
    BY SMT, WordType DEF RInv, TypeOK
  <2>3. percpu_count' = [percpu_count EXCEPT ![c] = Word(@ + (-1))]
    BY ZenonT(30), <2>1, <2>2
  <2>4. Percpu /\ UNCHANGED <<count, released>>
    BY <1>13 DEF RInv, Guarded, ConfirmPut
  <2>5. /\ percpu_count' \in [CPUs -> 0..(2 * BIAS - 1)]
        /\ percpu_count'[c] = Word(percpu_count[c] + (-1))
        /\ \A k \in CPUs \ {c} : percpu_count'[k] = percpu_count[k]
    <3>1. percpu_count \in [CPUs -> 0..(2 * BIAS - 1)] /\ percpu_count[c] \in Int
      BY SMT, WordType DEF RInv, TypeOK
    <3>2. Word(percpu_count[c] + (-1)) \in 0..(2 * BIAS - 1)
      BY SMTT(15), <3>1, WordType
    <3> QED BY <2>3, <3>1, <3>2
  <2>6. TypeOK'
    BY SMTT(15), <1>1, <1>12, <2>4, <2>5 DEF RInv, TypeOK
  <2>8. CountsExact'
    BY SMTT(15), <1>1, <1>2, <1>11, <1>13, <2>4, <2>5, PercpuCounts
  <2>7. References' >= 1
    BY <1>12, <2>4, <2>6, RefsNext
  <2> QED BY SMTT(15), <1>4, <1>5, <1>6, <1>7, <1>8, <1>9, <2>4, <2>6, <2>7, <2>8
           DEF RInv, ReleaseExact
<1>14. CASE cb = "atomic"
  <2>1. count' = Word(count - 1) /\ released' = (released \/ count' = 0) /\ UNCHANGED percpu_count
    BY <1>14 DEF ConfirmPut
  <2>2. count \in Nat /\ count - 1 = count + (-1)
    BY Numbers DEF RInv
  <2>3. CountsExact' /\ count' \in 0..(2 * BIAS - 1) /\ (~Percpu => count' = References')
    BY SMTT(15), <1>1, <1>2, <1>11, <1>14, <2>1, <2>2, AtomicCounts
  <2>4. TypeOK'
    BY ZenonT(30), <1>1, <1>12, <2>1, <2>3 DEF RInv, TypeOK
  <2>5. Percpu => count' # 0
    BY <1>2, <2>1, <2>2, CountStep
  <2>6. Percpu => References' >= 1
    BY <1>12, <2>4, RefsNext
  <2>7. References' = 0 <=> count' = 0
    BY SMT, <1>2, <2>3, <2>5, <2>6
  <2> QED BY ZenonT(30), <1>4, <1>5, <1>6, <1>7, <1>8, <1>9, <2>1, <2>3, <2>4, <2>7
             DEF RInv, ReleaseExact
<1> QED BY <1>1, <1>13, <1>14
-----------------------------------------------------------------------------
\* What percpu_ref_init() sets up.
LEMMA InitRInv ==
  Init => RInv
<1> SUFFICES ASSUME Init PROVE RInv
  OBVIOUS
<1>1. PICK init_atomic \in BOOLEAN, init_dead \in BOOLEAN, reinit \in BOOLEAN :
    /\ allow_reinit = (reinit \/ init_atomic \/ init_dead) /\ force_atomic = init_atomic
    /\ flags = (IF init_atomic \/ init_dead THEN {"ATOMIC"} ELSE {})
                 \cup (IF init_dead THEN {"DEAD"} ELSE {})
    /\ count = (IF init_atomic \/ init_dead THEN 0 ELSE BIAS) + (IF init_dead THEN 0 ELSE 1)
    /\ initial = ~init_dead /\ released = init_dead
  BY DEF Init
<1>2. /\ percpu_count = [c \in CPUs |-> 0] /\ allocated = TRUE /\ confirm_switch = "null"
      /\ posted = FALSE /\ cb = "idle" /\ guards = {} /\ lock = "none"
      /\ op = [a \in Admins |-> "none"] /\ at = [a \in Admins |-> "out"] /\ waitq = {}
      /\ call = [u \in Users |-> "none"] /\ path = [u \in Users |-> "none"]
      /\ held = [u \in Users |-> 0] /\ confirmed = "no"
  BY DEF Init
<1>3. BIAS \in Nat /\ MaxHeld \in Nat /\ Bound \in Nat /\ Bound >= 3 /\ 2 * Bound < BIAS
  BY BoundType
<1>4. TypeOK
  <2>1. count \in 0..(2 * BIAS - 1) /\ flags \subseteq {"ATOMIC", "DEAD"}
    BY SMT, <1>1, <1>3
  <2>2. percpu_count \in [CPUs -> 0..(2 * BIAS - 1)] /\ held \in [Users -> 0..MaxHeld]
    BY SMT, <1>2, <1>3
  <2>3. /\ allocated \in BOOLEAN /\ force_atomic \in BOOLEAN /\ allow_reinit \in BOOLEAN
        /\ posted \in BOOLEAN /\ initial \in BOOLEAN /\ released \in BOOLEAN
    BY <1>1, <1>2
  <2> QED BY <1>2, <2>1, <2>2, <2>3 DEF TypeOK
<1>5. Calls
  BY <1>2 DEF Calls, Gets
<1>6. Modes
  BY <1>1, <1>2 DEF Modes, Admins
<1>7. Owner
  BY ZenonT(30), <1>1, <1>2 DEF Owner, Admins
<1>8. Guarded /\ Confirming
  BY <1>2 DEF Guarded, Confirming
<1>9. SumFunction(held) = 0 /\ SumFunction(percpu_count) = 0
  <2>1. ASSUME NEW S, IsFiniteSet(S) PROVE SumFunction([c \in S |-> 0]) = 0
    <3> DEFINE y == [c \in S |-> 0]
    <3>1. y \in [S -> Nat] /\ \A c \in S : y[c] = 0
      OBVIOUS
    <3> HIDE DEF y
    <3>2. SumFunction(y) = 0
      BY <2>1, <3>1, SumZero
    <3> QED BY <3>2 DEF y
  <2> QED BY <1>2, <2>1, PercpuRefConstants
<1>10. /\ init_dead => References = 0 /\ released /\ count = 0
       /\ ~init_dead => References = 1 /\ ~released
       /\ ~init_dead /\ init_atomic => count = 1
       /\ ~init_dead /\ ~init_atomic => count = BIAS + 1 /\ flags = {}
       /\ init_dead \/ init_atomic => "ATOMIC" \in flags
  <2>1. (init_dead => ~initial /\ released) /\ (~init_dead => initial /\ ~released)
    BY <1>1, Zenon
  <2>2. References = IF initial THEN 1 ELSE 0
    BY SMT, <1>2, <1>9 DEF References, One
  <2> QED BY SMT, <1>1, <1>3, <2>1, <2>2
<1>11. ReleaseExact
  BY SMT, <1>10 DEF ReleaseExact
<1>12. CountsExact
  <2>1. PG \in Nat /\ PP \in Nat /\ AG \in Nat /\ AP \in Nat /\ References \in Nat
        /\ References + PG + AG <= Bound /\ References >= PP + AP
    BY <1>4, <1>5, Numbers
  <2>2. CASE init_atomic \/ init_dead
    <3>1. ~Percpu /\ count = References
      BY <1>2, <1>10, <2>2 DEF Percpu
    <3> QED BY <3>1 DEF CountsExact
  <2>3. CASE ~(init_atomic \/ init_dead)
    <3>1. flags = {} /\ count = BIAS + 1 /\ References = 1 /\ Summed = 0 /\ Percpu
      BY SMT, <1>3, <1>10, <2>3 DEF Summed, Percpu
    <3>2. count - BIAS >= AP /\ count - BIAS + AG <= Bound
      BY SMT, <1>3, <2>1, <3>1
    <3> QED BY <1>9, <3>1, <3>2 DEF CountsExact
  <2> QED BY <2>2, <2>3
<1> QED BY <1>4, <1>5, <1>6, <1>7, <1>8, <1>11, <1>12 DEF RInv

\* Every step preserves the invariant.
LEMMA NextRInv ==
  RInv /\ [Next]_vars => RInv'
<1> SUFFICES ASSUME RInv, [Next]_vars PROVE RInv'
  OBVIOUS
<1>1. ASSUME NEW u \in Users, UserStep(u) PROVE RInv'
  BY <1>1, UserPercpuInv, UserTestDeadInv, UserAtomicInv DEF UserStep
<1>2. ASSUME NEW a \in Admins, AdminStep(a) PROVE RInv'
  <2>1. CASE SwitchMode(a)
    BY <2>1, ToAtomicInv, ToPercpuInv
  <2>2. CASE ResurrectGet \/ KillPut
    BY <2>2, ResurrectGetInv, KillPutInv
  <2>3. CASE SwitchWait(a) \/ SwitchWoken(a) \/ SyncWait(a) \/ SyncWoken(a) \/ SyncDone(a)
    BY <2>3, SwitchWaitInv
  <2> QED BY <1>2, <2>1, <2>2, <2>3 DEF AdminStep
<1>3. CASE RcuStep
  BY <1>3, SwitchRcuInv, CallConfirmInv, ConfirmPutInv DEF RcuStep
<1>4. CASE PercpuRefResurrect \/ PercpuRefExit
  BY <1>4, PercpuRefResurrectInv, PercpuRefExitInv
<1>5. ASSUME NEW o \in {"kill", "kill_and_confirm"}, PercpuRefKill(o) PROVE RInv'
  BY <1>5, PercpuRefKillInv
<1>6. ASSUME NEW o \in {"switch_to_atomic", "switch_to_atomic_sync", "switch_to_percpu"},
             PercpuRefSwitch(o)
      PROVE  RInv'
  BY <1>6, PercpuRefSwitchInv
<1>7. ASSUME NEW u \in Users, NEW o \in Ops \cup {"put"}, UserBegin(u, o) PROVE RInv'
  BY <1>7, UserBeginInv
<1>8. CASE UNCHANGED vars
  <2>1. UNCHANGED <<count, percpu_count, flags, allocated, confirm_switch, force_atomic,
                    allow_reinit, posted, cb, guards, lock, op, at, waitq, call, path, held,
                    initial, released, confirmed>>
    BY <1>8 DEF vars
  <2>2. TypeOK' /\ Percpu' = Percpu
    BY SMT, <2>1 DEF RInv, TypeOK, Percpu
  <2>3. Modes' /\ Owner' /\ Confirming'
    BY <2>1, SameControl DEF RInv, Confirming
  <2> QED BY <2>1, <2>2, <2>3, AdminInv DEF user, refs
<1> QED BY <1>1, <1>2, <1>3, <1>4, <1>5, <1>6, <1>7, <1>8 DEF Next

\* The invariant holds in every state of a behaviour.
LEMMA RInvAlways ==
  Spec => []RInv
<1> QED BY InitRInv, NextRInv, PTL DEF Spec

\* Type correctness.
THEOREM PercpuRefTypeOK ==
  Spec => []TypeOK
<1>1. RInv => TypeOK
  BY DEF RInv
<1> QED BY <1>1, RInvAlways, PTL

\* CountExact: count and the per-CPU counters add up to the references there
\* are, in both modes and during every switch, for any number of users and CPUs.
THEOREM PercpuRefCountExact ==
  Spec => []CountExact
<1>1. RInv => CountExact
  BY CountWord DEF RInv, CountsExact, CountExact
<1> QED BY <1>1, RInvAlways, PTL

\* ReleaseExact: ref->release() has been called exactly when no reference is left.
THEOREM PercpuRefReleaseExact ==
  Spec => []ReleaseExact
<1>1. RInv => ReleaseExact
  BY DEF RInv
<1> QED BY <1>1, RInvAlways, PTL

\* PercpuSafe: whoever is about to change a per-CPU counter finds it allocated and
\* not yet added up by percpu_ref_switch_to_atomic_rcu().
THEOREM PercpuRefPercpuSafe ==
  Spec => []PercpuSafe
<1>1. RInv => PercpuSafe
  <2> SUFFICES ASSUME RInv, NEW u \in Users, path[u] = "percpu" \/ cb = "percpu"
               PROVE  Percpu /\ allocated
    BY DEF PercpuSafe
  <2>1. Percpu
    BY DEF RInv, Guarded
  <2>2. allocated
    BY <2>1 DEF RInv, Modes, Percpu
  <2> QED BY <2>1, <2>2
<1> QED BY <1>1, RInvAlways, PTL

\* ConfirmedAfterSwitch: after confirm_kill no step gives a reference to a caller of
\* percpu_ref_tryget_live().
THEOREM PercpuRefConfirmed ==
  Spec => ConfirmedAfterSwitch
<1> DEFINE Refused == \A u \in Users :
                        confirmed = "rcu" /\ "DEAD" \in flags /\ call[u] = "tryget_live"
                        => held'[u] = held[u]
<1>1. ASSUME RInv, [Next]_vars PROVE Refused
  <2> SUFFICES ASSUME NEW u \in Users, confirmed = "rcu", "DEAD" \in flags, call[u] = "tryget_live"
               PROVE  held'[u] = held[u]
    OBVIOUS
  <2>1. path[u] = "atomic" /\ held \in [Users -> 0..MaxHeld] /\ held[u] \in Nat
    BY SMT, <1>1, BoundType DEF RInv, Confirming, TypeOK
  <2>2. CASE UNCHANGED held
    BY <2>2
  <2>3. ASSUME NEW v \in Users, NEW d, UserEnd(v, d), v = u => d = 0
        PROVE  held'[u] = held[u]
    <3>1. held' = [held EXCEPT ![v] = @ + d]
      BY <2>3 DEF UserEnd
    <3> QED BY SMT, <2>1, <2>3, <3>1
  <2>4. ASSUME NEW v \in Users, UserStep(v) PROVE held'[u] = held[u]
    <3>1. ASSUME NEW c \in CPUs, UserPercpu(v, c) PROVE held'[u] = held[u]
      BY <2>1, <2>3, <3>1 DEF UserPercpu
    <3>2. CASE UserTestDead(v)
      BY ZenonT(30), <2>2, <2>3, <3>2 DEF UserTestDead
    <3>3. CASE UserAtomic(v)
      BY <2>1, <2>3, <3>3 DEF UserAtomic
    <3> QED BY <2>4, <3>1, <3>2, <3>3 DEF UserStep
  <2>5. ASSUME NEW v \in Users, NEW o, UserBegin(v, o) PROVE UNCHANGED held
    BY <2>5 DEF UserBegin, refs
  <2>6. ASSUME NEW o, PercpuRefKill(o) \/ PercpuRefSwitch(o) PROVE UNCHANGED held
    BY <2>6 DEF PercpuRefKill, PercpuRefSwitch, refs
  <2>7. CASE PercpuRefResurrect \/ PercpuRefExit
    BY <2>2, <2>7 DEF PercpuRefResurrect, PercpuRefExit, refs
  <2>8. ASSUME NEW a, AdminStep(a) PROVE UNCHANGED held
    BY <2>8
       DEF AdminStep, ResurrectGet, KillPut, SwitchWait, SwitchWoken, SwitchMode, SyncWait,
           SyncWoken, SyncDone, refs
  <2>9. CASE RcuStep
    BY <2>2, <2>9 DEF RcuStep, SwitchRcu, CallConfirmRcu, ConfirmWake, ConfirmPut, refs
  <2>10. CASE UNCHANGED vars
    BY <2>2, <2>10 DEF vars
  <2> QED BY <1>1, <2>2, <2>4, <2>5, <2>6, <2>7, <2>8, <2>9, <2>10 DEF Next
<1>2. ASSUME RInv, [Next]_vars PROVE [Refused]_vars
  BY <1>1, <1>2
<1> QED BY <1>2, RInvAlways, PTL DEF Spec, ConfirmedAfterSwitch
=============================================================================
