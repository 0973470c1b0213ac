---------------------------- MODULE KlistProofs -----------------------------
(***************************************************************************)
(* Proofs about Klist for any finite set of tasks and any nodes: references*)
(* are exact, an iteration misses no node that stays, the embedding object *)
(* is held as long as its node is used, and klist_remove() neither returns *)
(* early nor sleeps for ever.                                              *)
(***************************************************************************)
EXTENDS Klist, KernelLemmas

\* Most leaves are first-order and left to Zenon; the others name SMT.
USE Zenon

\* Linking an entry makes room for it.
LEMMA InsertShape ==
  ASSUME NEW S, NEW s \in Seq(S), NEW k \in 1..(Len(s) + 1), NEW x \in S
  PROVE  /\ ListInsert(s, k, x) \in Seq(S) /\ Len(ListInsert(s, k, x)) = Len(s) + 1
         /\ \A i \in 1..(Len(s) + 1) :
              ListInsert(s, k, x)[i] = IF i < k THEN s[i] ELSE IF i = k THEN x ELSE s[i - 1]
<1> DEFINE b == SubSeq(s, 1, k - 1)
           d == b \o <<x>>
           c == SubSeq(s, k, Len(s))
           a == ListInsert(s, k, x)
<1>1. Len(s) \in Nat
  BY SMT
<1>2. b \in Seq(S) /\ Len(b) = k - 1 /\ \A i \in 1..(k - 1) : b[i] = s[i]
  BY SMT, <1>1
<1>3. c \in Seq(S) /\ Len(c) = Len(s) + 1 - k
      /\ \A i \in 1..(Len(s) + 1 - k) : c[i] = s[k + i - 1]
  BY SMT, <1>1
<1> HIDE DEF b, c
<1>4. d \in Seq(S) /\ Len(d) = k /\ d[k] = x /\ \A i \in 1..(k - 1) : d[i] = s[i]
  BY SMTT(15), <1>1, <1>2
<1>5. a = d \o c
  BY DEF ListInsert, b, c
<1> HIDE DEF d, a
<1>6. a \in Seq(S) /\ Len(a) = Len(s) + 1
  <2>1. a \in Seq(S) /\ Len(a) = Len(d) + Len(c)
    BY <1>3, <1>4, <1>5, ConcatSeq
  <2> QED BY SMT, <1>1, <1>3, <1>4, <2>1
<1>7. \A i \in 1..(Len(s) + 1) : a[i] = IF i < k THEN s[i] ELSE IF i = k THEN x ELSE s[i - 1]
  <2> TAKE i \in 1..(Len(s) + 1)
  <2>1. CASE i <= k
    <3>1. a[i] = d[i] /\ i \in 1..k
      BY SMT, <1>1, <1>3, <1>4, <1>5, <2>1
    <3> QED BY SMT, <1>4, <2>1, <3>1
  <2>2. CASE i > k
    <3>1. a[i] = c[i - k] /\ i - k \in 1..(Len(s) + 1 - k)
      BY SMTT(15), <1>1, <1>3, <1>4, <1>5, <2>2
    <3>2. k + (i - k) - 1 = i - 1
      BY SMT, <1>1
    <3> QED BY SMT, <1>3, <2>2, <3>1, <3>2
  <2> QED BY SMT, <1>1, <2>1, <2>2
<1> QED BY <1>6, <1>7 DEF a

\* The list has one entry more, still no duplicates, and the others keep their
\* order.
LEMMA InsertList ==
  ASSUME NEW S, NEW s \in Seq(S), NEW k \in 1..(Len(s) + 1), NEW x \in S,
         NoDup(s), x \notin Range(s)
  PROVE  /\ ListInsert(s, k, x) \in Seq(S)
         /\ NoDup(ListInsert(s, k, x))
         /\ Range(ListInsert(s, k, x)) = Range(s) \cup {x}
         /\ \A y, z : Precedes(s, y, z) => Precedes(ListInsert(s, k, x), y, z)
<1> DEFINE a == ListInsert(s, k, x)
           To(i) == IF i < k THEN i ELSE i + 1
<1>1. Len(s) \in Nat /\ Range(s) = {s[i] : i \in 1..Len(s)}
  BY SMT, RangeSeq
<1>2. /\ a \in Seq(S) /\ Len(a) = Len(s) + 1
      /\ \A i \in 1..(Len(s) + 1) : a[i] = IF i < k THEN s[i] ELSE IF i = k THEN x ELSE s[i - 1]
  BY SMT, InsertShape
<1> HIDE DEF a
<1>3. \A i \in 1..Len(s) : To(i) \in 1..Len(a) /\ To(i) # k /\ a[To(i)] = s[i]
  <2> TAKE i \in 1..Len(s)
  <2>1. i \in 1..(Len(s) + 1) /\ i + 1 \in 1..(Len(s) + 1) /\ (i + 1) - 1 = i
    BY SMT, <1>1
  <2>2. CASE i < k
    <3>1. To(i) = i /\ i # k /\ i \in 1..Len(a)
      BY SMT, <1>2, <2>1, <2>2
    <3> QED BY <1>2, <2>1, <2>2, <3>1
  <2>3. CASE ~(i < k)
    <3>1. To(i) = i + 1 /\ i + 1 # k /\ ~(i + 1 < k) /\ i + 1 \in 1..Len(a)
      BY SMT, <1>2, <2>1, <2>3
    <3>2. a[i + 1] = s[(i + 1) - 1]
      BY <1>2, <2>1, <3>1
    <3> QED BY <2>1, <3>1, <3>2
  <2> QED BY <2>2, <2>3
<1>4. \A i \in 1..Len(a) : i # k => \E j \in 1..Len(s) : To(j) = i
  <2> TAKE i \in 1..Len(a)
  <2> HAVE i # k
  <2>1. CASE i < k
    BY SMT, <1>1, <1>2, <2>1
  <2>2. CASE i > k
    <3>1. i - 1 \in 1..Len(s) /\ To(i - 1) = i
      BY SMT, <1>1, <1>2, <2>2
    <3> QED BY <3>1
  <2> QED BY SMT, <1>1, <1>2, <2>1, <2>2
<1>5. k \in 1..Len(a) /\ a[k] = x
  BY SMT, <1>1, <1>2
<1>6. \A i, j \in 1..Len(s) : i < j => To(i) < To(j)
  BY SMT, <1>1
<1> HIDE DEF To
<1>7. Range(a) = {a[i] : i \in 1..Len(a)}
  BY ZenonT(30), <1>2, RangeSeq
<1>8. Range(a) = Range(s) \cup {x}
  BY <1>1, <1>3, <1>4, <1>5, <1>7
<1>9. NoDup(a)
  <2> SUFFICES ASSUME NEW i \in 1..Len(a), NEW j \in 1..Len(a), a[i] = a[j] PROVE i = j
    BY DEF NoDup
  <2>1. \A h \in 1..Len(s) : s[h] # x
    BY <1>1
  <2>2. CASE i = k \/ j = k
    BY <1>3, <1>4, <1>5, <2>1, <2>2
  <2>3. CASE i # k /\ j # k
    <3>1. PICK e \in 1..Len(s), h \in 1..Len(s) : To(e) = i /\ To(h) = j
      BY <1>4, <2>3
    <3>2. s[e] = s[h]
      BY <1>3, <3>1
    <3> QED BY <3>1, <3>2 DEF NoDup
  <2> QED BY <2>2, <2>3
<1>10. ASSUME NEW y, NEW z, Precedes(s, y, z) PROVE Precedes(a, y, z)
  <2>1. PICK i \in 1..Len(s), j \in 1..Len(s) : i < j /\ s[i] = y /\ s[j] = z
    BY <1>10 DEF Precedes
  <2>2. To(i) \in 1..Len(a) /\ To(j) \in 1..Len(a) /\ To(i) < To(j) /\ a[To(i)] = y /\ a[To(j)] = z
    BY <1>3, <1>6, <2>1
  <2> QED BY <2>2 DEF Precedes
<1> QED BY <1>2, <1>8, <1>9, <1>10 DEF a
-----------------------------------------------------------------------------
\* The iterators at a node, the put() calls due for it, and an equation as a number.
Number(f, n) == Cardinality({t \in Tasks : f[t] = n})
IterAt(n) == Number(i_cur, n)
PutsOf(n) == Number(putting, n)
Eq(a, b) == IF a = b THEN 1 ELSE 0
Ne(a, b) == IF a = b THEN 0 ELSE 1

\* The type invariant but for the bound on the references.
Types ==
  /\ k_list \in Seq(Nodes) /\ NoDup(k_list)
  /\ n_klist \in [Nodes -> {"null", "klist", "dead"}]
  /\ n_ref \in [Nodes -> Int]
  /\ i_klist \in [Tasks -> {"none", "next", "prev", "end"}]
  /\ i_cur \in [Tasks -> Nodes \cup {Nil}]
  /\ pc \in [Tasks -> {"out", "add", "remove", "prepare", "test", "schedule"}]
  /\ node \in [Tasks -> Nodes \cup {Nil}]
  /\ where \in [Tasks -> Places]
  /\ waiters \in SUBSET Tasks
  /\ woken \in [Tasks -> BOOLEAN]
  /\ state \in [Tasks -> {TASK_RUNNING, TASK_UNINTERRUPTIBLE}]
  /\ putting \in [Tasks -> Nodes \cup {Nil}]
  /\ got \in [Nodes -> Int]
  /\ todo \in [Tasks -> SUBSET Nodes]

\* References and objects, with names for what they count.
Refs(n) ==
  /\ n_ref[n] = Eq(n_klist[n], "klist") + IterAt(n)
  /\ n_ref[n] = 0 <=> n_klist[n] = "null"
Objects(n) == got[n] = Ne(n_klist[n], "null") + PutsOf(n)

\* A node that is used is linked unless it is still being added.
Adding(n) == \E t \in Tasks : pc[t] = "add" /\ node[t] = n
Links(n) == n \in Linked <=> n_klist[n] # "null" /\ ~Adding(n)

\* The node a task adds or removes is its own, and so is the one it links it next
\* to, which stays.
Call(t) ==
  /\ pc[t] = "out" <=> node[t] = Nil
  /\ pc[t] = "add" => /\ n_klist[node[t]] = "klist" /\ \A u \in Tasks : i_cur[u] # node[t]
                      /\ where[t][2] # Nil => where[t][2] \in Live
  /\ pc[t] # "add" => where[t][2] = Nil
  /\ pc[t] = "remove" => n_klist[node[t]] = "klist"
  /\ putting[t] # Nil => pc[t] \in {"out", "prepare"}
Apart(t, u) ==
  pc[t] # "out" /\ pc[u] # "out" => node[t] # where[u][2] /\ (node[t] = node[u] => t = u)

\* Who removes a node is queued until it is released; then it is told.
Wait(t) ==
  /\ pc[t] \in {"out", "add"} => t \notin waiters
  /\ pc[t] = "remove" => t \in waiters /\ ~woken[t]
  /\ pc[t] \in {"prepare", "test", "schedule"} =>
       \/ woken[t] /\ t \notin waiters /\ n_klist[node[t]] = "null"
       \/ ~woken[t] /\ t \in waiters /\ n_klist[node[t]] = "dead"
  /\ pc[t] \notin {"test", "schedule"} => state[t] = TASK_RUNNING
  /\ pc[t] = "schedule" /\ woken[t] => state[t] = TASK_RUNNING

\* What an iteration has still to visit lies ahead of it.
Ahead(t) ==
  /\ i_klist[t] \in {"none", "end"} => i_cur[t] = Nil /\ todo[t] = {}
  /\ i_klist[t] \in {"next", "prev"} => todo[t] \subseteq Live \cap Beyond(i_cur[t], i_klist[t])

Inv ==
  /\ Types
  /\ \A n \in Nodes : Refs(n) /\ Objects(n) /\ Links(n)
  /\ \A t \in Tasks : Call(t) /\ Wait(t) /\ Ahead(t)
  /\ \A t, u \in Tasks : Apart(t, u)
-----------------------------------------------------------------------------
\* f and g differ at most at t.
Changes(f, g, t) == \A u \in Tasks \ {t} : g[u] = f[u]

\* The tasks with a given value of f, when one of them gets another one.
LEMMA CountMove ==
  ASSUME NEW f, NEW g, NEW t \in Tasks, Changes(f, g, t), NEW n
  PROVE  Number(g, n) = Number(f, n) + Eq(g[t], n) - Eq(f[t], n)
<1> DEFINE F == {u \in Tasks : f[u] = n}
           G == {u \in Tasks : g[u] = n}
<1>1. IsFiniteSet(F) /\ Cardinality(F) \in Nat
  BY KlistConstants, CardSubset
<1>2. CASE f[t] = n /\ g[t] = n
  <2>1. G = F
    BY <1>2 DEF Changes
  <2>2. Cardinality(F) = Cardinality(F) + 1 - 1
    BY SMT, <1>1
  <2> QED BY <1>1, <1>2, <2>1, <2>2 DEF Number, Eq
<1>3. CASE f[t] # n /\ g[t] # n
  <2>1. G = F
    BY <1>3 DEF Changes
  <2>2. Cardinality(F) = Cardinality(F) + 0 - 0
    BY SMT, <1>1
  <2> QED BY <1>1, <1>3, <2>1, <2>2 DEF Number, Eq
<1>4. CASE f[t] = n /\ g[t] # n
  <2>1. G = F \ {t} /\ t \in F
    BY SMT, <1>4 DEF Changes
  <2> HIDE DEF F, G
  <2>2. Cardinality(G) = Cardinality(F) - 1
    BY <1>1, <2>1, CardLess
  <2>3. Cardinality(G) = Cardinality(F) + 0 - 1
    BY SMT, <1>1, <2>2
  <2> QED BY <1>1, <1>4, <2>3 DEF Number, Eq, F, G
<1>5. CASE f[t] # n /\ g[t] = n
  <2>1. G = F \cup {t} /\ t \notin F
    BY <1>5 DEF Changes
  <2> HIDE DEF F, G
  <2>2. Cardinality(G) = Cardinality(F) + 1
    BY <1>1, <2>1, CardMore
  <2>3. Cardinality(G) = Cardinality(F) + 1 - 0
    BY SMT, <1>1, <2>2
  <2> QED BY <1>1, <1>5, <2>3 DEF Number, Eq, F, G
<1> QED BY <1>2, <1>3, <1>4, <1>5

\* The counts are numbers, zero when there is nothing to count.
LEMMA Numbers ==
  /\ \A n : IterAt(n) \in Nat /\ IterAt(n) <= Cardinality(Tasks)
              /\ (IterAt(n) = 0 <=> \A t \in Tasks : i_cur[t] # n)
  /\ \A n : PutsOf(n) \in Nat
  /\ Cardinality(Tasks) \in Nat
<1>1. ASSUME NEW n
      PROVE  /\ IterAt(n) \in Nat /\ IterAt(n) <= Cardinality(Tasks)
             /\ IterAt(n) = 0 <=> \A t \in Tasks : i_cur[t] # n
             /\ PutsOf(n) \in Nat /\ Cardinality(Tasks) \in Nat
  <2> DEFINE A == {t \in Tasks : i_cur[t] = n}
             B == {t \in Tasks : putting[t] = n}
  <2>1. A \in SUBSET Tasks /\ B \in SUBSET Tasks /\ (A = {} <=> \A t \in Tasks : i_cur[t] # n)
    OBVIOUS
  <2> HIDE DEF A, B
  <2> QED BY <2>1, KlistConstants, CardSubset DEF Number, IterAt, PutsOf, A, B
<1> QED BY <1>1

\* A step that moves no iterator and owes no put() leaves the counts alone.
LEMMA SameCounts ==
  /\ i_cur' = i_cur => \A n : IterAt(n)' = IterAt(n)
  /\ putting' = putting => \A n : PutsOf(n)' = PutsOf(n)
BY DEF IterAt, PutsOf

\* A step that moves an iterator, or owes or makes a put().
LEMMA MoveCounts ==
  ASSUME Types, NEW t \in Tasks, NEW b \in Nodes \cup {Nil}
  PROVE  /\ i_cur' = [i_cur EXCEPT ![t] = b] =>
              \A n : IterAt(n)' = IterAt(n) + Eq(b, n) - Eq(i_cur[t], n)
         /\ putting' = [putting EXCEPT ![t] = b] =>
              \A n : PutsOf(n)' = PutsOf(n) + Eq(b, n) - Eq(putting[t], n)
<1>1. i_cur \in [Tasks -> Nodes \cup {Nil}] /\ putting \in [Tasks -> Nodes \cup {Nil}]
  BY DEF Types
<1>2. ASSUME NEW n, i_cur' = [i_cur EXCEPT ![t] = b]
      PROVE  IterAt(n)' = IterAt(n) + Eq(b, n) - Eq(i_cur[t], n)
  <2> DEFINE g == i_cur'
  <2>1. g[t] = b /\ Changes(i_cur, g, t)
    BY <1>1, <1>2 DEF Changes
  <2> HIDE DEF g
  <2>2. Number(g, n) = Number(i_cur, n) + Eq(g[t], n) - Eq(i_cur[t], n)
    BY <2>1, CountMove
  <2> QED BY <2>1, <2>2 DEF IterAt, g
<1>3. ASSUME NEW n, putting' = [putting EXCEPT ![t] = b]
      PROVE  PutsOf(n)' = PutsOf(n) + Eq(b, n) - Eq(putting[t], n)
  <2> DEFINE g == putting'
  <2>1. g[t] = b /\ Changes(putting, g, t)
    BY <1>1, <1>3 DEF Changes
  <2> HIDE DEF g
  <2>2. Number(g, n) = Number(putting, n) + Eq(g[t], n) - Eq(putting[t], n)
    BY <2>1, CountMove
  <2> QED BY <2>1, <2>2 DEF PutsOf, g
<1> QED BY <1>2, <1>3

\* What the invariant gives.
LEMMA InvTells ==
  ASSUME Inv
  PROVE  TypeOK /\ RefExact /\ ObjectHeld /\ IterationComplete /\ NoLostWakeup
<1>1. ASSUME NEW n \in Nodes
      PROVE  /\ n_ref[n] \in 0..(Cardinality(Tasks) + 1) /\ got[n] \in Nat
             /\ n_ref[n] > 0 <=> n_klist[n] # "null"
  <2>1. /\ n_ref[n] = Eq(n_klist[n], "klist") + IterAt(n)
        /\ n_ref[n] = 0 <=> n_klist[n] = "null"
        /\ got[n] = Ne(n_klist[n], "null") + PutsOf(n)
    BY DEF Inv, Refs, Objects
  <2>2. /\ IterAt(n) \in Nat /\ IterAt(n) <= Cardinality(Tasks) /\ PutsOf(n) \in Nat
        /\ Cardinality(Tasks) \in Nat
    BY Numbers
  <2>3. Eq(n_klist[n], "klist") \in 0..1 /\ Ne(n_klist[n], "null") \in 0..1
    BY SMT DEF Eq, Ne
  <2> QED BY SMT, <2>1, <2>2, <2>3
<1>2. TypeOK
  <2>1. n_ref \in [Nodes -> 0..(Cardinality(Tasks) + 1)] /\ got \in [Nodes -> Nat]
    BY <1>1 DEF Inv, Types
  <2> QED BY <2>1 DEF Inv, Types, TypeOK
<1>3. RefExact
  BY <1>1 DEF Inv, Refs, Links, Adding, RefExact, Eq, IterAt, Number
<1>4. ObjectHeld
  BY DEF Inv, Objects, ObjectHeld, Ne, PutsOf, Number
<1>5. IterationComplete
  BY DEF Inv, Ahead, IterationComplete
<1>6. NoLostWakeup
  <2> SUFFICES ASSUME NEW t \in Tasks, pc[t] = "schedule", state[t] = TASK_UNINTERRUPTIBLE
               PROVE  \E u \in Tasks : i_cur[u] = node[t]
    BY DEF NoLostWakeup
  <2>1. node[t] \in Nodes /\ n_klist[node[t]] = "dead"
    <3>1. Types /\ Call(t) /\ Wait(t)
      BY DEF Inv
    <3>2. node[t] \in Nodes
      BY <3>1 DEF Types, Call
    <3> QED BY <3>1, <3>2 DEF Wait, TASK_RUNNING, TASK_UNINTERRUPTIBLE
  <2>2. n_ref[node[t]] # 0 /\ n_ref[node[t]] = 0 + IterAt(node[t])
    BY <2>1 DEF Inv, Refs, Eq
  <2>3. IterAt(node[t]) \in Nat
    BY Numbers
  <2>4. IterAt(node[t]) # 0
    BY SMT, <2>2, <2>3
  <2> QED BY <2>4, Numbers
<1> QED BY <1>2, <1>3, <1>4, <1>5, <1>6
-----------------------------------------------------------------------------
\* What klist_release() does when it is called for a node.
Release(n) ==
  /\ k_list' = list_del(k_list, n)
  /\ waiters' = waiters \ WaitersFor(n)
  /\ woken' = [t \in Tasks |-> woken[t] \/ t \in WaitersFor(n)]
  /\ state' = [t \in Tasks |-> IF t \in WaitersFor(n) THEN TASK_RUNNING ELSE state[t]]

\* The node leaves, the others keep their order, and its waiters are told.
LEMMA ReleaseStep ==
  ASSUME Types, NEW n \in Linked, Release(n)
  PROVE  /\ k_list' \in Seq(Nodes) /\ NoDup(k_list') /\ Linked' = Linked \ {n}
         /\ \A y, z : Precedes(k_list, y, z) /\ y # n /\ z # n => Precedes(k_list', y, z)
         /\ waiters' \in SUBSET Tasks /\ woken' \in [Tasks -> BOOLEAN]
         /\ state' \in [Tasks -> {TASK_RUNNING, TASK_UNINTERRUPTIBLE}]
         /\ \A u \in Tasks :
              IF u \in waiters /\ node[u] = n
              THEN u \notin waiters' /\ woken'[u] /\ state'[u] = TASK_RUNNING
              ELSE /\ u \in waiters' <=> u \in waiters
                   /\ woken'[u] <=> woken[u]
                   /\ state'[u] = state[u]
<1>1. k_list \in Seq(Nodes) /\ NoDup(k_list) /\ n \in Range(k_list)
  BY DEF Types, Linked
<1>2. k_list' \in Seq(Nodes) /\ NoDup(k_list') /\ Linked' = Linked \ {n}
  BY <1>1, DelList DEF Release, Linked
<1>3. \A y, z : Precedes(k_list, y, z) /\ y # n /\ z # n => Precedes(k_list', y, z)
  BY <1>1, DelOrder DEF Release
<1>4. waiters' \in SUBSET Tasks /\ woken' \in [Tasks -> BOOLEAN]
      /\ state' \in [Tasks -> {TASK_RUNNING, TASK_UNINTERRUPTIBLE}]
  BY DEF Types, Release
<1>5. \A u \in Tasks :
        IF u \in waiters /\ node[u] = n
        THEN u \notin waiters' /\ woken'[u] /\ state'[u] = TASK_RUNNING
        ELSE /\ u \in waiters' <=> u \in waiters
             /\ woken'[u] <=> woken[u]
             /\ state'[u] = state[u]
  BY DEF Release, WaitersFor
<1> QED BY <1>2, <1>3, <1>4, <1>5

\* klist_put() and klist_next() call it for the last reference only.
LEMMA ReleaseCases ==
  ASSUME Types, NEW n, NEW c, KlistRelease(n, c = 1)
  PROVE  (c = 1 /\ Release(n)) \/ (c # 1 /\ UNCHANGED <<k_list, sleep>>)
<1>1. CASE c = 1
  BY <1>1 DEF KlistRelease, Release
<1>2. CASE c # 1
  <2>1. woken' = woken /\ state' = state /\ waiters' = waiters /\ k_list' = k_list
    BY <1>2 DEF KlistRelease, Types
  <2> QED BY <1>2, <2>1 DEF sleep
<1> QED BY <1>1, <1>2

\* Entries are linked in one order.
LEMMA NotItself ==
  ASSUME Types, NEW n
  PROVE  ~Precedes(k_list, n, n)
<1>1. \A i, j \in 1..Len(k_list) : i < j => i # j
  BY SMT
<1> QED BY <1>1 DEF Types, NoDup, Precedes

\* A live node is linked, and it is a node.
LEMMA LinkedNodes ==
  ASSUME Types
  PROVE  Linked \subseteq Nodes /\ Live \subseteq Linked
BY RangeSeq DEF Types, Linked, Live

\* No task begins or ends to add.
SameAdding ==
  \A u \in Tasks : /\ pc'[u] = "add" <=> pc[u] = "add"
                   /\ pc[u] = "add" => node'[u] = node[u]

\* A node is unlinked exactly when it stops being used.
LEMMA KeepLinks ==
  ASSUME NEW n \in Nodes, Links(n), SameAdding,
         n \in Linked' <=> n \in Linked /\ n_klist'[n] # "null",
         n \notin Linked => n_klist'[n] = n_klist[n]
  PROVE  Links(n)'
<1>1. Adding(n)' <=> Adding(n)
  BY DEF SameAdding, Adding
<1> QED BY <1>1 DEF Links

\* No iterator comes to a node that is being added when none moves.
LEMMA NobodyAtAdded ==
  ASSUME NEW u \in Tasks, Call(u), i_cur' = i_cur
  PROVE  pc[u] = "add" => \A v \in Tasks : i_cur'[v] # node[u]
<1>1. pc[u] = "add" => \A v \in Tasks : i_cur[v] # node[u]
  BY DEF Call
<1> QED BY <1>1

\* A task keeps the nodes it adds, removes or links next to if they live on, and no
\* iterator comes to one that is not linked.
LEMMA KeepCall ==
  ASSUME NEW t \in Tasks, Call(t),
         pc'[t] = pc[t] /\ node'[t] = node[t] /\ where'[t] = where[t],
         putting'[t] # Nil => putting[t] = putting'[t],
         pc[t] = "add" => \A u \in Tasks : i_cur'[u] # node[t],
         pc[t] # "out" => /\ n_klist[node[t]] = "klist" => n_klist'[node[t]] = "klist"
                          /\ where[t][2] \in Live => where[t][2] \in Live'
  PROVE  Call(t)'
BY DEF Call

\* A removing task sleeps on: its node's state is what it was.
LEMMA KeepWait ==
  ASSUME NEW t \in Tasks, Wait(t), pc'[t] = pc[t], node'[t] = node[t],
         pc[t] # "out" => n_klist'[node[t]] = n_klist[node[t]],
         t \in waiters' <=> t \in waiters, woken'[t] <=> woken[t], state'[t] = state[t]
  PROVE  Wait(t)'
BY DEF Wait

\* An iteration goes on if its node and those it has to visit stay in order.
LEMMA KeepAhead ==
  ASSUME NEW t \in Tasks, Ahead(t), Types, i_klist'[t] = i_klist[t], i_cur'[t] = i_cur[t],
         todo'[t] \subseteq todo[t], todo'[t] \subseteq Live',
         \A m \in todo'[t] : /\ Precedes(k_list, m, i_cur[t]) => Precedes(k_list', m, i_cur[t])
                             /\ Precedes(k_list, i_cur[t], m) => Precedes(k_list', i_cur[t], m)
  PROVE  Ahead(t)'
<1>1. CASE i_klist[t] \in {"none", "end"}
  BY <1>1 DEF Ahead
<1>2. CASE i_klist[t] \in {"next", "prev"}
  <2>1. todo[t] \subseteq Beyond(i_cur[t], i_klist[t])
    BY <1>2 DEF Ahead
  <2>2. ASSUME NEW m \in todo'[t] PROVE m \in Beyond(i_cur[t], i_klist[t])'
    <3>1. m \in Linked'
      BY DEF Live
    <3> QED BY <2>1, <3>1 DEF Beyond
  <2> QED BY <1>2, <2>2 DEF Ahead
<1> QED BY <1>1, <1>2 DEF Types
-----------------------------------------------------------------------------
\* What a task that has work to do with a node means for the others.
Mine(t, n) == \A u \in Tasks \ {t} : pc[u] # "out" => n # node[u] /\ n # where[u][2]

\* The invariant in the parts that the steps below establish one by one.
LEMMA Assemble ==
  ASSUME Types', \A n \in Nodes : Refs(n)' /\ Objects(n)' /\ Links(n)',
         \A t \in Tasks : Call(t)' /\ Wait(t)' /\ Ahead(t)',
         \A t, u \in Tasks : Apart(t, u)'
  PROVE  Inv'
BY DEF Inv

\* The calls are apart when no node is taken up by a second one.
LEMMA KeepApart ==
  ASSUME \A t, u \in Tasks : Apart(t, u),
         \A t \in Tasks : \/ pc'[t] = "out"
                          \/ /\ pc[t] # "out" /\ node'[t] = node[t]
                             /\ where'[t] = where[t]
  PROVE  \A t, u \in Tasks : Apart(t, u)'
<1> SUFFICES ASSUME NEW t \in Tasks, NEW u \in Tasks, pc'[t] # "out", pc'[u] # "out"
             PROVE  node'[t] # where'[u][2] /\ (node'[t] = node'[u] => t = u)
  BY ZenonT(30) DEF Apart
<1>1. pc[t] # "out" /\ pc[u] # "out" /\ node'[t] = node[t] /\ node'[u] = node[u]
      /\ where'[u][2] = where[u][2]
  OBVIOUS
<1>2. node[t] # where[u][2] /\ (node[t] = node[u] => t = u)
  BY <1>1 DEF Apart
<1> QED BY <1>1, <1>2

\* References of a node that nothing happens to.
LEMMA KeepRefs ==
  ASSUME NEW n \in Nodes, Refs(n), n_ref'[n] = n_ref[n], n_klist'[n] = n_klist[n],
         IterAt(n)' = IterAt(n)
  PROVE  Refs(n)'
BY DEF Refs, Eq

\* The object of a node that nothing happens to.
LEMMA KeepObjects ==
  ASSUME NEW n \in Nodes, Objects(n), got'[n] = got[n], n_klist'[n] = n_klist[n],
         PutsOf(n)' = PutsOf(n)
  PROVE  Objects(n)'
BY DEF Objects, Ne

\* A live node with one reference has no iterator at it, and one with none is free.
LEMMA LastReference ==
  ASSUME Inv, NEW n \in Nodes
  PROVE  /\ n_ref[n] \in Nat
         /\ n_klist[n] = "klist" => n_ref[n] = IterAt(n) + 1
         /\ n_klist[n] # "klist" => n_ref[n] = IterAt(n)
         /\ n_klist[n] = "klist" /\ n_ref[n] = 1 => \A u \in Tasks : i_cur[u] # n
         /\ \A u \in Tasks : i_cur[u] = n => n_ref[n] > 0 /\ n \in Linked
         /\ \A u \in Tasks : i_cur[u] = n /\ n_klist[n] = "klist" => n_ref[n] > 1
         /\ n_ref[n] > 0 <=> n_klist[n] # "null"
<1>1. Refs(n) /\ IterAt(n) \in Nat /\ (IterAt(n) = 0 <=> \A u \in Tasks : i_cur[u] # n)
  BY Numbers DEF Inv
<1>2. CASE n_klist[n] = "klist"
  <2>1. n_ref[n] = 1 + IterAt(n)
    BY <1>1, <1>2 DEF Refs, Eq
  <2>2. /\ n_ref[n] \in Nat /\ n_ref[n] = IterAt(n) + 1 /\ n_ref[n] > 0
        /\ n_ref[n] = 1 => IterAt(n) = 0
        /\ IterAt(n) # 0 => n_ref[n] > 1
    BY SMT, <1>1, <2>1
  <2>3. ASSUME NEW u \in Tasks, i_cur[u] = n PROVE n \in Linked
    <3>1. ~Adding(n)
      BY <2>3 DEF Inv, Call, Adding
    <3> QED BY <3>1, <1>2 DEF Inv, Links
  <2> QED BY <1>1, <1>2, <2>2, <2>3
<1>3. CASE n_klist[n] # "klist"
  <2>1. n_ref[n] = 0 + IterAt(n)
    BY <1>1, <1>3 DEF Refs, Eq
  <2>2. /\ n_ref[n] \in Nat /\ n_ref[n] = IterAt(n)
        /\ n_ref[n] > 0 <=> n_ref[n] # 0
    BY SMT, <1>1, <2>1
  <2>3. ASSUME NEW u \in Tasks, i_cur[u] = n PROVE n \in Linked
    <3>1. ~Adding(n)
      BY <2>3 DEF Inv, Call, Adding
    <3>2. n_klist[n] # "null"
      BY <1>1, <2>2, <2>3 DEF Refs
    <3> QED BY <3>1, <3>2 DEF Inv, Links
  <2> QED BY <1>1, <1>3, <2>2, <2>3 DEF Refs
<1> QED BY <1>2, <1>3

\* klist_del(): the node is dead at once, and it is released if no iterator is at it.
LEMMA KillStep ==
  ASSUME Inv, NEW t \in Tasks, NEW n \in Nodes, n \in Live, Mine(t, n), putting[t] = Nil,
         KlistPut(t, n, TRUE), Excuse(n), UNCHANGED <<i_klist, i_cur, adds, got>>,
         \/ pc[t] = "out" /\ pc' = pc
         \/ pc[t] = "remove" /\ node[t] = n /\ pc' = [pc EXCEPT ![t] = "prepare"]
  PROVE  Inv'
<1> USE DEF Mine
<1>1. /\ Types /\ n \in Linked /\ n_klist[n] = "klist" /\ n_ref[n] \in Nat
      /\ n_ref[n] = IterAt(n) + 1 /\ ~Adding(n) /\ IterAt(n) \in Nat
  BY LastReference, Numbers DEF Inv, Live, Links
<1>2. /\ node' = node /\ where' = where /\ i_klist' = i_klist /\ i_cur' = i_cur /\ got' = got
      /\ \A u \in Tasks \ {t} : pc'[u] = pc[u]
      /\ pc' \in [Tasks -> {"out", "add", "remove", "prepare", "test", "schedule"}]
      /\ \A u \in Tasks : pc'[u] = "add" <=> pc[u] = "add"
      /\ todo' = [u \in Tasks |-> todo[u] \ {n}] /\ todo' \in [Tasks -> SUBSET Nodes]
      /\ \A u \in Tasks : todo'[u] = todo[u] \ {n}
  BY <1>1 DEF Types, adds, Excuse
<1>3. /\ n_ref' = [n_ref EXCEPT ![n] = @ - 1] /\ n_ref[n] - 1 \in Int
      /\ n_ref' \in [Nodes -> Int] /\ n_ref'[n] = n_ref[n] - 1 /\ n_ref'[n] = IterAt(n)
      /\ \A m \in Nodes \ {n} : n_ref'[m] = n_ref[m]
  BY SMT, <1>1 DEF KlistPut, Types
<1>4. \/ /\ n_ref[n] = 1 /\ Release(n) /\ n_klist' = [n_klist EXCEPT ![n] = "null"]
         /\ putting' = [putting EXCEPT ![t] = n]
      \/ /\ n_ref[n] # 1 /\ UNCHANGED <<k_list, sleep>>
         /\ n_klist' = [n_klist EXCEPT ![n] = "dead"]
         /\ putting' = [putting EXCEPT ![t] = Nil]
  <2>1. KlistRelease(n, n_ref[n] = 1)
    BY DEF KlistPut
  <2> DEFINE c == n_ref[n]
  <2>2. (c = 1 /\ Release(n)) \/ (c # 1 /\ UNCHANGED <<k_list, sleep>>)
    BY <1>1, <2>1, ReleaseCases
  <2> QED BY <2>2 DEF KlistPut
<1>5. /\ n_klist' \in [Nodes -> {"null", "klist", "dead"}]
      /\ \A m \in Nodes \ {n} : n_klist'[m] = n_klist[m]
      /\ putting' \in [Tasks -> Nodes \cup {Nil}]
      /\ \A u \in Tasks \ {t} : putting'[u] = putting[u]
  <2>1. /\ n_klist \in [Nodes -> {"null", "klist", "dead"}]
        /\ putting \in [Tasks -> Nodes \cup {Nil}]
    BY <1>1 DEF Types
  <2>2. CASE n_klist' = [n_klist EXCEPT ![n] = "null"]
             /\ putting' = [putting EXCEPT ![t] = n]
    BY SMT, <2>1, <2>2
  <2>3. CASE n_klist' = [n_klist EXCEPT ![n] = "dead"]
             /\ putting' = [putting EXCEPT ![t] = Nil]
    BY SMT, <2>1, <2>3
  <2> QED BY <1>4, <2>2, <2>3
<1>6. /\ k_list' \in Seq(Nodes) /\ NoDup(k_list')
      /\ \A m \in Nodes : m \in Linked' <=> m \in Linked /\ n_klist'[m] # "null"
      /\ \A y, z : Precedes(k_list, y, z) /\ y # n /\ z # n => Precedes(k_list', y, z)
      /\ waiters' \in SUBSET Tasks /\ woken' \in [Tasks -> BOOLEAN]
      /\ state' \in [Tasks -> {TASK_RUNNING, TASK_UNINTERRUPTIBLE}]
      /\ \A u \in Tasks \ {t} : /\ u \in waiters' <=> u \in waiters
                                /\ woken'[u] <=> woken[u]
                                /\ state'[u] = state[u]
  <2>0. \A m \in Nodes \ {n} : m \in Linked => n_klist'[m] # "null"
    BY <1>5 DEF Inv, Links
  <2>1. CASE /\ n_ref[n] = 1 /\ Release(n) /\ n_klist' = [n_klist EXCEPT ![n] = "null"]
             /\ putting' = [putting EXCEPT ![t] = n]
    <3>1. n_klist'[n] = "null"
      BY <1>1, <2>1 DEF Types
    <3>2. ASSUME NEW u \in Tasks \ {t} PROVE ~(u \in waiters /\ node[u] = n)
      BY DEF Inv, Wait
    <3>3. /\ k_list' \in Seq(Nodes) /\ NoDup(k_list') /\ Linked' = Linked \ {n}
          /\ \A y, z : Precedes(k_list, y, z) /\ y # n /\ z # n => Precedes(k_list', y, z)
          /\ waiters' \in SUBSET Tasks /\ woken' \in [Tasks -> BOOLEAN]
          /\ state' \in [Tasks -> {TASK_RUNNING, TASK_UNINTERRUPTIBLE}]
      BY <1>1, <2>1, ReleaseStep
    <3>4. ASSUME NEW u \in Tasks \ {t}
          PROVE  /\ u \in waiters' <=> u \in waiters
                 /\ woken'[u] <=> woken[u]
                 /\ state'[u] = state[u]
      BY <1>1, <2>1, <3>2, ReleaseStep
    <3>5. ASSUME NEW m \in Nodes
          PROVE  m \in Linked' <=> m \in Linked /\ n_klist'[m] # "null"
      BY <2>0, <3>1, <3>3
    <3> QED BY <3>3, <3>4, <3>5
  <2>2. CASE /\ n_ref[n] # 1 /\ UNCHANGED <<k_list, sleep>>
             /\ n_klist' = [n_klist EXCEPT ![n] = "dead"]
             /\ putting' = [putting EXCEPT ![t] = Nil]
    <3>1. n_klist'[n] = "dead" /\ k_list' = k_list /\ waiters' = waiters /\ woken' = woken
          /\ state' = state
      BY <1>1, <2>2 DEF Types, sleep
    <3> QED BY <1>1, <2>0, <3>1 DEF Types, Linked
  <2> QED BY <1>4, <2>1, <2>2
<1>7. Types'
  <2>1. /\ i_klist' \in [Tasks -> {"none", "next", "prev", "end"}]
        /\ i_cur' \in [Tasks -> Nodes \cup {Nil}]
        /\ node' \in [Tasks -> Nodes \cup {Nil}] /\ where' \in [Tasks -> Places]
        /\ got' \in [Nodes -> Int]
    BY <1>1, <1>2 DEF Types
  <2> QED BY <1>2, <1>3, <1>5, <1>6, <2>1 DEF Types
<1>8. ASSUME NEW m \in Nodes PROVE Refs(m)'
  <2>1. IterAt(m)' = IterAt(m)
    BY <1>2, SameCounts
  <2>2. CASE m # n
    BY <1>3, <1>5, <2>1, <2>2, KeepRefs DEF Inv
  <2>3. CASE m = n
    <3>1. n_klist'[n] # "klist" /\ (n_klist'[n] = "null" <=> n_ref[n] = 1)
      BY <1>1, <1>4 DEF Types
    <3>2. n_ref'[n] = 0 + IterAt(n)' /\ (n_ref'[n] = 0 <=> n_ref[n] = 1)
      BY SMT, <1>1, <1>3, <2>1, <2>3
    <3> QED BY <2>3, <3>1, <3>2 DEF Refs, Eq
  <2> QED BY <2>2, <2>3
<1>9. ASSUME NEW m \in Nodes PROVE Objects(m)'
  <2>0. Nil \notin Nodes /\ PutsOf(m) \in Nat /\ Objects(m)
    BY KlistConstants, Numbers DEF Inv
  <2>1. CASE /\ n_ref[n] = 1 /\ Release(n) /\ n_klist' = [n_klist EXCEPT ![n] = "null"]
             /\ putting' = [putting EXCEPT ![t] = n]
    <3>0. n \in Nodes \cup {Nil} /\ putting' = [putting EXCEPT ![t] = n]
      BY <2>1
    <3>1. PutsOf(m)' = PutsOf(m) + Eq(n, m) - Eq(putting[t], m)
      BY ZenonT(30), <1>1, <3>0, MoveCounts
    <3>2. CASE m # n
      <4>1. PutsOf(m)' = PutsOf(m) + 0 - 0
        BY <3>1, <3>2, <2>0 DEF Eq
      <4>2. PutsOf(m)' = PutsOf(m)
        BY SMT, <4>1, <2>0
      <4> QED BY <1>2, <1>5, <2>0, <3>2, <4>2, KeepObjects
    <3>3. CASE m = n
      <4>1. PutsOf(m)' = PutsOf(m) + 1 - 0
        BY <3>1, <3>3, <2>0 DEF Eq
      <4>2. got[n] = 1 + PutsOf(n)
        BY <1>1, <2>0, <3>3 DEF Objects, Ne
      <4>3. got[n] = 0 + PutsOf(n)'
        BY SMT, <4>1, <4>2, <2>0, <3>3
      <4>4. n_klist'[n] = "null"
        BY <1>1, <2>1 DEF Types
      <4> QED BY <1>2, <3>3, <4>3, <4>4 DEF Objects, Ne
    <3> QED BY <3>2, <3>3
  <2>2. CASE /\ n_ref[n] # 1 /\ UNCHANGED <<k_list, sleep>>
             /\ n_klist' = [n_klist EXCEPT ![n] = "dead"]
             /\ putting' = [putting EXCEPT ![t] = Nil]
    <3>1. putting' = putting
      BY <1>1, <2>2 DEF Types
    <3>2. PutsOf(m)' = PutsOf(m)
      BY <3>1, SameCounts
    <3>3. n_klist'[m] = "null" <=> n_klist[m] = "null"
      BY <1>1, <2>2 DEF Types
    <3> QED BY <1>2, <2>0, <3>2, <3>3 DEF Objects, Ne
  <2> QED BY <1>4, <2>1, <2>2
<1>10. ASSUME NEW m \in Nodes PROVE Links(m)'
  <2>1. Links(m) /\ SameAdding
    BY <1>2 DEF Inv, SameAdding
  <2> QED BY <1>1, <1>5, <1>6, <2>1, KeepLinks
<1>11. ASSUME NEW m \in Live, m # n PROVE m \in Live'
  <2>1. m \in Nodes /\ n_klist[m] = "klist" /\ m \in Linked
    BY <1>1, LinkedNodes DEF Live
  <2> QED BY <1>5, <1>6, <1>11, <2>1 DEF Live
<1>12. ASSUME NEW u \in Tasks PROVE Call(u)'
  <2>1. Call(u) /\ Call(t)
    BY DEF Inv
  <2>2. CASE u # t
    <3>1. pc[u] # "out" => n # node[u] /\ n # where[u][2] /\ node[u] \in Nodes
      BY <1>1, <2>1, <2>2 DEF Call, Types
    <3>2. pc'[u] = pc[u] /\ node'[u] = node[u] /\ where'[u] = where[u]
          /\ (putting'[u] # Nil => putting[u] = putting'[u])
          /\ i_cur' = i_cur /\ (pc[u] = "add" => \A v \in Tasks : i_cur[v] # node[u])
      BY <1>2, <1>5, <2>1, <2>2 DEF Call
    <3>3. pc[u] # "out" => /\ n_klist[node[u]] = "klist" => n_klist'[node[u]] = "klist"
                           /\ where[u][2] \in Live => where[u][2] \in Live'
      BY <1>5, <1>11, <3>1
    <3> QED BY <2>1, <3>2, <3>3, KeepCall
  <2>3. CASE u = t
    <3>1. pc[t] # "add" /\ pc'[t] # "add" /\ (pc'[t] = "out" <=> pc[t] = "out")
          /\ pc'[t] \in {"out", "prepare"}
      BY <1>1 DEF Types
    <3> QED BY <1>2, <2>1, <2>3, <3>1 DEF Call
  <2> QED BY <2>2, <2>3
<1>13. ASSUME NEW u \in Tasks PROVE Wait(u)'
  <2>1. Wait(u) /\ Call(u)
    BY DEF Inv
  <2>2. CASE u # t
    <3>1. pc[u] # "out" => n # node[u] /\ node[u] \in Nodes
      BY <1>1, <2>1, <2>2 DEF Call, Types
    <3>2. pc'[u] = pc[u] /\ node'[u] = node[u]
          /\ (pc[u] # "out" => n_klist'[node[u]] = n_klist[node[u]])
      BY <1>2, <1>5, <2>2, <3>1
    <3> QED BY <1>6, <2>1, <2>2, <3>2, KeepWait
  <2>3. CASE u = t
    <3>1. CASE /\ n_ref[n] = 1 /\ Release(n) /\ n_klist' = [n_klist EXCEPT ![n] = "null"]
               /\ putting' = [putting EXCEPT ![t] = n]
      <4>1. IF t \in waiters /\ node[t] = n
            THEN t \notin waiters' /\ woken'[t] /\ state'[t] = TASK_RUNNING
            ELSE /\ t \in waiters' <=> t \in waiters
                 /\ woken'[t] <=> woken[t]
                 /\ state'[t] = state[t]
        BY <1>1, <3>1, ReleaseStep
      <4>2. n_klist'[n] = "null"
        BY <1>1, <3>1 DEF Types
      <4>3. CASE pc[t] = "out" /\ pc' = pc
        BY <2>1, <2>3, <4>1, <4>3 DEF Wait
      <4>4. CASE pc[t] = "remove" /\ node[t] = n /\ pc' = [pc EXCEPT ![t] = "prepare"]
        <5>1. pc'[t] = "prepare"
          BY <1>1, <4>4 DEF Types
        <5> QED BY <1>2, <2>1, <2>3, <4>1, <4>2, <4>4, <5>1 DEF Wait
      <4> QED BY <4>3, <4>4
    <3>2. CASE /\ n_ref[n] # 1 /\ UNCHANGED <<k_list, sleep>>
               /\ n_klist' = [n_klist EXCEPT ![n] = "dead"]
               /\ putting' = [putting EXCEPT ![t] = Nil]
      <4>1. n_klist'[n] = "dead" /\ waiters' = waiters /\ woken' = woken /\ state' = state
        BY <1>1, <3>2 DEF Types, sleep
      <4>3. CASE pc[t] = "out" /\ pc' = pc
        BY <2>1, <2>3, <4>1, <4>3 DEF Wait
      <4>4. CASE pc[t] = "remove" /\ node[t] = n /\ pc' = [pc EXCEPT ![t] = "prepare"]
        <5>1. pc'[t] = "prepare"
          BY <1>1, <4>4 DEF Types
        <5> QED BY <1>2, <2>1, <2>3, <4>1, <4>4, <5>1 DEF Wait
      <4> QED BY <4>3, <4>4
    <3> QED BY <1>4, <3>1, <3>2
  <2> QED BY <2>2, <2>3
<1>14. ASSUME NEW u \in Tasks PROVE Ahead(u)'
  <2>1. Ahead(u) /\ todo[u] \subseteq Live
    BY <1>1 DEF Inv, Ahead, Types
  <2>2. todo'[u] \subseteq todo[u] /\ todo'[u] \subseteq Live'
    BY <1>2, <1>11, <2>1
  <2>3. CASE i_cur[u] # n
    <3>1. \A m \in todo'[u] :
             /\ Precedes(k_list, m, i_cur[u]) => Precedes(k_list', m, i_cur[u])
             /\ Precedes(k_list, i_cur[u], m) => Precedes(k_list', i_cur[u], m)
      BY <1>2, <1>6, <2>3
    <3> QED BY <1>1, <1>2, <2>1, <2>2, <3>1, KeepAhead
  <2>4. CASE i_cur[u] = n
    <3>1. n_ref[n] # 1
      BY <1>1, <2>4, LastReference
    <3>2. k_list' = k_list
      BY <1>4, <3>1
    <3> QED BY <1>1, <1>2, <2>1, <2>2, <3>2, KeepAhead
  <2> QED BY <2>3, <2>4
<1>15. \A u, v \in Tasks : Apart(u, v)'
  <2>1. \A u \in Tasks : \/ pc'[u] = "out"
                         \/ /\ pc[u] # "out" /\ node'[u] = node[u]
                            /\ where'[u] = where[u]
    BY <1>2
  <2> QED BY <2>1, KeepApart DEF Inv
<1> QED BY <1>7, <1>8, <1>9, <1>10, <1>12, <1>13, <1>14, <1>15, Assemble

\* Nothing has a value that is counted zero times.
LEMMA NumberZero ==
  ASSUME NEW f, NEW n
  PROVE  Number(f, n) = 0 <=> \A t \in Tasks : f[t] # n
<1> DEFINE A == {t \in Tasks : f[t] = n}
<1>1. A \in SUBSET Tasks /\ (A = {} <=> \A t \in Tasks : f[t] # n)
  OBVIOUS
<1> HIDE DEF A
<1>2. Cardinality(A) = 0 <=> A = {}
  BY <1>1, KlistConstants, CardSubset
<1> QED BY <1>1, <1>2 DEF Number, A

\* An iterator moves from its node to a live one, or to none: klist_next(),
\* klist_prev() and klist_iter_exit().
Leaves(n) == n \in Nodes /\ n_ref[n] = 1
Leave(t, next) ==
  /\ next # Nil => next \in Live /\ next # i_cur[t]
  /\ n_ref' \in [Nodes -> Int]
  /\ \A m \in Nodes : n_ref'[m] = n_ref[m] + Eq(next, m) - Eq(i_cur[t], m)
  /\ i_cur' = [i_cur EXCEPT ![t] = next]
  /\ i_klist' \in [Tasks -> {"none", "next", "prev", "end"}]
  /\ todo' \in [Tasks -> SUBSET Nodes]
  /\ \A u \in Tasks \ {t} : i_klist'[u] = i_klist[u] /\ todo'[u] = todo[u]
  /\ \/ i_klist'[t] \in {"none", "end"} /\ next = Nil /\ todo'[t] = {}
     \/ /\ i_klist'[t] \in {"next", "prev"} /\ next # Nil
        /\ todo'[t] \subseteq Live \cap Beyond(next, i_klist'[t])
  /\ UNCHANGED <<pc, adds, got>>
  /\ \/ /\ Leaves(i_cur[t]) /\ Release(i_cur[t])
        /\ n_klist' = [n_klist EXCEPT ![i_cur[t]] = "null"]
        /\ putting' = [putting EXCEPT ![t] = i_cur[t]]
     \/ ~Leaves(i_cur[t]) /\ UNCHANGED <<k_list, sleep, n_klist, putting>>

\* The node it leaves goes with its last iterator, if it was deleted meanwhile.
LEMMA LeaveStep ==
  ASSUME Inv, NEW t \in Tasks, NEW next \in Nodes \cup {Nil}, Ready(t), Leave(t, next)
  PROVE  Inv'
<1> DEFINE n == i_cur[t]
<1>1. /\ Types /\ pc[t] = "out" /\ putting[t] = Nil /\ n \in Nodes \cup {Nil}
      /\ Nil \notin Nodes /\ node[t] = Nil
      /\ next # Nil => next \in Live /\ next # n
  BY KlistConstants DEF Inv, Ready, Leave, Types, Call
<1>2. /\ pc' = pc /\ node' = node /\ where' = where /\ got' = got
      /\ n_ref' \in [Nodes -> Int]
      /\ \A m \in Nodes : n_ref'[m] = n_ref[m] + Eq(next, m) - Eq(n, m)
      /\ i_cur' = [i_cur EXCEPT ![t] = next]
      /\ i_klist' \in [Tasks -> {"none", "next", "prev", "end"}]
      /\ todo' \in [Tasks -> SUBSET Nodes]
      /\ \A u \in Tasks \ {t} : i_klist'[u] = i_klist[u] /\ todo'[u] = todo[u]
  BY DEF Leave, adds
<1>3. /\ i_cur' \in [Tasks -> Nodes \cup {Nil}] /\ i_cur'[t] = next
      /\ \A u \in Tasks \ {t} : i_cur'[u] = i_cur[u]
  BY <1>1, <1>2 DEF Types
<1>4. Leaves(n) => n \in Linked /\ n_klist[n] = "dead" /\ n \notin Live
  <2> SUFFICES ASSUME Leaves(n) PROVE n \in Linked /\ n_klist[n] = "dead"
    BY DEF Live
  <2>1. n \in Nodes /\ n_ref[n] = 1 /\ ~(1 > 1) /\ 1 > 0
    BY SMT DEF Leaves
  <2>2. n \in Linked /\ n_klist[n] # "klist" /\ n_klist[n] # "null"
    BY <2>1, LastReference
  <2> QED BY <1>1, <2>1, <2>2 DEF Types
<1>5. \/ /\ Leaves(n) /\ Release(n)
         /\ n_klist' = [n_klist EXCEPT ![n] = "null"]
         /\ putting' = [putting EXCEPT ![t] = n]
      \/ /\ ~Leaves(n) /\ k_list' = k_list /\ n_klist' = n_klist /\ putting' = putting
         /\ waiters' = waiters /\ woken' = woken /\ state' = state
  BY DEF Leave, sleep
<1> HIDE DEF n
<1>6. /\ n_klist' \in [Nodes -> {"null", "klist", "dead"}]
      /\ \A m \in Nodes : ~(m = n /\ Leaves(n)) => n_klist'[m] = n_klist[m]
      /\ Leaves(n) => n_klist'[n] = "null"
      /\ putting' \in [Tasks -> Nodes \cup {Nil}]
      /\ \A u \in Tasks \ {t} : putting'[u] = putting[u]
      /\ ~Leaves(n) => putting' = putting
  <2>1. /\ n_klist \in [Nodes -> {"null", "klist", "dead"}]
        /\ putting \in [Tasks -> Nodes \cup {Nil}]
    BY <1>1 DEF Types
  <2>2. CASE /\ Leaves(n) /\ Release(n)
             /\ n_klist' = [n_klist EXCEPT ![n] = "null"]
             /\ putting' = [putting EXCEPT ![t] = n]
    <3>1. n \in Nodes
      BY <2>2 DEF Leaves
    <3> QED BY SMT, <2>1, <2>2, <3>1
  <2>3. CASE ~Leaves(n) /\ n_klist' = n_klist /\ putting' = putting
    BY <2>1, <2>3
  <2> QED BY <1>5, <2>2, <2>3
<1>7. /\ k_list' \in Seq(Nodes) /\ NoDup(k_list')
      /\ \A m \in Nodes : m \in Linked' <=> m \in Linked /\ n_klist'[m] # "null"
      /\ \A y, z : /\ Precedes(k_list, y, z)
                   /\ ~(Leaves(n) /\ y = n) /\ ~(Leaves(n) /\ z = n)
                   => Precedes(k_list', y, z)
      /\ waiters' \in SUBSET Tasks /\ woken' \in [Tasks -> BOOLEAN]
      /\ state' \in [Tasks -> {TASK_RUNNING, TASK_UNINTERRUPTIBLE}]
  <2>0. \A m \in Nodes : m \in Linked => n_klist[m] # "null"
    BY DEF Inv, Links
  <2>1. CASE Leaves(n) /\ Release(n)
    <3>3. /\ k_list' \in Seq(Nodes) /\ NoDup(k_list') /\ Linked' = Linked \ {n}
          /\ \A y, z : Precedes(k_list, y, z) /\ y # n /\ z # n => Precedes(k_list', y, z)
          /\ waiters' \in SUBSET Tasks /\ woken' \in [Tasks -> BOOLEAN]
          /\ state' \in [Tasks -> {TASK_RUNNING, TASK_UNINTERRUPTIBLE}]
      BY <1>1, <1>4, <2>1, ReleaseStep
    <3>5. ASSUME NEW m \in Nodes
          PROVE  m \in Linked' <=> m \in Linked /\ n_klist'[m] # "null"
      BY <1>6, <2>0, <2>1, <3>3
    <3> QED BY <2>1, <3>3, <3>5
  <2>2. CASE ~Leaves(n) /\ k_list' = k_list /\ n_klist' = n_klist
             /\ waiters' = waiters /\ woken' = woken /\ state' = state
    BY <1>1, <2>0, <2>2 DEF Types, Linked
  <2> QED BY <1>5, <2>1, <2>2
<1>8. Types'
  <2>1. /\ node' \in [Tasks -> Nodes \cup {Nil}] /\ where' \in [Tasks -> Places]
        /\ got' \in [Nodes -> Int]
        /\ pc' \in [Tasks -> {"out", "add", "remove", "prepare", "test", "schedule"}]
    BY <1>1, <1>2 DEF Types
  <2> QED BY <1>2, <1>3, <1>6, <1>7, <2>1 DEF Types
<1>9. ASSUME NEW m \in Nodes
      PROVE  /\ n_klist[m] = "klist" <=> n_klist'[m] = "klist"
             /\ m \in Live => m \in Live'
             /\ IterAt(m)' = IterAt(m) + Eq(next, m) - Eq(n, m)
  <2>1. n_klist[m] = "klist" <=> n_klist'[m] = "klist"
    BY <1>4, <1>6
  <2>2. m \in Live => m \in Live'
    BY <1>7, <2>1 DEF Live
  <2>3. IterAt(m)' = IterAt(m) + Eq(next, m) - Eq(i_cur[t], m)
    BY ZenonT(30), <1>1, <1>2, MoveCounts
  <2> QED BY <2>1, <2>2, <2>3 DEF n
<1>10. ASSUME NEW m \in Nodes PROVE Refs(m)'
  <2>0. Refs(m) /\ IterAt(m) \in Nat /\ n_ref[m] \in Nat
    BY LastReference, Numbers DEF Inv
  <2>1. n_ref'[m] = n_ref[m] + Eq(next, m) - Eq(n, m)
        /\ IterAt(m)' = IterAt(m) + Eq(next, m) - Eq(n, m)
    BY <1>2, <1>9
  <2>2. Eq(n_klist'[m], "klist") = Eq(n_klist[m], "klist")
    BY <1>9 DEF Eq
  <2>3. n_ref'[m] = Eq(n_klist'[m], "klist") + IterAt(m)'
    BY SMT, <2>0, <2>1, <2>2 DEF Refs, Eq
  <2>4. n_ref'[m] = 0 <=> n_klist'[m] = "null"
    <3>1. CASE m # n /\ m # next
      <4>1. n_ref'[m] = n_ref[m] + 0 - 0
        BY <2>1, <3>1 DEF Eq
      <4>2. n_ref'[m] = n_ref[m]
        BY SMT, <4>1, <2>0
      <4> QED BY <1>6, <2>0, <3>1, <4>2 DEF Refs
    <3>2. CASE m = next
      <4>1. n_ref'[m] = n_ref[m] + 1 - 0 /\ n_klist'[m] = "klist"
        BY <1>1, <1>9, <2>1, <3>2 DEF Eq, Live
      <4>2. n_ref'[m] # 0
        BY SMT, <4>1, <2>0
      <4> QED BY <4>1, <4>2
    <3>3. CASE m = n /\ m # next
      <4>1. n_ref'[m] = n_ref[m] + 0 - 1
        BY <2>1, <3>3 DEF Eq
      <4>2. n_ref'[m] = 0 <=> n_ref[m] = 1
        BY SMT, <4>1, <2>0
      <4>3. n_ref[m] > 0
        BY <3>3, LastReference DEF n
      <4>4. n_klist[m] # "null"
        BY <4>3, LastReference
      <4>5. Leaves(m) <=> n_ref[m] = 1
        BY DEF Leaves
      <4> QED BY <1>6, <3>3, <4>2, <4>4, <4>5
    <3> QED BY <3>1, <3>2, <3>3
  <2> QED BY <2>3, <2>4 DEF Refs
<1>11. ASSUME NEW m \in Nodes PROVE Objects(m)'
  <2>0. PutsOf(m) \in Nat /\ Objects(m)
    BY Numbers DEF Inv
  <2>1. CASE Leaves(n)
    <3>0. n \in Nodes \cup {Nil} /\ putting' = [putting EXCEPT ![t] = n]
      BY <1>1, <1>5, <2>1
    <3>1. PutsOf(m)' = PutsOf(m) + Eq(n, m) - Eq(putting[t], m)
      BY <1>1, <3>0, MoveCounts
    <3>2. CASE m # n
      <4>1. PutsOf(m)' = PutsOf(m) + 0 - 0
        BY <1>1, <3>1, <3>2 DEF Eq
      <4>2. PutsOf(m)' = PutsOf(m)
        BY SMT, <4>1, <2>0
      <4> QED BY <1>2, <1>6, <2>0, <3>2, <4>2, KeepObjects
    <3>3. CASE m = n
      <4>1. PutsOf(m)' = PutsOf(m) + 1 - 0
        BY <1>1, <3>1, <3>3 DEF Eq
      <4>2. got[m] = 1 + PutsOf(m)
        BY <1>4, <2>0, <2>1, <3>3 DEF Objects, Ne
      <4>3. got[m] = 0 + PutsOf(m)'
        BY SMT, <4>1, <4>2, <2>0
      <4> QED BY <1>2, <1>6, <2>1, <3>3, <4>3 DEF Objects, Ne
    <3> QED BY <3>2, <3>3
  <2>2. CASE ~Leaves(n)
    <3>1. PutsOf(m)' = PutsOf(m)
      BY <1>6, <2>2, SameCounts
    <3> QED BY <1>2, <1>6, <2>0, <2>2, <3>1, KeepObjects
  <2> QED BY <2>1, <2>2
<1>12. ASSUME NEW m \in Nodes PROVE Links(m)'
  <2>1. Links(m) /\ SameAdding
    BY <1>2 DEF Inv, SameAdding
  <2> QED BY <1>4, <1>6, <1>7, <2>1, KeepLinks
<1>13. ASSUME NEW u \in Tasks PROVE Call(u)'
  <2>1. Call(u)
    BY DEF Inv
  <2>2. CASE u # t
    <3>1. pc'[u] = pc[u] /\ node'[u] = node[u] /\ where'[u] = where[u]
          /\ (putting'[u] # Nil => putting[u] = putting'[u])
      BY <1>2, <1>6, <2>2
    <3>2. pc[u] # "out" => node[u] \in Nodes
      BY <1>1, <2>1 DEF Call, Types
    <3>3. ASSUME pc[u] = "add", NEW v \in Tasks PROVE i_cur'[v] # node[u]
      <4>1. node[u] \notin Linked /\ node[u] # Nil
        BY <1>1, <3>2, <3>3 DEF Inv, Links, Adding
      <4>2. next # node[u]
        BY <1>1, <4>1 DEF Live
      <4>3. i_cur[v] # node[u]
        BY <2>1, <3>3 DEF Call
      <4> QED BY <1>3, <4>2, <4>3
    <3>4. where[u][2] \in Live => where[u][2] \in Live'
      BY <1>1, <1>9, LinkedNodes
    <3>5. pc[u] # "out" => (n_klist[node[u]] = "klist" => n_klist'[node[u]] = "klist")
      BY <1>9, <3>2
    <3> QED BY <2>1, <3>1, <3>3, <3>4, <3>5, KeepCall
  <2>3. CASE u = t
    BY <1>1, <1>2, <2>1, <2>3 DEF Call
  <2> QED BY <2>2, <2>3
<1>14. ASSUME NEW u \in Tasks PROVE Wait(u)'
  <2>0. Wait(u) /\ (pc[u] = "out" <=> node[u] = Nil) /\ node[u] \in Nodes \cup {Nil}
    BY <1>1 DEF Inv, Call, Types
  <2>1. Wait(u) /\ pc'[u] = pc[u] /\ node'[u] = node[u] /\ (pc[u] # "out" => node[u] \in Nodes)
    BY <1>2, <2>0
  <2>2. CASE ~Leaves(n)
    BY <1>5, <1>6, <2>1, <2>2, KeepWait
  <2>3. CASE Leaves(n)
    <3>1. IF u \in waiters /\ node[u] = n
          THEN u \notin waiters' /\ woken'[u] /\ state'[u] = TASK_RUNNING
          ELSE /\ u \in waiters' <=> u \in waiters
               /\ woken'[u] <=> woken[u]
               /\ state'[u] = state[u]
      BY <1>1, <1>4, <1>5, <2>3, ReleaseStep
    <3>2. CASE pc[u] # "out" /\ node[u] = n
      <4>1. n_klist[node[u]] = "dead" /\ n_klist'[node[u]] = "null"
        BY <1>4, <1>6, <2>3, <3>2
      <4>2. pc[u] \in {"prepare", "test", "schedule"} \/ pc[u] = "add"
        <5>1. pc[u] # "remove"
          BY <4>1 DEF Inv, Call
        <5> QED BY <1>1, <3>2, <5>1 DEF Types
      <4>3. pc[u] # "add"
        BY <4>1 DEF Inv, Call
      <4>4. u \in waiters
        BY <2>1, <4>1, <4>2, <4>3 DEF Wait
      <4> QED BY <2>1, <3>1, <3>2, <4>1, <4>2, <4>3, <4>4 DEF Wait
    <3>3. CASE pc[u] = "out" \/ node[u] # n
      <4>1. ~(u \in waiters /\ node[u] = n)
        BY <2>1, <3>3 DEF Wait
      <4>2. pc[u] # "out" => n_klist'[node[u]] = n_klist[node[u]]
        BY <1>6, <2>1, <3>3
      <4> QED BY <2>1, <3>1, <4>1, <4>2, KeepWait
    <3> QED BY <3>2, <3>3
  <2> QED BY <2>2, <2>3
<1>15. ASSUME NEW u \in Tasks \ {t} PROVE Ahead(u)'
  <2>1. Ahead(u) /\ todo[u] \subseteq Live /\ todo[u] \subseteq Nodes
    BY <1>1 DEF Inv, Ahead, Types
  <2>2. todo'[u] = todo[u] /\ todo'[u] \subseteq Live' /\ i_klist'[u] = i_klist[u]
        /\ i_cur'[u] = i_cur[u]
    BY <1>2, <1>3, <1>9, <2>1
  <2>3. ~(Leaves(n) /\ i_cur[u] = n)
    <3> SUFFICES ASSUME NEW m \in Nodes, m = n, Leaves(n), i_cur[u] = n PROVE FALSE
      BY DEF Leaves
    <3>1. n_klist'[m] = "null" /\ Refs(m)'
      BY <1>6, <1>10
    <3>2. n_ref'[m] = 0 /\ n_ref'[m] = 0 + IterAt(m)'
      BY <3>1 DEF Refs, Eq
    <3> DEFINE g == i_cur'
    <3>3. Number(g, m) \in Nat
      <4>1. {v \in Tasks : g[v] = m} \in SUBSET Tasks
        OBVIOUS
      <4> QED BY <4>1, KlistConstants, CardSubset DEF Number
    <3>4. Number(g, m) = 0
      <4>1. n_ref'[m] = 0 /\ n_ref'[m] = 0 + Number(g, m)
        BY <3>2 DEF IterAt
      <4> HIDE DEF g
      <4> QED BY SMT, <3>3, <4>1
    <3>5. g[u] # m
      <4> HIDE DEF g
      <4> QED BY <3>4, NumberZero
    <3> QED BY <2>2, <3>5
  <2>4. \A m \in todo'[u] : ~(Leaves(n) /\ m = n)
    BY <1>4, <2>1, <2>2
  <2>5. \A m \in todo'[u] :
          /\ Precedes(k_list, m, i_cur[u]) => Precedes(k_list', m, i_cur[u])
          /\ Precedes(k_list, i_cur[u], m) => Precedes(k_list', i_cur[u], m)
    BY <1>7, <2>3, <2>4
  <2> QED BY <1>1, <2>1, <2>2, <2>5, KeepAhead
<1>16. Ahead(t)'
  <2>1. CASE i_klist'[t] \in {"none", "end"} /\ next = Nil /\ todo'[t] = {}
    BY <1>3, <2>1 DEF Ahead
  <2>2. CASE /\ i_klist'[t] \in {"next", "prev"} /\ next # Nil
             /\ todo'[t] \subseteq Live \cap Beyond(next, i_klist'[t])
    <3> SUFFICES ASSUME NEW dir \in {"next", "prev"}, dir = i_klist'[t],
                        NEW m \in todo'[t]
                 PROVE  m \in Live' /\ m \in Beyond(next, dir)'
      BY <1>3, <2>2 DEF Ahead, Beyond
    <3>1. m \in Live /\ m \in Beyond(next, dir) /\ m \in Nodes
      BY <1>1, <2>2, LinkedNodes
    <3>2. m \in Live' /\ m \in Linked'
      BY <1>9, <3>1 DEF Live
    <3>3. ~(Leaves(n) /\ m = n) /\ next # n
      BY <1>1, <1>4, <2>2, <3>1
    <3>4. \/ dir = "next" /\ Precedes(k_list', next, m)
          \/ dir = "prev" /\ Precedes(k_list', m, next)
      BY <1>7, <2>2, <3>1, <3>3 DEF Beyond
    <3> QED BY <3>2, <3>4 DEF Beyond
  <2> QED BY <2>1, <2>2 DEF Leave
<1>17. \A u, v \in Tasks : Apart(u, v)'
  <2>1. \A u \in Tasks : \/ pc'[u] = "out"
                         \/ /\ pc[u] # "out" /\ node'[u] = node[u]
                            /\ where'[u] = where[u]
    BY <1>2
  <2> QED BY <2>1, KeepApart DEF Inv
<1>18. \A u \in Tasks : Call(u)' /\ Wait(u)' /\ Ahead(u)'
  BY <1>13, <1>14, <1>15, <1>16
<1> QED BY <1>8, <1>10, <1>11, <1>12, <1>17, <1>18, Assemble

\* An iteration finds the first of the nodes ahead of it.
LEMMA FirstFound ==
  ASSUME Types, NEW S \in SUBSET Linked, S # {}, NEW dir \in {"next", "prev"}
  PROVE  First(S, dir) \in S /\ S \ {First(S, dir)} \subseteq Beyond(First(S, dir), dir)
<1> SUFFICES \E m \in S : S \ {m} \subseteq Beyond(m, dir)
  BY DEF First
<1> DEFINE T == {i \in 1..Len(k_list) : k_list[i] \in S}
<1>1. k_list \in Seq(Nodes) /\ Len(k_list) \in Nat /\ DOMAIN k_list = 1..Len(k_list)
  BY SMT DEF Types
<1>2. \A m \in S : \E i \in T : k_list[i] = m
  BY <1>1 DEF Linked, Range
<1>3. T # {} /\ T \in SUBSET Nat /\ T \in SUBSET (0..Len(k_list))
  BY SMT, <1>1, <1>2
<1>4. \A i \in T : i \in 1..Len(k_list) /\ i \in Int /\ k_list[i] \in S
  BY SMT, <1>1
<1> HIDE DEF T
<1>5. CASE dir = "next"
  <2>1. PICK k \in T : \A j \in T : k <= j
    BY <1>3, Least
  <2>2. ASSUME NEW m \in S, m # k_list[k] PROVE Precedes(k_list, k_list[k], m)
    <3>1. PICK i \in T : k_list[i] = m
      BY <1>2
    <3>2. k <= i /\ i # k
      BY <2>1, <2>2, <3>1
    <3>3. k < i
      BY SMT, <1>4, <3>2
    <3> QED BY <1>4, <3>1, <3>3 DEF Precedes
  <2>3. k_list[k] \in S
    BY <1>4
  <2> QED BY <1>5, <2>2, <2>3 DEF Beyond
<1>6. CASE dir = "prev"
  <2>1. PICK k \in T : \A j \in T : j <= k
    BY <1>1, <1>3, Greatest
  <2>2. ASSUME NEW m \in S, m # k_list[k] PROVE Precedes(k_list, m, k_list[k])
    <3>1. PICK i \in T : k_list[i] = m
      BY <1>2
    <3>2. i <= k /\ i # k
      BY <2>1, <2>2, <3>1
    <3>3. i < k
      BY SMT, <1>4, <3>2
    <3> QED BY <1>4, <3>1, <3>3 DEF Precedes
  <2>3. k_list[k] \in S
    BY <1>4
  <2> QED BY <1>6, <2>2, <2>3 DEF Beyond
<1> QED BY <1>5, <1>6

\* Steps of klist_remove() and of put() that leave nodes and iterators alone.
LEMMA QuietStep ==
  ASSUME Inv, Types', UNCHANGED <<nodes, iters>>, SameAdding,
         \A n \in Nodes : Objects(n)', \A u \in Tasks : Call(u)' /\ Wait(u)',
         \A u, v \in Tasks : Apart(u, v)'
  PROVE  Inv'
<1>1. k_list' = k_list /\ n_klist' = n_klist /\ n_ref' = n_ref
      /\ i_klist' = i_klist /\ i_cur' = i_cur /\ todo' = todo /\ Linked' = Linked
  BY DEF nodes, iters, Linked
<1>2. ASSUME NEW n \in Nodes PROVE Refs(n)' /\ Links(n)'
  <2>1. IterAt(n)' = IterAt(n) /\ Refs(n) /\ Links(n)
    BY <1>1, SameCounts DEF Inv
  <2>2. n \in Linked => n_klist[n] # "null"
    BY <2>1 DEF Links
  <2>3. Links(n)'
    BY <1>1, <2>1, <2>2, KeepLinks
  <2> QED BY <1>1, <2>1, <2>3, KeepRefs
<1>3. ASSUME NEW u \in Tasks PROVE Ahead(u)'
  <2>1. Ahead(u)
    BY DEF Inv
  <2> QED BY <1>1, <2>1 DEF Ahead, Live, Beyond
<1> QED BY <1>2, <1>3, Assemble

\* The same when no put() is owed or made, either.
LEMMA NoPut ==
  ASSUME Inv, putting' = putting, got' = got, n_klist' = n_klist
  PROVE  \A n \in Nodes : Objects(n)'
<1> SUFFICES ASSUME NEW n \in Nodes PROVE Objects(n)'
  OBVIOUS
<1>1. PutsOf(n)' = PutsOf(n) /\ Objects(n)
  BY SameCounts DEF Inv
<1> QED BY <1>1, KeepObjects

\* A step of one task: the others' calls go on.
LEMMA OthersGoOn ==
  ASSUME Inv, NEW t \in Tasks, UNCHANGED <<nodes, iters>>,
         \A u \in Tasks \ {t} : /\ pc'[u] = pc[u] /\ node'[u] = node[u] /\ where'[u] = where[u]
                                /\ putting'[u] = putting[u]
                                /\ u \in waiters' <=> u \in waiters
                                /\ woken'[u] <=> woken[u]
                                /\ state'[u] = state[u]
  PROVE  \A u \in Tasks \ {t} : Call(u)' /\ Wait(u)'
<1> SUFFICES ASSUME NEW u \in Tasks \ {t} PROVE Call(u)' /\ Wait(u)'
  OBVIOUS
<1>1. n_klist' = n_klist /\ i_cur' = i_cur /\ Live' = Live /\ Call(u) /\ Wait(u)
  BY DEF nodes, iters, Live, Linked, Inv
<1>2. pc[u] = "add" => \A v \in Tasks : i_cur'[v] # node[u]
  BY <1>1, NobodyAtAdded
<1>3. Call(u)'
  BY <1>1, <1>2, KeepCall
<1>4. Wait(u)'
  BY <1>1, KeepWait
<1> QED BY <1>3, <1>4
-----------------------------------------------------------------------------
\* One lemma for each action.  klist_del():
LEMMA DelInv ==
  ASSUME Inv, NEW t \in Tasks, NEW n \in Nodes, KlistDel(t, n)
  PROVE  Inv'
<1>1. /\ n \in Live /\ Mine(t, n) /\ putting[t] = Nil /\ KlistPut(t, n, TRUE) /\ Excuse(n)
      /\ UNCHANGED <<i_klist, i_cur, adds, got>> /\ pc[t] = "out" /\ pc' = pc
  BY DEF KlistDel, Ready, Busy, Mine
<1> QED BY <1>1, KillStep

\* klist_remove() does the same for the node it has queued itself for.
LEMMA RemoveDelInv ==
  ASSUME Inv, NEW t \in Tasks, RemoveDel(t)
  PROVE  Inv'
<1>0. pc[t] = "remove" /\ Call(t) /\ node[t] \in Nodes \cup {Nil}
  BY DEF RemoveDel, Inv, Types
<1>1. pc[t] = "remove" /\ node[t] \in Nodes /\ n_klist[node[t]] = "klist" /\ putting[t] = Nil
  BY <1>0 DEF Call
<1> SUFFICES ASSUME NEW n \in Nodes, n = node[t] PROVE Inv'
  BY <1>1
<1>2. Mine(t, n) /\ ~Adding(n)
  <2>1. \A u \in Tasks : Apart(t, u)
    BY DEF Inv
  <2>2. \A u \in Tasks \ {t} : pc[u] # "out" => n # node[u] /\ n # where[u][2]
    BY <1>1, <2>1 DEF Apart
  <2> QED BY <1>1, <2>2 DEF Mine, Adding
<1>3. n \in Live
  BY <1>1, <1>2 DEF Inv, Links, Live
<1>4. KlistPut(t, n, TRUE) /\ Excuse(n)
  BY DEF RemoveDel, KlistPut, KlistRelease, WaitersFor, Excuse
<1>5. UNCHANGED <<i_klist, i_cur, adds, got>> /\ pc' = [pc EXCEPT ![t] = "prepare"]
  BY DEF RemoveDel
<1> QED BY <1>1, <1>2, <1>3, <1>4, <1>5, KillStep

\* klist_iter_exit():
LEMMA IterExitInv ==
  ASSUME Inv, NEW t \in Tasks, KlistIterExit(t)
  PROVE  Inv'
<1>1. /\ Types /\ Ready(t) /\ Nil \notin Nodes
      /\ i_cur[t] \in Nodes \cup {Nil} /\ Nil \in Nodes \cup {Nil}
  BY KlistConstants DEF Inv, Types, KlistIterExit
<1>2. /\ i_cur' = [i_cur EXCEPT ![t] = Nil]
      /\ i_klist' \in [Tasks -> {"none", "next", "prev", "end"}]
      /\ todo' \in [Tasks -> SUBSET Nodes]
      /\ \A u \in Tasks \ {t} : i_klist'[u] = i_klist[u] /\ todo'[u] = todo[u]
      /\ i_klist'[t] = "none" /\ todo'[t] = {}
      /\ UNCHANGED <<pc, adds, got>>
  BY <1>1 DEF KlistIterExit, Types
<1>3. \A m \in Nodes : Eq(Nil, m) = 0
  BY <1>1 DEF Eq
<1>4. CASE i_cur[t] = Nil
  <2>1. UNCHANGED <<k_list, sleep, n_klist, putting>> /\ n_ref' = n_ref
    BY <1>4 DEF KlistIterExit, nodes
  <2>2. \A m \in Nodes : n_ref[m] = n_ref[m] + 0 - 0
    BY SMT, <1>1 DEF Types
  <2>3. ~Leaves(i_cur[t]) /\ n_ref' \in [Nodes -> Int]
    BY <1>1, <1>4, <2>1 DEF Leaves, Types
  <2>4. Leave(t, Nil)
    BY <1>2, <1>3, <1>4, <2>1, <2>2, <2>3 DEF Leave
  <2> QED BY <1>1, <2>4, LeaveStep
<1>5. CASE i_cur[t] \in Nodes
  <2> SUFFICES ASSUME NEW n \in Nodes, n = i_cur[t] PROVE Inv'
    BY <1>5
  <2>1. /\ n_ref' = [n_ref EXCEPT ![n] = @ - 1]
        /\ n_klist' = [n_klist EXCEPT ![n] = IF n_ref[n] = 1 THEN "null" ELSE @]
        /\ KlistRelease(n, n_ref[n] = 1)
        /\ putting' = [putting EXCEPT ![t] = IF n_ref[n] = 1 THEN n ELSE Nil]
    BY <1>1, <1>5 DEF KlistIterExit, KlistPut, KlistRelease, WaitersFor
  <2>2. /\ n_ref' \in [Nodes -> Int]
        /\ \A m \in Nodes : n_ref'[m] = n_ref[m] + 0 - (IF n = m THEN 1 ELSE 0)
    BY SMT, <1>1, <2>1 DEF Types
  <2>3. \A m \in Nodes : n_ref'[m] = n_ref[m] + Eq(Nil, m) - Eq(i_cur[t], m)
    BY <1>3, <2>2 DEF Eq
  <2>4. \/ /\ Leaves(n) /\ Release(n)
           /\ n_klist' = [n_klist EXCEPT ![n] = "null"]
           /\ putting' = [putting EXCEPT ![t] = n]
        \/ ~Leaves(n) /\ UNCHANGED <<k_list, sleep, n_klist, putting>>
    <3> DEFINE c == n_ref[n]
    <3>1. (c = 1 /\ Release(n)) \/ (c # 1 /\ UNCHANGED <<k_list, sleep>>)
      BY <1>1, <2>1, ReleaseCases
    <3>2. CASE n_ref[n] = 1
      BY <2>1, <3>1, <3>2 DEF Leaves
    <3>3. CASE n_ref[n] # 1
      <4>1. n_klist' = n_klist /\ putting' = putting
        BY <1>1, <2>1, <3>3 DEF Types, Ready
      <4> QED BY <3>1, <3>3, <4>1 DEF Leaves
    <3> QED BY <3>2, <3>3
  <2>5. Leave(t, Nil)
    <3>1. \/ /\ Leaves(i_cur[t]) /\ Release(i_cur[t])
             /\ n_klist' = [n_klist EXCEPT ![i_cur[t]] = "null"]
             /\ putting' = [putting EXCEPT ![t] = i_cur[t]]
          \/ ~Leaves(i_cur[t]) /\ UNCHANGED <<k_list, sleep, n_klist, putting>>
      BY <2>4 DEF Release, WaitersFor
    <3> QED BY <1>2, <2>2, <2>3, <3>1 DEF Leave
  <2> QED BY <1>1, <2>5, LeaveStep
<1> QED BY <1>1, <1>4, <1>5

\* klist_next() and klist_prev():
LEMMA NextNodeInv ==
  ASSUME Inv, NEW t \in Tasks, KlistNext(t)
  PROVE  Inv'
<1> DEFINE next == LiveBeyond(i_cur[t], i_klist[t])
           s == Live \cap Beyond(i_cur[t], i_klist[t])
           gone == i_cur[t] # Nil /\ n_ref[i_cur[t]] = 1
<1>1. /\ Types /\ Ready(t) /\ Nil \notin Nodes /\ i_cur[t] \in Nodes \cup {Nil}
      /\ i_klist[t] \in {"next", "prev"} /\ Live \subseteq Nodes /\ Live \subseteq Linked
      /\ todo[t] \subseteq s
  BY KlistConstants, LinkedNodes DEF Inv, Types, KlistNext, Ahead
<1>2. /\ n_ref' = [n \in Nodes |-> n_ref[n] + (IF n = next THEN 1 ELSE 0)
                                            - (IF n = i_cur[t] THEN 1 ELSE 0)]
      /\ n_klist' = [n \in Nodes |-> IF gone /\ n = i_cur[t] THEN "null" ELSE n_klist[n]]
      /\ KlistRelease(i_cur[t], gone)
      /\ putting' = [putting EXCEPT ![t] = IF gone THEN i_cur[t] ELSE Nil]
      /\ i_cur' = [i_cur EXCEPT ![t] = next]
      /\ i_klist' = [i_klist EXCEPT ![t] = IF next = Nil THEN "end" ELSE @]
      /\ todo' = [todo EXCEPT ![t] = @ \ {next}]
      /\ UNCHANGED <<pc, adds, got>>
  BY DEF KlistNext
<1>3. \/ s = {} /\ next = Nil
      \/ /\ s # {} /\ next \in s /\ next # Nil
         /\ s \ {next} \subseteq Live \cap Beyond(next, i_klist[t])
  <2>1. CASE s = {}
    BY <2>1 DEF LiveBeyond
  <2>2. CASE s # {}
    <3>1. next = First(s, i_klist[t])
      BY <2>2 DEF LiveBeyond
    <3>2. s \in SUBSET Linked
      BY <1>1
    <3>3. First(s, i_klist[t]) \in s
          /\ s \ {First(s, i_klist[t])} \subseteq Beyond(First(s, i_klist[t]), i_klist[t])
      <4> HIDE DEF s
      <4> QED BY <1>1, <2>2, <3>2, FirstFound
    <3> QED BY <1>1, <2>2, <3>1, <3>3
  <2> QED BY <2>1, <2>2
<1>4. next # Nil => next \in Live /\ next # i_cur[t]
  <2> SUFFICES ASSUME next # Nil PROVE next \in Live /\ next # i_cur[t]
    OBVIOUS
  <2>1. next \in Live /\ next \in Beyond(i_cur[t], i_klist[t])
    BY <1>3
  <2>2. i_cur[t] = Nil \/ Precedes(k_list, i_cur[t], next) \/ Precedes(k_list, next, i_cur[t])
    BY <2>1 DEF Beyond
  <2> HIDE DEF next
  <2> QED BY <1>1, <2>1, <2>2, NotItself
<1> SUFFICES ASSUME NEW to \in Nodes \cup {Nil}, to = next, NEW n \in Nodes \cup {Nil}, n = i_cur[t]
             PROVE  Inv'
  BY <1>1, <1>3
<1> HIDE DEF next, s
<1>5. /\ i_klist' \in [Tasks -> {"none", "next", "prev", "end"}]
      /\ todo' \in [Tasks -> SUBSET Nodes] /\ i_cur' = [i_cur EXCEPT ![t] = to]
      /\ \A u \in Tasks \ {t} : i_klist'[u] = i_klist[u] /\ todo'[u] = todo[u]
      /\ i_klist'[t] = (IF to = Nil THEN "end" ELSE i_klist[t]) /\ todo'[t] = todo[t] \ {to}
  BY <1>1, <1>2 DEF Types
<1>6. \/ i_klist'[t] \in {"none", "end"} /\ to = Nil /\ todo'[t] = {}
      \/ /\ i_klist'[t] \in {"next", "prev"} /\ to # Nil
         /\ todo'[t] \subseteq Live \cap Beyond(to, i_klist'[t])
  <2>1. CASE s = {} /\ next = Nil
    BY <1>1, <1>5, <2>1
  <2>2. CASE /\ s # {} /\ next \in s /\ next # Nil
             /\ s \ {next} \subseteq Live \cap Beyond(next, i_klist[t])
    <3>1. i_klist'[t] = i_klist[t]
      BY <1>5, <2>2
    <3>2. todo'[t] \subseteq Live \cap Beyond(to, i_klist[t])
      BY <1>1, <1>5, <2>2
    <3> QED BY <1>1, <2>2, <3>1, <3>2
  <2> QED BY <1>3, <2>1, <2>2
<1>7. /\ n_ref' \in [Nodes -> Int]
      /\ \A m \in Nodes : n_ref'[m] = n_ref[m] + (IF to = m THEN 1 ELSE 0)
                                              - (IF n = m THEN 1 ELSE 0)
  BY SMT, <1>1, <1>2 DEF Types
<1>8. \A m \in Nodes : n_ref'[m] = n_ref[m] + Eq(to, m) - Eq(i_cur[t], m)
  BY <1>7 DEF Eq
<1>9. gone <=> Leaves(i_cur[t])
  BY <1>1 DEF Leaves
<1>10. CASE gone
  <2>1. /\ Release(i_cur[t]) /\ putting' = [putting EXCEPT ![t] = i_cur[t]]
    BY <1>2, <1>10 DEF KlistRelease, Release
  <2>2. n_klist' = [n_klist EXCEPT ![i_cur[t]] = "null"]
    <3>1. i_cur[t] \in Nodes /\ n_klist \in [Nodes -> {"null", "klist", "dead"}]
      BY <1>1, <1>10 DEF Types
    <3>2. n_klist' = [m \in Nodes |-> IF m = i_cur[t] THEN "null" ELSE n_klist[m]]
      BY <1>2, <1>10
    <3> QED BY <3>1, <3>2
  <2>3. Leave(t, to)
    BY <1>2, <1>4, <1>5, <1>6, <1>7, <1>8, <1>9, <1>10, <2>1, <2>2 DEF Leave
  <2> QED BY <1>1, <2>3, LeaveStep
<1>11. CASE ~gone
  <2>1. woken' = woken /\ state' = state /\ waiters' = waiters /\ k_list' = k_list
    BY <1>1, <1>2, <1>11 DEF KlistRelease, Types
  <2>2. n_klist' = n_klist /\ putting' = putting
    BY <1>1, <1>2, <1>11 DEF Types, Ready
  <2>3. UNCHANGED <<k_list, sleep, n_klist, putting>>
    BY <2>1, <2>2 DEF sleep
  <2>4. Leave(t, to)
    BY <1>2, <1>4, <1>5, <1>6, <1>7, <1>8, <1>9, <1>11, <2>3 DEF Leave
  <2> QED BY <1>1, <2>4, LeaveStep
<1> QED BY <1>10, <1>11

\* put(), after the node was released:
LEMMA PutObjectInv ==
  ASSUME Inv, NEW t \in Tasks, PutObject(t)
  PROVE  Inv'
<1>1. /\ Types /\ Nil \notin Nodes /\ putting[t] \in Nodes /\ putting[t] # Nil
      /\ UNCHANGED <<nodes, iters, pc, adds, sleep>>
      /\ got' = [got EXCEPT ![putting[t]] = @ - 1]
      /\ putting' = [putting EXCEPT ![t] = Nil]
  BY KlistConstants DEF Inv, Types, PutObject
<1> SUFFICES ASSUME NEW n \in Nodes, n = putting[t] PROVE Inv'
  BY <1>1
<1>2. /\ k_list' = k_list /\ n_klist' = n_klist /\ n_ref' = n_ref /\ i_klist' = i_klist
      /\ i_cur' = i_cur /\ todo' = todo /\ pc' = pc /\ node' = node /\ where' = where
      /\ waiters' = waiters /\ woken' = woken /\ state' = state
  BY <1>1 DEF nodes, iters, adds, sleep
<1>3. got' \in [Nodes -> Int] /\ got'[n] = got[n] - 1 /\ \A m \in Nodes \ {n} : got'[m] = got[m]
  BY SMT, <1>1 DEF Types
<1>4. putting' \in [Tasks -> Nodes \cup {Nil}] /\ putting'[t] = Nil
      /\ \A u \in Tasks \ {t} : putting'[u] = putting[u]
  BY <1>1 DEF Types
<1>5. Types'
  BY <1>1, <1>2, <1>3, <1>4 DEF Types
<1>6. ASSUME NEW m \in Nodes PROVE Objects(m)'
  <2>0. PutsOf(m) \in Nat /\ Objects(m) /\ got[m] \in Int /\ Nil \in Nodes \cup {Nil}
    BY <1>1, Numbers DEF Inv, Types
  <2>1. PutsOf(m)' = PutsOf(m) + Eq(Nil, m) - Eq(putting[t], m)
    BY <1>1, <2>0, MoveCounts
  <2>2. CASE m # n
    <3>1. PutsOf(m)' = PutsOf(m) + 0 - 0
      BY <1>1, <2>1, <2>2 DEF Eq
    <3>2. PutsOf(m)' = PutsOf(m)
      BY SMT, <2>0, <3>1
    <3> QED BY <1>2, <1>3, <2>0, <2>2, <3>2, KeepObjects
  <2>3. CASE m = n
    <3>1. PutsOf(m)' = PutsOf(m) + 0 - 1 /\ got'[m] = got[m] - 1
      BY <1>1, <1>3, <2>1, <2>3 DEF Eq
    <3>2. CASE n_klist[m] = "null"
      <4>1. got[m] = 0 + PutsOf(m)
        BY <2>0, <3>2 DEF Objects, Ne
      <4>2. got'[m] = 0 + PutsOf(m)'
        BY SMT, <2>0, <3>1, <4>1
      <4> QED BY <1>2, <3>2, <4>2 DEF Objects, Ne
    <3>3. CASE n_klist[m] # "null"
      <4>1. got[m] = 1 + PutsOf(m)
        BY <2>0, <3>3 DEF Objects, Ne
      <4>2. got'[m] = 1 + PutsOf(m)'
        BY SMT, <2>0, <3>1, <4>1
      <4> QED BY <1>2, <3>3, <4>2 DEF Objects, Ne
    <3> QED BY <3>2, <3>3
  <2> QED BY <2>2, <2>3
<1>7. Call(t)' /\ Wait(t)'
  <2>1. Call(t) /\ Wait(t)
    BY DEF Inv
  <2>2. Call(t)'
    BY <1>2, <1>4, <2>1 DEF Call, Live, Linked
  <2>3. Wait(t)'
    BY <1>2, <2>1, KeepWait
  <2> QED BY <2>2, <2>3
<1>8. \A u \in Tasks : Call(u)' /\ Wait(u)'
  <2>1. UNCHANGED <<nodes, iters>>
    BY <1>1
  <2>2. \A u \in Tasks \ {t} : Call(u)' /\ Wait(u)'
    BY <1>2, <1>4, <2>1, OthersGoOn
  <2> QED BY <1>7, <2>2
<1>9. \A u, v \in Tasks : Apart(u, v)'
  <2>1. \A u \in Tasks : \/ pc'[u] = "out"
                         \/ /\ pc[u] # "out" /\ node'[u] = node[u]
                            /\ where'[u] = where[u]
    BY <1>2
  <2> QED BY <2>1, KeepApart DEF Inv
<1> QED BY <1>1, <1>2, <1>5, <1>6, <1>8, <1>9, QuietStep DEF SameAdding

\* What the steps of klist_remove() up to and in its wait loop have in common: they
\* are the task's own, and no object is got or put.
LEMMA RemoveStep ==
  ASSUME Inv, NEW t \in Tasks, UNCHANGED <<nodes, iters, where, putting, got>>,
         pc' \in [Tasks -> {"out", "add", "remove", "prepare", "test", "schedule"}],
         node' \in [Tasks -> Nodes \cup {Nil}], waiters' \in SUBSET Tasks,
         woken' \in [Tasks -> BOOLEAN],
         state' \in [Tasks -> {TASK_RUNNING, TASK_UNINTERRUPTIBLE}],
         \A u \in Tasks \ {t} : /\ pc'[u] = pc[u] /\ node'[u] = node[u]
                                /\ u \in waiters' <=> u \in waiters
                                /\ woken'[u] <=> woken[u]
                                /\ state'[u] = state[u],
         pc[t] # "add", pc'[t] # "add", Call(t)', Wait(t)',
         \A u, v \in Tasks : Apart(u, v)'
  PROVE  Inv'
<1>1. /\ k_list' = k_list /\ n_klist' = n_klist /\ n_ref' = n_ref /\ i_klist' = i_klist
      /\ i_cur' = i_cur /\ todo' = todo /\ where' = where /\ putting' = putting /\ got' = got
      /\ UNCHANGED <<nodes, iters>>
  BY DEF nodes, iters
<1>2. Types'
  <2>1. Types
    BY DEF Inv
  <2> QED BY <1>1, <2>1 DEF Types
<1>3. SameAdding
  BY DEF SameAdding
<1>4. \A n \in Nodes : Objects(n)'
  BY <1>1, NoPut
<1>5. \A u \in Tasks \ {t} : Call(u)' /\ Wait(u)'
  <2>1. \A u \in Tasks \ {t} : /\ pc'[u] = pc[u] /\ node'[u] = node[u] /\ where'[u] = where[u]
                               /\ putting'[u] = putting[u]
                               /\ u \in waiters' <=> u \in waiters
                               /\ woken'[u] <=> woken[u]
                               /\ state'[u] = state[u]
    BY <1>1
  <2> QED BY <1>1, <2>1, OthersGoOn
<1>6. \A u \in Tasks : Call(u)' /\ Wait(u)'
  BY <1>5
<1> QED BY <1>1, <1>2, <1>3, <1>4, <1>6, QuietStep

\* klist_remove() queues its waiter:
LEMMA RemoveInv ==
  ASSUME Inv, NEW t \in Tasks, NEW n \in Nodes, KlistRemove(t, n)
  PROVE  Inv'
<1>1. /\ Types /\ Call(t) /\ Wait(t) /\ pc[t] = "out" /\ putting[t] = Nil /\ n_klist[n] = "klist"
      /\ Mine(t, n) /\ Nil \notin Nodes
  BY KlistConstants DEF Inv, KlistRemove, Ready, Live, Busy, Mine
<1>2. /\ UNCHANGED <<nodes, iters, where, putting, got>> /\ state' = state
      /\ pc' = [pc EXCEPT ![t] = "remove"] /\ node' = [node EXCEPT ![t] = n]
      /\ waiters' = waiters \cup {t} /\ woken' = [woken EXCEPT ![t] = FALSE]
  BY DEF KlistRemove
<1>3. /\ pc' \in [Tasks -> {"out", "add", "remove", "prepare", "test", "schedule"}]
      /\ node' \in [Tasks -> Nodes \cup {Nil}] /\ waiters' \in SUBSET Tasks
      /\ woken' \in [Tasks -> BOOLEAN]
      /\ state' \in [Tasks -> {TASK_RUNNING, TASK_UNINTERRUPTIBLE}]
      /\ pc'[t] = "remove" /\ node'[t] = n /\ t \in waiters' /\ ~woken'[t] /\ state'[t] = state[t]
      /\ \A u \in Tasks \ {t} : /\ pc'[u] = pc[u] /\ node'[u] = node[u]
                                /\ u \in waiters' <=> u \in waiters
                                /\ woken'[u] <=> woken[u]
                                /\ state'[u] = state[u]
  <2>1. /\ pc \in [Tasks -> {"out", "add", "remove", "prepare", "test", "schedule"}]
        /\ node \in [Tasks -> Nodes \cup {Nil}] /\ waiters \in SUBSET Tasks
        /\ woken \in [Tasks -> BOOLEAN]
        /\ state \in [Tasks -> {TASK_RUNNING, TASK_UNINTERRUPTIBLE}]
    BY <1>1 DEF Types
  <2> QED BY <1>2, <2>1
<1>4. n_klist' = n_klist /\ where' = where /\ putting' = putting /\ where[t][2] = Nil
  BY <1>1, <1>2 DEF nodes, Call
<1>5. Call(t)' /\ Wait(t)'
  <2>1. Call(t)'
    BY <1>1, <1>3, <1>4 DEF Call
  <2>2. Wait(t)'
    BY <1>1, <1>3 DEF Wait
  <2> QED BY <2>1, <2>2
<1>6. ASSUME NEW u \in Tasks, NEW v \in Tasks PROVE Apart(u, v)'
  <2> SUFFICES ASSUME pc'[u] # "out", pc'[v] # "out"
               PROVE  node'[u] # where[v][2] /\ (node'[u] = node'[v] => u = v)
    BY <1>4 DEF Apart
  <2>1. ASSUME NEW w \in Tasks, w # t, pc[w] # "out"
        PROVE  node[w] # Nil /\ n # node[w] /\ n # where[w][2]
    BY <1>1, <2>1 DEF Mine, Inv, Call
  <2>2. CASE u = t
    BY <1>1, <1>3, <1>4, <2>1, <2>2
  <2>3. CASE u # t /\ v = t
    BY <1>3, <1>4, <2>1, <2>3
  <2>4. CASE u # t /\ v # t
    <3>1. Apart(u, v)
      BY DEF Inv
    <3> QED BY <1>3, <2>4, <3>1 DEF Apart
  <2> QED BY <2>2, <2>3, <2>4
<1>7. \A u, v \in Tasks : Apart(u, v)'
  BY <1>6
<1>8. pc[t] # "add" /\ pc'[t] # "add"
  BY <1>1, <1>3
<1> QED BY <1>2, <1>3, <1>5, <1>7, <1>8, RemoveStep

\* The wait loop of klist_remove(), and a wake-up from elsewhere:
LEMMA WaitLoopInv ==
  ASSUME Inv, NEW t \in Tasks,
         RemovePrepare(t) \/ RemoveTest(t) \/ RemoveScheduled(t) \/ StrayWakeup(t)
  PROVE  Inv'
<1>1. Types /\ Call(t) /\ Wait(t) /\ Nil \notin Nodes /\ Nil \in Nodes \cup {Nil}
  BY KlistConstants DEF Inv
<1>2. /\ pc \in [Tasks -> {"out", "add", "remove", "prepare", "test", "schedule"}]
      /\ node \in [Tasks -> Nodes \cup {Nil}] /\ waiters \in SUBSET Tasks
      /\ woken \in [Tasks -> BOOLEAN]
      /\ state \in [Tasks -> {TASK_RUNNING, TASK_UNINTERRUPTIBLE}]
  BY <1>1 DEF Types
<1>3. UNCHANGED <<nodes, iters, where, putting, got>> /\ waiters' = waiters /\ woken' = woken
  BY DEF RemovePrepare, RemoveTest, RemoveScheduled, StrayWakeup, adds, sleep
<1>4. n_klist' = n_klist /\ where' = where /\ putting' = putting
  BY <1>3 DEF nodes
<1>5. \/ /\ pc[t] = "prepare" /\ putting[t] = Nil /\ pc' = [pc EXCEPT ![t] = "test"]
         /\ state' = [state EXCEPT ![t] = TASK_UNINTERRUPTIBLE] /\ node' = node
      \/ /\ pc[t] = "test" /\ woken[t] /\ pc' = [pc EXCEPT ![t] = "out"]
         /\ state' = [state EXCEPT ![t] = TASK_RUNNING] /\ node' = [node EXCEPT ![t] = Nil]
      \/ /\ pc[t] = "test" /\ ~woken[t] /\ pc' = [pc EXCEPT ![t] = "schedule"]
         /\ state' = state /\ node' = node
      \/ /\ pc[t] = "schedule" /\ state[t] = TASK_RUNNING /\ pc' = [pc EXCEPT ![t] = "prepare"]
         /\ state' = state /\ node' = node
      \/ /\ state[t] = TASK_UNINTERRUPTIBLE /\ state' = [state EXCEPT ![t] = TASK_RUNNING]
         /\ pc' = pc /\ node' = node
  BY DEF RemovePrepare, RemoveTest, RemoveScheduled, StrayWakeup, adds, sleep
<1>6. /\ pc' \in [Tasks -> {"out", "add", "remove", "prepare", "test", "schedule"}]
      /\ node' \in [Tasks -> Nodes \cup {Nil}]
      /\ state' \in [Tasks -> {TASK_RUNNING, TASK_UNINTERRUPTIBLE}]
      /\ \A u \in Tasks \ {t} : pc'[u] = pc[u] /\ node'[u] = node[u] /\ state'[u] = state[u]
  BY <1>1, <1>2, <1>5
<1>7. \/ /\ pc[t] = "prepare" /\ putting[t] = Nil /\ pc'[t] = "test" /\ node'[t] = node[t]
      \/ /\ pc[t] = "test" /\ woken[t] /\ pc'[t] = "out"
         /\ state'[t] = TASK_RUNNING /\ node'[t] = Nil
      \/ /\ pc[t] = "test" /\ ~woken[t] /\ pc'[t] = "schedule" /\ node'[t] = node[t]
      \/ /\ pc[t] = "schedule" /\ state[t] = TASK_RUNNING /\ pc'[t] = "prepare"
         /\ state'[t] = TASK_RUNNING /\ node'[t] = node[t]
      \/ /\ state[t] = TASK_UNINTERRUPTIBLE /\ state'[t] = TASK_RUNNING
         /\ pc'[t] = pc[t] /\ node'[t] = node[t]
  BY <1>2, <1>5
<1>8. TASK_RUNNING # TASK_UNINTERRUPTIBLE
  BY SMT DEF TASK_RUNNING, TASK_UNINTERRUPTIBLE
<1>9. pc[t] # "add" /\ pc'[t] # "add"
  BY <1>1, <1>7, <1>8 DEF Wait
<1>10. Call(t)'
  BY <1>1, <1>4, <1>7, <1>9 DEF Call
<1>11. Wait(t)'
  BY <1>1, <1>3, <1>4, <1>7 DEF Wait
<1>12. \A u, v \in Tasks : Apart(u, v)'
  <2>1. \A u \in Tasks : \/ pc'[u] = "out"
                         \/ /\ pc[u] # "out" /\ node'[u] = node[u]
                            /\ where'[u] = where[u]
    <3>1. pc'[t] = "out" \/ (pc[t] # "out" /\ node'[t] = node[t])
      BY <1>7
    <3> QED BY <1>4, <1>6, <3>1
  <2> QED BY <2>1, KeepApart DEF Inv
<1>13. /\ waiters' \in SUBSET Tasks /\ woken' \in [Tasks -> BOOLEAN]
       /\ \A u \in Tasks \ {t} : /\ pc'[u] = pc[u] /\ node'[u] = node[u]
                                 /\ u \in waiters' <=> u \in waiters
                                 /\ woken'[u] <=> woken[u]
                                 /\ state'[u] = state[u]
  BY <1>2, <1>3, <1>6
<1> QED BY <1>3, <1>6, <1>9, <1>10, <1>11, <1>12, <1>13, RemoveStep

\* klist_iter_init_node() takes a reference to a node that is linked:
LEMMA IterInitInv ==
  ASSUME Inv, NEW t \in Tasks, NEW n \in Nodes \cup {Nil}, NEW dir \in {"next", "prev"},
         KlistIterInitNode(t, n, dir)
  PROVE  Inv'
<1> DEFINE from == IF n # Nil /\ n_ref[n] > 0 THEN n ELSE Nil
<1>1. /\ Types /\ Nil \notin Nodes /\ from \in Nodes \cup {Nil} /\ i_klist[t] = "none"
      /\ i_cur[t] = Nil
      /\ from # Nil => ~Adding(from)
      /\ i_klist' = [i_klist EXCEPT ![t] = dir]
      /\ i_cur' = [i_cur EXCEPT ![t] = from]
      /\ n_ref' = [m \in Nodes |-> IF m = from THEN n_ref[m] + 1 ELSE n_ref[m]]
      /\ todo' = [todo EXCEPT ![t] = Live \cap Beyond(from, dir)]
      /\ UNCHANGED <<k_list, n_klist, pc, adds, sleep, putting, got>>
  BY KlistConstants DEF KlistIterInitNode, Inv, Ahead, Adding
<1>2. from # Nil => from \in Nodes /\ n_klist[from] # "null"
  BY <1>1, LastReference
<1> SUFFICES ASSUME NEW f \in Nodes \cup {Nil}, f = from PROVE Inv'
  BY <1>1
<1> HIDE DEF from
<1>3. /\ k_list' = k_list /\ n_klist' = n_klist /\ pc' = pc /\ node' = node /\ where' = where
      /\ waiters' = waiters /\ woken' = woken /\ state' = state /\ putting' = putting
      /\ got' = got /\ Linked' = Linked /\ Live' = Live
  BY <1>1 DEF adds, sleep, Live, Linked
<1>4. /\ i_klist' \in [Tasks -> {"none", "next", "prev", "end"}]
      /\ i_cur' \in [Tasks -> Nodes \cup {Nil}] /\ i_cur'[t] = f
      /\ \A u \in Tasks \ {t} :
           i_cur'[u] = i_cur[u] /\ i_klist'[u] = i_klist[u] /\ todo'[u] = todo[u]
      /\ i_klist'[t] = dir /\ todo'[t] = Live \cap Beyond(f, dir)
  BY <1>1 DEF Types
<1>5. todo' \in [Tasks -> SUBSET Nodes]
  <2>1. todo \in [Tasks -> SUBSET Nodes] /\ Live \cap Beyond(from, dir) \in SUBSET Nodes
    BY <1>1, LinkedNodes DEF Types
  <2> QED BY <1>1, <2>1
<1>6. /\ n_ref' \in [Nodes -> Int]
      /\ \A m \in Nodes : n_ref'[m] = n_ref[m] + (IF f = m THEN 1 ELSE 0)
  BY SMT, <1>1 DEF Types
<1>7. Types'
  BY ZenonT(30), <1>1, <1>3, <1>4, <1>5, <1>6 DEF Types
<1>8. ASSUME NEW m \in Nodes PROVE Refs(m)' /\ Links(m)' /\ Objects(m)'
  <2>0. Refs(m) /\ IterAt(m) \in Nat /\ n_ref[m] \in Nat /\ Links(m)
    BY LastReference, Numbers DEF Inv
  <2>1. IterAt(m)' = IterAt(m) + Eq(from, m) - Eq(i_cur[t], m)
    BY ZenonT(30), <1>1, MoveCounts
  <2>2. IterAt(m)' = IterAt(m) + (IF f = m THEN 1 ELSE 0) - 0
    BY <1>1, <2>1 DEF Eq
  <2>3. n_ref'[m] = Eq(n_klist'[m], "klist") + IterAt(m)'
    BY SMT, <1>3, <1>6, <2>0, <2>2 DEF Refs, Eq
  <2>4. n_ref'[m] = 0 <=> n_klist'[m] = "null"
    <3>1. CASE f = m
      <4>1. n_ref'[m] = n_ref[m] + 1
        BY <1>6, <3>1
      <4>2. n_ref'[m] # 0
        BY SMT, <2>0, <4>1
      <4> QED BY <1>1, <1>2, <1>3, <3>1, <4>2
    <3>2. CASE f # m
      <4>1. n_ref'[m] = n_ref[m] + 0
        BY <1>6, <3>2
      <4>2. n_ref'[m] = n_ref[m]
        BY SMT, <2>0, <4>1
      <4> QED BY <1>3, <2>0, <4>2 DEF Refs
    <3> QED BY <3>1, <3>2
  <2>5. Links(m)'
    BY <1>3, <2>0 DEF Links, Adding
  <2>6. Objects(m)'
    BY <1>3, NoPut
  <2> QED BY <2>3, <2>4, <2>5, <2>6 DEF Refs
<1>9. ASSUME NEW u \in Tasks PROVE Call(u)' /\ Wait(u)'
  <2>1. Call(u) /\ Wait(u)
    BY DEF Inv
  <2>2. ASSUME pc[u] = "add", NEW v \in Tasks PROVE i_cur'[v] # node[u]
    <3>1. i_cur[v] # node[u] /\ Adding(node[u]) /\ node[u] # Nil
      BY <2>1, <2>2 DEF Call, Adding
    <3> QED BY <1>1, <1>4, <3>1
  <2>3. Call(u)'
    BY <1>3, <2>1, <2>2, KeepCall
  <2>4. Wait(u)'
    BY <1>3, <2>1, KeepWait
  <2> QED BY <2>3, <2>4
<1>10. ASSUME NEW u \in Tasks PROVE Ahead(u)'
  <2>1. CASE u # t
    <3>1. Ahead(u)
      BY DEF Inv
    <3> QED BY <1>3, <1>4, <2>1, <3>1 DEF Ahead, Beyond
  <2>2. CASE u = t
    <3>1. \A m : m \in Beyond(f, dir)' <=> m \in Beyond(f, dir)
      BY <1>3 DEF Beyond
    <3>2. todo'[t] \subseteq Live' /\ \A m \in todo'[t] : m \in Beyond(f, dir)'
      BY <1>3, <1>4, <3>1
    <3> QED BY <1>4, <2>2, <3>2 DEF Ahead, Beyond
  <2> QED BY <2>1, <2>2
<1>11. \A u, v \in Tasks : Apart(u, v)'
  <2>1. \A u \in Tasks : \/ pc'[u] = "out"
                         \/ /\ pc[u] # "out" /\ node'[u] = node[u]
                            /\ where'[u] = where[u]
    BY <1>3
  <2> QED BY <2>1, KeepApart DEF Inv
<1> QED BY <1>7, <1>8, <1>9, <1>10, <1>11, Assemble

\* klist_node_init() attaches a node that nobody uses:
LEMMA NodeInitInv ==
  ASSUME Inv, NEW t \in Tasks, NEW n \in Nodes, NEW w \in Places, w[2] # n,
         KlistNodeInit(t, n, w)
  PROVE  Inv'
<1>1. /\ Types /\ Call(t) /\ Wait(t) /\ pc[t] = "out" /\ putting[t] = Nil /\ n_klist[n] = "null"
      /\ Mine(t, n) /\ Nil \notin Nodes /\ Refs(n) /\ Objects(n) /\ Links(n)
      /\ w[2] # Nil => w[2] \in Live /\ Mine(t, w[2])
  <2>1. w[2] # Nil => w[1] \in {"behind", "before"}
    BY DEF Places
  <2> QED BY <2>1, KlistConstants DEF Inv, KlistNodeInit, Ready, Busy, Mine
<1>2. /\ n_ref' = [n_ref EXCEPT ![n] = 1]
      /\ n_klist' = [n_klist EXCEPT ![n] = "klist"]
      /\ got' = [got EXCEPT ![n] = @ + 1]
      /\ pc' = [pc EXCEPT ![t] = "add"]
      /\ node' = [node EXCEPT ![t] = n]
      /\ where' = [where EXCEPT ![t] = w]
      /\ UNCHANGED <<k_list, iters, sleep, putting>>
  BY DEF KlistNodeInit
<1>3. /\ k_list' = k_list /\ i_klist' = i_klist /\ i_cur' = i_cur /\ todo' = todo
      /\ waiters' = waiters /\ woken' = woken /\ state' = state /\ putting' = putting
      /\ Linked' = Linked
  BY <1>2 DEF iters, sleep, Linked
<1>4. /\ n_ref' \in [Nodes -> Int] /\ n_ref'[n] = 1 /\ \A m \in Nodes \ {n} : n_ref'[m] = n_ref[m]
      /\ got' \in [Nodes -> Int] /\ got'[n] = got[n] + 1 /\ \A m \in Nodes \ {n} : got'[m] = got[m]
  BY SMT, <1>1, <1>2 DEF Types
<1>5. /\ n_klist' \in [Nodes -> {"null", "klist", "dead"}] /\ n_klist'[n] = "klist"
      /\ \A m \in Nodes \ {n} : n_klist'[m] = n_klist[m]
  BY <1>1, <1>2 DEF Types
<1>6. /\ pc' \in [Tasks -> {"out", "add", "remove", "prepare", "test", "schedule"}]
      /\ node' \in [Tasks -> Nodes \cup {Nil}] /\ where' \in [Tasks -> Places]
      /\ pc'[t] = "add" /\ node'[t] = n /\ where'[t] = w
      /\ \A u \in Tasks \ {t} : pc'[u] = pc[u] /\ node'[u] = node[u] /\ where'[u] = where[u]
  BY <1>1, <1>2 DEF Types
<1>7. Types'
  BY <1>1, <1>3, <1>4, <1>5, <1>6 DEF Types
<1>8. /\ n \notin Linked /\ n_ref[n] = 0 /\ IterAt(n) = 0 /\ \A u \in Tasks : i_cur[u] # n
      /\ PutsOf(n) \in Nat
  <2>1. n_ref[n] = 0 /\ n \notin Linked /\ n_ref[n] = IterAt(n)
    BY <1>1, LastReference DEF Refs, Links
  <2> QED BY <2>1, Numbers
<1>9. ASSUME NEW m \in Live PROVE m \in Live' /\ m # n /\ m \in Nodes
  BY <1>1, <1>3, <1>5, <1>8, <1>9, LinkedNodes DEF Live
<1>10. ASSUME NEW m \in Nodes PROVE Refs(m)' /\ Objects(m)' /\ Links(m)'
  <2>0. Refs(m) /\ Objects(m) /\ Links(m) /\ IterAt(m)' = IterAt(m) /\ PutsOf(m)' = PutsOf(m)
    BY <1>3, SameCounts DEF Inv
  <2>1. CASE m # n
    <3>1. Adding(m)' <=> Adding(m)
      BY <1>1, <1>6, <2>1 DEF Adding
    <3>2. Links(m)'
      BY <1>3, <1>5, <2>0, <2>1, <3>1 DEF Links
    <3> QED BY <1>4, <1>5, <2>0, <2>1, <3>2, KeepRefs, KeepObjects
  <2>2. CASE m = n
    <3>1. 1 = 1 + 0 /\ 1 # 0
      BY SMT
    <3>2. Refs(m)'
      BY <1>4, <1>5, <1>8, <2>0, <2>2, <3>1 DEF Refs, Eq
    <3>3. got[n] = 0 + PutsOf(n)
      BY <1>1 DEF Objects, Ne
    <3>4. got'[n] = 1 + PutsOf(n)
      BY SMT, <1>4, <1>8, <3>3
    <3>5. Objects(m)'
      BY <1>5, <2>0, <2>2, <3>4 DEF Objects, Ne
    <3>6. Links(m)'
      BY <1>3, <1>6, <1>8, <2>2 DEF Links, Adding
    <3> QED BY <3>2, <3>5, <3>6
  <2> QED BY <2>1, <2>2
<1>11. ASSUME NEW u \in Tasks PROVE Call(u)' /\ Wait(u)' /\ Ahead(u)'
  <2>1. Call(u) /\ Wait(u) /\ Ahead(u)
    BY DEF Inv
  <2>2. Call(u)'
    <3>1. CASE u = t
      <4>1. w[2] # Nil => w[2] \in Live'
        BY <1>1, <1>9
      <4> QED BY <1>1, <1>3, <1>5, <1>6, <1>8, <3>1, <4>1 DEF Call
    <3>2. CASE u # t
      <4>1. pc[u] # "out" => node[u] \in Nodes /\ node[u] # n
        BY <1>1, <2>1, <3>2 DEF Call, Types, Mine
      <4>2. pc[u] # "out" => n_klist'[node[u]] = n_klist[node[u]]
        BY <1>5, <4>1
      <4>3. pc[u] = "add" => \A v \in Tasks : i_cur'[v] # node[u]
        BY <1>3, <2>1, NobodyAtAdded
      <4> QED BY <1>3, <1>6, <1>9, <2>1, <3>2, <4>2, <4>3, KeepCall
    <3> QED BY <3>1, <3>2
  <2>3. Wait(u)'
    <3>1. CASE u = t
      BY <1>1, <1>3, <1>6, <3>1 DEF Wait
    <3>2. CASE u # t
      <4>1. pc[u] # "out" => node[u] \in Nodes /\ node[u] # n
        BY <1>1, <2>1, <3>2 DEF Call, Types, Mine
      <4>2. pc[u] # "out" => n_klist'[node[u]] = n_klist[node[u]]
        BY <1>5, <4>1
      <4> QED BY <1>3, <1>6, <2>1, <3>2, <4>2, KeepWait
    <3> QED BY <3>1, <3>2
  <2>4. Ahead(u)'
    <3>1. todo[u] \subseteq Live
      BY <1>1, <2>1 DEF Ahead, Types
    <3>2. todo'[u] \subseteq Live'
      BY <1>3, <1>9, <3>1
    <3> QED BY <1>1, <1>3, <2>1, <3>2, KeepAhead
  <2> QED BY <2>2, <2>3, <2>4
<1>12. ASSUME NEW u \in Tasks, NEW v \in Tasks PROVE Apart(u, v)'
  <2> SUFFICES ASSUME pc'[u] # "out", pc'[v] # "out"
               PROVE  node'[u] # where'[v][2] /\ (node'[u] = node'[v] => u = v)
    BY DEF Apart
  <2>1. ASSUME NEW x \in Tasks, x # t, pc[x] # "out"
        PROVE  node[x] # Nil /\ n # node[x] /\ n # where[x][2] /\ node[x] # w[2]
    <3>1. Call(x)
      BY DEF Inv
    <3>2. node[x] # Nil
      BY <2>1, <3>1 DEF Call
    <3> QED BY <1>1, <2>1, <3>2 DEF Mine
  <2>2. CASE u = t
    BY <1>6, <2>1, <2>2
  <2>3. CASE u # t /\ v = t
    BY <1>6, <2>1, <2>3
  <2>4. CASE u # t /\ v # t
    <3>1. Apart(u, v)
      BY DEF Inv
    <3> QED BY <1>6, <2>4, <3>1 DEF Apart
  <2> QED BY <2>2, <2>3, <2>4
<1>13. \A u, v \in Tasks : Apart(u, v)'
  BY <1>12
<1> QED BY <1>7, <1>10, <1>11, <1>13, Assemble

\* klist_add_head(), klist_add_tail(), klist_add_behind() and klist_add_before() link it:
LEMMA LinkInv ==
  ASSUME Inv, NEW t \in Tasks, KlistLink(t)
  PROVE  Inv'
<1>1. /\ Types /\ Call(t) /\ Wait(t) /\ pc[t] = "add" /\ Nil \notin Nodes
      /\ node[t] \in Nodes \cup {Nil} /\ where[t] \in Places /\ <<"tail", Nil>> \in Places
  BY KlistConstants DEF Inv, KlistLink, Types, Places
<1>2. /\ node[t] \in Nodes /\ n_klist[node[t]] = "klist"
      /\ where[t][2] # Nil => where[t][2] \in Live
  BY <1>1 DEF Call
<1> SUFFICES ASSUME NEW n \in Nodes, n = node[t] PROVE Inv'
  BY <1>2
<1>3. /\ k_list' = Insert(k_list, n, where[t])
      /\ pc' = [pc EXCEPT ![t] = "out"]
      /\ node' = [node EXCEPT ![t] = Nil]
      /\ where' = [where EXCEPT ![t] = <<"tail", Nil>>]
      /\ UNCHANGED <<n_klist, n_ref, iters, sleep, putting, got>>
  BY DEF KlistLink
<1>4. /\ n_klist' = n_klist /\ n_ref' = n_ref
      /\ i_klist' = i_klist /\ i_cur' = i_cur /\ todo' = todo
      /\ waiters' = waiters /\ woken' = woken /\ state' = state /\ putting' = putting
      /\ got' = got
  BY <1>3 DEF iters, sleep
<1>5. /\ pc' \in [Tasks -> {"out", "add", "remove", "prepare", "test", "schedule"}]
      /\ node' \in [Tasks -> Nodes \cup {Nil}] /\ where' \in [Tasks -> Places]
      /\ pc'[t] = "out" /\ node'[t] = Nil /\ where'[t] = <<"tail", Nil>> /\ where'[t][2] = Nil
      /\ \A u \in Tasks \ {t} : pc'[u] = pc[u] /\ node'[u] = node[u] /\ where'[u] = where[u]
  BY <1>1, <1>3 DEF Types
<1>6. PICK k \in 1..(Len(k_list) + 1) : k_list' = ListInsert(k_list, k, n)
  <2> DEFINE w == where[t]
  <2>0. k_list \in Seq(Nodes) /\ Len(k_list) \in Nat
    BY SMT, <1>1 DEF Types
  <2>1. CASE w[1] = "head"
    <3>1. k_list' = ListInsert(k_list, 1, n)
      BY <1>3, <2>1 DEF Insert
    <3>2. 1 \in 1..(Len(k_list) + 1)
      BY SMT, <2>0
    <3> QED BY <3>1, <3>2
  <2>2. CASE w[1] = "tail"
    <3>1. k_list' = ListInsert(k_list, Len(k_list) + 1, n)
      BY <1>3, <2>2 DEF Insert
    <3>2. Len(k_list) + 1 \in 1..(Len(k_list) + 1)
      BY SMT, <2>0
    <3> QED BY <3>1, <3>2
  <2>3. CASE w[1] \in {"behind", "before"}
    <3>1. w[2] \in Linked
      <4>1. w[2] \in Nodes
        BY <1>1, <2>3 DEF Places
      <4> QED BY <1>1, <1>2, <4>1 DEF Live
    <3>2. ListPos(k_list, w[2]) \in 1..Len(k_list)
      <4>1. \E i \in 1..Len(k_list) : k_list[i] = w[2]
        <5>1. DOMAIN k_list = 1..Len(k_list)
          BY SMT, <2>0
        <5> QED BY <3>1, <5>1 DEF Linked, Range
      <4> QED BY <4>1 DEF ListPos
    <3>3. /\ ListPos(k_list, w[2]) \in 1..(Len(k_list) + 1)
          /\ ListPos(k_list, w[2]) + 1 \in 1..(Len(k_list) + 1)
      BY SMT, <2>0, <3>2
    <3>4. CASE w[1] = "behind"
      <4>1. k_list' = ListInsert(k_list, ListPos(k_list, w[2]) + 1, n)
        BY <1>3, <3>4 DEF Insert
      <4> QED BY <3>3, <4>1
    <3>5. CASE w[1] = "before"
      <4>1. k_list' = ListInsert(k_list, ListPos(k_list, w[2]), n)
        BY <1>3, <3>5 DEF Insert
      <4> QED BY <3>3, <4>1
    <3> QED BY <2>3, <3>4, <3>5
  <2>4. w[1] \in {"head", "tail", "behind", "before"}
    BY <1>1 DEF Places
  <2> QED BY <2>1, <2>2, <2>3, <2>4
<1>7. n \notin Linked /\ Adding(n)
  BY <1>1 DEF Inv, Links, Adding
<1>8. /\ k_list' \in Seq(Nodes) /\ NoDup(k_list') /\ Linked' = Linked \cup {n}
      /\ \A y, z : Precedes(k_list, y, z) => Precedes(k_list', y, z)
  <2>1. k_list \in Seq(Nodes) /\ NoDup(k_list) /\ n \notin Range(k_list)
    BY <1>1, <1>7 DEF Types, Linked
  <2> DEFINE l == ListInsert(k_list, k, n)
  <2>2. /\ l \in Seq(Nodes) /\ NoDup(l) /\ Range(l) = Range(k_list) \cup {n}
        /\ \A y, z : Precedes(k_list, y, z) => Precedes(l, y, z)
    BY SMT, <2>1, InsertList
  <2> HIDE DEF l
  <2>3. k_list' = l
    BY <1>6 DEF l
  <2> QED BY <2>2, <2>3 DEF Linked
<1>9. Types'
  BY <1>1, <1>4, <1>5, <1>8 DEF Types
<1>10. Live \subseteq Live'
  BY <1>4, <1>8 DEF Live
<1>11. ASSUME NEW m \in Nodes PROVE Refs(m)' /\ Objects(m)' /\ Links(m)'
  <2>0. Refs(m) /\ Objects(m) /\ Links(m) /\ IterAt(m)' = IterAt(m) /\ PutsOf(m)' = PutsOf(m)
    BY <1>4, SameCounts DEF Inv
  <2>1. Refs(m)' /\ Objects(m)'
    BY <1>4, <2>0, KeepRefs, KeepObjects
  <2>2. CASE m # n
    <3>1. Adding(m)' <=> Adding(m)
      BY <1>5, <2>2 DEF Adding
    <3> QED BY <1>4, <1>8, <2>0, <2>1, <2>2, <3>1 DEF Links
  <2>3. CASE m = n
    <3>1. \A u \in Tasks : Apart(t, u)
      BY DEF Inv
    <3>2. \A u \in Tasks : u # t /\ pc[u] = "add" => node[u] # n
      BY <1>1, <3>1 DEF Apart
    <3>3. ~Adding(m)'
      BY <1>5, <2>3, <3>2 DEF Adding
    <3> QED BY <1>2, <1>4, <1>8, <2>1, <2>3, <3>3 DEF Links
  <2> QED BY <2>2, <2>3
<1>12. ASSUME NEW u \in Tasks PROVE Call(u)' /\ Wait(u)' /\ Ahead(u)'
  <2>1. Call(u) /\ Wait(u) /\ Ahead(u)
    BY DEF Inv
  <2>2. Call(u)'
    <3>1. CASE u = t
      BY <1>1, <1>4, <1>5, <3>1 DEF Call
    <3>2. CASE u # t
      <4>1. pc[u] = "add" => \A v \in Tasks : i_cur'[v] # node[u]
        BY <1>4, <2>1, NobodyAtAdded
      <4> QED BY <1>4, <1>5, <1>10, <2>1, <3>2, <4>1, KeepCall
    <3> QED BY <3>1, <3>2
  <2>3. Wait(u)'
    <3>1. CASE u = t
      BY <1>1, <1>4, <1>5, <3>1 DEF Wait
    <3>2. CASE u # t
      BY <1>4, <1>5, <2>1, <3>2, KeepWait
    <3> QED BY <3>1, <3>2
  <2>4. Ahead(u)'
    <3>1. todo[u] \subseteq Live
      BY <1>1, <2>1 DEF Ahead, Types
    <3>2. todo'[u] \subseteq Live' /\ todo'[u] \subseteq todo[u]
      BY <1>4, <1>10, <3>1
    <3> QED BY <1>1, <1>4, <1>8, <2>1, <3>2, KeepAhead
  <2> QED BY <2>2, <2>3, <2>4
<1>13. \A u, v \in Tasks : Apart(u, v)'
  <2>1. \A u \in Tasks : \/ pc'[u] = "out"
                         \/ /\ pc[u] # "out" /\ node'[u] = node[u]
                            /\ where'[u] = where[u]
    BY <1>5
  <2> QED BY <2>1, KeepApart DEF Inv
<1> QED BY <1>9, <1>11, <1>12, <1>13, Assemble
-----------------------------------------------------------------------------
\* An empty list, nobody inside:
LEMMA InitInv == Init => Inv
<1> SUFFICES ASSUME Init PROVE Inv
  OBVIOUS
<1>1. Nil \notin Nodes /\ Nil \in Nodes \cup {Nil} /\ <<"tail", Nil>> \in Places
      /\ <<"tail", Nil>>[2] = Nil
  BY KlistConstants DEF Places
<1>2. k_list \in Seq(Nodes) /\ NoDup(k_list) /\ Linked = {}
  <2>1. k_list \in Seq(Nodes) /\ DOMAIN k_list = {} /\ 1..Len(k_list) = {}
    BY SMT DEF Init
  <2>2. Linked = {}
    BY <2>1 DEF Linked, Range
  <2> QED BY <2>1, <2>2 DEF NoDup
<1>3. Types
  <2>1. n_ref \in [Nodes -> Int] /\ got \in [Nodes -> Int]
    BY SMT DEF Init
  <2> QED BY <1>1, <1>2, <2>1 DEF Init, Types
<1>4. ASSUME NEW n \in Nodes PROVE Refs(n) /\ Objects(n) /\ Links(n)
  <2>1. (\A t \in Tasks : i_cur[t] # n) /\ (\A t \in Tasks : putting[t] # n)
    BY <1>1 DEF Init
  <2>2. Number(i_cur, n) = 0 /\ Number(putting, n) = 0
    BY <2>1, NumberZero
  <2>3. 0 = 0 + 0
    BY SMT
  <2>4. n_ref[n] = 0 /\ got[n] = 0 /\ n_klist[n] = "null" /\ n \notin Linked
    BY <1>2 DEF Init
  <2> QED BY <2>2, <2>3, <2>4 DEF Refs, Objects, Links, IterAt, PutsOf, Eq, Ne
<1>5. ASSUME NEW t \in Tasks PROVE Call(t) /\ Wait(t) /\ Ahead(t)
  BY <1>1 DEF Init, Call, Wait, Ahead
<1>6. ASSUME NEW t \in Tasks, NEW u \in Tasks PROVE Apart(t, u)
  BY DEF Init, Apart
<1> QED BY <1>3, <1>4, <1>5, <1>6 DEF Inv

\* Every step keeps the invariant.
LEMMA NextInv == Inv /\ [Next]_vars => Inv'
<1> SUFFICES ASSUME Inv, [Next]_vars PROVE Inv'
  OBVIOUS
<1>1. CASE UNCHANGED vars
  <2>1. /\ k_list' = k_list /\ n_klist' = n_klist /\ n_ref' = n_ref /\ i_klist' = i_klist
        /\ i_cur' = i_cur /\ pc' = pc /\ node' = node /\ where' = where /\ waiters' = waiters
        /\ woken' = woken /\ state' = state /\ putting' = putting /\ got' = got /\ todo' = todo
    BY <1>1 DEF vars
  <2>2. UNCHANGED <<nodes, iters>> /\ SameAdding /\ Live' = Live
    BY <2>1 DEF nodes, iters, SameAdding, Live, Linked
  <2>3. Types'
    BY <2>1 DEF Inv, Types
  <2>4. \A n \in Nodes : Objects(n)'
    BY <2>1, NoPut
  <2>5. ASSUME NEW u \in Tasks PROVE Call(u)' /\ Wait(u)'
    <3>1. Call(u) /\ Wait(u)
      BY DEF Inv
    <3>2. pc[u] = "add" => \A v \in Tasks : i_cur'[v] # node[u]
      BY <2>1, <3>1, NobodyAtAdded
    <3>3. Call(u)'
      BY <2>1, <2>2, <3>1, <3>2, KeepCall
    <3>4. Wait(u)'
      BY <2>1, <3>1, KeepWait
    <3> QED BY <3>3, <3>4
  <2>6. \A u, v \in Tasks : Apart(u, v)'
    <3>1. \A u \in Tasks : \/ pc'[u] = "out"
                           \/ /\ pc[u] # "out" /\ node'[u] = node[u]
                              /\ where'[u] = where[u]
      BY <2>1
    <3> QED BY <3>1, KeepApart DEF Inv
  <2> QED BY <2>2, <2>3, <2>4, <2>5, <2>6, QuietStep
<1>2. ASSUME NEW t \in Tasks, AddNode(t) PROVE Inv'
  BY <1>2, NodeInitInv DEF AddNode
<1>3. ASSUME NEW t \in Tasks, DeleteNode(t) PROVE Inv'
  BY <1>3, DelInv DEF DeleteNode
<1>4. ASSUME NEW t \in Tasks, RemoveNode(t) PROVE Inv'
  BY <1>4, RemoveInv DEF RemoveNode
<1>5. ASSUME NEW t \in Tasks, Iterate(t) PROVE Inv'
  BY <1>5, IterInitInv DEF Iterate
<1>6. ASSUME NEW t \in Tasks, KlistNext(t) PROVE Inv'
  BY <1>6, NextNodeInv
<1>7. ASSUME NEW t \in Tasks, KlistIterExit(t) PROVE Inv'
  BY <1>7, IterExitInv
<1>8. ASSUME NEW t \in Tasks, KlistLink(t) PROVE Inv'
  BY <1>8, LinkInv
<1>9. ASSUME NEW t \in Tasks, PutObject(t) PROVE Inv'
  BY <1>9, PutObjectInv
<1>10. ASSUME NEW t \in Tasks, RemoveDel(t) PROVE Inv'
  BY <1>10, RemoveDelInv
<1>11. ASSUME NEW t \in Tasks,
              RemovePrepare(t) \/ RemoveTest(t) \/ RemoveScheduled(t) \/ StrayWakeup(t)
       PROVE  Inv'
  BY <1>11, WaitLoopInv
<1> QED BY <1>1, <1>2, <1>3, <1>4, <1>5, <1>6, <1>7, <1>8, <1>9, <1>10, <1>11 DEF Next, Continue

\* The inductive invariant: references, links and waiters agree, and what an
\* iteration has to visit lies ahead of it.
THEOREM KlistInvariant == Spec => []Inv
<1>1. Init => Inv
  BY InitInv
<1>2. Inv /\ [Next]_vars => Inv'
  BY NextInv
<1> QED BY <1>1, <1>2, PTL DEF Spec

\* Every variable keeps its type, and no count exceeds the tasks and the list.
THEOREM KlistTypeOK == Spec => []TypeOK
<1>1. Inv => TypeOK
  BY InvTells
<1> QED BY <1>1, KlistInvariant, PTL

\* A node's count is exact, and it stays linked as long as there is a reference.
THEOREM KlistRefExact == Spec => []RefExact
<1>1. Inv => RefExact
  BY InvTells
<1> QED BY <1>1, KlistInvariant, PTL

\* No iteration misses a node that was there when it began and was not deleted.
THEOREM KlistIterationComplete == Spec => []IterationComplete
<1>1. Inv => IterationComplete
  BY InvTells
<1> QED BY <1>1, KlistInvariant, PTL

\* The embedding object is held from before its node is linked until put().
THEOREM KlistObjectHeld == Spec => []ObjectHeld
<1>1. Inv => ObjectHeld
  BY InvTells
<1> QED BY <1>1, KlistInvariant, PTL

\* klist_remove() sleeps only while an iterator is at its node.
THEOREM KlistNoLostWakeup == Spec => []NoLostWakeup
<1>1. Inv => NoLostWakeup
  BY InvTells
<1> QED BY <1>1, KlistInvariant, PTL

\* klist_remove() returns with its node off the list and no iterator at it.
THEOREM KlistRemoveReturnsUnlinked == Spec => RemoveReturnsUnlinked
<1> DEFINE Returns == \A t \in Tasks : pc[t] = "test" /\ pc'[t] = "out" =>
                        node[t] \notin Linked /\ \A u \in Tasks : i_cur[u] # node[t]
<1>1. Inv /\ [Next]_vars => [Returns]_vars
  <2> SUFFICES ASSUME Inv, [Next]_vars, NEW t \in Tasks, pc[t] = "test", pc'[t] = "out"
               PROVE  node[t] \notin Linked /\ \A u \in Tasks : i_cur[u] # node[t]
    OBVIOUS
  <2>1. Types /\ Call(t) /\ Wait(t) /\ node[t] \in Nodes
    <3>1. Types /\ Call(t) /\ Wait(t)
      BY DEF Inv
    <3>2. node[t] # Nil /\ node[t] \in Nodes \cup {Nil}
      BY <3>1 DEF Call, Types
    <3> QED BY <3>1, <3>2
  <2>2. woken[t]
    <3>1. pc' # pc
      OBVIOUS
    <3>2. \A u \in Tasks : \A l \in {"add", "remove", "prepare", "test", "schedule"} :
             pc' # [pc EXCEPT ![u] = l]
      BY <2>1 DEF Types
    <3>3. \A u \in Tasks : pc' = [pc EXCEPT ![u] = "out"] => u = t
      BY <2>1 DEF Types
    <3>4. ~UNCHANGED vars
      BY <3>1 DEF vars
    <3>5. \A u \in Tasks : ~AddNode(u) /\ ~DeleteNode(u) /\ ~RemoveNode(u) /\ ~Iterate(u)
      BY ZenonT(30), <3>1, <3>2 DEF AddNode, DeleteNode, RemoveNode, Iterate, KlistNodeInit,
                                   KlistDel, KlistRemove, KlistIterInitNode
    <3>6. \A u \in Tasks : ~KlistNext(u) /\ ~KlistIterExit(u) /\ ~StrayWakeup(u) /\ ~PutObject(u)
      BY <3>1 DEF KlistNext, KlistIterExit, StrayWakeup, PutObject
    <3>7. \A u \in Tasks : ~RemoveDel(u) /\ ~RemovePrepare(u) /\ ~RemoveScheduled(u)
      BY <3>2 DEF RemoveDel, RemovePrepare, RemoveScheduled
    <3>8. PICK u \in Tasks : KlistLink(u) \/ RemoveTest(u)
      BY <3>4, <3>5, <3>6, <3>7 DEF Next, Continue
    <3>9. CASE KlistLink(u)
      BY <3>3, <3>9 DEF KlistLink
    <3>10. CASE RemoveTest(u)
      <4>1. pc' = [pc EXCEPT ![u] = "out"] /\ woken[u]
        BY <3>2, <3>10 DEF RemoveTest
      <4> QED BY <3>3, <4>1
    <3> QED BY <3>8, <3>9, <3>10
  <2>3. n_klist[node[t]] = "null"
    BY <2>1, <2>2 DEF Wait
  <2>4. Refs(node[t]) /\ Links(node[t])
    BY <2>1 DEF Inv
  <2>5. node[t] \notin Linked
    BY <2>3, <2>4 DEF Links
  <2>6. \A u \in Tasks : i_cur[u] # node[t]
    BY <2>1, <2>5, LastReference
  <2> QED BY <2>5, <2>6
<1>2. Spec => [][Returns]_vars
  <2> HIDE DEF Returns
  <2> QED BY <1>1, KlistInvariant, PTL DEF Spec
<1> QED BY <1>2 DEF RemoveReturnsUnlinked
=============================================================================
