-------------------------------- MODULE Klist -------------------------------
(***************************************************************************)
(* The `klist` component (klist/src/klist.c): a list that can be changed   *)
(* while it is being iterated over.  An iterator holds a reference to its  *)
(* current node; a deleted node is dead at once but stays linked until its *)
(* last iterator has moved on, and klist_remove() sleeps until then.       *)
(*                                                                         *)
(* k_lock makes every critical section one step; initialising a node, the  *)
(* put() callback and the sleep of klist_remove() lie outside it.          *)
(***************************************************************************)
EXTENDS KernelList, TaskState, FiniteSets

CONSTANTS
  Tasks,
  Nodes,
  Nil

ASSUME KlistConstants ==
  IsFiniteSet(Tasks) /\ Nil \notin Nodes

VARIABLES
  k_list,   \* k->k_list
  n_klist,  \* n->n_klist: "null", "klist", or "dead" (KNODE_DEAD set)
  n_ref,    \* n->n_ref
  i_klist,  \* the iterator: unused, going "next" or "prev", or at the "end"
  i_cur,    \* its current node
  pc,       \* "out", or where in klist_add_* or klist_remove the task is
  node,     \* the node it adds or removes
  where,    \* klist_add_*: where to link it, next to which node
  waiters,  \* klist_remove_waiters: the tasks of the queued waiters
  woken,    \* waiter.woken
  state,    \* current->state
  putting,  \* the node the task is about to call k->put() for
  got,      \* ghost: k->get() calls less k->put() calls
  todo      \* ghost: live nodes an iteration started with and has still to visit

nodes == <<k_list, n_klist, n_ref>>
iters == <<i_klist, i_cur, todo>>
adds == <<node, where>>
sleep == <<waiters, woken, state>>
vars == <<k_list, n_klist, n_ref, i_klist, i_cur, pc, node, where, waiters, woken, state,
          putting, got, todo>>

Init ==
  /\ k_list = <<>>
  /\ n_klist = [n \in Nodes |-> "null"]
  /\ n_ref = [n \in Nodes |-> 0]
  /\ i_klist = [t \in Tasks |-> "none"]
  /\ i_cur = [t \in Tasks |-> Nil]
  /\ pc = [t \in Tasks |-> "out"]
  /\ node = [t \in Tasks |-> Nil]
  /\ where = [t \in Tasks |-> <<"tail", Nil>>]
  /\ waiters = {}
  /\ woken = [t \in Tasks |-> FALSE]
  /\ state = [t \in Tasks |-> TASK_RUNNING]
  /\ putting = [t \in Tasks |-> Nil]
  /\ got = [n \in Nodes |-> 0]
  /\ todo = [t \in Tasks |-> {}]
-----------------------------------------------------------------------------
\* Free to make a call.
Ready(t) == pc[t] = "out" /\ putting[t] = Nil

\* Callers add a node that is not attached, and one of them removes it; a node
\* is not removed while another one is being linked next to it.
Busy(n) ==
  \E t \in Tasks : pc[t] # "out" /\ n \in {node[t], where[t][2]}

Linked == Range(k_list)
Live == {n \in Linked : n_klist[n] = "klist"}

\* klist_node_init: the node is attached and referenced, not linked yet.
KlistNodeInit(t, n, w) ==
  /\ Ready(t)
  /\ n_klist[n] = "null" /\ ~Busy(n)
  /\ w[1] \in {"behind", "before"} => w[2] \in Live /\ ~Busy(w[2])
  /\ n_ref' = [n_ref EXCEPT ![n] = 1]
  /\ n_klist' = [n_klist EXCEPT ![n] = "klist"]
  /\ got' = [got EXCEPT ![n] = @ + 1]
  /\ pc' = [pc EXCEPT ![t] = "add"]
  /\ node' = [node EXCEPT ![t] = n]
  /\ where' = [where EXCEPT ![t] = w]
  /\ UNCHANGED <<k_list, iters, sleep, putting>>

\* The list with n linked at a place.
Insert(list, n, w) ==
  LET at == CASE w[1] = "head" -> 1
              [] w[1] = "tail" -> Len(list) + 1
              [] w[1] = "behind" -> ListPos(list, w[2]) + 1
              [] w[1] = "before" -> ListPos(list, w[2])
  IN  ListInsert(list, at, n)

\* add_head, add_tail, klist_add_behind, klist_add_before.
KlistLink(t) ==
  /\ pc[t] = "add"
  /\ k_list' = Insert(k_list, node[t], where[t])
  /\ pc' = [pc EXCEPT ![t] = "out"]
  /\ node' = [node EXCEPT ![t] = Nil]
  /\ where' = [where EXCEPT ![t] = <<"tail", Nil>>]
  /\ UNCHANGED <<n_klist, n_ref, iters, sleep, putting, got>>
-----------------------------------------------------------------------------
\* The waiters for a node.
WaitersFor(n) == {t \in waiters : node[t] = n}

\* Mutant: the waiters are not looked for.
KlistReleaseSilent(n, last) ==
  /\ k_list' = IF last THEN list_del(k_list, n) ELSE k_list
  /\ UNCHANGED sleep

\* klist_release, if that was the last reference: unlink the node, and wake who
\* waits for it.  The caller resets n_klist.  One step, as on one CPU, where nothing
\* else runs under k_lock: klist_remove() reads `woken' without a lock, and on a second
\* CPU could read it before n_klist is reset.
KlistRelease(n, last) ==
  LET woke == IF last THEN WaitersFor(n) ELSE {} IN
  /\ k_list' = IF last THEN list_del(k_list, n) ELSE k_list
  /\ waiters' = waiters \ woke
  /\ woken' = [t \in Tasks |-> woken[t] \/ t \in woke]
  /\ state' = [t \in Tasks |-> IF t \in woke THEN TASK_RUNNING ELSE state[t]]

\* Mutant: a deleted node is released at once.
KlistPutNow(t, n, kill) ==
  LET last == kill \/ n_ref[n] = 1 IN
  /\ n_ref' = [n_ref EXCEPT ![n] = IF last THEN 0 ELSE @ - 1]
  /\ n_klist' = [n_klist EXCEPT ![n] = IF last THEN "null" ELSE @]
  /\ KlistRelease(n, last)
  /\ putting' = [putting EXCEPT ![t] = IF last THEN n ELSE Nil]

\* klist_put: drop a reference, the list's own one when the node is killed.
KlistPut(t, n, kill) ==
  LET last == n_ref[n] = 1 IN
  /\ n_ref' = [n_ref EXCEPT ![n] = @ - 1]
  /\ n_klist' = [n_klist EXCEPT ![n] = IF last THEN "null" ELSE IF kill THEN "dead" ELSE @]
  /\ KlistRelease(n, last)
  /\ putting' = [putting EXCEPT ![t] = IF last THEN n ELSE Nil]

\* A deleted node need not be visited.
Excuse(n) == todo' = [t \in Tasks |-> todo[t] \ {n}]

\* put(n) after k_lock is dropped.
PutObject(t) ==
  /\ putting[t] # Nil
  /\ got' = [got EXCEPT ![putting[t]] = @ - 1]
  /\ putting' = [putting EXCEPT ![t] = Nil]
  /\ UNCHANGED <<nodes, iters, pc, adds, sleep>>

KlistDel(t, n) ==
  /\ Ready(t)
  /\ n \in Live /\ ~Busy(n)
  /\ KlistPut(t, n, TRUE) /\ Excuse(n)
  /\ UNCHANGED <<i_klist, i_cur, pc, adds, got>>

\* klist_remove up to klist_del().  Its caller is not inside an iteration over
\* the same list, where it might wait for itself.
KlistRemove(t, n) ==
  /\ Ready(t) /\ i_klist[t] = "none"
  /\ n \in Live /\ ~Busy(n)
  /\ pc' = [pc EXCEPT ![t] = "remove"]
  /\ node' = [node EXCEPT ![t] = n]
  /\ waiters' = waiters \cup {t}
  /\ woken' = [woken EXCEPT ![t] = FALSE]
  /\ UNCHANGED <<nodes, iters, where, state, putting, got>>

RemoveDel(t) ==
  /\ pc[t] = "remove"
  /\ KlistPut(t, node[t], TRUE) /\ Excuse(node[t])
  /\ pc' = [pc EXCEPT ![t] = "prepare"]
  /\ UNCHANGED <<i_klist, i_cur, adds, got>>

\* The wait loop: set_current_state(), the test, schedule().
RemovePrepare(t) ==
  /\ pc[t] = "prepare" /\ putting[t] = Nil
  /\ state' = [state EXCEPT ![t] = TASK_UNINTERRUPTIBLE]
  /\ pc' = [pc EXCEPT ![t] = "test"]
  /\ UNCHANGED <<nodes, iters, adds, waiters, woken, putting, got>>

\* Mutant: schedule() returning is taken for the wake-up.
RemoveTestOnce(t) ==
  /\ pc[t] = "test"
  /\ IF woken[t] \/ state[t] = TASK_RUNNING
     THEN /\ pc' = [pc EXCEPT ![t] = "out"]
          /\ state' = [state EXCEPT ![t] = TASK_RUNNING]
          /\ node' = [node EXCEPT ![t] = Nil]
     ELSE /\ pc' = [pc EXCEPT ![t] = "schedule"]
          /\ UNCHANGED <<state, node>>
  /\ UNCHANGED <<nodes, iters, where, waiters, woken, putting, got>>

RemoveTest(t) ==
  /\ pc[t] = "test"
  /\ IF woken[t]
     THEN /\ pc' = [pc EXCEPT ![t] = "out"]
          /\ state' = [state EXCEPT ![t] = TASK_RUNNING]
          /\ node' = [node EXCEPT ![t] = Nil]
     ELSE /\ pc' = [pc EXCEPT ![t] = "schedule"]
          /\ UNCHANGED <<state, node>>
  /\ UNCHANGED <<nodes, iters, where, waiters, woken, putting, got>>

RemoveScheduled(t) ==
  /\ pc[t] = "schedule" /\ state[t] = TASK_RUNNING
  /\ pc' = [pc EXCEPT ![t] = "prepare"]
  /\ UNCHANGED <<nodes, iters, adds, sleep, putting, got>>

\* wake_up_process() by somebody who knows nothing of klists.
StrayWakeup(t) ==
  /\ state[t] = TASK_UNINTERRUPTIBLE
  /\ state' = [state EXCEPT ![t] = TASK_RUNNING]
  /\ UNCHANGED <<nodes, iters, pc, adds, waiters, woken, putting, got>>
-----------------------------------------------------------------------------
\* The nodes beyond n (all of them for Nil) in the direction of an iteration, and
\* the one of a set of them it comes to first.
Beyond(n, dir) ==
  {m \in Linked : \/ n = Nil
                  \/ dir = "next" /\ Precedes(k_list, n, m)
                  \/ dir = "prev" /\ Precedes(k_list, m, n)}
First(S, dir) == CHOOSE m \in S : S \ {m} \subseteq Beyond(m, dir)

\* klist_iter_init_node: n is Nil, or a node whose object the caller holds.  A
\* node that is dead but linked still is a place to start from.
KlistIterInitNode(t, n, dir) ==
  LET from == IF n # Nil /\ n_ref[n] > 0 THEN n ELSE Nil IN
  /\ Ready(t) /\ i_klist[t] = "none"
  /\ n # Nil => ~\E u \in Tasks : pc[u] = "add" /\ node[u] = n
  /\ i_klist' = [i_klist EXCEPT ![t] = dir]
  /\ i_cur' = [i_cur EXCEPT ![t] = from]
  /\ n_ref' = [m \in Nodes |-> IF m = from THEN n_ref[m] + 1 ELSE n_ref[m]]
  /\ todo' = [todo EXCEPT ![t] = Live \cap Beyond(from, dir)]
  /\ UNCHANGED <<k_list, n_klist, pc, adds, sleep, putting, got>>

\* Mutant: a dead node ends the iteration.
LiveBeyondFirst(n, dir) ==
  LET s == Beyond(n, dir) IN
  IF s = {} \/ First(s, dir) \notin Live THEN Nil ELSE First(s, dir)

\* The first live node beyond n.
LiveBeyond(n, dir) ==
  LET s == Live \cap Beyond(n, dir) IN
  IF s = {} THEN Nil ELSE First(s, dir)

\* Mutant: put() is not called for the node left behind.
KlistNextNoPut(t) ==
  LET last == i_cur[t]
      next == LiveBeyond(last, i_klist[t])
      gone == last # Nil /\ n_ref[last] = 1
  IN
  /\ Ready(t) /\ i_klist[t] \in {"next", "prev"}
  /\ n_ref' = [n \in Nodes |-> n_ref[n] + (IF n = next THEN 1 ELSE 0)
                                        - (IF n = last THEN 1 ELSE 0)]
  /\ n_klist' = [n \in Nodes |-> IF gone /\ n = last THEN "null" ELSE n_klist[n]]
  /\ KlistRelease(last, gone)
  /\ i_cur' = [i_cur EXCEPT ![t] = next]
  /\ i_klist' = [i_klist EXCEPT ![t] = IF next = Nil THEN "end" ELSE @]
  /\ todo' = [todo EXCEPT ![t] = @ \ {next}]
  /\ UNCHANGED <<pc, adds, putting, got>>

\* klist_next and klist_prev.
KlistNext(t) ==
  LET last == i_cur[t]
      next == LiveBeyond(last, i_klist[t])
      gone == last # Nil /\ n_ref[last] = 1
  IN
  /\ Ready(t) /\ i_klist[t] \in {"next", "prev"}
  /\ n_ref' = [n \in Nodes |-> n_ref[n] + (IF n = next THEN 1 ELSE 0)
                                        - (IF n = last THEN 1 ELSE 0)]
  /\ n_klist' = [n \in Nodes |-> IF gone /\ n = last THEN "null" ELSE n_klist[n]]
  /\ KlistRelease(last, gone)
  /\ putting' = [putting EXCEPT ![t] = IF gone THEN last ELSE Nil]
  /\ i_cur' = [i_cur EXCEPT ![t] = next]
  /\ i_klist' = [i_klist EXCEPT ![t] = IF next = Nil THEN "end" ELSE @]
  /\ todo' = [todo EXCEPT ![t] = @ \ {next}]
  /\ UNCHANGED <<pc, adds, got>>

\* klist_iter_exit, at the end or anywhere.
KlistIterExit(t) ==
  /\ Ready(t) /\ i_klist[t] # "none"
  /\ i_klist' = [i_klist EXCEPT ![t] = "none"]
  /\ i_cur' = [i_cur EXCEPT ![t] = Nil]
  /\ todo' = [todo EXCEPT ![t] = {}]
  /\ IF i_cur[t] = Nil
     THEN UNCHANGED <<nodes, sleep, putting>>
     ELSE KlistPut(t, i_cur[t], FALSE)
  /\ UNCHANGED <<pc, adds, got>>
-----------------------------------------------------------------------------
Places == ({"head", "tail"} \X {Nil}) \cup ({"behind", "before"} \X Nodes)

AddNode(t) == \E n \in Nodes, w \in Places : w[2] # n /\ KlistNodeInit(t, n, w)
Iterate(t) ==
  \E n \in Nodes \cup {Nil}, dir \in {"next", "prev"} : KlistIterInitNode(t, n, dir)
DeleteNode(t) == \E n \in Nodes : KlistDel(t, n)
RemoveNode(t) == \E n \in Nodes : KlistRemove(t, n)

\* What a task that has entered the code goes on with.
Continue(t) ==
  \/ KlistLink(t) \/ PutObject(t)
  \/ RemoveDel(t) \/ RemovePrepare(t) \/ RemoveTest(t) \/ RemoveScheduled(t)

Next ==
  \E t \in Tasks :
    \/ AddNode(t) \/ DeleteNode(t) \/ RemoveNode(t) \/ Iterate(t)
    \/ KlistNext(t) \/ KlistIterExit(t)
    \/ Continue(t) \/ StrayWakeup(t)

Spec == Init /\ [][Next]_vars
-----------------------------------------------------------------------------
\* Type invariant.
TypeOK ==
  /\ k_list \in Seq(Nodes) /\ NoDup(k_list)
  /\ n_klist \in [Nodes -> {"null", "klist", "dead"}]
  /\ n_ref \in [Nodes -> 0..(Cardinality(Tasks) + 1)]
  /\ i_klist \in [Tasks -> {"none", "next", "prev", "end"}]
  /\ i_cur \in [Tasks -> Nodes \cup {Nil}]
  /\ pc \in [Tasks -> {"out", "add", "remove", "prepare", "test", "schedule"}]
  /\ node \in [Tasks -> Nodes \cup {Nil}]
  /\ where \in [Tasks -> Places]
  /\ waiters \in SUBSET Tasks
  /\ woken \in [Tasks -> BOOLEAN]
  /\ state \in [Tasks -> {TASK_RUNNING, TASK_UNINTERRUPTIBLE}]
  /\ putting \in [Tasks -> Nodes \cup {Nil}]
  /\ got \in [Nodes -> Nat]
  /\ todo \in [Tasks -> SUBSET Nodes]

\* A node's count is the list's own reference while it lives and one for each
\* iterator at it, and as long as there is one it is linked: the links an
\* iterator follows from its current node are valid even if that was deleted.
RefExact ==
  \A n \in Nodes :
    /\ n_ref[n] = (IF n_klist[n] = "klist" THEN 1 ELSE 0)
                    + Cardinality({t \in Tasks : i_cur[t] = n})
    /\ n_ref[n] = 0 <=> n_klist[n] = "null"
    /\ n \in Linked <=> n_ref[n] > 0 /\ ~\E t \in Tasks : pc[t] = "add" /\ node[t] = n

\* An iteration that reaches the end has visited every node that was on the list
\* when it started and was not deleted since, whatever was added, deleted or
\* released meanwhile.
IterationComplete == \A t \in Tasks : i_klist[t] = "end" => todo[t] = {}

\* klist_remove() returns only when its node is off the list and no iterator is
\* at it, so that its caller may free the object: no stray wake-up makes it return
\* early.
RemoveReturnsUnlinked ==
  [][\A t \in Tasks : pc[t] = "test" /\ pc'[t] = "out" =>
       node[t] \notin Linked /\ \A u \in Tasks : i_cur[u] # node[t]]_vars

\* A task sleeps in klist_remove() only while some iterator is at its node.
NoLostWakeup ==
  \A t \in Tasks : pc[t] = "schedule" /\ state[t] = TASK_UNINTERRUPTIBLE =>
    \E u \in Tasks : i_cur[u] = node[t]

\* The embedding object is held, by exactly one reference per stay on the list,
\* from before the node is linked until put() after it is released.
ObjectHeld ==
  \A n \in Nodes :
    got[n] = (IF n_klist[n] = "null" THEN 0 ELSE 1)
               + Cardinality({t \in Tasks : putting[t] = n})
=============================================================================
