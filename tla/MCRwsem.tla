------------------------------- MODULE MCRwsem ------------------------------
(***************************************************************************)
(* Rwsem for TLC on one CPU with kernel preemption (CONFIG_PREEMPT, which  *)
(* is not the shipped configuration): another task may run after any       *)
(* access, but not while wait_lock is held, which is taken with interrupts *)
(* off.  One script of calls per task keeps the instance small.            *)
(***************************************************************************)
EXTENDS Rwsem, TLC

CONSTANTS t1, t2, t3

VARIABLE todo    \* the lock calls each task has yet to make

Script == (t1 :> <<"read", "write">>) @@ (t2 :> <<"write">>) @@ (t3 :> <<"read", "write">>)

\* The tasks that enter the lock in a step, and by which call.
Enters(t) == pc[t] = "out" /\ pc'[t] # "out"
Call(t) == IF pc'[t] \in {"r_slow", "r_own"} THEN "read" ELSE "write"

ScriptNext ==
  /\ \E t \in Tasks :
       \/ wait_lock \in {NoTask, t} /\ (DownRead(t) \/ DownWrite(t) \/ Progress(t))
       \/ wait_lock = NoTask /\ (Kill(t) \/ TimePasses(t))
  /\ \A t \in Tasks : Enters(t) => todo[t] # <<>> /\ Head(todo[t]) = Call(t)
  /\ todo' = [t \in Tasks |-> IF Enters(t) THEN Tail(todo[t]) ELSE todo[t]]

ScriptSpec == Init /\ todo = Script /\ [][ScriptNext]_<<vars, todo>>
=============================================================================
