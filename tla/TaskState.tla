----------------------------- MODULE TaskState ------------------------------
(***************************************************************************)
(* What a sleeping primitive sees of the scheduler: the state a task       *)
(* sleeps in, and which pending signals end a sleep in that state.         *)
(***************************************************************************)

TASK_RUNNING == "running"
TASK_INTERRUPTIBLE == "interruptible"
TASK_KILLABLE == "killable"
TASK_UNINTERRUPTIBLE == "uninterruptible"

SleepStates == {TASK_INTERRUPTIBLE, TASK_KILLABLE, TASK_UNINTERRUPTIBLE}
TaskStates == SleepStates \cup {TASK_RUNNING}

\* No signal, a signal that only interrupts, or SIGKILL.
Signals == {"none", "signal", "fatal"}

\* signal_pending_state: does the pending signal end a sleep in this state?
\* The same test decides whether signal_wake_up_state wakes the sleeper.
signal_pending_state(state, sig) ==
  \/ state = TASK_INTERRUPTIBLE /\ sig # "none"
  \/ state = TASK_KILLABLE /\ sig = "fatal"
=============================================================================
