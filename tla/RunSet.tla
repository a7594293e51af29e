------------------------------- MODULE RunSet -------------------------------
(***************************************************************************)
(* What the scheduler promises to the rest of the kernel, with no run      *)
(* queue in it: a set of runnable tasks and the one task on the hart.      *)
(* Every hand-over goes to a runnable task, and the hart goes idle, or      *)
(* waits for an interrupt inside a sleeping task, only when no other task   *)
(* could run.  Sched is shown to implement this module.                     *)
(***************************************************************************)
CONSTANTS Task, idle_task

VARIABLES current,    \* the task on the hart
          runnable    \* the tasks whose state is TASK_RUNNING

vars == <<current, runnable>>

TypeOK == current \in Task \cup {idle_task} /\ runnable \subseteq Task

Init == current = idle_task /\ runnable = {}

\* A task starts, or is woken, or is resumed after a stop.
Admit(t) ==
    /\ t \notin runnable
    /\ runnable' = runnable \cup {t}
    /\ UNCHANGED current

\* A task other than the running one is torn down by a sibling thread.
Remove(t) ==
    /\ t # current
    /\ runnable' = runnable \ {t}
    /\ UNCHANGED current

\* The hart is handed to another runnable task; the task that gives it up
\* either stays runnable or has stopped being so.
Dispatch(t) ==
    /\ t \in runnable \ {current}
    /\ runnable' \in {runnable, runnable \ {current}}
    /\ current' = t

\* The running task stops being runnable and nothing else can run: the hart
\* goes idle, or waits for an interrupt in the task that went to sleep.
Quiesce ==
    /\ runnable \subseteq {current}
    /\ runnable' = {}
    /\ current' \in {current, idle_task}

Next == (\E t \in Task : Admit(t) \/ Remove(t) \/ Dispatch(t)) \/ Quiesce

Spec == Init /\ [][Next]_vars
=============================================================================
