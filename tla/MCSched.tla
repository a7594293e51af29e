------------------------------ MODULE MCSched -------------------------------
(* Small instances of Sched for TLC. *)
EXTENDS Sched, TLC

CONSTANT Watched

Symmetry == Permutations(Task)

\* For the starvation run, which needs three tasks and no symmetry: tasks run,
\* sleep and are woken for ever, none is stopped or exits, and none yields.
NextLive ==
    \/ \E t \in Task : Create(t) \/ Wake(t)
    \/ Block \/ BlockRetry \/ UserReturn \/ Trap \/ IdleSchedule
    \/ IrqEnter \/ sched_tick

LiveSpec == Init /\ [][NextLive]_vars /\ Fairness

\* No starvation, for one task, the tasks being interchangeable: while it waits
\* in the run queue the others may sleep and wake as they like, and the periodic
\* boost of mlfq_tick still gets it the hart.
WatchedNotStarved == NoStarvation(Watched)
=============================================================================
