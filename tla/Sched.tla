------------------------------- MODULE Sched --------------------------------
(***************************************************************************)
(* The single-hart scheduler: sched/sched.c over the four-level feedback    *)
(* queue of sched/mlfq.c, driven by the places that call it (task           *)
(* creation, wait_for, stop_current, exit, sched_yield, the timer           *)
(* interrupt, the user return path and the idle loop).                      *)
(*                                                                          *)
(* Run-queue operations are atomic here.  IrqSched models schedule() step   *)
(* by step, with the timer interrupt between the steps.                     *)
(***************************************************************************)
EXTENDS Integers, Sequences, FiniteSets, Queues

CONSTANTS Task,        \* every task except the idle task
          idle_task,
          HZ           \* ticks between two boosts

ASSUME SchedAssumption ==
    /\ IsFiniteSet(Task)
    /\ idle_task \notin Task
    /\ HZ \in Nat \ {0}

\* SCHED_MLFQ_LEVELS is a compile-time 4.
Levels == 0..3

VARIABLES current,         \* the task on the hart
          mode,            \* "user", "kernel", or "irq" inside the timer handler
          state,           \* lifecycle.state of each task
          queues,          \* one FIFO of tasks per level
          nonempty,        \* the nonempty_levels bitmap, as a set of levels
          runnable_count,
          sched_level, time_slice, need_resched,
          jiffies          \* modulo HZ: only jiffies % HZ is ever looked at

vars == <<current, mode, state, queues, nonempty, runnable_count, sched_level,
          time_slice, need_resched, jiffies>>
rq == <<queues, nonempty, runnable_count>>
entity == <<sched_level, time_slice, need_resched>>

\* "new" stands for a task not created yet, "sleeping" for the three sleep
\* states, "zombie" for TASK_ZOMBIE and TASK_DEAD.
States == {"new", "running", "sleeping", "stopped", "zombie"}

Queued == {t \in Task : \E l \in Levels : t \in Range(queues[l])}

-----------------------------------------------------------------------------
(* sched/mlfq.c                                                             *)

mlfq_level_slice(level) == CASE level = 0 -> 1
                             [] level = 1 -> 2
                             [] level = 2 -> 4
                             [] OTHER     -> 8

\* list_del_init of a queued task.
Unlink(q, t) == DelAt(q, CHOOSE i \in DOMAIN q : q[i] = t)

\* Fault: the bit of an emptied queue stays set.
refresh_empty_mark_stale(bits, level, q) == bits

\* The bitmap after level's queue shrank to q.
refresh_empty_mark(bits, level, q) == IF q = <<>> THEN bits \ {level} ELSE bits

\* Fault: only the top queue is looked at.
mlfq_empty_top == queues[0] = <<>>

mlfq_empty == nonempty = {}

\* Fault: the worst level first.
TopLevel_worst == CHOOSE l \in nonempty : \A m \in nonempty : l >= m

\* The first set bit: the best level with a task.
TopLevel == CHOOSE l \in nonempty : \A m \in nonempty : l <= m

mlfq_enqueue(t, level) ==
    /\ queues' = [queues EXCEPT ![level] = Append(@, t)]
    /\ nonempty' = nonempty \cup {level}
    /\ runnable_count' = runnable_count + 1

\* Fault: the list_empty(&task->run_list) early return comes too late.
mlfq_dequeue_unguarded(t) ==
    IF t \in Queued
    THEN LET q == Unlink(queues[sched_level[t]], t)
         IN  /\ queues' = [queues EXCEPT ![sched_level[t]] = q]
             /\ nonempty' = refresh_empty_mark(nonempty, sched_level[t], q)
             /\ runnable_count' = runnable_count - 1
    ELSE runnable_count' = runnable_count - 1 /\ UNCHANGED <<queues, nonempty>>

mlfq_dequeue(t) ==
    IF t \in Queued
    THEN LET q == Unlink(queues[sched_level[t]], t)
         IN  /\ queues' = [queues EXCEPT ![sched_level[t]] = q]
             /\ nonempty' = refresh_empty_mark(nonempty, sched_level[t], q)
             /\ runnable_count' = runnable_count - 1
    ELSE UNCHANGED rq

mlfq_wakeup(t) ==
    /\ time_slice' = [time_slice EXCEPT ![t] = mlfq_level_slice(sched_level[t])]
    /\ IF t \in Queued THEN UNCHANGED rq ELSE mlfq_enqueue(t, sched_level[t])
    /\ UNCHANGED <<sched_level, need_resched>>

\* Charge the running task one tick: <<level, slice, expired>> after it.
Charge(t) ==
    LET left == IF time_slice[t] > 0 THEN time_slice[t] - 1 ELSE 0
        next == IF sched_level[t] + 1 \in Levels
                THEN sched_level[t] + 1 ELSE sched_level[t]
    IN  IF left = 0 THEN <<next, mlfq_level_slice(next), TRUE>>
        ELSE <<sched_level[t], left, FALSE>>

\* Fault: the boost forgets the task on the hart.
Boosted_queued_only == Queued

\* Every queued task, and the running one, back to level 0 with a fresh slice,
\* in level order; tasks asleep keep their level.
Boosted == Queued \cup (IF current \in Task /\ state[current] = "running"
                        THEN {current} ELSE {})

mlfq_boost ==
    /\ queues' = [l \in Levels |-> IF l = 0
                                   THEN queues[0] \o queues[1] \o queues[2] \o queues[3]
                                   ELSE <<>>]
    /\ LET moved == {l \in Levels \ {0} : queues[l] # <<>>}
       IN  nonempty' = (nonempty \ moved) \cup (IF moved = {} THEN {} ELSE {0})
    /\ UNCHANGED runnable_count

\* Fault: no boost.
BoostDue_never == FALSE

\* Once every HZ ticks.
BoostDue == jiffies = 0

mlfq_tick ==
    LET charged == current \in Task /\ state[current] = "running"
        boost   == BoostDue
        after(t) == IF boost /\ t \in Boosted THEN <<0, mlfq_level_slice(0)>>
                    ELSE IF charged /\ t = current
                         THEN <<Charge(t)[1], Charge(t)[2]>>
                         ELSE <<sched_level[t], time_slice[t]>>
    IN  /\ sched_level' = [t \in Task |-> after(t)[1]]
        /\ time_slice' = [t \in Task |-> after(t)[2]]
        /\ need_resched' = [t \in Task |-> need_resched[t] \/
                                (charged /\ t = current /\ Charge(t)[3])]
        /\ IF boost THEN mlfq_boost ELSE UNCHANGED rq

-----------------------------------------------------------------------------
(* sched/sched.c                                                            *)

\* schedule(), entered with the running task in state st.
schedule(st) ==
    /\ need_resched' = [t \in Task |-> need_resched[t] /\ t # current]
    /\ IF mlfq_empty
       THEN /\ current' = IF current = idle_task \/ st = "running"
                          THEN current ELSE idle_task
            /\ UNCHANGED rq
       ELSE LET level   == TopLevel
                next    == Head(queues[level])
                rest    == [queues EXCEPT ![level] = Tail(@)]
                bits    == refresh_empty_mark(nonempty, level, rest[level])
                requeue == /\ next # current /\ current # idle_task
                           /\ st = "running" /\ current \notin Queued
            IN  /\ current' = next
                /\ IF requeue
                   THEN /\ queues' = [rest EXCEPT ![sched_level[current]] =
                                          Append(@, current)]
                        /\ nonempty' = bits \cup {sched_level[current]}
                        /\ UNCHANGED runnable_count
                   ELSE /\ queues' = rest
                        /\ nonempty' = bits
                        /\ runnable_count' = runnable_count - 1
    /\ mode' = "kernel"
    /\ UNCHANGED <<sched_level, time_slice, jiffies>>

sched_wake_task(t) ==
    /\ state' = [state EXCEPT ![t] = "running"]
    /\ IF t # current THEN mlfq_wakeup(t) ELSE UNCHANGED <<rq, entity>>

-----------------------------------------------------------------------------
(* The callers.                                                             *)

Init ==
    /\ current = idle_task /\ mode = "kernel"
    /\ state = [t \in Task |-> "new"]
    /\ queues = [l \in Levels |-> <<>>]
    /\ nonempty = {} /\ runnable_count = 0
    /\ sched_level = [t \in Task |-> 0]
    /\ time_slice = [t \in Task |-> mlfq_level_slice(0)]
    /\ need_resched = [t \in Task |-> FALSE]
    /\ jiffies = 0

\* The running task, when it is not the idle task and is executing kernel code.
InKernel == current \in Task /\ mode = "kernel" /\ state[current] = "running"

\* mlfq_task_init
mlfq_task_init(t) ==
    /\ sched_level' = [sched_level EXCEPT ![t] = 0]
    /\ time_slice' = [time_slice EXCEPT ![t] = mlfq_level_slice(0)]
    /\ need_resched' = [need_resched EXCEPT ![t] = FALSE]

\* kernel_thread and kernel_clone_commit: a new task at level 0.
Create(t) ==
    /\ current = idle_task \/ InKernel
    /\ mode = "kernel" /\ state[t] = "new"
    /\ state' = [state EXCEPT ![t] = "running"]
    /\ mlfq_task_init(t)
    /\ mlfq_enqueue(t, 0)
    /\ UNCHANGED <<current, mode, jiffies>>

\* A sleeping or stopped task is woken: by the running task in a system call,
\* or by a timer that expired inside the timer interrupt.
Wake(t) ==
    /\ mode = "irq" \/ InKernel
    /\ state[t] \in {"sleeping", "stopped"}
    /\ sched_wake_task(t)
    /\ UNCHANGED <<current, mode, jiffies>>

\* wait_for sleeps.  With another task runnable it schedules; with none it
\* stays on the hart and waits for an interrupt.
Block ==
    /\ InKernel
    /\ state' = [state EXCEPT ![current] = "sleeping"]
    /\ IF mlfq_empty THEN UNCHANGED <<current, mode, rq, entity, jiffies>>
       ELSE schedule("sleeping")

\* The interrupt ended the wait for it, and the sleeper found no outcome: it
\* goes round the wait_for loop and, some task being runnable now, schedules.
BlockRetry ==
    /\ mode = "kernel" /\ current \in Task /\ state[current] = "sleeping"
    /\ ~mlfq_empty
    /\ schedule("sleeping")
    /\ UNCHANGED state

\* Same, but its condition, a signal or its deadline ends the wait.
BlockDone ==
    /\ mode = "kernel" /\ current \in Task /\ state[current] = "sleeping"
    /\ state' = [state EXCEPT ![current] = "running"]
    /\ UNCHANGED <<current, mode, rq, entity, jiffies>>

stop_current ==
    /\ InKernel
    /\ state' = [state EXCEPT ![current] = "stopped"]
    /\ schedule("stopped")

exit_schedule ==
    /\ InKernel
    /\ state' = [state EXCEPT ![current] = "zombie"]
    /\ schedule("zombie")

\* Fault: a torn down thread stays queued.
detach_task_queues_linked(t) ==
    /\ InKernel /\ t # current /\ state[t] \notin {"new", "zombie"}
    /\ state' = [state EXCEPT ![t] = "zombie"]
    /\ UNCHANGED <<current, mode, rq, entity, jiffies>>

\* finish_task_exit on a sibling thread: it leaves the run queue.
detach_task_queues(t) ==
    /\ InKernel /\ t # current /\ state[t] \notin {"new", "zombie"}
    /\ mlfq_dequeue(t)
    /\ state' = [state EXCEPT ![t] = "zombie"]
    /\ UNCHANGED <<current, mode, entity, jiffies>>

sched_yield ==
    /\ InKernel
    /\ schedule("running")
    /\ UNCHANGED state

\* trap_user_return after a system call, a fault or a tick.
UserReturn ==
    /\ InKernel
    /\ IF need_resched[current]
       THEN schedule("running")
       ELSE /\ mode' = "user"
            /\ UNCHANGED <<current, rq, entity, jiffies>>
    /\ UNCHANGED state

\* A system call or a fault enters the kernel.
Trap ==
    /\ mode = "user" /\ mode' = "kernel"
    /\ UNCHANGED <<current, state, rq, entity, jiffies>>

\* The idle loop found a task to run.
IdleSchedule ==
    /\ current = idle_task /\ mode = "kernel" /\ ~mlfq_empty
    /\ schedule("running")
    /\ UNCHANGED state

\* The timer interrupt: jiffies++, then expired timers wake tasks (Wake), then
\* sched_tick.  From kernel mode it never reschedules, so both origins leave
\* the handler into kernel mode.
IrqEnter ==
    /\ mode # "irq" /\ mode' = "irq"
    /\ jiffies' = (jiffies + 1) % HZ
    /\ UNCHANGED <<current, state, rq, entity>>

sched_tick ==
    /\ mode = "irq" /\ mode' = "kernel"
    /\ mlfq_tick
    /\ UNCHANGED <<current, state, jiffies>>

Next ==
    \/ \E t \in Task : Create(t) \/ Wake(t) \/ detach_task_queues(t)
    \/ Block \/ BlockRetry \/ BlockDone \/ stop_current \/ exit_schedule \/ sched_yield
    \/ UserReturn \/ Trap \/ IdleSchedule \/ IrqEnter \/ sched_tick

Spec == Init /\ [][Next]_vars

\* The hart keeps executing: ticks keep coming, the handler returns, and a task
\* in the kernel, the idle loop and a sleeper waiting for an interrupt all move
\* on between two ticks however often they are interrupted.  Nothing is assumed
\* of what user programs do, nor that a task ever blocks, yields or is woken.
LeaveKernel == Block \/ stop_current \/ exit_schedule \/ sched_yield \/ UserReturn

Fairness ==
    /\ WF_vars(IrqEnter) /\ WF_vars(sched_tick)
    /\ SF_vars(LeaveKernel) /\ SF_vars(IdleSchedule) /\ SF_vars(BlockRetry)

FairSpec == Spec /\ Fairness

-----------------------------------------------------------------------------
(* Properties                                                               *)

\* Every variable keeps its type: mode, states, levels and counters stay in
\* range whatever the order of calls into the scheduler.
TypeOK ==
    /\ current \in Task \cup {idle_task}
    /\ mode \in {"user", "kernel", "irq"}
    /\ state \in [Task -> States]
    /\ queues \in [Levels -> Seq(Task)]
    /\ nonempty \subseteq Levels
    /\ runnable_count \in Nat
    /\ sched_level \in [Task -> Levels]
    /\ time_slice \in [Task -> 0..8]
    /\ need_resched \in [Task -> BOOLEAN]
    /\ jiffies \in 0..(HZ - 1)

\* A task is in the run queue exactly when it is runnable and not on the hart
\* ("a running task must not stay in the run queue", sched.md), so no runnable
\* task is ever lost and no sleeping or dead one is ever dispatched.
RunqueueExact == \A t \in Task : t \in Queued <=> state[t] = "running" /\ t # current

\* A queued task is linked once, and in the queue of its own level: the one
\* mlfq_dequeue will unlink it from.
QueuedOnce ==
    /\ \A l \in Levels : \A i, j \in DOMAIN queues[l] :
            queues[l][i] = queues[l][j] => i = j
    /\ \A l \in Levels : \A t \in Range(queues[l]) : sched_level[t] = l

\* The bitmap that mlfq_pick_next trusts marks exactly the non-empty queues: a
\* missing bit strands a queue, a stale one trips BUG_ON(list_empty(queue)).
BitmapExact == nonempty = {l \in Levels : queues[l] # <<>>}

\* runnable_count is the number of queued tasks.
CountExact == runnable_count = Cardinality(Queued)

\* A task always has budget left when it runs or waits to run, and never more
\* than its level grants: sched_account_tick never meets a spent slice.
BudgetInv == \A t \in Task : time_slice[t] \in 1..mlfq_level_slice(sched_level[t])

\* What the run queue keeps beside its lists always agrees with them.
Bookkeeping == QueuedOnce /\ BitmapExact /\ CountExact /\ BudgetInv

\* A task that gives up the hart while a better or equal one waits hands it to
\* a task of the best waiting level, whatever the bitmap says.
DispatchBest ==
    [][current' # current /\ current' \in Task
         => \A t \in Queued : sched_level[current'] <= sched_level[t]]_vars

\* A task's level improves only in a boost, and a boost leaves no runnable task
\* behind on a lower level.
BoostTotal ==
    [][(\E t \in Task : sched_level'[t] < sched_level[t])
         => \A t \in Task : state[t] = "running" => sched_level'[t] = 0]_vars

\* No starvation: a task waiting in the run queue gets the hart, or stops being
\* runnable, however the tasks above it behave; the periodic boost is what
\* makes this true.
NoStarvation(t) == t \in Queued ~> t \notin Queued

\* The scheduler implements its abstract specification.
runnable == {t \in Task : state[t] = "running"}
Abstract == INSTANCE RunSet
ImplementsRunSet == Abstract!Spec

=============================================================================
