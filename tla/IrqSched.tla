------------------------------ MODULE IrqSched ------------------------------
(***************************************************************************)
(* schedule() and the return from a trap, instruction group by instruction  *)
(* group, with the timer interrupt between any two of them whenever the      *)
(* hart's interrupt-enable bit (sstatus.SIE) allows it.                      *)
(*                                                                          *)
(* switch_to saves ra, sp and s0-s11 and leaves sstatus alone, so a task    *)
(* that is switched back in inherits the bit of whoever switched to it.     *)
(* One queue stands for one level of the MLFQ.                              *)
(***************************************************************************)
EXTENDS Naturals, Sequences, FiniteSets, Queues

CONSTANTS User,        \* tasks that run user programs
          Kthread,     \* kernel threads: they never leave the kernel
          idle_task,
          kernel_pc    \* any program counter inside the kernel

Task == User \cup Kthread
Thread == Task \cup {idle_task}

VARIABLES sie,         \* sstatus.SIE
          sepc,        \* the CSR: a task stands for its own user program counter
          current,     \* cpu->current_task
          hart,        \* the thread whose context the hart executes
          pc,          \* where each thread is
          cont,        \* where its pending schedule() returns to
          entry_sie,   \* SIE when its pending schedule() was entered
          next, tmp,   \* locals of schedule: the pick, a loaded runnable_count
          state, queue, mark, runnable_count,
          bug          \* BUG_ON(runnable_count == 0) fired

locals == <<cont, entry_sie>>
rq == <<queue, mark, runnable_count>>
vars == <<sie, sepc, current, hart, pc, locals, next, tmp, state, rq, bug>>

Linked(t) == t \in Range(queue)
At(p) == pc[hart] = p
Goto(p) == pc' = [pc EXCEPT ![hart] = p]

\* Every task starts queued, with the context kernel_thread or clone built for
\* it; the hart is in the idle loop, with interrupts on.
Init ==
    /\ sie = TRUE /\ sepc = kernel_pc
    /\ current = idle_task /\ hart = idle_task
    /\ pc = [t \in Thread |-> IF t = idle_task THEN "idle" ELSE "fresh"]
    /\ cont = [t \in Thread |-> "idle"] /\ entry_sie = [t \in Thread |-> TRUE]
    /\ next = idle_task /\ tmp = 0
    /\ state = [t \in Thread |-> "running"]
    /\ queue \in [1..Cardinality(Task) -> Task] /\ Distinct(queue)
    /\ mark = (Task # {}) /\ runnable_count = Len(queue)
    /\ bug = FALSE

-----------------------------------------------------------------------------
(* Entering the kernel and leaving it.                                      *)

\* A system call, a fault or an interrupt from user mode.
Trap ==
    /\ At("user") /\ Goto("kernel")
    /\ sie' = FALSE /\ sepc' = hart
    /\ UNCHANGED <<current, hart, locals, next, tmp, state, rq, bug>>

\* schedule() called from the code at c; its first act is to test the bitmap.
Call(c) ==
    /\ cont' = [cont EXCEPT ![hart] = c]
    /\ entry_sie' = [entry_sie EXCEPT ![hart] = sie]
    /\ Goto("test")

\* trap_user_return, with and without need_resched.
UserReturn ==
    /\ At("kernel") /\ hart \in User /\ state[hart] = "running"
    /\ Call("trapret") \/ (Goto("trapret") /\ UNCHANGED locals)
    /\ UNCHANGED <<sie, sepc, current, hart, next, tmp, state, rq, bug>>

\* __trapret: csrw sepc, then csrw sstatus (SIE clear in every trap frame taken
\* from user mode), then sret, which turns interrupts on for user mode.
trapret_sepc ==
    /\ At("trapret") /\ Goto("trapret_sstatus")
    /\ sepc' = hart
    /\ UNCHANGED <<sie, current, hart, locals, next, tmp, state, rq, bug>>

trapret_sstatus ==
    /\ At("trapret_sstatus") /\ Goto("sret")
    /\ sie' = FALSE
    /\ UNCHANGED <<sepc, current, hart, locals, next, tmp, state, rq, bug>>

sret ==
    /\ At("sret") /\ Goto("user")
    /\ sie' = TRUE
    /\ UNCHANGED <<sepc, current, hart, locals, next, tmp, state, rq, bug>>

\* wait_for: the task marks itself asleep, then wait_block_current schedules if
\* the bitmap shows a runnable task, and waits for an interrupt otherwise.
Sleep ==
    /\ At("kernel") /\ state[hart] = "running"
    /\ state' = [state EXCEPT ![hart] = "sleeping"]
    /\ Goto("block")
    /\ UNCHANGED <<sie, sepc, current, hart, locals, next, tmp, rq, bug>>

wait_block_current ==
    /\ At("block")
    /\ \/ state[hart] # "sleeping" /\ Goto("kernel") /\ UNCHANGED <<sie, locals>>
       \/ state[hart] = "sleeping" /\ mark /\ Call("kernel") /\ UNCHANGED sie
       \/ /\ state[hart] = "sleeping" /\ ~mark
          /\ entry_sie' = [entry_sie EXCEPT ![hart] = sie] /\ UNCHANGED cont
          /\ sie' = TRUE /\ Goto("wfi")
    /\ UNCHANGED <<sepc, current, hart, next, tmp, state, rq, bug>>

\* The wait for an interrupt ends; wait_finish_current_state makes the task
\* running again and it goes round the loop.
WfiDone ==
    /\ At("wfi") /\ Goto("kernel")
    /\ sie' = entry_sie[hart]
    /\ state' = [state EXCEPT ![hart] = "running"]
    /\ UNCHANGED <<sepc, current, hart, locals, next, tmp, rq, bug>>

\* The idle loop: local_irq_enable, schedule, wfi.
Idle ==
    /\ At("idle") /\ Call("idle") /\ sie' = TRUE
    /\ UNCHANGED <<sepc, current, hart, next, tmp, state, rq, bug>>

-----------------------------------------------------------------------------
(* schedule(), on the stack of the thread that called it.                   *)

\* mlfq_empty: with nothing queued a running caller keeps the hart, and a
\* sleeping one gives it to idle.
sched_test ==
    /\ At("test")
    /\ \/ mark /\ Goto("pick") /\ UNCHANGED next
       \/ ~mark /\ state[hart] = "running" /\ Goto("resumed") /\ UNCHANGED next
       \/ ~mark /\ state[hart] # "running" /\ next' = idle_task /\ Goto("set")
    /\ UNCHANGED <<sie, sepc, current, hart, locals, tmp, state, rq, bug>>

\* mlfq_pick_next and mlfq_dequeue: take the head; test whether that emptied
\* the list, and only then clear the mark; load runnable_count and store it
\* back less one.
dequeue_unlink ==
    /\ At("pick") /\ queue # <<>>
    /\ next' = Head(queue) /\ queue' = Tail(queue)
    /\ Goto("refresh")
    /\ UNCHANGED <<sie, sepc, current, hart, locals, tmp, state, mark, runnable_count, bug>>

refresh_test ==
    /\ At("refresh")
    /\ Goto(IF queue = <<>> THEN "clear" ELSE "load")
    /\ UNCHANGED <<sie, sepc, current, hart, locals, next, tmp, state, rq, bug>>

refresh_clear ==
    /\ At("clear") /\ Goto("load")
    /\ mark' = FALSE
    /\ UNCHANGED <<sie, sepc, current, hart, locals, next, tmp, state, queue, runnable_count, bug>>

count_load ==
    /\ At("load") /\ Goto("store")
    /\ tmp' = runnable_count /\ bug' = (runnable_count = 0)
    /\ UNCHANGED <<sie, sepc, current, hart, locals, next, state, rq>>

count_store ==
    /\ At("store") /\ ~bug
    /\ runnable_count' = tmp - 1
    /\ Goto(IF next = current THEN "resumed" ELSE "requeue")
    /\ UNCHANGED <<sie, sepc, current, hart, locals, next, tmp, state, queue, mark, bug>>

\* Fault: schedule() requeues its caller without looking at its state.
requeue_prev_asleep ==
    /\ At("requeue")
    /\ IF hart # idle_task /\ ~Linked(hart)
       THEN /\ queue' = Append(queue, hart) /\ mark' = TRUE
            /\ Goto("inc_load")
       ELSE Goto("set") /\ UNCHANGED <<queue, mark>>
    /\ UNCHANGED <<sie, sepc, current, hart, locals, next, tmp, state, runnable_count, bug>>

\* A caller that is still running goes back to the tail; what was decided here
\* is not looked at again.
requeue_prev ==
    /\ At("requeue")
    /\ IF hart # idle_task /\ state[hart] = "running" /\ ~Linked(hart)
       THEN /\ queue' = Append(queue, hart) /\ mark' = TRUE
            /\ Goto("inc_load")
       ELSE Goto("set") /\ UNCHANGED <<queue, mark>>
    /\ UNCHANGED <<sie, sepc, current, hart, locals, next, tmp, state, runnable_count, bug>>

inc_load ==
    /\ At("inc_load") /\ Goto("inc_store")
    /\ tmp' = runnable_count
    /\ UNCHANGED <<sie, sepc, current, hart, locals, next, state, rq, bug>>

inc_store ==
    /\ At("inc_store") /\ Goto("set")
    /\ runnable_count' = tmp + 1
    /\ UNCHANGED <<sie, sepc, current, hart, locals, next, tmp, state, queue, mark, bug>>

\* cpu_set_current_task, and then switch_to: between the two, current is the
\* next task but the hart still executes on the previous one's stack.
set_current ==
    /\ At("set") /\ Goto("switch")
    /\ current' = next
    /\ UNCHANGED <<sie, sepc, hart, locals, next, tmp, state, rq, bug>>

switch_to ==
    /\ At("switch")
    /\ hart' = next
    /\ pc' = [pc EXCEPT ![hart] = "off",
                        ![next] = IF pc[next] = "fresh" THEN "start" ELSE "resumed"]
    /\ UNCHANGED <<sie, sepc, current, locals, next, tmp, state, rq, bug>>

\* schedule() returns to its caller.
resume ==
    /\ At("resumed") /\ Goto(cont[hart])
    /\ UNCHANGED <<sie, sepc, current, hart, locals, next, tmp, state, rq, bug>>

\* A new context enters through __trapret: a user task goes to user mode, a
\* kernel thread to its function, with the SPIE bit task_setup_kthread set.
start ==
    /\ At("start")
    /\ IF hart \in User THEN Goto("trapret") /\ UNCHANGED sie
                        ELSE Goto("kernel") /\ sie' = TRUE
    /\ UNCHANGED <<sepc, current, hart, locals, next, tmp, state, rq, bug>>

-----------------------------------------------------------------------------
(* Wakeups.                                                                 *)

\* sched_wake_task and mlfq_wakeup: a sleeper becomes running, and is queued
\* unless it is current or already linked.
sched_wake_task(t) ==
    /\ state[t] = "sleeping"
    /\ state' = [state EXCEPT ![t] = "running"]
    /\ IF t # current /\ ~Linked(t)
       THEN /\ queue' = Append(queue, t) /\ mark' = TRUE
            /\ runnable_count' = runnable_count + 1
       ELSE UNCHANGED rq

\* A system call or a kernel thread wakes another task with IRQs off.
Wake ==
    /\ At("kernel") /\ ~sie
    /\ \E t \in Task : sched_wake_task(t)
    /\ UNCHANGED <<sie, sepc, current, hart, pc, locals, next, tmp, bug>>

\* The timer interrupt in kernel mode: it runs to its end with interrupts off,
\* wakes at most one task, and leaves the interrupted kernel pc in sepc.
TimerIrq ==
    /\ sie /\ ~At("user") /\ ~bug
    /\ sepc' = kernel_pc
    /\ \/ \E t \in Task : sched_wake_task(t)
       \/ UNCHANGED <<state, rq>>
    /\ UNCHANGED <<sie, current, hart, pc, locals, next, tmp, bug>>

\* After the BUG_ON the kernel has panicked and nothing more happens.
Panicked == bug /\ UNCHANGED vars

Next ==
    \/ Trap \/ UserReturn \/ trapret_sepc \/ trapret_sstatus \/ sret
    \/ Sleep \/ wait_block_current \/ WfiDone \/ Idle
    \/ sched_test \/ dequeue_unlink \/ refresh_test \/ refresh_clear
    \/ count_load \/ count_store \/ requeue_prev \/ inc_load \/ inc_store
    \/ set_current \/ switch_to \/ resume \/ start
    \/ Wake \/ TimerIrq \/ Panicked

Spec == Init /\ [][Next]_vars

-----------------------------------------------------------------------------
(* What holds although interrupts arrive anywhere in schedule().            *)

Points == {"fresh", "start", "off", "idle", "user", "kernel", "block", "wfi", "test",
           "pick", "refresh", "clear", "load", "store", "requeue", "inc_load",
           "inc_store", "set", "switch", "resumed", "trapret",
           "trapret_sstatus", "sret"}

\* The types of the hart's registers, the threads' control and the run queue.
TypeOK ==
    /\ sie \in BOOLEAN /\ sepc \in User \cup {kernel_pc}
    /\ current \in Thread /\ hart \in Thread
    /\ pc \in [Thread -> Points]
    /\ cont \in [Thread -> {"idle", "kernel", "trapret"}]
    /\ entry_sie \in [Thread -> BOOLEAN]
    /\ next \in Thread /\ tmp \in Nat
    /\ state \in [Thread -> {"running", "sleeping"}]
    /\ queue \in Seq(Task) /\ mark \in BOOLEAN /\ runnable_count \in Nat
    /\ bug \in BOOLEAN

\* No task is ever linked twice, and current is not linked, from its dispatch until
\* its own schedule() has requeued it: a wakeup that lands on a task half way through its own
\* schedule() finds it current and leaves the queue alone (sched_wake_task).
CurrentNotLinked ==
    /\ Distinct(queue)
    /\ pc[hart] \notin {"inc_load", "inc_store", "set", "switch"} => ~Linked(current)

\* switch_to never resumes a task that is asleep: every queued task, and the
\* task schedule() has picked, is runnable, whatever interrupted the pick.
DispatchRunnable ==
    /\ \A t \in Range(queue) : state[t] = "running"
    /\ At("switch") => state[next] = "running"

\* What schedule() promises, with interrupts anywhere in it.
DispatchSafe == CurrentNotLinked /\ DispatchRunnable

-----------------------------------------------------------------------------
(* What the documentation and the assertions say, and the code does not      *)
(* provide.                                                                 *)

\* schedule() returns with the interrupt state it was entered with.
IrqStatePreserved ==
    At("resumed") => sie = entry_sie[hart]

\* A task that is back in user mode is at its own program counter.
ReturnsToOwnPc ==
    At("user") => sepc = hart

\* Outside schedule(), every runnable task that is not current is in the queue
\* and the mark shows that the queue is not empty.
RunnableReachable ==
    pc[hart] \in {"user", "kernel", "idle"} =>
        \A t \in Task \ {current} : state[t] = "running" => Linked(t) /\ mark

\* BUG_ON(runnable_count == 0) in mlfq_dequeue never fires.
CountNeverZero == ~bug
=============================================================================
