------------------------------ MODULE TaskLife ------------------------------
(***************************************************************************)
(* The life of tasks: clone, vfork, exit, the stop/continue/exit events a  *)
(* child publishes to its parent, wait4, reparenting, and the reaping of   *)
(* exited threads by the idle loop (kernel/fork.c, kernel/exit.c, the      *)
(* lifecycle half of kernel/task.c and kernel/pid.c).                      *)
(*                                                                         *)
(* The kernel is not preemptive and runs on one hart, so a system call is  *)
(* atomic up to the place where it sleeps: every action below runs from    *)
(* one switch of tasks to the next.  A task is named by its PID, since the *)
(* object and the PID are allocated and freed together.  Task 0 is idle.   *)
(* Kernel threads never exit and are left out; so is the exit of init,     *)
(* whose reparenting loop never ends.                                      *)
(***************************************************************************)
EXTENDS Naturals, FiniteSets, Sequences, SequencesExt

CONSTANTS
  PidMax,     \* PID_MAX: the last PID the bitmap can hand out
  MaxEvents,  \* bound on the stop/continue events a child has queued
  Masks       \* the event masks wait4 is called with

Task == 1..PidMax
idle_pid == 0
init_task == 1
AnyChild == 0

EventType == {"STOP", "CONTINUE", "EXIT"}

VARIABLES
  task,            \* the task structures, by PID
  current,         \* the running task
  exited_threads   \* zombie threads the idle loop has to reap

vars == <<task, current, exited_threads>>

(***************************************************************************)
(* One task structure.  pc is where the task is in the kernel ("user" when *)
(* it is in no blocking call), wpid and mask the arguments of its wait4 or *)
(* the child its vfork waits for, sig the signal that would interrupt it,  *)
(* group its thread_group list and vfork the state of its completion.      *)
(***************************************************************************)
TaskStruct ==
  [state : {"free", "running", "sleeping", "stopped", "zombie"},
   pc : {"user", "wait4", "vfork"},
   wpid : 0..PidMax,
   mask : SUBSET EventType,
   sig : {"none", "plain", "kill"},
   leader : 0..PidMax,
   parent : 0..PidMax,
   children : SUBSET Task,
   group : SUBSET Task,
   events : Seq(EventType),
   vfork : {"none", "active", "completed"}]

FreeTask ==
  [state |-> "free", pc |-> "user", wpid |-> 0, mask |-> {}, sig |-> "none",
   leader |-> 0, parent |-> 0, children |-> {}, group |-> {},
   events |-> <<>>, vfork |-> "none"]

task_is_group_leader(T, t) == T[t].leader = t

Runnable(T) == {t \in Task : T[t].state = "running"}

Live(T, t) == T[t].state \in {"running", "sleeping", "stopped"}

-----------------------------------------------------------------------------
(* Child events. *)

\* wait_channel_wake_one and wake_all on parent->links.wait_child_queue: the
\* only task that ever waits there is the parent itself.
wake_child_queue(T, p) ==
  IF p \in Task /\ T[p].state = "sleeping" /\ T[p].pc = "wait4"
  THEN [T EXCEPT ![p].state = "running"]
  ELSE T

task_child_matches(T, c, pid) ==
  task_is_group_leader(T, c) /\ pid \in {AnyChild, c}

HasEvent(T, c, mask) == \E i \in 1..Len(T[c].events) : T[c].events[i] \in mask

\* The children task_child_event_observe_locked may stop at.  The order of the
\* children list is not kept: any matching child may be the first.
EventChildren(T, p, pid, mask) ==
  {c \in T[p].children : task_child_matches(T, c, pid) /\ HasEvent(T, c, mask)}

task_child_event_observe(T, p, pid, mask) ==
  IF EventChildren(T, p, pid, mask) # {} THEN "EVENT"
  ELSE IF \E c \in T[p].children : task_child_matches(T, c, pid)
       THEN "NO_EVENT"
       ELSE "NO_CHILD"

\* The first queued event the mask selects.
task_child_event_find(T, c, mask) ==
  CHOOSE i \in 1..Len(T[c].events) :
    /\ T[c].events[i] \in mask
    /\ \A j \in 1..(i - 1) : T[c].events[j] \notin mask

\* Fault: the event is queued and nobody is woken.
publish_silent(T, c, e) == [T EXCEPT ![c].events = Append(@, e)]

task_child_event_publish(T, c, e) ==
  wake_child_queue([T EXCEPT ![c].events = Append(@, e)], T[c].parent)

\* task_reparent_children_locked: the children go to init_task, which is woken
\* when one of them has an event queued.
task_reparent_children(T, dead) ==
  LET U == [t \in Task |->
              [T[t] EXCEPT
                 !.parent = IF t \in T[dead].children THEN init_task ELSE @,
                 !.children = CASE t = dead -> {}
                                [] t = init_task -> @ \cup T[dead].children
                                [] OTHER -> @]]
  IN IF \E c \in T[dead].children : T[c].events # <<>>
     THEN wake_child_queue(U, init_task)
     ELSE U

-----------------------------------------------------------------------------
(* Exit. *)

\* Only the parent that called vfork waits on the completion.
kernel_clone_complete_vfork(T, t) ==
  IF T[t].vfork = "active"
  THEN [u \in Task |->
          CASE u = t -> [T[t] EXCEPT !.vfork = "completed"]
            [] T[u].pc = "vfork" /\ T[u].wpid = t /\ T[u].state = "sleeping" ->
                 [T[u] EXCEPT !.state = "running"]
            [] OTHER -> T[u]]
  ELSE T

\* finish_task_exit: wait_cancel_task forgets the wait the task was in, the
\* vfork completes, then a leader publishes its exit and hands over its
\* children, and a thread leaves its group.
finish_task_exit(T, t) ==
  IF T[t].state \in {"zombie", "free"} THEN T
  ELSE LET U == kernel_clone_complete_vfork(T, t)
           Z == [U EXCEPT ![t] = [@ EXCEPT !.state = "zombie", !.pc = "user",
                                           !.wpid = 0, !.mask = {},
                                           !.sig = "none"]]
       IN IF task_is_group_leader(T, t)
          THEN task_child_event_publish(task_reparent_children(Z, t), t, "EXIT")
          ELSE [Z EXCEPT ![T[t].leader].group = @ \ {t}]

\* release_task on a zombie child: task_child_release_zombie unlinks it from its
\* parent, then task_put frees the object and the PID.  The parent it wakes is
\* the caller.
release_task(T, t) ==
  [T EXCEPT ![t] = FreeTask, ![T[t].parent].children = @ \ {t}]

\* reap_other_threads finishes and releases every thread in S: each one leaves
\* the group, and waking its parent, the exiting leader, wakes no sleeper.
reap_other_threads(T, l, S) ==
  [t \in Task |-> CASE t \in S -> FreeTask
                    [] t = l -> [T[t] EXCEPT !.group = @ \ S]
                    [] OTHER -> T[t]]

\* do_exit_status: the task table, and the threads added to exited_threads.
do_exit_status(T, t) ==
  IF task_is_group_leader(T, t)
  THEN <<finish_task_exit(reap_other_threads(T, t, T[t].group), t), {}>>
  ELSE <<finish_task_exit(T, t), {t}>>

\* do_exit_group: the leader first, then the other threads, then the caller.
do_exit_group(T, t) ==
  LET l == T[t].leader
      U == IF l = t THEN T ELSE finish_task_exit(T, l)
      V == reap_other_threads(U, l, U[l].group \ {t})
  IN <<finish_task_exit(V, t), IF l = t THEN {} ELSE {t}>>

-----------------------------------------------------------------------------
(* Scheduling between the calls. *)

\* schedule() from a task that sleeps: with nothing runnable it waits for an
\* interrupt inside the task.
SwitchFromSleep(T, t) ==
  IF Runnable(T) = {} THEN current' = t ELSE current' \in Runnable(T)

\* schedule() from a task that stopped or exited: idle runs if nothing else.
SwitchAway(T) ==
  IF Runnable(T) = {} THEN current' = idle_pid ELSE current' \in Runnable(T)

\* t is current and executing, outside any blocking call and not about to be
\* killed on its way back to user mode.
InUser(t) ==
  /\ current = t
  /\ task[t].state = "running"
  /\ task[t].pc = "user"

Calls(t) == InUser(t) /\ task[t].sig # "kill"

\* The timer, or a sleeping current task that finds others runnable.
Reschedule ==
  /\ current # idle_pid
  /\ \/ InUser(current) /\ task[current].sig # "kill"
     \/ task[current].state = "sleeping"
  /\ current' \in Runnable(task) \ {current}
  /\ UNCHANGED <<task, exited_threads>>

\* The idle loop releases every exited thread, then schedules.  The only effect
\* of task_child_release_zombie outside the threads is to wake the task their
\* parent link points at.  When that structure has been freed there is nobody
\* to wake, when its PID is in use again the new owner is woken; what else the
\* freed memory may hold by then is not modelled.
IdleLoop ==
  LET Leaders == {task[t].parent : t \in exited_threads}
  IN /\ current = idle_pid
     /\ task' = [t \in Task |->
          CASE t \in exited_threads -> FreeTask
            [] /\ t \in Leaders \ exited_threads
               /\ task[t].state = "sleeping"
               /\ task[t].pc = "wait4" -> [task[t] EXCEPT !.state = "running"]
            [] OTHER -> task[t]]
     /\ exited_threads' = {}
     /\ SwitchAway(task')
     /\ exited_threads # {} \/ current' # current

-----------------------------------------------------------------------------
(* clone, vfork, exec. *)

\* bitmap_find_first_zero: the lowest free PID, none when all are taken.
alloc_pid(T) == {p \in Task : /\ T[p].state = "free"
                              /\ \A q \in 1..(p - 1) : T[q].state # "free"}

NewTask(l, parent, vfork) ==
  [FreeTask EXCEPT !.state = "running", !.leader = l, !.parent = parent,
                   !.vfork = vfork]

\* clone without CLONE_THREAD and without CLONE_VFORK, by a group leader.
Fork(t) ==
  /\ Calls(t)
  /\ task_is_group_leader(task, t)
  /\ \E p \in alloc_pid(task) :
       task' = [task EXCEPT ![p] = NewTask(p, t, "none"),
                            ![t].children = @ \cup {p}]
  /\ UNCHANGED <<current, exited_threads>>

\* Fault: the new thread is not linked into its group.
CloneThread_unlinked(t) ==
  /\ Calls(t)
  /\ \E p \in alloc_pid(task) :
       LET l == task[t].leader
       IN task' = [task EXCEPT ![p] = NewTask(l, l, "none")]
  /\ UNCHANGED <<current, exited_threads>>

\* clone with CLONE_THREAD: the parent link points at the group leader, whose
\* children list the thread does not join.
CloneThread(t) ==
  /\ Calls(t)
  /\ \E p \in alloc_pid(task) :
       LET l == task[t].leader
       IN task' = [task EXCEPT ![p] = NewTask(l, l, "none"),
                               ![l].group = @ \cup {p}]
  /\ UNCHANGED <<current, exited_threads>>

\* clone with CLONE_VFORK: the caller sleeps killably for the child.
Vfork(t) ==
  /\ Calls(t)
  /\ task_is_group_leader(task, t)
  /\ \E p \in alloc_pid(task) :
       task' = [task EXCEPT ![p] = NewTask(p, t, "active"),
                            ![t] = [@ EXCEPT !.children = @ \cup {p},
                                             !.state = "sleeping",
                                             !.pc = "vfork", !.wpid = p]]
  /\ SwitchFromSleep(task', t)
  /\ UNCHANGED exited_threads

ReturnToUser(T, t) ==
  [T EXCEPT ![t] = [@ EXCEPT !.pc = "user", !.wpid = 0, !.mask = {},
                             !.sig = IF @ = "plain" THEN "none" ELSE @]]

\* The vfork wait looks again: it ends with the completion or a fatal signal,
\* and nothing else wakes it.
VforkResume(t) ==
  /\ current = t
  /\ task[t].state = "running"
  /\ task[t].pc = "vfork"
  /\ task[task[t].wpid].vfork = "completed" \/ task[t].sig = "kill"
  /\ task' = ReturnToUser(task, t)
  /\ UNCHANGED <<current, exited_threads>>

\* exec completes the vfork; the rest of it is another module's business.
Exec(t) ==
  /\ Calls(t)
  /\ task[t].vfork = "active"
  /\ task' = kernel_clone_complete_vfork(task, t)
  /\ UNCHANGED <<current, exited_threads>>

-----------------------------------------------------------------------------
(* exit and wait4. *)

Leave(t, after) ==
  /\ task' = after[1]
  /\ exited_threads' = exited_threads \cup after[2]
  /\ SwitchAway(task')

\* do_exit, and do_exit_signal on the way back to user mode.
Exit(t) ==
  /\ InUser(t)
  /\ t # init_task
  /\ Leave(t, do_exit_status(task, t))

ExitGroup(t) ==
  /\ Calls(t)
  /\ ~task_is_group_leader(task, t)
  /\ task[t].leader # init_task
  /\ Leave(t, do_exit_group(task, t))

\* kernel_wait4 called: nothing happens until its loop looks at the children.
\* WNOHANG takes the same first look and otherwise changes nothing; neither
\* does a call that matches no child.
Wait4(t, pid, mask) ==
  /\ Calls(t)
  /\ \E c \in task[t].children : task_child_matches(task, c, pid)
  /\ task' = [task EXCEPT ![t] = [@ EXCEPT !.pc = "wait4", !.wpid = pid,
                                           !.mask = mask]]
  /\ UNCHANGED <<current, exited_threads>>

InWait4(t) ==
  /\ current = t
  /\ task[t].state = "running"
  /\ task[t].pc = "wait4"

Observed(t) == task_child_event_observe(task, t, task[t].wpid, task[t].mask)

\* Fault: the exit event is consumed and the child kept.
Wait4Event_keep(t) ==
  /\ InWait4(t)
  /\ \E c \in EventChildren(task, t, task[t].wpid, task[t].mask) :
       LET i == task_child_event_find(task, c, task[t].mask)
       IN task' = ReturnToUser(
                    [task EXCEPT ![c].events = RemoveAt(@, i)], t)
  /\ UNCHANGED <<current, exited_threads>>

\* An event is claimed, copied out and committed: nothing in between sleeps,
\* so the claim never outlives the call.  An exit event releases the child.
Wait4Event(t) ==
  /\ InWait4(t)
  /\ \E c \in EventChildren(task, t, task[t].wpid, task[t].mask) :
       LET i == task_child_event_find(task, c, task[t].mask)
           U == [task EXCEPT ![c].events = RemoveAt(@, i)]
       IN task' = ReturnToUser(IF task[c].events[i] = "EXIT"
                               THEN release_task(U, c) ELSE U, t)
  /\ UNCHANGED <<current, exited_threads>>

\* The event is claimed and the copy to user memory fails: the claim is
\* dropped and the event stays.  Also -ECHILD and -EINTR.
Wait4Fails(t) ==
  /\ InWait4(t)
  /\ Observed(t) = "NO_EVENT" => task[t].sig # "none"
  /\ task' = ReturnToUser(task, t)
  /\ UNCHANGED <<current, exited_threads>>

Wait4Sleep(t) ==
  /\ InWait4(t)
  /\ Observed(t) = "NO_EVENT"
  /\ task[t].sig = "none"
  /\ task' = [task EXCEPT ![t].state = "sleeping"]
  /\ SwitchFromSleep(task', t)
  /\ UNCHANGED exited_threads

-----------------------------------------------------------------------------
(* Signals, from another task or from an interrupt. *)

\* An ordinary signal interrupts wait4 and leaves vfork asleep.
Interrupt(t) ==
  /\ task[t].state = "sleeping"
  /\ task[t].pc = "wait4"
  /\ task' = [task EXCEPT ![t].state = "running", ![t].sig = "plain"]
  /\ UNCHANGED <<current, exited_threads>>

\* A fatal signal wakes interruptible and killable sleepers and stopped tasks.
\* A running one exits at its next return to user mode, where Exit may happen
\* anyway.  PID 1 is protected from default fatal signals.
Kill(t) ==
  /\ task[t].state \in {"sleeping", "stopped"}
  /\ t # init_task
  /\ task' = [task EXCEPT ![t].state = "running", ![t].sig = "kill"]
  /\ UNCHANGED <<current, exited_threads>>

\* stop_current: only a group leader reports it.
Stop(t) ==
  /\ Calls(t)
  /\ t # init_task
  /\ Len(task[t].events) < MaxEvents
  /\ LET U == [task EXCEPT ![t].state = "stopped"]
     IN task' = IF task_is_group_leader(task, t)
                THEN task_child_event_publish(U, t, "STOP") ELSE U
  /\ SwitchAway(task')
  /\ UNCHANGED exited_threads

\* SIGCONT to a stopped task.
Continue(t) ==
  /\ task[t].state = "stopped"
  /\ Len(task[t].events) < MaxEvents
  /\ LET U == [task EXCEPT ![t].state = "running"]
     IN task' = IF task_is_group_leader(task, t)
                THEN task_child_event_publish(U, t, "CONTINUE") ELSE U
  /\ UNCHANGED <<current, exited_threads>>

-----------------------------------------------------------------------------
Init ==
  /\ task = [t \in Task |->
       IF t = init_task
       THEN [FreeTask EXCEPT !.state = "running", !.leader = init_task]
       ELSE FreeTask]
  /\ current = init_task
  /\ exited_threads = {}

Next ==
  \/ Reschedule
  \/ IdleLoop
  \/ \E t \in Task :
       \/ Fork(t) \/ CloneThread(t) \/ Vfork(t) \/ VforkResume(t) \/ Exec(t)
       \/ Exit(t) \/ ExitGroup(t)
       \/ \E pid \in 0..PidMax, mask \in Masks : Wait4(t, pid, mask)
       \/ Wait4Event(t) \/ Wait4Fails(t) \/ Wait4Sleep(t)
       \/ Interrupt(t) \/ Kill(t) \/ Stop(t) \/ Continue(t)

Spec == Init /\ [][Next]_vars

-----------------------------------------------------------------------------
TypeOK ==
  /\ task \in [Task -> TaskStruct]
  /\ current \in 0..PidMax
  /\ exited_threads \subseteq Task

\* The family lists and the links back agree, whatever the order of clones and
\* exits: a children list holds exactly the leaders whose parent is its owner,
\* a thread_group list exactly the live threads of its leader; a leader's
\* parent is itself a live leader, so that reparenting leaves no orphan.
FamilyAgrees ==
  \A p \in Task :
    /\ task[p].children = {c \in Task : /\ task[c].state # "free"
                                        /\ task_is_group_leader(task, c)
                                        /\ task[c].parent = p}
    /\ task[p].group = {t \in Task \ {p} : Live(task, t) /\ task[t].leader = p}
    /\ (task[p].children # {} \/ task[p].group # {})
         => Live(task, p) /\ task_is_group_leader(task, p)

\* A leader that exited is a zombie with its exit event queued, last and only
\* once, until its parent consumes it: no exit status is lost or reported
\* twice, whatever the parent does and whoever adopts the child.
ExitReportedOnce ==
  \A t \in Task :
    LET e == task[t].events
    IN IF task[t].state = "zombie" /\ task_is_group_leader(task, t)
       THEN Len(e) > 0 /\ \A i \in 1..Len(e) : e[i] = "EXIT" <=> i = Len(e)
       ELSE \A i \in 1..Len(e) : e[i] # "EXIT"

\* No task sleeps in wait4 when there is something to report to it, or nothing
\* left to wait for; the children it had, and the ones it adopted, all count.
NoSleepThroughChild ==
  \A t \in Task :
    task[t].state = "sleeping" /\ task[t].pc = "wait4" => Observed(t) = "NO_EVENT"

\* A task asleep in vfork waits for a live child of its own that has neither
\* exited nor called exec: its wake-up is still to come.
VforkChildRuns ==
  \A t \in Task :
    task[t].state = "sleeping" /\ task[t].pc = "vfork" =>
      LET c == task[t].wpid
      IN Live(task, c) /\ task[c].parent = t /\ task[c].vfork = "active"

\* Every thread that exited by itself is on the list the idle loop reaps, and
\* nothing else is: none is leaked, and none is freed while it is linked.
ExitedThreadsQueued ==
  exited_threads = {t \in Task : /\ task[t].state = "zombie"
                                 /\ ~task_is_group_leader(task, t)}

\* A process is freed only as a zombie, and only by its parent, from wait4:
\* the PID is not reused while the exit status can still be asked for.
ReapStep ==
  \A t \in Task :
    task[t].leader = t /\ task'[t].state = "free" =>
      /\ task[t].state = "zombie"
      /\ current = task[t].parent
      /\ task[current].pc = "wait4"

\* The parent link of a thread points at a task structure that exists, as
\* task_child_release_zombie needs when the idle loop reaps the thread.
ThreadParentExists ==
  \A t \in Task :
    task[t].state # "free" /\ t # init_task =>
      task[task[t].parent].state # "free"
=============================================================================
