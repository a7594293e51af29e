----------------------------- MODULE WaitQueue -----------------------------
(***************************************************************************)
(* wait_for() and the wait channels (kernel/waitqueue.c): any number of     *)
(* tasks wait for events on sets of channels, for signals and for deadlines  *)
(* while interrupts post events and signals and run the timers between any   *)
(* two steps of the waiter.                                                  *)
(*                                                                          *)
(* The kernel is not preemptive: only current takes steps of wait_for, and   *)
(* the hart changes hands in wait_block_current alone.                       *)
(***************************************************************************)
EXTENDS Integers, Sequences, Queues

CONSTANTS Task, Channel,
          Broadcast,    \* channels whose sources call wake_all; the others wake_one
          Idle          \* the idle task: it never waits

VARIABLES current,
          state,        \* lifecycle.state: running, sleeping or dead
          pc,           \* where each task is in wait_for; "out" is outside
          req,          \* the request of its call: channels, flags, deadline
          todo,         \* channels its check has yet to probe
          waiters,      \* channel->waiters
          timer_active, \* wait_for's flag
          armed,        \* its ktimer is in the timer queue
          active_wait,  \* task->active_wait is set
          waking,       \* channels on which a wake_all is under way
          ready,        \* the condition each channel stands for
          pending,      \* signal_pending
          due,          \* timer_now() >= deadline->expires
          outcome

kernel == <<current, state, waking>>
session == <<todo, waiters, timer_active, armed, active_wait>>
world == <<ready, pending, due>>
vars == <<kernel, pc, req, session, world, outcome>>

NoRequest == [chans |-> {}, interruptible |-> FALSE, deadline |-> FALSE]

\* What wait_for accepts: without channels there must be a deadline or signals.
Requests ==
    {r \in [chans : SUBSET Channel, interruptible : BOOLEAN, deadline : BOOLEAN] :
        r.chans # {} \/ r.deadline \/ r.interruptible}

Linked(t, c) == t \in Range(waiters[c])
Alive == {t \in Task : state[t] # "dead"}
Runnable == {t \in Task \ {current} : state[t] = "running"}

Init ==
    /\ current = Idle
    /\ state = [t \in Task |-> "running"]
    /\ pc = [t \in Task |-> "out"]
    /\ req = [t \in Task |-> NoRequest]
    /\ todo = [t \in Task |-> {}]
    /\ waiters = [c \in Channel |-> <<>>]
    /\ timer_active = [t \in Task |-> FALSE]
    /\ armed = [t \in Task |-> FALSE]
    /\ active_wait = [t \in Task |-> FALSE]
    /\ waking = {}
    /\ ready = [c \in Channel |-> FALSE]
    /\ pending = [t \in Task |-> FALSE]
    /\ due = [t \in Task |-> FALSE]
    /\ outcome = [t \in Task |-> "none"]

-----------------------------------------------------------------------------
(* wait_for, as the current task runs it.                                   *)

\* A wake_all runs to its end before the task it interrupted, or the task that
\* called it, goes on.
Runs(t) == current = t /\ waking = {}
At(t, p) == Runs(t) /\ pc[t] = p
Goto(t, p) == pc' = [pc EXCEPT ![t] = p]

\* Entry: the session is attached to the task.
Enter(t) ==
    /\ At(t, "out") /\ state[t] = "running"
    /\ \E r \in Requests :
        /\ req' = [req EXCEPT ![t] = r]
        /\ todo' = [todo EXCEPT ![t] = r.chans]
    /\ active_wait' = [active_wait EXCEPT ![t] = TRUE]
    /\ Goto(t, "check")
    /\ UNCHANGED <<kernel, waiters, timer_active, armed, world, outcome>>

Leave(t, o) ==
    /\ outcome' = [outcome EXCEPT ![t] = o]
    /\ Goto(t, "detach")

\* One channel of the request's check, under the source's lock: a ready source
\* ends the wait, any other is watched (wait_session_watch, prepare_wait_entry).
wait_check(t) ==
    /\ Runs(t) /\ pc[t] \in {"check", "recheck"}
    /\ \E c \in todo[t] :
        \/ /\ ready[c]
           /\ Leave(t, "event")
           /\ UNCHANGED <<todo, waiters>>
        \/ /\ ~ready[c]
           /\ todo' = [todo EXCEPT ![t] = @ \ {c}]
           /\ waiters' = [waiters EXCEPT ![c] = IF Linked(t, c) THEN @ ELSE Append(@, t)]
           /\ UNCHANGED <<pc, outcome>>
    /\ UNCHANGED <<kernel, req, timer_active, armed, active_wait, world>>

\* Fault: the deadline is only looked at before the timer is armed.
wait_arbitrate_early(t) ==
    /\ Runs(t) /\ pc[t] \in {"check", "recheck"} /\ todo[t] = {}
    /\ IF req[t].interruptible /\ pending[t] THEN Leave(t, "signal")
       ELSE IF req[t].deadline /\ due[t] /\ pc[t] = "check" THEN Leave(t, "timeout")
       ELSE /\ Goto(t, IF pc[t] = "check" THEN "arm" ELSE "block")
            /\ UNCHANGED outcome
    /\ UNCHANGED <<kernel, req, session, world>>

\* No source was ready: a signal ends the wait before a deadline does.
wait_arbitrate(t) ==
    /\ Runs(t) /\ pc[t] \in {"check", "recheck"} /\ todo[t] = {}
    /\ IF req[t].interruptible /\ pending[t] THEN Leave(t, "signal")
       ELSE IF req[t].deadline /\ due[t] THEN Leave(t, "timeout")
       ELSE /\ Goto(t, IF pc[t] = "check" THEN "arm" ELSE "block")
            /\ UNCHANGED outcome
    /\ UNCHANGED <<kernel, req, session, world>>

\* The deadline timer is started once per call.
wait_timer_start(t) ==
    /\ At(t, "arm") /\ Goto(t, "sleep")
    /\ IF req[t].deadline /\ ~timer_active[t]
       THEN /\ timer_active' = [timer_active EXCEPT ![t] = TRUE]
            /\ armed' = [armed EXCEPT ![t] = TRUE]
       ELSE UNCHANGED <<timer_active, armed>>
    /\ UNCHANGED <<kernel, req, todo, waiters, active_wait, world, outcome>>

\* Fault: no second check.
SetSleep_unchecked(t) ==
    /\ At(t, "sleep") /\ Goto(t, "block")
    /\ state' = [state EXCEPT ![t] = "sleeping"]
    /\ todo' = [todo EXCEPT ![t] = req[t].chans]
    /\ UNCHANGED <<current, waking, req, waiters, timer_active, armed, active_wait, world, outcome>>

\* The task declares itself asleep and only then checks for the last time.
SetSleep(t) ==
    /\ At(t, "sleep") /\ Goto(t, "recheck")
    /\ state' = [state EXCEPT ![t] = "sleeping"]
    /\ todo' = [todo EXCEPT ![t] = req[t].chans]
    /\ UNCHANGED <<current, waking, req, waiters, timer_active, armed, active_wait, world, outcome>>

\* A wakeup since the sleep state was set cancels the block; otherwise the hart
\* goes to another runnable task, or waits for an interrupt.
wait_block_current(t) ==
    /\ At(t, "block")
    /\ \/ state[t] # "sleeping" /\ Goto(t, "finish") /\ UNCHANGED current
       \/ /\ state[t] = "sleeping" /\ Goto(t, "finish")
          /\ \E u \in Runnable : current' = u
       \/ /\ state[t] = "sleeping" /\ Runnable = {} /\ Goto(t, "wfi")
          /\ UNCHANGED current
    /\ UNCHANGED <<state, waking, req, session, world, outcome>>

\* An interrupt ends the wait for one.
WfiDone(t) ==
    /\ At(t, "wfi") /\ Goto(t, "finish")
    /\ UNCHANGED <<kernel, req, session, world, outcome>>

\* wait_finish_current_state and round the loop again.
wait_finish_current_state(t) ==
    /\ At(t, "finish") /\ Goto(t, "check")
    /\ state' = [state EXCEPT ![t] = "running"]
    /\ todo' = [todo EXCEPT ![t] = req[t].chans]
    /\ UNCHANGED <<current, waking, req, waiters, timer_active, armed, active_wait, world, outcome>>

\* Every way out: the session is detached and the task is running again ...
wait_session_detach(t) ==
    /\ At(t, "detach") /\ Goto(t, "cleanup")
    /\ active_wait' = [active_wait EXCEPT ![t] = FALSE]
    /\ state' = [state EXCEPT ![t] = "running"]
    /\ UNCHANGED <<current, waking, req, todo, waiters, timer_active, armed, world, outcome>>

\* list_del_init of t's entry, wherever it is linked.
Unlink(q, t) ==
    IF t \in Range(q) THEN DelAt(q, CHOOSE i \in DOMAIN q : q[i] = t) ELSE q

Unlinked(t) == [c \in Channel |-> Unlink(waiters[c], t)]

\* The call's locals are gone; the next call has its own request and deadline.
Forget(t) ==
    /\ req' = [req EXCEPT ![t] = NoRequest]
    /\ todo' = [todo EXCEPT ![t] = {}]
    /\ due' = [due EXCEPT ![t] = FALSE]
    /\ outcome' = [outcome EXCEPT ![t] = "none"]

\* ... and then the timer is cancelled and every watch is taken back.
wait_session_cleanup(t) ==
    /\ At(t, "cleanup") /\ Goto(t, "out")
    /\ timer_active' = [timer_active EXCEPT ![t] = FALSE]
    /\ armed' = [armed EXCEPT ![t] = FALSE]
    /\ waiters' = Unlinked(t)
    /\ Forget(t)
    /\ UNCHANGED <<kernel, active_wait, ready, pending>>

-----------------------------------------------------------------------------
(* Sources, signals, time: from an interrupt or from another task.          *)

\* wait_channel_wake_one: the first waiter that is asleep leaves the channel
\* and runs; waiters that are awake are passed over.
Sleeper(c, i) ==
    /\ i \in DOMAIN waiters[c] /\ state[waiters[c][i]] = "sleeping"
    /\ \A j \in DOMAIN waiters[c] : j < i => state[waiters[c][j]] # "sleeping"

wait_channel_wake_one(c) ==
    \E i \in DOMAIN waiters[c] :
        /\ Sleeper(c, i)
        /\ state' = [state EXCEPT ![waiters[c][i]] = "running"]
        /\ waiters' = [waiters EXCEPT ![c] = DelAt(@, i)]

NoSleeper(c) == \A i \in DOMAIN waiters[c] : state[waiters[c][i]] # "sleeping"

\* A source becomes ready and wakes: one waiter, or all of them, one by one.
Post(c) ==
    /\ ready' = [ready EXCEPT ![c] = TRUE]
    /\ IF c \in Broadcast
       THEN waking' = waking \cup {c} /\ UNCHANGED <<state, waiters>>
       ELSE /\ UNCHANGED waking
            /\ \/ wait_channel_wake_one(c)
               \/ NoSleeper(c) /\ UNCHANGED <<state, waiters>>
    /\ UNCHANGED <<current, pc, req, todo, timer_active, armed, active_wait, pending, due, outcome>>

wait_channel_wake_all(c) ==
    /\ c \in waking
    /\ \/ wait_channel_wake_one(c) /\ UNCHANGED waking
       \/ NoSleeper(c) /\ waking' = waking \ {c} /\ UNCHANGED <<state, waiters>>
    /\ UNCHANGED <<current, pc, req, todo, timer_active, armed, active_wait, world, outcome>>

\* A task that is outside wait_for uses up what made the channel ready.
Consume(t, c) ==
    /\ At(t, "out") /\ ready[c]
    /\ ready' = [ready EXCEPT ![c] = FALSE]
    /\ UNCHANGED <<kernel, pc, req, session, pending, due, outcome>>

\* sched_wake_task of t; current is only marked running.
Woken(t) ==
    state' = IF state[t] = "sleeping" THEN [state EXCEPT ![t] = "running"] ELSE state

\* send_signal: an interruptible sleeper is woken and stays linked.
Signal(t) ==
    /\ t \in Alive /\ pending' = [pending EXCEPT ![t] = TRUE]
    /\ IF req[t].interruptible THEN Woken(t) ELSE UNCHANGED state
    /\ UNCHANGED <<current, waking, pc, req, session, ready, due, outcome>>

\* The signal is delivered on the way back to user mode.
Deliver(t) ==
    /\ At(t, "out") /\ pending[t]
    /\ pending' = [pending EXCEPT ![t] = FALSE]
    /\ UNCHANGED <<kernel, pc, req, session, ready, due, outcome>>

\* The clock passes the deadline of the call in progress.
Elapse(t) ==
    /\ t \in Alive /\ pc[t] # "out" /\ req[t].deadline /\ ~due[t]
    /\ due' = [due EXCEPT ![t] = TRUE]
    /\ UNCHANGED <<kernel, pc, req, session, ready, pending, outcome>>

\* The timer interrupt runs wait_timer_fire, which wakes the task if it sleeps.
wait_timer_fire(t) ==
    /\ armed[t] /\ due[t]
    /\ armed' = [armed EXCEPT ![t] = FALSE]
    /\ Woken(t)
    /\ UNCHANGED <<current, waking, pc, req, todo, waiters, timer_active, active_wait, world, outcome>>

-----------------------------------------------------------------------------
(* The hart changes hands.                                                  *)

\* A reschedule on the way to user mode, and the idle loop.
Yield ==
    /\ waking = {} /\ (current # Idle => pc[current] = "out")
    /\ \E u \in Runnable : current' = u
    /\ UNCHANGED <<state, waking, pc, req, session, world, outcome>>

\* A task exits; nothing of a wait is left when it is outside wait_for.
Exit(t) ==
    /\ At(t, "out") /\ state' = [state EXCEPT ![t] = "dead"]
    /\ pending' = [pending EXCEPT ![t] = FALSE]
    /\ \/ \E u \in Runnable : current' = u
       \/ Runnable = {} /\ current' = Idle
    /\ UNCHANGED <<waking, pc, req, session, ready, due, outcome>>

\* Fault: the timer of the torn down task stays in the queue.
wait_cancel_task_timer(t, u) ==
    /\ At(t, "out") /\ u \in Alive \ {t}
    /\ state' = [state EXCEPT ![u] = "dead"]
    /\ pc' = [pc EXCEPT ![u] = "out"]
    /\ active_wait' = [active_wait EXCEPT ![u] = FALSE]
    /\ pending' = [pending EXCEPT ![u] = FALSE]
    /\ Forget(u)
    /\ waiters' = IF active_wait[u] THEN Unlinked(u) ELSE waiters
    /\ UNCHANGED <<current, waking, timer_active, armed, ready>>

\* exit_group tears down a sibling that is switched out, in the middle of its
\* wait or not: wait_cancel_task undoes what the session on its stack holds.
wait_cancel_task(t, u) ==
    /\ At(t, "out") /\ u \in Alive \ {t}
    /\ state' = [state EXCEPT ![u] = "dead"]
    /\ pc' = [pc EXCEPT ![u] = "out"]
    /\ active_wait' = [active_wait EXCEPT ![u] = FALSE]
    /\ pending' = [pending EXCEPT ![u] = FALSE]
    /\ Forget(u)
    /\ IF active_wait[u]
       THEN /\ timer_active' = [timer_active EXCEPT ![u] = FALSE]
            /\ armed' = IF timer_active[u] THEN [armed EXCEPT ![u] = FALSE] ELSE armed
            /\ waiters' = Unlinked(u)
       ELSE UNCHANGED <<timer_active, armed, waiters>>
    /\ UNCHANGED <<current, waking, ready>>

WaitFor(t) ==
    \/ Enter(t) \/ wait_check(t) \/ wait_arbitrate(t) \/ wait_timer_start(t)
    \/ SetSleep(t) \/ wait_block_current(t) \/ WfiDone(t)
    \/ wait_finish_current_state(t) \/ wait_session_detach(t)
    \/ wait_session_cleanup(t)

Next ==
    \/ \E t \in Task :
        \/ WaitFor(t)
        \/ Signal(t) \/ Deliver(t) \/ Elapse(t) \/ wait_timer_fire(t) \/ Exit(t)
        \/ \E c \in Channel : Consume(t, c)
        \/ \E u \in Task : wait_cancel_task(t, u)
    \/ \E c \in Channel : Post(c) \/ wait_channel_wake_all(c)
    \/ Yield

Spec == Init /\ [][Next]_vars

\* A task that is inside wait_for goes on when it has the hart: the interrupts
\* above it return.  Time passes and the timer interrupt comes.  The scheduler
\* starves nobody (NoStarvation in Sched).
Proceed(t) == WaitFor(t) /\ pc[t] # "out"
Dispatch(t) ==
    /\ current # t /\ current' = t
    /\ Yield \/ \E u \in Task : wait_block_current(u) \/ Exit(u)

Fairness(t) ==
    /\ \A u \in Task : SF_vars(Proceed(u))
    /\ SF_vars(Dispatch(t)) /\ WF_vars(Elapse(t)) /\ WF_vars(wait_timer_fire(t))
    /\ \A c \in Channel : WF_vars(wait_channel_wake_all(c))

-----------------------------------------------------------------------------
(* Properties.                                                              *)

Points == {"out", "check", "recheck", "arm", "sleep", "block", "wfi", "finish",
           "detach", "cleanup"}

\* The types, and that only the states the code gives a task occur.
TypeOK ==
    /\ current \in Task \cup {Idle}
    /\ state \in [Task -> {"running", "sleeping", "dead"}]
    /\ waking \subseteq Broadcast
    /\ pc \in [Task -> Points]
    /\ req \in [Task -> Requests \cup {NoRequest}]
    /\ todo \in [Task -> SUBSET Channel]
    /\ waiters \in [Channel -> Seq(Task)]
    /\ timer_active \in [Task -> BOOLEAN] /\ armed \in [Task -> BOOLEAN]
    /\ active_wait \in [Task -> BOOLEAN]
    /\ ready \in [Channel -> BOOLEAN]
    /\ pending \in [Task -> BOOLEAN] /\ due \in [Task -> BOOLEAN]
    /\ outcome \in [Task -> {"none", "event", "signal", "timeout"}]

\* Outside wait_for, and after a teardown in the middle of it, a task has no
\* entry on any channel and no timer in the queue: both live on a kernel stack
\* that is gone.  A live task is running again.
CleanOutside ==
    \A t \in Task : pc[t] = "out" =>
        /\ \A c \in Channel : ~Linked(t, c)
        /\ ~armed[t] /\ ~active_wait[t]
        /\ state[t] # "sleeping"

\* A task that has gone to sleep (it is past its second check and nobody has
\* woken it) has nothing to wake up for: no broadcast source of its request is
\* ready, unless that source's wake_all has yet to reach it; no signal is
\* pending that it would return for; and a deadline still has its timer.
Asleep(t) == state[t] = "sleeping" /\ pc[t] \in {"block", "wfi", "finish"}

NotAsleepThrough ==
    \A t \in Task : Asleep(t) =>
        /\ \A c \in req[t].chans \cap Broadcast : ready[c] => c \in waking
        /\ ~(req[t].interruptible /\ pending[t])
        /\ req[t].deadline => armed[t]

\* A wait with a deadline ends, whatever events, signals and wakeups come in
\* which order: the timer cannot fire in the gap between being armed and the
\* task being asleep without the second arbitration seeing that it is due.
DeadlineReturns(t) ==
    (pc[t] # "out" /\ req[t].deadline) ~> pc[t] = "out"

\* No task is linked twice on a channel, and one whose sleep nobody has
\* interrupted is linked on every channel it asked for.
WatchesExact ==
    /\ \A c \in Channel : \A i, j \in DOMAIN waiters[c] :
        waiters[c][i] = waiters[c][j] => i = j
    /\ \A t \in Task : Asleep(t) => \A c \in req[t].chans : Linked(t, c)

\* What wait_for has while it sleeps, and leaves behind: nothing.
WaitsExact == CleanOutside /\ WatchesExact
=============================================================================
