-------------------------------- MODULE Rseq --------------------------------
(***************************************************************************)
(* Restartable sequences (kernel/rseq.c) on the way back to user mode      *)
(* (trap_user_return, user_return_work, stop_current).  Threads add one to *)
(* a counter of the processor in a critical section of two instructions,   *)
(* a load and the store that commits; a signal handler does the same.  The *)
(* kernel is to restart a section that it interrupted.                     *)
(***************************************************************************)
EXTENDS Integers, Sequences, FiniteSets

CONSTANTS
  Thread,
  Flags,      \* NO_RESTART_ON_... of the section, "preempt" and "signal"
  MaxCommits  \* bound: increments

VARIABLES
  cur,      \* the thread on the processor
  mode,     \* mode[t]: "user", "return": its user_return_work is to run,
            \* "loop": do_signal goes on, "sched": schedule() returns to user
  state,    \* state[t]: "running", "asleep" in a call, or "stopped"
  rseq,     \* rseq[t]: the area is registered; an update is needed
  pc,       \* pc[t]: "out", "load", "store" or "abort"
  cs,       \* cs[t]: the area names the section
  reg,      \* reg[t]: the value loaded
  frame,    \* frame[t]: the place that a handler returns to, or <<>>
  signal,   \* signal[t]: "none", "handler" or "stop" is pending
  counter,  \* the counter
  commits   \* increments that were committed

vars == <<cur, mode, state, rseq, pc, cs, reg, frame, signal, counter, commits>>

Inside(p) == p \in {"load", "store"}

-----------------------------------------------------------------------------
(* kernel/rseq.c.  A context is the place in the program and the area.     *)

\* Fault: the program counter is not looked at.
rseq_handle_cs_anywhere(c, event) ==
  IF ~c.cs THEN c
  ELSE IF event \in Flags THEN c
  ELSE [c EXCEPT !.cs = FALSE, !.pc = "abort"]

\* rseq_handle_cs: outside of the section the area is cleared; inside, the
\* thread goes to the abort address, unless the section forbids it.
rseq_handle_cs(c, event) ==
  IF ~c.cs THEN c
  ELSE IF ~Inside(c.pc) THEN [c EXCEPT !.cs = FALSE]
  ELSE IF event \in Flags THEN c
  ELSE [c EXCEPT !.cs = FALSE, !.pc = "abort"]

\* Fault: a signal restarts a section only when there was a switch as well.
rseq_update_user_lazy(c, event, force) ==
  IF ~c.area \/ ~c.need THEN c
  ELSE rseq_handle_cs([c EXCEPT !.need = FALSE], event)

rseq_update_user(c, event, force) ==
  IF ~c.area \/ (~force /\ ~c.need) THEN c
  ELSE rseq_handle_cs([c EXCEPT !.need = FALSE], event)

rseq_resume_user(c) == rseq_update_user(c, "preempt", FALSE)
rseq_signal_deliver(c) == rseq_update_user(c, "signal", TRUE)

Context(t) == [pc |-> pc[t], cs |-> cs[t], area |-> rseq[t].area, need |-> rseq[t].need]

-----------------------------------------------------------------------------
(* The program.                                                            *)

Runs(t) == cur = t /\ mode[t] = "user"
Kernel == UNCHANGED <<cur, mode, state, signal>>

Enter(t) ==
  /\ Runs(t) /\ pc[t] = "out" /\ rseq[t].area /\ commits < MaxCommits
  /\ pc' = [pc EXCEPT ![t] = "load"]
  /\ cs' = [cs EXCEPT ![t] = TRUE]
  /\ Kernel /\ UNCHANGED <<rseq, reg, frame, counter, commits>>

Load(t) ==
  /\ Runs(t) /\ pc[t] = "load"
  /\ reg' = [reg EXCEPT ![t] = counter]
  /\ pc' = [pc EXCEPT ![t] = "store"]
  /\ Kernel /\ UNCHANGED <<rseq, cs, frame, counter, commits>>

Store(t) ==
  /\ Runs(t) /\ pc[t] = "store"
  /\ counter' = reg[t] + 1
  /\ commits' = commits + 1
  /\ pc' = [pc EXCEPT ![t] = "out"]
  /\ reg' = [reg EXCEPT ![t] = 0]
  /\ Kernel /\ UNCHANGED <<rseq, cs, frame>>

\* The abort handler starts over.
Abort(t) ==
  /\ Runs(t) /\ pc[t] = "abort"
  /\ pc' = [pc EXCEPT ![t] = "out"]
  /\ reg' = [reg EXCEPT ![t] = 0]
  /\ Kernel /\ UNCHANGED <<rseq, cs, frame, counter, commits>>

\* The handler ends.
Sigreturn(t) ==
  /\ Runs(t) /\ pc[t] = "out" /\ frame[t] # <<>>
  /\ pc' = [pc EXCEPT ![t] = frame[t][1].pc]
  /\ reg' = [reg EXCEPT ![t] = frame[t][1].reg]
  /\ frame' = [frame EXCEPT ![t] = <<>>]
  /\ Kernel /\ UNCHANGED <<rseq, cs, counter, commits>>

\* kernel_rseq, register and unregister.
kernel_rseq(t) ==
  /\ Runs(t) /\ pc[t] = "out" /\ frame[t] = <<>>
  /\ rseq' = [rseq EXCEPT ![t] = [area |-> ~@.area, need |-> FALSE]]
  /\ cs' = [cs EXCEPT ![t] = FALSE]
  /\ Kernel /\ UNCHANGED <<pc, reg, frame, counter, commits>>

-----------------------------------------------------------------------------
(* The kernel.                                                             *)

Ready == {t \in Thread : state[t] = "running"}

\* A tick or a fault interrupts the program.
Trap(t) ==
  /\ Runs(t)
  /\ mode' = [mode EXCEPT ![t] = "return"]
  /\ UNCHANGED <<cur, state, rseq, pc, cs, reg, frame, signal, counter, commits>>

\* rseq_sched_switch and the switch itself.
Switch(t, u) ==
  /\ cur' = u
  /\ rseq' = IF rseq[t].area THEN [rseq EXCEPT ![t].need = TRUE] ELSE rseq

\* A system call sleeps; its return path runs when it comes back.
Sleep(t) ==
  /\ Runs(t) /\ pc[t] = "out"
  /\ \E u \in Ready \ {t} : Switch(t, u)
  /\ state' = [state EXCEPT ![t] = "asleep"]
  /\ mode' = [mode EXCEPT ![t] = "return"]
  /\ UNCHANGED <<pc, cs, reg, frame, signal, counter, commits>>

\* do_signal on context c: a handler is entered, or there is nothing to do.
Delivered(t, c) ==
  LET d == IF signal[t] = "handler" /\ frame[t] = <<>> THEN rseq_signal_deliver(c) ELSE c
      enters == signal[t] = "handler" /\ frame[t] = <<>>
  IN /\ pc' = [pc EXCEPT ![t] = IF enters THEN "out" ELSE d.pc]
     /\ cs' = [cs EXCEPT ![t] = d.cs]
     /\ frame' = [frame EXCEPT ![t] = IF enters THEN <<[pc |-> d.pc, reg |-> reg[t]]>> ELSE @]
     /\ reg' = [reg EXCEPT ![t] = IF enters THEN 0 ELSE @]
     /\ signal' = [signal EXCEPT ![t] = IF enters THEN "none" ELSE @]
     /\ \/ /\ rseq' = [rseq EXCEPT ![t] = [area |-> d.area, need |-> d.need]]
           /\ mode' = [mode EXCEPT ![t] = "user"]
           /\ UNCHANGED cur
        \/ \E u \in Ready \ {t} :
             /\ cur' = u
             /\ rseq' = [rseq EXCEPT ![t] = [area |-> d.area, need |-> d.area]]
             /\ mode' = [mode EXCEPT ![t] = "sched"]
     /\ UNCHANGED <<state, counter, commits>>

\* user_return_work, then schedule() when a reschedule is due.
trap_user_return(t) ==
  /\ cur = t /\ mode[t] = "return" /\ signal[t] # "stop"
  /\ Delivered(t, rseq_resume_user(Context(t)))

\* The same with a stop signal: the thread stops inside do_signal.
stop_current(t) ==
  /\ cur = t /\ mode[t] \in {"return", "loop"} /\ signal[t] = "stop"
  /\ LET c == IF mode[t] = "return" THEN rseq_resume_user(Context(t)) ELSE Context(t)
     IN /\ pc' = [pc EXCEPT ![t] = c.pc]
        /\ cs' = [cs EXCEPT ![t] = c.cs]
        /\ rseq' = [rseq EXCEPT ![t] = [area |-> c.area, need |-> c.area]]
  /\ cur' \in Ready \ {t}
  /\ state' = [state EXCEPT ![t] = "stopped"]
  /\ mode' = [mode EXCEPT ![t] = "loop"]
  /\ signal' = [signal EXCEPT ![t] = "none"]
  /\ UNCHANGED <<reg, frame, counter, commits>>

\* do_signal goes on after the stop.
do_signal(t) ==
  /\ cur = t /\ mode[t] = "loop" /\ signal[t] # "stop"
  /\ Delivered(t, Context(t))

\* schedule() returns in trap_user_return, and the trap returns to the program.
schedule(t) ==
  /\ cur = t /\ mode[t] = "sched"
  /\ mode' = [mode EXCEPT ![t] = "user"]
  /\ UNCHANGED <<cur, state, rseq, pc, cs, reg, frame, signal, counter, commits>>

Wakes(t) ==
  /\ state[t] # "running"
  /\ state' = [state EXCEPT ![t] = "running"]
  /\ UNCHANGED <<cur, mode, rseq, pc, cs, reg, frame, signal, counter, commits>>

Signalled(t) ==
  /\ signal[t] = "none" /\ state[t] = "running"
  /\ \E s \in {"handler", "stop"} : signal' = [signal EXCEPT ![t] = s]
  /\ UNCHANGED <<cur, mode, state, rseq, pc, cs, reg, frame, counter, commits>>

Init ==
  /\ cur \in Thread
  /\ mode = [t \in Thread |-> "user"]
  /\ state = [t \in Thread |-> "running"]
  /\ rseq = [t \in Thread |-> [area |-> FALSE, need |-> FALSE]]
  /\ pc = [t \in Thread |-> "out"]
  /\ cs = [t \in Thread |-> FALSE]
  /\ reg = [t \in Thread |-> 0]
  /\ frame = [t \in Thread |-> <<>>]
  /\ signal = [t \in Thread |-> "none"]
  /\ counter = 0
  /\ commits = 0

Next ==
  \E t \in Thread :
    \/ Enter(t) \/ Load(t) \/ Store(t) \/ Abort(t) \/ Sigreturn(t) \/ kernel_rseq(t)
    \/ Trap(t) \/ Sleep(t) \/ trap_user_return(t) \/ stop_current(t) \/ do_signal(t)
    \/ schedule(t) \/ Wakes(t) \/ Signalled(t)

Spec == Init /\ [][Next]_vars

-----------------------------------------------------------------------------
(* Properties.                                                             *)

\* A handler never runs on top of a section that it interrupted, unless the
\* section asks for that: it returns to the abort address, so the handler's own
\* section cannot be undone by a stale store.  And an update is only ever noted
\* for a thread with an area.
HandlerRestarts ==
  \A t \in Thread :
    /\ frame[t] # <<>> /\ "signal" \notin Flags => ~Inside(frame[t][1].pc)
    /\ rseq[t].need => rseq[t].area

\* A section that has committed is never aborted, so that no increment is made
\* twice.
AbortsInsideStep ==
  \A t \in Thread : pc[t] = "out" /\ pc'[t] = "abort" => frame[t] # <<>> /\ frame'[t] = <<>>

\* docs/architecture/task.md: before a thread that was switched away returns to
\* user mode, rseq_resume_user sends it to the abort address if it is inside a
\* section.  So no increment is lost.
NoIncrementLost == counter = commits
=============================================================================
