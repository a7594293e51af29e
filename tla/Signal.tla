------------------------------- MODULE Signal -------------------------------
(***************************************************************************)
(* Signals (kernel/signal.c) to the threads of one process: generation,    *)
(* waking, delivery on the way back to user mode, handlers and their       *)
(* frames, and the calls that change the mask while they wait.             *)
(*                                                                         *)
(* The kernel is not preempted: a thread that is in the kernel runs until  *)
(* it sleeps, stops or returns to user mode, and signals are sent by other *)
(* processes and interrupts in between.                                    *)
(***************************************************************************)
EXTENDS Naturals, Sequences, FiniteSets, FiniteSetsExt

CONSTANTS
  Thread, Leader,
  Sig,         \* the signals in use, by their Linux numbers
  UserMask,    \* the masks that programs install
  Disposition, \* the dispositions that programs install
  IsInit,      \* the process is PID 1
  AltStack,    \* the stacks that programs set: TRUE for one, FALSE for none
  Faults,      \* programs fault, and their stacks may be bad
  MaxSends     \* bound on the signals sent

SIGKILL == 9
SIGSEGV == 11
SIGCHLD == 17
SIGCONT == 18
SIGSTOP == 19
SIGTSTP == 20

\* A struct sigaction: the handler, sa_mask and sa_flags.
Act == [h : {"dfl", "ign", "user"}, mask : SUBSET Sig, nodefer : BOOLEAN,
        resethand : BOOLEAN, onstack : BOOLEAN]
Default == [h |-> "dfl", mask |-> {}, nodefer |-> FALSE, resethand |-> FALSE,
            onstack |-> FALSE]

Unblockable == {SIGKILL, SIGSTOP} \cap Sig
StopMask == {SIGSTOP, SIGTSTP} \cap Sig

VARIABLES
  th,       \* the signal context of each thread, and how it is scheduled
  shared,   \* signal->shared_pending
  action,   \* sighand->sigactions
  asked,    \* per thread and handler level, the mask the program has asked for
  sends

vars == <<th, shared, action, asked, sends>>

\* op: the interruptible wait a thread is in; saved: the mask to put back;
\* set: what sigtimedwait waits for; timed, due: its deadline.
Call == [op : {"none", "read", "suspend", "wait"}, saved : SUBSET Sig,
         set : SUBSET Sig, timed : BOOLEAN, due : BOOLEAN]
NoCall == [op |-> "none", saved |-> {}, set |-> {}, timed |-> FALSE, due |-> FALSE]

\* The record in struct signal_frame_state and in the rt_sigframe.
Frame == [sig : Sig, mask : SUBSET Sig, alt : {"off", "on", "busy"}]

\* restore: restore_mask, when restore_mask_pending, as a set of one mask.
NewThread == [mode |-> "user", call |-> NoCall, blocked |-> {}, pending |-> {},
              forced |-> {}, restore |-> {}, restart |-> FALSE, frames |-> <<>>,
              alt |-> "off"]
DeadThread == [NewThread EXCEPT !.mode = "dead"]

Alive == {t \in Thread : th[t].mode # "dead"}
KernelFree == \A t \in Thread : th[t].mode # "kernel"
InUser(t) == KernelFree /\ th[t].mode = "user"
Update(t, r) == th' = [th EXCEPT ![t] = r]

-----------------------------------------------------------------------------
(* Masks and default actions. *)

Maskable(m) == m \ Unblockable

signal_pending(r, sh) == (r.pending \cup sh) \ Maskable(r.blocked) # {}

FatalDefault(sig) == sig \notin {SIGCHLD, SIGCONT, SIGTSTP}

\* Fault: PID 1 dies like everybody.
InitIgnores_none(sig) == FALSE

\* signal_init_default_ignored.
InitIgnores(sig) ==
  /\ IsInit /\ sig # SIGSTOP
  /\ FatalDefault(sig) \/ sig = SIGTSTP
  /\ action[sig].h = "dfl"

signal_stops_default(sig) ==
  \/ sig = SIGSTOP
  \/ sig = SIGTSTP /\ action[sig].h = "dfl"

\* What generating sig removes from the pending signals.
Opposite(sig) == IF sig = SIGCONT THEN StopMask
                 ELSE IF sig \in StopMask THEN {SIGCONT} ELSE {}

ClearPending(r, m) == [r EXCEPT !.pending = @ \ m, !.forced = @ \ m]

-----------------------------------------------------------------------------
(* Sending. *)

\* Fault: only SIGCONT sets a stopped thread going.
Woken_cont(r, sig) ==
  CASE r.mode = "sleep" /\ sig \notin Maskable(r.blocked) -> [r EXCEPT !.mode = "woken"]
    [] r.mode = "stopped" /\ sig = SIGCONT -> [r EXCEPT !.mode = "go on"]
    [] OTHER -> r

\* wake_signal_target, with the thread's pending signals already changed.
Woken(r, sig) ==
  CASE r.mode = "sleep" /\ sig \notin Maskable(r.blocked) -> [r EXCEPT !.mode = "woken"]
    [] r.mode = "stopped" /\ sig \in {SIGCONT, SIGKILL} -> [r EXCEPT !.mode = "go on"]
    [] OTHER -> r

GroupTargets == Alive

\* Fault: only what is pending for the group is cleared.
GroupSent_kept(r, sig) == Woken(r, sig)

GroupSent(r, sig) == Woken(ClearPending(r, Opposite(sig)), sig)

\* kill, and everything else that signals a process.
send_group_signal_info(sig) ==
  /\ KernelFree /\ sends < MaxSends
  /\ th[Leader].mode # "dead"
  /\ shared' = (shared \ Opposite(sig)) \cup {sig}
  /\ th' = [t \in Thread |-> IF t \in GroupTargets THEN GroupSent(th[t], sig) ELSE th[t]]
  /\ sends' = sends + 1
  /\ UNCHANGED <<action, asked>>

\* What send_signal_info_internal does to its target.
Sent(r, sig, force) ==
  LET c == ClearPending(r, Opposite(sig))
  IN Woken([c EXCEPT !.pending = @ \cup {sig},
                     !.forced = IF force THEN @ \cup {sig} ELSE @], sig)

SharedAfter(sig) == shared \ Opposite(sig)

\* tkill, tgkill.
send_signal_info(t, sig) ==
  /\ KernelFree /\ sends < MaxSends
  /\ t \in Alive
  /\ Update(t, Sent(th[t], sig, FALSE))
  /\ shared' = SharedAfter(sig)
  /\ sends' = sends + 1
  /\ UNCHANGED <<action, asked>>

\* do_exit_signal: the leader takes the group with it.
Exits(t) == IF t = Leader THEN Thread ELSE {t}

do_exit_signal(t) ==
  /\ th' = [u \in Thread |-> IF u \in Exits(t) THEN DeadThread ELSE th[u]]
  /\ asked' = [u \in Thread |-> IF u \in Exits(t) THEN << {} >> ELSE asked[u]]

InFrameOf(t, sig) == \E i \in DOMAIN th[t].frames : th[t].frames[i].sig = sig

\* force_signal_info, for a fault of the current thread.
force_signal_info(t, sig) ==
  /\ Faults /\ InUser(t) /\ sends < MaxSends
  /\ sends' = sends + 1
  /\ IF InFrameOf(t, sig)
     THEN do_exit_signal(t) /\ UNCHANGED <<shared, action>>
     ELSE LET r == [th[t] EXCEPT !.blocked = @ \ {sig}, !.mode = "kernel"]
          IN /\ Update(t, Sent(r, sig, TRUE))
             /\ shared' = SharedAfter(sig)
             /\ action' = [action EXCEPT ![sig].h = IF @ = "ign" THEN "dfl" ELSE @]
             /\ asked' = [asked EXCEPT ![t][Len(asked[t])] = @ \ {sig}]

-----------------------------------------------------------------------------
(* System calls that change masks, dispositions and stacks. *)

\* Any trap from user mode that does nothing about signals: an interrupt, a
\* page fault, another system call.
Trap(t) ==
  /\ InUser(t)
  /\ Update(t, [th[t] EXCEPT !.mode = "kernel"])
  /\ UNCHANGED <<shared, action, asked, sends>>

\* SIG_SETMASK; the other two ways come down to it.
do_sigprocmask(t, m) ==
  /\ InUser(t)
  /\ Update(t, [th[t] EXCEPT !.mode = "kernel", !.blocked = Maskable(m)])
  /\ asked' = [asked EXCEPT ![t][Len(asked[t])] = m \ Unblockable]
  /\ UNCHANGED <<shared, action, sends>>

do_sigaction(t, sig, a) ==
  /\ InUser(t) /\ sig \notin Unblockable
  /\ action' = [action EXCEPT ![sig] = [a EXCEPT !.mask = Maskable(@)]]
  /\ Update(t, [th[t] EXCEPT !.mode = "kernel"])
  /\ UNCHANGED <<shared, asked, sends>>

\* -EPERM on the stack in use.
do_sigaltstack(t, on) ==
  /\ InUser(t) /\ th[t].alt # "busy"
  /\ Update(t, [th[t] EXCEPT !.mode = "kernel", !.alt = IF on THEN "on" ELSE "off"])
  /\ UNCHANGED <<shared, action, asked, sends>>

-----------------------------------------------------------------------------
(* Interruptible waits.  Between the decision in Arbitrate and the sleep      *)
(* nobody else runs (module WaitQueue has the details).                       *)

\* A restartable call that blocks: read, write, wait4, futex.
Read(t) ==
  /\ InUser(t)
  /\ Update(t, [th[t] EXCEPT !.mode = "kernel", !.call = [NoCall EXCEPT !.op = "read"]])
  /\ UNCHANGED <<shared, action, asked, sends>>

signal_sigsuspend(t, m) ==
  /\ InUser(t)
  /\ Update(t, [th[t] EXCEPT !.mode = "kernel", !.blocked = Maskable(m),
                  !.call = [NoCall EXCEPT !.op = "suspend", !.saved = th[t].blocked]])
  /\ UNCHANGED <<shared, action, asked, sends>>

\* The signal take_pending_from_set would take, or 0.
Pick(r, set) ==
  IF r.pending \cap set # {} THEN Min(r.pending \cap set)
  ELSE IF shared \cap set # {} THEN Min(shared \cap set) ELSE 0

\* take_pending_from_set: the thread's own signals before the group's.
Take(t, r, set) ==
  LET sig == Pick(r, set)
      own == sig \in r.pending
  IN /\ Update(t, IF own THEN ClearPending(r, {sig}) ELSE r)
     /\ shared' = IF own THEN shared ELSE shared \ {sig}

\* signal_wait_pending: with a signal of the set already there it takes it.
signal_wait_pending(t, set, timed) ==
  LET s == set \ Unblockable
      r == [th[t] EXCEPT !.mode = "kernel"]
  IN /\ InUser(t)
     /\ IF Pick(r, s) # 0
        THEN Take(t, r, s)
        ELSE /\ Update(t, [r EXCEPT !.blocked = Maskable(@ \ s),
                     !.call = [NoCall EXCEPT !.op = "wait", !.saved = r.blocked,
                                             !.set = s, !.timed = timed]])
             /\ UNCHANGED shared
     /\ UNCHANGED <<action, asked, sends>>

\* The deadline of sigtimedwait passes.
Timeout(t) ==
  /\ KernelFree /\ th[t].mode \in {"sleep", "woken"} /\ th[t].call.timed /\ ~th[t].call.due
  /\ Update(t, [th[t] EXCEPT !.mode = "woken", !.call.due = TRUE])
  /\ UNCHANGED <<shared, action, asked, sends>>

\* What the read waits for happens, and it returns.
ReadDone(t) ==
  /\ KernelFree /\ th[t].mode \in {"sleep", "woken"} /\ th[t].call.op = "read"
  /\ Update(t, [th[t] EXCEPT !.mode = "kernel", !.call = NoCall])
  /\ UNCHANGED <<shared, action, asked, sends>>

\* The scheduler picks a thread that was woken.
Resume(t) ==
  /\ KernelFree /\ th[t].mode \in {"woken", "go on"}
  /\ Update(t, [th[t] EXCEPT !.mode = "kernel"])
  /\ UNCHANGED <<shared, action, asked, sends>>

\* signal_defer_mask_restore.
Deferred(m) == {Maskable(m)}

WaitMask(r) == Maskable(r.call.saved)

\* wait_arbitrate and the end of each wait: with a signal it fails with -EINTR,
\* unless sigtimedwait finds the signal it waits for; a signal that another
\* thread has taken meanwhile puts the thread back to sleep.
Arbitrate(t) ==
  LET r == th[t]
      ended == [r EXCEPT !.call = NoCall]
      sig == signal_pending(r, shared)
  IN /\ r.mode = "kernel" /\ r.call.op # "none"
     /\ CASE sig /\ r.call.op = "read" ->
               Update(t, [ended EXCEPT !.restart = TRUE]) /\ UNCHANGED shared
          [] sig /\ r.call.op = "suspend" ->
               /\ Update(t, [ended EXCEPT !.restore = Deferred(r.call.saved)])
               /\ UNCHANGED shared
          [] (sig \/ r.call.due) /\ r.call.op = "wait" ->
               Take(t, [ended EXCEPT !.blocked = WaitMask(r)], r.call.set)
          [] OTHER ->
               Update(t, [r EXCEPT !.mode = "sleep"]) /\ UNCHANGED shared
     /\ UNCHANGED <<action, asked, sends>>

-----------------------------------------------------------------------------
(* Delivery. *)

Deliverable(t) == (th[t].pending \cup shared) \ Maskable(th[t].blocked)

\* The mask that goes in the frame: what sigsuspend replaced, if it did.
FrameMask(r) == IF r.restore # {} THEN CHOOSE m \in r.restore : TRUE ELSE r.blocked

HandlerMask(r, sig, a) ==
  Maskable(r.blocked \cup a.mask \cup (IF a.nodefer THEN {} ELSE {sig}))

\* setup_signal_frame.
WithFrame(r, sig, a) ==
  [r EXCEPT !.mode = "user", !.restart = FALSE, !.restore = {},
            !.blocked = HandlerMask(r, sig, a),
            !.alt = IF a.onstack /\ r.alt = "on" THEN "busy" ELSE @,
            !.frames = Append(@, [sig |-> sig, mask |-> FrameMask(r), alt |-> r.alt])]

\* Fault: the deferred mask is only restored when a handler runs.
SignalNone_bare(t) ==
  /\ Update(t, [th[t] EXCEPT !.mode = "user", !.restore = {}])
  /\ UNCHANGED <<shared, action, asked>>

\* Nothing to deliver: the deferred mask comes back and the thread returns.
SignalNone(t) ==
  LET r == th[t]
  IN /\ Update(t, [r EXCEPT !.mode = "user", !.restore = {},
                     !.blocked = IF r.restore = {} THEN @ ELSE Maskable(FrameMask(r))])
     /\ UNCHANGED <<shared, action, asked>>

\* restart_for_signal drops the context before the default action.
IgnoredRestart(r) == FALSE

\* next_signal takes the lowest number.
Chooses(t, sig) == sig

\* One turn of the loop of do_signal.
SignalOne(t) ==
  LET sig == Chooses(t, Min(Deliverable(t)))
      a == action[sig]
      own == sig \in th[t].pending
      forced == sig \in th[t].forced
      r == IF own THEN ClearPending(th[t], {sig}) ELSE th[t]
      ignored == [r EXCEPT !.restart = IgnoredRestart(r)]
      spared == ~forced /\ a.h = "dfl" /\ InitIgnores(sig)
      stops == ~spared /\ signal_stops_default(sig)
      kills == /\ ~spared /\ ~stops
               /\ sig = SIGKILL \/ (a.h = "dfl" /\ FatalDefault(sig))
  IN /\ shared' = IF own THEN shared ELSE shared \ {sig}
     /\ \/ /\ stops
           /\ Update(t, [ignored EXCEPT !.mode = "stopped"])
           /\ UNCHANGED <<action, asked>>
        \/ kills /\ do_exit_signal(t) /\ UNCHANGED action
        \/ /\ ~stops /\ ~kills /\ a.h # "user"
           /\ Update(t, ignored)
           /\ UNCHANGED <<action, asked>>
        \/ /\ ~stops /\ ~kills /\ a.h = "user"
           /\ action' = IF a.resethand THEN [action EXCEPT ![sig] = Default] ELSE action
           /\ \/ /\ Update(t, WithFrame(r, sig, a))
                 /\ asked' = [asked EXCEPT ![t] = Append(@, HandlerMask(r, sig, a))]
              \/ Faults /\ do_exit_signal(t)

do_signal(t) ==
  /\ th[t].mode = "kernel" /\ th[t].call.op = "none"
  /\ IF Deliverable(t) = {} THEN SignalNone(t) ELSE SignalOne(t)
  /\ UNCHANGED sends

\* The handler returns through the trampoline.  A frame whose saved stack is
\* marked as in use is refused.
do_sigreturn(t) ==
  LET f == th[t].frames[Len(th[t].frames)]
      rest == SubSeq(th[t].frames, 1, Len(th[t].frames) - 1)
  IN /\ InUser(t) /\ th[t].frames # <<>>
     /\ IF f.alt = "busy"
        THEN do_exit_signal(t)
        ELSE /\ Update(t, [th[t] EXCEPT !.mode = "kernel", !.blocked = Maskable(f.mask),
                             !.alt = f.alt, !.frames = rest])
             /\ asked' = [asked EXCEPT ![t] = SubSeq(@, 1, Len(@) - 1)]
     /\ UNCHANGED <<shared, action, sends>>

-----------------------------------------------------------------------------
Init ==
  /\ th = [t \in Thread |-> NewThread]
  /\ shared = {}
  /\ action = [s \in Sig |-> Default]
  /\ asked = [t \in Thread |-> << {} >>]
  /\ sends = 0

\* What moves a thread on without its program's doing.
Kernel(t) == Resume(t) \/ Arbitrate(t) \/ do_signal(t)

Next ==
  \/ \E sig \in Sig : send_group_signal_info(sig)
  \/ \E t \in Thread :
       \/ Kernel(t) \/ Trap(t) \/ Timeout(t)
       \/ Read(t) \/ ReadDone(t) \/ do_sigreturn(t)
       \/ \E sig \in Sig : send_signal_info(t, sig)
       \/ \E sig \in Sig \cap {SIGSEGV} : force_signal_info(t, sig)
       \/ \E m \in UserMask : do_sigprocmask(t, m) \/ signal_sigsuspend(t, m)
       \/ \E set \in UserMask, timed \in BOOLEAN : signal_wait_pending(t, set, timed)
       \/ \E sig \in Sig, a \in Disposition : do_sigaction(t, sig, a)
       \/ \E on \in AltStack : do_sigaltstack(t, on)

Spec == Init /\ [][Next]_vars

\* Every runnable thread gets the hart again and again, however often others
\* use it (Sched!NoStarvation), and the timer interrupts user code.
Fairness == \A t \in Thread : SF_vars(Kernel(t)) /\ SF_vars(Trap(t))

FairSpec == Spec /\ Fairness

-----------------------------------------------------------------------------
(* Properties. *)

\* The contexts of the threads: forced signals are pending, a thread has a
\* frame per handler it is in, and the mask never holds SIGKILL or SIGSTOP.
TypeOK ==
  /\ \A t \in Thread :
       /\ th[t].mode \in {"user", "kernel", "sleep", "woken", "stopped", "go on", "dead"}
       /\ th[t].call \in Call
       /\ th[t].blocked \subseteq Sig \ Unblockable
       /\ th[t].pending \subseteq Sig /\ th[t].forced \subseteq th[t].pending
       /\ th[t].restore \subseteq SUBSET Sig /\ Cardinality(th[t].restore) < 2
       /\ th[t].restart \in BOOLEAN
       /\ \A i \in DOMAIN th[t].frames : th[t].frames[i] \in Frame
       /\ th[t].alt \in {"off", "on", "busy"}
       /\ th[t].mode # "dead" => Len(asked[t]) = Len(th[t].frames) + 1
  /\ shared \subseteq Sig
  /\ action \in [Sig -> Act]
  /\ sends \in 0 .. MaxSends

\* SIGCONT and a stop signal are never both pending for a thread, so that a
\* stop sent before SIGCONT cannot stop the thread after it
\* (signal_clear_opposite_pending on both lists).
StopContExclusive == \A t \in Alive :
  ~(SIGCONT \in th[t].pending \cup shared /\ StopMask \cap (th[t].pending \cup shared) # {})

\* No thread sleeps in an interruptible wait while a signal that it does not
\* block is pending for it or for its group (wake_signal_target, wait_for).
AwakeForSignal == \A t \in Thread :
  th[t].mode = "sleep" => ~signal_pending(th[t], shared)

\* A stopped thread has neither SIGCONT nor SIGKILL waiting for it: either
\* would have set it going (wake_signal_target), or kept it from stopping.
StoppedAnswers == \A t \in Thread :
  th[t].mode = "stopped" => {SIGCONT, SIGKILL} \cap (th[t].pending \cup shared) = {}

\* In user mode the mask is the one that the program asked for at this level
\* of handlers, and each frame holds the mask of its level, whatever
\* sigsuspend, sigtimedwait and nested handlers did in between.
MaskKept == \A t \in Alive :
  /\ th[t].mode = "user" => th[t].blocked = asked[t][Len(asked[t])]
  /\ \A i \in DOMAIN th[t].frames : th[t].frames[i].mask = asked[t][i]

\* No thread runs user code with the context of an interrupted call still
\* valid: a later signal would rewind it to a call it has long left
\* (restart_for_signal).
RestartFresh == \A t \in Thread : th[t].mode = "user" => ~th[t].restart

\* No signal of another process ends PID 1, unless it asks for it.  (On an
\* alternate stack NestedReturns fails, for PID 1 as well.)
InitSurvives == IsInit /\ ~Faults /\ TRUE \notin AltStack => Alive = Thread

\* What senders of signals rely on: a sleeping or stopped thread is set going,
\* a stale stop does not stop a continued process, and PID 1 lives.
SignalsAnswered == AwakeForSignal /\ StoppedAnswers /\ StopContExclusive /\ InitSurvives

\* What programs rely on across handlers and interrupted calls.
ContextKept == MaskKept /\ RestartFresh

\* A thread that was sent SIGKILL, itself and not as part of its group, dies,
\* whether it ran, slept or was stopped.
KillEnds == \A t \in Thread : SIGKILL \in th[t].pending ~> th[t].mode = "dead"

\* A handler that returns through its own frame, innermost first, is never
\* killed for it (do_sigreturn).
NestedReturns == [][\A t \in Thread : do_sigreturn(t) => th'[t].mode # "dead"]_vars
=============================================================================
