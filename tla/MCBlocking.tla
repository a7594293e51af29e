----------------------------- MODULE MCBlocking -----------------------------
(***************************************************************************)
(* Wait channels on small instances; and, in LiveSpec, what must come to   *)
(* an end: a wait with a deadline, and a thread that is killed.  LiveSpec  *)
(* is about the union of two systems: its first state picks one ("part"),  *)
(* and the other stands still in its first state.                          *)
(***************************************************************************)
EXTENDS WaitQueue, TLC

CONSTANTS t1, t2, c1

VARIABLES part,
          th, shared, action, asked, sends,   \* signals, in LiveSpec
          killed                              \* the thread LiveSpec watches

signalVars == <<th, shared, action, asked, sends>>
allVars == <<part, vars, signalVars, killed>>

NoSignal == th = 0 /\ shared = 0 /\ action = 0 /\ asked = 0 /\ sends = 0

\* Two threads; SIGKILL, a signal with a handler and SIGSTOP, two sends.
G == INSTANCE Signal WITH
       Thread <- {t1, t2}, Leader <- t1, Sig <- {9, 10, 19}, UserMask <- {{9, 10}},
       Disposition <- {[h |-> "user", mask |-> {}, nodefer |-> FALSE, resethand |-> FALSE,
                        onstack |-> FALSE]},
       IsInit <- FALSE, AltStack <- {}, Faults <- FALSE, MaxSends <- 2

Symmetry == Permutations(Task)

WaitInit == Init /\ part = "wait" /\ NoSignal /\ killed = 0
WaitNext == Next /\ UNCHANGED <<part, signalVars, killed>>
WaitSpec == WaitInit /\ [][WaitNext]_allVars

LiveInit ==
  \/ part = "wait" /\ killed = 0 /\ Init /\ NoSignal
  \/ part = "signal" /\ killed \in {t1, t2} /\ G!Init /\ Init

\* One step of each: part never changes, so the fairness of a disjunction over the
\* parts is the fairness of the one disjunct that counts.
Each(wait, sig) ==
  /\ \/ part = "wait" /\ wait /\ UNCHANGED signalVars
     \/ part = "signal" /\ sig /\ UNCHANGED vars
  /\ UNCHANGED <<part, killed>>

LiveNext == Each(Next, G!Next)

Other == IF killed = t1 THEN t2 ELSE t1

\* Time passes and the timer interrupt comes; a wake_all runs to its end; a thread
\* in the kernel goes on whenever it has the hart, and gets it again and again.
LiveSpec ==
  /\ LiveInit /\ [][LiveNext]_allVars
  /\ WF_allVars(Each(Elapse(t1) \/ wait_timer_fire(t1), FALSE))
  /\ WF_allVars(Each(wait_channel_wake_all(c1), FALSE))
  /\ SF_allVars(Each(Proceed(t1) \/ Proceed(t2), G!Kernel(killed)))
  /\ SF_allVars(Each(Dispatch(t1), G!Trap(killed)))
  /\ SF_allVars(Each(FALSE, G!Kernel(Other)))

-----------------------------------------------------------------------------
(* Properties.                                                             *)

Awaited ==
  \/ part = "wait" /\ pc[t1] # "out" /\ req[t1].deadline
  \/ part = "signal" /\ 9 \in th[killed].pending

Arrived ==
  \/ part = "wait" /\ pc[t1] = "out"
  \/ part = "signal" /\ th[killed].mode = "dead"

\* A wait_for with a deadline ends, whatever events, signals and wakeups come in
\* which order, the timer firing in the gap before the sleep included.  A thread
\* that was sent SIGKILL, itself and not as part of its group, dies, whether it
\* ran, slept or was stopped.
EventuallyEnds == Awaited ~> Arrived
=============================================================================
