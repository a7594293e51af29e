----------------------------- MODULE MCProcess ------------------------------
(***************************************************************************)
(* The life of tasks, interrupts in the middle of schedule(), and the      *)
(* timers and clocks of a process, on small instances, in one state space  *)
(* that is the union of theirs: the first state picks one ("part").  The   *)
(* variables of IrqSched stand still in a first state of it when another   *)
(* part is picked; those of the others are 0.                              *)
(***************************************************************************)
EXTENDS IrqSched

CONSTANTS ALRM, USR, Real   \* Timer

VARIABLES part,
          cur, task, exited_threads,                                 \* TaskLife
          now, timers, kt, posix, itimer, pending, first, shots, sent,   \* Timer
          offset, sleep

taskVars == <<cur, task, exited_threads>>
timerVars == <<timers, kt, posix, itimer, pending, first, shots, sent>>
clockVars == <<offset, sleep>>
timeVars == <<now, timerVars, clockVars>>
allVars == <<part, vars, taskVars, timeVars>>

NoTasks == cur = 0 /\ task = 0 /\ exited_threads = 0
NoTimer == /\ timers = 0 /\ kt = 0 /\ posix = 0 /\ itimer = 0 /\ pending = 0
           /\ first = 0 /\ shots = 0 /\ sent = 0
NoClock == offset = 0 /\ sleep = 0
NoTime == now = 0 /\ NoTimer /\ NoClock

-----------------------------------------------------------------------------
(* The instances.                                                          *)

\* Three PIDs, with stops and continues; four with exits alone: a process with
\* a thread and a child, beside init.
T == INSTANCE TaskLife WITH
       PidMax <- 3, MaxEvents <- 1, Masks <- {{"EXIT"}, {"STOP", "CONTINUE", "EXIT"}},
       current <- cur
C == INSTANCE TaskLife WITH
       PidMax <- 4, MaxEvents <- 0, Masks <- {{"EXIT"}}, current <- cur

\* Two POSIX timers beside the interval timer, up to the end of the clock; one
\* timer with a second signal and a late interrupt.
A == INSTANCE Timer WITH
       POSIX_TIMER_COUNT <- 2, TIME_MAX <- 3, OVERRUN_MAX <- 1, Signo <- {ALRM},
       SIGALRM <- ALRM, Deltas <- {0, 1, 2}, Intervals <- {0, 2}, MaxNow <- 2, MTIME_FREQ <- 1,
       MSEC_PER_SEC <- 1, USEC_PER_SEC <- 1, NSEC_PER_SEC <- 1, SEC_MAX <- 0, queue <- timers
P == INSTANCE Timer WITH
       POSIX_TIMER_COUNT <- 1, TIME_MAX <- 5, OVERRUN_MAX <- 2, Signo <- {ALRM, USR},
       SIGALRM <- ALRM, Deltas <- {0, 1, 2}, Intervals <- {0, 1, 2}, MaxNow <- 3, MTIME_FREQ <- 1,
       MSEC_PER_SEC <- 1, USEC_PER_SEC <- 1, NSEC_PER_SEC <- 1, SEC_MAX <- 0, queue <- timers

\* Units that do not divide each other.
U == INSTANCE Timer WITH
       MTIME_FREQ <- 6, MSEC_PER_SEC <- 2, USEC_PER_SEC <- 4, NSEC_PER_SEC <- 12,
       TIME_MAX <- 23, SEC_MAX <- 5, MaxNow <- 23, POSIX_TIMER_COUNT <- 0, OVERRUN_MAX <- 0,
       Signo <- {}, SIGALRM <- ALRM, Deltas <- {}, Intervals <- {}, queue <- timers

\* A task that sleeps, to the end of the clock.
V == INSTANCE Timer WITH
       MTIME_FREQ <- 3, MSEC_PER_SEC <- 2, USEC_PER_SEC <- 3, NSEC_PER_SEC <- 6,
       TIME_MAX <- 11, SEC_MAX <- 3, MaxNow <- 11, POSIX_TIMER_COUNT <- 0, OVERRUN_MAX <- 0,
       Signo <- {}, SIGALRM <- ALRM, Deltas <- {}, Intervals <- {}, queue <- timers

FirstQueue == CHOOSE q \in [1..Cardinality(Task) -> Task] : Distinct(q)

TimeInit ==
  \/ part = "timers" /\ A!Init /\ NoClock
  \/ part = "late" /\ P!Init /\ NoClock
  \/ part = "clock" /\ U!ClockInit /\ NoTimer
  \/ part = "sleep" /\ V!ClockInit /\ NoTimer

UnionInit ==
  \/ part = "irq" /\ Init /\ NoTasks /\ NoTime
  \/ /\ Init /\ queue = FirstQueue
     /\ \/ part = "events" /\ T!Init /\ NoTime
        \/ part = "family" /\ C!Init /\ NoTime
        \/ TimeInit /\ NoTasks

TimeNext ==
  \/ part = "timers" /\ A!Next /\ UNCHANGED clockVars
  \/ part = "late" /\ P!Next /\ UNCHANGED clockVars
  \/ part = "clock" /\ U!ClockNext /\ UNCHANGED timerVars
  \/ part = "sleep" /\ V!SleepNext /\ UNCHANGED timerVars

UnionNext ==
  /\ \/ part = "irq" /\ Next /\ UNCHANGED <<taskVars, timeVars>>
     \/ part = "events" /\ T!Next /\ UNCHANGED <<vars, timeVars>>
     \/ part = "family" /\ C!Next /\ UNCHANGED <<vars, timeVars>>
     \/ TimeNext /\ UNCHANGED <<vars, taskVars>>
  /\ UNCHANGED part

UnionSpec == UnionInit /\ [][UnionNext]_allVars

-----------------------------------------------------------------------------
(* Properties.  The modules of the parts say what they mean for the code.  *)

\* Parents, children lists and thread groups agree through every reparenting,
\* and a dead thread that nobody waits for is queued for the idle loop.
Consistent ==
  /\ part = "events" => T!TypeOK /\ T!FamilyAgrees /\ T!ExitedThreadsQueued
  /\ part = "family" => C!FamilyAgrees

\* A child's exit is reported to its parent once, and the child is freed only
\* as a zombie, by its parent, in wait4.
ExitReportedOnce ==
  /\ [](part = "events" => T!ExitReportedOnce)
  /\ [][part = "events" => T!ReapStep]_allVars

\* No parent sleeps in wait4 while a child has an event for it, or in vfork when
\* its child has called exec or is gone.
NoSleepThroughChild ==
  /\ part = "events" => T!NoSleepThroughChild /\ T!VforkChildRuns
  /\ part = "family" => C!NoSleepThroughChild

\* The timer queue is the active timers, once each, by deadline, and no timer of
\* a deleted owner is on it.  However late an interrupt is, a periodic timer keeps
\* its phase, every expiry is a signal or an overrun, and nothing that is due stays
\* on the queue (ktimer_run_expired).
ExpiriesExact ==
  /\ [](part = "timers" => A!TypeOK /\ A!QueueExact /\ A!OwnersAlive)
  /\ [](part = "late" => P!PhaseKept /\ P!OverrunExact)
  /\ [][part = "late" => P!NothingLeftDueStep]_allVars

\* Relative deadlines are never early and at most a tick late, whether they are
\* given in timespecs or milliseconds, and getitimer never reports too little.
\* A sleep that signals interrupt is as long as it was asked to be.
\* Setting the wall clock takes effect, and it never runs backwards.
ClockExact ==
  /\ [](part = "clock" => U!ClockTypeOK /\ U!NotEarly /\ U!MsNotEarly /\ U!SnapshotNotShort)
  /\ [](part = "sleep" => V!ClockTypeOK /\ V!SleepsExact)
  /\ [][part = "clock" => U!RealtimeKeptStep]_allVars
=============================================================================
