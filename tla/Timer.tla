------------------------------- MODULE Timer -------------------------------
(***************************************************************************)
(* The kernel timer queue (kernel/time.c) with the timers of one process   *)
(* on it: its ITIMER_REAL and its POSIX timers.  System calls set and      *)
(* delete them; the clock interrupt, which may come late, runs what has    *)
(* expired.  Interrupts are off under the locks, so each is one step.      *)
(* And its clocks: mtime ticks, timespec and timeval with the conversions  *)
(* between them, CLOCK_REALTIME as an offset to mtime, and the sleeps of   *)
(* syscall/sys_time.c.  The units are constants, so that the ranges can be *)
(* small.  The two share the clock, and neither touches the other's state. *)
(***************************************************************************)
EXTENDS Integers, Sequences, SequencesExt, FiniteSetsExt

CONSTANTS
  POSIX_TIMER_COUNT,
  TIME_MAX,       \* UINT64_MAX of the mtime clock
  OVERRUN_MAX,    \* INT32_MAX
  Signo, SIGALRM,
  Real,           \* the interval timer
  Deltas,         \* first expiries that are asked for; zero disarms
  Intervals,      \* repeat intervals; zero is one-shot
  MaxNow          \* bound: how far the clock runs

Id == 0..(POSIX_TIMER_COUNT - 1)
KTimer == Id \cup {Real}
Time == 0..TIME_MAX

VARIABLES
  now,      \* timer_now()
  queue,    \* ktimer_queue.entries
  kt,       \* struct ktimer: expires, interval, active
  posix,    \* the table: notify, signo, overrun of an allocated timer
  itimer,   \* state->value is nonzero, and state->target is set
  pending,  \* signals pending at the thread group's leader
  first,    \* history: the expiry each timer was armed with
  shots,    \* history: expiries since then,
  sent      \*          and signals sent for them

table == <<queue, kt>>
history == <<first, shots, sent>>
vars == <<now, table, posix, itimer, pending, history>>

Idle == [expires |-> 0, interval |-> 0, active |-> FALSE]
NoTimer == [allocated |-> FALSE, notify |-> FALSE, signo |-> SIGALRM, overrun |-> 0]

Allocated == {id \in Id : posix[id].allocated}

-----------------------------------------------------------------------------
(* Deadlines and the queue. *)

mtime_deadline_after(a, d) == IF d > TIME_MAX - a THEN TIME_MAX ELSE a + d

\* Fault: the next period starts when the interrupt comes.
next_interval_drift(expires, interval, n) == mtime_deadline_after(n, interval)

\* The first multiple of the interval after now, or the end of time.
next_interval(expires, interval, n) ==
  Min({d \in {mtime_deadline_after(expires, k * interval) : k \in 1..TIME_MAX} :
         d > n \/ d = TIME_MAX})

\* ktimer_insert_locked: behind the timers that expire no later.
Insert(q, t, k) ==
  LET i == SelectInSeq(q, LAMBDA j : t[k].expires < t[j].expires)
  IN IF i = 0 THEN Append(q, k) ELSE InsertAt(q, i, k)

Unlink(q, k) == SelectSeq(q, LAMBDA j : j # k)

ktimer_arm(k, expires, interval) ==
  LET t == [kt EXCEPT ![k] = [expires |-> expires, interval |-> interval,
                              active |-> TRUE]]
  IN /\ kt' = t
     /\ queue' = Insert(Unlink(queue, k), t, k)
     /\ first' = [first EXCEPT ![k] = expires]
     /\ shots' = [shots EXCEPT ![k] = 0]
     /\ sent' = [sent EXCEPT ![k] = 0]

\* The timers in K are off the queue.
ktimer_cancel(K) ==
  /\ kt' = [k \in KTimer |-> IF k \in K THEN Idle ELSE kt[k]]
  /\ queue' = SelectSeq(queue, LAMBDA k : k \notin K)
  /\ first' = [k \in KTimer |-> IF k \in K THEN 0 ELSE first[k]]
  /\ shots' = [k \in KTimer |-> IF k \in K THEN 0 ELSE shots[k]]
  /\ sent' = [k \in KTimer |-> IF k \in K THEN 0 ELSE sent[k]]

-----------------------------------------------------------------------------
(* The interrupt. *)

Due == SelectSeq(queue, LAMBDA k : kt[k].expires <= now)

\* A periodic timer goes back with its next deadline, before its function runs.
Rearmed(k) ==
  IF kt[k].interval = 0 THEN Idle
  ELSE [kt[k] EXCEPT !.expires = next_interval(@, kt[k].interval, now)]

\* itimer_real_fire sends SIGALRM.  posix_timer_fire sends its signal, or counts
\* an overrun when the signal is pending still.
fire(s, k) ==
  IF k = Real THEN [s EXCEPT !.pending = @ \cup {SIGALRM}, !.sent[k] = @ + 1]
  ELSE CASE ~posix[k].notify -> s
         [] posix[k].notify /\ posix[k].signo \in s.pending ->
              [s EXCEPT !.posix[k].overrun = IF @ < OVERRUN_MAX THEN @ + 1 ELSE @]
         [] OTHER -> [s EXCEPT !.pending = @ \cup {posix[k].signo}, !.sent[k] = @ + 1]

\* ktimer_run_expired: first to last.
ktimer_run_expired ==
  LET t == [k \in KTimer |-> IF k \in ToSet(Due) THEN Rearmed(k) ELSE kt[k]]
      rest == SelectSeq(queue, LAMBDA k : k \notin ToSet(Due))
      back == SelectSeq(Due, LAMBDA k : t[k].active)
      s == FoldLeft(fire, [pending |-> pending, posix |-> posix, sent |-> sent], Due)
  IN /\ Due # <<>>
     /\ kt' = t
     /\ queue' = FoldLeft(LAMBDA q, k : Insert(q, t, k), rest, back)
     /\ pending' = s.pending
     /\ posix' = s.posix
     /\ sent' = s.sent
     /\ itimer' = (itimer /\ t[Real].active)
     /\ shots' = [k \in KTimer |-> IF k \in ToSet(Due) THEN shots[k] + 1 ELSE shots[k]]
     /\ UNCHANGED <<now, first>>

Advance ==
  /\ now < MaxNow
  /\ now' = now + 1
  /\ UNCHANGED <<table, posix, itimer, pending, history>>

\* The leader takes a signal.
Deliver(sig) ==
  /\ sig \in pending
  /\ pending' = pending \ {sig}
  /\ UNCHANGED <<now, table, posix, itimer, history>>

-----------------------------------------------------------------------------
(* System calls. *)

itimer_set_real(value, interval) ==
  /\ IF value = 0 THEN ktimer_cancel({Real})
     ELSE ktimer_arm(Real, mtime_deadline_after(now, value), interval)
  /\ itimer' = (value # 0)
  /\ UNCHANGED <<now, posix, pending>>

\* Without a new value it disarms.  The old one is copied out afterwards: -EFAULT
\* leaves the timer set.
sys_setitimer(given, value, interval) == itimer_set_real(IF given THEN value ELSE 0, interval)

\* The lowest free slot; -EAGAIN when there is none.
posix_timer_create(notify, signo) ==
  /\ Allocated # Id
  /\ posix' = [posix EXCEPT ![Min(Id \ Allocated)] =
                 [NoTimer EXCEPT !.allocated = TRUE, !.notify = notify,
                                 !.signo = IF notify THEN signo ELSE SIGALRM]]
  /\ UNCHANGED <<now, table, itimer, pending, history>>

\* A timer whose id cannot be stored is deleted again.
sys_timer_create(notify, signo, fault) ==
  IF fault THEN Allocated # Id /\ UNCHANGED vars ELSE posix_timer_create(notify, signo)

posix_timer_settime(id, abs, value, interval) ==
  /\ id \in Allocated
  /\ posix' = [posix EXCEPT ![id].overrun = 0]
  /\ IF value = 0 THEN ktimer_cancel({id})
     ELSE ktimer_arm(id, IF abs THEN value ELSE mtime_deadline_after(now, value),
                     interval)
  /\ UNCHANGED <<now, itimer, pending>>

\* Fault: the slot is given back and the timer stays on the queue.
posix_timer_detach_queued(K) ==
  /\ posix' = [id \in Id |-> IF id \in K THEN NoTimer ELSE posix[id]]
  /\ UNCHANGED <<table, history>>

posix_timer_detach(K) ==
  /\ posix' = [id \in Id |-> IF id \in K THEN NoTimer ELSE posix[id]]
  /\ ktimer_cancel(K)

posix_timer_delete(id) ==
  /\ id \in Allocated
  /\ posix_timer_detach({id})
  /\ UNCHANGED <<now, itimer, pending>>

\* execve: the POSIX timers go, the interval timer stays.
posix_timer_table_clear ==
  /\ posix_timer_detach(Allocated)
  /\ UNCHANGED <<now, itimer, pending>>

-----------------------------------------------------------------------------
Init ==
  /\ now = 0
  /\ queue = <<>>
  /\ kt = [k \in KTimer |-> Idle]
  /\ posix = [id \in Id |-> NoTimer]
  /\ itimer = FALSE
  /\ pending = {}
  /\ first = [k \in KTimer |-> 0]
  /\ shots = [k \in KTimer |-> 0]
  /\ sent = [k \in KTimer |-> 0]

Next ==
  \/ ktimer_run_expired
  \/ Advance
  \/ \E sig \in Signo : Deliver(sig)
  \/ \E value \in Deltas, interval \in Intervals :
       \/ \E given \in BOOLEAN : sys_setitimer(given, value, interval)
       \/ \E id \in Id, abs \in BOOLEAN : posix_timer_settime(id, abs, value, interval)
  \/ \E notify, fault \in BOOLEAN, signo \in Signo : sys_timer_create(notify, signo, fault)
  \/ \E id \in Id : posix_timer_delete(id)
  \/ posix_timer_table_clear

Spec == Init /\ [][Next]_vars

-----------------------------------------------------------------------------
TypeOK ==
  /\ now \in 0..MaxNow
  /\ queue \in Seq(KTimer)
  /\ kt \in [KTimer -> [expires : Time, interval : Time, active : BOOLEAN]]
  /\ posix \in [Id -> [allocated : BOOLEAN, notify : BOOLEAN, signo : Signo,
                       overrun : 0..OVERRUN_MAX]]
  /\ itimer \in BOOLEAN
  /\ pending \subseteq Signo

\* The queue is the active timers, each once, by deadline: the interrupt looks
\* at the first entry only.
QueueExact ==
  /\ IsInjective(queue)
  /\ ToSet(queue) = {k \in KTimer : kt[k].active}
  /\ \A i \in 1..(Len(queue) - 1) : kt[queue[i]].expires <= kt[queue[i + 1]].expires

\* A deleted timer is not on the queue: its memory is freed.  The interval timer
\* has a value and a target exactly while it is armed.
OwnersAlive == /\ \A id \in Id : kt[id].active => posix[id].allocated
               /\ itimer <=> kt[Real].active

\* However late the interrupts come, a periodic timer keeps the phase it was
\* armed with and has not expired more often than its periods have passed; a
\* one-shot timer that is armed has not expired.
PhaseKept ==
  \A k \in KTimer : kt[k].active =>
    IF kt[k].interval = 0 THEN kt[k].expires = first[k] /\ shots[k] = 0
    ELSE kt[k].expires < TIME_MAX =>
           /\ kt[k].expires >= first[k] + shots[k] * kt[k].interval
           /\ (kt[k].expires - first[k]) % kt[k].interval = 0

\* Every expiry of a timer that notifies is a signal sent or an overrun counted.
OverrunExact ==
  \A id \in Allocated : posix[id].notify /\ posix[id].overrun < OVERRUN_MAX =>
    shots[id] = sent[id] + posix[id].overrun

\* An interrupt leaves nothing on the queue that is due, however far a periodic
\* timer is behind: what it puts back lies in the future.
NothingLeftDueStep ==
  ktimer_run_expired => \A k \in KTimer : kt'[k].active => kt'[k].expires > now

-----------------------------------------------------------------------------
(* The clocks. *)

CONSTANTS
  MTIME_FREQ,                  \* ticks,
  MSEC_PER_SEC, USEC_PER_SEC, NSEC_PER_SEC,
  SEC_MAX                      \* INT64_MAX, of seconds

VARIABLES
  offset,   \* realtime_clock.offset
  sleep     \* a task in nanosleep: where it is, its deadline, whether it is told the
            \* time left, that time; and the end it first asked for, in fine units

clockVars == <<now, offset, sleep>>

Timespec == [sec : 0..SEC_MAX, nsec : 0..(NSEC_PER_SEC - 1)]
Timeval == [sec : 0..SEC_MAX, usec : 0..(USEC_PER_SEC - 1)]

Ceil(a, b) == (a + b - 1) \div b

\* timespec_compare
Leq(a, b) == a.sec < b.sec \/ (a.sec = b.sec /\ a.nsec <= b.nsec)

-----------------------------------------------------------------------------
(* To ticks: rounded up, and saturated. *)

SecTicks(sec) == IF sec > TIME_MAX \div MTIME_FREQ THEN TIME_MAX ELSE sec * MTIME_FREQ

\* Fault: the fraction of a tick is dropped.
timespec_to_mtime_delta_floor(ts) ==
  mtime_deadline_after(SecTicks(ts.sec), (ts.nsec * MTIME_FREQ) \div NSEC_PER_SEC)

timespec_to_mtime_delta(ts) ==
  mtime_deadline_after(SecTicks(ts.sec), Ceil(ts.nsec * MTIME_FREQ, NSEC_PER_SEC))

timeval_to_mtime_delta(tv) ==
  mtime_deadline_after(SecTicks(tv.sec), Ceil(tv.usec * MTIME_FREQ, USEC_PER_SEC))

\* mtime_deadline_from_ms, of a positive timeout.
ms_delta(ms) ==
  IF ms > (TIME_MAX - (MSEC_PER_SEC - 1)) \div MTIME_FREQ THEN TIME_MAX
  ELSE Ceil(ms * MTIME_FREQ, MSEC_PER_SEC)

-----------------------------------------------------------------------------
(* From ticks. *)

mtime_to_timespec(ticks) ==
  [sec |-> ticks \div MTIME_FREQ,
   nsec |-> ((ticks % MTIME_FREQ) * NSEC_PER_SEC) \div MTIME_FREQ]

\* Microseconds are rounded up, with a carry.
mtime_to_timeval(ticks) ==
  LET sec == ticks \div MTIME_FREQ
      usec == Ceil((ticks % MTIME_FREQ) * USEC_PER_SEC, MTIME_FREQ)
  IN IF usec >= USEC_PER_SEC THEN [sec |-> sec + 1, usec |-> usec - USEC_PER_SEC]
     ELSE [sec |-> sec, usec |-> usec]

-----------------------------------------------------------------------------
(* CLOCK_REALTIME. *)

\* Fault: the carry of the nanoseconds is not checked for overflow.
Sum_unchecked(a, b) ==
  LET carry == IF a.nsec + b.nsec >= NSEC_PER_SEC THEN 1 ELSE 0
  IN IF a.sec + b.sec > SEC_MAX THEN [sec |-> SEC_MAX, nsec |-> NSEC_PER_SEC - 1]
     ELSE [sec |-> (a.sec + b.sec + carry) % (SEC_MAX + 1),
           nsec |-> a.nsec + b.nsec - carry * NSEC_PER_SEC]

Sum(a, b) ==
  LET carry == IF a.nsec + b.nsec >= NSEC_PER_SEC THEN 1 ELSE 0
  IN IF a.sec + b.sec + carry > SEC_MAX
     THEN [sec |-> SEC_MAX, nsec |-> NSEC_PER_SEC - 1]
     ELSE [sec |-> a.sec + b.sec + carry,
           nsec |-> a.nsec + b.nsec - carry * NSEC_PER_SEC]

\* timespec_subtract_nonnegative
Difference(a, b) ==
  IF a.nsec < b.nsec
  THEN [sec |-> a.sec - b.sec - 1, nsec |-> a.nsec - b.nsec + NSEC_PER_SEC]
  ELSE [sec |-> a.sec - b.sec, nsec |-> a.nsec - b.nsec]

Monotonic == mtime_to_timespec(now)

kernel_realtime_now == Sum(Monotonic, offset)

\* -EINVAL for a value before CLOCK_MONOTONIC.
kernel_realtime_set(value) ==
  /\ Leq(Monotonic, value)
  /\ offset' = Difference(value, Monotonic)
  /\ UNCHANGED <<now, sleep>>

\* The superuser's clock_settime, of CLOCK_REALTIME only.
sys_clock_settime(clock, uid, value) ==
  clock = "REALTIME" /\ uid = 0 /\ kernel_realtime_set(value)

\* What gettimeofday reports.
sys_gettimeofday ==
  [sec |-> kernel_realtime_now.sec,
   usec |-> (kernel_realtime_now.nsec * USEC_PER_SEC) \div NSEC_PER_SEC]

Tick == now < MaxNow /\ now' = now + 1 /\ UNCHANGED <<offset, sleep>>

-----------------------------------------------------------------------------
(* Sleeps.  A task that a signal wakes may sleep again for the time left.  *)

Awake == [at |-> "awake", deadline |-> 0, relative |-> TRUE,
          rem |-> [sec |-> 0, nsec |-> 0], until |-> 0]

\* The time a sleep for ts from tick t ends, 1 / (MTIME_FREQ * NSEC_PER_SEC) s each.
Asked(t, ts) == t * NSEC_PER_SEC + (ts.sec * NSEC_PER_SEC + ts.nsec) * MTIME_FREQ

\* mtime_deadline_from_timespec, then wait_for.
SleepFor(ts, until) ==
  /\ sleep' = [Awake EXCEPT !.at = "asleep", !.until = until,
                 !.deadline = mtime_deadline_after(now, timespec_to_mtime_delta(ts))]
  /\ UNCHANGED <<now, offset>>

sys_nanosleep(req) == sleep.at # "asleep" /\ SleepFor(req, Asked(now, req))

\* A program that goes on sleeping after -EINTR.
SleepAgain == sleep.at = "interrupted" /\ SleepFor(sleep.rem, sleep.until)

\* -EINVAL for an absolute time of the wall clock.
sys_clock_nanosleep(clock, abstime, req) ==
  /\ sleep.at # "asleep"
  /\ ~(clock = "REALTIME" /\ abstime)
  /\ IF abstime
     THEN /\ sleep' = [Awake EXCEPT !.at = "asleep", !.relative = FALSE,
                         !.deadline = timespec_to_mtime_delta(req),
                         !.until = Asked(0, req)]
          /\ UNCHANGED <<now, offset>>
     ELSE SleepFor(req, Asked(now, req))

SleepTimeout ==
  /\ sleep.at = "asleep" /\ now >= sleep.deadline
  /\ sleep' = [sleep EXCEPT !.at = "done"]
  /\ UNCHANGED <<now, offset>>

\* Fault: the time left is rounded as if the tick under way were over.
TimeLeft_short ==
  mtime_to_timespec(IF sleep.deadline > now THEN sleep.deadline - now - 1 ELSE 0)

TimeLeft == mtime_to_timespec(IF sleep.deadline > now THEN sleep.deadline - now ELSE 0)

\* -EINTR; only a relative sleep reports the time left.
SleepSignal ==
  /\ sleep.at = "asleep"
  /\ sleep' = IF sleep.relative THEN [sleep EXCEPT !.at = "interrupted", !.rem = TimeLeft]
              ELSE Awake
  /\ UNCHANGED <<now, offset>>

-----------------------------------------------------------------------------
ClockInit == now = 0 /\ offset = [sec |-> 0, nsec |-> 0] /\ sleep = Awake

ClockNext ==
  \/ Tick
  \/ \E clock \in {"REALTIME", "MONOTONIC"}, uid \in {0, 1}, value \in Timespec :
       sys_clock_settime(clock, uid, value)

SleepNext ==
  \/ Tick
  \/ SleepAgain
  \/ SleepTimeout
  \/ SleepSignal
  \/ \E req \in Timespec :
       \/ sys_nanosleep(req)
       \/ \E clock \in {"REALTIME", "MONOTONIC"}, abstime \in BOOLEAN :
            sys_clock_nanosleep(clock, abstime, req)

ClockSpec == ClockInit /\ [][ClockNext \/ SleepNext]_clockVars

-----------------------------------------------------------------------------
ClockTypeOK ==
  /\ now \in 0..MaxNow
  /\ offset \in Timespec
  /\ sleep.at \in {"awake", "asleep", "interrupted", "done"}
  /\ sleep.deadline \in 0..TIME_MAX
  /\ sleep.rem \in Timespec

\* However often signals interrupt a sleep and it is taken up again for the time
\* left, it does not end before the time first asked for; and taken up at once it
\* has the deadline it had: the roundings to ticks and back do not add up.
SleepsExact ==
  /\ sleep.at = "done" /\ sleep.deadline < TIME_MAX => now * NSEC_PER_SEC >= sleep.until
  /\ sleep.at = "asleep" /\ now < sleep.deadline =>
       mtime_deadline_after(now, timespec_to_mtime_delta(TimeLeft)) = sleep.deadline

\* A relative deadline is not before the time asked for and at most one tick
\* after it, or it is the end of the clock.
NotEarly ==
  \A ts \in Timespec :
    LET d == mtime_deadline_after(now, timespec_to_mtime_delta(ts)) - now
        asked == (ts.sec * NSEC_PER_SEC + ts.nsec) * MTIME_FREQ
    IN now + d = TIME_MAX \/ (d * NSEC_PER_SEC >= asked /\ (d - 1) * NSEC_PER_SEC < asked)

\* The same for a timeout of poll in milliseconds.
MsNotEarly ==
  \A ms \in 1..TIME_MAX :
    LET d == mtime_deadline_after(now, ms_delta(ms)) - now
    IN now + d = TIME_MAX \/
         (d * MSEC_PER_SEC >= ms * MTIME_FREQ /\ (d - 1) * MSEC_PER_SEC < ms * MTIME_FREQ)

\* What getitimer reports of the time left is a well-formed timeval that is no
\* shorter: setting the timer again from it is never early.
SnapshotNotShort ==
  \A d \in now..TIME_MAX :
    LET left == mtime_to_timeval(d - now)
    IN /\ left.usec < USEC_PER_SEC
       /\ mtime_deadline_after(now, timeval_to_mtime_delta(left)) >= d

\* Setting the wall clock and reading it at once gives the value set, and it
\* goes on from there; it never runs backwards, nor behind CLOCK_MONOTONIC.
RealtimeKeptStep ==
  /\ \A value \in Timespec :
       kernel_realtime_set(value) => kernel_realtime_now' = value
  /\ Tick => /\ Leq(kernel_realtime_now, kernel_realtime_now')
             /\ \/ sys_gettimeofday.sec < sys_gettimeofday'.sec
                \/ /\ sys_gettimeofday.sec = sys_gettimeofday'.sec
                   /\ sys_gettimeofday.usec <= sys_gettimeofday'.usec
  /\ Leq(Monotonic, kernel_realtime_now)
=============================================================================
