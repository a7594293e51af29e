------------------------------- MODULE Futex -------------------------------
(***************************************************************************)
(* Futexes (kernel/futex.c) under the locks and joins of one process: a    *)
(* robust lock in user memory, the word that clear_child_tid zeroes when a *)
(* thread exits, and the waits and wakes on them.                          *)
(*                                                                         *)
(* The threads take turns on the hart.  A system call runs until it sleeps *)
(* or returns; between two instructions of the lock's user code anybody    *)
(* may run.  All words share one bucket, as the hash may have it.          *)
(***************************************************************************)
EXTENDS Naturals, Sequences, FiniteSets, Queues

CONSTANTS
  Thread, Leader,
  Lock,       \* the address of the lock; a thread's tid word goes by its name
  None,       \* no owner
  Bit         \* bits of a futex bitset

Address == {Lock} \cup Thread
MATCH_ANY == Bit

VARIABLES
  lock,       \* the lock word: owner, FUTEX_WAITERS, FUTEX_OWNER_DIED
  tid,        \* the tid word of each thread: nonzero while it lives
  pc,         \* where each thread is in user mode, or in futex_wait
  held,       \* its robust list contains the lock
  pending,    \* its list_op_pending is the lock
  contended,  \* it has waited for the lock since it began to take it
  waiter,     \* its struct futex_waiter, and how its sleep stands
  bucket,     \* the threads whose waiter is linked, oldest first
  dropped     \* history: a thread was killed on its way to take the lock or to wake

words == <<lock, tid>>
user == <<held, pending, contended>>
vars == <<words, pc, user, waiter, bucket, dropped>>

\* FUTEX_OWNER_DIED replaces the owner's id and goes with the next owner.
LockWord == {w \in [owner : Thread \cup {None}, waiters : BOOLEAN, died : BOOLEAN] :
               w.died => w.owner = None}
Free == [owner |-> None, waiters |-> FALSE, died |-> FALSE]

Waiter == [key : Address, bits : SUBSET Bit, timed : BOOLEAN, woken : BOOLEAN,
           asleep : BOOLEAN, sig : BOOLEAN, due : BOOLEAN]
NoWaiter == [key |-> Lock, bits |-> {}, timed |-> FALSE, woken |-> FALSE,
             asleep |-> FALSE, sig |-> FALSE, due |-> FALSE]

Waits(t, k) == pc[t] = "wait" /\ waiter[t].key = k

-----------------------------------------------------------------------------
(* Wakes. *)

\* The first nr waiters of the key, not woken yet, whose bitset meets bits.
Matches(w, k, bits) == w.key = k /\ w.bits \cap bits # {} /\ ~w.woken

Chosen(k, nr, bits) ==
  LET M == {i \in DOMAIN bucket : Matches(waiter[bucket[i]], k, bits)}
  IN {bucket[i] : i \in {j \in M : Cardinality({h \in M : h < j}) < nr}}

\* They keep their place in the bucket until they run.
Woken(S) == [t \in Thread |->
  IF t \in S THEN [waiter[t] EXCEPT !.woken = TRUE, !.asleep = FALSE]
  ELSE waiter[t]]

\* FUTEX_WAKE, FUTEX_WAKE_BITSET.
futex_wake(k, nr, bits) == waiter' = Woken(Chosen(k, nr, bits))

-----------------------------------------------------------------------------
(* Waits. *)

\* futex_wait_check compares the word with the expected value under the
\* bucket's lock, before it queues the waiter.
Queues(t, equal) == equal

\* FUTEX_WAIT, FUTEX_WAIT_BITSET: sleep if the word is as expected, or return
\* -EAGAIN.  Nothing but an interrupt comes between the check and the sleep.
futex_wait(t, k, bits, timed, equal) ==
  IF Queues(t, equal)
  THEN /\ waiter' = [waiter EXCEPT ![t] = [NoWaiter EXCEPT
                       !.key = k, !.bits = bits, !.timed = timed, !.asleep = TRUE]]
       /\ bucket' = Append(bucket, t)
       /\ pc' = [pc EXCEPT ![t] = "wait"]
  ELSE UNCHANGED <<waiter, bucket, pc>>

\* A signal, or the deadline, ends the sleep; the waiter stays queued.
Signal(t) ==
  /\ pc[t] = "wait" /\ waiter[t].asleep
  /\ waiter' = [waiter EXCEPT ![t].asleep = FALSE, ![t].sig = TRUE]
  /\ UNCHANGED <<words, pc, user, bucket, dropped>>

Timeout(t) ==
  /\ pc[t] = "wait" /\ waiter[t].timed /\ ~waiter[t].due
  /\ waiter' = [waiter EXCEPT ![t].asleep = FALSE, ![t].due = TRUE]
  /\ UNCHANGED <<words, pc, user, bucket, dropped>>

\* Fault: a signal or a deadline is looked at before the wake.
Outcome_late(t) ==
  IF waiter[t].sig THEN "signal" ELSE IF waiter[t].due THEN "timeout" ELSE "event"

\* What wait_for returns to futex_wait: a wake counts before the others.
Outcome(t) ==
  IF waiter[t].woken THEN "event" ELSE IF waiter[t].sig THEN "signal" ELSE "timeout"

\* list_del_init of its node.
Leaves(t) == DelAt(bucket, CHOOSE i \in DOMAIN bucket : bucket[i] = t)

\* The waiter leaves the bucket and the call returns.  User code tries again
\* after a wake or a signal and gives up after a timeout.
WaitReturns(t) ==
  LET again == IF waiter[t].key = Lock THEN "lock" ELSE "user"
      giveUp == Outcome(t) = "timeout"
  IN /\ pc[t] = "wait" /\ ~waiter[t].asleep
     /\ bucket' = Leaves(t)
     /\ waiter' = [waiter EXCEPT ![t] = NoWaiter]
     /\ pc' = [pc EXCEPT ![t] = IF giveUp THEN "user" ELSE again]
     /\ pending' = [pending EXCEPT ![t] = @ /\ ~giveUp]
     /\ contended' = [contended EXCEPT ![t] = @ /\ ~giveUp]
     /\ UNCHANGED <<words, held, dropped>>

-----------------------------------------------------------------------------
(* The user code of a robust lock, and of a join.  Each action is one        *)
(* instruction that others can see, or one system call.                      *)

At(t, p) == pc[t] = p
Goto(t, p) == pc' = [pc EXCEPT ![t] = p]

LockBegin(t) ==
  /\ At(t, "user") /\ Goto(t, "lock")
  /\ pending' = [pending EXCEPT ![t] = TRUE]
  /\ UNCHANGED <<words, held, contended, waiter, bucket, dropped>>

\* Compare-and-swap on a word without an owner.
LockTake(t) ==
  /\ At(t, "lock") /\ lock.owner = None
  /\ Goto(t, "acquired")
  /\ lock' = [Free EXCEPT !.owner = t, !.waiters = lock.waiters \/ contended[t]]
  /\ UNCHANGED <<tid, user, waiter, bucket, dropped>>

\* Compare-and-swap that adds FUTEX_WAITERS.
LockMark(t) ==
  /\ At(t, "lock") /\ lock.owner # None /\ ~lock.waiters
  /\ lock' = [lock EXCEPT !.waiters = TRUE]
  /\ UNCHANGED <<tid, pc, user, waiter, bucket, dropped>>

\* The word read by user code may have changed before futex_wait compares it.
LockWait(t, timed, equal) ==
  /\ At(t, "lock")
  /\ equal => lock.owner # None /\ lock.waiters
  /\ futex_wait(t, Lock, MATCH_ANY, timed, equal)
  /\ contended' = [contended EXCEPT ![t] = TRUE]
  /\ UNCHANGED <<words, held, pending, dropped>>

LockLink(t) ==
  /\ At(t, "acquired") /\ Goto(t, "held")
  /\ held' = [held EXCEPT ![t] = TRUE]
  /\ pending' = [pending EXCEPT ![t] = FALSE]
  /\ contended' = [contended EXCEPT ![t] = FALSE]
  /\ UNCHANGED <<words, waiter, bucket, dropped>>

UnlockBegin(t) ==
  /\ At(t, "held") /\ Goto(t, "releasing")
  /\ pending' = [pending EXCEPT ![t] = TRUE]
  /\ held' = [held EXCEPT ![t] = FALSE]
  /\ UNCHANGED <<words, contended, waiter, bucket, dropped>>

\* Exchange with zero; FUTEX_WAITERS in the old value asks for a wake.
UnlockStore(t) ==
  /\ At(t, "releasing")
  /\ Goto(t, IF lock.waiters THEN "unlock" ELSE "user")
  /\ pending' = [pending EXCEPT ![t] = lock.waiters]
  /\ lock' = Free
  /\ UNCHANGED <<tid, held, contended, waiter, bucket, dropped>>

UnlockWake(t) ==
  /\ At(t, "unlock") /\ Goto(t, "user")
  /\ pending' = [pending EXCEPT ![t] = FALSE]
  /\ futex_wake(Lock, 1, MATCH_ANY)
  /\ UNCHANGED <<words, held, contended, bucket, dropped>>

\* A wake nobody waits for in particular.
Notify(t, k, bits) ==
  /\ At(t, "user")
  /\ futex_wake(k, 1, bits)
  /\ UNCHANGED <<words, pc, user, bucket, dropped>>

\* One thread waits for the tid word of another to become zero.
Join(t, u, bits, timed) ==
  /\ At(t, "user") /\ t # u
  /\ \A v \in Thread : ~Waits(v, u)
  /\ futex_wait(t, u, bits, timed, tid[u])
  /\ UNCHANGED <<words, user, dropped>>

-----------------------------------------------------------------------------
(* Exit. *)

\* Fault: list_op_pending is not looked at.
RobustOwner_listed(t) == lock.owner = t /\ held[t]

\* futex_exit_robust_list finds the lock on the list or pending, and
\* robust_wake_owner finds the thread's id in the word.
RobustOwner(t) == lock.owner = t /\ (held[t] \/ pending[t])

OwnerDied(w) == [w EXCEPT !.owner = None, !.died = TRUE]

clear_child_tid(t) == Chosen(t, 1, MATCH_ANY)

\* finish_task_exit: the robust list is walked, then the tid word is cleared,
\* each with a wake.
finish_task_exit(t) ==
  LET robust == RobustOwner(t)
  IN /\ lock' = IF robust THEN OwnerDied(lock) ELSE lock
     /\ tid' = [tid EXCEPT ![t] = FALSE]
     /\ waiter' = Woken((IF robust THEN Chosen(Lock, 1, MATCH_ANY) ELSE {})
                        \cup clear_child_tid(t))
     /\ pc' = [pc EXCEPT ![t] = "gone"]
     /\ held' = [held EXCEPT ![t] = FALSE]
     /\ pending' = [pending EXCEPT ![t] = FALSE]
     /\ contended' = [contended EXCEPT ![t] = FALSE]
     /\ dropped' = (dropped \/ pc[t] \in {"lock", "unlock"})
     /\ UNCHANGED bucket

\* exit(), by a thread that does as it likes with the lock.
Exit(t) ==
  /\ t # Leader
  /\ pc[t] \in {"user", "held"}
  /\ finish_task_exit(t)

\* do_exit_signal: a fatal signal to one thread, on its way to user mode.
Killed(t) ==
  /\ t # Leader
  /\ pc[t] \notin {"wait", "gone"}
  /\ finish_task_exit(t)

\* The leader exits, or anybody calls exit_group: the siblings are torn down
\* where they are.  wait_cancel_task takes them off the wait channel, not off
\* the bucket, and their stacks are freed.  The words go with the memory.
ExitGroup(t) ==
  /\ pc[t] \notin {"wait", "gone"}
  /\ lock' = Free
  /\ tid' = [u \in Thread |-> FALSE]
  /\ pc' = [u \in Thread |-> "gone"]
  /\ held' = [u \in Thread |-> FALSE]
  /\ pending' = [u \in Thread |-> FALSE]
  /\ contended' = [u \in Thread |-> FALSE]
  /\ waiter' = [u \in Thread |-> NoWaiter]
  /\ UNCHANGED <<bucket, dropped>>

-----------------------------------------------------------------------------
Init ==
  /\ lock = Free
  /\ tid = [t \in Thread |-> TRUE]
  /\ pc = [t \in Thread |-> "user"]
  /\ held = [t \in Thread |-> FALSE]
  /\ pending = [t \in Thread |-> FALSE]
  /\ contended = [t \in Thread |-> FALSE]
  /\ waiter = [t \in Thread |-> NoWaiter]
  /\ bucket = <<>>
  /\ dropped = FALSE

Next ==
  \E t \in Thread :
    \/ LockBegin(t) \/ LockTake(t) \/ LockMark(t) \/ LockLink(t)
    \/ UnlockBegin(t) \/ UnlockStore(t) \/ UnlockWake(t)
    \/ \E timed, equal \in BOOLEAN : LockWait(t, timed, equal)
    \/ \E bits \in (SUBSET Bit) \ {{}} :
         \/ \E k \in Address : Notify(t, k, bits)
         \/ \E u \in Thread, timed \in BOOLEAN : Join(t, u, bits, timed)
    \/ Signal(t) \/ Timeout(t) \/ WaitReturns(t)
    \/ Exit(t) \/ Killed(t) \/ ExitGroup(t)

Spec == Init /\ [][Next]_vars

-----------------------------------------------------------------------------
Points == {"user", "lock", "acquired", "held", "releasing", "unlock", "wait", "gone"}

TypeOK ==
  /\ lock \in LockWord
  /\ tid \in [Thread -> BOOLEAN]
  /\ pc \in [Thread -> Points]
  /\ held \in [Thread -> BOOLEAN] /\ pending \in [Thread -> BOOLEAN]
  /\ contended \in [Thread -> BOOLEAN]
  /\ waiter \in [Thread -> Waiter]
  /\ bucket \in Seq(Thread)
  /\ dropped \in BOOLEAN

\* Whenever the lock is free and a thread sleeps on it, somebody is on the way
\* to take it or to wake: no wake is spent on a waiter that returns for another
\* reason, or twice on the same one, and the death of the owner wakes one.
LockNotStranded ==
  lock.owner = None =>
    \A t \in Thread : Waits(t, Lock) /\ waiter[t].asleep =>
      \E u \in Thread : \/ pc[u] \in {"lock", "unlock"}
                        \/ Waits(u, Lock) /\ waiter[u].woken

\* The lock never belongs to a thread that is gone, at whichever instruction of
\* locking or unlocking it died: list_op_pending covers the gaps around the list.
OwnerAlive == lock.owner # None => pc[lock.owner] # "gone"

\* A joiner does not sleep once the thread it waits for has exited.
JoinerWoken ==
  \A t, u \in Thread : Waits(t, u) /\ waiter[t].asleep => pc[u] # "gone"

\* A waiter is in the bucket, once, exactly while its thread is inside
\* futex_wait: the structure lives on the thread's kernel stack, and "the stack
\* is released only after it has left every wait and callback".
BucketLive ==
  /\ Distinct(bucket)
  /\ Range(bucket) = {t \in Thread : pc[t] = "wait"}

\* The same while the process lives.
BucketExact == (\E t \in Thread : pc[t] # "gone") => BucketLive

\* What a process relies on.  A thread killed between the wake that it was given
\* and its next try at the lock, or between its unlock and its wake, takes the
\* wake with it: the first holds until that has happened.
LocksAndJoins == (~dropped => LockNotStranded) /\ OwnerAlive /\ JoinerWoken /\ BucketExact
=============================================================================
