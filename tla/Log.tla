-------------------------------- MODULE Log --------------------------------
(***************************************************************************)
(* The kernel log: the byte ring of printk (kernel/printk.c) and the       *)
(* syslog() call on it (syscall/sys_log.c).                                *)
(*                                                                         *)
(* A byte is its sequence number, so that what a slot of the ring holds    *)
(* says which byte was last written there.  Messages come from anywhere,   *)
(* also from interrupts while a reader copies out: a read takes a snapshot *)
(* under the spinlock, copies it to the user without, and then moves the   *)
(* mark.  Readers take turns (read_lock) and wait with it held.            *)
(***************************************************************************)
EXTENDS Naturals, Sequences, SequencesExt

CONSTANTS Reader,
          PRINTK_LOG_BUF_SIZE,
          Lengths,           \* bytes of a message, the priority included
          Counts,            \* sizes that a caller asks for
          MaxBytes           \* bound on the bytes ever written

VARIABLES ring,              \* storage, first_seq, head_seq, read_seq, clear_seq
          lock,              \* the readers that hold read_lock: at most one
          reader,            \* of each: where it is, and its snapshot
          read,              \* the bytes that READ calls returned, in order
          seen               \* the last byte that a READ_CLEAR or CLEAR call knew of

vars == <<ring, lock, reader, read, seen>>

None == MaxBytes             \* what a slot holds before it is written
Idle == [at |-> "idle", size |-> 0, from |-> 0, copied |-> 0, bytes |-> <<>>, watch |-> FALSE,
         to |-> 0]

Lesser(a, b) == IF a < b THEN a ELSE b
Greater(a, b) == IF a < b THEN b ELSE a

-----------------------------------------------------------------------------
(* The ring.                                                               *)

printk_ring_normalize_locked(r, seq) == Lesser(Greater(seq, r.first_seq), r.head_seq)

Unread(r) == r.head_seq - printk_ring_normalize_locked(r, r.read_seq)

printk_ring_copy_locked(r, seq, size) ==
  [i \in 1..size |-> r.storage[(seq + i - 1) % PRINTK_LOG_BUF_SIZE]]

\* Fault: the oldest byte is not given up when the ring is full.
AppendByte_full(r) ==
  [r EXCEPT !.storage[r.head_seq % PRINTK_LOG_BUF_SIZE] = r.head_seq, !.head_seq = @ + 1]

AppendByte(r) ==
  LET head == r.head_seq + 1
  IN [r EXCEPT !.storage[r.head_seq % PRINTK_LOG_BUF_SIZE] = r.head_seq,
               !.head_seq = head,
               !.first_seq = IF head - @ > PRINTK_LOG_BUF_SIZE THEN head - PRINTK_LOG_BUF_SIZE
                             ELSE @]

printk_ring_append_locked(r, size) ==
  LET full == FoldLeft(LAMBDA a, i : AppendByte(a), r, [i \in 1..size |-> i])
  IN [full EXCEPT !.read_seq = printk_ring_normalize_locked(full, @),
                  !.clear_seq = printk_ring_normalize_locked(full, @)]

\* printk: the priority and the text go in together, and one reader is woken.
printk_ring_append_message(size) ==
  /\ ring.head_seq + size <= MaxBytes
  /\ ring' = printk_ring_append_locked(ring, size)
  /\ reader' = [r \in Reader |->
                  IF reader[r].watch THEN [reader[r] EXCEPT !.at = "probe", !.watch = FALSE]
                  ELSE reader[r]]
  /\ UNCHANGED <<lock, read, seen>>

-----------------------------------------------------------------------------
(* SYSLOG_ACTION_READ.                                                     *)

ReadStart(r, size) ==
  /\ reader[r].at = "idle"
  /\ reader' = [reader EXCEPT ![r] = [Idle EXCEPT !.at = "lock",
                                                  !.size = Lesser(size, PRINTK_LOG_BUF_SIZE)]]
  /\ UNCHANGED <<ring, lock, read, seen>>

\* mutex_lock(&printk_ring.read_lock): the task takes it, or sleeps until it is
\* woken and looks again.  No signal ends that.
mutex_lock(r) ==
  /\ reader[r].at = "lock"
  /\ IF lock = {} THEN lock' = {r} /\ reader' = [reader EXCEPT ![r].at = "probe"]
     ELSE lock' = lock /\ reader' = [reader EXCEPT ![r].at = "mutex"]
  /\ UNCHANGED <<ring, read, seen>>

\* One of those that sleep is woken; others may be faster.
mutex_unlock(after) ==
  LET asleep == {r \in Reader : after[r].at = "mutex"}
  IN /\ lock' = {}
     /\ IF asleep = {} THEN reader' = after
        ELSE \E r \in asleep : reader' = [after EXCEPT ![r].at = "lock"]

\* Fault: the reader looks for bytes before it is on the channel, and not after.
printk_log_read_probe_early(r) ==
  /\ reader[r].at = "probe"
  /\ reader' = [reader EXCEPT ![r].at = IF Unread(ring) # 0 THEN "copy" ELSE "asleep",
                              ![r].watch = FALSE]
  /\ ring' = [ring EXCEPT !.read_seq = printk_ring_normalize_locked(ring, @)]
  /\ UNCHANGED <<lock, read, seen>>

\* With no byte to read the task is put on the channel and sleeps.
printk_log_read_probe(r) ==
  /\ reader[r].at = "probe"
  /\ reader' = [reader EXCEPT ![r].at = IF Unread(ring) # 0 THEN "copy" ELSE "asleep",
                              ![r].watch = Unread(ring) = 0]
  /\ ring' = [ring EXCEPT !.read_seq = printk_ring_normalize_locked(ring, @)]
  /\ UNCHANGED <<lock, read, seen>>

\* A signal ends the wait: -EINTR.
ReadInterrupted(r) ==
  /\ reader[r].at = "asleep"
  /\ mutex_unlock([reader EXCEPT ![r] = Idle])
  /\ UNCHANGED <<ring, read, seen>>

\* A thread of the reader's process ends the process: the lock stays taken.
ReadTornDown(r) ==
  /\ reader[r].at = "asleep"
  /\ reader' = [reader EXCEPT ![r] = [Idle EXCEPT !.at = "gone"]]
  /\ UNCHANGED <<ring, lock, read, seen>>

ReadSnapshot(r) ==
  /\ reader[r].at = "copy"
  /\ LET from == printk_ring_normalize_locked(ring, ring.read_seq)
         copied == Lesser(Unread(ring), reader[r].size)
     IN /\ ring' = [ring EXCEPT !.read_seq = from]
        /\ reader' = [reader EXCEPT ![r].at = "commit", ![r].from = from, ![r].copied = copied,
                                    ![r].bytes = printk_ring_copy_locked(ring, from, copied)]
  /\ UNCHANGED <<lock, read, seen>>

ReadFault(r) ==
  /\ reader[r].at = "commit"
  /\ mutex_unlock([reader EXCEPT ![r] = Idle])
  /\ UNCHANGED <<ring, read, seen>>

\* Fault: the mark is moved by the count, wherever it is by now.
Committed_add(n, from, copied) == n + copied

\* Where the mark goes from n after the bytes from .. from + copied - 1 were read.
Committed(n, from, copied) == Greater(n, from + copied)

ReadCommit(r) ==
  /\ reader[r].at = "commit"
  /\ LET new == Committed(ring.read_seq, reader[r].from, reader[r].copied)
     IN ring' = [ring EXCEPT !.read_seq = printk_ring_normalize_locked(ring, new)]
  /\ read' = read \o reader[r].bytes
  /\ mutex_unlock([reader EXCEPT ![r] = Idle])
  /\ UNCHANGED seen

-----------------------------------------------------------------------------
(* The other actions of syslog().                                          *)

\* READ_CLEAR: the last bytes that fit; READ_ALL is the same without the mark.
ReadAllSnapshot(r, size) ==
  /\ reader[r].at = "idle"
  /\ LET available == ring.head_seq - printk_ring_normalize_locked(ring, ring.clear_seq)
         copied == Lesser(available, Lesser(size, PRINTK_LOG_BUF_SIZE))
         from == ring.head_seq - copied
     IN reader' = [reader EXCEPT ![r] = [Idle EXCEPT !.at = "all", !.from = from,
                     !.copied = copied, !.to = ring.head_seq,
                     !.bytes = printk_ring_copy_locked(ring, from, copied)]]
  /\ UNCHANGED <<ring, lock, read, seen>>

ReadAllEnd(r) ==
  /\ reader[r].at = "all"
  /\ reader' = [reader EXCEPT ![r] = Idle]
  /\ UNCHANGED <<ring, lock, read, seen>>

ReadAllClear(r) ==
  /\ reader[r].at = "all"
  /\ LET new == Greater(ring.clear_seq, reader[r].to)
     IN ring' = [ring EXCEPT !.clear_seq = printk_ring_normalize_locked(ring, new)]
  /\ seen' = Greater(seen, reader[r].to)
  /\ reader' = [reader EXCEPT ![r] = Idle]
  /\ UNCHANGED <<lock, read>>

printk_log_clear ==
  /\ ring' = [ring EXCEPT !.clear_seq = ring.head_seq]
  /\ seen' = ring.head_seq
  /\ UNCHANGED <<lock, reader, read>>

-----------------------------------------------------------------------------
Init ==
  /\ ring = [storage |-> [i \in 0..(PRINTK_LOG_BUF_SIZE - 1) |-> None],
             first_seq |-> 0, head_seq |-> 0, read_seq |-> 0, clear_seq |-> 0]
  /\ lock = {}
  /\ reader = [r \in Reader |-> Idle]
  /\ read = <<>>
  /\ seen = 0

Next ==
  \/ \E n \in Lengths : printk_ring_append_message(n)
  \/ printk_log_clear
  \/ \E r \in Reader : \/ \E n \in Counts : ReadStart(r, n) \/ ReadAllSnapshot(r, n)
                       \/ mutex_lock(r) \/ printk_log_read_probe(r) \/ ReadInterrupted(r)
                       \/ ReadTornDown(r) \/ ReadSnapshot(r) \/ ReadFault(r) \/ ReadCommit(r)
                       \/ ReadAllEnd(r) \/ ReadAllClear(r)

Spec == Init /\ [][Next]_vars

-----------------------------------------------------------------------------
(* Properties.                                                             *)

\* A READ returns every byte once and in order, also when messages come while it
\* copies and after a copy that failed: what was returned is increasing, and a byte
\* that is still in the ring and before the mark was returned.  Every snapshot holds
\* the bytes it is meant to.  A byte is cleared only by a call that knew of it.
LogExact ==
  /\ \A i \in 1..(Len(read) - 1) : read[i] < read[i + 1]
  /\ \A n \in ring.first_seq..(ring.read_seq - 1) : n \in Range(read)
  /\ \A r \in Reader : reader[r].at \in {"commit", "all"} =>
       reader[r].bytes = [i \in 1..reader[r].copied |-> reader[r].from + i - 1]
  /\ ring.clear_seq <= Greater(seen, ring.first_seq)

\* No reader sleeps while there is something to read, and none sleeps on the
\* lock once nobody holds it.
ReaderWoken ==
  \A r \in Reader : /\ reader[r].at = "asleep" => Unread(ring) = 0
                    /\ reader[r].at = "mutex" => \E o \in Reader : lock = {o} \/ reader[o].at = "lock"

=============================================================================
