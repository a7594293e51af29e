----------------------------- MODULE PipeProofs -----------------------------
(***************************************************************************)
(* A pipe strands nobody at its ends, keeps small writes whole and is a    *)
(* bounded queue of bytes, for every set of readers and writers, every     *)
(* size of the ring and of the pieces, and every length of a request: the  *)
(* properties of Pipe, proved from an invariant that is inductive.         *)
(***************************************************************************)
EXTENDS Pipe

\* What the proofs need of the constants.
Constants ==
  /\ Reader \cap Writer = {} /\ NoTask \notin Reader \cup Writer
  /\ PIPE_SIZE \in Nat /\ PIPE_SIZE > 0
  /\ SYS_FILE_BUF_SIZE \in Nat /\ SYS_FILE_BUF_SIZE > 0
  /\ ReadLens \subseteq Nat \ {0} /\ WriteLens \subseteq Nat \ {0}

-----------------------------------------------------------------------------
(* The inductive invariant.                                                *)

\* One call.  A small write is one piece and done at once; a later piece of a
\* large write is too, if it is small.
CallOK(t, r) ==
  /\ r.op \in {"none", "poll", EndOf(t)}
  /\ r.asleep => r.op # "none" /\ ~r.dead
  /\ r.op \in {"read", "write"} /\ ~r.dead =>
       r.piece > 0 /\ r.done + r.piece <= r.len
  /\ r.op = "write" /\ ~r.dead =>
       /\ r.part < r.piece
       /\ r.piece <= PIPE_BUF => r.part = 0
       /\ r.len <= PIPE_BUF => r.piece = r.len /\ r.done = 0

CallsOK(c) == c \in [Task -> Call] /\ \A t \in Task : CallOK(t, c[t])

\* Sleepers are where the wakeups look for them.
LinksOK(c, rw, ww) ==
  /\ rw \in Seq(Reader) /\ ww \in Seq(Writer) /\ Distinct(rw) /\ Distinct(ww)
  /\ \A t \in Reader : c[t].asleep => t \in Range(rw)
  /\ \A t \in Writer : c[t].asleep => t \in Range(ww)

\* Who sleeps has no room, or, alone on the read end, no bytes.
Blocked(r, n) ==
  IF r.op = "poll" THEN n = PIPE_SIZE
  ELSE PIPE_SIZE - n < (IF r.piece <= PIPE_BUF THEN r.piece ELSE 1)

OneReader == \A t, u \in Reader : t = u

SleepOK(c, n) ==
  /\ \A t \in Writer : c[t].asleep => Blocked(c[t], n)
  /\ OneReader => \A t \in Reader : c[t].asleep => n = 0

\* An end counts exactly while somebody refers to it, and nobody sleeps for one
\* that does not.
EndsOK(c, f, r, w) ==
  /\ r \in 0..1 /\ w \in 0..1 /\ f \subseteq End
  /\ r = 1 <=> Held(c, f, "read")
  /\ w = 1 <=> Held(c, f, "write")
  /\ \A t \in Reader : c[t].asleep => w = 1
  /\ \A t \in Writer : c[t].asleep => r = 1

\* head is used bytes after tail, and every slot between them has a byte.
RingOK ==
  /\ data \in [0..(PIPE_SIZE - 1) -> Byte \cup {Empty}]
  /\ tail \in 0..(PIPE_SIZE - 1) /\ used \in 0..PIPE_SIZE
  /\ head = (tail + used) % PIPE_SIZE
  /\ \A i \in 1..used : Queue[i] \in Byte

RunningOK == running \in Task \cup {NoTask} /\
  (running \in Task => ~call[running].asleep /\ call[running].op # "none")

\* The part of the invariant that is not about the bytes.
CallsInv ==
  /\ CallsOK(call) /\ RunningOK
  /\ LinksOK(call, readers_wq, writers_wq)
  /\ SleepOK(call, used)
  /\ EndsOK(call, open, readers, writers)
  /\ freed = (readers = 0 /\ writers = 0)

IInv == RingOK /\ SmallWritesWhole /\ CallsInv

-----------------------------------------------------------------------------
(* The ring.                                                               *)

\* The slot i places after slot t, without division.
Slot(t, i) == IF t + i < PIPE_SIZE THEN t + i ELSE t + i - PIPE_SIZE

\* A remainder of a number below twice the divisor.
LEMMA ModOK ==
    ASSUME NEW n \in Nat, n > 0, NEW a \in Nat, a < n + n
    PROVE  a % n = (IF a < n THEN a ELSE a - n)
  <1>1. CASE a < n BY <1>1
  <1>2. CASE ~(a < n)
    <2>1. a % n = a - n BY <1>2
    <2> QED BY <1>2, <2>1
  <1> QED BY <1>1, <1>2

\* The arithmetic of the ring: slots, and how far one is behind another.
LEMMA SlotOK ==
    ASSUME Constants, NEW t \in 0..(PIPE_SIZE - 1), NEW i \in 0..PIPE_SIZE
    PROVE  /\ (t + i) % PIPE_SIZE = Slot(t, i)
           /\ Slot(t, i) \in 0..(PIPE_SIZE - 1)
           /\ \A j \in 0..(PIPE_SIZE - 1) :
                (Slot(t, j) + PIPE_SIZE - Slot(t, i)) % PIPE_SIZE =
                  IF i <= j THEN j - i ELSE j - i + PIPE_SIZE
           /\ \A j \in 0..(PIPE_SIZE - i) : Slot(Slot(t, i), j) = Slot(t, i + j)
  <1> DEFINE N == PIPE_SIZE
  <1>1. N \in Nat /\ N > 0 BY DEF Constants
  <1>2. t \in Nat /\ t < N /\ i \in Nat /\ i <= N BY <1>1
  <1>3. (t + i) % N = Slot(t, i)
    <2>1. t + i \in Nat /\ t + i < N + N BY <1>1, <1>2
    <2> QED BY <1>1, <2>1, ModOK DEF Slot
  <1>4. Slot(t, i) \in 0..(N - 1) BY <1>1, <1>2 DEF Slot
  <1>5. ASSUME NEW j \in 0..(N - 1)
        PROVE  (Slot(t, j) + N - Slot(t, i)) % N = IF i <= j THEN j - i ELSE j - i + N
    <2> DEFINE a == Slot(t, j) + N - Slot(t, i)
    <2>1. j \in Nat /\ j < N BY <1>1
    <2>2. Slot(t, j) \in 0..(N - 1) BY <1>1, <1>2, <2>1 DEF Slot
    <2>3. a \in Nat /\ a < N + N BY <1>1, <1>4, <2>2
    <2>4. a % N = IF a < N THEN a ELSE a - N
      <3> HIDE DEF a, N
      <3> QED BY <1>1, <2>3, ModOK
    <2>5. (IF a < N THEN a ELSE a - N) = IF i <= j THEN j - i ELSE j - i + N
      <3>1. i < N \/ i = N BY <1>1, <1>2
      <3> QED BY <1>1, <1>2, <2>1, <3>1 DEF Slot
    <2> QED BY <2>4, <2>5
  <1>6. ASSUME NEW j \in 0..(N - i) PROVE Slot(Slot(t, i), j) = Slot(t, i + j)
    BY <1>1, <1>2 DEF Slot
  <1> QED BY <1>3, <1>4, <1>5, <1>6

LEMMA QueueAt ==
    ASSUME Constants, RingOK, NEW i \in 1..used
    PROVE  Queue[i] = data[Slot(tail, i - 1)] /\ Slot(tail, i - 1) \in 0..(PIPE_SIZE - 1)
  <1>1. i - 1 \in 0..PIPE_SIZE /\ tail \in 0..(PIPE_SIZE - 1) BY DEF RingOK, Constants
  <1>2. (tail + (i - 1)) % PIPE_SIZE = Slot(tail, i - 1) /\ Slot(tail, i - 1) \in 0..(PIPE_SIZE - 1)
    BY <1>1, SlotOK
  <1> QED BY <1>2 DEF Queue, Buffered

\* A sequence given entry by entry.
LEMMA ByteSeq ==
    ASSUME NEW n \in Nat, NEW q, DOMAIN q = 1..n
    PROVE  Len(q) = n
  OBVIOUS

\* pipe_commit_write_locked puts its bytes behind the others.
LEMMA StoreOK ==
    ASSUME Constants, RingOK, NEW k \in Nat, k <= PIPE_SIZE - used,
           NEW bytes \in [1..k -> Byte], store(bytes)
    PROVE  /\ RingOK' /\ used' = used + k
           /\ \A i \in 1..used : Queue'[i] = Queue[i]
           /\ \A i \in 1..k : Queue'[used + i] = bytes[i]
  <1> DEFINE N == PIPE_SIZE
             D == 0..(N - 1)
             behind(j) == (j + N - head) % N
  <1>1. N \in Nat /\ N > 0 BY DEF Constants
  <1>2. used \in Nat /\ used <= N /\ tail \in D /\ head = Slot(tail, used)
    <2>1. tail \in D /\ used \in 0..N BY DEF RingOK
    <2> QED BY <1>1, <2>1, SlotOK DEF RingOK
  <1>3. Len(bytes) = k BY ByteSeq
  <1>4. /\ data' = [j \in D |-> IF behind(j) < k THEN bytes[behind(j) + 1] ELSE data[j]]
        /\ head' = (head + k) % N /\ used' = used + k /\ tail' = tail
    BY <1>3 DEF store
  <1>5. used' \in 0..N BY <1>1, <1>2, <1>4
  <1>6. ASSUME NEW j \in 0..(used + k - 1)
        PROVE  /\ j \in D /\ Slot(tail, j) \in D
               /\ behind(Slot(tail, j)) = IF used <= j THEN j - used ELSE j - used + N
    <2>1. j \in D /\ j \in 0..N BY <1>1, <1>2
    <2>2. Slot(tail, j) \in D BY <1>2, <2>1, SlotOK
    <2>3. used \in 0..N BY <1>1, <1>2
    <2> QED BY <1>2, <2>1, <2>2, <2>3, SlotOK
  <1>7. \A j \in D : behind(j) \in Nat
    <2>1. head \in D BY <1>1, <1>2, SlotOK
    <2>2. ASSUME NEW j \in D PROVE behind(j) \in Nat
      <3>1. j + N - head \in Nat BY <1>1, <2>1
      <3> QED BY <1>1, <3>1
    <2> QED BY <2>2
  <1>8. data' \in [D -> Byte \cup {Empty}]
    <2>1. ASSUME NEW j \in D, behind(j) < k PROVE bytes[behind(j) + 1] \in Byte
      <3>1. behind(j) + 1 \in 1..k BY <1>7, <2>1
      <3> QED BY <3>1
    <2>2. data \in [D -> Byte \cup {Empty}] BY DEF RingOK
    <2> HIDE DEF behind, D
    <2> QED BY <1>4, <2>1, <2>2
  <1>9. head' = (tail' + used') % N
    <2>1. used \in 0..N /\ k \in 0..(N - used) /\ used + k \in 0..N BY <1>1, <1>2
    <2>2. (tail + (used + k)) % N = Slot(tail, used + k) BY <1>2, <2>1, SlotOK
    <2>3. Slot(Slot(tail, used), k) = Slot(tail, used + k) BY <1>2, <2>1, SlotOK
    <2>4. head \in D /\ k \in 0..N BY <1>1, <1>2, <2>1, SlotOK
    <2>5. (head + k) % N = Slot(head, k) BY <2>4, SlotOK
    <2> QED BY <1>2, <1>4, <2>2, <2>3, <2>5
  <1>10. ASSUME NEW i \in 1..(used + k) PROVE Queue'[i] = data'[Slot(tail, i - 1)]
    <2>1. i - 1 \in 0..N BY <1>1, <1>2
    <2>2. (tail' + (i - 1)) % N = Slot(tail, i - 1) BY <1>2, <1>4, <2>1, SlotOK
    <2> QED BY <1>4, <2>2 DEF Queue, Buffered
  <1>11. ASSUME NEW i \in 1..used PROVE Queue'[i] = Queue[i]
    <2>1. i - 1 \in 0..(used + k - 1) /\ i \in 1..(used + k) /\ i - 1 < used BY <1>2
    <2>2. behind(Slot(tail, i - 1)) = (i - 1) - used + N BY <1>6, <2>1, <1>2
    <2>3. ~(behind(Slot(tail, i - 1)) < k) BY <1>1, <1>2, <2>1, <2>2
    <2>4. data'[Slot(tail, i - 1)] = data[Slot(tail, i - 1)]
      <3>1. Slot(tail, i - 1) \in D BY <1>6, <2>1
      <3> HIDE DEF behind, D
      <3> QED BY <1>4, <2>3, <3>1
    <2> QED BY <1>10, <2>1, <2>4, QueueAt
  <1>12. ASSUME NEW i \in 1..k PROVE Queue'[used + i] = bytes[i]
    <2>1. (used + i) - 1 \in 0..(used + k - 1) /\ used + i \in 1..(used + k) BY <1>2
    <2>2. used <= (used + i) - 1 /\ ((used + i) - 1) - used = i - 1 BY <1>2
    <2>3. behind(Slot(tail, (used + i) - 1)) = i - 1 BY <1>6, <2>1, <2>2
    <2>4. data'[Slot(tail, (used + i) - 1)] = bytes[i]
      <3>1. Slot(tail, (used + i) - 1) \in D BY <1>6, <2>1
      <3>2. i - 1 < k /\ (i - 1) + 1 = i OBVIOUS
      <3> HIDE DEF behind, D
      <3> QED BY <1>4, <2>3, <3>1, <3>2
    <2> QED BY <1>10, <2>1, <2>4
  <1>13. ASSUME NEW i \in 1..used' PROVE Queue'[i] \in Byte
    <2>1. i \in 1..(used + k) BY <1>4
    <2>2. CASE i <= used
      <3>1. i \in 1..used BY <1>2, <2>1, <2>2
      <3> QED BY <1>11, <3>1 DEF RingOK
    <2>3. CASE ~(i <= used)
      <3>1. i - used \in 1..k /\ used + (i - used) = i BY <1>2, <2>1, <2>3
      <3>2. Queue'[i] = bytes[i - used] BY <1>12, <3>1
      <3> QED BY <3>1, <3>2
    <2> QED BY <2>2, <2>3
  <1>14. RingOK' BY <1>2, <1>4, <1>5, <1>8, <1>9, <1>13 DEF RingOK
  <1> QED BY <1>4, <1>11, <1>12, <1>14

\* pipe_read takes bytes from the front.
LEMMA ConsumeOK ==
    ASSUME Constants, RingOK, NEW k \in Nat, k <= used, consume(k)
    PROVE  /\ RingOK' /\ used' = used - k
           /\ \A i \in 1..(used - k) : Queue'[i] = Queue[i + k]
  <1> DEFINE N == PIPE_SIZE
             D == 0..(N - 1)
             behind(j) == (j + N - tail) % N
  <1>1. N \in Nat /\ N > 0 BY DEF Constants
  <1>2. used \in Nat /\ used <= N /\ tail \in D /\ head = Slot(tail, used)
    <2>1. tail \in D /\ used \in 0..N BY DEF RingOK
    <2> QED BY <1>1, <2>1, SlotOK DEF RingOK
  <1>3. /\ data' = [j \in D |-> IF behind(j) < k THEN Empty ELSE data[j]]
        /\ tail' = (tail + k) % N /\ used' = used - k /\ head' = head
    BY DEF consume
  <1>4. k \in 0..N /\ used - k \in 0..(N - k) /\ k + (used - k) = used BY <1>1, <1>2
  <1>5. tail' = Slot(tail, k) /\ tail' \in D BY <1>2, <1>3, <1>4, SlotOK
  <1>6. data' \in [D -> Byte \cup {Empty}]
    <2>1. data \in [D -> Byte \cup {Empty}] BY DEF RingOK
    <2> HIDE DEF behind, D
    <2> QED BY <1>3, <2>1
  <1>7. head' = (tail' + used') % N
    <2>1. used - k \in 0..N BY <1>1, <1>4
    <2>2. (tail' + (used - k)) % N = Slot(tail', used - k) BY <1>5, <2>1, SlotOK
    <2>3. Slot(Slot(tail, k), used - k) = Slot(tail, k + (used - k)) BY <1>2, <1>4, SlotOK
    <2> QED BY <1>2, <1>3, <1>4, <1>5, <2>2, <2>3
  <1>8. ASSUME NEW i \in 1..(used - k) PROVE Queue'[i] = Queue[i + k]
    <2>1. i - 1 \in 0..N /\ i - 1 \in 0..(N - k) /\ i + k \in 1..used /\ k + (i - 1) = (i + k) - 1
          /\ k + (i - 1) \in D
      BY <1>1, <1>2, <1>4
    <2>2. Queue'[i] = data'[Slot(tail', i - 1)]
      <3>1. (tail' + (i - 1)) % N = Slot(tail', i - 1) BY <1>5, <2>1, SlotOK
      <3> QED BY <1>3, <3>1 DEF Queue, Buffered
    <2> DEFINE p == Slot(tail, (i + k) - 1)
    <2>3. Slot(tail', i - 1) = p
      <3>1. Slot(Slot(tail, k), i - 1) = Slot(tail, k + (i - 1)) BY <1>2, <1>4, <2>1, SlotOK
      <3> QED BY <1>5, <2>1, <3>1
    <2>4. Queue[i + k] = data[p] /\ p \in D BY <2>1, QueueAt
    <2>5. behind(p) = k + (i - 1)
      <3>1. 0 \in 0..N /\ Slot(tail, 0) = tail /\ 0 <= k + (i - 1) BY <1>1, <1>2, <2>1 DEF Slot
      <3>2. (Slot(tail, k + (i - 1)) + N - Slot(tail, 0)) % N = (k + (i - 1)) - 0
        BY <1>2, <2>1, <3>1, SlotOK
      <3> QED BY <2>1, <3>1, <3>2
    <2>6. ~(behind(p) < k) BY <2>1, <2>5
    <2>7. data'[p] = data[p]
      <3> HIDE DEF behind, D, p
      <3> QED BY <1>3, <2>4, <2>6
    <2> QED BY <2>2, <2>3, <2>4, <2>7
  <1>9. ASSUME NEW i \in 1..used' PROVE Queue'[i] \in Byte
    <2>1. i \in 1..(used - k) /\ i + k \in 1..used BY <1>2, <1>3
    <2> QED BY <1>8, <2>1 DEF RingOK
  <1>10. used' \in 0..N BY <1>1, <1>3, <1>4
  <1>11. RingOK' BY <1>5, <1>6, <1>7, <1>9, <1>10 DEF RingOK
  <1> QED BY <1>3, <1>8, <1>11

-----------------------------------------------------------------------------
(* Calls, channels and ends.                                               *)

\* Two states of a call that differ at most in who sleeps and has a signal.
SameCall(r, s) == /\ r.op = s.op /\ r.len = s.len /\ r.done = s.done /\ r.piece = s.piece
                  /\ r.part = s.part /\ r.dead = s.dead

\* A task that is woken is in the call it was in.
LEMMA WokenCall ==
    ASSUME NEW r \in Call, NEW b \in BOOLEAN
    PROVE  LET s == [r EXCEPT !.asleep = b]
           IN s \in Call /\ s.asleep = b /\ SameCall(s, r)
  BY DEF Call, SameCall

\* The same for the tasks a wakeup names.
LEMMA AwakeOK ==
    ASSUME NEW c, CallsOK(c), NEW S
    PROVE  /\ CallsOK(Awake(c, S))
           /\ \A t \in Task : /\ SameCall(Awake(c, S)[t], c[t])
                              /\ Awake(c, S)[t].asleep = (c[t].asleep /\ t \notin S)
  <1> DEFINE d == Awake(c, S)
  <1>1. ASSUME NEW t \in Task
        PROVE  /\ d[t] \in Call /\ SameCall(d[t], c[t])
               /\ d[t].asleep = (c[t].asleep /\ t \notin S)
    <2>1. c[t] \in Call BY DEF CallsOK
    <2>2. c[t].asleep \in BOOLEAN BY <2>1 DEF Call
    <2>3. CASE t \in S
      <3>1. d[t] = [c[t] EXCEPT !.asleep = FALSE] BY <2>3 DEF Awake
      <3>2. d[t] \in Call /\ d[t].asleep = FALSE /\ SameCall(d[t], c[t]) BY <2>1, <3>1, WokenCall
      <3> QED BY <2>2, <2>3, <3>2
    <2>4. CASE t \notin S
      <3>1. d[t] = c[t] BY <2>4 DEF Awake
      <3> QED BY <2>1, <2>2, <2>4, <3>1 DEF SameCall
    <2> QED BY <2>3, <2>4
  <1>2. ASSUME NEW t \in Task PROVE CallOK(t, d[t])
    <2>1. CallOK(t, c[t]) BY DEF CallsOK
    <2>2. SameCall(d[t], c[t]) /\ (d[t].asleep => c[t].asleep) BY <1>1
    <2> HIDE DEF d
    <2> QED BY <2>1, <2>2 DEF CallOK, SameCall
  <1>3. d \in [Task -> Call]
    <2>1. d = [t \in Task |-> d[t]] BY DEF Awake
    <2> HIDE DEF d
    <2> QED BY <1>1, <2>1
  <1>4. CallsOK(d)
    <2> HIDE DEF d
    <2> QED BY <1>2, <1>3 DEF CallsOK
  <1> HIDE DEF d
  <1>5. CallsOK(Awake(c, S)) BY <1>4 DEF d
  <1>6. \A t \in Task : SameCall(d[t], c[t]) /\ d[t].asleep = (c[t].asleep /\ t \notin S) BY <1>1
  <1> QED BY <1>5, <1>6 DEF d

\* Who still sleeps after some tasks left the channels is still on one.
LEMMA UnlinkOK ==
    ASSUME Constants, NEW c, NEW rw, NEW ww, LinksOK(c, rw, ww), NEW d, NEW R, NEW W,
           \A t \in Reader : d[t].asleep => c[t].asleep /\ t \notin R,
           \A t \in Writer : d[t].asleep => c[t].asleep /\ t \notin W
    PROVE  LinksOK(d, Without(rw, R), Without(ww, W))
  <1>1. rw \in Seq(Reader) /\ ww \in Seq(Writer) /\ Distinct(rw) /\ Distinct(ww) BY DEF LinksOK
  <1>2. /\ Without(rw, R) \in Seq(Reader) /\ Distinct(Without(rw, R))
        /\ Range(Without(rw, R)) = Range(rw) \ R
    BY <1>1, WithoutQueue
  <1>3. /\ Without(ww, W) \in Seq(Writer) /\ Distinct(Without(ww, W))
        /\ Range(Without(ww, W)) = Range(ww) \ W
    BY <1>1, WithoutQueue
  <1> QED BY <1>2, <1>3 DEF LinksOK

\* Fewer sleepers in the same calls sleep as rightly.
LEMMA FewerSleep ==
    ASSUME NEW c, NEW d, NEW n, SleepOK(c, n),
           \A t \in Task : SameCall(d[t], c[t]) /\ (d[t].asleep => c[t].asleep)
    PROVE  SleepOK(d, n)
  BY DEF SleepOK, Blocked, SameCall, Task

\* Whether an end is held depends on the kinds of the calls only.
LEMMA SameHeld ==
    ASSUME NEW c, NEW d, NEW f, NEW e, \A t \in Task : d[t].op = c[t].op
    PROVE  Held(d, f, e) <=> Held(c, f, e)
  BY DEF Held

\* file_put and pipe_release, whatever the step did before them.
LEMMA SettleOK ==
    ASSUME Constants, NEW c, NEW rw, NEW ww, NEW f, NEW n,
           CallsOK(c), LinksOK(c, rw, ww), SleepOK(c, n), f \subseteq End,
           readers \in 0..1, writers \in 0..1,
           Held(c, f, "read") => readers = 1, Held(c, f, "write") => writers = 1,
           \A t \in Reader : c[t].asleep => writers = 1,
           \A t \in Writer : c[t].asleep => readers = 1,
           Settle(c, rw, ww, f)
    PROVE  /\ CallsOK(call') /\ LinksOK(call', readers_wq', writers_wq')
           /\ SleepOK(call', n) /\ EndsOK(call', open', readers', writers')
           /\ freed' = (readers' = 0 /\ writers' = 0)
           /\ \A t \in Task : SameCall(call'[t], c[t]) /\ (call'[t].asleep => c[t].asleep)
  <1> DEFINE noReader == readers = 1 /\ ~Held(c, f, "read")
             noWriter == writers = 1 /\ ~Held(c, f, "write")
             wakeW == IF noReader THEN Sleepers(c, ww) ELSE {}
             wakeR == IF noWriter THEN Sleepers(c, rw) ELSE {}
             S == wakeR \cup wakeW
  <1>1. /\ readers' = (IF noReader THEN 0 ELSE readers)
        /\ writers' = (IF noWriter THEN 0 ELSE writers)
        /\ freed' = (readers' = 0 /\ writers' = 0)
        /\ call' = Awake(c, S) /\ open' = f
        /\ readers_wq' = Without(rw, wakeR) /\ writers_wq' = Without(ww, wakeW)
    BY DEF Settle
  <1>2. /\ CallsOK(call')
        /\ \A t \in Task : /\ SameCall(call'[t], c[t])
                           /\ call'[t].asleep = (c[t].asleep /\ t \notin S)
    <2> HIDE DEF S
    <2> QED BY <1>1, AwakeOK
  <1>3. /\ \A t \in Reader : call'[t].asleep => c[t].asleep /\ t \notin wakeR
        /\ \A t \in Writer : call'[t].asleep => c[t].asleep /\ t \notin wakeW
    <2> HIDE DEF wakeR, wakeW
    <2> QED BY <1>2 DEF Task
  <1>4. LinksOK(call', readers_wq', writers_wq')
    <2> HIDE DEF wakeR, wakeW, S
    <2> QED BY <1>1, <1>3, UnlinkOK
  <1>5. \A t \in Task : SameCall(call'[t], c[t]) /\ (call'[t].asleep => c[t].asleep)
    <2> HIDE DEF S
    <2> QED BY <1>2
  <1>6. SleepOK(call', n) BY <1>5, FewerSleep
  <1>7. /\ Held(call', f, "read") <=> Held(c, f, "read")
        /\ Held(call', f, "write") <=> Held(c, f, "write")
    <2>1. \A t \in Task : call'[t].op = c[t].op BY <1>5 DEF SameCall
    <2> QED BY <2>1, SameHeld
  <1>8. /\ readers' \in 0..1 /\ writers' \in 0..1
        /\ readers' = 1 <=> Held(c, f, "read")
        /\ writers' = 1 <=> Held(c, f, "write")
    <2>1. readers' \in 0..1 /\ (readers' = 1 <=> Held(c, f, "read")) BY <1>1
    <2>2. writers' \in 0..1 /\ (writers' = 1 <=> Held(c, f, "write")) BY <1>1
    <2> QED BY <2>1, <2>2
  <1>9. ASSUME NEW t \in Reader, call'[t].asleep PROVE writers' = 1
    <2>1. c[t].asleep /\ t \notin wakeR BY <1>3, <1>9
    <2>2. t \in Range(rw) BY <2>1 DEF LinksOK
    <2>3. ~noWriter BY <2>1, <2>2 DEF Sleepers
    <2> QED BY <1>1, <2>1, <2>3
  <1>10. ASSUME NEW t \in Writer, call'[t].asleep PROVE readers' = 1
    <2>1. c[t].asleep /\ t \notin wakeW BY <1>3, <1>10
    <2>2. t \in Range(ww) BY <2>1 DEF LinksOK
    <2>3. ~noReader BY <2>1, <2>2 DEF Sleepers
    <2> QED BY <1>1, <2>1, <2>3
  <1>11. open' = f /\ freed' = (readers' = 0 /\ writers' = 0) BY <1>1
  <1>12. EndsOK(call', open', readers', writers')
    <2> HIDE DEF noReader, noWriter, wakeR, wakeW, S
    <2> QED BY <1>7, <1>8, <1>9, <1>10, <1>11 DEF EndsOK
  <1> QED BY <1>2, <1>4, <1>5, <1>6, <1>11, <1>12

\* A step of a task that leaves its wait and wakes the tasks of W.
LEMMA LeavesOK ==
    ASSUME Constants, CallsInv, NEW t \in Task, call[t].op # "none",
           NEW c \in [Task -> Call], CallOK(t, c[t]), ~c[t].asleep,
           \A u \in Task : u # t => c[u] = call[u],
           NEW W, SleepOK(Awake(c, W), used'), Leaves(t, c, W),
           running' \in {NoTask, t}, running' = t => c[t].op # "none"
    PROVE  CallsInv'
  <1> DEFINE d == Awake(c, W)
  <1>1. CallsOK(c) BY DEF CallsOK, CallsInv
  <1>2. /\ CallsOK(d)
        /\ \A u \in Task : SameCall(d[u], c[u]) /\ d[u].asleep = (c[u].asleep /\ u \notin W)
    BY <1>1, AwakeOK
  <1> HIDE DEF d
  <1>3. \A u \in Task : d[u].asleep => call[u].asleep /\ u \notin {t} \cup W BY <1>2
  <1>4. LinksOK(d, Without(readers_wq, {t} \cup W), Without(writers_wq, {t} \cup W))
    <2>1. LinksOK(call, readers_wq, writers_wq) BY DEF CallsInv
    <2>2. /\ \A u \in Reader : d[u].asleep => call[u].asleep /\ u \notin {t} \cup W
          /\ \A u \in Writer : d[u].asleep => call[u].asleep /\ u \notin {t} \cup W
      BY <1>3 DEF Task
    <2> QED BY <2>1, <2>2, UnlinkOK
  <1>5. EndsOK(call, open, readers, writers) BY DEF CallsInv
  <1>6. ASSUME NEW e, Held(d, open, e) PROVE Held(call, open, e)
    <2>1. ASSUME NEW u \in Task, d[u].op # "none" PROVE call[u].op # "none"
      BY <1>2, <2>1 DEF SameCall
    <2> QED BY <1>6, <2>1 DEF Held
  <1>7. Settle(d, Without(readers_wq, {t} \cup W), Without(writers_wq, {t} \cup W), open)
    BY DEF Leaves, d
  <1>8. SleepOK(d, used') BY DEF d
  <1>9. /\ open \subseteq End /\ readers \in 0..1 /\ writers \in 0..1
        /\ Held(d, open, "read") => readers = 1
        /\ Held(d, open, "write") => writers = 1
        /\ \A u \in Reader : d[u].asleep => writers = 1
        /\ \A u \in Writer : d[u].asleep => readers = 1
    BY <1>3, <1>5, <1>6 DEF EndsOK, Task
  <1>10. /\ CallsOK(call') /\ LinksOK(call', readers_wq', writers_wq')
         /\ SleepOK(call', used') /\ EndsOK(call', open', readers', writers')
         /\ freed' = (readers' = 0 /\ writers' = 0)
         /\ \A u \in Task : SameCall(call'[u], d[u]) /\ (call'[u].asleep => d[u].asleep)
    BY <1>2, <1>4, <1>7, <1>8, <1>9, SettleOK
  <1>11. RunningOK'
    <2>1. running' \in Task \cup {NoTask} OBVIOUS
    <2>2. ASSUME running' \in Task PROVE ~call'[running'].asleep /\ call'[running'].op # "none"
      <3>1. running' = t BY <2>2 DEF Constants, Task
      <3>2. ~call'[t].asleep /\ call'[t].op = c[t].op BY <1>2, <1>10 DEF SameCall
      <3> QED BY <3>1, <3>2
    <2> QED BY <2>1, <2>2 DEF RunningOK
  <1> QED BY <1>10, <1>11 DEF CallsInv

-----------------------------------------------------------------------------
(* The actions.                                                            *)

\* A step that leaves the ring alone leaves the bytes alone.
LEMMA RingSame ==
    ASSUME RingOK, SmallWritesWhole, UNCHANGED ring
    PROVE  RingOK' /\ SmallWritesWhole' /\ Queue' = Queue /\ used' = used
  <1>1. data' = data /\ head' = head /\ tail' = tail /\ used' = used BY DEF ring
  <1>2. Queue' = Queue BY <1>1 DEF Queue, Buffered
  <1>3. RingOK' BY <1>1, <1>2 DEF RingOK
  <1>4. SmallWritesWhole' BY <1>1, <1>2 DEF SmallWritesWhole
  <1> QED BY <1>1, <1>2, <1>3, <1>4

\* A task that is in no call is a good one.
LEMMA NoCallOK ==
    ASSUME NEW t
    PROVE  NoCall \in Call /\ CallOK(t, NoCall) /\ ~NoCall.asleep /\ NoCall.op = "none"
  BY DEF NoCall, Call, CallOK

\* The returns without data: end of file, -EPIPE, -EAGAIN, -EINTR, poll.
LEMMA ReturnsOK ==
    ASSUME Constants, IInv, NEW t \in Task, call[t].op # "none", Returns(t)
    PROVE  IInv'
  <1> DEFINE c == Return(t)
  <1>1. RingOK' /\ SmallWritesWhole' /\ used' = used BY RingSame DEF IInv, Returns
  <1>2. call \in [Task -> Call] BY DEF IInv, CallsInv, CallsOK
  <1>3. /\ c \in [Task -> Call] /\ c[t] = NoCall
        /\ \A u \in Task : u # t => c[u] = call[u]
    BY <1>2, NoCallOK DEF Return
  <1> HIDE DEF c
  <1>4. SleepOK(Awake(c, {}), used')
    <2>1. \A u \in Task : c[u].asleep => c[u] = call[u] BY <1>3, NoCallOK
    <2>2. SleepOK(call, used) BY DEF IInv, CallsInv
    <2>3. SleepOK(c, used') BY <1>1, <2>1, <2>2 DEF SleepOK, Task
    <2>4. CallsOK(c) BY <1>3, NoCallOK DEF IInv, CallsInv, CallsOK
    <2>5. \A u \in Task : SameCall(Awake(c, {})[u], c[u]) /\ (Awake(c, {})[u].asleep => c[u].asleep)
      BY <2>4, AwakeOK
    <2> QED BY <2>3, <2>5, FewerSleep
  <1>5. Leaves(t, c, {}) /\ running' = NoTask BY DEF Returns, c
  <1>6. NoTask # t BY DEF Constants, Task
  <1>7. CallsInv' BY <1>3, <1>4, <1>5, <1>6, NoCallOK, LeavesOK DEF IInv
  <1> QED BY <1>1, <1>7 DEF IInv

\* Going to sleep: the task is on its channel, and has a reason.
LEMMA SleepsOK ==
    ASSUME Constants, IInv, NEW t \in Task, call[t].op # "none", ~call[t].dead, Sleeps(t),
           t \in Reader => used = 0 /\ writers = 1,
           t \in Writer => readers = 1 /\ Blocked(call[t], used)
    PROVE  IInv'
  <1>1. RingOK' /\ SmallWritesWhole' /\ used' = used BY RingSame DEF IInv, Sleeps
  <1>2. CallsOK(call) /\ call \in [Task -> Call] BY DEF IInv, CallsInv, CallsOK
  <1>3. /\ call' = [call EXCEPT ![t].asleep = TRUE] /\ running' = NoTask
        /\ open' = open /\ readers' = readers /\ writers' = writers /\ freed' = freed
    BY DEF Sleeps, ends
  <1>4. /\ call' \in [Task -> Call] /\ call'[t].asleep
        /\ \A u \in Task : SameCall(call'[u], call[u]) /\ (u # t => call'[u] = call[u])
    <2>1. call'[t] = [call[t] EXCEPT !.asleep = TRUE] /\ \A u \in Task : u # t => call'[u] = call[u]
      BY <1>2, <1>3
    <2>2. call'[t] \in Call /\ call'[t].asleep = TRUE /\ SameCall(call'[t], call[t])
      BY <1>2, <2>1, WokenCall
    <2>3. call' = [u \in Task |-> call'[u]] BY <1>2, <1>3
    <2>4. \A u \in Task : call'[u] \in Call BY <1>2, <2>1, <2>2
    <2>5. \A u \in Task : SameCall(call'[u], call[u]) BY <2>1, <2>2 DEF SameCall
    <2> QED BY <2>1, <2>2, <2>3, <2>4, <2>5
  <1>5. CallsOK(call')
    <2>1. CallOK(t, call[t]) BY <1>2 DEF CallsOK
    <2>2. CallOK(t, call'[t]) BY <1>4, <2>1 DEF CallOK, SameCall
    <2> QED BY <1>2, <1>4, <2>2 DEF CallsOK
  <1>6. LinksOK(call', readers_wq', writers_wq')
    <2>1. LinksOK(call, readers_wq, writers_wq) BY DEF IInv, CallsInv
    <2>2. CASE t \in Reader
      <3>1. t \notin Writer BY <2>2 DEF Constants
      <3>2. readers_wq' = Link(readers_wq, t) /\ writers_wq' = writers_wq BY <2>2 DEF Sleeps
      <3>3. /\ readers_wq' \in Seq(Reader) /\ Distinct(readers_wq')
            /\ Range(readers_wq') = Range(readers_wq) \cup {t}
        BY <2>1, <2>2, <3>2, AppendQueue DEF Link, LinksOK
      <3> QED BY <1>4, <2>1, <3>1, <3>2, <3>3 DEF LinksOK, Task
    <2>3. CASE t \notin Reader
      <3>1. t \in Writer BY <2>3 DEF Task
      <3>2. writers_wq' = Link(writers_wq, t) /\ readers_wq' = readers_wq BY <2>3 DEF Sleeps
      <3>3. /\ writers_wq' \in Seq(Writer) /\ Distinct(writers_wq')
            /\ Range(writers_wq') = Range(writers_wq) \cup {t}
        BY <2>1, <3>1, <3>2, AppendQueue DEF Link, LinksOK
      <3> QED BY <1>4, <2>1, <2>3, <3>2, <3>3 DEF LinksOK, Task
    <2> QED BY <2>2, <2>3
  <1>7. SleepOK(call', used')
    <2>1. SleepOK(call, used) BY DEF IInv, CallsInv
    <2>2. Blocked(call[t], used) => Blocked(call'[t], used) BY <1>4 DEF Blocked, SameCall
    <2> QED BY <1>1, <1>4, <2>1, <2>2 DEF SleepOK, Task
  <1>8. EndsOK(call', open', readers', writers')
    <2>1. EndsOK(call, open, readers, writers) BY DEF IInv, CallsInv
    <2>2. \A u \in Task : call'[u].op = call[u].op BY <1>4 DEF SameCall
    <2>3. /\ Held(call', open, "read") <=> Held(call, open, "read")
          /\ Held(call', open, "write") <=> Held(call, open, "write")
      BY <2>2, SameHeld
    <2> QED BY <1>3, <1>4, <2>1, <2>3 DEF EndsOK, Task
  <1>9. RunningOK' BY <1>3 DEF RunningOK, Constants, Task
  <1>10. CallsInv'
    <2>1. freed' = (readers' = 0 /\ writers' = 0) BY <1>3 DEF IInv, CallsInv
    <2> QED BY <1>5, <1>6, <1>7, <1>8, <1>9, <2>1 DEF CallsInv
  <1> QED BY <1>1, <1>10 DEF IInv

\* A system call begins: its first piece.
LEMMA StartOK ==
    ASSUME Constants, IInv, NEW t \in Task, NEW op \in {"poll", EndOf(t)}, NEW len \in Nat,
           op # "poll" => len > 0, NEW nonblock \in BOOLEAN, Start(t, op, len, nonblock)
    PROVE  IInv'
  <1> DEFINE r == [NoCall EXCEPT !.op = op, !.len = len, !.nonblock = nonblock,
                                 !.piece = FirstPiece(op, len)]
  <1>1. RingOK' /\ SmallWritesWhole' /\ used' = used BY RingSame DEF IInv, Start
  <1>2. CallsOK(call) /\ call \in [Task -> Call] BY DEF IInv, CallsInv, CallsOK
  <1>3. /\ call' = [call EXCEPT ![t] = r] /\ running' = t /\ call[t].op = "none"
        /\ EndOf(t) \in open
        /\ open' = open /\ readers' = readers /\ writers' = writers /\ freed' = freed
        /\ readers_wq' = readers_wq /\ writers_wq' = writers_wq
    BY DEF Start, ends
  <1>4. op \in {"read", "write", "poll"} BY DEF EndOf
  <1>5. FirstPiece(op, len) \in Nat
    BY <1>4 DEF FirstPiece, Min2, PIPE_BUF, Constants
  <1>6. /\ r \in Call /\ r.op = op /\ r.len = len /\ r.done = 0 /\ r.part = 0
        /\ r.piece = FirstPiece(op, len) /\ r.asleep = FALSE /\ r.dead = FALSE
    <2> HIDE DEF FirstPiece
    <2> QED BY <1>4, <1>5 DEF NoCall, Call
  <1> HIDE DEF r
  <1>7. CallOK(t, r)
    <2>1. CASE op = "read"
      <3>1. r.piece > 0 /\ r.piece <= len
        BY <1>6, <2>1 DEF FirstPiece, Min2, Constants
      <3> QED BY <1>5, <1>6, <2>1, <3>1 DEF CallOK
    <2>2. CASE op = "write"
      <3>1. /\ r.piece > 0 /\ r.piece <= len /\ (len <= PIPE_BUF => r.piece = len)
        BY <1>6, <2>2 DEF FirstPiece, Constants, PIPE_BUF
      <3> QED BY <1>5, <1>6, <2>2, <3>1 DEF CallOK
    <2>3. CASE op = "poll" BY <1>6, <2>3 DEF CallOK
    <2> QED BY <1>4, <2>1, <2>2, <2>3
  <1>8. /\ call' \in [Task -> Call] /\ call'[t] = r
        /\ \A u \in Task : u # t => call'[u] = call[u]
    BY <1>2, <1>3, <1>6
  <1>9. CallsOK(call') BY <1>2, <1>7, <1>8 DEF CallsOK
  <1>10. \A u \in Task : call'[u].asleep => call'[u] = call[u] BY <1>6, <1>8
  <1>11. LinksOK(call', readers_wq', writers_wq')
    <2>1. LinksOK(call, readers_wq, writers_wq) BY DEF IInv, CallsInv
    <2> QED BY <1>3, <1>10, <2>1 DEF LinksOK, Task
  <1>12. SleepOK(call', used')
    <2>1. SleepOK(call, used) BY DEF IInv, CallsInv
    <2> QED BY <1>1, <1>10, <2>1 DEF SleepOK, Task
  <1>13. EndsOK(call', open', readers', writers')
    <2>1. EndsOK(call, open, readers, writers) BY DEF IInv, CallsInv
    <2>2. ASSUME NEW e PROVE Held(call', open, e) <=> Held(call, open, e)
      BY <1>3, <1>8 DEF Held
    <2> QED BY <1>3, <1>10, <2>1, <2>2 DEF EndsOK, Task
  <1>14. RunningOK'
    <2>1. ~call'[t].asleep /\ call'[t].op # "none" BY <1>4, <1>6, <1>8
    <2> QED BY <1>3, <2>1 DEF RunningOK
  <1>15. CallsInv'
    <2>1. freed' = (readers' = 0 /\ writers' = 0) BY <1>3 DEF IInv, CallsInv
    <2> QED BY <1>9, <1>11, <1>12, <1>13, <1>14, <2>1 DEF CallsInv
  <1> QED BY <1>1, <1>15 DEF IInv

\* The tasks other than t sleep as before, and t, in the call it was in, does not.
LEMMA OneAwake ==
    ASSUME Constants, IInv, NEW t \in Task, NEW r \in Call, call[t].op # "none",
           CallOK(t, r), ~r.asleep, r.op = call[t].op, call' = [call EXCEPT ![t] = r],
           \/ readers_wq' = readers_wq /\ writers_wq' = writers_wq
           \/ readers_wq' = Without(readers_wq, {t}) /\ writers_wq' = Without(writers_wq, {t}),
           running' = running, UNCHANGED <<ring, ends>>
    PROVE  IInv'
  <1>1. RingOK' /\ SmallWritesWhole' /\ used' = used BY RingSame DEF IInv
  <1>2. CallsOK(call) /\ call \in [Task -> Call] BY DEF IInv, CallsInv, CallsOK
  <1>3. /\ call' \in [Task -> Call] /\ call'[t] = r
        /\ \A u \in Task : u # t => call'[u] = call[u]
    BY <1>2
  <1>4. CallsOK(call') BY <1>2, <1>3 DEF CallsOK
  <1>5. \A u \in Task : call'[u].asleep => call'[u] = call[u] /\ u \notin {t} BY <1>3
  <1>6. LinksOK(call', readers_wq', writers_wq')
    <2>1. LinksOK(call, readers_wq, writers_wq) BY DEF IInv, CallsInv
    <2>2. /\ \A u \in Reader : call'[u].asleep => call[u].asleep /\ u \notin {t}
          /\ \A u \in Writer : call'[u].asleep => call[u].asleep /\ u \notin {t}
      BY <1>5 DEF Task
    <2>3. LinksOK(call', Without(readers_wq, {t}), Without(writers_wq, {t}))
      BY <2>1, <2>2, UnlinkOK
    <2>4. LinksOK(call', readers_wq, writers_wq) BY <2>1, <2>2 DEF LinksOK
    <2> QED BY <2>3, <2>4
  <1>7. SleepOK(call', used')
    <2>1. SleepOK(call, used) BY DEF IInv, CallsInv
    <2> QED BY <1>1, <1>5, <2>1 DEF SleepOK, Task
  <1>8. open' = open /\ readers' = readers /\ writers' = writers /\ freed' = freed BY DEF ends
  <1>9. EndsOK(call', open', readers', writers')
    <2>1. EndsOK(call, open, readers, writers) BY DEF IInv, CallsInv
    <2>2. \A u \in Task : call'[u].op = call[u].op BY <1>3
    <2>3. /\ Held(call', open, "read") <=> Held(call, open, "read")
          /\ Held(call', open, "write") <=> Held(call, open, "write")
      BY <2>2, SameHeld
    <2> QED BY <1>5, <1>8, <2>1, <2>3 DEF EndsOK, Task
  <1>10. RunningOK'
    <2>1. RunningOK BY DEF IInv, CallsInv
    <2>2. ASSUME running \in Task PROVE ~call'[running].asleep /\ call'[running].op # "none"
      BY <1>3, <2>1, <2>2 DEF RunningOK
    <2> QED BY <2>1, <2>2 DEF RunningOK
  <1>11. CallsInv'
    <2>1. freed' = (readers' = 0 /\ writers' = 0) BY <1>8 DEF IInv, CallsInv
    <2> QED BY <1>4, <1>6, <1>7, <1>9, <1>10, <2>1 DEF CallsInv
  <1> QED BY <1>1, <1>11 DEF IInv

\* A signal wakes a sleeper.
LEMMA SignalOK ==
    ASSUME Constants, IInv, NEW t \in Task, Signal(t) PROVE IInv'
  <1> DEFINE r == [[call[t] EXCEPT !.asleep = FALSE] EXCEPT !.sig = TRUE]
  <1>1. call \in [Task -> Call] /\ CallOK(t, call[t]) BY DEF IInv, CallsInv, CallsOK
  <1>2. /\ call' = [call EXCEPT ![t] = r] /\ call[t].asleep /\ running' = running
        /\ readers_wq' = readers_wq /\ writers_wq' = writers_wq /\ UNCHANGED <<ring, ends>>
    BY <1>1 DEF Signal
  <1>3. r \in Call /\ ~r.asleep /\ SameCall(r, call[t]) BY <1>1 DEF Call, SameCall
  <1> HIDE DEF r
  <1>4. CallOK(t, r) /\ call[t].op # "none" /\ r.op = call[t].op
    BY <1>1, <1>2, <1>3 DEF CallOK, SameCall
  <1> QED BY <1>2, <1>3, <1>4, OneAwake

\* A sibling's exit cancels the wait of a task and its call.
LEMMA TearDownOK ==
    ASSUME Constants, IInv, NEW t \in Task, TearDown(t) PROVE IInv'
  <1> DEFINE r == [NoCall EXCEPT !.op = call[t].op, !.dead = TRUE]
  <1>1. CallOK(t, call[t]) /\ call[t].op \in {"none", "read", "write", "poll"}
    BY DEF IInv, CallsInv, CallsOK, Call
  <1>2. r \in Call /\ ~r.asleep /\ r.op = call[t].op /\ r.dead BY <1>1 DEF NoCall, Call
  <1>3. /\ call' = [call EXCEPT ![t] = r] /\ call[t].op # "none" /\ running' = running
        /\ readers_wq' = Without(readers_wq, {t}) /\ writers_wq' = Without(writers_wq, {t})
        /\ UNCHANGED <<ring, ends>>
    BY DEF TearDown
  <1> HIDE DEF r
  <1>4. CallOK(t, r) BY <1>1, <1>2 DEF CallOK
  <1> QED BY <1>2, <1>3, <1>4, OneAwake

\* The last descriptor of an end is closed.
LEMMA CloseOK ==
    ASSUME Constants, IInv, NEW e \in End, fd_close(e) PROVE IInv'
  <1>1. RingOK' /\ SmallWritesWhole' /\ used' = used BY RingSame DEF IInv, fd_close
  <1>2. /\ CallsOK(call) /\ LinksOK(call, readers_wq, writers_wq) /\ SleepOK(call, used)
        /\ EndsOK(call, open, readers, writers)
    BY DEF IInv, CallsInv
  <1>3. ASSUME NEW x, Held(call, open \ {e}, x) PROVE Held(call, open, x) BY <1>3 DEF Held
  <1>4. /\ open \ {e} \subseteq End /\ readers \in 0..1 /\ writers \in 0..1
        /\ Held(call, open \ {e}, "read") => readers = 1
        /\ Held(call, open \ {e}, "write") => writers = 1
        /\ \A u \in Reader : call[u].asleep => writers = 1
        /\ \A u \in Writer : call[u].asleep => readers = 1
    BY <1>2, <1>3 DEF EndsOK
  <1>5. Settle(call, readers_wq, writers_wq, open \ {e}) /\ running' = running /\ running = NoTask
    BY DEF fd_close
  <1>6. /\ CallsOK(call') /\ LinksOK(call', readers_wq', writers_wq')
        /\ SleepOK(call', used) /\ EndsOK(call', open', readers', writers')
        /\ freed' = (readers' = 0 /\ writers' = 0)
    BY <1>2, <1>4, <1>5, SettleOK
  <1>7. RunningOK' BY <1>5 DEF RunningOK, Constants, Task
  <1>8. CallsInv' BY <1>1, <1>6, <1>7 DEF CallsInv
  <1> QED BY <1>1, <1>8 DEF IInv

\* Bytes taken from the front leave the rest of each small write in one run.
LEMMA TakeWhole ==
    ASSUME Constants, RingOK, SmallWritesWhole, NEW k \in Nat, k <= used, consume(k)
    PROVE  SmallWritesWhole'
  <1>1. used \in Nat BY DEF RingOK, Constants
  <1>2. used' = used - k /\ \A i \in 1..(used - k) : Queue'[i] = Queue[i + k] BY ConsumeOK
  <1>3. ASSUME NEW i \in 1..used', Queue'[i].rest > 0
        PROVE  i < used' /\ Queue'[i + 1] = [Queue'[i] EXCEPT !.rest = @ - 1]
    <2>1. i \in 1..(used - k) /\ i + k \in 1..used BY <1>1, <1>2
    <2>2. Queue'[i] = Queue[i + k] BY <1>2, <2>1
    <2>3. i + k < used /\ Queue[(i + k) + 1] = [Queue[i + k] EXCEPT !.rest = @ - 1]
      BY <1>3, <2>1, <2>2 DEF SmallWritesWhole
    <2>4. i < used' /\ i + 1 \in 1..(used - k) /\ (i + 1) + k = (i + k) + 1
      BY <1>1, <1>2, <2>1, <2>3
    <2>5. Queue'[i + 1] = Queue[(i + 1) + k] BY <1>2, <2>4
    <2> QED BY <2>2, <2>3, <2>4, <2>5
  <1> QED BY <1>3 DEF SmallWritesWhole

\* Bytes appended behind them do too, if what is appended is whole.
LEMMA PutWhole ==
    ASSUME Constants, RingOK, SmallWritesWhole, NEW k \in Nat, k <= PIPE_SIZE - used,
           NEW bytes \in [1..k -> Byte], store(bytes),
           \A i \in 1..k : bytes[i].rest > 0 =>
              i < k /\ bytes[i + 1] = [bytes[i] EXCEPT !.rest = @ - 1]
    PROVE  SmallWritesWhole'
  <1>1. used \in Nat BY DEF RingOK, Constants
  <1>2. /\ used' = used + k
        /\ \A i \in 1..used : Queue'[i] = Queue[i]
        /\ \A i \in 1..k : Queue'[used + i] = bytes[i]
    BY StoreOK
  <1>3. ASSUME NEW i \in 1..used', Queue'[i].rest > 0
        PROVE  i < used' /\ Queue'[i + 1] = [Queue'[i] EXCEPT !.rest = @ - 1]
    <2>1. CASE i <= used
      <3>1. i \in 1..used BY <1>1, <1>2, <2>1
      <3>2. i < used /\ Queue[i + 1] = [Queue[i] EXCEPT !.rest = @ - 1]
        BY <1>2, <1>3, <3>1 DEF SmallWritesWhole
      <3>3. i < used' /\ i + 1 \in 1..used BY <1>1, <1>2, <3>1, <3>2
      <3>4. Queue'[i] = Queue[i] /\ Queue'[i + 1] = Queue[i + 1] BY <1>2, <3>1, <3>3
      <3> QED BY <3>2, <3>3, <3>4
    <2>2. CASE ~(i <= used)
      <3>1. i - used \in 1..k /\ used + (i - used) = i BY <1>1, <1>2, <2>2
      <3>2. Queue'[i] = bytes[i - used] BY <1>2, <3>1
      <3>3. i - used < k /\ bytes[(i - used) + 1] = [bytes[i - used] EXCEPT !.rest = @ - 1]
        BY <1>3, <3>1, <3>2
      <3>4. i < used' /\ (i - used) + 1 \in 1..k /\ used + ((i - used) + 1) = i + 1
        BY <1>1, <1>2, <3>1, <3>3
      <3>5. Queue'[i + 1] = bytes[(i - used) + 1] BY <1>2, <3>4
      <3> QED BY <3>2, <3>3, <3>4, <3>5
    <2> QED BY <2>1, <2>2
  <1> QED BY <1>3 DEF SmallWritesWhole

\* The amount one pass of pipe_read takes: something, and no more than there is.
LEMMA ReadAmount ==
    ASSUME Constants, IInv, NEW t \in Task, pipe_read(t)
    PROVE  /\ Min2(call[t].piece, used) \in Nat /\ Min2(call[t].piece, used) > 0
           /\ Min2(call[t].piece, used) <= used /\ consume(Min2(call[t].piece, used))
  <1>1. used \in Nat BY DEF IInv, RingOK, Constants
  <1>2. call[t] \in Call /\ CallOK(t, call[t]) BY DEF IInv, CallsInv, CallsOK
  <1>3. call[t].piece \in Nat BY <1>2 DEF Call
  <1>4. call[t].op = "read" /\ ~call[t].dead /\ used > 0 BY DEF pipe_read, Runs
  <1>5. call[t].piece > 0 BY <1>2, <1>4 DEF CallOK
  <1>6. consume(Min2(call[t].piece, used)) BY DEF pipe_read
  <1> QED BY <1>1, <1>3, <1>4, <1>5, <1>6 DEF Min2

\* A read takes bytes and wakes every writer that waits for room.
LEMMA ReadOK ==
    ASSUME Constants, IInv, NEW t \in Task, pipe_read(t) PROVE IInv'
  <1> DEFINE k == Min2(call[t].piece, used)
             done == call[t].done + k
             over == k < call[t].piece \/ done = call[t].len
             next == Min2(SYS_FILE_BUF_SIZE, call[t].len - done)
             c == IF over THEN Return(t) ELSE [call EXCEPT ![t].done = done, ![t].piece = next]
             W == Sleepers(call, writers_wq)
  <1>1. /\ Runs(t, "read") /\ Leaves(t, c, W) /\ running' = (IF over THEN NoTask ELSE t)
    BY DEF pipe_read
  <1>2. k \in Nat /\ k > 0 /\ k <= used /\ consume(k) BY ReadAmount
  <1>3. RingOK' /\ SmallWritesWhole' BY <1>2, ConsumeOK, TakeWhole DEF IInv
  <1>4. CallsOK(call) /\ call \in [Task -> Call] /\ call[t] \in Call /\ CallOK(t, call[t])
    BY DEF IInv, CallsInv, CallsOK
  <1>5. /\ call[t].op = "read" /\ ~call[t].dead /\ ~call[t].asleep
        /\ t \in Reader /\ t \notin Writer
    BY <1>1, <1>4 DEF Runs, CallOK, EndOf, Constants, Task
  <1>6. call[t].piece \in Nat /\ call[t].done \in Nat /\ call[t].len \in Nat /\ used \in Nat
    BY <1>4 DEF Call, IInv, RingOK, Constants
  <1>7. /\ c \in [Task -> Call] /\ CallOK(t, c[t]) /\ ~c[t].asleep
        /\ c[t].op = (IF over THEN "none" ELSE "read")
        /\ \A u \in Task : u # t => c[u] = call[u]
    <2>1. CASE over
      <3>1. c = Return(t) BY <2>1
      <3> HIDE DEF c
      <3> QED BY <1>4, <2>1, <3>1, NoCallOK DEF Return
    <2>2. CASE ~over
      <3> DEFINE r == [[call[t] EXCEPT !.done = done] EXCEPT !.piece = next]
      <3>1. c = [call EXCEPT ![t] = r] BY <1>4, <2>2
      <3>2. k = call[t].piece /\ done \in Nat /\ done < call[t].len
        BY <1>4, <1>5, <1>6, <2>2 DEF CallOK, Min2
      <3>3. next \in Nat /\ next > 0 /\ done + next <= call[t].len
        <4> HIDE DEF done
        <4> QED BY <1>6, <3>2 DEF Min2, Constants
      <3> HIDE DEF done, next, k
      <3>4. /\ r \in Call /\ r.op = "read" /\ ~r.asleep /\ ~r.dead /\ r.piece = next
            /\ r.done = done /\ r.len = call[t].len
        BY <1>4, <1>5, <3>2, <3>3 DEF Call
      <3> HIDE DEF r
      <3>5. CallOK(t, r) BY <1>5, <3>3, <3>4 DEF CallOK, EndOf
      <3> HIDE DEF c
      <3> QED BY <1>4, <2>2, <3>1, <3>4, <3>5
    <2> QED BY <2>1, <2>2
  <1> HIDE DEF c
  <1>8. SleepOK(Awake(c, W), used')
    <2>1. CallsOK(c) BY <1>4, <1>7 DEF CallsOK
    <2>2. \A u \in Task : Awake(c, W)[u].asleep => c[u].asleep /\ u \notin W
      BY <2>1, AwakeOK
    <2>3. ASSUME NEW u \in Writer PROVE ~Awake(c, W)[u].asleep
      <3>1. u \in Task /\ u # t BY <1>5 DEF Task
      <3>2. c[u].asleep => u \in W
        BY <1>7, <3>1 DEF IInv, CallsInv, LinksOK, Sleepers
      <3> QED BY <2>2, <3>1, <3>2
    <2>4. ASSUME OneReader, NEW u \in Reader PROVE ~Awake(c, W)[u].asleep
      <3>1. u = t BY <1>5, <2>4 DEF OneReader
      <3> QED BY <1>7, <2>2, <3>1
    <2> QED BY <2>3, <2>4 DEF SleepOK
  <1>9. running' \in {NoTask, t} /\ (running' = t => c[t].op # "none")
    <2>1. NoTask # t BY DEF Constants, Task
    <2> HIDE DEF over
    <2> QED BY <1>1, <1>7, <2>1
  <1>10. CallsInv'
    <2>1. Leaves(t, c, W) /\ call[t].op # "none" BY <1>1, <1>5
    <2> HIDE DEF W
    <2> QED BY <1>7, <1>8, <1>9, <2>1, LeavesOK DEF IInv
  <1> QED BY <1>3, <1>10 DEF IInv

\* The amount one pass of pipe_write commits: something, no more than there is
\* room for, and all of a small request.
LEMMA WriteAmount ==
    ASSUME Constants, IInv, NEW t \in Task, Runs(t, "write"), Space >= min_space(t)
    PROVE  /\ WriteSize(t) \in Nat /\ WriteSize(t) > 0 /\ WriteSize(t) <= PIPE_SIZE - used
           /\ call[t].piece <= PIPE_BUF => WriteSize(t) = call[t].piece
           /\ call[t].part + WriteSize(t) <= call[t].piece
           /\ used < PIPE_SIZE
  <1>1. used \in Nat /\ used <= PIPE_SIZE /\ PIPE_SIZE \in Nat BY DEF IInv, RingOK, Constants
  <1>2. call[t] \in Call /\ CallOK(t, call[t]) BY DEF IInv, CallsInv, CallsOK
  <1>3. call[t].piece \in Nat /\ call[t].part \in Nat BY <1>2 DEF Call
  <1>4. /\ call[t].piece > 0 /\ call[t].part < call[t].piece
        /\ call[t].piece <= PIPE_BUF => call[t].part = 0
    BY <1>2 DEF CallOK, Runs
  <1> QED BY <1>1, <1>3, <1>4 DEF WriteSize, Space, min_space, Min2, PIPE_BUF

\* The bytes one pass of pipe_write commits: a small request is whole.
BytesOf(t) ==
  LET k == WriteSize(t)
      at == call[t].done + call[t].part
  IN [i \in 1..k |->
       [w |-> t, rest |-> IF call[t].len <= PIPE_BUF THEN call[t].len - (at + i) ELSE 0]]

LEMMA BytesWhole ==
    ASSUME Constants, IInv, NEW t \in Task, Runs(t, "write"), Space >= min_space(t)
    PROVE  /\ BytesOf(t) \in [1..WriteSize(t) -> Byte]
           /\ \A i \in 1..WriteSize(t) : BytesOf(t)[i].rest > 0 =>
                 /\ i < WriteSize(t)
                 /\ BytesOf(t)[i + 1] = [BytesOf(t)[i] EXCEPT !.rest = @ - 1]
  <1> DEFINE k == WriteSize(t)
             len == call[t].len
             byte(i) == [w |-> t, rest |-> IF len <= PIPE_BUF THEN len - i ELSE 0]
  <1>1. call[t] \in Call /\ CallOK(t, call[t]) BY DEF IInv, CallsInv, CallsOK
  <1>2. t \in Writer BY <1>1 DEF Runs, CallOK, EndOf, Task
  <1>3. k \in Nat /\ len \in Nat /\ PIPE_BUF \in Nat /\ PIPE_BUF > 0
    BY <1>1, WriteAmount DEF Call, Constants, PIPE_BUF
  <1>4. len <= PIPE_BUF => call[t].done = 0 /\ call[t].part = 0 /\ k = len
    BY <1>1, WriteAmount DEF CallOK, Runs
  <1> HIDE DEF k
  <1>5. BytesOf(t) = [i \in 1..k |-> byte(i)]
    <2>1. ASSUME NEW i \in 1..k
          PROVE  (IF len <= PIPE_BUF THEN len - ((call[t].done + call[t].part) + i) ELSE 0) =
                 (IF len <= PIPE_BUF THEN len - i ELSE 0)
      BY <1>3, <1>4
    <2> QED BY <2>1 DEF BytesOf, k
  <1>6. ASSUME NEW i \in 1..k PROVE byte(i) \in Byte
    <2>1. (IF len <= PIPE_BUF THEN len - i ELSE 0) \in 0..(PIPE_BUF - 1) BY <1>3, <1>4
    <2> QED BY <1>2, <2>1 DEF Byte
  <1>7. ASSUME NEW i \in 1..k, byte(i).rest > 0
        PROVE  i < k /\ i + 1 \in 1..k /\ byte(i + 1) = [byte(i) EXCEPT !.rest = @ - 1]
    <2>1. len <= PIPE_BUF /\ len - i > 0 BY <1>7
    <2>2. i < k /\ i + 1 \in 1..k /\ len - (i + 1) = (len - i) - 1 BY <1>3, <1>4, <2>1
    <2> QED BY <2>1, <2>2
  <1> HIDE DEF byte
  <1>8. BytesOf(t) \in [1..k -> Byte] BY <1>5, <1>6
  <1>9. \A i \in 1..k : BytesOf(t)[i].rest > 0 =>
          i < k /\ BytesOf(t)[i + 1] = [BytesOf(t)[i] EXCEPT !.rest = @ - 1]
    BY <1>5, <1>7
  <1> QED BY <1>8, <1>9 DEF k

\* wait_channel_wake_one reaches the only task on the read end.
LEMMA WakesTheReader ==
    ASSUME IInv, OneReader, NEW u \in Reader, call[u].asleep
    PROVE  u \in WakesReader
  <1> DEFINE I == {i \in DOMAIN readers_wq : call[readers_wq[i]].asleep}
  <1>1. readers_wq \in Seq(Reader) /\ u \in Range(readers_wq) BY DEF IInv, CallsInv, LinksOK
  <1>2. \A i \in DOMAIN readers_wq : i \in Nat /\ readers_wq[i] \in Reader BY <1>1
  <1>3. I \subseteq Nat /\ I # {} BY <1>1, <1>2 DEF Range
  <1>4. PICK j \in I : \A h \in I : j <= h BY <1>3, LeastNat
  <1>5. readers_wq[j] = u BY <1>2, <1>4 DEF OneReader
  <1> QED BY <1>4, <1>5 DEF WakesReader, FirstSleeper

\* A write puts bytes and wakes a reader that waits for them.
LEMMA WriteOK ==
    ASSUME Constants, IInv, NEW t \in Task, pipe_write(t) PROVE IInv'
  <1> DEFINE k == WriteSize(t)
             part == call[t].part + k
             done == call[t].done + call[t].piece
             next == Min2(SYS_FILE_BUF_SIZE, call[t].len - done)
             c == CASE part < call[t].piece -> [call EXCEPT ![t].part = part]
                    [] part >= call[t].piece /\ done >= call[t].len -> Return(t)
                    [] OTHER -> [call EXCEPT ![t].done = done, ![t].part = 0, ![t].piece = next]
             W == WakesReader
  <1>1. /\ Runs(t, "write") /\ Space >= min_space(t) /\ store(BytesOf(t))
        /\ Leaves(t, c, W) /\ running' = (IF c[t].op = "none" THEN NoTask ELSE t)
    BY DEF pipe_write, BytesOf
  <1>2. /\ k \in Nat /\ k > 0 /\ k <= PIPE_SIZE - used /\ used < PIPE_SIZE
        /\ call[t].piece <= PIPE_BUF => k = call[t].piece
        /\ call[t].part + k <= call[t].piece
    BY <1>1, WriteAmount
  <1>3. RingOK' /\ SmallWritesWhole' /\ used' = used + k
    BY <1>1, <1>2, BytesWhole, StoreOK, PutWhole DEF IInv
  <1>4. CallsOK(call) /\ call \in [Task -> Call] /\ call[t] \in Call /\ CallOK(t, call[t])
    BY DEF IInv, CallsInv, CallsOK
  <1>5. /\ call[t].op = "write" /\ ~call[t].dead /\ ~call[t].asleep
        /\ t \in Writer /\ t \notin Reader
    BY <1>1, <1>4 DEF Runs, CallOK, EndOf, Constants, Task
  <1>6. /\ call[t].piece \in Nat /\ call[t].done \in Nat /\ call[t].len \in Nat
        /\ call[t].part \in Nat /\ used \in Nat /\ PIPE_SIZE \in Nat
    BY <1>4 DEF Call, IInv, RingOK, Constants
  <1>7. /\ call[t].piece > 0 /\ call[t].done + call[t].piece <= call[t].len
        /\ call[t].piece <= PIPE_BUF => call[t].part = 0
        /\ call[t].len <= PIPE_BUF => call[t].piece = call[t].len /\ call[t].done = 0
    BY <1>4, <1>5 DEF CallOK
  <1> HIDE DEF k
  <1>8. part \in Nat /\ done \in Nat BY <1>2, <1>6
  <1>9. /\ c \in [Task -> Call] /\ CallOK(t, c[t]) /\ ~c[t].asleep
        /\ \A u \in Task : u # t => c[u] = call[u]
    <2>1. CASE part < call[t].piece
      <3> DEFINE r == [call[t] EXCEPT !.part = part]
      <3>1. c = [call EXCEPT ![t] = r]
        <4>1. ~(part >= call[t].piece) BY <1>6, <1>8, <2>1
        <4>2. c = [call EXCEPT ![t].part = part] BY <2>1, <4>1
        <4> HIDE DEF c
        <4> QED BY <1>4, <4>2
      <3>2. ~(call[t].piece <= PIPE_BUF) BY <1>2, <1>6, <1>7, <2>1
      <3> HIDE DEF part, c
      <3>3. /\ r \in Call /\ r.op = "write" /\ ~r.asleep /\ ~r.dead /\ r.part = part
            /\ r.piece = call[t].piece /\ r.done = call[t].done /\ r.len = call[t].len
        BY <1>4, <1>5, <1>8 DEF Call
      <3> HIDE DEF r
      <3>4. CallOK(t, r) BY <1>5, <1>7, <2>1, <3>2, <3>3 DEF CallOK, EndOf
      <3> QED BY <1>4, <3>1, <3>3, <3>4
    <2>2. CASE ~(part < call[t].piece) /\ done >= call[t].len
      <3>1. part >= call[t].piece BY <1>6, <1>8, <2>2
      <3>2. c = Return(t) BY <2>2, <3>1
      <3> HIDE DEF c
      <3> QED BY <1>4, <3>2, NoCallOK DEF Return
    <2>3. CASE ~(part < call[t].piece) /\ ~(done >= call[t].len)
      <3> DEFINE r == [[[call[t] EXCEPT !.done = done] EXCEPT !.part = 0] EXCEPT !.piece = next]
      <3>1. c = [call EXCEPT ![t].done = done, ![t].part = 0, ![t].piece = next] BY <2>3
      <3>2. c = [call EXCEPT ![t] = r] BY <1>4, <3>1
      <3>3. ~(call[t].len <= PIPE_BUF) /\ done < call[t].len BY <1>6, <1>7, <1>8, <2>3
      <3>4. next \in Nat /\ next > 0 /\ done + next <= call[t].len
        <4> HIDE DEF done
        <4> QED BY <1>6, <1>8, <3>3 DEF Min2, Constants
      <3> HIDE DEF done, next, c
      <3>5. /\ r \in Call /\ r.op = "write" /\ ~r.asleep /\ ~r.dead /\ r.part = 0
            /\ r.piece = next /\ r.done = done /\ r.len = call[t].len
        BY <1>4, <1>5, <1>8, <3>4 DEF Call
      <3> HIDE DEF r
      <3>6. CallOK(t, r) BY <1>5, <3>3, <3>4, <3>5 DEF CallOK, EndOf
      <3> QED BY <1>4, <3>2, <3>5, <3>6
    <2> QED BY <2>1, <2>2, <2>3
  <1> HIDE DEF c
  <1>10. SleepOK(Awake(c, W), used')
    <2>1. CallsOK(c) BY <1>4, <1>9 DEF CallsOK
    <2>2. \A u \in Task : /\ SameCall(Awake(c, W)[u], c[u])
                          /\ Awake(c, W)[u].asleep => c[u].asleep /\ u \notin W
      <3> HIDE DEF W
      <3> QED BY <2>1, AwakeOK
    <2>3. \A u \in Task : Awake(c, W)[u].asleep =>
            call[u].asleep /\ u \notin W /\ SameCall(Awake(c, W)[u], call[u])
      <3> HIDE DEF W
      <3> QED BY <1>9, <2>2
    <2>4. ASSUME NEW u \in Writer, Awake(c, W)[u].asleep PROVE Blocked(Awake(c, W)[u], used')
      <3>1. u \in Task /\ call[u] \in Call BY <1>4 DEF Task
      <3>2. call[u].asleep /\ SameCall(Awake(c, W)[u], call[u]) BY <2>3, <2>4, <3>1
      <3>3. Blocked(call[u], used) BY <3>2 DEF IInv, CallsInv, SleepOK
      <3>4. call[u].piece \in Nat BY <3>1 DEF Call
      <3>5. Blocked(call[u], used')
        BY <1>2, <1>3, <1>6, <3>3, <3>4 DEF Blocked, PIPE_BUF
      <3> HIDE DEF W
      <3> QED BY <3>2, <3>5 DEF Blocked, SameCall
    <2>5. ASSUME OneReader, NEW u \in Reader, Awake(c, W)[u].asleep PROVE used' = 0
      <3>1. u \in Task BY DEF Task
      <3>2. call[u].asleep /\ u \notin W BY <2>3, <2>5, <3>1
      <3> QED BY <2>5, <3>2, WakesTheReader
    <2> HIDE DEF W
    <2> QED BY <2>4, <2>5 DEF SleepOK
  <1>11. running' \in {NoTask, t} /\ (running' = t => c[t].op # "none")
    <2>1. NoTask # t BY DEF Constants, Task
    <2> QED BY <1>1, <2>1
  <1>12. CallsInv'
    <2>1. Leaves(t, c, W) /\ call[t].op # "none" BY <1>1, <1>5
    <2> HIDE DEF W
    <2> QED BY <1>9, <1>10, <1>11, <2>1, LeavesOK DEF IInv
  <1> QED BY <1>3, <1>12 DEF IInv

-----------------------------------------------------------------------------
(* The whole pipe.                                                         *)

\* A pipe that has just been made.
LEMMA InitOK ==
    ASSUME Constants, Init PROVE IInv
  <1>1. PIPE_SIZE \in Nat /\ PIPE_SIZE > 0 BY DEF Constants
  <1>2. RingOK
    <2>1. data \in [0..(PIPE_SIZE - 1) -> Byte \cup {Empty}] BY DEF Init
    <2>2. tail \in 0..(PIPE_SIZE - 1) /\ used \in 0..PIPE_SIZE /\ used = 0 BY <1>1 DEF Init
    <2>3. head = (tail + used) % PIPE_SIZE
      <3>1. 0 % PIPE_SIZE = 0 BY <1>1
      <3> QED BY <3>1 DEF Init
    <2> QED BY <2>1, <2>2, <2>3 DEF RingOK
  <1>3. SmallWritesWhole BY DEF SmallWritesWhole, Init
  <1>4. /\ call \in [Task -> Call] /\ \A t \in Task : call[t] = NoCall BY NoCallOK DEF Init
  <1>5. CallsOK(call) BY <1>4, NoCallOK DEF CallsOK
  <1>6. \A t \in Task : ~call[t].asleep BY <1>4, NoCallOK
  <1>7. LinksOK(call, readers_wq, writers_wq)
    <2>1. /\ readers_wq = <<>> /\ writers_wq = <<>> BY DEF Init
    <2>2. Distinct(<<>>) BY DEF Distinct
    <2> QED BY <1>6, <2>1, <2>2 DEF LinksOK, Task
  <1>8. SleepOK(call, used) BY <1>6 DEF SleepOK, Task
  <1>9. EndsOK(call, open, readers, writers)
    <2>1. readers = 1 /\ writers = 1 /\ open = End BY DEF Init
    <2> QED BY <1>6, <2>1 DEF EndsOK, Held, End, Task
  <1>10. RunningOK BY DEF RunningOK, Init, Constants, Task
  <1>11. freed = (readers = 0 /\ writers = 0)
    <2>1. ~(readers = 0 /\ writers = 0) BY DEF Init
    <2>2. freed = FALSE BY DEF Init
    <2> QED BY <2>1, <2>2
  <1>12. CallsInv BY <1>5, <1>7, <1>8, <1>9, <1>10, <1>11 DEF CallsInv
  <1> QED BY <1>2, <1>3, <1>12 DEF IInv

\* A task that runs in a call that ended the wait.
LEMMA RunsOK ==
    ASSUME IInv, NEW t \in Task, NEW op, Runs(t, op)
    PROVE  /\ call[t].op = op /\ ~call[t].dead
           /\ op = "read" => t \in Reader
           /\ op = "write" => t \notin Reader /\ t \in Writer
  <1>1. CallOK(t, call[t]) BY DEF IInv, CallsInv, CallsOK
  <1> QED BY <1>1 DEF Runs, CallOK, EndOf, Task

\* Every action keeps the invariant.
LEMMA StepOK ==
    ASSUME Constants, IInv, [Next]_vars PROVE IInv'
  <1>1. readers \in 0..1 /\ writers \in 0..1 /\ used \in Nat /\ PIPE_SIZE \in Nat /\ used <= PIPE_SIZE
    BY DEF IInv, CallsInv, EndsOK, RingOK, Constants
  <1>2. ASSUME NEW e \in End, fd_close(e) PROVE IInv' BY <1>2, CloseOK
  <1>3. ASSUME NEW t \in Task, NEW nonblock \in BOOLEAN, Start(t, "poll", 0, nonblock) PROVE IInv'
    <2>1. "poll" \in {"poll", EndOf(t)} /\ 0 \in Nat OBVIOUS
    <2> QED BY <1>3, <2>1, StartOK
  <1>4. ASSUME NEW t \in Task, NEW nonblock \in BOOLEAN,
               NEW len \in (IF t \in Reader THEN ReadLens ELSE WriteLens),
               Start(t, EndOf(t), len, nonblock)
        PROVE  IInv'
    <2>1. len \in Nat /\ len > 0 BY DEF Constants
    <2> QED BY <1>4, <2>1, StartOK
  <1>5. ASSUME NEW t \in Task, pipe_read(t) PROVE IInv' BY <1>5, ReadOK
  <1>6. ASSUME NEW t \in Task, ReadEof(t) PROVE IInv'
    BY <1>6, RunsOK, ReturnsOK DEF ReadEof
  <1>7. ASSUME NEW t \in Task, ReadFails(t) PROVE IInv'
    BY <1>7, RunsOK, ReturnsOK DEF ReadFails
  <1>8. ASSUME NEW t \in Task, ReadSleeps(t) PROVE IInv'
    <2>1. Runs(t, "read") /\ used = 0 /\ writers > 0 /\ Sleeps(t) BY <1>8 DEF ReadSleeps
    <2>2. call[t].op = "read" /\ ~call[t].dead /\ t \in Reader BY <2>1, RunsOK
    <2>3. t \notin Writer /\ writers = 1 BY <1>1, <2>1, <2>2 DEF Constants
    <2> QED BY <2>1, <2>2, <2>3, SleepsOK
  <1>9. ASSUME NEW t \in Task, pipe_write(t) PROVE IInv' BY <1>9, WriteOK
  <1>10. ASSUME NEW t \in Task, WriteBroken(t) PROVE IInv'
    BY <1>10, RunsOK, ReturnsOK DEF WriteBroken
  <1>11. ASSUME NEW t \in Task, WriteFails(t) PROVE IInv'
    BY <1>11, RunsOK, ReturnsOK DEF WriteFails
  <1>12. ASSUME NEW t \in Task, WriteSleeps(t) PROVE IInv'
    <2>1. Runs(t, "write") /\ readers > 0 /\ Space < min_space(t) /\ Sleeps(t)
      BY <1>12 DEF WriteSleeps
    <2>2. call[t].op = "write" /\ ~call[t].dead /\ t \notin Reader BY <2>1, RunsOK
    <2>3. readers = 1 BY <1>1, <2>1
    <2>4. Blocked(call[t], used) BY <2>1, <2>2 DEF Blocked, Space, min_space
    <2> QED BY <2>1, <2>2, <2>3, <2>4, SleepsOK
  <1>13. ASSUME NEW t \in Task, PollReturns(t) PROVE IInv'
    BY <1>13, RunsOK, ReturnsOK DEF PollReturns
  <1>14. ASSUME NEW t \in Task, PollSleeps(t) PROVE IInv'
    <2>1. Runs(t, "poll") /\ ~Ready(t) /\ Sleeps(t) BY <1>14 DEF PollSleeps
    <2>2. call[t].op = "poll" /\ ~call[t].dead BY <2>1, RunsOK
    <2>3. t \in Reader => used = 0 /\ writers = 1 /\ t \notin Writer
      BY <1>1, <2>1 DEF Ready, Constants
    <2>4. t \notin Reader => readers = 1 /\ used = PIPE_SIZE BY <1>1, <2>1 DEF Ready
    <2>5. t \in Writer => readers = 1 /\ Blocked(call[t], used)
      BY <2>2, <2>3, <2>4 DEF Blocked
    <2> QED BY <2>1, <2>2, <2>3, <2>5, SleepsOK
  <1>15. ASSUME NEW t \in Task, Signal(t) PROVE IInv' BY <1>15, SignalOK
  <1>16. ASSUME NEW t \in Task, TearDown(t) PROVE IInv' BY <1>16, TearDownOK
  <1>17. ASSUME UNCHANGED vars PROVE IInv'
    <2>1. /\ UNCHANGED ring /\ call' = call /\ readers_wq' = readers_wq /\ writers_wq' = writers_wq
          /\ running' = running /\ UNCHANGED ends
      BY <1>17 DEF vars
    <2>2. RingOK' /\ SmallWritesWhole' /\ used' = used BY <2>1, RingSame DEF IInv
    <2>3. open' = open /\ readers' = readers /\ writers' = writers /\ freed' = freed
      BY <2>1 DEF ends
    <2>4. CallsInv' BY <2>1, <2>2, <2>3 DEF IInv, CallsInv, RunningOK
    <2> QED BY <2>2, <2>4 DEF IInv
  <1> QED BY <1>2, <1>3, <1>4, <1>5, <1>6, <1>7, <1>8, <1>9, <1>10, <1>11, <1>12, <1>13,
             <1>14, <1>15, <1>16, <1>17 DEF Next

\* The invariant holds in every reachable state.
THEOREM Invariance == ASSUME Constants PROVE Spec => []IInv
  <1>1. Init => IInv BY InitOK
  <1>2. IInv /\ [Next]_vars => IInv' BY StepOK
  <1> QED BY <1>1, <1>2, PTL DEF Spec

\* The state of a pipe has its type: head and tail stay inside the ring, used
\* inside its capacity, each channel holds tasks of its own end.
THEOREM TypeCorrect == ASSUME Constants PROVE Spec => []TypeOK
  <1>1. ASSUME IInv PROVE TypeOK
    <2>1. PIPE_SIZE \in Nat /\ PIPE_SIZE > 0 BY DEF Constants
    <2>2. RingOK /\ CallsInv BY <1>1 DEF IInv
    <2>3. head \in 0..(PIPE_SIZE - 1)
      <3>1. tail \in 0..(PIPE_SIZE - 1) /\ used \in 0..PIPE_SIZE BY <2>2 DEF RingOK
      <3>2. head = (tail + used) % PIPE_SIZE BY <2>2 DEF RingOK
      <3> QED BY <3>1, <3>2, SlotOK
    <2>4. /\ readers \in 0..1 /\ writers \in 0..1 /\ open \subseteq End /\ freed \in BOOLEAN
      BY <2>2 DEF CallsInv, EndsOK
    <2>5. /\ call \in [Task -> Call] /\ readers_wq \in Seq(Reader) /\ writers_wq \in Seq(Writer)
          /\ running \in Task \cup {NoTask}
      BY <2>2 DEF CallsInv, CallsOK, LinksOK, RunningOK
    <2> QED BY <2>2, <2>3, <2>4, <2>5 DEF TypeOK, RingOK
  <1> QED BY <1>1, Invariance, PTL

\* A write of at most PIPE_BUF bytes is in the pipe in one run, whatever the
\* other writers do between its pieces and however the ring wraps.
THEOREM WritesWhole == ASSUME Constants PROVE Spec => []SmallWritesWhole
  <1>1. IInv => SmallWritesWhole BY DEF IInv
  <1> QED BY <1>1, Invariance, PTL

\* No task sleeps at an end of the pipe that has, or will get, nothing to tell
\* it: a sleeping writer has no room, a sleeping reader has a writer and, when it
\* is alone, no bytes; the buffer is freed with the second end and nobody is
\* inside it then.
THEOREM EndsCorrect == ASSUME Constants PROVE Spec => []EndsAnswered
  <1>1. ASSUME IInv PROVE EndsAnswered
    <2>1. /\ CallsOK(call) /\ SleepOK(call, used) /\ EndsOK(call, open, readers, writers)
          /\ freed = (readers = 0 /\ writers = 0)
      BY <1>1 DEF IInv, CallsInv
    <2>2. FreedUnused
      <3>1. ASSUME freed, NEW t \in Task PROVE call[t].op = "none"
        <4>1. readers = 0 /\ writers = 0 BY <2>1, <3>1
        <4>2. ~Held(call, open, "read") /\ ~Held(call, open, "write") BY <2>1, <4>1 DEF EndsOK
        <4>3. EndOf(t) \in {"read", "write"} BY DEF EndOf
        <4> QED BY <4>2, <4>3 DEF Held
      <3> QED BY <2>1, <3>1 DEF FreedUnused
    <2>3. EofReachesReaders BY <2>1 DEF EofReachesReaders, EndsOK
    <2>4. WriterNotStranded
      BY <2>1 DEF WriterNotStranded, EndsOK, SleepOK, Blocked, Space, min_space
    <2>5. (\A t, u \in Reader : t = u) => ReaderNotStranded
      BY <2>1 DEF ReaderNotStranded, SleepOK, OneReader
    <2> QED BY <2>2, <2>3, <2>4, <2>5 DEF EndsAnswered
  <1> QED BY <1>1, Invariance, PTL

-----------------------------------------------------------------------------
(* The ring implements a bounded queue.                                    *)

\* The bytes in the ring, as a sequence.
LEMMA QueueLen ==
    ASSUME Constants, RingOK
    PROVE  DOMAIN Queue = 1..used /\ Len(Queue) = used /\ used \in Nat /\ used <= PIPE_SIZE
  <1>1. used \in Nat /\ used <= PIPE_SIZE BY DEF RingOK, Constants
  <1>2. DOMAIN Queue = 1..used BY DEF Queue
  <1> QED BY <1>1, <1>2, ByteSeq

\* Every step of the pipe leaves the queue alone, appends to it or takes from its
\* front.
LEMMA QueueStep ==
    ASSUME Constants, IInv, IInv', [Next]_vars PROVE [Bytes!Next]_Queue
  <1>1. /\ DOMAIN Queue = 1..used /\ Len(Queue) = used /\ used \in Nat
        /\ DOMAIN Queue' = 1..used' /\ Len(Queue') = used' /\ used' \in Nat /\ used' <= PIPE_SIZE
    <2>1. RingOK /\ RingOK' BY DEF IInv
    <2>2. DOMAIN Queue = 1..used /\ Len(Queue) = used /\ used \in Nat BY <2>1, QueueLen
    <2>3. DOMAIN Queue' = 1..used' BY DEF Queue
    <2>4. used' \in Nat /\ used' <= PIPE_SIZE BY <2>1 DEF RingOK, Constants
    <2>5. Len(Queue') = used' BY <2>3, <2>4, ByteSeq
    <2> QED BY <2>2, <2>3, <2>4, <2>5
  <1>2. ASSUME NEW t \in Task, pipe_read(t) PROVE Bytes!Take
    <2> DEFINE k == Min2(call[t].piece, used)
    <2>1. k \in Nat /\ k > 0 /\ k <= used /\ consume(k) BY <1>2, ReadAmount
    <2> HIDE DEF k
    <2>2. used' = used - k /\ \A i \in 1..(used - k) : Queue'[i] = Queue[i + k]
      BY <2>1, ConsumeOK DEF IInv
    <2>3. Len(Queue) - Len(Queue') = k BY <1>1, <2>1, <2>2
    <2>4. ASSUME NEW i \in DOMAIN Queue' PROVE Queue'[i] = Queue[k + i]
      <3>1. i \in 1..(used - k) /\ k + i = i + k BY <1>1, <2>1, <2>2, <2>4
      <3> QED BY <2>2, <3>1
    <2>5. DOMAIN Queue' = 1..Len(Queue') BY <1>1
    <2> QED BY <2>1, <2>3, <2>4, <2>5 DEF Bytes!Take
  <1>3. ASSUME NEW t \in Task, pipe_write(t) PROVE Bytes!Put
    <2> DEFINE k == WriteSize(t)
    <2>1. Runs(t, "write") /\ Space >= min_space(t) /\ store(BytesOf(t))
      BY <1>3 DEF pipe_write, BytesOf
    <2>2. k \in Nat /\ k > 0 /\ k <= PIPE_SIZE - used /\ BytesOf(t) \in [1..k -> Byte]
      BY <2>1, WriteAmount, BytesWhole
    <2> HIDE DEF k
    <2>3. used' = used + k /\ \A i \in 1..used : Queue'[i] = Queue[i]
      BY <2>1, <2>2, StoreOK DEF IInv
    <2>4. Len(Queue) < Len(Queue') /\ Len(Queue') <= PIPE_SIZE BY <1>1, <2>2, <2>3
    <2>5. \A i \in DOMAIN Queue : Queue'[i] = Queue[i] BY <1>1, <2>3
    <2>6. DOMAIN Queue' = 1..Len(Queue') /\ \A i \in DOMAIN Queue' : Queue'[i] \in Byte
      BY <1>1 DEF IInv, RingOK
    <2> QED BY <2>4, <2>5, <2>6 DEF Bytes!Put
  <1>4. ASSUME UNCHANGED ring PROVE Queue' = Queue BY <1>4, RingSame DEF IInv
  <1>5. ASSUME NEW t \in Task,
               \/ ReadEof(t) \/ ReadFails(t) \/ ReadSleeps(t)
               \/ WriteBroken(t) \/ WriteFails(t) \/ WriteSleeps(t)
               \/ PollReturns(t) \/ PollSleeps(t) \/ Signal(t) \/ TearDown(t)
        PROVE  UNCHANGED ring
    BY <1>5 DEF ReadEof, ReadFails, ReadSleeps, WriteBroken, WriteFails, WriteSleeps, PollReturns,
                PollSleeps, Signal, TearDown, Returns, Sleeps
  <1>6. ASSUME NEW e \in End, fd_close(e) PROVE UNCHANGED ring BY <1>6 DEF fd_close
  <1>7. ASSUME NEW t, NEW op, NEW len, NEW nonblock, Start(t, op, len, nonblock)
        PROVE  UNCHANGED ring
    BY <1>7 DEF Start
  <1>8. ASSUME UNCHANGED vars PROVE UNCHANGED ring BY <1>8 DEF vars
  <1>9. \/ UNCHANGED ring
        \/ \E t \in Task : pipe_read(t)
        \/ \E t \in Task : pipe_write(t)
    BY <1>5, <1>6, <1>7, <1>8 DEF Next
  <1> QED BY <1>2, <1>3, <1>4, <1>9 DEF Bytes!Next

\* The ring, with its wrap-around and the pieces the calls come in, is a bounded
\* queue of bytes: none is lost, repeated, reordered or invented inside it.
THEOREM Refinement == ASSUME Constants PROVE Spec => ImplementsByteQueue
  <1>1. Init => Bytes!Init
    <2>1. ASSUME Init PROVE Queue = <<>> BY <2>1 DEF Init, Queue
    <2> QED BY <2>1 DEF Bytes!Init
  <1>2. IInv /\ IInv' /\ [Next]_vars => [Bytes!Next]_Queue BY QueueStep
  <1> QED BY <1>1, <1>2, Invariance, PTL DEF Spec, ImplementsByteQueue, Bytes!Spec
=============================================================================
