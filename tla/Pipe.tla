-------------------------------- MODULE Pipe --------------------------------
(***************************************************************************)
(* One pipe (fs/pipe.c) with the read and write calls that reach it        *)
(* (syscall/sys_file_io.c), which split a request into pieces.             *)
(*                                                                         *)
(* The kernel is not preemptive: a call runs until it sleeps or returns.   *)
(* `running' names the task in the middle of a call, between two pieces;   *)
(* nobody else moves then.  Each end is one open file description; a call  *)
(* in progress holds a reference to it beside the ones of the descriptors. *)
(***************************************************************************)
EXTENDS Naturals, Sequences, Queues

CONSTANTS
  Reader, Writer,     \* tasks, by the end of the pipe they use
  NoTask,             \* nobody is in the middle of a call
  PIPE_SIZE,          \* capacity of the ring, and PIPE_BUF
  SYS_FILE_BUF_SIZE,  \* piece in which the system calls read and write
  ReadLens, WriteLens \* the lengths of requests

Task == Reader \cup Writer
End == {"read", "write"}
PIPE_BUF == PIPE_SIZE

\* A byte: its writer, and how many bytes of the same small write follow it.
Byte == [w : Writer, rest : 0..(PIPE_BUF - 1)]
Empty == [w |-> NoTask, rest |-> 0]

VARIABLES
  data, head, tail, used,  \* the ring
  readers, writers,        \* open file descriptions of each end
  open,                    \* ends some descriptor still refers to
  freed,                   \* the buffer has been freed
  call,                    \* the call each task is in
  readers_wq, writers_wq,  \* wait channels
  running

ring == <<data, head, tail, used>>
ends == <<readers, writers, open, freed>>
vars == <<ring, ends, call, readers_wq, writers_wq, running>>

(***************************************************************************)
(* A call: its kind, the length asked for, the bytes done, the size of the *)
(* piece handed to the pipe and the bytes of it done, whether the file is  *)
(* O_NONBLOCK, whether the task is asleep, has a signal, and has been torn *)
(* down by a sibling.                                                      *)
(***************************************************************************)
Call == [op : {"none", "read", "write", "poll"}, len : Nat,
         done : Nat, piece : Nat, part : Nat,
         nonblock : BOOLEAN, asleep : BOOLEAN, sig : BOOLEAN, dead : BOOLEAN]

NoCall == [op |-> "none", len |-> 0, done |-> 0, piece |-> 0, part |-> 0,
           nonblock |-> FALSE, asleep |-> FALSE, sig |-> FALSE, dead |-> FALSE]

EndOf(t) == IF t \in Reader THEN "read" ELSE "write"

Min2(a, b) == IF a < b THEN a ELSE b

-----------------------------------------------------------------------------
(* Wait channels. *)

\* Wakes the tasks of S: wait_channel_wake_all and wake_one unlink them.
Awake(c, S) == [t \in Task |-> IF t \in S THEN [c[t] EXCEPT !.asleep = FALSE]
                               ELSE c[t]]

Sleepers(c, wq) == {t \in Range(wq) : c[t].asleep}

FirstSleeper(c, wq) ==
  LET I == {i \in DOMAIN wq : c[wq[i]].asleep}
  IN {wq[i] : i \in {j \in I : \A h \in I : j <= h}}

Link(wq, t) == IF t \in Range(wq) THEN wq ELSE Append(wq, t)

-----------------------------------------------------------------------------
(* The ring. *)

Buffered(i) == data[(tail + i) % PIPE_SIZE]

\* The copy loop of pipe_commit_write_locked, over as many linear stretches as
\* it takes.
store(bytes) ==
  /\ data' = [i \in 0..(PIPE_SIZE - 1) |->
       LET k == (i + PIPE_SIZE - head) % PIPE_SIZE
       IN IF k < Len(bytes) THEN bytes[k + 1] ELSE data[i]]
  /\ head' = (head + Len(bytes)) % PIPE_SIZE
  /\ used' = used + Len(bytes)
  /\ UNCHANGED tail

\* The copy loop of pipe_read over k bytes.  What was read is not read again:
\* the model forgets it.
consume(k) ==
  /\ data' = [i \in 0..(PIPE_SIZE - 1) |->
       IF (i + PIPE_SIZE - tail) % PIPE_SIZE < k THEN Empty ELSE data[i]]
  /\ tail' = (tail + k) % PIPE_SIZE
  /\ used' = used - k
  /\ UNCHANGED head

-----------------------------------------------------------------------------
(* Ends, and the last reference to one. *)

\* Somebody has a reference to the end: a descriptor, or a call in progress.
Held(c, f, e) == e \in f \/ \E t \in Task : EndOf(t) = e /\ c[t].op # "none"

\* The calls, queues and descriptors after a step, and what file_put does when
\* that was the last reference to an end: pipe_release drops the count, wakes
\* everybody on the other side and frees the buffer with the second end.
Settle(c, rw, ww, f) ==
  LET noReader == readers = 1 /\ ~Held(c, f, "read")
      noWriter == writers = 1 /\ ~Held(c, f, "write")
      wakeW == IF noReader THEN Sleepers(c, ww) ELSE {}
      wakeR == IF noWriter THEN Sleepers(c, rw) ELSE {}
  IN /\ readers' = IF noReader THEN 0 ELSE readers
     /\ writers' = IF noWriter THEN 0 ELSE writers
     /\ freed' = (readers' = 0 /\ writers' = 0)
     /\ call' = Awake(c, wakeR \cup wakeW)
     /\ readers_wq' = Without(rw, wakeR)
     /\ writers_wq' = Without(ww, wakeW)
     /\ open' = f

\* The last descriptor of an end is closed; the others, made by dup and fork,
\* only delay this.
fd_close(e) ==
  /\ running = NoTask
  /\ e \in open
  /\ Settle(call, readers_wq, writers_wq, open \ {e})
  /\ UNCHANGED <<ring, running>>

-----------------------------------------------------------------------------
(* Calls. *)

\* Fault: a small write is split like any other.
FirstPiece_split(op, len) ==
  IF op = "poll" THEN 0 ELSE Min2(SYS_FILE_BUF_SIZE, len)

FirstPiece(op, len) ==
  CASE op = "read" -> Min2(SYS_FILE_BUF_SIZE, len)
    [] op = "write" -> IF len <= PIPE_BUF THEN len ELSE PIPE_BUF + 1
    [] op = "poll" -> 0

Start(t, op, len, nonblock) ==
  /\ running = NoTask
  /\ call[t].op = "none"
  /\ EndOf(t) \in open
  /\ call' = [call EXCEPT ![t] =
       [NoCall EXCEPT !.op = op, !.len = len, !.nonblock = nonblock,
                      !.piece = FirstPiece(op, len)]]
  /\ running' = t
  /\ UNCHANGED <<ring, ends, readers_wq, writers_wq>>

\* t executes inside a call of this kind.
Runs(t, op) ==
  /\ running \in {NoTask, t}
  /\ call[t].op = op
  /\ ~call[t].asleep
  /\ ~call[t].dead

Return(t) == [call EXCEPT ![t] = NoCall]

\* A step of t that leaves its wait, if it was in one, and changes the calls
\* to c; the sleepers in W leave their channels.
Leaves(t, c, W) ==
  Settle(Awake(c, W), Without(readers_wq, {t} \cup W),
         Without(writers_wq, {t} \cup W), open)

Returns(t) ==
  /\ Leaves(t, Return(t), {})
  /\ running' = NoTask
  /\ UNCHANGED ring

\* wait_for with nothing to return for.
Sleeps(t) ==
  /\ ~call[t].nonblock /\ ~call[t].sig
  /\ call' = [call EXCEPT ![t].asleep = TRUE]
  /\ IF t \in Reader
     THEN readers_wq' = Link(readers_wq, t) /\ UNCHANGED writers_wq
     ELSE writers_wq' = Link(writers_wq, t) /\ UNCHANGED readers_wq
  /\ running' = NoTask
  /\ UNCHANGED <<ring, ends>>

\* -EAGAIN, or -EINTR from the wait.
GivesUp(t) == call[t].nonblock \/ call[t].sig

\* Fault: a read makes room and tells nobody.
pipe_read_quiet(t) ==
  LET k == Min2(call[t].piece, used)
      done == call[t].done + k
      over == k < call[t].piece \/ done = call[t].len
      c == IF over THEN Return(t)
           ELSE [call EXCEPT ![t].done = done,
                   ![t].piece = Min2(SYS_FILE_BUF_SIZE, call[t].len - done)]
  IN /\ Runs(t, "read")
     /\ used > 0
     /\ consume(k)
     /\ Leaves(t, c, {})
     /\ running' = IF over THEN NoTask ELSE t

\* One piece of read_user_buffer_pos: pipe_read takes what is there, up to the
\* piece; a short piece ends the call.
pipe_read(t) ==
  LET k == Min2(call[t].piece, used)
      done == call[t].done + k
      over == k < call[t].piece \/ done = call[t].len
      c == IF over THEN Return(t)
           ELSE [call EXCEPT ![t].done = done,
                   ![t].piece = Min2(SYS_FILE_BUF_SIZE, call[t].len - done)]
  IN /\ Runs(t, "read")
     /\ used > 0
     /\ consume(k)
     /\ Leaves(t, c, Sleepers(call, writers_wq))
     /\ running' = IF over THEN NoTask ELSE t

ReadEof(t) == Runs(t, "read") /\ used = 0 /\ writers = 0 /\ Returns(t)

\* read_user_buffer_pos returns the error of the piece, whatever was done.
ReadFails(t) ==
  /\ Runs(t, "read")
  /\ used = 0 /\ writers > 0
  /\ GivesUp(t)
  /\ Returns(t)

ReadSleeps(t) == Runs(t, "read") /\ used = 0 /\ writers > 0 /\ Sleeps(t)

min_space(t) == IF call[t].piece <= PIPE_BUF THEN call[t].piece ELSE 1

Space == PIPE_SIZE - used

\* Fault: a large request is committed as soon as there is room for some of it.
WriteSize_whole(t) ==
  IF call[t].piece <= PIPE_BUF THEN call[t].piece ELSE call[t].piece - call[t].part

\* What one pass of pipe_write commits: all of a small request, what fits of a
\* large one.
WriteSize(t) ==
  IF call[t].piece <= PIPE_BUF THEN call[t].piece
  ELSE Min2(Space, call[t].piece - call[t].part)

\* pipe_commit_write_locked wakes one task waiting for data.
WakesReader == FirstSleeper(call, readers_wq)

pipe_write(t) ==
  LET k == WriteSize(t)
      at == call[t].done + call[t].part
      bytes == [i \in 1..k |->
        [w |-> t,
         rest |-> IF call[t].len <= PIPE_BUF THEN call[t].len - (at + i) ELSE 0]]
      part == call[t].part + k
      done == call[t].done + call[t].piece
      c == CASE part < call[t].piece -> [call EXCEPT ![t].part = part]
             [] part >= call[t].piece /\ done >= call[t].len -> Return(t)
             [] OTHER -> [call EXCEPT ![t].done = done, ![t].part = 0,
                   ![t].piece = Min2(SYS_FILE_BUF_SIZE, call[t].len - done)]
  IN /\ Runs(t, "write")
     /\ readers > 0
     /\ Space >= min_space(t)
     /\ store(bytes)
     /\ Leaves(t, c, WakesReader)
     /\ running' = IF c[t].op = "none" THEN NoTask ELSE t

\* SIGPIPE and -EPIPE.
WriteBroken(t) ==
  /\ Runs(t, "write")
  /\ readers = 0
  /\ Returns(t)

WriteFails(t) ==
  /\ Runs(t, "write")
  /\ readers > 0
  /\ Space < min_space(t)
  /\ GivesUp(t)
  /\ Returns(t)

WriteSleeps(t) ==
  /\ Runs(t, "write")
  /\ readers > 0
  /\ Space < min_space(t)
  /\ Sleeps(t)

\* pipe_poll: POLLIN or POLLHUP on the read end, POLLOUT or POLLERR on the
\* other.
Ready(t) ==
  IF t \in Reader THEN used > 0 \/ writers = 0
                  ELSE readers = 0 \/ used < PIPE_SIZE

PollReturns(t) ==
  /\ Runs(t, "poll")
  /\ Ready(t) \/ GivesUp(t)
  /\ Returns(t)

PollSleeps(t) == Runs(t, "poll") /\ ~Ready(t) /\ Sleeps(t)

\* A signal wakes the sleeper and leaves it on the channel.
Signal(t) ==
  /\ call[t].asleep
  /\ call' = [call EXCEPT ![t].asleep = FALSE, ![t].sig = TRUE]
  /\ UNCHANGED <<ring, ends, readers_wq, writers_wq, running>>

\* A sibling exits the thread group while t is inside a call: its wait is
\* cancelled and its kernel stack, with the reference to the file, is gone.
TearDown(t) ==
  /\ running = NoTask
  /\ call[t].op # "none" /\ ~call[t].dead
  /\ call' = [call EXCEPT ![t] = [NoCall EXCEPT !.op = call[t].op,
                                              !.dead = TRUE]]
  /\ readers_wq' = Without(readers_wq, {t})
  /\ writers_wq' = Without(writers_wq, {t})
  /\ UNCHANGED <<ring, ends, running>>

-----------------------------------------------------------------------------
Init ==
  /\ data = [i \in 0..(PIPE_SIZE - 1) |-> Empty]
  /\ head = 0 /\ tail = 0 /\ used = 0
  /\ readers = 1 /\ writers = 1
  /\ open = End
  /\ freed = FALSE
  /\ call = [t \in Task |-> NoCall]
  /\ readers_wq = <<>> /\ writers_wq = <<>>
  /\ running = NoTask

Next ==
  \/ \E e \in End : fd_close(e)
  \/ \E t \in Task, nonblock \in BOOLEAN :
       \/ Start(t, "poll", 0, nonblock)
       \/ \E len \in (IF t \in Reader THEN ReadLens ELSE WriteLens) :
                  Start(t, EndOf(t), len, nonblock)
  \/ \E t \in Task :
       \/ pipe_read(t) \/ ReadEof(t) \/ ReadFails(t) \/ ReadSleeps(t)
       \/ pipe_write(t) \/ WriteBroken(t) \/ WriteFails(t) \/ WriteSleeps(t)
       \/ PollReturns(t) \/ PollSleeps(t)
       \/ Signal(t) \/ TearDown(t)

Spec == Init /\ [][Next]_vars

-----------------------------------------------------------------------------
TypeOK ==
  /\ data \in [0..(PIPE_SIZE - 1) -> Byte \cup {Empty}]
  /\ head \in 0..(PIPE_SIZE - 1) /\ tail \in 0..(PIPE_SIZE - 1)
  /\ used \in 0..PIPE_SIZE
  /\ readers \in 0..1 /\ writers \in 0..1
  /\ open \subseteq End
  /\ freed \in BOOLEAN
  /\ call \in [Task -> Call]
  /\ readers_wq \in Seq(Reader) /\ writers_wq \in Seq(Writer)
  /\ running \in Task \cup {NoTask}

\* The bytes between tail and head, in order.
Queue == [i \in 1..used |-> Buffered(i - 1)]

Bytes == INSTANCE ByteQueue WITH Capacity <- PIPE_SIZE, queue <- Queue

\* The ring, with its wrap-around and the pieces the calls come in, is a
\* bounded queue: no byte is lost, repeated or reordered inside it.
ImplementsByteQueue == Bytes!Spec

\* A write of at most PIPE_BUF bytes is in the pipe in one run, whatever the
\* other writers do: "pipe commits these small writes at once".
SmallWritesWhole ==
  \A i \in 1..used :
    Queue[i].rest > 0 =>
      i < used /\ Queue[i + 1] = [Queue[i] EXCEPT !.rest = @ - 1]

\* No writer sleeps while its request would fit or nobody can read any more,
\* and no poller while its end is writable.
WriterNotStranded ==
  \A t \in Writer : call[t].asleep =>
    /\ readers = 1
    /\ IF call[t].op = "poll" THEN used = PIPE_SIZE ELSE Space < min_space(t)

\* The last writer's release reaches every reader and poller that waits.
EofReachesReaders == \A t \in Reader : call[t].asleep => writers = 1

\* The buffer is freed exactly when both ends are gone, and no call that can
\* still run is inside it then.
FreedUnused ==
  /\ freed <=> readers = 0 /\ writers = 0
  /\ freed => \A t \in Task : call[t].op = "none"

\* With one task on the read end: it does not sleep while there are bytes.
ReaderNotStranded == \A t \in Reader : call[t].asleep => used = 0

\* What the tasks on the two ends rely on.
EndsAnswered ==
  /\ FreedUnused /\ EofReachesReaders /\ WriterNotStranded
  /\ (\A t, u \in Reader : t = u) => ReaderNotStranded

\* "a positive partial count is preserved": a read that took bytes out of the
\* pipe does not return an error.
ReadCountKept == [][\A t \in Reader : ReadFails(t) => call[t].done = 0]_vars

\* Once the last descriptor of the write end is closed and no live task is in
\* a call on it, the pipe has no writer: readers see the end of the file.
WriterReleased ==
  "write" \notin open /\ (\A t \in Writer : call[t].op = "none" \/ call[t].dead)
    => writers = 0
=============================================================================
