------------------------------- MODULE FileIo -------------------------------
(***************************************************************************)
(* read, write, pread, pwrite, readv, writev, sendfile and lseek on open   *)
(* regular files (syscall/sys_file_io.c, fs/vfs/read_write.c): the loops   *)
(* that move data in pieces through a kernel buffer, with user memory that *)
(* ends early, transfers that fail and files that cannot grow.  Regular    *)
(* files do not sleep, so a call is one step.                              *)
(*                                                                         *)
(* A call is an operator from the state to its result: the new state, the  *)
(* return value and the bytes that reached the user.                       *)
(***************************************************************************)
EXTENDS Integers, Sequences, SequencesExt, FiniteSetsExt

CONSTANTS
  File,               \* open files
  Inode,              \* Inode[f]: the file that is open as f
  O_APPEND,           \* files opened for appending
  SYS_FILE_BUF_SIZE,  \* bytes of the buffer of read and write
  VFS_COPY_BUF_SIZE,  \* bytes of the buffer of sendfile
  MaxSize,            \* bytes a file can have
  MaxPos,             \* positions that programs seek to
  Lens,               \* lengths that programs ask for
  Bad                 \* transfers of a call that may fail; 0: none

VARIABLE io   \* io.data: the contents of inodes; io.pos: f_pos of open files

EIO == -5
EFAULT == -14
EFBIG == -27
EINVAL == -22

\* bad is the number of the transfer that fails, counted from the current one.
With(s, bad) == [data |-> s.data, pos |-> s.pos, bad |-> bad]
Without(s) == [data |-> s.data, pos |-> s.pos]
Moved(s) == [s EXCEPT !.bad = IF @ = 0 THEN 0 ELSE @ - 1]

Result(s, ret, got, at) == [s |-> s, ret |-> ret, got |-> got, at |-> at]

\* The k-th byte that a program writes.
Byte(k) == 1 + (k % 2)
Bytes(from, n) == [k \in 1..n |-> Byte(from + k - 1)]

\* Bytes put into a file at a position; a gap reads as zeros.
Overwrite(data, at, bytes) ==
  [k \in 1..Max({Len(data), at + Len(bytes)}) |->
     IF k > at /\ k <= at + Len(bytes) THEN bytes[k - at]
     ELSE IF k <= Len(data) THEN data[k] ELSE 0]

-----------------------------------------------------------------------------
(* One transfer (read_write.c).  at < 0 stands for no offset argument.     *)

vfs_read(s, f, count) ==
  LET data == s.data[Inode[f]]
      n == Max({0, Min({count, Len(data) - s.pos[f]})})
  IN IF s.bad = 1 THEN Result(Moved(s), EIO, <<>>, -1)
     ELSE Result([Moved(s) EXCEPT !.pos[f] = @ + n], n, SubSeq(data, s.pos[f] + 1, s.pos[f] + n), -1)

WriteAt(s, f, bytes) ==
  LET n == Min({Len(bytes), MaxSize - s.pos[f]})
  IN IF s.bad = 1 THEN Result(Moved(s), EIO, <<>>, -1)
     ELSE IF s.pos[f] >= MaxSize THEN Result(Moved(s), EFBIG, <<>>, -1)
     ELSE Result([Moved(s) EXCEPT !.data[Inode[f]] = Overwrite(@, s.pos[f], SubSeq(bytes, 1, n)),
                                  !.pos[f] = @ + n], n, <<>>, -1)

vfs_write(s, f, bytes) ==
  IF f \in O_APPEND THEN WriteAt([s EXCEPT !.pos[f] = Len(s.data[Inode[f]])], f, bytes)
  ELSE WriteAt(s, f, bytes)


\* With an offset the position of the file is borrowed and put back.
Restored(r, f, old, at) ==
  [r EXCEPT !.at = IF r.ret > 0 THEN r.s.pos[f] ELSE at, !.s.pos[f] = old]

vfs_read_pos(s, f, count, at) ==
  IF at < 0 THEN vfs_read(s, f, count)
  ELSE Restored(vfs_read([s EXCEPT !.pos[f] = at], f, count), f, s.pos[f], at)

vfs_write_pos(s, f, bytes, at) ==
  IF at < 0 THEN vfs_write(s, f, bytes)
  ELSE Restored(vfs_write([s EXCEPT !.pos[f] = at], f, bytes), f, s.pos[f], at)

vfs_rewind_pos(s, f, n) == [s EXCEPT !.pos[f] = @ - n]

-----------------------------------------------------------------------------
(* The loops of read and write.  The first good bytes of the user's memory *)
(* can be accessed.                                                        *)

RECURSIVE ReadOn(_, _, _, _, _, _, _)

\* One piece was read; what did not reach the user is read again next time.
Delivered(r, f, len, good, chunk, done, got) ==
  LET reach == Min({r.ret, Max({0, good - done})})
      all == got \o SubSeq(r.got, 1, reach)
  IN IF r.ret < 0 THEN Result(r.s, r.ret, got, r.at)
     ELSE IF reach < r.ret
     THEN Result(IF r.at < 0 THEN vfs_rewind_pos(r.s, f, r.ret - reach) ELSE r.s,
                 IF done + reach > 0 THEN done + reach ELSE EFAULT, all, r.at)
     ELSE IF r.ret < chunk THEN Result(r.s, done + r.ret, all, r.at)
     ELSE ReadOn(r.s, f, len, good, r.at, done + r.ret, all)

ReadOn(s, f, len, good, at, done, got) ==
  IF done = len THEN Result(s, done, got, at)
  ELSE LET chunk == Min({len - done, SYS_FILE_BUF_SIZE})
       IN Delivered(vfs_read_pos(s, f, chunk, at), f, len, good, chunk, done, got)

read_user_buffer_pos(s, f, len, good, at) == ReadOn(s, f, len, good, at, 0, <<>>)

RECURSIVE WriteOn(_, _, _, _, _, _, _)

Stored(r, f, from, len, good, chunk, done) ==
  IF r.ret < 0 THEN Result(r.s, IF done > 0 THEN done ELSE r.ret, <<>>, r.at)
  ELSE IF r.ret < chunk THEN Result(r.s, done + r.ret, <<>>, r.at)
  ELSE WriteOn(r.s, f, from, len, good, r.at, done + r.ret)

WriteOn(s, f, from, len, good, at, done) ==
  LET chunk == Min({len - done, SYS_FILE_BUF_SIZE})
  IN IF done = len THEN Result(s, done, <<>>, at)
     ELSE IF done + chunk > good THEN Result(s, IF done > 0 THEN done ELSE EFAULT, <<>>, at)
     ELSE Stored(vfs_write_pos(s, f, Bytes(from + done, chunk), at), f, from, len, good, chunk, done)

\* The bytes from the from-th on of what the program writes.
write_user_buffer_pos(s, f, from, len, good, at) == WriteOn(s, f, from, len, good, at, 0)

\* Vectors: each part until it is full, nothing more comes, or an error; what
\* was moved before an error counts.
RECURSIVE VecOn(_, _, _, _, _, _, _, _)
Part(r, f, lens, good, write, total, done, got) ==
  IF r.ret < 0 THEN Result(r.s, IF total > 0 THEN total ELSE r.ret, got, -1)
  ELSE IF r.ret = 0 THEN Result(r.s, total, got, -1)
  ELSE VecOn(r.s, f, lens, good, write, total + r.ret, done + r.ret, got \o r.got)

VecOn(s, f, lens, good, write, total, done, got) ==
  IF lens = <<>> THEN Result(s, total, got, -1)
  ELSE IF done = Head(lens) THEN VecOn(s, f, Tail(lens), good, write, total, 0, got)
  ELSE Part(IF write THEN write_user_buffer_pos(s, f, total, Head(lens) - done, good - total, -1)
            ELSE read_user_buffer_pos(s, f, Head(lens) - done, good - total, -1),
            f, lens, good, write, total, done, got)

rw_iovec(s, f, lens, good, write) == VecOn(s, f, lens, good, write, 0, 0, <<>>)

-----------------------------------------------------------------------------
(* sendfile and splice: pieces from one file to another.                   *)

RECURSIVE vfs_copy_file_buffered(_, _, _, _, _, _, _)

\* Fault: what could not be written is not given back to the input.
GiveBack_none(s, in, at, n) == <<s, at>>
\* What was read and not written is given back to the input.
GiveBack(s, in, at, n) == IF at < 0 THEN <<vfs_rewind_pos(s, in, n), at>> ELSE <<s, at - n>>

Written(w, r, back, out, in, len, total) ==
  IF w.ret <= 0
  THEN Result(back[1], IF w.ret = 0 \/ total > 0 THEN total ELSE w.ret, <<>>, back[2])
  ELSE IF w.ret < r.ret THEN Result(back[1], total + w.ret, <<>>, back[2])
  ELSE vfs_copy_file_buffered(w.s, out, in, r.at, w.at, len - w.ret, total + w.ret)

Fetched(r, out, in, out_at, len, total) ==
  IF r.ret < 0 THEN Result(r.s, IF total > 0 THEN total ELSE r.ret, <<>>, r.at)
  ELSE IF r.ret = 0 THEN Result(r.s, total, <<>>, r.at)
  ELSE LET w == vfs_write_pos(r.s, out, r.got, out_at)
       IN Written(w, r, GiveBack(w.s, in, r.at, r.ret - Max({0, w.ret})), out, in, len, total)

vfs_copy_file_buffered(s, out, in, in_at, out_at, len, total) ==
  IF len = 0 THEN Result(s, total, <<>>, in_at)
  ELSE Fetched(vfs_read_pos(s, in, Min({len, VFS_COPY_BUF_SIZE}), in_at), out, in, out_at, len, total)

sys_sendfile(s, out, in, at, len) ==
  IF out \in O_APPEND THEN Result(s, EINVAL, <<>>, at)
  ELSE vfs_copy_file_buffered(s, out, in, at, -1, len, 0)

-----------------------------------------------------------------------------
(* Calls.                                                                  *)

At == {-1} \cup 0..1

Reads == [op : {"read"}, f : File, at : At, len : Lens, good : 0..Max(Lens), bad : Bad]
Writes == [op : {"write"}, f : File, at : At, len : Lens, good : 0..Max(Lens), bad : Bad]
Vectors == [op : {"readv", "writev"}, f : File, len : {<<1, 2>>, <<3, 1>>}, good : {2, 4}, bad : Bad]
Copies == {c \in [op : {"sendfile"}, f : File, in : File, at : At, len : Lens, bad : Bad] :
             Inode[c.f] # Inode[c.in]}

Outcome(c) ==
  LET s == With(io, c.bad) IN
  CASE c.op = "read" -> read_user_buffer_pos(s, c.f, c.len, c.good, c.at)
    [] c.op = "write" -> write_user_buffer_pos(s, c.f, 0, c.len, c.good, c.at)
    [] c.op = "readv" -> rw_iovec(s, c.f, c.len, c.good, FALSE)
    [] c.op = "writev" -> rw_iovec(s, c.f, c.len, c.good, TRUE)
    [] c.op = "sendfile" -> sys_sendfile(s, c.f, c.in, c.at, c.len)

sys_read == \E c \in Reads : io' = Without(Outcome(c).s)
sys_write == \E c \in Writes : io' = Without(Outcome(c).s)
sys_vector == \E c \in Vectors : io' = Without(Outcome(c).s)
Sendfile == \E c \in Copies : io' = Without(Outcome(c).s)
vfs_llseek == \E f \in File, p \in 0..MaxPos : io' = [io EXCEPT !.pos[f] = p]

Init == io = [data |-> [i \in {Inode[f] : f \in File} |-> <<>>], pos |-> [f \in File |-> 0]]

Next == sys_read \/ sys_write \/ sys_vector \/ Sendfile \/ vfs_llseek

Spec == Init /\ [][Next]_io

-----------------------------------------------------------------------------
(* Properties.                                                             *)

Content(s, f) == s.data[Inode[f]]
SamePos(r, fs) == \A f \in fs : r.s.pos[f] = io.pos[f]
SumOf(c) == IF c.op \in {"readv", "writev"} THEN c.len[1] + c.len[2] ELSE c.len
OffsetOf(c) == IF c.op \in {"readv", "writev"} THEN -1 ELSE c.at

\* A read returns the bytes at its position, as many as it says; without a
\* failed transfer it is short only at the end of the file or of the memory;
\* the position moves by what was returned, and not at all with an offset.
ReadExact(c, r) ==
  LET from == IF OffsetOf(c) < 0 THEN io.pos[c.f] ELSE OffsetOf(c)
      there == Max({0, Len(Content(io, c.f)) - from})
  IN /\ r.s.data = io.data /\ SamePos(r, File \ {c.f})
     /\ OffsetOf(c) >= 0 => SamePos(r, {c.f})
     /\ r.ret >= 0 => /\ r.got = SubSeq(Content(io, c.f), from + 1, from + r.ret)
                      /\ OffsetOf(c) < 0 => r.s.pos[c.f] = from + r.ret
     /\ c.bad = 0 => r.ret = IF c.good = 0 /\ there > 0 THEN EFAULT ELSE Min({SumOf(c), there, c.good})

\* A write changes the bytes that it reports and no others, even when it fails
\* half way, at the position or at the end of a file opened for appending.
WriteExact(c, r) ==
  LET from == IF c.f \in O_APPEND THEN Len(Content(io, c.f))
              ELSE IF OffsetOf(c) < 0 THEN io.pos[c.f] ELSE OffsetOf(c)
      n == Max({0, r.ret})
  IN /\ SamePos(r, File \ {c.f})
     /\ r.s.data = [io.data EXCEPT ![Inode[c.f]] = IF n = 0 THEN @ ELSE Overwrite(@, from, Bytes(0, n))]
     /\ OffsetOf(c) >= 0 => SamePos(r, {c.f})
     /\ OffsetOf(c) < 0 /\ r.ret > 0 => r.s.pos[c.f] = from + r.ret
     /\ c.bad = 0 /\ c.good >= SumOf(c) /\ from + SumOf(c) <= MaxSize => r.ret = SumOf(c)

\* sendfile moves what it reports from the position of the input to that of the
\* output, and the input continues behind the last byte that was written.
CopyExact(c, r) ==
  LET from == IF c.at < 0 THEN io.pos[c.in] ELSE c.at
      n == Max({0, r.ret})
      moved == SubSeq(Content(io, c.in), from + 1, from + n)
  IN /\ SamePos(r, File \ {c.f, c.in})
     /\ Len(moved) = n
     /\ r.s.data = [io.data EXCEPT ![Inode[c.f]] = IF n = 0 THEN @ ELSE Overwrite(@, io.pos[c.f], moved)]
     /\ r.s.pos[c.f] = io.pos[c.f] + n
     /\ IF c.at < 0 THEN r.s.pos[c.in] = from + n
        ELSE r.s.pos[c.in] = io.pos[c.in] /\ r.at = from + n

=============================================================================
