------------------------------ MODULE Console ------------------------------
(***************************************************************************)
(* The console terminal (kernel/tty_console.c): a kernel thread takes      *)
(* characters from the UART through the line discipline into one buffer,   *)
(* and tasks read from it.  A character is one of the letters or one of    *)
(* the special characters of the terminal's settings.                      *)
(***************************************************************************)
EXTENDS Integers, Sequences, SequencesExt, FiniteSets, FiniteSetsExt

CONSTANTS
  Reader,      \* tasks that read
  Typed,       \* characters that are typed: a letter, or one of "cr", "nl",
               \* "eof", "erase", "kill", "intr"
  CONSOLE_INPUT_SIZE,
  Modes,       \* the settings: canonical, signals, echo, and VMIN
  Counts,      \* sizes of reads
  MaxTyped     \* bound: characters typed

VARIABLES
  term,     \* the settings
  input,    \* data, how much of it is read, end of file, record ready
  reader,   \* reader[r]: "out", "asleep" or "awake" and the size wanted
  typed,    \* what the thread has taken from the UART
  got       \* what readers were given, "EOF" for an end of file
            \* (both are kept where the settings never change)

vars == <<term, input, reader, typed, got>>

Fixed == Cardinality(Modes) = 1
Kept(old, new) == IF Fixed THEN old \o new ELSE old

CONSOLE_ECHO_SIZE == 3 * CONSOLE_INPUT_SIZE

Special == {"eof", "erase", "kill", "intr"}
Empty == [data |-> <<>>, pos |-> 0, eof |-> FALSE, ready |-> FALSE]
NotReading == [st |-> "out", count |-> 0]

available(I) == Len(I.data) - I.pos

\* What has been read moves out of the buffer.
compact(I) == [I EXCEPT !.data = SubSeq(@, I.pos + 1, Len(@)), !.pos = 0]

\* ICRNL.
translate(c) == IF c = "cr" THEN "nl" ELSE c

\* Characters echoed for c: a new line is two of them, an erased one three.
echo(m, c, len) ==
  IF ~m.echo THEN 0
  ELSE IF m.canon /\ c = "erase" THEN (IF len > 0 THEN 3 ELSE 0)
  ELSE IF m.canon /\ c = "kill" THEN 3 * len
  ELSE IF m.canon /\ c = "eof" THEN 0
  ELSE IF c = "nl" THEN 2 ELSE 1

-----------------------------------------------------------------------------
(* The line discipline: what becomes of the buffer.                        *)

Flushed(I) == Empty

\* Fault: a full line also loses the end of the record.
canonical_full(I, c) ==
  LET len == Len(I.data)
      kept == IF len + 1 < CONSOLE_INPUT_SIZE THEN Append(I.data, c) ELSE I.data
  IN CASE c = "eof" -> IF len = 0 THEN [I EXCEPT !.eof = TRUE] ELSE [I EXCEPT !.ready = TRUE]
       [] c = "erase" -> IF len = 0 THEN I ELSE [I EXCEPT !.data = SubSeq(@, 1, len - 1)]
       [] c = "kill" -> [I EXCEPT !.data = <<>>]
       [] OTHER -> [I EXCEPT !.data = kept, !.ready = (c = "nl" /\ kept # I.data)]

console_canonical_accept(I, c) ==
  LET len == Len(I.data)
      kept == IF len + 1 < CONSOLE_INPUT_SIZE THEN Append(I.data, c) ELSE I.data
  IN CASE c = "eof" -> IF len = 0 THEN [I EXCEPT !.eof = TRUE] ELSE [I EXCEPT !.ready = TRUE]
       [] c = "erase" -> IF len = 0 THEN I ELSE [I EXCEPT !.data = SubSeq(@, 1, len - 1)]
       [] c = "kill" -> [I EXCEPT !.data = <<>>]
       [] OTHER -> [I EXCEPT !.data = kept, !.ready = @ \/ c = "nl"]

console_raw_accept(I, c) ==
  IF Len(I.data) < CONSOLE_INPUT_SIZE THEN [I EXCEPT !.data = Append(@, c)] ELSE I

console_input_accept(I, m, c) ==
  IF m.isig /\ c = "intr" THEN Flushed(I)
  ELSE IF m.canon THEN console_canonical_accept(compact(I), translate(c))
  ELSE console_raw_accept(compact(I), translate(c))

console_input_blocks_pump(I, m) ==
  \/ m.canon /\ (I.ready \/ I.eof)
  \/ ~m.canon /\ Len(compact(I).data) = CONSOLE_INPUT_SIZE

Wakes(I, J, m) ==
  IF m.canon THEN (J.ready /\ ~I.ready) \/ (J.eof /\ ~I.eof)
  ELSE Len(J.data) > Len(compact(I).data)

WakeAll(R) == [r \in Reader |-> IF R[r].st = "asleep" THEN [R[r] EXCEPT !.st = "awake"] ELSE R[r]]

\* The thread takes one character, unless the discipline is waiting for a reader.
console_input_thread(c) ==
  /\ Len(typed) < MaxTyped
  /\ ~console_input_blocks_pump(input, term)
  /\ input' = console_input_accept(input, term, c)
  /\ reader' = IF Wakes(input, input', term) THEN WakeAll(reader) ELSE reader
  /\ typed' = Kept(typed, <<c>>)
  /\ UNCHANGED <<term, got>>

-----------------------------------------------------------------------------
(* Readers.                                                                *)

vmin(m, count) == Min({IF m.vmin = 0 THEN 1 ELSE m.vmin, count})

console_input_readable(I, m, count) ==
  \/ I.eof
  \/ m.canon /\ I.ready /\ available(I) > 0
  \/ ~m.canon /\ available(I) >= vmin(m, count)

console_input_pollable(I, m) ==
  I.eof \/ (available(I) > 0 /\ (m.canon => I.ready))

\* Fault: the mark of a finished record stays.
console_copy_pending_marked(I, count) ==
  LET n == Min({available(I), count})
  IN IF I.pos + n = Len(I.data) THEN [I EXCEPT !.data = <<>>, !.pos = 0]
     ELSE [I EXCEPT !.pos = @ + n]

console_copy_pending(I, count) ==
  LET n == Min({available(I), count})
  IN IF I.pos + n = Len(I.data) THEN [I EXCEPT !.data = <<>>, !.pos = 0, !.ready = FALSE]
     ELSE [I EXCEPT !.pos = @ + n]

Copied(I, count) == SubSeq(I.data, I.pos + 1, I.pos + Min({available(I), count}))

\* A read whose condition holds: data first, then the end of file.
Finish(r, count) ==
  /\ IF available(input) > 0
     THEN /\ input' = console_copy_pending(input, count)
          /\ got' = Kept(got, Copied(input, count))
     ELSE /\ input' = [input EXCEPT !.eof = FALSE]
          /\ got' = Kept(got, <<"EOF">>)
  /\ reader' = [reader EXCEPT ![r] = NotReading]
  /\ UNCHANGED <<term, typed>>

console_read(r, count) ==
  /\ reader[r].st = "out"
  /\ \/ console_input_readable(input, term, count) /\ Finish(r, count)
     \/ /\ ~console_input_readable(input, term, count)
        /\ reader' = [reader EXCEPT ![r] = [st |-> "asleep", count |-> count]]
        /\ UNCHANGED <<term, input, typed, got>>

\* A reader that was woken looks again.
Resume(r) ==
  /\ reader[r].st = "awake"
  /\ \/ console_input_readable(input, term, reader[r].count) /\ Finish(r, reader[r].count)
     \/ /\ ~console_input_readable(input, term, reader[r].count)
        /\ reader' = [reader EXCEPT ![r].st = "asleep"]
        /\ UNCHANGED <<term, input, typed, got>>

\* A signal ends the wait; without line editing, what there is goes to the reader.
Interrupted(r) ==
  /\ reader[r].st = "asleep"
  /\ \/ ~term.canon /\ available(input) > 0 /\ Finish(r, reader[r].count)
     \/ /\ term.canon \/ available(input) = 0
        /\ reader' = [reader EXCEPT ![r] = NotReading]
        /\ UNCHANGED <<term, input, typed, got>>

\* TCSETS, TCSETSW and TCSETSF: nothing is flushed.
console_ioctl(m) ==
  /\ m # term
  /\ term' = m
  /\ reader' = WakeAll(reader)
  /\ UNCHANGED <<input, typed, got>>

Init ==
  /\ term \in Modes
  /\ input = Empty
  /\ reader = [r \in Reader |-> NotReading]
  /\ typed = <<>>
  /\ got = <<>>

Next ==
  \/ \E c \in Typed : console_input_thread(c)
  \/ \E m \in Modes : console_ioctl(m)
  \/ \E r \in Reader : Resume(r) \/ Interrupted(r) \/ \E n \in Counts : console_read(r, n)

Spec == Init /\ [][Next]_vars

-----------------------------------------------------------------------------
(* Properties.                                                             *)

\* What the characters typed so far amount to: finished records and the line
\* that is being edited.
Edit(s, k) ==
  LET c == translate(k)
      room == Len(s.line) + 1 < CONSOLE_INPUT_SIZE
      line == IF room THEN Append(s.line, c) ELSE s.line
  IN CASE term.isig /\ c = "intr" -> [s EXCEPT !.line = <<>>]
       [] c = "eof" -> [done |-> s.done \o (IF s.line = <<>> THEN <<"EOF">> ELSE s.line), line |-> <<>>]
       [] c = "erase" -> [s EXCEPT !.line = IF @ = <<>> THEN @ ELSE Front(@)]
       [] c = "kill" -> [s EXCEPT !.line = <<>>]
       [] c = "nl" -> [done |-> s.done \o line, line |-> <<>>]
       [] OTHER -> [s EXCEPT !.line = line]

Edited == FoldLeft(Edit, [done |-> <<>>, line |-> <<>>], typed)

Rest(I) == SubSeq(I.data, I.pos + 1, Len(I.data))

\* With line editing, readers get exactly the finished records, in the order
\* typed, each once however the reads cut them, and never a character of the line
\* that can still be edited.  Without it they get every character typed.
RecordsExact ==
  /\ Fixed /\ term.canon =>
       IF input.ready \/ input.eof
       THEN /\ Edited.done = got \o Rest(input) \o (IF input.eof THEN <<"EOF">> ELSE <<>>)
            /\ Edited.line = <<>>
       ELSE Edited.done = got /\ Edited.line = Rest(input)
  /\ Fixed /\ ~term.canon /\ ~term.isig =>
       got \o Rest(input) = [k \in DOMAIN typed |-> translate(typed[k])]

\* Nobody sleeps with input to read, and when the thread holds characters back, a
\* read of any size would find input: it never waits for a reader that waits for
\* it, also when the settings change in between.
ConsoleNoDeadlock ==
  /\ \A r \in Reader : reader[r].st = "asleep" =>
       ~console_input_readable(input, term, reader[r].count)
  /\ console_input_blocks_pump(input, term) =>
       /\ \A n \in 1 .. CONSOLE_INPUT_SIZE : console_input_readable(input, term, n)
       /\ console_input_pollable(input, term)

\* The echo of one character, even of a kill, fits the echo buffer; and the text
\* fits the input buffer.
EchoFits ==
  /\ Len(input.data) <= CONSOLE_INPUT_SIZE
  /\ \A c \in Typed : echo(term, translate(c), Len(compact(input).data)) <= CONSOLE_ECHO_SIZE
=============================================================================
