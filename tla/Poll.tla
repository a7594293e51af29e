-------------------------------- MODULE Poll --------------------------------
(***************************************************************************)
(* ppoll, pselect and epoll (syscall/sys_file_poll.c, fs/vfs/eventpoll.c): *)
(* tasks wait for events of files, by descriptor or through the interest   *)
(* list of an eventpoll file, while others close descriptors and change    *)
(* the list.  A waiter works on a snapshot of what it waits for, holds a   *)
(* reference to each file in it, and goes to sleep in the same step as its *)
(* last check; wait_for itself is the subject of WaitQueue.                *)
(*                                                                         *)
(* One eventpoll file is shared by all tasks.  Whether its generation is   *)
(* still the one of a snapshot is kept as a flag.  Files wake all of their *)
(* waiters when they become ready.                                         *)
(***************************************************************************)
EXTENDS Integers, Sequences, SequencesExt, FiniteSets, FiniteSetsExt

CONSTANTS
  Task,      \* the tasks that wait
  Fd,        \* descriptors of the table that the tasks share
  File,      \* files that can be polled, numbers from 1
  NR_OPEN,   \* items in a snapshot
  Calls      \* which of ppoll, pselect and epoll the tasks make

VARIABLES
  fd,       \* fd[n]: the file of a descriptor, 0 for none
  epfd,     \* the descriptor of the eventpoll file is open
  refs,     \* refs[f]: references to a file; refs[0] to the eventpoll file
  items,    \* the interest list: descriptor, file, wanted events
  ready,    \* ready[f]: the events of a file, "in" and "hup"
  wait,     \* wait[t]: the call that t is in
  signal,   \* signal[t]: a signal that the call's mask lets through is pending
  mask      \* mask[t]: "own", "call" or "deferred": the own one returns later

vars == <<fd, epfd, refs, items, ready, wait, signal, mask>>

Want == {{}, {"in"}}
Out == [kind |-> "out", snap |-> <<>>, fresh |-> TRUE, asleep |-> FALSE]

\* Fault: the event mask of poll is taken literally.
Events_masked(item) == ready[item.file] \cap item.want
\* epoll_result_events and the mask of ppoll_scan: a hang-up is always reported.
Events(item) == ready[item.file] \cap (item.want \cup {"hup"})

ReadyOf(snap) == SelectSeq(snap, LAMBDA item : Events(item) # {})

FilesOf(snap) == [k \in DOMAIN snap |-> snap[k].file]
file_get(R, f) == [R EXCEPT ![f] = @ + 1]
file_put(R, f) == [R EXCEPT ![f] = @ - 1]
GetAll(R, snap) == FoldLeft(file_get, R, FilesOf(snap))
PutAll(R, snap) == FoldLeft(file_put, R, FilesOf(snap))

\* eventpoll_release: the last reference to the eventpoll file drops the items.
Released(R, its) == IF R[0] = 0 THEN PutAll(R, its) ELSE R
Kept(R, its) == IF R[0] = 0 THEN <<>> ELSE its

Awake(t) == ~wait[t].asleep
Idle(t) == wait[t].kind = "out"

\* Tasks that watch the files fs, or the eventpoll file, run again.
Watches(t, fs) == \E item \in ToSet(wait[t].snap) : item.file \in fs
Woken(S, W) == [t \in Task |-> IF t \in S THEN [W[t] EXCEPT !.asleep = FALSE] ELSE W[t]]

-----------------------------------------------------------------------------
(* The waiting calls.                                                      *)

\* A call ends: its references go back, and so does the mask, unless a signal
\* ended it; then the mask returns with the handler.
Return(t, R, snap, ep, why) ==
  LET R2 == IF ep THEN file_put(PutAll(R, snap), 0) ELSE PutAll(R, snap)
  IN /\ refs' = Released(R2, items)
     /\ items' = Kept(R2, items)
     /\ wait' = [wait EXCEPT ![t] = Out]
     /\ mask' = [mask EXCEPT ![t] = IF why = "EINTR" THEN "deferred" ELSE "own"]

Sleep(t, R, snap, kind) ==
  /\ refs' = R
  /\ wait' = [wait EXCEPT ![t] = [kind |-> kind, snap |-> snap, fresh |-> TRUE,
                                  asleep |-> TRUE]]
  /\ mask' = [mask EXCEPT ![t] = "call"]
  /\ UNCHANGED items

\* One round of wait_for over a snapshot: an event first, then a signal.
Check(t, R, snap, kind) ==
  \/ /\ ReadyOf(snap) # <<>>
     /\ Return(t, R, snap, kind = "epoll", "events")
  \/ /\ ReadyOf(snap) = <<>> /\ signal[t]
     /\ Return(t, R, snap, kind = "epoll", "EINTR")
  \/ /\ ReadyOf(snap) = <<>> /\ ~signal[t]
     /\ Sleep(t, R, snap, kind)

Frame == UNCHANGED <<fd, epfd, ready, signal>>

Present(s) == SelectSeq(s, LAMBDA item : item.file # 0)

\* ppoll: a descriptor that is not open is reported at once (POLLNVAL).
sys_ppoll(t) ==
  /\ Idle(t) /\ "ppoll" \in Calls /\ mask[t] = "own"
  /\ \E want \in [Fd -> Want], on \in SUBSET Fd \ {{}} :
       LET all == SetToSeq({[fd |-> n, file |-> fd[n], want |-> want[n]] : n \in on})
       IN IF ToSet(all) # ToSet(Present(all))
          THEN Return(t, GetAll(refs, Present(all)), Present(all), FALSE, "events")
          ELSE Check(t, GetAll(refs, all), all, "ppoll")
  /\ Frame

\* pselect: a descriptor that is not open is an error.
sys_pselect6(t) ==
  /\ Idle(t) /\ "pselect" \in Calls /\ mask[t] = "own"
  /\ \E on \in SUBSET Fd \ {{}} :
       LET all == SetToSeq({[fd |-> n, file |-> fd[n], want |-> {"in"}] : n \in on})
       IN IF ToSet(all) # ToSet(Present(all))
          THEN Return(t, GetAll(refs, Present(all)), Present(all), FALSE, "EBADF")
          ELSE Check(t, GetAll(refs, all), all, "pselect")
  /\ Frame

\* A snapshot of the interest list; a longer list than a table is refused.
eventpoll_wait(t, R) ==
  IF Len(items) > NR_OPEN THEN Return(t, R, <<>>, TRUE, "E2BIG")
  ELSE Check(t, GetAll(R, items), items, "epoll")

sys_epoll_pwait(t) ==
  /\ Idle(t) /\ "epoll" \in Calls /\ mask[t] = "own" /\ epfd
  /\ eventpoll_wait(t, file_get(refs, 0))
  /\ Frame

\* Fault: a waiter that is woken goes on with the snapshot it has.
Resume_stale(t) ==
  /\ ~Idle(t) /\ Awake(t)
  /\ Check(t, refs, wait[t].snap, wait[t].kind)
  /\ Frame

\* A waiter that was woken checks again; when the list has changed since its
\* snapshot, it takes a new one.
Resume(t) ==
  /\ ~Idle(t) /\ Awake(t)
  /\ IF wait[t].fresh THEN Check(t, refs, wait[t].snap, wait[t].kind)
     ELSE eventpoll_wait(t, PutAll(refs, wait[t].snap))
  /\ Frame

\* The deadline passes; an event that came first is reported.
Timeout(t) ==
  /\ ~Idle(t) /\ wait[t].asleep /\ ReadyOf(wait[t].snap) = <<>>
  /\ Return(t, refs, wait[t].snap, wait[t].kind = "epoll", "timeout")
  /\ Frame

\* The handler of the signal has run.
HandlerRuns(t) ==
  /\ Idle(t) /\ (mask[t] = "deferred" \/ signal[t])
  /\ signal' = [signal EXCEPT ![t] = FALSE]
  /\ mask' = [mask EXCEPT ![t] = "own"]
  /\ UNCHANGED <<fd, epfd, refs, items, ready, wait>>

-----------------------------------------------------------------------------
(* What other threads, which share the descriptors, do meanwhile.          *)


\* Every change of the list is a new generation and wakes all waiters.
Changed(its, R) ==
  /\ items' = its /\ refs' = R
  /\ wait' = Woken({u \in Task : wait[u].kind = "epoll"},
                   [u \in Task |-> [wait[u] EXCEPT !.fresh = @ /\ wait[u].kind # "epoll"]])
  /\ UNCHANGED <<fd, epfd, ready, signal, mask>>

Places(n) == {k \in DOMAIN items : items[k].fd = n /\ items[k].file = fd[n]}

\* EPOLL_CTL_ADD, EPOLL_CTL_MOD and EPOLL_CTL_DEL: the key is the descriptor and
\* the file that it refers to now.
eventpoll_ctl(n, want) ==
  /\ epfd /\ fd[n] # 0
  /\ \/ /\ Places(n) = {} /\ Len(items) <= NR_OPEN
        /\ Changed(Append(items, [fd |-> n, file |-> fd[n], want |-> want]), file_get(refs, fd[n]))
     \/ \E k \in Places(n) : Changed([items EXCEPT ![k].want = want], refs)
     \/ \E k \in Places(n) : Changed(RemoveAt(items, k), file_put(refs, fd[n]))

Open(n) ==
  /\ fd[n] = 0
  /\ \E f \in {g \in File : refs[g] = 0} :
       /\ \A g \in File : g < f => refs[g] # 0
       /\ fd' = [fd EXCEPT ![n] = f]
       /\ refs' = [refs EXCEPT ![f] = 1]
       /\ ready' = [ready EXCEPT ![f] = {}]
  /\ UNCHANGED <<epfd, items, wait, signal, mask>>

\* Closing a descriptor leaves the items that were added for it.
fd_close(n) ==
  /\ fd[n] # 0
  /\ fd' = [fd EXCEPT ![n] = 0]
  /\ refs' = file_put(refs, fd[n])
  /\ UNCHANGED <<epfd, items, ready, wait, signal, mask>>

epoll_create1 ==
  /\ ~epfd /\ refs[0] = 0
  /\ epfd' = TRUE
  /\ refs' = [refs EXCEPT ![0] = 1]
  /\ UNCHANGED <<fd, items, ready, wait, signal, mask>>

CloseEpoll ==
  /\ epfd
  /\ epfd' = FALSE
  /\ refs' = Released(file_put(refs, 0), items)
  /\ items' = Kept(file_put(refs, 0), items)
  /\ UNCHANGED <<fd, ready, wait, signal, mask>>

\* Something happens to a file: input comes or is read, the peer hangs up.
Happens(f, e) ==
  /\ refs[f] > 0
  /\ \/ /\ e \notin ready[f]
        /\ ready' = [ready EXCEPT ![f] = @ \cup {e}]
        /\ wait' = Woken({t \in Task : Watches(t, {f})}, wait)
     \/ /\ e = "in" /\ e \in ready[f]
        /\ ready' = [ready EXCEPT ![f] = @ \ {e}]
        /\ UNCHANGED wait
  /\ UNCHANGED <<fd, epfd, refs, items, signal, mask>>

Signal(t) ==
  /\ ~signal[t]
  /\ signal' = [signal EXCEPT ![t] = TRUE]
  /\ wait' = Woken({t}, wait)
  /\ UNCHANGED <<fd, epfd, refs, items, ready, mask>>

Init ==
  /\ fd = [n \in Fd |-> 0]
  /\ epfd = ("epoll" \in Calls)
  /\ refs = [f \in File \cup {0} |-> IF f = 0 /\ "epoll" \in Calls THEN 1 ELSE 0]
  /\ items = <<>>
  /\ ready = [f \in File |-> {}]
  /\ wait = [t \in Task |-> Out]
  /\ signal = [t \in Task |-> FALSE]
  /\ mask = [t \in Task |-> "own"]

Next ==
  \/ \E t \in Task : \/ sys_ppoll(t) \/ sys_pselect6(t) \/ sys_epoll_pwait(t) \/ Resume(t)
                     \/ Timeout(t) \/ HandlerRuns(t) \/ Signal(t)
  \/ \E n \in Fd : Open(n) \/ fd_close(n) \/ \E want \in Want : eventpoll_ctl(n, want)
  \/ epoll_create1 \/ CloseEpoll
  \/ \E f \in File, e \in {"in", "hup"} : Happens(f, e)

Spec == Init /\ [][Next]_vars

-----------------------------------------------------------------------------
(* Properties.                                                             *)

Occurs(f, s) == Cardinality({k \in DOMAIN s : s[k].file = f})

\* Descriptors, items and snapshots hold one reference each, on every path, so
\* that no waiter polls a file that was released; and a call that is over has
\* put the signal mask back or left that to the signal that ended it.
PollExact ==
  /\ \A f \in File : refs[f] = Cardinality({n \in Fd : fd[n] = f}) + Occurs(f, items)
                             + MapThenSumSet(LAMBDA t : Occurs(f, wait[t].snap), Task)
  /\ refs[0] = (IF epfd THEN 1 ELSE 0) + Cardinality({t \in Task : wait[t].kind = "epoll"})
  /\ refs[0] = 0 => items = <<>>
  /\ \A t \in Task : IF Idle(t) THEN mask[t] \in {"own", "deferred"}
                     ELSE mask[t] = "call"

=============================================================================
