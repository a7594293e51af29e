------------------------------ MODULE FdTable ------------------------------
(***************************************************************************)
(* Descriptor tables and open files (fs/vfs/fdtable.c, fs/vfs/file.c):     *)
(* tasks share or copy tables, slots and calls under way share files, and  *)
(* a file is released by whoever gives its last reference back.  Each      *)
(* call is atomic up to where it sleeps, in between fd_get and file_put.   *)
(***************************************************************************)
EXTENDS Integers, FiniteSets, FiniteSetsExt, Sequences, SequencesExt

CONSTANTS
  Task,     \* tasks, numbers; the first is there from the start
  Table,    \* struct files_struct that memory can hold, numbers from 1
  File,     \* struct file that memory can hold, numbers from 1
  NR_OPEN,  \* descriptors of a table
  MaxLeak   \* calls that may be torn down

VARIABLES
  files,    \* files[t]: the table of a task, 0 if it has none
  table,    \* table[n]: its refcount, slots and close_on_exec mask
  file,     \* file[f]: its refcount, 0 if it is free
  using,    \* using[t]: the file of the call that t sleeps in, 0 for none
  leak      \* files of calls whose task was torn down

vars == <<files, table, file, using, leak>>

Fd == 0..NR_OPEN - 1
None == [refcount |-> 0, fd |-> [n \in Fd |-> 0], cloexec |-> {}]

-----------------------------------------------------------------------------
(* References.  F maps files to refcounts.                                 *)

file_get(F, f) == IF f = 0 THEN F ELSE [F EXCEPT ![f] = @ + 1]
file_put(F, f) == IF f = 0 THEN F ELSE [F EXCEPT ![f] = @ - 1]

Slots(tab) == [n \in 1..NR_OPEN |-> tab.fd[n - 1]]

\* Free structures, as sets of at most one: which one it is does not matter.
Least(S) == IF S = {} THEN {} ELSE {Min(S)}
FreeFile == Least({f \in File : file[f] = 0})
FreeTable == Least({n \in Table : table[n].refcount = 0})

\* The first unused descriptor from min on, as a set of at most one.
FreeFd(tab, min) == Least({n \in Fd : n >= min /\ tab.fd[n] = 0})

\* Put a file into a slot and set or clear its bit.
Install(tab, n, f, cloexec) ==
  [tab EXCEPT !.fd[n] = f, !.cloexec = IF cloexec THEN @ \cup {n} ELSE @ \ {n}]

\* Fault: the bit of a descriptor outlives it.
Uninstall_bit(tab, n) == [tab EXCEPT !.fd[n] = 0]
Uninstall(tab, n) == [tab EXCEPT !.fd[n] = 0, !.cloexec = @ \ {n}]

files_dup(tab) == [tab EXCEPT !.refcount = 1]
GetAll(F, tab) == FoldLeft(file_get, F, Slots(tab))

\* The last user of a table gives all of its files back.
files_put(T, n) == [T EXCEPT ![n] = IF @.refcount = 1 THEN None ELSE [@ EXCEPT !.refcount = @ - 1]]
PutAll(F, T, n) == IF T[n].refcount = 1 THEN FoldLeft(file_put, F, Slots(T[n])) ELSE F

-----------------------------------------------------------------------------
(* Calls.  A task that sleeps in one makes no other.                       *)

Runs(t) == files[t] # 0 /\ using[t] = 0
Of(t) == table[files[t]]
Set(t, tab) == table' = [table EXCEPT ![files[t]] = tab]

\* open(), without the walk: the new file goes to the first free descriptor,
\* or back when there is none.
vfs_openat_path(t, cloexec) ==
  /\ Runs(t)
  /\ \E f \in FreeFile, n \in FreeFd(Of(t), 0) :
       /\ Set(t, Install(Of(t), n, f, cloexec))
       /\ file' = [file EXCEPT ![f] = 1]
  /\ UNCHANGED <<files, using, leak>>

\* pipe2(): two files, two descriptors.  When the second descriptor is missing or
\* the result cannot be stored, both go back.
sys_pipe2(t, cloexec) ==
  /\ Runs(t)
  /\ \E f \in FreeFile :
       \E g \in Least({h \in File : h # f /\ file[h] = 0}), n \in FreeFd(Of(t), 0) :
         LET one == Install(Of(t), n, f, cloexec) IN
         \/ \E k \in FreeFd(one, 0) :
              /\ Set(t, Install(one, k, g, cloexec))
              /\ file' = [file EXCEPT ![f] = 1, ![g] = 1]
         \/ \E k \in FreeFd(one, 0) :   \* EFAULT
              /\ Set(t, Uninstall(Uninstall(Install(one, k, g, cloexec), n), k))
              /\ UNCHANGED file
         \/ /\ FreeFd(one, 0) = {}      \* EMFILE
            /\ Set(t, Uninstall(one, n))
            /\ UNCHANGED file
  /\ UNCHANGED <<files, using, leak>>

fd_close(t, n) ==
  /\ Runs(t) /\ Of(t).fd[n] # 0
  /\ Set(t, Uninstall(Of(t), n))
  /\ file' = file_put(file, Of(t).fd[n])
  /\ UNCHANGED <<files, using, leak>>

\* dup() is fd_dup_from(n, 0, FALSE).
fd_dup_from(t, n, min, cloexec) ==
  /\ Runs(t) /\ Of(t).fd[n] # 0
  /\ \E k \in FreeFd(Of(t), min) : Set(t, Install(Of(t), k, Of(t).fd[n], cloexec))
  /\ file' = file_get(file, Of(t).fd[n])
  /\ UNCHANGED <<files, using, leak>>

\* dup3(): what the new descriptor referred to before is closed.
fd_dup2(t, n, k, cloexec) ==
  /\ Runs(t) /\ Of(t).fd[n] # 0 /\ n # k
  /\ Set(t, Install(Of(t), k, Of(t).fd[n], cloexec))
  /\ file' = file_put(file_get(file, Of(t).fd[n]), Of(t).fd[k])
  /\ UNCHANGED <<files, using, leak>>

fd_set_close_on_exec(t, n, cloexec) ==
  /\ Runs(t) /\ Of(t).fd[n] # 0
  /\ Set(t, Install(Of(t), n, Of(t).fd[n], cloexec))
  /\ UNCHANGED <<files, file, using, leak>>

\* A call that sleeps on a descriptor, and its end.
fd_get(t, n) ==
  /\ Runs(t) /\ Of(t).fd[n] # 0
  /\ using' = [using EXCEPT ![t] = Of(t).fd[n]]
  /\ file' = file_get(file, Of(t).fd[n])
  /\ UNCHANGED <<files, table, leak>>

CallEnds(t) ==
  /\ using[t] # 0
  /\ using' = [using EXCEPT ![t] = 0]
  /\ file' = file_put(file, using[t])
  /\ UNCHANGED <<files, table, leak>>

\* clone() with and without CLONE_FILES.
copy_files(t, child, share) ==
  /\ Runs(t) /\ files[child] = 0
  /\ \/ /\ share
        /\ files' = [files EXCEPT ![child] = files[t]]
        /\ table' = [table EXCEPT ![files[t]].refcount = @ + 1]
        /\ UNCHANGED file
     \/ /\ ~share
        /\ \E n \in FreeTable :
             /\ files' = [files EXCEPT ![child] = n]
             /\ table' = [table EXCEPT ![n] = files_dup(Of(t))]
        /\ file' = GetAll(file, Of(t))
  /\ UNCHANGED <<using, leak>>

\* execve(): a shared table is copied first, and then the marked descriptors are
\* closed.  Without memory for the copy nothing happens.
CloseMarked(F, tab) == FoldLeft(file_put, F, [n \in 1..NR_OPEN |-> IF n - 1 \in tab.cloexec THEN tab.fd[n - 1] ELSE 0])

files_close_on_exec(tab) ==
  [tab EXCEPT !.fd = [n \in Fd |-> IF n \in tab.cloexec THEN 0 ELSE @[n]], !.cloexec = {}]

files_unshare_for_exec(t) ==
  /\ Runs(t)
  /\ \/ /\ Of(t).refcount = 1
        /\ Set(t, files_close_on_exec(Of(t)))
        /\ file' = CloseMarked(file, Of(t))
        /\ UNCHANGED files
     \/ /\ Of(t).refcount > 1
        /\ \E n \in FreeTable :
             /\ files' = [files EXCEPT ![t] = n]
             /\ table' = [files_put(table, files[t]) EXCEPT ![n] = files_close_on_exec(files_dup(Of(t)))]
        /\ file' = CloseMarked(GetAll(file, Of(t)), Of(t))
  /\ UNCHANGED <<using, leak>>

\* Exit, of all but init; a sibling may tear a task down inside its call, and the reference of
\* the call stays behind.
close_files(t) ==
  /\ files[t] # 0 /\ t # Min(Task)
  /\ using[t] # 0 => Len(leak) < MaxLeak
  /\ leak' = IF using[t] = 0 THEN leak ELSE Append(leak, using[t])
  /\ using' = [using EXCEPT ![t] = 0]
  /\ files' = [files EXCEPT ![t] = 0]
  /\ file' = PutAll(file, table, files[t])
  /\ table' = files_put(table, files[t])

Init ==
  /\ files = [t \in Task |-> IF t = Min(Task) THEN 1 ELSE 0]
  /\ table = [n \in Table |-> IF n = 1 THEN [None EXCEPT !.refcount = 1] ELSE None]
  /\ file = [f \in File |-> 0]
  /\ using = [t \in Task |-> 0]
  /\ leak = <<>>

Next ==
  \E t \in Task :
    \/ \E c \in BOOLEAN : vfs_openat_path(t, c) \/ sys_pipe2(t, c)
    \/ \E n \in Fd : fd_close(t, n) \/ fd_get(t, n)
    \/ \E n, k \in Fd, c \in BOOLEAN : fd_dup_from(t, n, k, c) \/ fd_dup2(t, n, k, c)
    \/ \E n \in Fd, c \in BOOLEAN : fd_set_close_on_exec(t, n, c)
    \/ CallEnds(t) \/ files_unshare_for_exec(t) \/ close_files(t)
    \/ \E child \in Task, share \in BOOLEAN : copy_files(t, child, share)

Spec == Init /\ [][Next]_vars

-----------------------------------------------------------------------------
(* Properties.                                                             *)

Uses(f) ==
  Cardinality({u \in Table \X Fd : table[u[1]].fd[u[2]] = f})
  + Cardinality({t \in Task : using[t] = f})
  + Cardinality({k \in DOMAIN leak : leak[k] = f})

\* A file has as many references as slots and calls refer to it, so it is
\* released when the last of them is gone and not before; a table has as many
\* as tasks; and close_on_exec marks only descriptors that are open, so that a
\* new descriptor never inherits the mark of an old one.
FdsExact ==
  /\ \A f \in File : file[f] = Uses(f)
  /\ \A n \in Table :
       /\ table[n].refcount = Cardinality({t \in Task : files[t] = n})
       /\ table[n].refcount = 0 => table[n] = None
       /\ \A d \in table[n].cloexec : table[n].fd[d] # 0

\* What a task sees of its descriptors; a table that n tasks share is one view.
Sees(t) == IF files[t] = 0 THEN None.fd ELSE Of(t).fd

\* execve never changes what another task sees, even one that shared the table,
\* and keeps exactly the descriptors that were not marked.
ExecPrivateStep ==
  \A t \in Task :
    files_unshare_for_exec(t) =>
      /\ \A u \in Task \ {t} : Sees(u)' = Sees(u)
      /\ \A n \in Fd : Sees(t)'[n] = IF n \in Of(t).cloexec THEN 0 ELSE Sees(t)[n]


ExecPrivate == [][ExecPrivateStep]_vars
=============================================================================
