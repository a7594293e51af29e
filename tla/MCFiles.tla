------------------------------ MODULE MCFiles ------------------------------
(***************************************************************************)
(* Names, mounts, transfers, pipes, polling and the kernel log on small    *)
(* instances, in one state space that is the union of theirs: the first    *)
(* state picks one ("part").  The variables of Pipe stand still in its     *)
(* first state when another part is picked; those of the others are 0.     *)
(***************************************************************************)
EXTENDS Pipe

VARIABLES part,
          fs, file, leak,              \* Names, Mounts (without leak)
          mnt, list, task,             \* Mounts
          io,                          \* FileIo
          fd, epfd, refs, items, ready, wait, signal, mask,  \* Poll
          log, lock, reader, read, seen                      \* Log

nameVars == <<fs, file, leak>>
mountVars == <<mnt, list, task>>
pollVars == <<fd, epfd, refs, items, ready, wait, signal, mask>>
logVars == <<log, lock, reader, read, seen>>
otherVars == <<nameVars, mountVars, io, pollVars, logVars>>
allVars == <<part, vars, otherVars>>

NoNames == fs = 0 /\ file = 0 /\ leak = 0
NoMounts == mnt = 0 /\ list = 0 /\ task = 0
NoPoll == /\ fd = 0 /\ epfd = 0 /\ refs = 0 /\ items = 0
          /\ ready = 0 /\ wait = 0 /\ signal = 0 /\ mask = 0
NoLog == log = 0 /\ lock = 0 /\ reader = 0 /\ read = 0 /\ seen = 0

-----------------------------------------------------------------------------
(* The instances.                                                          *)

\* Two directories and a file under two names: links, renames over each other,
\* removals of what is open, lookups that fill the cache, failing devices.
N == INSTANCE Names WITH
       Name <- {"a", "b"}, Inode <- 1..3, Dentry <- 1..4, File <- {1}, Kind <- {"reg"},
       Bad <- {"none", "owner", "delete"}, MaxLeak <- 1

\* A directory in a directory, a link to it, a link to itself, and a file.
Entry(parent, name, kind, target) ==
  [parent |-> parent, name |-> name, kind |-> kind, target |-> target]
Tree == [top |-> Entry("top", "/", "dir", <<"">>), d |-> Entry("top", "d", "dir", <<"">>),
         e |-> Entry("d", "e", "dir", <<"">>), l |-> Entry("top", "l", "lnk", <<"d", "e">>),
         s |-> Entry("d", "s", "lnk", <<"s">>), f |-> Entry("top", "f", "reg", <<"">>)]
Walks == {<<"d">>, <<"l">>, <<"..">>, <<"d", "s">>}
Probed == {<<"l", "..", "e">>, <<"f", "..", "d">>, <<"..", "d", "s">>, <<"d", "e">>}

\* Two tasks that share or copy their directories.
M == INSTANCE Mounts WITH
       Mount <- {1, 2}, Node <- Tree, Top <- "top", Task <- {1, 2}, Fs <- {1, 2}, File <- {1},
       Paths <- Walks, Probes <- Probed, MAXSYMLINKS <- 2

\* Mounts on mounts.
S == INSTANCE Mounts WITH
       Mount <- {1, 2, 3}, Node <- Tree, Top <- "top", Task <- {1}, Fs <- {1}, File <- {1},
       Paths <- Walks, Probes <- Probed, MAXSYMLINKS <- 2

\* One file opened twice, once for appending; and two files.
I == INSTANCE FileIo WITH
       File <- {"a", "b"}, Inode <- [a |-> 1, b |-> 1], O_APPEND <- {"b"}, SYS_FILE_BUF_SIZE <- 2,
       VFS_COPY_BUF_SIZE <- 2, MaxSize <- 4, MaxPos <- 4, Lens <- {1, 3}, Bad <- {0, 1, 2}
J == INSTANCE FileIo WITH
       File <- {"a", "b"}, Inode <- [a |-> 1, b |-> 2], O_APPEND <- {"b"}, SYS_FILE_BUF_SIZE <- 2,
       VFS_COPY_BUF_SIZE <- 2, MaxSize <- 3, MaxPos <- 3, Lens <- {3}, Bad <- {0, 2}

\* One waiter and two descriptors; two waiters on one list.
E == INSTANCE Poll WITH
       Task <- {1}, Fd <- {1, 2}, File <- {1, 2}, NR_OPEN <- 2, Calls <- {"epoll"}
P == INSTANCE Poll WITH
       Task <- {1}, Fd <- {1, 2}, File <- {1, 2}, NR_OPEN <- 2, Calls <- {"ppoll", "pselect"}
W == INSTANCE Poll WITH
       Task <- {1, 2}, Fd <- {1}, File <- {1, 2}, NR_OPEN <- 1, Calls <- {"epoll"}

\* Two readers of a log that holds three bytes.
L == INSTANCE Log WITH
       Reader <- {1, 2}, PRINTK_LOG_BUF_SIZE <- 3, Lengths <- {1, 2, 4}, Counts <- {1, 4},
       MaxBytes <- 5, ring <- log

-----------------------------------------------------------------------------
\* Each of the others, beside a pipe that nobody uses.
OtherInit ==
  \/ part = "names" /\ N!Init /\ NoMounts /\ io = 0 /\ NoPoll /\ NoLog
  \/ part = "tasks" /\ M!Init /\ leak = 0 /\ io = 0 /\ NoPoll /\ NoLog
  \/ part = "stack" /\ S!Init /\ leak = 0 /\ io = 0 /\ NoPoll /\ NoLog
  \/ part = "append" /\ I!Init /\ NoNames /\ NoMounts /\ NoPoll /\ NoLog
  \/ part = "copy" /\ J!Init /\ NoNames /\ NoMounts /\ NoPoll /\ NoLog
  \/ part = "epoll" /\ E!Init /\ NoNames /\ NoMounts /\ io = 0 /\ NoLog
  \/ part = "poll" /\ P!Init /\ NoNames /\ NoMounts /\ io = 0 /\ NoLog
  \/ part = "waiters" /\ W!Init /\ NoNames /\ NoMounts /\ io = 0 /\ NoLog
  \/ part = "log" /\ L!Init /\ NoNames /\ NoMounts /\ io = 0 /\ NoPoll

OtherNext ==
  \/ part = "names" /\ N!Next /\ UNCHANGED <<mountVars, io, pollVars, logVars>>
  \/ part = "tasks" /\ M!Next /\ UNCHANGED <<leak, io, pollVars, logVars>>
  \/ part = "stack" /\ S!Next /\ UNCHANGED <<leak, io, pollVars, logVars>>
  \/ part = "append" /\ I!Next /\ UNCHANGED <<nameVars, mountVars, pollVars, logVars>>
  \/ part = "copy" /\ J!Next /\ UNCHANGED <<nameVars, mountVars, pollVars, logVars>>
  \/ part = "epoll" /\ E!Next /\ UNCHANGED <<nameVars, mountVars, io, logVars>>
  \/ part = "poll" /\ P!Next /\ UNCHANGED <<nameVars, mountVars, io, logVars>>
  \/ part = "waiters" /\ W!Next /\ UNCHANGED <<nameVars, mountVars, io, logVars>>
  \/ part = "log" /\ L!Next /\ UNCHANGED <<nameVars, mountVars, io, pollVars>>

UnionInit ==
  \/ /\ part = "pipe" /\ Init
     /\ NoNames /\ NoMounts /\ io = 0 /\ NoPoll /\ NoLog
  \/ Init /\ OtherInit

UnionNext ==
  \/ part = "pipe" /\ Next /\ UNCHANGED <<part, otherVars>>
  \/ OtherNext /\ UNCHANGED <<part, vars>>

UnionSpec == UnionInit /\ [][UnionNext]_allVars

-----------------------------------------------------------------------------
(* Properties.  The modules of the parts say what they mean for the code.  *)


\* The directories form one tree, whatever is renamed into what; a working
\* directory resolves to itself from the root; and the walk that stops at the
\* parent agrees with the walk to the end, across mounts, ".." and links.
PathsResolve ==
  /\ part = "names" => N!DirectoriesFormTree
  /\ part = "tasks" => M!CwdResolves /\ M!ParentAgrees
  /\ part = "stack" => S!CwdResolves /\ S!ParentAgrees


=============================================================================
