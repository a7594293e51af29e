------------------------------- MODULE Mounts -------------------------------
(* The mount table (fs/vfs/mount.c), path resolution across it                *)
(* (fs/vfs/namei.c) and the processes' root and working directories           *)
(* (fs/vfs/fs_struct.c).  Every mount makes a super block of its own, so a    *)
(* path, a mount and a dentry, is a mount and a node of that file system's    *)
(* tree.  The trees are fixed; module Names is about changing them.           *)
EXTENDS Integers, Sequences, FiniteSets, FiniteSetsExt

CONSTANTS
    Mount,        \* mounts; ROOT_MOUNT is the root file system's
    Node,         \* the nodes of a file system: [parent, name, kind, target]
    Top,          \* the root node of every file system
    Task, Fs, File,
    Paths,        \* the paths programs use: sequences of names and ".."
    Probes,       \* the paths on which the two walks are compared
    MAXSYMLINKS

VARIABLES
    mnt,          \* struct vfsmount: [used, parent, at, refs, active]
    list,         \* mount_list: the set of mounts attached
    fs,           \* struct fs_struct: [refs, cwd]; its root is the root path
    task,         \* the fs_struct of a task, 0 for none
    file          \* the path an open file holds

vars == <<mnt, list, fs, task, file>>

ROOT_MOUNT == 1
RootPath == <<ROOT_MOUNT, Top>>
NoPath == <<0, Top>>

Unused == [used |-> FALSE, parent |-> 0, at |-> Top, refs |-> 0, active |-> 0]

Kind(p) == Node[p[2]].kind
Children(n, name) == {c \in DOMAIN Node : Node[c].parent = n /\ Node[c].name = name /\ c # n}

----------------------------------------------------------------------------
(* References.                                                                *)
mntget(M, m) == [M EXCEPT ![m].refs = @ + 1]

RECURSIVE mntput(_, _)
mntput(M, m) ==
    IF m = 0 THEN M
    ELSE IF M[m].refs > 1 THEN [M EXCEPT ![m].refs = @ - 1]
    ELSE mntput([M EXCEPT ![m] = Unused], M[m].parent)

path_get(M, p) == [mntget(M, p[1]) EXCEPT ![p[1]].active = @ + 1]
path_put(M, p) == IF p[1] = 0 THEN M ELSE mntput([M EXCEPT ![p[1]].active = @ - 1], p[1])

----------------------------------------------------------------------------
(* The table.                                                                 *)
mount_find_by_mountpoint(M, L, p) == {m \in L : M[m].parent = p[1] /\ M[m].at = p[2]}

\* Fault: a mountpoint is not crossed.
vfs_follow_mount_not(M, L, p) == p

vfs_follow_mount(M, L, p) ==
    IF mount_find_by_mountpoint(M, L, p) = {} THEN p
    ELSE <<CHOOSE m \in mount_find_by_mountpoint(M, L, p) : TRUE, Top>>

mount_find_by_root(L, p) == {m \in L : m = p[1] /\ p[2] = Top}

vfs_follow_dotdot_mount(M, L, p) ==
    IF mount_find_by_root(L, p) # {} /\ p[1] # ROOT_MOUNT THEN <<M[p[1]].parent, M[p[1]].at>>
    ELSE p

(* One step up, over one mount, and on top of what is mounted there.          *)
UpFrom(M, L, p) ==
    IF Node[p[2]].parent = p[2] THEN p
    ELSE vfs_follow_mount(M, L, <<p[1], Node[p[2]].parent>>)

follow_dotdot(M, L, p) == UpFrom(M, L, vfs_follow_dotdot_mount(M, L, p))

----------------------------------------------------------------------------
(* Resolution.  A result is a path, or an error, and the number of symbolic   *)
(* links followed.                                                            *)
Found(p, depth) == [ok |-> TRUE, path |-> p, depth |-> depth]
Failed(depth) == [ok |-> FALSE, path |-> NoPath, depth |-> depth]

RECURSIVE walk_path(_, _, _, _, _, _)

(* The rest of the walk, from what the link was found to be.                  *)
AfterLink(M, L, rest, flags, r) ==
    IF ~r.ok THEN r ELSE walk_path(M, L, r.path, rest, flags, r.depth)

follow_symlink(M, L, dir, link, flags, depth) ==
    IF depth >= MAXSYMLINKS THEN Failed(depth)
    ELSE walk_path(M, L, IF Node[link[2]].target[1] = "/" THEN RootPath ELSE dir,
                   SelectSeq(Node[link[2]].target, LAMBDA c : c # "/"), flags, depth + 1)

(* The component leads to `next`; it is the last one when rest is empty.      *)
Entered(M, L, cur, next, rest, flags, depth) ==
    IF Kind(next) = "lnk" /\ ~(rest = <<>> /\ "NOFOLLOW" \in flags)
    THEN AfterLink(M, L, rest, flags, follow_symlink(M, L, cur, next, flags, depth))
    ELSE walk_path(M, L, next, rest, flags, depth)

Down(M, L, cur, name, rest, flags, depth) ==
    IF Kind(cur) # "dir" \/ Children(cur[2], name) = {} THEN Failed(depth)
    ELSE \* over the mount there, unless the caller wants the place itself
         LET c == <<cur[1], CHOOSE c \in Children(cur[2], name) : TRUE>>
         IN  Entered(M, L, cur,
                     IF rest = <<>> /\ "NO_MOUNT" \in flags THEN c ELSE vfs_follow_mount(M, L, c),
                     rest, flags, depth)

walk_path(M, L, cur, names, flags, depth) ==
    IF names = <<>> THEN Found(cur, depth)
    ELSE IF Head(names) = ".."
         THEN walk_path(M, L, follow_dotdot(M, L, cur), Tail(names), flags, depth)
         ELSE Down(M, L, cur, Head(names), Tail(names), flags, depth)

path_lookupat_path(M, L, base, names, flags) ==
    walk_path(M, L, vfs_follow_mount(M, L, base), names, flags, 0)

(* The directory a name is created in or removed from.  Unlike walk_path this *)
(* asks for a directory before it goes up.                                    *)
RECURSIVE ParentWalk(_, _, _, _, _)

ParentAfter(M, L, rest, r) ==
    IF ~r.ok THEN r ELSE ParentWalk(M, L, r.path, rest, r.depth)

ParentEntered(M, L, cur, next, rest, depth) ==
    IF Kind(next) = "lnk"
    THEN ParentAfter(M, L, rest, follow_symlink(M, L, cur, next, {}, depth))
    ELSE ParentWalk(M, L, next, rest, depth)

ParentWalk(M, L, cur, names, depth) ==
    IF Kind(cur) # "dir" THEN Failed(depth)
    ELSE IF Len(names) = 1
         THEN IF Head(names) = ".." THEN Failed(depth) ELSE Found(cur, depth)
    ELSE IF Head(names) = ".." THEN ParentWalk(M, L, follow_dotdot(M, L, cur), Tail(names), depth)
    ELSE IF Children(cur[2], Head(names)) = {} THEN Failed(depth)
    ELSE ParentEntered(M, L, cur,
            vfs_follow_mount(M, L, <<cur[1], CHOOSE c \in Children(cur[2], Head(names)) : TRUE>>),
            Tail(names), depth)

path_parent_lookupat_path(M, L, base, names) ==
    ParentWalk(M, L, vfs_follow_mount(M, L, base), names, 0)

(* The names from the root down to p.                                         *)
RECURSIVE vfs_getcwd_path(_, _)
vfs_getcwd_path(M, p) ==
    IF p = RootPath THEN <<>>
    ELSE IF p[2] = Top
         THEN Append(vfs_getcwd_path(M, <<M[p[1]].parent, Node[M[p[1]].at].parent>>),
                     Node[M[p[1]].at].name)
         ELSE Append(vfs_getcwd_path(M, <<p[1], Node[p[2]].parent>>), Node[p[2]].name)

----------------------------------------------------------------------------
NewFs == Fs \ {f \in Fs : fs[f].refs > 0}

Init ==
    /\ mnt = [m \in Mount |-> IF m = ROOT_MOUNT
                              THEN [Unused EXCEPT !.used = TRUE, !.refs = 3, !.active = 2]
                              ELSE Unused]
    /\ list = {ROOT_MOUNT}
    /\ fs = [f \in Fs |-> IF f = Min(Fs) THEN [refs |-> 1, cwd |-> RootPath]
                          ELSE [refs |-> 0, cwd |-> NoPath]]
    /\ task = [t \in Task |-> IF t = Min(Task) THEN Min(Fs) ELSE 0]
    /\ file = [f \in File |-> NoPath]

(* Where a lookup by task t starts.                                           *)
Resolve(t, names, flags) == path_lookupat_path(mnt, list, fs[task[t]].cwd, names, flags)

(* mount_add: the new mount holds its parent and is in the list.              *)
Attached(m, at) ==
    mntget([mnt EXCEPT ![m] = [used |-> TRUE, parent |-> at[1], at |-> at[2], refs |-> 1, active |-> 0]],
           at[1])

vfs_mount(t, names) ==
    /\ task[t] # 0
    /\ \E r \in {Resolve(t, names, {"NO_MOUNT"})} :
          /\ r.ok /\ Kind(r.path) = "dir"
          /\ mount_find_by_mountpoint(mnt, list, r.path) = {}
          /\ \E m \in Mount : /\ ~mnt[m].used
                              /\ \A k \in Mount : ~mnt[k].used => m <= k
                              /\ mnt' = Attached(m, r.path)
                              /\ list' = list \cup {m}
    /\ UNCHANGED <<fs, task, file>>

mount_busy(m) == mnt[m].active > 0

vfs_umount(t, names) ==
    /\ task[t] # 0
    /\ \E r \in {Resolve(t, names, {"NOFOLLOW"})} :
          /\ r.ok
          /\ \E m \in mount_find_by_root(list, r.path) :
                /\ m # ROOT_MOUNT /\ ~mount_busy(m)
                /\ list' = list \ {m}
                /\ mnt' = mntput(mnt, m)
    /\ UNCHANGED <<fs, task, file>>

(* open keeps the path it found; close gives it back.                         *)
Open(t, f, names) ==
    /\ task[t] # 0 /\ file[f] = NoPath
    /\ \E r \in {Resolve(t, names, {})} :
          /\ r.ok
          /\ file' = [file EXCEPT ![f] = r.path]
          /\ mnt' = path_get(mnt, r.path)
    /\ UNCHANGED <<list, fs, task>>

Close(f) ==
    /\ file[f] # NoPath
    /\ mnt' = path_put(mnt, file[f])
    /\ file' = [file EXCEPT ![f] = NoPath]
    /\ UNCHANGED <<list, fs, task>>

fs_set_cwd_path(t, names) ==
    /\ task[t] # 0
    /\ \E r \in {Resolve(t, names, {})} :
          /\ r.ok /\ Kind(r.path) = "dir"
          /\ mnt' = path_put(path_get(mnt, r.path), fs[task[t]].cwd)
          /\ fs' = [fs EXCEPT ![task[t]].cwd = r.path]
    /\ UNCHANGED <<list, task, file>>

(* A new task shares the fs_struct, or gets a copy that holds both paths.     *)
copy_fs(t, u, share) ==
    /\ task[t] # 0 /\ task[u] = 0
    /\ \/ /\ share
          /\ fs' = [fs EXCEPT ![task[t]].refs = @ + 1]
          /\ task' = [task EXCEPT ![u] = task[t]]
          /\ UNCHANGED mnt
       \/ /\ ~share
          /\ \E f \in NewFs : /\ \A g \in NewFs : f <= g
                               /\ fs' = [fs EXCEPT ![f] = [refs |-> 1, cwd |-> fs[task[t]].cwd]]
                               /\ task' = [task EXCEPT ![u] = f]
          /\ mnt' = path_get(path_get(mnt, RootPath), fs[task[t]].cwd)
    /\ UNCHANGED <<list, file>>

exit_fs(t) ==
    /\ task[t] # 0 /\ \E u \in Task \ {t} : task[u] # 0
    /\ task' = [task EXCEPT ![t] = 0]
    /\ \/ /\ fs[task[t]].refs > 1
          /\ fs' = [fs EXCEPT ![task[t]].refs = @ - 1]
          /\ UNCHANGED mnt
       \/ /\ fs[task[t]].refs = 1
          /\ fs' = [fs EXCEPT ![task[t]] = [refs |-> 0, cwd |-> NoPath]]
          /\ mnt' = path_put(path_put(mnt, RootPath), fs[task[t]].cwd)
    /\ UNCHANGED <<list, file>>

Next ==
    \/ \E t \in Task, names \in Paths :
          \/ vfs_mount(t, names) \/ vfs_umount(t, names) \/ fs_set_cwd_path(t, names)
          \/ \E f \in File : Open(t, f, names)
    \/ \E f \in File : Close(f)
    \/ \E t, u \in Task : \E share \in BOOLEAN : copy_fs(t, u, share)
    \/ \E t \in Task : exit_fs(t)

Spec == Init /\ [][Next]_vars

----------------------------------------------------------------------------
Users(m) ==
    Cardinality({f \in File : file[f][1] = m})
      + Cardinality({f \in Fs : fs[f].refs > 0 /\ fs[f].cwd[1] = m})
      + (IF m = ROOT_MOUNT THEN Cardinality({f \in Fs : fs[f].refs > 0}) ELSE 0)

(* mnt_active_refs counts the paths that files and processes hold, the        *)
(* reference count those, the list and the mounts below; so umount never      *)
(* takes a mount away from a user, and a mount in use is never freed.  Two    *)
(* mounts are never at one place.                                             *)
MountsExact ==
    /\ \A m \in Mount :
          /\ mnt[m].active = Users(m)
          /\ mnt[m].refs = Users(m) + Cardinality({m} \cap list)
                              + Cardinality({c \in Mount : mnt[c].used /\ mnt[c].parent = m})
          /\ Users(m) > 0 => mnt[m].used
          /\ \A k \in list : m \in list /\ k # m /\ m # ROOT_MOUNT /\ k # ROOT_MOUNT =>
                <<mnt[k].parent, mnt[k].at>> # <<mnt[m].parent, mnt[m].at>>
    /\ \A f \in Fs : fs[f].refs = Cardinality({t \in Task : task[t] = f})

(* The places p's names pass through, from p to the root.                     *)
RECURSIVE Above(_)
Above(p) ==
    {p} \cup (IF p = RootPath THEN {}
              ELSE IF p[2] = Top THEN Above(<<mnt[p[1]].parent, Node[mnt[p[1]].at].parent>>)
              ELSE Above(<<p[1], Node[p[2]].parent>>))

Visible(p) == \A q \in Above(p) : q[1] \in list /\ mount_find_by_mountpoint(mnt, list, q) = {}

(* getcwd tells the truth: unless something is mounted over the way, or a     *)
(* mount on the way is gone, walking the names it returns from the root leads *)
(* back to the same mount and directory.                                      *)
CwdResolves ==
    \A f \in Fs : fs[f].refs > 0 /\ Visible(fs[f].cwd) =>
        path_lookupat_path(mnt, list, RootPath, vfs_getcwd_path(mnt, fs[f].cwd), {})
           = Found(fs[f].cwd, 0)

(* The two walks agree: when the directory of a path's last name is found,    *)
(* looking that name up there is looking up the path.                         *)
ParentAgrees ==
    \A t \in Task, names \in Probes : task[t] # 0 =>
       LET par == path_parent_lookupat_path(mnt, list, fs[task[t]].cwd, names)
           at  == Resolve(t, names, {"NOFOLLOW"})
       IN  par.ok => /\ at.ok <=> Children(par.path[2], names[Len(names)]) # {}
                     /\ at.ok => \E c \in Children(par.path[2], names[Len(names)]) :
                                    at.path = vfs_follow_mount(mnt, list, <<par.path[1], c>>)
=============================================================================
