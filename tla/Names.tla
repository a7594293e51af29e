-------------------------------- MODULE Names --------------------------------
(* The name space: the dentry cache (fs/vfs/dentry.c), the inode cache        *)
(* (fs/vfs/inode.c), the operations that change names                         *)
(* (fs/vfs/namei_mutation.c) and the inode operations of ext2 directories     *)
(* (fs/ext2/dir.c), over directories that are maps from names to inodes       *)
(* (module NameMap, which Ext2Dir implements).  One system call is one step:  *)
(* the block driver polls, so none of them sleeps.  A device error or a full  *)
(* disk can stop an operation at the step that `bad` names.                   *)
(* A dentry is never freed by the kernel; here one that no operation can      *)
(* reach any more is given back.  Its reference count only counts, so it is   *)
(* left out.                                                                  *)
EXTENDS Integers, FiniteSets, FiniteSetsExt

CONSTANTS
    Name, Inode, Dentry, File,
    Kind,      \* what programs create: a subset of {"reg", "lnk"}
    Bad,       \* where an operation can fail, besides "none"
    MaxLeak    \* how often one inode may lose a reference (see SameInode)

VARIABLES
    fs,        \* directories, inodes and dentries
    file,      \* the open files: [d |-> dentry, i |-> inode], 0 for none
    leak       \* references to an inode that a rename dropped unreleased

vars == <<fs, file, leak>>

ROOT == 1      \* the root's inode and its dentry

NoEntries == [n \in Name |-> 0]
Free == [kind |-> "free", nlink |-> 0, ref |-> 0]
NoDentry == [parent |-> 0, name |-> CHOOSE n \in Name : TRUE, inode |-> 0, hashed |-> FALSE]

----------------------------------------------------------------------------
(* Inodes.  An inode that is not "free" is allocated on the disk; `ref` is    *)
(* i_refcount.  One that is in the cache with no reference left and one that  *)
(* is not in the cache behave alike: iget finds or reads it.                  *)
igrab(s, i) == [s EXCEPT !.inode[i].ref = @ + 1]

Inode_forget(s, i) ==
    [s EXCEPT !.inode[i] = Free, !.entry[i] = NoEntries, !.dotdot[i] = 0]

Released(s, i) ==
    IF s.inode[i].ref = 0 /\ s.inode[i].nlink = 0 THEN Inode_forget(s, i) ELSE s


iput(s, i) ==
    IF i = 0 THEN s
    ELSE IF s.inode[i].ref = 0 THEN s
    ELSE Released([s EXCEPT !.inode[i].ref = @ - 1], i)

IsDir(s, i) == i # 0 /\ s.inode[i].kind = "dir"

(* The lowest inode number free in the bitmap, 0 for none.                    *)
ext2_alloc_inode(s) ==
    LET free == {i \in Inode : s.inode[i].kind = "free"}
    IN  IF free = {} THEN 0 ELSE Min(free)

----------------------------------------------------------------------------
(* Dentries.                                                                  *)
Hashed(s, p, n) ==
    {d \in Dentry : s.dentry[d].hashed /\ s.dentry[d].parent = p /\ s.dentry[d].name = n}

dcache_lookup(s, p, n) == IF Hashed(s, p, n) = {} THEN 0 ELSE Min(Hashed(s, p, n))

InodeOf(s, d) == IF d = 0 THEN 0 ELSE s.dentry[d].inode

(* A dentry to allocate, 0 when memory is short.                              *)
dentry_alloc(s) ==
    LET free == {d \in Dentry : s.dentry[d].parent = 0}
    IN  IF free = {} THEN 0 ELSE Min(free)

WithDentry(s, d, p, n, i, hashed) ==
    [s EXCEPT !.dentry[d] = [parent |-> p, name |-> n, inode |-> i, hashed |-> hashed]]

dcache_invalidate(s, d) == [s EXCEPT !.dentry[d].hashed = FALSE, !.dentry[d].inode = 0]

\* Fault: the parent stays.
dcache_move_name(s, d, p, n) ==
    WithDentry(s, d, s.dentry[d].parent, n, s.dentry[d].inode, TRUE)

dcache_move(s, d, p, n) == WithDentry(s, d, p, n, s.dentry[d].inode, TRUE)

(* The dentries some operation can reach: those in use, and up from them.     *)
Parents(s, D) == D \cup {s.dentry[d].parent : d \in D}
Kept(s, held) ==
    LET live == {d \in Dentry : s.dentry[d].parent # 0
                    /\ \/ d = ROOT \/ d \in held \/ s.dentry[d].inode # 0
                       \/ s.dentry[d].hashed /\ s.dentry[s.dentry[d].parent].inode # 0}
        up[k \in 0..Cardinality(Dentry)] == IF k = 0 THEN live ELSE Parents(s, up[k-1])
    IN  up[Cardinality(Dentry)]

Reclaimed(s, keep) ==
    [s EXCEPT !.dentry = [d \in Dentry |-> IF d \in keep THEN s.dentry[d] ELSE NoDentry]]

----------------------------------------------------------------------------
(* Lookup of one component: from the cache, negative entries included; else   *)
(* from the directory, and the answer, yes or no, goes into the cache.        *)
ext2_lookup(s, p, n, d, i) ==
    IF i = 0 THEN WithDentry(s, d, p, n, 0, TRUE)
    ELSE igrab(WithDentry(s, d, p, n, i, TRUE), i)

Looked(s, p, n, d) ==
    IF d = 0 THEN s ELSE ext2_lookup(s, p, n, d, s.entry[InodeOf(s, p)][n])

vfs_lookup_one_any(s, p, n) ==
    IF dcache_lookup(s, p, n) # 0 \/ ~IsDir(s, InodeOf(s, p)) THEN s
    ELSE Looked(s, p, n, dentry_alloc(s))

----------------------------------------------------------------------------
(* Directory entries; ext2_rollback_new_inode undoes the allocation, so that  *)
(* a creation that fails before its entry exists leaves nothing.              *)
ext2_add_entry(s, dir, n, i) == [s EXCEPT !.entry[dir][n] = i]
ext2_delete_entry(s, dir, n) == [s EXCEPT !.entry[dir][n] = 0]

NewInode(s, i, kind) ==
    [s EXCEPT !.inode[i] = [kind |-> kind, nlink |-> IF kind = "dir" THEN 2 ELSE 1, ref |-> 1]]

ext2_create(s, dir, n, d, i, kind) ==
    [ext2_add_entry(NewInode(s, i, kind), dir, n, i) EXCEPT !.dentry[d].inode = i]

ext2_mkdir(s, dir, n, d, i) ==
    [ext2_create(s, dir, n, d, i, "dir") EXCEPT !.dotdot[i] = dir, !.inode[dir].nlink = @ + 1]

(* mkdir when writing the parent's inode fails: the entry is there, the       *)
(* dentry does not know.                                                      *)
ext2_mkdir_unwritten(s, dir, n, d, i) ==
    [ext2_mkdir(s, dir, n, d, i) EXCEPT !.dentry[d].inode = 0]

Unnamed(s, d, i) == iput([s EXCEPT !.dentry[d].inode = 0], i)

ext2_unlink(s, dir, d, i) ==
    Unnamed([ext2_delete_entry(s, dir, s.dentry[d].name) EXCEPT !.inode[i].nlink = @ - 1], d, i)

ext2_rmdir(s, dir, d, i) ==
    Unnamed([ext2_delete_entry(s, dir, s.dentry[d].name)
                EXCEPT !.inode[i].nlink = 0, !.inode[dir].nlink = @ - 1], d, i)

ext2_link(s, dir, n, d, i) ==
    [ext2_add_entry(igrab(s, i), dir, n, i) EXCEPT !.inode[i].nlink = @ + 1, !.dentry[d].inode = i]

ext2_dir_is_empty(s, i) == s.entry[i] = NoEntries

----------------------------------------------------------------------------
(* Creation.  prepare_create_target asks the cache alone whether the name is  *)
(* taken; ext2 asks the directory.  A new dentry enters the cache only when   *)
(* all went well.                                                             *)
Target(s, p, n) == IF dcache_lookup(s, p, n) # 0 THEN dcache_lookup(s, p, n) ELSE dentry_alloc(s)

prepare_create_target(s, p, n, d) ==
    IF dcache_lookup(s, p, n) # 0 THEN s ELSE WithDentry(s, d, p, n, 0, FALSE)

dcache_insert(s, d) == [s EXCEPT !.dentry[d].hashed = TRUE]

(* vfs_init_inode_owner writes the inode; when that fails the new name is     *)
(* removed again.                                                             *)
rollback_create_target(s, dir, d, i) ==
    IF s.inode[i].kind = "dir" THEN dcache_invalidate(ext2_rmdir(s, dir, d, i), d)
    ELSE dcache_invalidate(ext2_unlink(s, dir, d, i), d)

Owned(s, dir, d, bad) ==
    IF bad = "owner" THEN rollback_create_target(s, dir, d, s.dentry[d].inode)
    ELSE dcache_insert(s, d)

----------------------------------------------------------------------------
(* The entries of a rename: i1 at the new name, "..", and the old name gone.  *)
ext2_set_dotdot(s, i, dir, moves) == IF moves THEN [s EXCEPT !.dotdot[i] = dir] ELSE s

Entered(s, i1, dir2, n2, moves) ==
    ext2_set_dotdot(ext2_add_entry(s, dir2, n2, i1), i1, dir2, moves)

(* When the old entry cannot be deleted all is put back.                      *)
rollback_new(s, i1, dir1, dir2, n2, i2, moves) ==
    ext2_add_entry(ext2_set_dotdot(s, i1, dir1, moves), dir2, n2, i2)

Replaced(s, d2, i2, dir2) ==
    IF i2 = 0 THEN s
    ELSE IF IsDir(s, i2)
         THEN Unnamed([s EXCEPT !.inode[i2].nlink = 0, !.inode[dir2].nlink = @ - 1], d2, i2)
         ELSE Unnamed([s EXCEPT !.inode[i2].nlink = @ - 1], d2, i2)

CrossDir(s, dir1, dir2, moves) ==
    IF ~moves THEN s
    ELSE [[s EXCEPT !.inode[dir1].nlink = @ - 1] EXCEPT !.inode[dir2].nlink = @ + 1]

ext2_rename(s, i1, dir1, n1, d2, i2, dir2, n2, moves, bad) ==
    IF bad = "delete"
    THEN rollback_new(Entered(s, i1, dir2, n2, moves), i1, dir1, dir2, n2, i2, moves)
    ELSE CrossDir(Replaced(ext2_delete_entry(Entered(s, i1, dir2, n2, moves), dir1, n1),
                           d2, i2, dir2), dir1, dir2, moves)

Allowed(s, i1, i2) ==
    i2 # 0 => /\ IsDir(s, i1) = IsDir(s, i2)
              /\ IsDir(s, i2) => ext2_dir_is_empty(s, i2)

\* Fault: a directory may be moved below itself.
dentry_is_ancestor_never(s, a, d) == FALSE

dentry_is_ancestor(s, a, d) ==
    LET at[k \in 0..Cardinality(Dentry)] == IF k = 0 THEN d ELSE s.dentry[at[k-1]].parent
    IN  \E k \in 0..Cardinality(Dentry) : at[k] = a

----------------------------------------------------------------------------
(* The system calls.  A call that returns early has changed nothing, or only  *)
(* what Lookup changes.                                                       *)
Dirs == {d \in Dentry : IsDir(fs, fs.dentry[d].inode)}

Held(fl) == {fl[f].d : f \in File} \ {0}

Becomes(s, fl) == fs' = Reclaimed(s, Kept(s, Held(fl)))

Init ==
    /\ fs = [entry  |-> [i \in Inode |-> NoEntries],
             dotdot |-> [i \in Inode |-> IF i = ROOT THEN ROOT ELSE 0],
             inode  |-> [i \in Inode |-> IF i = ROOT THEN [kind |-> "dir", nlink |-> 2, ref |-> 1]
                                         ELSE Free],
             dentry |-> [d \in Dentry |-> IF d = ROOT THEN [NoDentry EXCEPT !.parent = ROOT, !.inode = ROOT]
                                          ELSE NoDentry]]
    /\ file = [f \in File |-> [d |-> 0, i |-> 0]]
    /\ leak = [i \in Inode |-> 0]

Lookup(p, n) ==
    /\ Becomes(vfs_lookup_one_any(fs, p, n), file)
    /\ UNCHANGED <<file, leak>>

(* The name is free and there is a dentry and an inode for it.                *)
CanCreate(p, n) ==
    /\ Target(fs, p, n) # 0
    /\ InodeOf(fs, dcache_lookup(fs, p, n)) = 0
    /\ fs.entry[InodeOf(fs, p)][n] = 0

CreateAt(p, n, kind, bad, dir, d, i) ==
    Becomes(Owned(ext2_create(prepare_create_target(fs, p, n, d), dir, n, d, i, kind), dir, d, bad),
            file)

vfs_create_at_path(p, n, bad) ==
    /\ CanCreate(p, n) /\ ext2_alloc_inode(fs) # 0
    /\ CreateAt(p, n, "reg", bad, InodeOf(fs, p), Target(fs, p, n), ext2_alloc_inode(fs))
    /\ UNCHANGED <<file, leak>>

vfs_symlink_at_path(p, n, bad) ==
    /\ CanCreate(p, n) /\ ext2_alloc_inode(fs) # 0
    /\ CreateAt(p, n, "lnk", bad, InodeOf(fs, p), Target(fs, p, n), ext2_alloc_inode(fs))
    /\ UNCHANGED <<file, leak>>

MkdirAt(p, n, bad, dir, d, i) ==
    Becomes(IF bad = "nlink"
            THEN ext2_mkdir_unwritten(prepare_create_target(fs, p, n, d), dir, n, d, i)
            ELSE Owned(ext2_mkdir(prepare_create_target(fs, p, n, d), dir, n, d, i), dir, d, bad),
            file)

vfs_mkdir_at_path(p, n, bad) ==
    /\ CanCreate(p, n) /\ ext2_alloc_inode(fs) # 0
    /\ MkdirAt(p, n, bad, InodeOf(fs, p), Target(fs, p, n), ext2_alloc_inode(fs))
    /\ UNCHANGED <<file, leak>>

(* The old name of a link is a dentry found by lookup.                        *)
vfs_link_at_path(old, p, n) ==
    /\ InodeOf(fs, old) # 0 /\ ~IsDir(fs, InodeOf(fs, old))
    /\ CanCreate(p, n)
    /\ \E d \in {Target(fs, p, n)} :
          Becomes(dcache_insert(ext2_link(prepare_create_target(fs, p, n, d), InodeOf(fs, p), n, d,
                                          InodeOf(fs, old)), d), file)
    /\ UNCHANGED <<file, leak>>

(* unlink, and with rmdir what AT_REMOVEDIR does.                             *)
vfs_unlink_at_path(p, n) ==
    \E s \in {vfs_lookup_one_any(fs, p, n)} : \E d \in {dcache_lookup(s, p, n)} :
       /\ InodeOf(s, d) # 0 /\ ~IsDir(s, InodeOf(s, d))
       /\ Becomes(dcache_invalidate(ext2_unlink(s, InodeOf(s, p), d, InodeOf(s, d)), d), file)
       /\ UNCHANGED <<file, leak>>

vfs_rmdir_at_path(p, n) ==
    \E s \in {vfs_lookup_one_any(fs, p, n)} : \E d \in {dcache_lookup(s, p, n)} :
       /\ IsDir(s, InodeOf(s, d)) /\ ext2_dir_is_empty(s, InodeOf(s, d))
       /\ Becomes(dcache_invalidate(ext2_rmdir(s, InodeOf(s, p), d, InodeOf(s, d)), d), file)
       /\ UNCHANGED <<file, leak>>

(* Two names of one inode: ext2_rename does nothing and reports success, so   *)
(* the VFS moves the dentry and drops the other with its reference.           *)
SameInode(s, d1, d2, p2, n2, i) ==
    /\ leak[i] < MaxLeak
    /\ leak' = [leak EXCEPT ![i] = @ + 1]
    /\ Becomes(dcache_move(dcache_invalidate(s, d2), d1, p2, n2), file)

Renamed(s, bad, d1, d2, p2, n2) ==
    IF bad = "delete" THEN s ELSE dcache_move(dcache_invalidate(s, d2), d1, p2, n2)

OtherInode(s, p1, n1, p2, n2, d1, d2, i1, i2, bad) ==
    /\ Allowed(s, i1, i2)
    /\ Becomes(Renamed(ext2_rename(s, i1, InodeOf(s, p1), n1, d2, i2, InodeOf(s, p2), n2,
                                   IsDir(s, i1) /\ p1 # p2, bad), bad, d1, d2, p2, n2), file)
    /\ UNCHANGED leak

RenameAt(s, p1, n1, p2, n2, d1, d2, bad) ==
    /\ InodeOf(s, d1) # 0 /\ d2 # 0 /\ d1 # d2
    /\ IsDir(s, InodeOf(s, d1)) => ~dentry_is_ancestor(s, d1, p2)
    /\ \/ InodeOf(s, d1) = InodeOf(s, d2) /\ SameInode(s, d1, d2, p2, n2, InodeOf(s, d1))
       \/ /\ InodeOf(s, d1) # InodeOf(s, d2)
          /\ OtherInode(s, p1, n1, p2, n2, d1, d2, InodeOf(s, d1), InodeOf(s, d2), bad)
    /\ UNCHANGED file

vfs_rename_at_path(p1, n1, p2, n2, bad) ==
    \E s \in {vfs_lookup_one_any(vfs_lookup_one_any(fs, p1, n1), p2, n2)} :
       RenameAt(s, p1, n1, p2, n2, dcache_lookup(s, p1, n1), dcache_lookup(s, p2, n2), bad)

(* An open file, or a working directory, holds a dentry; a file also holds    *)
(* the inode.                                                                 *)
file_alloc_path(f, d) ==
    /\ file[f].i = 0 /\ InodeOf(fs, d) # 0
    /\ file' = [file EXCEPT ![f] = [d |-> d, i |-> InodeOf(fs, d)]]
    /\ Becomes(igrab(fs, InodeOf(fs, d)), file')
    /\ UNCHANGED leak

file_put(f) ==
    /\ file[f].i # 0
    /\ file' = [file EXCEPT ![f] = [d |-> 0, i |-> 0]]
    /\ Becomes(iput(fs, file[f].i), file')
    /\ UNCHANGED leak

Next ==
    \/ \E p \in Dirs, n \in Name :
          \/ Lookup(p, n)
          \/ \E bad \in Bad \cap {"none", "owner"} :
                \/ "reg" \in Kind /\ vfs_create_at_path(p, n, bad)
                \/ "lnk" \in Kind /\ vfs_symlink_at_path(p, n, bad)
          \/ \E bad \in Bad \cap {"none", "owner", "nlink"} : vfs_mkdir_at_path(p, n, bad)
          \/ \E old \in Dentry : vfs_link_at_path(old, p, n)
          \/ vfs_unlink_at_path(p, n)
          \/ vfs_rmdir_at_path(p, n)
          \/ \E p2 \in Dirs, n2 \in Name, bad \in Bad \cap {"none", "delete"} :
                vfs_rename_at_path(p, n, p2, n2, bad)
    \/ \E f \in File : file_put(f) \/ \E d \in Dentry : file_alloc_path(f, d)

Spec == Init /\ [][Next]_vars

----------------------------------------------------------------------------
Linked(i) == \E dir \in Inode, n \in Name : fs.entry[dir][n] = i
Links(i) == {<<dir, n>> \in Inode \X Name : fs.entry[dir][n] = i}

(* The cache tells the truth: a dentry that lookups can find has the inode    *)
(* its directory's entry has, and a negative one stands for no entry; a name  *)
(* has one dentry, and so has a directory.                                    *)
CacheCoherent ==
    \A d \in Dentry : \A p \in {fs.dentry[d].parent} :
        fs.dentry[d].hashed /\ InodeOf(fs, p) # 0 =>
           /\ fs.entry[InodeOf(fs, p)][fs.dentry[d].name] = fs.dentry[d].inode
           /\ Hashed(fs, p, fs.dentry[d].name) = {d}
           /\ \A e \in Dentry \ {d} :
                 fs.dentry[e].inode = fs.dentry[d].inode => ~IsDir(fs, fs.dentry[d].inode)

(* Link counts and references are exact, so an inode is freed exactly when    *)
(* its last name and its last user are gone.                                  *)
InodesExact ==
    \A i \in Inode :
       /\ fs.inode[i].ref = leak[i] + Cardinality({d \in Dentry : fs.dentry[d].inode = i})
                                    + Cardinality({f \in File : file[f].i = i})
       /\ fs.inode[i].kind # "free" <=> i = ROOT \/ Linked(i) \/ fs.inode[i].ref > 0
       /\ fs.inode[i].kind \in {"reg", "lnk"} => fs.inode[i].nlink = Cardinality(Links(i))
       /\ IsDir(fs, i) /\ (i = ROOT \/ Linked(i)) =>
             fs.inode[i].nlink = 2 + Cardinality({n \in Name : IsDir(fs, fs.entry[i][n])})

(* The directories form a tree: each has one name, ".." leads back to where   *)
(* that name is, and from every one of them ".." leads to the root.           *)
Up(i) == LET up[k \in 0..Cardinality(Inode)] == IF k = 0 THEN i ELSE fs.dotdot[up[k-1]]
         IN  up[Cardinality(Inode)]

DirectoriesFormTree ==
    \A i \in Inode : IsDir(fs, i) /\ Linked(i) =>
        /\ {link[1] : link \in Links(i)} = {fs.dotdot[i]}
        /\ Cardinality(Links(i)) = 1
        /\ Up(i) = ROOT
=============================================================================
