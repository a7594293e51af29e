------------------------------- MODULE Ext2 -------------------------------
(***************************************************************************)
(* The ext2 block layer of one block group: the block and inode bitmaps    *)
(* (balloc.c), the block tree of an inode with its direct, indirect and    *)
(* double indirect slots, truncation and preallocation (inode.c), and file *)
(* data (file.c).  The kernel is not preempted inside these operations, so *)
(* each is one action; a power failure may fall between any two of the     *)
(* device writes it makes, so each collects the device images it passes.   *)
(*                                                                         *)
(* Metadata goes to the device at once.  File data stays in the page cache *)
(* until it is written back: view is what the cache returns for a block,   *)
(* disk what the device keeps (CachedDisk is the promise PageCache makes). *)
(*                                                                         *)
(* A block holds PTRS words; a file is a sequence of words, and the words  *)
(* that inode i is given to write are all i: data of another file shows.   *)
(***************************************************************************)
EXTENDS Integers, FiniteSets, FiniteSetsExt, SequencesExt

CONSTANTS
  Block,             \* the block numbers of the group, without 0
  Inode,             \* the inode numbers of the group, without 0
  EXT2_NDIR_BLOCKS,  \* the direct slots of an inode
  PTRS,              \* the words of a block
  Writes,            \* the <<pos, count>> that programs write, in words
  Ranges,            \* the <<offset, len>> that programs preallocate
  Sizes,             \* the sizes that programs truncate to
  PowerFails         \* the power may fail, once

VARIABLES
  fs,    \* bitmaps, counts, inodes in core and on the device, block contents
  down,  \* "up", or the operation that a power failure interrupted
  lost,  \* a power failure happened: space may be lost and counts be stale
  file,  \* file[i]: the size, and where the file has data and not zeros
  cut,   \* the inodes that a write to a full device left data beyond EOF
  safe   \* the inodes not changed since they were last synced

vars == <<fs, down, lost, file, cut, safe>>

EXT2_IND_BLOCK == EXT2_NDIR_BLOCKS
EXT2_DIND_BLOCK == EXT2_NDIR_BLOCKS + 1
Slot == 0..EXT2_DIND_BLOCK
Word == 0..PTRS - 1

NoRaw == [i_block |-> [k \in Slot |-> 0], i_size |-> 0, i_blocks |-> 0, i_nlink |-> 0]
Zeros == [k \in Word |-> 0]
Junk == [k \in Word |-> Cardinality(Inode) + 1]

-----------------------------------------------------------------------------
(* Device writes.  s is the state inside an operation; s.log has the image *)
(* of the device after each write of it.                                   *)

Image(s) == [bitmap |-> s.bitmap, imap |-> s.imap, count |-> s.count, icount |-> s.icount,
             dinode |-> s.dinode, disk |-> s.disk]

Begin == [fs EXCEPT !.log = {Image(fs)}]
Wrote(s) == [s EXCEPT !.log = @ \cup {Image(s)}]

\* Change a block and write it to the device at once.
ext2_sync_metadata_page(s, b, data) ==
  Wrote([s EXCEPT !.view[b] = data, !.disk[b] = data])

ext2_write_inode(s, i) == Wrote([s EXCEPT !.dinode[i] = s.core[i]])

\* A page that is dropped from the cache takes its changes with it.
Dropped(s, bs) == [s EXCEPT !.view = [b \in Block |-> IF b \in bs THEN s.disk[b] ELSE @[b]]]

-----------------------------------------------------------------------------
(* Bitmaps (balloc.c).                                                     *)

\* Operations that yield a block return the pair of the new state and the
\* block, 0 when there is none.
TakeBlock(s, b) == Wrote([Wrote([s EXCEPT !.bitmap = @ \cup {b}]) EXCEPT !.count = @ - 1])


\* Take the first free block: bitmap, then counts, then zeros, each written
\* to the device.
ext2_alloc_block(s) ==
  IF s.count = 0 \/ s.bitmap = Block THEN <<s, 0>>
  ELSE LET b == Min(Block \ s.bitmap)
       IN <<ext2_sync_metadata_page(TakeBlock(s, b), b, Zeros), b>>

ext2_free_block(s, b) ==
  IF b \notin s.bitmap THEN s
  ELSE Wrote([Wrote([s EXCEPT !.bitmap = @ \ {b}]) EXCEPT !.count = @ + 1])

\* Take the first free inode number.
ext2_alloc_inode(s) ==
  IF s.icount = 0 \/ s.imap = Inode THEN <<s, 0>>
  ELSE LET i == Min(Inode \ s.imap)
       IN <<Wrote([Wrote([s EXCEPT !.imap = @ \cup {i}]) EXCEPT !.icount = @ - 1]), i>>

ext2_free_inode(s, i) ==
  IF i \notin s.imap THEN s
  ELSE Wrote([Wrote([s EXCEPT !.imap = @ \ {i}]) EXCEPT !.icount = @ + 1])

-----------------------------------------------------------------------------
(* The block tree (inode.c).                                               *)

\* A block is charged to the inode it is allocated for.
Charged(r, i) == IF r[2] = 0 THEN r ELSE <<[r[1] EXCEPT !.core[i].i_blocks = @ + 1], r[2]>>
ext2_alloc_bmap_block(s, i) == Charged(ext2_alloc_block(s), i)

\* The block that a slot of the inode names, allocated on demand.
IntoSlot(r, i, k) ==
  IF r[2] = 0 THEN r
  ELSE <<ext2_write_inode([r[1] EXCEPT !.core[i].i_block[k] = r[2]], i), r[2]>>
SlotBlock(s, i, k, create) ==
  IF s.core[i].i_block[k] # 0 \/ ~create THEN <<s, s.core[i].i_block[k]>>
  ELSE IntoSlot(ext2_alloc_bmap_block(s, i), i, k)

\* The block that a word of an indirect block names, allocated on demand:
\* the indirect block is written first, then the inode.
IntoWord(r, i, ind, w) ==
  IF r[2] = 0 THEN r
  ELSE <<ext2_write_inode(
           ext2_sync_metadata_page(r[1], ind, [r[1].view[ind] EXCEPT ![w] = r[2]]), i), r[2]>>
ext2_ind_bmap(r, i, w, create) ==
  IF r[2] = 0 THEN r
  ELSE IF r[1].view[r[2]][w] # 0 \/ ~create THEN <<r[1], r[1].view[r[2]][w]>>
  ELSE IntoWord(ext2_alloc_bmap_block(r[1], i), i, r[2], w)

\* The block of a file at an index, or 0 for a hole or a full device.
ext2_bmap(s, i, index, create) ==
  LET n == index - EXT2_NDIR_BLOCKS - PTRS IN
  IF index < EXT2_NDIR_BLOCKS THEN SlotBlock(s, i, index, create)
  ELSE IF n < 0
  THEN ext2_ind_bmap(SlotBlock(s, i, EXT2_IND_BLOCK, create), i, index - EXT2_NDIR_BLOCKS, create)
  ELSE IF n >= PTRS * PTRS THEN <<s, 0>>
  ELSE ext2_ind_bmap(ext2_ind_bmap(SlotBlock(s, i, EXT2_DIND_BLOCK, create), i, n \div PTRS, create),
                     i, n % PTRS, create)

\* The same without allocation.
WordOf(s, ind, w) == IF ind = 0 THEN 0 ELSE s.view[ind][w]
ext2_bmap_readonly(s, i, index) ==
  LET n == index - EXT2_NDIR_BLOCKS - PTRS IN
  IF index < EXT2_NDIR_BLOCKS THEN s.core[i].i_block[index]
  ELSE IF n < 0 THEN WordOf(s, s.core[i].i_block[EXT2_IND_BLOCK], index - EXT2_NDIR_BLOCKS)
  ELSE IF n >= PTRS * PTRS THEN 0
  ELSE WordOf(s, WordOf(s, s.core[i].i_block[EXT2_DIND_BLOCK], n \div PTRS), n % PTRS)

\* The blocks of a branch, in the order they are freed: children first.
RECURSIVE Branch(_, _, _)
Branch(s, b, depth) ==
  IF b = 0 THEN <<>>
  ELSE IF depth = 0 THEN <<b>>
  ELSE FlattenSeq([k \in 1..PTRS |-> Branch(s, s.view[b][k - 1], depth - 1)]) \o <<b>>

Depth(k) == IF k < EXT2_NDIR_BLOCKS THEN 0 ELSE k - EXT2_NDIR_BLOCKS + 1

\* All the blocks of an inode, in the order of its slots.
Tree(s, i) ==
  FlattenSeq([k \in 1..EXT2_DIND_BLOCK + 1 |-> Branch(s, s.core[i].i_block[k - 1], Depth(k - 1))])

ext2_inode_tree_blocks(s, i) == Len(Tree(s, i))

ext2_free_indirect_chain(s, b, depth) == FoldLeft(ext2_free_block, s, Branch(s, b, depth))

ext2_free_inode_blocks(s, i) ==
  [FoldLeft(ext2_free_block, s, Tree(s, i))
     EXCEPT !.core[i].i_block = NoRaw.i_block, !.core[i].i_blocks = 0, !.core[i].i_size = 0]

ext2_branch_span(depth) == PTRS ^ depth

\* Of keep blocks, those that fall into a branch with so many before it.
Share(keep, before, depth) == Min({ext2_branch_span(depth), Max({0, keep - before})})

\* Keep the first blocks of a branch: the state, and what its slot names
\* afterwards.  An indirect block that is left empty is freed as well.
Trimmed(s, b) ==
  IF s.view[b] = Zeros THEN <<ext2_free_block(s, b), 0>>
  ELSE <<ext2_sync_metadata_page(s, b, s.view[b]), b>>
SetWord(r, b, w) == [r[1] EXCEPT !.view[b][w] = r[2]]
RECURSIVE ext2_truncate_branch_slot(_, _, _, _)
ext2_truncate_branch_slot(s, b, depth, keep) ==
  IF b = 0 THEN <<s, 0>>
  ELSE IF keep = 0 THEN <<ext2_free_indirect_chain(s, b, depth), 0>>
  ELSE IF depth = 0 THEN <<s, b>>
  ELSE Trimmed(FoldLeft(LAMBDA t, k :
                          SetWord(ext2_truncate_branch_slot(t, t.view[b][k - 1], depth - 1,
                                    Share(keep, (k - 1) * ext2_branch_span(depth - 1), depth - 1)),
                                  b, k - 1),
                        s, [k \in 1..PTRS |-> k]), b)

-----------------------------------------------------------------------------
(* File data and size (inode.c, file.c).                                   *)

IndexMax == EXT2_NDIR_BLOCKS + PTRS + PTRS * PTRS - 1

\* The data blocks of a file at the indices from n on.
DataFrom(s, i, n) == {ext2_bmap_readonly(s, i, x) : x \in n..IndexMax} \ {0}

ZeroFrom(data, off) == [w \in Word |-> IF w >= off THEN 0 ELSE data[w]]

\* Zero the rest of the block that holds the end of file, in the cache.
ext2_zero_extend_tail(s, i, size) ==
  LET b == ext2_bmap_readonly(s, i, size \div PTRS)
  IN IF size % PTRS = 0 \/ b = 0 THEN s
     ELSE [s EXCEPT !.view[b] = ZeroFrom(@, size % PTRS)]

\* The same on the device, before the file is cut there.
ext2_zero_truncate_tail(s, i, size) ==
  LET b == ext2_bmap_readonly(s, i, size \div PTRS)
  IN IF size % PTRS = 0 \/ b = 0 THEN s
     ELSE ext2_sync_metadata_page(s, b, ZeroFrom(s.view[b], size % PTRS))

\* Cut the slots of an inode, each to the blocks of it that are kept.
Before(k) == IF k = EXT2_DIND_BLOCK THEN EXT2_NDIR_BLOCKS + PTRS ELSE k
SetSlot(r, i, k) == [r[1] EXCEPT !.core[i].i_block[k] = r[2]]
ext2_truncate_branch(s, i, k, keep) ==
  SetSlot(ext2_truncate_branch_slot(s, s.core[i].i_block[k], Depth(k), Share(keep, Before(k), Depth(k))),
          i, k)
TruncateSlots(s, i, keep) ==
  FoldLeft(LAMBDA t, k : ext2_truncate_branch(t, i, k - 1, keep), s, [k \in 1..EXT2_DIND_BLOCK + 1 |-> k])

\* The new size and the blocks that are left go to the device last.
Resized(s, i, size) ==
  ext2_write_inode([s EXCEPT !.core[i].i_size = size,
                             !.core[i].i_blocks = ext2_inode_tree_blocks(s, i)], i)

Cut(s, i, size) ==
  LET n == (size + PTRS - 1) \div PTRS
  IN TruncateSlots(ext2_zero_truncate_tail(Dropped(s, DataFrom(s, i, n)), i, size), i, n)

ext2_truncate_inode(s, i, size) ==
  IF size = s.core[i].i_size THEN s
  ELSE IF size = 0
  THEN ext2_write_inode(ext2_free_inode_blocks(Dropped(s, DataFrom(s, i, 0)), i), i)
  ELSE IF size < s.core[i].i_size THEN Resized(Cut(s, i, size), i, size)
  ELSE Resized(ext2_zero_extend_tail(s, i, s.core[i].i_size), i, size)

\* Preallocate block after block; a full device ends it with the blocks
\* that were allocated and the old size.  The result has TRUE if it is done.
Mapped(r) == <<r[1], r[2] # 0>>
Preallocated(r, i, end) ==
  IF ~r[2] THEN r
  ELSE IF end <= r[1].core[i].i_size THEN <<ext2_write_inode(r[1], i), TRUE>>
  ELSE <<ext2_write_inode([ext2_zero_extend_tail(r[1], i, r[1].core[i].i_size)
                             EXCEPT !.core[i].i_size = end], i), TRUE>>
ext2_fallocate_inode(s, i, offset, len) ==
  LET first == offset \div PTRS
      last == (offset + len - 1) \div PTRS
  IN Preallocated(FoldLeft(LAMBDA r, x : IF r[2] THEN Mapped(ext2_bmap(r[1], i, x, TRUE)) ELSE r,
                           <<s, TRUE>>, [k \in 1..last - first + 1 |-> first + k - 1]),
                  i, offset + len)

\* Write word after word into the cache.  A full device ends the write
\* early, and then the size is not updated.  The result has the number of
\* words that were written.
Put(r, i, p, done) ==
  IF r[2] = 0 THEN <<r[1], done>> ELSE <<[r[1] EXCEPT !.view[r[2]][p % PTRS] = i], done + 1>>
Extended(r, i, pos, count) ==
  IF r[2] < count \/ pos + count <= r[1].core[i].i_size THEN r
  ELSE <<ext2_write_inode([r[1] EXCEPT !.core[i].i_size = pos + count], i), count>>
ext2_write_file(s, i, pos, count) ==
  Extended(FoldLeft(LAMBDA r, p : IF r[2] < p - pos THEN r
                                  ELSE Put(ext2_bmap(r[1], i, p \div PTRS, TRUE), i, p, r[2]),
                    <<s, 0>>, [k \in 1..count |-> pos + k - 1]), i, pos, count)

\* What a read of one word returns: a hole reads as zeros.
ext2_read_file(s, i, p) ==
  LET b == ext2_bmap_readonly(s, i, p \div PTRS) IN IF b = 0 THEN 0 ELSE s.view[b][p % PTRS]

vfs_sync_file(s, i) ==
  ext2_write_inode(FoldSet(LAMBDA b, t : Wrote([t EXCEPT !.disk[b] = t.view[b]]), s, DataFrom(s, i, 0)), i)

-----------------------------------------------------------------------------
(* Actions.                                                                *)

Content(s, i) == [size |-> s.core[i].i_size,
                  data |-> {p \in 0..s.core[i].i_size - 1 : ext2_read_file(s, i, p) # 0}]

Empty == [size |-> 0, data |-> {}]

\* The device after a power failure, mounted again: only what the device
\* keeps is left, and no inode without a name is in core.
Mounted(im) ==
  [bitmap |-> im.bitmap, imap |-> im.imap, count |-> im.count, icount |-> im.icount,
   dinode |-> im.dinode, core |-> im.dinode, disk |-> im.disk, view |-> im.disk,
   open |-> {i \in im.imap : im.dinode[i].i_nlink > 0}, log |-> {}]

\* Between operations; what a free block holds is nobody's data.
Idle(s) ==
  [s EXCEPT !.log = {}, !.view = [b \in Block |-> IF b \in s.bitmap THEN @[b] ELSE Junk],
                        !.disk = [b \in Block |-> IF b \in s.bitmap THEN @[b] ELSE Junk]]

\* The operation is done, or the power fails between two of its writes.
Ends(op, s, touched) ==
  \/ fs' = Idle(s) /\ UNCHANGED <<down, lost>>
     /\ safe' = IF op = "sync" THEN safe \cup {i \in touched : s.core[i].i_nlink > 0}
                ELSE safe \ touched
  \/ /\ PowerFails /\ ~lost
     /\ \E im \in s.log : fs' = Mounted(im)
     /\ down' = op /\ lost' = TRUE
     /\ safe' = IF op = "sync" THEN safe ELSE safe \ touched

Up == down = "up"

\* Create a file: ext2_create without the directory entry.
Create ==
  /\ Up
  /\ LET a == ext2_alloc_inode(Begin)
         new == [a[1] EXCEPT !.core[a[2]] = [NoRaw EXCEPT !.i_nlink = 1], !.open = @ \cup {a[2]}]
     IN /\ a[2] # 0
        /\ Ends("create", ext2_write_inode(new, a[2]), {a[2]})
        /\ file' = [file EXCEPT ![a[2]] = Empty]
        /\ cut' = cut \ {a[2]}

\* Fault: the link count is changed in core only.
Unlink_unwritten(i) ==
  /\ Up /\ i \in fs.open /\ fs.core[i].i_nlink > 0
  /\ Ends("unlink", [Begin EXCEPT !.core[i].i_nlink = 0], {i})
  /\ UNCHANGED <<file, cut>>

\* Remove the last name of a file; it stays until it is no longer used.
Unlink(i) ==
  /\ Up /\ i \in fs.open /\ fs.core[i].i_nlink > 0
  /\ Ends("unlink", ext2_write_inode([Begin EXCEPT !.core[i].i_nlink = 0], i), {i})
  /\ UNCHANGED <<file, cut>>

ext2_evict_inode(i) ==
  /\ Up /\ i \in fs.open /\ fs.core[i].i_nlink = 0
  /\ LET s == ext2_free_inode_blocks(Dropped(Begin, DataFrom(fs, i, 0)), i)
     IN Ends("evict", [ext2_free_inode(s, i) EXCEPT !.open = @ \ {i}, !.core[i] = NoRaw], {i})
  /\ UNCHANGED <<file, cut>>

Write(i) ==
  /\ Up /\ i \in fs.open
  /\ \E w \in Writes :
       LET r == ext2_write_file(Begin, i, w[1], w[2])
           f == file[i]
       IN /\ Ends("write", r[1], {i})
          /\ file' = [file EXCEPT ![i] =
               IF r[2] < w[2]
               THEN [f EXCEPT !.data = @ \cup {p \in w[1]..w[1] + r[2] - 1 : p < f.size}]
               ELSE [size |-> Max({f.size, w[1] + w[2]}),
                     data |-> f.data \cup w[1]..w[1] + w[2] - 1]]
          /\ cut' = IF r[2] \in 1..w[2] - 1 THEN cut \cup {i} ELSE cut

Fallocate(i) ==
  /\ Up /\ i \in fs.open
  /\ \E w \in Ranges :
       LET r == ext2_fallocate_inode(Begin, i, w[1], w[2])
       IN /\ Ends("fallocate", r[1], {i})
          /\ file' = [file EXCEPT ![i].size = IF r[2] THEN Max({@, w[1] + w[2]}) ELSE @]
  /\ UNCHANGED cut

Truncate(i) ==
  /\ Up /\ i \in fs.open
  /\ \E n \in Sizes :
       /\ n # file[i].size
       /\ Ends("truncate", ext2_truncate_inode(Begin, i, n), {i})
       /\ file' = [file EXCEPT ![i] = [size |-> n, data |-> {p \in @.data : p < n}]]
       /\ cut' = IF n = 0 THEN cut \ {i} ELSE cut

Sync(i) ==
  /\ Up /\ i \in fs.open
  /\ Ends("sync", vfs_sync_file(Begin, i), {i})
  /\ UNCHANGED <<file, cut>>

\* The write-back thread, or the page cache short of pages.
Writeback ==
  /\ Up /\ PowerFails
  /\ \E b \in Block :
       /\ fs.view[b] # fs.disk[b]
       /\ fs' = [fs EXCEPT !.disk[b] = fs.view[b]]
  /\ UNCHANGED <<down, lost, file, cut, safe>>

\* Every block that a named inode on the device refers to is marked used.
Marked(s) == \A i \in s.open : ToSet(Tree(s, i)) \subseteq s.bitmap

\* ext2_mount after the failure.  An image that refers to free blocks has to
\* be repaired first, with the tools of another system.
Mount ==
  /\ ~Up /\ Marked(fs)
  /\ down' = "up"
  /\ file' = [i \in Inode |-> Content(fs, i)]
  /\ UNCHANGED <<fs, lost, cut, safe>>

Init ==
  /\ fs = [bitmap |-> {}, imap |-> {}, count |-> Cardinality(Block), icount |-> Cardinality(Inode),
           dinode |-> [i \in Inode |-> NoRaw], core |-> [i \in Inode |-> NoRaw],
           disk |-> [b \in Block |-> Junk], view |-> [b \in Block |-> Junk],
           open |-> {}, log |-> {}]
  /\ down = "up" /\ lost = FALSE
  /\ file = [i \in Inode |-> Empty]
  /\ cut = {} /\ safe = {}

Next ==
  \/ Create \/ Writeback \/ Mount
  \/ \E i \in Inode : \/ Unlink(i) \/ ext2_evict_inode(i) \/ Write(i) \/ Fallocate(i)
                      \/ Truncate(i) \/ Sync(i)

Spec == Init /\ [][Next]_vars

-----------------------------------------------------------------------------
(* Properties.                                                             *)

Trees(s) == FlattenSeq([i \in 1..Cardinality(Inode) |-> IF i \in s.open THEN Tree(s, i) ELSE <<>>])

\* No block belongs to two files or to two places of one file, and every
\* block of a file is marked used.  Unless space was lost in a power failure,
\* no other block is, the free counts and the i_blocks of every inode are
\* exact, and the inodes marked used are the ones in core.
BlocksOwned ==
  Up => /\ IsInjective(Trees(fs))
        /\ Marked(fs)
        /\ ~lost => /\ fs.bitmap = ToSet(Trees(fs))
                    /\ fs.count = Cardinality(Block \ fs.bitmap)
                    /\ fs.imap = fs.open
                    /\ fs.icount = Cardinality(Inode \ fs.imap)
                    /\ \A i \in fs.open : fs.core[i].i_blocks = Len(Tree(fs, i))

\* A file reads as what was written to it and zeros elsewhere, whatever was
\* cut off, extended, preallocated, or found on a recycled block.
ReadBack == Up => \A i \in fs.open \ cut : Content(fs, i) = file[i]

\* After a power failure at any point, no block is in two files of the
\* device, no file shows data that was never its own, blocks of files are
\* marked used unless the failure interrupted a truncation, and a file that
\* was synced and not changed since is as it was.
CrashSafe ==
  ~Up => /\ IsInjective(Trees(fs))
         /\ down # "truncate" => Marked(fs)
         /\ \A i \in fs.open : \A p \in 0..fs.core[i].i_size - 1 : ext2_read_file(fs, i, p) \in {0, i}
         /\ \A i \in safe \ cut : i \in fs.open /\ Content(fs, i) = file[i]
=============================================================================
