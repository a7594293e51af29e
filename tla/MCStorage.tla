----------------------------- MODULE MCStorage -----------------------------
(***************************************************************************)
(* The page cache, the ext2 block layer and ext2 directories on small      *)
(* instances, in one state space that is the union of theirs: the first    *)
(* state picks one ("part"), and the variables of the others stay 0.       *)
(***************************************************************************)
EXTENDS Naturals

VARIABLES part,
          cache, pins, op,                   \* PageCache
          fs, down, lost, file, cut, safe,   \* Ext2
          data, scan                         \* Ext2Dir

cacheVars == <<cache, pins, op>>
ext2Vars == <<fs, down, lost, file, cut, safe>>
dirVars == <<data, scan>>
vars == <<part, cacheVars, ext2Vars, dirVars>>

NoCache == cache = 0 /\ pins = 0 /\ op = 0
NoExt2 == fs = 0 /\ down = 0 /\ lost = 0 /\ file = 0 /\ cut = 0 /\ safe = 0
NoDir == data = 0 /\ scan = 0

-----------------------------------------------------------------------------
(* The instances.                                                          *)

\* One page for two blocks of two words: eviction, partial truncation, two
\* transfers that may fail, pages mapped by programs.
E == INSTANCE PageCache WITH
       PAGE_CACHE_NR_PAGES <- 1, PAGE_CACHE_WB_MAX <- 2, BLOCK_SIZE <- 2, Block <- 1..2,
       Resolve <- [bdev |-> [i \in {1} |-> i], file |-> [i \in 0..1 |-> i + 1]],
       Mapped <- {1, 2}, Value <- {<<1, 1>>}, Bad <- {0, 1, 2}

\* Two pages for three blocks: runs of writeback, aliases, blocks not read
\* before they are overwritten.
R == INSTANCE PageCache WITH
       PAGE_CACHE_NR_PAGES <- 2, PAGE_CACHE_WB_MAX <- 2, BLOCK_SIZE <- 1, Block <- 1..3,
       Resolve <- [bdev |-> [i \in {2} |-> i], file |-> [i \in 0..2 |-> i + 1]],
       Mapped <- {}, Value <- {<<1>>}, Bad <- {0, 1}

\* Two files compete for three blocks.
X == INSTANCE Ext2 WITH
       Block <- 1..3, Inode <- 1..2, EXT2_NDIR_BLOCKS <- 1, PTRS <- 2,
       Writes <- {<<1, 2>>, <<6, 1>>}, Ranges <- {<<2, 3>>}, Sizes <- {0, 1}, PowerFails <- FALSE

\* One file with its indirect and double indirect blocks, and the power fails.
P == INSTANCE Ext2 WITH
       Block <- 1..4, Inode <- 1..1, EXT2_NDIR_BLOCKS <- 1, PTRS <- 2,
       Writes <- {<<1, 2>>, <<6, 1>>}, Ranges <- {<<2, 3>>}, Sizes <- {0, 1, 3}, PowerFails <- TRUE

\* Two files and recycled blocks, and the power fails.
Q == INSTANCE Ext2 WITH
       Block <- 1..3, Inode <- 1..2, EXT2_NDIR_BLOCKS <- 1, PTRS <- 2,
       Writes <- {<<0, 1>>}, Ranges <- {}, Sizes <- {0, 1}, PowerFails <- TRUE

\* A directory that grows to two blocks of three short records each.
D == INSTANCE Ext2Dir WITH
       Name <- {"a", "b", "c"}, RecLen <- [a |-> 3, b |-> 3, c |-> 4, dot |-> 3, dotdot |-> 3],
       Entry <- {<<"a", 1>>, <<"b", 1>>, <<"c", 1>>, <<"c", 2>>, <<"dotdot", 1>>, <<"dotdot", 2>>},
       BLOCK_SIZE <- 9, MaxBlocks <- 2

-----------------------------------------------------------------------------
Init ==
    \/ part = "evict" /\ E!Init /\ NoExt2 /\ NoDir
    \/ part = "runs" /\ R!Init /\ NoExt2 /\ NoDir
    \/ part = "full" /\ X!Init /\ NoCache /\ NoDir
    \/ part = "power" /\ P!Init /\ NoCache /\ NoDir
    \/ part = "recycle" /\ Q!Init /\ NoCache /\ NoDir
    \/ part = "directory" /\ D!Init /\ NoCache /\ NoExt2

Next ==
    \/ part = "evict" /\ E!Next /\ UNCHANGED <<part, ext2Vars, dirVars>>
    \/ part = "runs" /\ R!Next /\ UNCHANGED <<part, ext2Vars, dirVars>>
    \/ part = "full" /\ X!Next /\ UNCHANGED <<part, cacheVars, dirVars>>
    \/ part = "power" /\ P!Next /\ UNCHANGED <<part, cacheVars, dirVars>>
    \/ part = "recycle" /\ Q!Next /\ UNCHANGED <<part, cacheVars, dirVars>>
    \/ part = "directory" /\ D!Next /\ UNCHANGED <<part, cacheVars, ext2Vars>>

Spec == Init /\ [][Next]_vars

-----------------------------------------------------------------------------
(* Properties.                                                             *)

\* The books of storage balance after every operation, failed ones included:
\* page references, lists and clean pages of the cache (page_cache.c); blocks,
\* bitmaps, free counts and i_blocks of ext2 (balloc.c, inode.c); and the
\* records of a directory, which tile its blocks (dir.c).
StorageConsistent ==
    /\ part = "evict" => E!CacheSound
    /\ part = "runs" => R!CacheSound
    /\ part = "full" => X!BlocksOwned
    /\ part = "power" => P!BlocksOwned
    /\ part = "recycle" => Q!BlocksOwned
    /\ part = "directory" => D!RecordsTile


\* After a power failure between any two device writes, no block is in two
\* files of the device, no file shows data that was never its own, the blocks
\* of files are marked used unless a truncation was interrupted, and a file that
\* was synced and not changed since is as it was.
CrashSafe ==
    /\ part = "power" => P!CrashSafe
    /\ part = "recycle" => Q!CrashSafe

\* Pages, eviction, aliases and writeback are invisible (page_cache.c implements
\* CachedDisk), and the records of a directory are a map from names to inodes of
\* which each operation changes one name (dir.c implements NameMap).
ImplementsStorage ==
    /\ part = "evict" => E!Abstract!Init
    /\ part = "runs" => R!Abstract!Init
    /\ part = "directory" => D!Map!Init
    /\ [][/\ part = "evict" => E!Abstract!Next
          /\ part = "runs" => R!Abstract!Next
          /\ part = "directory" => D!Map!Next \/ UNCHANGED D!View]_vars
=============================================================================
