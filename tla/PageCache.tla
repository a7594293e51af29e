----------------------------- MODULE PageCache -----------------------------
(***************************************************************************)
(* The page cache (block/page_cache*.c) over a polled block device: one    *)
(* page per block, an LRU list, a dirty list, and associations that lead   *)
(* from (mapping, index) to a page.  A file and the block device are two   *)
(* mappings that may share pages.                                          *)
(*                                                                         *)
(* Every operation is an operator from a cache record to a cache record:   *)
(* the kernel is not preempted and the device is polled, so that an        *)
(* operation is atomic for other tasks, and page->writeback and the        *)
(* cache's lock are never met taken.  c.ret is the result of the last      *)
(* operation; c.bad = n makes the n-th transfer from now fail.             *)
(***************************************************************************)
EXTENDS Integers, Sequences, SequencesExt, FiniteSets

CONSTANTS
  PAGE_CACHE_NR_PAGES,  \* pages that the cache may hold
  PAGE_CACHE_WB_MAX,    \* pages in one write of the writeback
  BLOCK_SIZE,           \* words in a block
  Block,                \* blocks of the device, numbers
  Resolve,              \* Resolve[m][i]: the block of index i of mapping m
  Mapped,               \* blocks whose pages programs map
  Value,                \* what clients write: contents of a block
  Bad                   \* transfers that may fail in an operation; 0: none

VARIABLES
  cache,   \* the cache and the device
  pins,    \* pins[b]: pages that clients hold (mapped into user space)
  op       \* the last operation, as in CachedDisk

vars == <<cache, pins, op>>

Mapping == DOMAIN Resolve
Index(m) == DOMAIN Resolve[m]
BlocksOf(m) == {Resolve[m][i] : i \in Index(m)}
Zero == [u \in 1 .. BLOCK_SIZE |-> 0]

Resident(c) == DOMAIN c.page
Failed(c) == c.ret # "ok"
Return(c, r) == [c EXCEPT !.ret = r]

-----------------------------------------------------------------------------
(* The device.                                                             *)

NextTransfer(c) == [c EXCEPT !.bad = IF @ = 0 THEN 0 ELSE @ - 1]

\* One request for the pages of the blocks bs.
write_sectors(c, bs) ==
  IF c.bad = 1 THEN Return(NextTransfer(c), "EIO")
  ELSE Return([NextTransfer(c) EXCEPT
                 !.disk = [b \in Block |-> IF Contains(bs, b) THEN c.page[b].data ELSE @[b]]], "ok")

page_cache_read_physical(c, b) ==
  IF c.bad = 1 THEN Return(NextTransfer(c), "EIO")
  ELSE Return([NextTransfer(c) EXCEPT !.page[b].data = c.disk[b], !.page[b].uptodate = TRUE], "ok")

-----------------------------------------------------------------------------
(* The dirty list and the associations.                                    *)

page_cache_clear_dirty(c, b) ==
  [c EXCEPT !.page[b].dirty = FALSE, !.dirty = Remove(@, b)]

page_cache_mark_dirty(c, b) ==
  [c EXCEPT !.page[b].dirty = TRUE, !.page[b].uptodate = TRUE,
            !.dirty = IF Contains(@, b) THEN @ ELSE Append(@, b)]

\* The block whose page (m, i) leads to, as a set of at most one.
page_cache_find_mapping(c, m, i) ==
  {a.block : a \in {x \in ToSet(c.assoc) : x.map = m /\ x.index = i}}

HasMapping(c, b, m) == \E a \in ToSet(c.assoc) : a.block = b /\ a.map = m
HasPage(c, b) == \E m \in Mapping : HasMapping(c, b, m)

page_cache_assoc_add(c, m, i, b) ==
  IF page_cache_find_mapping(c, m, i) # {} THEN c
  ELSE [c EXCEPT !.assoc = Append(@, [map |-> m, index |-> i, block |-> b])]

\* The associations in gone are removed, and with the last one of a page its
\* content: what was not written is dropped.
Dissociate(c, gone) ==
  LET d == [c EXCEPT !.assoc = SelectSeq(@, LAMBDA a : a \notin gone)]
      orphans == {b \in {a.block : a \in gone} : ~HasPage(d, b)}
  IN [d EXCEPT !.dirty = SelectSeq(@, LAMBDA b : b \notin orphans),
               !.page = [b \in DOMAIN @ |-> IF b \in orphans
                           THEN [@[b] EXCEPT !.dirty = FALSE, !.uptodate = FALSE] ELSE @[b]]]

page_cache_invalidate_mapping(c, m) == Dissociate(c, {a \in ToSet(c.assoc) : a.map = m})

\* The mapping ends at size words: the page that it ends in is zeroed from there.
page_cache_truncate_mapping(c, m, size) ==
  LET tail == size \div BLOCK_SIZE
      offset == size % BLOCK_SIZE
      ZeroTail(d, b) ==
        page_cache_mark_dirty(
          [d EXCEPT !.page[b].data = [u \in 1 .. BLOCK_SIZE |-> IF u > offset THEN 0 ELSE @[u]]], b)
      kept == IF offset = 0 THEN {} ELSE page_cache_find_mapping(c, m, tail)
      d == IF kept = {} THEN c ELSE ZeroTail(c, CHOOSE b \in kept : TRUE)
  IN Dissociate(d, {a \in ToSet(d.assoc) : /\ a.map = m /\ a.index >= tail
                                           /\ ~(a.index = tail /\ offset # 0)})

-----------------------------------------------------------------------------
(* Pages.                                                                  *)

page_cache_free_page(c, b) ==
  [page_cache_clear_dirty(c, b) EXCEPT
     !.assoc = SelectSeq(@, LAMBDA a : a.block # b),
     !.lru = Remove(@, b),
     !.page = [x \in DOMAIN @ \ {b} |-> @[x]]]

\* What page_cache_evict_one may take, the least recently used first.
Victims(c) == SelectSeq(c.lru, LAMBDA b : c.page[b].refcount = 0 /\ ~c.page[b].dirty)

HasRoom(c) == Cardinality(Resident(c)) < PAGE_CACHE_NR_PAGES \/ Victims(c) # <<>>

page_cache_alloc(c, b) ==
  LET d == IF Cardinality(Resident(c)) >= PAGE_CACHE_NR_PAGES
           THEN page_cache_free_page(c, Head(Victims(c))) ELSE c
      new == [refcount |-> 0, uptodate |-> FALSE, dirty |-> FALSE, data |-> Zero]
  IN [d EXCEPT !.page = [x \in DOMAIN @ \cup {b} |-> IF x = b THEN new ELSE @[x]],
               !.lru = Append(@, b)]

page_cache_put_page(c, b) == [c EXCEPT !.page[b].refcount = @ - 1]

\* Fault: the page is clean whatever the device said.
page_cache_sync_page_blind(c, b) == page_cache_clear_dirty(write_sectors(c, <<b>>), b)

page_cache_sync_page(c, b) ==
  LET d == write_sectors(c, <<b>>)
  IN IF Failed(d) THEN d ELSE page_cache_clear_dirty(d, b)

\* Room for a page: dirty pages are written, the oldest first, until one can be
\* evicted.
Reclaim(c) ==
  LET R[n \in 0 .. Len(c.dirty)] ==
        IF n = 0 THEN Return(c, "ok")
        ELSE IF Failed(R[n - 1]) \/ HasRoom(R[n - 1]) THEN R[n - 1]
        ELSE page_cache_sync_page(R[n - 1], Head(R[n - 1].dirty))
      last == R[Len(c.dirty)]
  IN IF Failed(last) \/ HasRoom(last) THEN last ELSE Return(last, "ENOMEM")

\* Fault: a page that is up to date is read again.
Fetch_again(c, b, read) ==
  LET d == Return([c EXCEPT !.page[b].refcount = @ + 1, !.lru = Append(Remove(@, b), b)], "ok")
  IN IF ~read THEN d
     ELSE LET r == page_cache_read_physical(d, b)
          IN IF Failed(r) THEN page_cache_put_page(r, b) ELSE r

\* The page of b, which the caller now holds, read if that is asked for.
Fetch(c, b, read) ==
  LET d == Return([c EXCEPT !.page[b].refcount = @ + 1, !.lru = Append(Remove(@, b), b)], "ok")
  IN IF ~read \/ d.page[b].uptodate THEN d
     ELSE LET r == page_cache_read_physical(d, b)
          IN IF Failed(r) THEN page_cache_put_page(r, b) ELSE r

\* With PAGE_CACHE_CREATE, and PAGE_CACHE_READ if read.
page_cache_get(c, b, read) ==
  IF b \in Resident(c) THEN Fetch(c, b, read)
  ELSE LET d == Reclaim(c)
       IN IF Failed(d) THEN d ELSE Fetch(page_cache_alloc(d, b), b, read)

page_cache_get_mapping(c, m, i, read) ==
  IF page_cache_find_mapping(c, m, i) # {}
  THEN Fetch(c, CHOOSE b \in page_cache_find_mapping(c, m, i) : TRUE, read)
  ELSE LET d == page_cache_get(c, Resolve[m][i], read)
       IN IF Failed(d) THEN d ELSE page_cache_assoc_add(d, m, i, Resolve[m][i])

-----------------------------------------------------------------------------
(* Writeback.                                                              *)

\* The consecutive dirty blocks from b on that one pass over the dirty list
\* meets; of mapping m if ms = {m}, of any if ms = {}.
Run(c, b, ms) ==
  LET Extend(run, x) ==
        IF /\ Len(run) < PAGE_CACHE_WB_MAX
           /\ x = b + Len(run)
           /\ \A m \in ms : HasMapping(c, x, m)
        THEN Append(run, x) ELSE run
  IN FoldLeft(Extend, <<b>>, c.dirty)

page_cache_wb_run(c, b, ms) ==
  LET run == Run(c, b, ms)
      d == write_sectors(c, run)
  IN IF Failed(d) THEN d ELSE FoldLeft(page_cache_clear_dirty, d, run)

\* What is to be written, in the order in which it is met: the dirty pages of
\* mapping m if ms = {m}, the dirty list if ms = {}.
Todo(c, ms) ==
  IF ms = {} THEN c.dirty
  ELSE LET s == SelectSeq(c.assoc, LAMBDA a : a.map \in ms /\ c.page[a.block].dirty)
       IN [k \in DOMAIN s |-> s[k].block]

\* Run after run from the first page to do, until the device fails.
Flush(c, ms) ==
  LET F[n \in 0 .. Len(c.dirty)] ==
        IF n = 0 THEN Return(c, "ok")
        ELSE IF Failed(F[n - 1]) \/ Todo(F[n - 1], ms) = <<>> THEN F[n - 1]
        ELSE page_cache_wb_run(F[n - 1], Head(Todo(F[n - 1], ms)), ms)
  IN F[Len(c.dirty)]

page_cache_sync_mapping(c, m) == Flush(c, {m})

page_cache_sync_all(c) == Flush(c, {})

-----------------------------------------------------------------------------
(* The clients: files and the block device, metadata, user mappings.       *)

Init ==
  /\ cache = [page |-> <<>>, lru |-> <<>>, dirty |-> <<>>, assoc |-> <<>>,
              disk |-> [b \in Block |-> Zero], ret |-> "ok", bad |-> 0]
  /\ pins = [b \in Block |-> 0]
  /\ op = [kind |-> "none", on |-> {}, ret |-> "ok"]

\* An operation ends: whether a transfer would have failed is of no more use.
Done(kind, on, c) ==
  /\ cache' = [Return(c, "ok") EXCEPT !.bad = 0]
  /\ op' = [kind |-> kind, on |-> on, ret |-> c.ret]

With(bad) == [cache EXCEPT !.bad = bad]

Read(m, i, bad) ==
  LET b == Resolve[m][i]
      c == page_cache_get_mapping(With(bad), m, i, TRUE)
  IN /\ Done("read", {b}, IF Failed(c) THEN c ELSE page_cache_put_page(c, b))
     /\ UNCHANGED pins

\* A whole block is not read before it is overwritten.
Write(m, i, v, whole, bad) ==
  LET b == Resolve[m][i]
      c == page_cache_get_mapping(With(bad), m, i, ~whole)
      Put(d) == page_cache_put_page(page_cache_mark_dirty([d EXCEPT !.page[b].data = v], b), b)
  IN /\ Done("write", {b}, IF Failed(c) THEN c ELSE Put(c))
     /\ UNCHANGED pins

\* Bitmaps and descriptors: read and changed without a mapping, and written at
\* once.  (What happens when that write fails is discussed in README.)
WriteMetadata(b, v) ==
  LET c == page_cache_get(With(0), b, TRUE)
      Put(d) == page_cache_put_page(page_cache_sync_page([d EXCEPT !.page[b].data = v], b), b)
  IN /\ Done("write", {b}, IF Failed(c) THEN c ELSE Put(c))
     /\ UNCHANGED pins

\* A page fault on a shared mapping keeps the page; munmap gives it back.
Pin(m, i, bad) ==
  LET b == Resolve[m][i]
      c == page_cache_get_mapping(With(bad), m, i, TRUE)
  IN /\ b \in Mapped /\ pins[b] = 0
     /\ Done("read", {b}, c)
     /\ pins' = IF Failed(c) THEN pins ELSE [pins EXCEPT ![b] = 1]

Unpin(b) ==
  /\ pins[b] = 1
  /\ Done("read", {b}, page_cache_put_page(cache, b))
  /\ pins' = [pins EXCEPT ![b] = 0]

SyncMapping(m, bad) ==
  /\ Done("sync", {b \in Resident(cache) : HasMapping(cache, b, m)},
          page_cache_sync_mapping(With(bad), m))
  /\ UNCHANGED pins

\* sync() and the writeback thread.
SyncAll(bad) == Done("sync", Block, page_cache_sync_all(With(bad))) /\ UNCHANGED pins

Truncate(m, size) ==
  Done("drop", BlocksOf(m), page_cache_truncate_mapping(With(0), m, size)) /\ UNCHANGED pins

Invalidate(m) ==
  Done("drop", BlocksOf(m), page_cache_invalidate_mapping(With(0), m)) /\ UNCHANGED pins

Next ==
  \/ \E m \in Mapping, bad \in Bad :
       \/ \E i \in Index(m) :
            \/ Read(m, i, bad) \/ Pin(m, i, bad)
            \/ \E v \in Value, whole \in {TRUE, BLOCK_SIZE = 1} : Write(m, i, v, whole, bad)
       \/ SyncMapping(m, bad) \/ SyncAll(bad)
       \/ Invalidate(m)
       \/ \E size \in 1 .. BLOCK_SIZE * Cardinality(Index(m)) : Truncate(m, size)
  \/ \E b \in Block : Unpin(b) \/ \E v \in Value : WriteMetadata(b, v)

Spec == Init /\ [][Next]_vars

-----------------------------------------------------------------------------
(* Properties.                                                             *)

(* Bookkeeping: every path, failed ones included, gives back the page it   *)
(* took; the cache keeps to its size; the lists hold the pages that they   *)
(* should, in any order; an index of a mapping leads to the page of its    *)
(* block; and a clean page is a copy of its block, so that it may go.      *)
CacheSound ==
  /\ \A b \in Block : pins[b] = IF b \in Resident(cache) THEN cache.page[b].refcount ELSE 0
  /\ Cardinality(Resident(cache)) <= PAGE_CACHE_NR_PAGES
  /\ ToSet(cache.lru) = Resident(cache) /\ IsInjective(cache.lru)
  /\ ToSet(cache.dirty) = {b \in Resident(cache) : cache.page[b].dirty} /\ IsInjective(cache.dirty)
  /\ \A a \in ToSet(cache.assoc) : a.block \in Resident(cache) /\ Resolve[a.map][a.index] = a.block
  /\ \A b \in Resident(cache) :
       cache.page[b].uptodate /\ ~cache.page[b].dirty => cache.page[b].data = cache.disk[b]

Data == [1 .. BLOCK_SIZE -> 0 .. 1]
View == [b \in Block |-> IF b \in Resident(cache) /\ cache.page[b].uptodate
                         THEN cache.page[b].data ELSE cache.disk[b]]

(* Pages, eviction, aliases and writeback are invisible: readers see what  *)
(* was written last, whatever was evicted or failed in between, and what a *)
(* successful sync covered is on the device.                               *)
Abstract == INSTANCE CachedDisk WITH view <- View, disk <- cache.disk
Implements == Abstract!Spec
=============================================================================
