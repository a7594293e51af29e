---------------------------- MODULE AddressSpace ----------------------------
(***************************************************************************)
(* User address spaces (mm/mmap.c, mm/vma.c, mm/page_fault.c): the fixed   *)
(* array of areas with its splits and merges, the page table, demand       *)
(* faults, brk, mmap, munmap, mprotect, mremap, madvise, fork and exit.    *)
(*                                                                         *)
(* Every operation runs under mmap_lock, so each is one step.  There is    *)
(* one file; what a program stores is one value.  An address space is a    *)
(* record that the operators below take and return.                        *)
(***************************************************************************)
EXTENDS Naturals, FiniteSets, FiniteSetsExt

CONSTANTS
  Mm, First,     \* address spaces, and the one there is at first
  Pages,         \* the pages below the stack
  PAGE_SIZE,     \* addresses per page
  NR_VMA,        \* slots for areas
  Frames,        \* page frames that buddy can give out
  FilePages,     \* pages of the file
  Segment,       \* where exec loaded the data of First: [start, end]
  Reserved,      \* the pages of user_map_reserve
  Kinds,         \* what programs map: [perm, back, off]
  Perms,         \* what they ask of mprotect
  Ops            \* the other system calls that they make

Written == 99
Perm == {{}, {"r"}, {"r", "w"}}
Backing == {"anon", "private", "shared"}

Top == Pages * PAGE_SIZE
Addr == 0 .. Top - 1
Page == 0 .. Pages - 1
Slot == 1 .. NR_VMA
PageOf(a) == a \div PAGE_SIZE
PageStart(p) == p * PAGE_SIZE
AlignUp(a) == ((a + PAGE_SIZE - 1) \div PAGE_SIZE) * PAGE_SIZE
FileSize == FilePages * PAGE_SIZE

VARIABLES
  mm, live,  \* the address spaces, and which of them are in use
  changed,   \* pages of the file with stores that the disk does not have
  dirty      \* pages of the file that are marked dirty in the page cache

vars == <<mm, live, changed, dirty>>

\* struct vm_area_struct.  off counts addresses; only the file has offsets.
NoVma == [used |-> FALSE, start |-> 0, end |-> 0, perm |-> {}, type |-> "none",
          back |-> "anon", off |-> 0]
Vma(s, e, perm, type, back, off) ==
  [used |-> TRUE, start |-> s, end |-> e, perm |-> perm, type |-> type,
   back |-> back, off |-> off]

\* A PTE of a user page: its own frame or one of the page cache.
\* data is what the frame holds, as one value for the whole page.
NoPte == [user |-> FALSE, perm |-> {}, cached |-> FALSE, index |-> 0, data |-> 0]
OwnPte(perm, data) == [NoPte EXCEPT !.user = TRUE, !.perm = perm, !.data = data]
CachePte(perm, i) == [NoPte EXCEPT !.user = TRUE, !.perm = perm, !.cached = TRUE, !.index = i]

\* frames, cache and files count what the space holds: page frames, pins of
\* page cache pages and references to the file.
EmptyMm == [vma |-> [i \in Slot |-> NoVma], pt |-> [p \in Page |-> NoPte], brk |-> 0,
            frames |-> 0, cache |-> 0, files |-> 0]

FreeFrames == Frames - FoldSet(LAMBDA m, n : n + mm[m].frames, 0, Mm)

-----------------------------------------------------------------------------
(* Areas. *)

Overlaps(v, s, e) == v.used /\ s < v.end /\ e > v.start
Cuts(v, a) == v.used /\ a > v.start /\ a < v.end
Covers(v, a) == v.used /\ a >= v.start /\ a < v.end
OffsetAt(v, a) == IF v.back = "anon" THEN 0 ELSE v.off + (a - v.start)

FreeSlots(x) == {i \in Slot : ~x.vma[i].used}
Overlap(x, s, e) == \E i \in Slot : Overlaps(x.vma[i], s, e)
IsMapped(x, a) == \E i \in Slot : Covers(x.vma[i], a)
find_vma(x, a) == Min({i \in Slot : Covers(x.vma[i], a)})

ReservedOverlap(s, e) == \E p \in Reserved : s < PageStart(p + 1) /\ e > PageStart(p)

HasFile(v) == v.back # "anon"
FileGet(x, v) == [x EXCEPT !.files = IF HasFile(v) THEN @ + 1 ELSE @]
FilePut(x, v) == [x EXCEPT !.files = IF HasFile(v) THEN @ - 1 ELSE @]

\* One step per slot, in order.
ForSlots(x, Step(_, _)) ==
  LET f[i \in 0 .. NR_VMA] == IF i = 0 THEN x ELSE Step(f[i - 1], i) IN f[NR_VMA]

vma_free_slot(x, i) == [FilePut(x, x.vma[i]) EXCEPT !.vma[i] = NoVma]

\* Fault: the head keeps its end.
vma_split_at_head(x, i, a) ==
  LET v == x.vma[i]
      j == Min(FreeSlots(x))
  IN IF ~Cuts(v, a) THEN x
     ELSE [FileGet(x, v) EXCEPT !.vma[j] = [v EXCEPT !.start = a, !.off = OffsetAt(v, a)]]

\* The tail goes to the first free slot.
vma_split_at(x, i, a) ==
  LET v == x.vma[i]
      j == Min(FreeSlots(x))
  IN IF ~Cuts(v, a) THEN x
     ELSE [FileGet(x, v) EXCEPT !.vma[j] = [v EXCEPT !.start = a, !.off = OffsetAt(v, a)],
                                !.vma[i].end = a]

CanMerge(u, v) ==
  /\ u.used /\ v.used
  /\ u.perm = v.perm /\ u.type = v.type /\ u.back = v.back
  /\ \/ u.end = v.start /\ (HasFile(u) => OffsetAt(u, u.end) = v.off)
     \/ v.end = u.start /\ (HasFile(u) => OffsetAt(v, v.end) = u.off)

\* The first pair that fits: slot i grows over slot j, upwards or downwards.
MergeOnce(x) ==
  LET pairs == {p \in Slot \X Slot : p[1] # p[2] /\ CanMerge(x.vma[p[1]], x.vma[p[2]])}
      i == Min({p[1] : p \in pairs})
      j == Min({p[2] : p \in {q \in pairs : q[1] = i}})
      u == x.vma[i]
      v == x.vma[j]
  IN IF pairs = {} THEN x
     ELSE vma_free_slot([x EXCEPT !.vma[i] =
            IF u.end = v.start THEN [u EXCEPT !.end = v.end] ELSE [u EXCEPT !.start = v.start]], j)

vma_merge_all(x) == ForSlots(x, LAMBDA y, i : MergeOnce(y))

MunmapSlots(x, s, e) ==
  Cardinality({i \in Slot : Overlaps(x.vma[i], s, e) /\ s > x.vma[i].start /\ e < x.vma[i].end})
MprotectSlots(x, s, e) ==
  Cardinality({i \in Slot : Cuts(x.vma[i], s)}) + Cardinality({i \in Slot : Cuts(x.vma[i], e)})

\* Take [s, e) out of the area of slot i.
vma_unmap_range(x, i, s, e) ==
  LET v == x.vma[i]
      from == Max({s, v.start})
      to == Min({e, v.end})
      upper == [v EXCEPT !.start = to, !.off = OffsetAt(v, to)]
  IN IF from = v.start /\ to = v.end THEN vma_free_slot(x, i)
     ELSE IF from = v.start THEN [x EXCEPT !.vma[i] = upper]
     ELSE IF to = v.end THEN [x EXCEPT !.vma[i].end = from]
     ELSE LET y == vma_split_at(x, i, from)
              j == find_vma(y, from)
          IN [y EXCEPT !.vma[j] = [@ EXCEPT !.start = to, !.off = OffsetAt(y.vma[j], to)]]

-----------------------------------------------------------------------------
(* Pages. *)

\* The pages that a loop from s to e in steps of a page looks at.
Visited(s, e) == {PageOf(a) : a \in {b \in s .. e - 1 : (b - s) % PAGE_SIZE = 0}}
Resident(x, P) == {p \in P : x.pt[p].user}

\* mm_unmap_user_pages_locked.
UnmapPages(x, v, s, e) ==
  LET gone == Resident(x, Visited(s, e))
      cached == {p \in gone : v.back = "shared" /\ x.pt[p].cached}
  IN [x EXCEPT !.pt = [p \in Page |-> IF p \in gone THEN NoPte ELSE x.pt[p]],
               !.frames = @ - Cardinality(gone \ cached),
               !.cache = @ - Cardinality(cached)]

\* Fault: nothing is marked.
Dirtied_none(x, s, e) == {}

\* release_shared_pte_page: what unmapping [s, e) marks dirty.
Dirtied(x, s, e) ==
  {x.pt[p].index : p \in {q \in Page :
     /\ x.pt[q].cached
     /\ \E i \in Slot :
          /\ Overlaps(x.vma[i], s, e)
          /\ q \in Visited(Max({s, x.vma[i].start}), Min({e, x.vma[i].end}))
          /\ x.vma[i].back = "shared" /\ "w" \in x.vma[i].perm}}

UnmapFits(x, s, e) == MunmapSlots(x, s, e) <= Cardinality(FreeSlots(x))

\* mm_unmap_range_locked, when UnmapFits.
UnmapRange(x, s, e) ==
  ForSlots(x, LAMBDA y, i :
    LET v == y.vma[i]
    IN IF ~Overlaps(v, s, e) THEN y
       ELSE vma_unmap_range(UnmapPages(y, v, Max({s, v.start}), Min({e, v.end})), i, s, e))

PageIndex(v, p) == PageOf(v.off) + (p - PageOf(v.start))
FileData(i) == IF i < FilePages THEN i + 1 ELSE 0

\* A page of a shared mapping that the cache has, or makes because of a writer.
Sharable(v, p) == v.back = "shared" /\ (PageIndex(v, p) < FilePages \/ "w" \in v.perm)

\* fault_in_user_page_locked, on a page that is not present.
FaultIn(x, v, p) ==
  IF Sharable(v, p)
  THEN [x EXCEPT !.pt[p] = CachePte(v.perm, PageIndex(v, p)), !.cache = @ + 1]
  ELSE [x EXCEPT !.pt[p] = OwnPte(v.perm, IF v.back = "private" THEN FileData(PageIndex(v, p)) ELSE 0),
                 !.frames = @ + 1]

-----------------------------------------------------------------------------
(* What programs do.  A failing call that changes nothing is no step. *)

Loaded == {a \in Addr : Segment.start <= a /\ a < Segment.end}

\* exec: map_load_segment, mm_map_segment, mm_finalize.
Load ==
  [EmptyMm EXCEPT
     !.vma = [@ EXCEPT ![1] = IF Loaded = {} THEN NoVma
                              ELSE Vma(Segment.start, Segment.end, {"r", "w"}, "code", "anon", 0)],
     !.pt = [p \in Page |-> IF \E a \in Loaded : PageOf(a) = p
                            THEN OwnPte({"r", "w"}, Written) ELSE NoPte],
     !.brk = AlignUp(Segment.end),
     !.frames = Cardinality({PageOf(a) : a \in Loaded})]

Init ==
  /\ mm = [m \in Mm |-> IF m = First THEN Load ELSE EmptyMm]
  /\ live = {First}
  /\ changed = {} /\ dirty = {}

Update(m, x) == mm' = [mm EXCEPT ![m] = x]
Boundary == {PageStart(p) : p \in 0 .. Pages}
Ranges == {r \in Boundary \X Boundary : r[1] < r[2]}

\* The highest hole between the heap and the stack; 0 when there is none.
find_unmapped_area(x, len) ==
  LET low == Max({AlignUp(x.brk), PAGE_SIZE})
      S == {s \in Boundary : /\ s >= low /\ s + len <= Top
                            /\ ~ReservedOverlap(s, s + len) /\ ~Overlap(x, s, s + len)}
  IN IF S = {} THEN 0 ELSE Max(S)

\* mm_brk never shrinks.
mm_brk(m, addr) ==
  LET x == mm[m]
      heaps == {i \in Slot : x.vma[i].used /\ x.vma[i].type = "heap"}
      h == Min(heaps)
      Other(i) == \E j \in Slot \ {i} : Overlaps(x.vma[j], x.vma[i].start, addr)
  IN /\ "brk" \in Ops
     /\ addr > x.brk
     /\ \/ /\ heaps = {}
           /\ ~Overlap(x, x.brk, addr) /\ FreeSlots(x) # {}
           /\ Update(m, vma_merge_all([x EXCEPT !.brk = addr,
                !.vma[Min(FreeSlots(x))] = Vma(x.brk, addr, {"r", "w"}, "heap", "anon", 0)]))
        \/ /\ heaps # {} /\ ~Other(h)
           /\ Update(m, vma_merge_all([x EXCEPT !.brk = addr, !.vma[h].end = addr]))
     /\ UNCHANGED <<live, changed, dirty>>

Install(x, v) ==
  FileGet([x EXCEPT !.vma[Min(FreeSlots(x))] = v], v)

\* A hint of 0 lets the kernel choose; MAP_FIXED_NOREPLACE does what a hint does.
mm_mmap_file(m, k, addr, len, how) ==
  LET x == mm[m]
      s == IF how = "hint" /\ addr = 0 THEN find_unmapped_area(x, len) ELSE addr
      e == s + len
      y == IF how = "fixed" THEN UnmapRange(x, s, e) ELSE x
  IN /\ s # 0 /\ e <= Top /\ ~ReservedOverlap(s, e)
     /\ IF how = "fixed" THEN "fixed" \in Ops /\ UnmapFits(x, s, e) ELSE ~Overlap(x, s, e)
     /\ Update(m, IF FreeSlots(y) = {} THEN y
                  ELSE vma_merge_all(Install(y, Vma(s, e, k.perm, "mmap", k.back, k.off))))
     /\ dirty' = dirty \cup (IF how = "fixed" THEN Dirtied(x, s, e) ELSE {})
     /\ UNCHANGED <<live, changed>>

mm_munmap(m, s, e) ==
  /\ "munmap" \in Ops
  /\ UnmapFits(mm[m], s, e)
  /\ Update(m, UnmapRange(mm[m], s, e))
  /\ dirty' = dirty \cup Dirtied(mm[m], s, e)
  /\ UNCHANGED <<live, changed>>

\* Fault: the pages that are resident keep their permissions.
mm_mprotect_pte(m, s, e, perm) ==
  LET x == mm[m]
      split == ForSlots(ForSlots(x, LAMBDA y, i : vma_split_at(y, i, s)),
                        LAMBDA y, i : vma_split_at(y, i, e))
      set == [i \in Slot |-> LET v == split.vma[i]
                             IN IF v.used /\ v.start >= s /\ v.end <= e
                                THEN [v EXCEPT !.perm = perm] ELSE v]
  IN /\ \A b \in Boundary : s <= b /\ b < e => IsMapped(x, b)
     /\ MprotectSlots(x, s, e) <= Cardinality(FreeSlots(x))
     /\ Update(m, vma_merge_all([split EXCEPT !.vma = set]))
     /\ UNCHANGED <<live, changed, dirty>>

mm_mprotect(m, s, e, perm) ==
  LET x == mm[m]
      split == ForSlots(ForSlots(x, LAMBDA y, i : vma_split_at(y, i, s)),
                        LAMBDA y, i : vma_split_at(y, i, e))
      set == [i \in Slot |-> LET v == split.vma[i]
                             IN IF v.used /\ v.start >= s /\ v.end <= e
                                THEN [v EXCEPT !.perm = perm] ELSE v]
  IN /\ \A b \in Boundary : s <= b /\ b < e => IsMapped(x, b)
     /\ MprotectSlots(x, s, e) <= Cardinality(FreeSlots(x))
     /\ Update(m, vma_merge_all([split EXCEPT
          !.vma = set,
          !.pt = [p \in Page |-> IF p \in Resident(x, Visited(s, e))
                                 THEN [x.pt[p] EXCEPT !.perm = perm] ELSE x.pt[p]]]))
     /\ UNCHANGED <<live, changed, dirty>>

\* MADV_DONTNEED: area by area, up to the first hole.
mm_madvise(m, s, e) ==
  LET x == mm[m]
      holes == {a \in s .. e - 1 : ~IsMapped(x, a)}
      stop == IF holes = {} THEN e ELSE Min(holes)
  IN /\ "madvise" \in Ops
     /\ \A b \in Boundary : s <= b /\ b < e => IsMapped(x, b)
     /\ Update(m, ForSlots(x, LAMBDA y, i :
          LET v == y.vma[i]
          IN IF Overlaps(v, s, stop)
             THEN UnmapPages(y, v, Max({s, v.start}), Min({stop, v.end})) ELSE y))
     /\ dirty' = dirty \cup Dirtied(x, s, stop)
     /\ UNCHANGED <<live, changed>>

\* mm_move_user_pages_locked, when nothing is resident in the target.
MovePages(x, s, d, len) ==
  LET moved == Resident(x, Visited(s, s + len))
      shift == [p \in moved |-> p + PageOf(d) - PageOf(s)]
  IN [x EXCEPT !.pt = [p \in Page |->
        IF \E q \in moved : shift[q] = p THEN x.pt[CHOOSE q \in moved : shift[q] = p]
        ELSE IF p \in moved THEN NoPte ELSE x.pt[p]]]

\* mremap_move_locked: map [d, d + new), move the pages, unmap [s, e).
MoveTo(m, x, v, s, e, d, new, fixed) ==
  LET y == IF fixed THEN UnmapRange(x, d, d + new) ELSE x
      to == [v EXCEPT !.start = d, !.end = d + new, !.off = OffsetAt(v, s)]
      len == Min({e - s, new})
      moves == /\ MunmapSlots(y, s, e) + 1 <= Cardinality(FreeSlots(y))
               /\ Resident(y, Visited(d, d + len)) = {}
  IN /\ d # 0 /\ d + new <= Top /\ ~ReservedOverlap(d, d + new)
     /\ ~(s < d + new /\ d < e)
     /\ fixed => UnmapFits(x, d, d + new)
     /\ fixed \/ moves
     /\ Update(m, IF moves
                  THEN vma_merge_all(UnmapRange(MovePages(Install(y, to), s, d, len), s, e))
                  ELSE y)
     /\ dirty' = dirty \cup (IF fixed THEN Dirtied(x, d, d + new) ELSE {})
                       \cup (IF moves THEN Dirtied(x, s + len, e) ELSE {})

\* The area of slot i can grow from e to new where it is.
GrowsTo(x, i, e, new) ==
  /\ x.vma[i].end = e /\ new <= Top
  /\ ~ReservedOverlap(e, new)
  /\ \A j \in Slot \ {i} : ~Overlaps(x.vma[j], e, new)

\* how is "inplace", "maymove" or "fixed", to d.
mm_mremap(m, s, e, new, how, d) ==
  LET x == mm[m]
      i == find_vma(x, s)
      v == x.vma[i]
      grows == GrowsTo(x, i, e, s + new)
  IN /\ "remap" \in Ops
     /\ IsMapped(x, s) /\ e <= v.end /\ v.type = "mmap"
     /\ \/ how = "fixed" /\ MoveTo(m, x, v, s, e, d, new, TRUE)
        \/ /\ how # "fixed" /\ new < e - s
           /\ UnmapFits(x, s + new, e)
           /\ Update(m, UnmapRange(x, s + new, e))
           /\ dirty' = dirty \cup Dirtied(x, s + new, e)
        \/ /\ how # "fixed" /\ new > e - s /\ grows
           /\ Update(m, vma_merge_all([x EXCEPT !.vma[i].end = s + new]))
           /\ UNCHANGED dirty
        \/ /\ how = "maymove" /\ new > e - s /\ ~grows
           /\ MoveTo(m, x, v, s, e, find_unmapped_area(x, new), new, FALSE)
     /\ UNCHANGED <<live, changed>>

\* Up to the first hole or program segment, each page that is resident in a
\* writable area is marked; the rest of MS_SYNC is the Writeback below.
mm_msync(m, s, e) ==
  LET x == mm[m]
      At(b) == x.vma[find_vma(x, b)]
      Refused(b) == ~IsMapped(x, b) \/ (At(b).type = "code" /\ ~HasFile(At(b)))
      seen == {b \in Boundary : s <= b /\ b < e /\ \A c \in Boundary : s <= c /\ c <= b => ~Refused(c)}
  IN /\ "msync" \in Ops
     /\ dirty' = dirty \cup {PageIndex(At(b), PageOf(b)) : b \in {c \in seen :
          At(c).back = "shared" /\ "w" \in At(c).perm /\ x.pt[PageOf(c)].user}}
     /\ UNCHANGED <<mm, live, changed>>

\* The page cache writes a dirty page to the disk.
Writeback(i) ==
  /\ i \in dirty
  /\ dirty' = dirty \ {i} /\ changed' = changed \ {i}
  /\ UNCHANGED <<mm, live>>

mm_destroy(m) ==
  /\ Update(m, [UnmapRange(mm[m], 0, Top) EXCEPT !.pt = EmptyMm.pt, !.brk = 0])
  /\ live' = live \ {m}
  /\ dirty' = dirty \cup Dirtied(mm[m], 0, Top)
  /\ UNCHANGED changed

\* An access to an address without a present page; without a frame for it the
\* process ends.  MAP_POPULATE and mlock are such faults.
do_page_fault(m, a, access) ==
  LET x == mm[m]
      v == x.vma[find_vma(x, a)]
      p == PageOf(a)
  IN /\ IsMapped(x, a) /\ access \in v.perm
     /\ x.pt[p].perm = {}
     /\ IF Sharable(v, p) \/ FreeFrames > 0
        THEN Update(m, FaultIn(x, v, p)) /\ UNCHANGED <<live, changed, dirty>>
        ELSE mm_destroy(m)

Store(m, p) ==
  LET e == mm[m].pt[p]
  IN /\ "w" \in e.perm
     /\ IF e.cached
        THEN changed' = changed \cup {e.index} /\ UNCHANGED mm
        ELSE Update(m, [mm[m] EXCEPT !.pt[p].data = Written]) /\ UNCHANGED changed
     /\ UNCHANGED <<live, dirty>>


\* The pages of shared files are left to faults of the child.
dup_mm(m, n) ==
  LET x == mm[m]
      copied == UNION {Resident(x, Visited(x.vma[i].start, x.vma[i].end)) :
                         i \in {j \in Slot : x.vma[j].used /\ x.vma[j].back # "shared"}}
  IN /\ n \notin live
     /\ Cardinality(copied) <= FreeFrames
     /\ live' = live \cup {n}
     /\ Update(n, [mm[n] EXCEPT
          !.vma = x.vma, !.brk = x.brk,
          !.pt = [p \in Page |-> IF p \in copied THEN [x.pt[p] EXCEPT !.cached = FALSE, !.index = 0]
                                 ELSE NoPte],
          !.frames = @ + Cardinality(copied),
          !.files = @ + Cardinality({i \in Slot : x.vma[i].used /\ HasFile(x.vma[i])})])
     /\ UNCHANGED <<changed, dirty>>

Calls(m) ==
  \/ \E addr \in Addr \cup {Top} : mm_brk(m, addr)
  \/ \E k \in Kinds, addr \in Boundary, p \in 1 .. Pages, how \in {"hint", "fixed"} :
       mm_mmap_file(m, k, addr, PageStart(p), how)
  \/ \E r \in Ranges :
       \/ mm_munmap(m, r[1], r[2])
       \/ \E perm \in Perms : mm_mprotect(m, r[1], r[2], perm)
       \/ mm_madvise(m, r[1], r[2])
       \/ mm_msync(m, r[1], r[2])
       \/ \E p \in 1 .. Pages, d \in Boundary, how \in {"inplace", "maymove", "fixed"} :
            /\ how # "fixed" => d = 0
            /\ mm_mremap(m, r[1], r[2], PageStart(p), how, d)
  \/ \E a \in Addr, access \in {"r", "w"} : do_page_fault(m, a, access)
  \/ \E p \in Page : Store(m, p)
  \/ mm_destroy(m)

Next ==
  \/ \E m \in live : Calls(m)
  \/ \E m \in live, n \in Mm : dup_mm(m, n)
  \/ \E i \in dirty : Writeback(i)

Spec == Init /\ [][Next]_vars

-----------------------------------------------------------------------------
(* Properties. *)

TypeOK ==
  /\ live \subseteq Mm
  /\ changed \subseteq Nat /\ dirty \subseteq Nat
  /\ \A m \in Mm :
       /\ \A i \in Slot : LET v == mm[m].vma[i]
                          IN /\ v.perm \in Perm /\ v.back \in Backing
                             /\ v.type \in {"none", "code", "heap", "mmap"}
                             /\ IF v.used THEN v.start < v.end /\ v.end <= Top ELSE v = NoVma
       /\ \A p \in Page : mm[m].pt[p].user \/ mm[m].pt[p] = NoPte
       /\ mm[m].brk \in 0 .. Top

(* No two areas of a space share an address, whatever is split, trimmed,   *)
(* grown, moved or merged (find_vma takes the first one that covers it).   *)
AreasDisjoint ==
  \A m \in Mm : \A i, j \in Slot :
    i # j /\ mm[m].vma[i].used => ~Overlaps(mm[m].vma[j], mm[m].vma[i].start, mm[m].vma[i].end)

(* A space holds a frame or a cache pin for each resident page and a file  *)
(* reference for each area of the file, through every split, merge, move   *)
(* and failed call, and nothing once it is destroyed.                      *)
HoldsWhatItMaps ==
  \A m \in Mm :
    LET x == mm[m]
    IN /\ x.frames = Cardinality({p \in Page : x.pt[p].user /\ ~x.pt[p].cached})
       /\ x.cache = Cardinality({p \in Page : x.pt[p].cached})
       /\ x.files = Cardinality({i \in Slot : x.vma[i].used /\ HasFile(x.vma[i])})

(* A store through a shared mapping is never forgotten: until it is on the *)
(* disk the page is dirty, or still mapped where unmapping will mark it.   *)
SharedStoresKept ==
  \A i \in changed \ dirty :
    \E m \in live : \E p \in Page :
      /\ mm[m].pt[p].cached /\ mm[m].pt[p].index = i
      /\ \E j \in Slot : Covers(mm[m].vma[j], PageStart(p)) /\ "w" \in mm[m].vma[j].perm

(* No area lies in a reserved range, such as the guard below the stack.    *)
ReservedFree ==
  \A m \in Mm : \A a \in Addr : PageOf(a) \in Reserved => ~IsMapped(mm[m], a)

(* A fork has every private page that was resident in its parent.          *)
ForkCopiesStep ==
  \A n \in live' \ live : \E m \in live : \A p \in Page :
    mm[m].pt[p].user /\ ~mm[m].pt[p].cached => mm'[n].pt[p].data = mm[m].pt[p].data

\* What a program sees, when a page has one address: the page that is resident,
\* else what a fault would bring.
Seen(x, a) ==
  LET e == x.pt[PageOf(a)]
      v == x.vma[find_vma(x, a)]
      off == OffsetAt(v, a)
  IN IF ~IsMapped(x, a)
     THEN [perm |-> e.perm, back |-> IF e.user THEN "stray" ELSE "none", off |-> 0, val |-> 0]
     ELSE [perm |-> IF e.user THEN e.perm ELSE v.perm, back |-> v.back, off |-> off,
           val |-> IF v.back = "shared" THEN 0
                   ELSE IF e.user THEN e.data
                   ELSE IF v.back = "private" THEN FileData(PageOf(off)) ELSE 0]

View == [m \in Mm |-> [a \in Addr |-> Seen(mm[m], a)]]

(* Areas, faults, splits, merges and moves are invisible: what a program   *)
(* sees starts as PageMap says and changes only as it says.                *)
Promise == INSTANCE PageMap WITH view <- View
=============================================================================
