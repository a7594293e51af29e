----------------------------- MODULE Allocator -----------------------------
(***************************************************************************)
(* The kernel's memory allocators.  The physical pages (mm/buddy.c): one   *)
(* free list per order, the page descriptors, splitting and merging.  On   *)
(* top of them kmalloc and kfree (mm/slab.c): size classes with one free   *)
(* list each, pages that are cut into objects and given back when all      *)
(* their objects are free, and large blocks.  And the kernel's area for    *)
(* virtually contiguous memory (mm/vmalloc.c): a list of areas by address, *)
(* first fit with a split, page-by-page mapping that can fail half way,    *)
(* and merging of free neighbours.  The kernel does not preempt them and   *)
(* no interrupt allocates, so each call is one step.                       *)
(***************************************************************************)
EXTENDS Naturals, Sequences, SequencesExt, FiniteSets

CONSTANTS
  Total,       \* pages of memory, numbered from 0
  FirstFree,   \* the pages below hold the kernel and mem_map
  MAX_ORDER

Pfn == 0 .. Total - 1
Order == 0 .. MAX_ORDER
Size(order) == 2 ^ order
Block(pfn, order) == pfn .. pfn + Size(order) - 1
BuddyOf(pfn, order) ==
  IF (pfn \div Size(order)) % 2 = 0 THEN pfn + Size(order) ELSE pfn - Size(order)

VARIABLES
  buddy,    \* [area: the free lists, page: mem_map, nr_free_pages]
  held,     \* what callers hold: pairs of a first page and an order
  call      \* how the last free_page ended

buddyVars == <<buddy, held, call>>

\* struct page; flag is "buddy", "reserved", "slab" or "none".
Descriptor(flag, order, refcount) == [flag |-> flag, order |-> order, refcount |-> refcount]

buddy_add_free_block(b, pfn, order, tail) ==
  [b EXCEPT !.page[pfn] = Descriptor("buddy", order, 0),
            !.area[order] = IF tail THEN Append(@, pfn) ELSE <<pfn>> \o @]

buddy_remove_free_block(b, pfn) ==
  [b EXCEPT !.page[pfn].flag = "none",
            !.area[b.page[pfn].order] = SelectSeq(@, LAMBDA q : q # pfn)]

\* The largest aligned block that starts at pfn and ends within memory.
InitOrder(pfn) ==
  CHOOSE o \in Order :
    /\ o = 0 \/ (pfn % Size(o) = 0 /\ pfn + Size(o) <= Total)
    /\ \A p \in Order : p > o => ~(pfn % Size(p) = 0 /\ pfn + Size(p) <= Total)

buddy_init ==
  LET empty == [area |-> [o \in Order |-> <<>>],
                page |-> [p \in Pfn |-> Descriptor("reserved", 0, 0)],
                nr_free_pages |-> 0]
      fill[n \in 0 .. Total] ==
        IF n = 0 THEN [b |-> empty, next |-> FirstFree]
        ELSE LET f == fill[n - 1]
                 o == InitOrder(f.next)
             IN IF f.next >= Total THEN f
                ELSE [b |-> [buddy_add_free_block(f.b, f.next, o, TRUE)
                               EXCEPT !.nr_free_pages = @ + Size(o)],
                      next |-> f.next + Size(o)]
  IN fill[Total].b

-----------------------------------------------------------------------------

\* The orders that can serve a request, and what the request takes.
Serving(b, order) == {o \in Order : o >= order /\ b.area[o] # <<>>}
CanGet(b, order) == Serving(b, order) # {}
First(b, order) == CHOOSE o \in Serving(b, order) : \A p \in Serving(b, order) : o <= p
Taken(b, order) == Head(b.area[First(b, order)])

\* get_free_page, when CanGet.
GetPage(b, order) ==
  LET cur == First(b, order)
      pfn == Taken(b, order)
      split[o \in order .. cur] ==
        IF o = cur THEN buddy_remove_free_block(b, pfn)
        ELSE buddy_add_free_block(split[o + 1], pfn + Size(o), o, FALSE)
  IN [split[order] EXCEPT !.page[pfn] = Descriptor("none", order, 1),
                          !.nr_free_pages = @ - Size(order)]

\* The checks of free_page; a call that fails one panics.
FreeAllowed(b, pfn, order) ==
  /\ pfn + Size(order) <= Total
  /\ pfn % Size(order) = 0
  /\ b.page[pfn].flag = "none"
  /\ b.page[pfn].refcount # 0
  /\ b.page[pfn].order = order

Merges(b, pfn, order) ==
  LET other == BuddyOf(pfn, order)
  IN /\ order < MAX_ORDER
     /\ other < Total
     /\ b.page[other].flag = "buddy" /\ b.page[other].order = order

\* Fault: at most one merge.
FreePage_once(b, pfn, order) ==
  LET clean == [b EXCEPT !.page[pfn] = [@ EXCEPT !.flag = "none", !.refcount = 0]]
      other == BuddyOf(pfn, order)
      to == IF other < pfn THEN other ELSE pfn
  IN [(IF Merges(clean, pfn, order)
       THEN buddy_add_free_block(buddy_remove_free_block(clean, other), to, order + 1, FALSE)
       ELSE buddy_add_free_block(clean, pfn, order, FALSE))
      EXCEPT !.nr_free_pages = @ + Size(order)]

\* free_page, when FreeAllowed: merge upwards while the buddy is free.
FreePage(b, pfn, order) ==
  LET merge[n \in order .. MAX_ORDER] ==
        IF n = order
        THEN [b |-> [b EXCEPT !.page[pfn] = [@ EXCEPT !.flag = "none", !.refcount = 0]],
              pfn |-> pfn, order |-> order]
        ELSE LET f == merge[n - 1]
                 other == BuddyOf(f.pfn, f.order)
             IN IF f.order # n - 1 \/ ~Merges(f.b, f.pfn, f.order) THEN f
                ELSE [b |-> buddy_remove_free_block(f.b, other),
                      pfn |-> IF f.pfn < other THEN f.pfn ELSE other, order |-> n]
      last == merge[MAX_ORDER]
  IN [buddy_add_free_block(last.b, last.pfn, last.order, FALSE)
      EXCEPT !.nr_free_pages = @ + Size(order)]

-----------------------------------------------------------------------------

BuddyInit ==
  /\ buddy = buddy_init
  /\ held = {}
  /\ call = "ok"

get_free_page(order) ==
  /\ call = "ok"
  /\ CanGet(buddy, order)
  /\ buddy' = GetPage(buddy, order)
  /\ held' = held \cup {<<Taken(buddy, order), order>>}
  /\ UNCHANGED call

\* Also with arguments that no caller may pass: "accepted" is such a call that
\* the checks let through.
free_page(pfn, order) ==
  /\ call = "ok"
  /\ IF FreeAllowed(buddy, pfn, order)
     THEN /\ buddy' = FreePage(buddy, pfn, order)
          /\ held' = held \ {<<pfn, order>>}
          /\ call' = IF <<pfn, order>> \in held THEN "ok" ELSE "accepted"
     ELSE call' = "panic" /\ UNCHANGED <<buddy, held>>

BuddyNext == \E order \in Order : get_free_page(order) \/ \E pfn \in Pfn : free_page(pfn, order)

BuddySpec == BuddyInit /\ [][BuddyNext]_buddyVars

-----------------------------------------------------------------------------
(* Properties of the page allocator. *)

BuddyTypeOK ==
  /\ buddy.area \in [Order -> Seq(Pfn)]
  /\ buddy.page \in [Pfn -> [flag : {"buddy", "reserved", "slab", "none"}, order : Order,
                             refcount : 0 .. 1]]
  /\ buddy.nr_free_pages \in 0 .. Total
  /\ held \subseteq Pfn \X Order
  /\ call \in {"ok", "panic", "accepted"}

FreeBlocks == UNION {{<<buddy.area[o][i], o>> : i \in DOMAIN buddy.area[o]} : o \in Order}

(* Each page belongs to exactly one free block, to exactly one block that  *)
(* a caller holds, or to the kernel: nothing is handed out twice or lost.  *)
BlocksPartition ==
  \A p \in Pfn :
    Cardinality({x \in FreeBlocks \cup held : p \in Block(x[1], x[2])}) = IF p < FirstFree THEN 0 ELSE 1

(* The free lists, the descriptors and the count agree: a page is marked   *)
(* exactly when it starts a block of the list of its order, once.          *)
ListsAgree ==
  /\ \A o \in Order : IsInjective(buddy.area[o])
  /\ \A p \in Pfn : buddy.page[p].flag = "buddy" <=> <<p, buddy.page[p].order>> \in FreeBlocks
  /\ \A x \in FreeBlocks : buddy.page[x[1]].flag = "buddy" /\ buddy.page[x[1]].refcount = 0
  /\ buddy.nr_free_pages =
       Cardinality({p \in Pfn : \E x \in FreeBlocks : p \in Block(x[1], x[2])})

(* Nothing stays split: an aligned range of free pages always lies in one  *)
(* free block, so a request fails only when no such range is left.         *)
NoFragment ==
  \A o \in Order : \A p \in Pfn :
    /\ p % Size(o) = 0 /\ p + Size(o) <= Total
    /\ \A q \in Block(p, o) : \E x \in FreeBlocks : q \in Block(x[1], x[2])
    => \E x \in FreeBlocks : Block(p, o) \subseteq Block(x[1], x[2])

(* free_page panics on everything that its caller does not hold: a block   *)
(* freed twice, part of one, another order, memory of the kernel.          *)
BadFreesPanic == call # "accepted"

-----------------------------------------------------------------------------
(* kmalloc and kfree. *)

CONSTANTS
  Cache,       \* size classes
  ObjsPerPage  \* how many objects of each class fit in a page

VARIABLES
  free_list,   \* the free objects of each class
  slab,        \* the header of each page that is cut into objects
  freed,       \* objects whose header says free
  live         \* what callers of kmalloc hold: objects

vars == <<buddy, held, call, free_list, slab, freed, live>>

\* An object is its page and its place there.
ObjsOf(pfn, c) == {<<pfn, i>> : i \in 1 .. ObjsPerPage[c]}
ObjSeq(pfn, c) == [i \in 1 .. ObjsPerPage[c] |-> <<pfn, i>>]

\* struct slab_page_header.
NoSlab == [cache |-> "none", free_objs |-> 0]

Init ==
  /\ BuddyInit
  /\ free_list = [c \in Cache |-> <<>>]
  /\ slab = [p \in Pfn |-> NoSlab]
  /\ freed = {} /\ live = {}

\* The free list, the page allocator and the headers after a refill.
refill_cache(c) ==
  IF ~CanGet(buddy, 0)
  THEN [list |-> <<>>, buddy |-> buddy, slab |-> slab]
  ELSE LET p == Taken(buddy, 0)
       IN [list |-> ObjSeq(p, c),
           buddy |-> [GetPage(buddy, 0) EXCEPT !.page[p].flag = "slab"],
           slab |-> [slab EXCEPT ![p] = [cache |-> c, free_objs |-> ObjsPerPage[c]]]]

\* A small request; it fails, and changes nothing, when there is no page.
kmalloc(c) ==
  LET r == IF free_list[c] # <<>>
           THEN [list |-> free_list[c], buddy |-> buddy, slab |-> slab]
           ELSE refill_cache(c)
      obj == Head(r.list)
  IN /\ call = "ok"
     /\ r.list # <<>>
     /\ buddy' = r.buddy
     /\ free_list' = [free_list EXCEPT ![c] = Tail(r.list)]
     /\ slab' = [r.slab EXCEPT ![obj[1]].free_objs = @ - 1]
     /\ freed' = (freed \cup ToSet(r.list)) \ {obj}
     /\ live' = live \cup {obj}
     /\ UNCHANGED <<held, call>>

kmalloc_large(order) == get_free_page(order) /\ UNCHANGED <<free_list, slab, freed, live>>

\* Fault: the objects stay on the free list.
slab_reclaim_page_list(p, list) ==
  /\ buddy' = FreePage([buddy EXCEPT !.page[p].flag = "none"], p, 0)
  /\ free_list' = [free_list EXCEPT ![slab[p].cache] = list]
  /\ freed' = {o \in freed : o[1] # p}
  /\ slab' = [slab EXCEPT ![p] = NoSlab]

\* Every object leaves the free list, and the page goes back.
slab_reclaim_page(p, list) ==
  /\ buddy' = FreePage([buddy EXCEPT !.page[p].flag = "none"], p, 0)
  /\ free_list' = [free_list EXCEPT ![slab[p].cache] = SelectSeq(list, LAMBDA o : o[1] # p)]
  /\ freed' = {o \in freed : o[1] # p}
  /\ slab' = [slab EXCEPT ![p] = NoSlab]

\* An object on a page that is still cut; freeing it twice panics.
kfree(obj) ==
  LET p == obj[1]
      c == slab[p].cache
      list == <<obj>> \o free_list[c]
  IN /\ call = "ok"
     /\ IF obj \in freed
        THEN call' = "panic" /\ UNCHANGED <<buddy, free_list, slab, freed, live>>
        ELSE /\ call' = IF obj \in live THEN "ok" ELSE "accepted"
             /\ live' = live \ {obj}
             /\ IF slab[p].free_objs + 1 = ObjsPerPage[c]
                THEN slab_reclaim_page(p, list)
                ELSE /\ free_list' = [free_list EXCEPT ![c] = list]
                     /\ freed' = freed \cup {obj}
                     /\ slab' = [slab EXCEPT ![p].free_objs = @ + 1]
                     /\ UNCHANGED buddy
     /\ UNCHANGED held

\* kfree of a large block, and free_page of any page, also one of a slab.
FreeLarge(pfn, order) == free_page(pfn, order) /\ UNCHANGED <<free_list, slab, freed, live>>

Next ==
  \/ \E c \in Cache : kmalloc(c)
  \/ \E order \in Order : kmalloc_large(order) \/ \E pfn \in Pfn : FreeLarge(pfn, order)
  \/ \E p \in Pfn : slab[p] # NoSlab /\ \E obj \in ObjsOf(p, slab[p].cache) : kfree(obj)

Spec == Init /\ [][Next]_vars

-----------------------------------------------------------------------------
(* Properties of kmalloc and kfree. *)

SlabPages == {p \in Pfn : slab[p] # NoSlab}

TypeOK ==
  /\ BuddyTypeOK
  /\ \A p \in SlabPages : slab[p].cache \in Cache /\ slab[p].free_objs \in 0 .. ObjsPerPage[slab[p].cache] - 1
  /\ \A c \in Cache : free_list[c] \in Seq(Pfn \X Nat)

(* The free list of a class holds each free object of its pages once, and  *)
(* nothing that a caller holds; each page counts its own.                  *)
ObjectsAccounted ==
  /\ \A c \in Cache :
       LET all == UNION {ObjsOf(p, c) : p \in {q \in SlabPages : slab[q].cache = c}}
       IN /\ IsInjective(free_list[c])
          /\ ToSet(free_list[c]) = all \ live
          /\ ToSet(free_list[c]) = all \cap freed
  /\ \A o \in live : o[1] \in SlabPages
  /\ \A p \in SlabPages : slab[p].free_objs = Cardinality(ObjsOf(p, slab[p].cache) \ live)

(* A page is cut only while some object of it is in use: when callers      *)
(* have freed everything, every page is back in the page allocator.        *)
MemoryReturned ==
  buddy.nr_free_pages =
    (Total - FirstFree) - Cardinality({o[1] : o \in live})
      - Cardinality(UNION {Block(x[1], x[2]) : x \in held})

(* No page of a slab is free, or handed out as pages, at the same time,    *)
(* and free_page refuses it.                                               *)
SlabPagesApart ==
  /\ \A p \in Pfn : p \in SlabPages <=> buddy.page[p].flag = "slab"
  /\ \A p \in SlabPages : \A x \in FreeBlocks \cup held : p \notin Block(x[1], x[2])
  /\ BadFreesPanic

-----------------------------------------------------------------------------
(* vmalloc and vfree. *)

CONSTANTS
  VMALLOC_SIZE,  \* in pages
  Frames         \* page frames that the page allocator can give

VARIABLES
  areas,   \* [start, end, free], the list
  mapped,  \* pages with a PTE
  frames   \* frames left

vmallocVars == <<areas, mapped, frames>>

Area(s, e, free) == [start |-> s, end |-> e, free |-> free]
Pages(a) == a.start .. a.end - 1
vmalloc_area_size(a) == a.end - a.start

vmalloc_init ==
  /\ areas = <<Area(0, VMALLOC_SIZE, TRUE)>>
  /\ mapped = {}
  /\ frames = Frames

\* First fit; 0 when there is none.
vmalloc_find_free_area(s, size) ==
  SelectInSeq(s, LAMBDA a : a.free /\ vmalloc_area_size(a) >= size)

vmalloc_split_area(s, i, size) ==
  LET a == s[i]
      cut == a.start + size
  IN IF vmalloc_area_size(a) = size THEN s
     ELSE InsertAt(ReplaceAt(s, i, Area(a.start, cut, TRUE)), i + 1, Area(cut, a.end, TRUE))

\* Area i of s with the free one before it, then with the free one after it.
vmalloc_merge_area(s, i) ==
  LET Joins(t, k) == /\ k \in 1 .. Len(t) - 1
                     /\ t[k].end = t[k + 1].start
      Join(t, k) == RemoveAt(ReplaceAt(t, k, Area(t[k].start, t[k + 1].end, t[k].free)), k + 1)
      back == Joins(s, i - 1) /\ s[i - 1].free
      t == IF back THEN Join(s, i - 1) ELSE s
      k == IF back THEN i - 1 ELSE i
  IN IF Joins(t, k) /\ t[k + 1].free THEN Join(t, k) ELSE t

\* vmalloc_unmap_pages and the merge that vfree and a failed vmalloc end with,
\* from the mapped pages and the frames there are at that point.
Release(s, i, present, left) ==
  LET gone == present \cap Pages(s[i])
  IN /\ areas' = vmalloc_merge_area(ReplaceAt(s, i, [s[i] EXCEPT !.free = TRUE]), i)
     /\ mapped' = present \ gone
     /\ frames' = left + Cardinality(gone)

\* n pages of the request get a frame.
vmalloc(size, n) ==
  LET i == vmalloc_find_free_area(areas, size)
      s == vmalloc_split_area(areas, i, size)
      a == s[i]
  IN /\ i # 0
     /\ n <= frames
     /\ \/ /\ n = size
           /\ areas' = ReplaceAt(s, i, [a EXCEPT !.free = FALSE])
           /\ mapped' = mapped \cup Pages(a)
           /\ frames' = frames - size
        \/ /\ n < size   \* a frame or a page-table page is missing
           /\ Release(s, i, mapped \cup (a.start .. a.start + n - 1), frames - n)

\* A start that is no area in use panics.
vfree(i) ==
  /\ ~areas[i].free
  /\ Release(areas, i, mapped, frames)

VmallocNext ==
  \/ \E size \in 1 .. VMALLOC_SIZE : \E n \in 0 .. size : vmalloc(size, n)
  \/ \E i \in DOMAIN areas : vfree(i)

VmallocSpec == vmalloc_init /\ [][VmallocNext]_vmallocVars

-----------------------------------------------------------------------------
(* Properties of vmalloc. *)

VmallocTypeOK ==
  /\ mapped \subseteq 0 .. VMALLOC_SIZE - 1
  /\ frames \in 0 .. Frames
  /\ \A i \in DOMAIN areas : areas[i].start < areas[i].end /\ areas[i].free \in BOOLEAN

(* The list tiles the whole range in order and no two free areas touch,    *)
(* whatever was split, freed or failed: a hole that fits is always found.  *)
AreasTile ==
  /\ areas # <<>> /\ areas[1].start = 0 /\ areas[Len(areas)].end = VMALLOC_SIZE
  /\ \A i \in 1 .. Len(areas) - 1 :
       /\ areas[i].end = areas[i + 1].start
       /\ ~(areas[i].free /\ areas[i + 1].free)

(* Exactly the pages of the areas in use are mapped, and all other frames  *)
(* are with the page allocator: a failed call leaves nothing behind.       *)
MappedInUse ==
  /\ mapped = UNION {Pages(areas[i]) : i \in {j \in DOMAIN areas : ~areas[j].free}}
  /\ frames = Frames - Cardinality(mapped)
=============================================================================
