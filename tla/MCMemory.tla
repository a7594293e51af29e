------------------------------ MODULE MCMemory ------------------------------
(***************************************************************************)
(* Address spaces, the kernel's allocators and its bitmaps and ring queues *)
(* on small instances, in one state space that is the union of theirs: the *)
(* first state picks one ("part").  Variables of the same name are shared; *)
(* the ones that a part does not have stay 0.                              *)
(***************************************************************************)
EXTENDS Naturals

CONSTANTS m1, m2, small, big

VARIABLES part, live,
          mm, changed, dirty,                        \* AddressSpace
          buddy, held, call, free_list, slab, freed, \* Allocator
          areas, mapped, frames,
          map, bits, fifo, queue, lifo, stack, out   \* Containers

spaceVars == <<mm, changed, dirty>>
slabVars == <<free_list, slab, freed>>
buddyVars == <<buddy, held, call>>
vmallocVars == <<areas, mapped, frames>>
containerVars == <<map, bits, fifo, queue, lifo, stack, out>>
vars == <<part, live, spaceVars, slabVars, buddyVars, vmallocVars, containerVars>>

NoSpace == mm = 0 /\ changed = 0 /\ dirty = 0
NoSlabs == free_list = 0 /\ slab = 0 /\ freed = 0
NoBuddy == buddy = 0 /\ held = 0 /\ call = 0
NoVmalloc == areas = 0 /\ mapped = 0 /\ frames = 0
NoContainers == /\ map = 0 /\ bits = 0 /\ fifo = 0 /\ queue = 0
                /\ lifo = 0 /\ stack = 0 /\ out = 0

-----------------------------------------------------------------------------
(* The instances.                                                          *)

Kind(back, perm) == [back |-> back, perm |-> perm, off |-> 0]
NoSegment == [start |-> 1, end |-> 1]

\* Anonymous memory: split, unmapped, protected, forgotten, moved.
A == INSTANCE AddressSpace WITH
       Mm <- {m1}, First <- m1, Pages <- 4, PAGE_SIZE <- 1, NR_VMA <- 3, Frames <- 2,
       FilePages <- 2, Segment <- NoSegment, Reserved <- {},
       Kinds <- {Kind("anon", {"r", "w"})}, Perms <- {{}, {"r", "w"}},
       Ops <- {"munmap", "fixed", "madvise", "remap"}

\* Two kinds that do not merge, a reserved page, and one frame.
R == INSTANCE AddressSpace WITH
       Mm <- {m1}, First <- m1, Pages <- 5, PAGE_SIZE <- 1, NR_VMA <- 3, Frames <- 1,
       FilePages <- 2, Segment <- NoSegment, Reserved <- {3},
       Kinds <- {Kind("anon", {"r"}), Kind("anon", {"r", "w"})}, Perms <- {},
       Ops <- {"munmap", "remap"}

\* A file that is mapped private and shared, written back.
F == INSTANCE AddressSpace WITH
       Mm <- {m1}, First <- m1, Pages <- 4, PAGE_SIZE <- 1, NR_VMA <- 2, Frames <- 2,
       FilePages <- 1, Segment <- NoSegment, Reserved <- {},
       Kinds <- {Kind("private", {"r", "w"}), Kind("shared", {"r", "w"})}, Perms <- {},
       Ops <- {"madvise", "msync"}

\* A heap inside a page that exec loaded, and a fork.
H == INSTANCE AddressSpace WITH
       Mm <- {m1, m2}, First <- m1, Pages <- 3, PAGE_SIZE <- 2, NR_VMA <- 3, Frames <- 2,
       FilePages <- 2, Segment <- [start |-> 0, end |-> 1], Reserved <- {},
       Kinds <- {Kind("private", {"r", "w"})}, Perms <- {},
       Ops <- {"brk", "madvise"}

\* Two adjacent mappings of a file that merge.
M == INSTANCE AddressSpace WITH
       Mm <- {m1}, First <- m1, Pages <- 4, PAGE_SIZE <- 1, NR_VMA <- 3, Frames <- 2,
       FilePages <- 2, Segment <- NoSegment, Reserved <- {},
       Kinds <- {Kind("private", {"r", "w"})}, Perms <- {}, Ops <- {"munmap"}

\* Nine pages, the first one the kernel's: the last block is cut short.
B == INSTANCE Allocator WITH
       Total <- 9, FirstFree <- 1, MAX_ORDER <- 3, Cache <- {}, ObjsPerPage <- <<>>,
       VMALLOC_SIZE <- 1, Frames <- 0

\* Two size classes over three pages.
S == INSTANCE Allocator WITH
       Total <- 4, FirstFree <- 1, MAX_ORDER <- 1, Cache <- {small, big},
       ObjsPerPage <- [c \in {small, big} |-> IF c = small THEN 3 ELSE 2],
       VMALLOC_SIZE <- 1, Frames <- 0

\* Fewer frames than addresses.
V == INSTANCE Allocator WITH
       Total <- 1, FirstFree <- 1, MAX_ORDER <- 0, Cache <- {}, ObjsPerPage <- <<>>,
       VMALLOC_SIZE <- 8, Frames <- 6

\* Bitmaps that end with a word and in the middle of one; a queue and a stack.
W == INSTANCE Containers WITH
       BITMAP_WORD_BITS <- 2, NBits <- {4, 5}, Capacity <- 2, Element <- {1, 2}
Q == INSTANCE Containers WITH
       BITMAP_WORD_BITS <- 2, NBits <- {1}, Capacity <- 2, Element <- {1, 2}

Space(p) == part = p /\ NoSlabs /\ NoBuddy /\ NoVmalloc /\ NoContainers
Container(p) == part = p /\ live = 0 /\ NoSpace /\ NoSlabs /\ NoBuddy /\ NoVmalloc

Init ==
  \/ Space("anon") /\ A!Init
  \/ Space("reserved") /\ R!Init
  \/ Space("file") /\ F!Init
  \/ Space("heap") /\ H!Init
  \/ /\ part = "buddy" /\ B!BuddyInit
     /\ NoSpace /\ NoSlabs /\ NoVmalloc /\ NoContainers /\ live = 0
  \/ part = "slab" /\ S!Init /\ NoSpace /\ NoVmalloc /\ NoContainers
  \/ /\ part = "vmalloc" /\ V!vmalloc_init
     /\ NoSpace /\ NoSlabs /\ NoBuddy /\ NoContainers /\ live = 0
  \/ Container("bitmap") /\ W!Init
  \/ Container("queue") /\ Q!Init

SpaceNext ==
  /\ \/ part = "anon" /\ A!Next
     \/ part = "reserved" /\ R!Next
     \/ part = "file" /\ F!Next
     \/ part = "heap" /\ H!Next
  /\ UNCHANGED <<slabVars, buddyVars, vmallocVars, containerVars>>

ContainerNext ==
  /\ \/ part = "bitmap" /\ W!BitmapNext
     \/ part = "queue" /\ Q!QueueNext
  /\ UNCHANGED <<live, spaceVars, slabVars, buddyVars, vmallocVars>>

Next ==
  /\ \/ SpaceNext
     \/ ContainerNext
     \/ /\ part = "buddy" /\ B!BuddyNext
        /\ UNCHANGED <<live, spaceVars, slabVars, vmallocVars, containerVars>>
     \/ part = "slab" /\ S!Next /\ UNCHANGED <<spaceVars, vmallocVars, containerVars>>
     \/ /\ part = "vmalloc" /\ V!VmallocNext
        /\ UNCHANGED <<live, spaceVars, slabVars, buddyVars, containerVars>>
  /\ UNCHANGED part

Spec == Init /\ [][Next]_vars

MergeInit == Space("merge") /\ M!Init
MergeNext == M!Next /\ UNCHANGED <<part, slabVars, buddyVars, vmallocVars, containerVars>>
MergeSpec == MergeInit /\ [][MergeNext]_vars

-----------------------------------------------------------------------------
(* Properties.  The modules of the parts say what they mean for the code.  *)

\* No two areas share an address, mmap and mremap stay out of reserved ranges,
\* and a space holds exactly the frames, pins and file references that it maps.
SpaceConsistent ==
  /\ part = "anon" => A!TypeOK /\ A!AreasDisjoint
  /\ part = "reserved" => R!AreasDisjoint /\ R!ReservedFree
  /\ part = "file" => F!HoldsWhatItMaps
  /\ part = "heap" => H!AreasDisjoint /\ H!HoldsWhatItMaps


\* What a program sees of its memory changes only as PageMap says.
ImplementsPageMap ==
  /\ part = "anon" => A!Promise!Init
  /\ part = "reserved" => R!Promise!Init
  /\ part = "file" => F!Promise!Init
  /\ [][/\ part = "anon" => A!Promise!Next \/ UNCHANGED A!View
        /\ part = "reserved" => R!Promise!Next \/ UNCHANGED R!View
        /\ part = "file" => F!Promise!Next \/ UNCHANGED F!View]_vars

\* The same where file mappings merge: whatever vma_merge_all does, a page that
\* is not resident shows the part of the file that was mapped there.
MergeImplementsPageMap == M!Promise!Init /\ [][M!Promise!Next \/ UNCHANGED M!View]_vars

\* Each page is in one free block or one that is held, free lists, descriptors
\* and counts agree, free buddies are merged, and free_page panics on what its
\* caller does not hold.  On top of it: objects are handed out once and their
\* pages are shared with nobody and come back when the last object is freed;
\* vmalloc's areas tile its range and exactly those in use are mapped, even after
\* failures.  The bitmaps and the queues that tables of descriptors and pids are
\* kept in have exactly the bits and the elements that the calls put there.
AllocationsExact ==
  /\ part = "buddy" => /\ B!BuddyTypeOK /\ B!BlocksPartition /\ B!ListsAgree
                       /\ B!NoFragment /\ B!BadFreesPanic
  /\ part = "slab" => S!TypeOK /\ S!ObjectsAccounted /\ S!SlabPagesApart /\ S!MemoryReturned
  /\ part = "vmalloc" => V!VmallocTypeOK /\ V!AreasTile /\ V!MappedInUse
  /\ part = "bitmap" => W!ContainersExact
  /\ part = "queue" => Q!ContainersExact
=============================================================================
