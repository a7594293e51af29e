----------------------------- MODULE ExecImage -----------------------------
(***************************************************************************)
(* How execve builds a program's memory (kernel/exec.c): the segments of   *)
(* the ELF file and the initial stack.  Byte i of the file has the value i *)
(* (the first is 1); 0 is a cleared byte.  An address that is not mapped   *)
(* is not in the domain of mem.  Each failure leaves the new address space *)
(* to be dropped, which Resources is about.                                *)
(***************************************************************************)
EXTENDS Integers, SequencesExt, FiniteSetsExt

CONSTANTS
  PAGE_SIZE,
  ImageSize,      \* bytes of the file
  PhOff, PhSize,  \* where its program headers are, bytes of each
  USER_STACK_BASE, USER_STACK_SIZE,
  Headers,        \* the program header tables: sequences of program headers
  Word, Align,    \* bytes of a pointer, alignment of the stack pointer
  RandomBytes, AuxWords,
  EXEC_MAX_ARGS, EXEC_MAX_ARG_LEN,
  Strings         \* lists of string lengths, without the final zero

VARIABLES phdrs, phdr, next, mem, vmas, layout, args, stack, result

vars == <<phdrs, phdr, next, mem, vmas, layout, args, stack, result>>

USER_STACK_TOP == USER_STACK_BASE + USER_STACK_SIZE
PageOf(a) == a - (a % PAGE_SIZE)
PageUp(a) == PageOf(a + PAGE_SIZE - 1)
FileByte(i) == IF i < ImageSize THEN i + 1 ELSE 0

-----------------------------------------------------------------------------
(* Segments.                                                               *)

elf_phdr_loadable(ph) == ph.type = "load" /\ ph.memsz # 0

validate_load_segment(ph) ==
  /\ "R" \in ph.flags
  /\ ph.filesz <= ph.memsz
  /\ ph.offset <= ImageSize /\ ph.filesz <= ImageSize - ph.offset
  /\ ph.vaddr + ph.memsz <= USER_STACK_BASE

can_map_file_backed_text(ph) ==
  /\ "X" \in ph.flags /\ "W" \notin ph.flags
  /\ ph.filesz = ph.memsz
  /\ ph.offset % PAGE_SIZE = ph.vaddr % PAGE_SIZE

\* Fault: the first page is filled as if the segment began with it.
copy_segment_page_flat(ph, va) ==
  LET from == IF va < ph.vaddr THEN 0 ELSE va - ph.vaddr
      len == Min({PAGE_SIZE, ph.filesz - from})
  IN [a \in va .. va + PAGE_SIZE - 1 |->
       IF from < ph.filesz /\ a < va + len
       THEN FileByte(ph.offset + from + (a - va)) ELSE 0]

\* One cleared page, with the part of the file that falls into it.
copy_segment_page(ph, va) ==
  LET from == IF va < ph.vaddr THEN 0 ELSE va - ph.vaddr
      off == IF va < ph.vaddr THEN ph.vaddr - va ELSE 0
      len == Min({PAGE_SIZE - off, ph.filesz - from})
  IN [a \in va .. va + PAGE_SIZE - 1 |->
       IF from < ph.filesz /\ a >= va + off /\ a < va + off + len
       THEN FileByte(ph.offset + from + (a - va - off)) ELSE 0]

Pages(ph) == {va \in PageOf(ph.vaddr) .. PageUp(ph.vaddr + ph.memsz) - 1 : va % PAGE_SIZE = 0}

\* map_load_segment: every page of the segment, by copy.
Copied(ph) == [a \in UNION {va .. va + PAGE_SIZE - 1 : va \in Pages(ph)} |->
                 copy_segment_page(ph, PageOf(a))[a]]

\* mm_map_file_segment: the file's pages, as a fault will find them.
Mapped(ph) == [a \in UNION {va .. va + PAGE_SIZE - 1 : va \in Pages(ph)} |->
                 FileByte(PageOf(ph.offset) + (a - PageOf(ph.vaddr)))]

Overlaps(s, e) == \E v \in vmas : v[1] < e /\ s < v[2]

\* What a reader finds: a copied page is there before any fault, so it hides the
\* file's page.
Over(top, below) == [a \in DOMAIN top \cup DOMAIN below |->
                       IF a \in DOMAIN top THEN top[a] ELSE below[a]]

SegmentFails(ph) ==
  \/ ~validate_load_segment(ph)
  \/ Overlaps(ph.vaddr, ph.vaddr + ph.memsz)
  \/ /\ ~can_map_file_backed_text(ph)
     /\ \E v \in vmas : v[3] = "copy" /\ \E va \in Pages(ph) : PageOf(v[1]) <= va /\ va < v[2]

Fail == result' = "failed" /\ UNCHANGED <<phdrs, phdr, next, mem, vmas, layout, args, stack>>

Skip == /\ ~elf_phdr_loadable(phdrs[next])
        /\ next' = next + 1
        /\ UNCHANGED <<phdrs, phdr, mem, vmas, layout, args, stack, result>>

Segment(ph) ==
  /\ elf_phdr_loadable(ph) /\ ~SegmentFails(ph)
  /\ mem' = IF can_map_file_backed_text(ph) THEN Over(mem, Mapped(ph)) ELSE Over(Copied(ph), mem)
  /\ vmas' = vmas \cup {<<ph.vaddr, ph.vaddr + ph.memsz,
                          IF can_map_file_backed_text(ph) THEN "file" ELSE "copy">>}
  /\ layout' = [first |-> IF layout.any THEN Min({layout.first, ph.vaddr}) ELSE ph.vaddr,
                last |-> IF layout.any THEN Max({layout.last, ph.vaddr + ph.memsz})
                         ELSE ph.vaddr + ph.memsz,
                any |-> TRUE]
  /\ next' = next + 1
  /\ UNCHANGED <<phdrs, phdr, args, stack, result>>

\* load_elf_segment.
load_elf_segment ==
  /\ result = "loading" /\ next <= Len(phdrs)
  /\ \/ Skip
     \/ elf_phdr_loadable(phdrs[next]) /\ SegmentFails(phdrs[next]) /\ Fail
     \/ Segment(phdrs[next])


\* elf_user_phdr_addr: the address of the program headers, in the first segment
\* whose bytes of the file hold them all; -1 if there is none below the stack.
elf_user_phdr_addr(table) ==
  LET bytes == Len(table) * PhSize
      Holds(k) == /\ table[k].type = "load"
                  /\ PhOff >= table[k].offset
                  /\ PhOff - table[k].offset + bytes <= table[k].filesz
      holders == {k \in DOMAIN table : Holds(k)}
      at == table[Min(holders)].vaddr + PhOff - table[Min(holders)].offset
  IN IF holders = {} THEN -1 ELSE IF at + bytes > USER_STACK_BASE THEN -1 ELSE at

validate_elf_program_headers(table) == \A k \in DOMAIN table : table[k].type # "interp"

\* load_elf_file, up to the first segment.
load_elf_file ==
  /\ result = "reading"
  /\ \/ Fail
     \/ /\ validate_elf_program_headers(phdrs)
        /\ PhOff + Len(phdrs) * PhSize <= ImageSize
        /\ elf_user_phdr_addr(phdrs) # -1
        /\ phdr' = elf_user_phdr_addr(phdrs)
        /\ result' = "loading"
        /\ UNCHANGED <<phdrs, next, mem, vmas, layout, args, stack>>

-----------------------------------------------------------------------------
(* The initial stack.                                                      *)

\* Bytes go down the stack, refused when they do not fit.
Push(s, len) ==
  IF s.sp < USER_STACK_BASE + len \/ s.sp = -1 THEN [s EXCEPT !.sp = -1]
  ELSE [sp |-> s.sp - len, at |-> <<[at |-> s.sp - len, len |-> len]>> \o s.at]

\* Fault: the padding is not counted.
FrameFits_tight(sp, bytes, padding) == sp >= USER_STACK_BASE + bytes
FrameFits(sp, bytes, padding) == sp >= USER_STACK_BASE + bytes + padding

\* setup_user_stack: environment and arguments from the last, random bytes, the
\* file name, and the aligned frame of pointers.
setup_user_stack(argv, envp, execfn) ==
  LET strings == Reverse(argv \o envp)
      top == [sp |-> USER_STACK_TOP, at |-> <<>>]
      pushed == FoldLeft(Push, top, [k \in DOMAIN strings |-> strings[k] + 1] \o <<RandomBytes, execfn + 1>>)
      sp == pushed.sp - (pushed.sp % Align)
      bytes == Word * (1 + (Len(argv) + 1) + (Len(envp) + 1) + AuxWords)
      padding == IF bytes % Align = 0 THEN 0 ELSE Align - (bytes % Align)
  IN IF pushed.sp = -1 \/ ~FrameFits(sp, bytes, padding) THEN [sp |-> -1, at |-> <<>>, frame |-> 0]
     ELSE [sp |-> sp - (bytes + padding), at |-> pushed.at, frame |-> bytes]

copy_exec_args(list) ==
  Len(list) <= EXEC_MAX_ARGS /\ \A k \in DOMAIN list : list[k] < EXEC_MAX_ARG_LEN

\* finish_exec_mm, for the arguments that sys_execve has copied.
finish_exec_mm ==
  /\ result = "loading" /\ next > Len(phdrs)
  /\ \/ /\ layout.any
        /\ \E argv \in Strings, envp \in Strings :
             /\ args' = [argv |-> argv, envp |-> envp]
             /\ stack' = setup_user_stack(argv, envp, 1)
        /\ copy_exec_args(args'.argv) /\ copy_exec_args(args'.envp)
        /\ result' = IF stack'.sp = -1 THEN "failed" ELSE "done"
        /\ UNCHANGED <<phdrs, phdr, next, mem, vmas, layout>>
     \/ ~layout.any /\ Fail

Init ==
  /\ phdrs \in Headers
  /\ phdr = 0
  /\ next = 1
  /\ mem = <<>>
  /\ vmas = {}
  /\ layout = [first |-> 0, last |-> 0, any |-> FALSE]
  /\ args = [argv |-> <<>>, envp |-> <<>>]
  /\ stack = [sp |-> 0, at |-> <<>>, frame |-> 0]
  /\ result = "reading"

Next == load_elf_file \/ load_elf_segment \/ finish_exec_mm

Spec == Init /\ [][Next]_vars

-----------------------------------------------------------------------------
(* Properties.                                                             *)

Loads == {k \in DOMAIN phdrs : elf_phdr_loadable(phdrs[k])}

\* No two segments have a byte in the same page, and none has more bytes in the
\* file than in memory.
OwnPages ==
  /\ \A k \in DOMAIN phdrs : phdrs[k].type = "load" => phdrs[k].filesz <= phdrs[k].memsz
  /\ \A j, k \in Loads : j # k => Pages(phdrs[j]) \cap Pages(phdrs[k]) = {}

\* A program that starts finds each segment's bytes of the file at their
\* addresses and zeros behind them; where each page belongs to one segment, no
\* byte of the file is missing, moved or taken for one that should be clear.  The
\* address it is given for its own program headers is theirs.
ImageExact ==
  result = "done" /\ OwnPages =>
    \A k \in Loads : \A i \in 0 .. phdrs[k].memsz - 1 :
      /\ phdrs[k].vaddr + i \in DOMAIN mem
      /\ mem[phdrs[k].vaddr + i] =
           IF i < phdrs[k].filesz THEN FileByte(phdrs[k].offset + i) ELSE 0
      /\ \A j \in 0 .. Len(phdrs) * PhSize - 1 : mem[phdr + j] = FileByte(PhOff + j)

Size(list) == FoldLeft(LAMBDA n, len : n + len + 1, 0, list)

\* The stack of a program that starts is aligned and inside its area, and its
\* strings, in the order of argv and envp, overlap neither each other nor the
\* frame of pointers; it is refused only when alignment leaves no room.
StackExact ==
  /\ result = "done" =>
       /\ stack.sp % Align = 0 /\ stack.sp >= USER_STACK_BASE
       /\ Len(stack.at) = Len(args.argv) + Len(args.envp) + 2
       /\ \A k \in DOMAIN args.argv : stack.at[k + 2].len = args.argv[k] + 1
       /\ \A k \in DOMAIN args.envp : stack.at[k + 2 + Len(args.argv)].len = args.envp[k] + 1
       /\ stack.sp + stack.frame <= stack.at[1].at
       /\ \A k \in 1 .. Len(stack.at) - 1 : stack.at[k].at + stack.at[k].len = stack.at[k + 1].at
       /\ Last(stack.at).at + Last(stack.at).len = USER_STACK_TOP
  /\ result = "failed" /\ stack.sp = -1 =>
       Size(args.argv) + Size(args.envp) + RandomBytes + 2
         + Word * (3 + Len(args.argv) + Len(args.envp) + AuxWords) + 2 * Align - 2 > USER_STACK_SIZE
=============================================================================
