----------------------------- MODULE Containers -----------------------------
(***************************************************************************)
(* The containers over storage of the caller that the kernel's components  *)
(* share: bitmaps of words (include/kernel/bitmap.h), object queues        *)
(* (include/kernel/kfifo.h) and object stacks (include/kernel/klifo.h).    *)
(* Next to each of them stands what it is meant to be: a set of bits, a    *)
(* sequence.                                                               *)
(*                                                                         *)
(* A word is the set of the positions that are 1 in it.  The storage of a  *)
(* bitmap may hold anything beyond the last bit.                           *)
(***************************************************************************)
EXTENDS Naturals, Sequences, SequencesExt, FiniteSets

CONSTANTS BITMAP_WORD_BITS, NBits, Capacity, Element

VARIABLES map,           \* words, nbits
          bits,          \* the set that the bitmap stands for
          fifo,          \* storage, head, tail, count
          queue,         \* the sequence that it stands for
          lifo,          \* storage, count
          stack,
          out            \* what the last call gave back, and what it should have

vars == <<map, bits, fifo, queue, lifo, stack, out>>

-----------------------------------------------------------------------------
(* Bitmaps.                                                                *)

Ones == 0..(BITMAP_WORD_BITS - 1)
BITMAP_WORDS(nbits) == (nbits + BITMAP_WORD_BITS - 1) \div BITMAP_WORD_BITS
nwords == BITMAP_WORDS(map.nbits)

bitmap_word_index(bit) == bit \div BITMAP_WORD_BITS
bitmap_word_offset(bit) == bit % BITMAP_WORD_BITS
bitmap_mask_lo(n) == {i \in Ones : i < n}
bitmap_mask_hi(bit) == Ones \ bitmap_mask_lo(bit)
bitmap_tail_mask(nbits) ==
  IF bitmap_word_offset(nbits) = 0 THEN Ones ELSE bitmap_mask_lo(bitmap_word_offset(nbits))

\* Word i without the bits that are not part of the bitmap.
Masked(i, word) == IF i + 1 = nwords THEN word \cap bitmap_tail_mask(map.nbits) ELSE word

ctzl(word) == CHOOSE b \in word : \A c \in word : b <= c

\* The first word from i on that is not 0, and the first bit in it; pick(i) is the
\* word as the caller looks at it.
FirstFrom(i, pick(_)) ==
  LET found == SelectSeq([k \in 1..(nwords - i) |-> i + k - 1], LAMBDA j : Masked(j, pick(j)) # {})
  IN IF found = <<>> THEN map.nbits
     ELSE found[1] * BITMAP_WORD_BITS + ctzl(Masked(found[1], pick(found[1])))

bitmap_find_first_set == FirstFrom(0, LAMBDA j : map.words[j])
bitmap_find_first_zero == FirstFrom(0, LAMBDA j : Ones \ map.words[j])

\* In the word that "start" is in only the bits from there on count.
Onward(start, j, word) ==
  IF j = bitmap_word_index(start) THEN word \cap bitmap_mask_hi(bitmap_word_offset(start)) ELSE word

bitmap_find_next_set(start) ==
  IF start >= map.nbits THEN map.nbits
  ELSE FirstFrom(bitmap_word_index(start), LAMBDA j : Onward(start, j, map.words[j]))

bitmap_find_next_zero(start) ==
  IF start >= map.nbits THEN map.nbits
  ELSE FirstFrom(bitmap_word_index(start), LAMBDA j : Onward(start, j, Ones \ map.words[j]))

bitmap_weight ==
  FoldLeft(LAMBDA n, i : n + Cardinality(Masked(i, map.words[i])), 0,
           [k \in 1..nwords |-> k - 1])

bitmap_test(bit) ==
  bit < map.nbits /\ bitmap_word_offset(bit) \in map.words[bitmap_word_index(bit)]

Fixed == UNCHANGED <<fifo, queue, lifo, stack, out>>

bitmap_zero ==
  /\ map' = [map EXCEPT !.words = [i \in DOMAIN @ |-> {}]]
  /\ bits' = {}
  /\ Fixed

bitmap_fill ==
  /\ map' = [map EXCEPT !.words = [i \in DOMAIN @ |-> Masked(i, Ones)]]
  /\ bits' = 0..(map.nbits - 1)
  /\ Fixed

\* Out of range bits are ignored.
bitmap_assign(bit, value) ==
  /\ map' = IF bit >= map.nbits THEN map
            ELSE [map EXCEPT !.words[bitmap_word_index(bit)] =
                    IF value THEN @ \cup {bitmap_word_offset(bit)}
                    ELSE @ \ {bitmap_word_offset(bit)}]
  /\ bits' = IF value THEN bits \cup ({bit} \cap 0..(map.nbits - 1)) ELSE bits \ {bit}
  /\ Fixed

\* Fault: a range that ends with a word leaves out that word.
RangeMask_edge(start, end, i) ==
  LET lo == IF i = bitmap_word_index(start) THEN bitmap_mask_hi(bitmap_word_offset(start)) ELSE Ones
      hi == IF i = bitmap_word_index(end - 1) THEN bitmap_mask_lo(bitmap_word_offset(end)) ELSE Ones
  IN IF i \in bitmap_word_index(start)..bitmap_word_index(end - 1) THEN lo \cap hi ELSE {}

\* The part of word i that the range start .. end - 1 covers.
RangeMask(start, end, i) ==
  LET lo == IF i = bitmap_word_index(start) THEN bitmap_mask_hi(bitmap_word_offset(start)) ELSE Ones
      last == IF bitmap_word_offset(end) = 0 THEN Ones ELSE bitmap_mask_lo(bitmap_word_offset(end))
      hi == IF i = bitmap_word_index(end - 1) THEN last ELSE Ones
  IN IF i \in bitmap_word_index(start)..bitmap_word_index(end - 1) THEN lo \cap hi ELSE {}

\* The range is clipped to the bitmap.
ClippedEnd(start, count) == IF start + count < map.nbits THEN start + count ELSE map.nbits

bitmap_set_range(start, count) ==
  /\ map' = IF count = 0 \/ start >= map.nbits THEN map
            ELSE [map EXCEPT !.words =
                    [i \in DOMAIN @ |-> @[i] \cup RangeMask(start, ClippedEnd(start, count), i)]]
  /\ bits' = bits \cup {b \in 0..(map.nbits - 1) : b >= start /\ b < start + count}
  /\ Fixed

bitmap_clear_range(start, count) ==
  /\ map' = IF count = 0 \/ start >= map.nbits THEN map
            ELSE [map EXCEPT !.words =
                    [i \in DOMAIN @ |-> @[i] \ RangeMask(start, ClippedEnd(start, count), i)]]
  /\ bits' = {b \in bits : b < start \/ b >= start + count}
  /\ Fixed

-----------------------------------------------------------------------------
(* Queues.                                                                 *)

Still == UNCHANGED <<map, bits>>
Lesser(a, b) == IF a < b THEN a ELSE b
kfifo_full == fifo.count = Capacity
kfifo_next(i) == IF i = Capacity - 1 THEN 0 ELSE i + 1

\* One object onto the end, or off the front, of a queue.
Stored(f, e) ==
  [f EXCEPT !.storage[f.head] = e, !.head = kfifo_next(@), !.count = @ + 1]
Taken(f) == [f EXCEPT !.tail = kfifo_next(@), !.count = @ - 1]

kfifo_put(e) ==
  /\ fifo' = IF kfifo_full THEN fifo ELSE Stored(fifo, e)
  /\ queue' = IF Len(queue) = Capacity THEN queue ELSE Append(queue, e)
  /\ Still /\ UNCHANGED <<lifo, stack, out>>

kfifo_get ==
  /\ fifo.count # 0
  /\ fifo' = Taken(fifo)
  /\ queue' = Tail(queue)
  /\ out' = <<<<fifo.storage[fifo.tail]>>, <<queue[1]>>>>
  /\ Still /\ UNCHANGED <<lifo, stack>>

kfifo_peek ==
  /\ fifo.count # 0
  /\ out' = <<<<fifo.storage[fifo.tail]>>, <<queue[1]>>>>
  /\ Still /\ UNCHANGED <<fifo, queue, lifo, stack>>

\* As many as there is room for.
kfifo_in(es) ==
  LET n == Lesser(Len(es), Capacity - fifo.count)
  IN /\ fifo' = FoldLeft(Stored, fifo, SubSeq(es, 1, n))
     /\ queue' = SubSeq(queue \o es, 1, Lesser(Capacity, Len(queue) + Len(es)))
     /\ Still /\ UNCHANGED <<lifo, stack, out>>

\* As many as there are.
kfifo_out(most) ==
  LET n == Lesser(most, fifo.count)
  IN /\ fifo' = FoldLeft(LAMBDA f, k : Taken(f), fifo, [k \in 1..n |-> k])
     /\ out' = <<[k \in 1..n |-> fifo.storage[(fifo.tail + k - 1) % Capacity]],
                 SubSeq(queue, 1, Lesser(most, Len(queue)))>>
     /\ queue' = SubSeq(queue, Lesser(most, Len(queue)) + 1, Len(queue))
     /\ Still /\ UNCHANGED <<lifo, stack>>

kfifo_reset ==
  /\ fifo' = [fifo EXCEPT !.head = 0, !.tail = 0, !.count = 0]
  /\ queue' = <<>>
  /\ Still /\ UNCHANGED <<lifo, stack, out>>

-----------------------------------------------------------------------------
(* Stacks.                                                                 *)

klifo_push(e) ==
  /\ lifo' = IF lifo.count = Capacity THEN lifo
             ELSE [lifo EXCEPT !.storage[lifo.count] = e, !.count = @ + 1]
  /\ stack' = IF Len(stack) = Capacity THEN stack ELSE Append(stack, e)
  /\ Still /\ UNCHANGED <<fifo, queue, out>>

klifo_pop ==
  /\ lifo.count # 0
  /\ lifo' = [lifo EXCEPT !.count = @ - 1]
  /\ stack' = Front(stack)
  /\ out' = <<<<lifo.storage[lifo.count - 1]>>, <<Last(stack)>>>>
  /\ Still /\ UNCHANGED <<fifo, queue>>

klifo_peek ==
  /\ lifo.count # 0
  /\ out' = <<<<lifo.storage[lifo.count - 1]>>, <<Last(stack)>>>>
  /\ Still /\ UNCHANGED <<fifo, queue, lifo, stack>>

klifo_reset ==
  /\ lifo' = [lifo EXCEPT !.count = 0]
  /\ stack' = <<>>
  /\ Still /\ UNCHANGED <<fifo, queue, out>>

-----------------------------------------------------------------------------
Valid(m) == {b \in 0..(m.nbits - 1) : b % BITMAP_WORD_BITS \in m.words[b \div BITMAP_WORD_BITS]}

\* The bitmap over storage with any content, or an empty queue and stack.
Init ==
  /\ \E n \in NBits : \E w \in [0..(BITMAP_WORDS(n) - 1) -> SUBSET Ones] :
       map = [words |-> w, nbits |-> n]
  /\ bits = Valid(map)
  /\ \E e \in Element :
       /\ fifo = [storage |-> [i \in 0..(Capacity - 1) |-> e], head |-> 0, tail |-> 0, count |-> 0]
       /\ lifo = [storage |-> [i \in 0..(Capacity - 1) |-> e], count |-> 0]
  /\ queue = <<>> /\ stack = <<>> /\ out = <<<<>>, <<>>>>

BitmapNext ==
  \/ bitmap_zero \/ bitmap_fill
  \/ \E b \in 0..map.nbits, v \in BOOLEAN : bitmap_assign(b, v)
  \/ \E b \in 0..map.nbits, n \in 0..(map.nbits + 1) :
       bitmap_set_range(b, n) \/ bitmap_clear_range(b, n)

QueueNext ==
  \/ \E e \in Element : kfifo_put(e) \/ klifo_push(e)
  \/ \E es \in {<<>>} \cup {<<a, b>> : a, b \in Element} : kfifo_in(es)
  \/ \E n \in 0..(Capacity + 1) : kfifo_out(n)
  \/ kfifo_get \/ kfifo_peek \/ kfifo_reset \/ klifo_pop \/ klifo_peek \/ klifo_reset

Next == BitmapNext \/ QueueNext

Spec == Init /\ [][Next]_vars

-----------------------------------------------------------------------------
(* Properties.                                                             *)

\* A bitmap is the set of its bits, at and across word boundaries and whatever its
\* storage holds beyond the last bit: the searches find the least bit that is set or
\* clear from any start, and the weight counts.  Queues and stacks hold what was
\* put in, in order, around the end of their storage, and give it back.
ContainersExact ==
  LET least(S) == IF S = {} THEN map.nbits ELSE CHOOSE b \in S : \A c \in S : b <= c
      clear == (0..(map.nbits - 1)) \ bits
  IN /\ Valid(map) = bits
     /\ bitmap_find_first_set = least(bits) /\ bitmap_find_first_zero = least(clear)
     /\ \A s \in 0..map.nbits :
          /\ bitmap_find_next_set(s) = least({b \in bits : b >= s})
          /\ bitmap_find_next_zero(s) = least({b \in clear : b >= s})
          /\ bitmap_test(s) <=> s \in bits
     /\ bitmap_weight = Cardinality(bits)
     /\ out[1] = out[2]
     /\ fifo.count = Len(queue) /\ lifo.count = Len(stack)
     /\ \A k \in 1..Len(queue) : fifo.storage[(fifo.tail + k - 1) % Capacity] = queue[k]
     /\ \A k \in 1..Len(stack) : lifo.storage[k - 1] = stack[k]

=============================================================================
