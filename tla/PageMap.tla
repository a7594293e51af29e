------------------------------ MODULE PageMap ------------------------------
(***************************************************************************)
(* What the memory of a process promises to its program: each address has  *)
(* a cell, or none, with its permissions, what backs it and what a load    *)
(* sees.  Areas, page tables, frames and faults are not visible.           *)
(***************************************************************************)
EXTENDS Naturals

CONSTANTS
  Mm, First, \* address spaces, and the one of the first program
  Loaded,    \* the addresses that exec gives it, as data
  Top,       \* addresses are below Top
  Perm,      \* sets of permissions
  FileSize,  \* how far the one file reaches
  Written    \* what a program stores

VARIABLE view  \* view[m][a]: the cell of each address, in each address space

Addr == 0 .. Top - 1
Range(s, e) == {a \in Addr : s <= a /\ a < e}

\* What the file holds at an offset; zero past its end.
FileValue(off) == IF off < FileSize THEN off + 1 ELSE 0

\* Memory as it is before the first store: zero, or a copy of the file.  A
\* shared cell shows the file itself.
Fresh(back, off) == IF back = "private" THEN FileValue(off) ELSE 0

Cell(perm, back, off, val) == [perm |-> perm, back |-> back, off |-> off, val |-> val]
NoCell == Cell({}, "none", 0, 0)
NoMemory == [a \in Addr |-> NoCell]
IsMapped(c) == c.back # "none"

\* A cell n addresses after one that was just mapped as c.
Nth(c, n) == LET off == IF c.back = "anon" THEN 0 ELSE c.off + n
             IN Cell(c.perm, c.back, off, Fresh(c.back, off))

Init ==
  view = [m \in Mm |-> [a \in Addr |->
    IF m = First /\ a \in Loaded THEN Cell({"r", "w"}, "anon", 0, Written) ELSE NoCell]]

(* How the memory of one process may change, from v to w. *)

\* New memory in [s, e), in place of what was there.
Map(v, w, s, e) ==
  /\ IsMapped(w[s]) /\ w[s].perm \in Perm
  /\ \A a \in Range(s, e) : w[a] = Nth(w[s], a - s)

Unmap(v, w, s, e) == \A a \in Range(s, e) : w[a] = NoCell

Protect(v, w, s, e) ==
  /\ w[s].perm \in Perm
  /\ \A a \in Range(s, e) : IsMapped(v[a]) /\ w[a] = [v[a] EXCEPT !.perm = w[s].perm]

\* MADV_DONTNEED: stores are forgotten.
Forget(v, w, s, e) == \A a \in Range(s, e) : w[a] = Nth(v[a], 0)

Store(v, w, s, e) ==
  /\ e = s + 1
  /\ v[s].back \in {"anon", "private"} /\ "w" \in v[s].perm
  /\ w[s] = [v[s] EXCEPT !.val = Written]

\* mremap: the cells in [s, e) become the n cells from d on.
Move(v, w, s, e, d, n) ==
  /\ IsMapped(v[s])
  /\ \A a \in Range(d, d + n) :
       w[a] = IF a - d < e - s THEN v[s + (a - d)] ELSE Nth(v[s], a - d)
  /\ \A a \in Range(s, e) \ Range(d, d + n) : w[a] = NoCell
  /\ \A a \in Addr \ (Range(s, e) \cup Range(d, d + n)) : w[a] = v[a]

Change(v, w) ==
  \/ \E s, e \in 0 .. Top :
       /\ s < e
       /\ \/ /\ \A a \in Addr \ Range(s, e) : w[a] = v[a]
             /\ \/ Map(v, w, s, e) \/ Unmap(v, w, s, e) \/ Protect(v, w, s, e)
                \/ Forget(v, w, s, e) \/ Store(v, w, s, e)
          \/ \E d \in Addr : \E n \in 1 .. Top - d : Move(v, w, s, e, d, n)
  \/ w = NoMemory

Next ==
  \E m \in Mm :
    /\ \A k \in Mm \ {m} : view'[k] = view[k]
    /\ \/ \E v \in {view[m]}, w \in {view'[m]} : Change(v, w)
       \* A fork starts with the memory of its parent.
       \/ view[m] = NoMemory /\ \E k \in Mm : view'[m] = view[k]

Spec == Init /\ [][Next]_view
=============================================================================
