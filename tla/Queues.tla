------------------------------- MODULE Queues -------------------------------
(***************************************************************************)
(* The intrusive lists of include/kernel/list.h as sequences without        *)
(* repetition, and what list_add_tail, list_del_init, splicing and a walk   *)
(* that unlinks do to the set of linked elements.  The models of run        *)
(* queues, wait channels and futex buckets use the operators, and the       *)
(* proofs about them the lemmas.  (The theorem provers are several times    *)
(* faster without SequencesExt in the context, so DelAt stands in for its   *)
(* RemoveAt.)                                                               *)
(***************************************************************************)
EXTENDS Integers, Sequences, Functions, TLAPS, SequenceTheorems, WellFoundedInduction

\* No element is linked twice.
Distinct(q) == \A i, j \in DOMAIN q : q[i] = q[j] => i = j

\* list_add_tail is Append; list_del_init of the i-th entry.
DelAt(q, i) == SubSeq(q, 1, i - 1) \o SubSeq(q, i + 1, Len(q))

\* A walk over the list that unlinks the elements of S: what it has left of the
\* first i entries, and of the whole list.
Filtered(q, S) ==
  LET kept[i \in 0..Len(q)] ==
        IF i = 0 THEN <<>>
        ELSE IF q[i] \in S THEN kept[i - 1] ELSE Append(kept[i - 1], q[i])
  IN kept

Without(q, S) == Filtered(q, S)[Len(q)]

\* list_add_tail: the queue gains exactly the task, and stays free of repetition
\* when the task was not in it.
LEMMA AppendQueue ==
    ASSUME NEW T, NEW q \in Seq(T), NEW t \in T
    PROVE  /\ Append(q, t) \in Seq(T)
           /\ Append(q, t) # <<>>
           /\ Range(Append(q, t)) = Range(q) \cup {t}
           /\ Distinct(q) /\ t \notin Range(q) => Distinct(Append(q, t))
  <1>1. /\ Append(q, t) \in Seq(T)
        /\ Len(Append(q, t)) = Len(q) + 1
        /\ \A i \in 1..Len(q) : Append(q, t)[i] = q[i]
        /\ Append(q, t)[Len(q) + 1] = t
    BY AppendProperties
  <1>2. DOMAIN q = 1..Len(q) /\ Len(q) \in Nat /\ DOMAIN Append(q, t) = 1..(Len(q) + 1)
    BY <1>1
  <1>3. Range(Append(q, t)) = Range(q) \cup {t}
    BY <1>1, <1>2 DEF Range
  <1>4. Distinct(q) /\ t \notin Range(q) => Distinct(Append(q, t))
    BY <1>1, <1>2 DEF Range, Distinct
  <1> QED BY <1>1, <1>3, <1>4

\* Removing the element at position k takes exactly that task out.
LEMMA DelAtQueue ==
    ASSUME NEW T, NEW q \in Seq(T), Distinct(q), NEW k \in DOMAIN q
    PROVE  /\ DelAt(q, k) \in Seq(T)
           /\ Range(DelAt(q, k)) = Range(q) \ {q[k]}
           /\ Distinct(DelAt(q, k))
  <1> DEFINE r == DelAt(q, k)
  <1>1. DOMAIN q = 1..Len(q) /\ Len(q) \in Nat /\ k \in 1..Len(q)
    OBVIOUS
  <1>2. /\ r \in Seq(T)
        /\ Len(r) = Len(q) - 1
        /\ \A i \in 1..(Len(q) - 1) : r[i] = IF i < k THEN q[i] ELSE q[i + 1]
    <2>1. /\ SubSeq(q, 1, k - 1) \in Seq(T) /\ Len(SubSeq(q, 1, k - 1)) = k - 1
          /\ \A i \in 1..(k - 1) : SubSeq(q, 1, k - 1)[i] = q[i]
      BY <1>1
    <2>2. /\ SubSeq(q, k + 1, Len(q)) \in Seq(T)
          /\ Len(SubSeq(q, k + 1, Len(q))) = Len(q) - k
          /\ \A i \in 1..(Len(q) - k) : SubSeq(q, k + 1, Len(q))[i] = q[k + i]
      BY <1>1
    <2> DEFINE x == SubSeq(q, 1, k - 1)
               y == SubSeq(q, k + 1, Len(q))
    <2>3. /\ r \in Seq(T) /\ Len(r) = (k - 1) + (Len(q) - k)
          /\ \A i \in 1..((k - 1) + (Len(q) - k)) :
                r[i] = IF i <= k - 1 THEN x[i] ELSE y[i - (k - 1)]
      <3>1. r = x \o y BY DEF DelAt
      <3> HIDE DEF r, x, y
      <3>2. x \in Seq(T) /\ Len(x) = k - 1 BY <2>1 DEF x
      <3>3. y \in Seq(T) /\ Len(y) = Len(q) - k BY <2>2 DEF y
      <3>4. /\ x \o y \in Seq(T) /\ Len(x \o y) = Len(x) + Len(y)
            /\ \A i \in 1..(Len(x) + Len(y)) :
                  (x \o y)[i] = IF i <= Len(x) THEN x[i] ELSE y[i - Len(x)]
        BY <3>2, <3>3, ConcatProperties
      <3> QED BY <3>1, <3>2, <3>3, <3>4
    <2>4. ASSUME NEW i \in 1..(Len(q) - 1)
          PROVE  r[i] = IF i < k THEN q[i] ELSE q[i + 1]
      <3>1. CASE i < k BY <3>1, <1>1, <2>1, <2>3
      <3>2. CASE ~(i < k)
        <4>1. /\ i - (k - 1) \in 1..(Len(q) - k) /\ k + (i - (k - 1)) = i + 1
              /\ i \in 1..((k - 1) + (Len(q) - k)) /\ ~(i <= k - 1)
          BY <3>2, <1>1
        <4> QED BY <4>1, <3>2, <2>2, <2>3
      <3> QED BY <3>1, <3>2
    <2>5. Len(r) = Len(q) - 1
      BY <1>1, <2>3
    <2> QED BY <2>3, <2>4, <2>5
  <1>3. DOMAIN r = 1..(Len(q) - 1)
    BY <1>1, <1>2
  <1>4. Range(r) = Range(q) \ {q[k]}
    <2>1. ASSUME NEW i \in DOMAIN r PROVE r[i] \in Range(q) \ {q[k]}
      BY <1>1, <1>2, <1>3 DEF Range, Distinct
    <2>2. ASSUME NEW i \in DOMAIN q, q[i] # q[k] PROVE q[i] \in Range(r)
      <3>1. CASE i < k
        <4>1. i \in DOMAIN r /\ r[i] = q[i] BY <3>1, <1>1, <1>2, <1>3
        <4> QED BY <4>1 DEF Range
      <3>2. CASE i > k
        <4>1. i - 1 \in DOMAIN r /\ r[i - 1] = q[i] BY <3>2, <1>1, <1>2, <1>3
        <4> QED BY <4>1 DEF Range
      <3> QED BY <3>1, <3>2, <2>2, <1>1
    <2> QED BY <2>1, <2>2 DEF Range
  <1>5. Distinct(r)
    <2> SUFFICES ASSUME NEW i \in DOMAIN r, NEW j \in DOMAIN r, r[i] = r[j], i < j
                 PROVE  FALSE
      BY <1>3 DEF Distinct
    <2> DEFINE at(m) == IF m < k THEN m ELSE m + 1
    <2>1. at(i) \in DOMAIN q /\ at(j) \in DOMAIN q /\ at(i) # at(j)
      BY <1>1, <1>3
    <2>2. r[i] = q[at(i)] /\ r[j] = q[at(j)]
      BY <1>1, <1>2, <1>3
    <2> QED BY <2>1, <2>2 DEF Distinct
  <1> QED BY <1>2, <1>4, <1>5

\* Taking the head of a queue takes out exactly that task.
LEMMA TailQueue ==
    ASSUME NEW T, NEW q \in Seq(T), Distinct(q), q # <<>>
    PROVE  /\ Head(q) \in Range(q) /\ Tail(q) \in Seq(T)
           /\ Range(Tail(q)) = Range(q) \ {Head(q)}
           /\ Distinct(Tail(q))
  <1>1. DOMAIN q = 1..Len(q) /\ Len(q) \in Nat \ {0} /\ Head(q) = q[1] /\ 1 \in DOMAIN q
    OBVIOUS
  <1>2. /\ Tail(q) \in Seq(T) /\ Len(Tail(q)) = Len(q) - 1
        /\ \A i \in 1..(Len(q) - 1) : Tail(q)[i] = q[i + 1]
        /\ DOMAIN Tail(q) = 1..(Len(q) - 1)
    BY <1>1
  <1>3. Range(Tail(q)) = Range(q) \ {Head(q)}
    <2>1. ASSUME NEW i \in DOMAIN Tail(q) PROVE Tail(q)[i] \in Range(q) \ {Head(q)}
      BY <1>1, <1>2 DEF Range, Distinct
    <2>2. ASSUME NEW i \in DOMAIN q, q[i] # q[1] PROVE q[i] \in Range(Tail(q))
      <3>1. i - 1 \in DOMAIN Tail(q) /\ Tail(q)[i - 1] = q[i]
        BY <1>1, <1>2, <2>2
      <3> QED BY <3>1 DEF Range
    <2> QED BY <2>1, <2>2, <1>1 DEF Range
  <1>4. Distinct(Tail(q))
    BY <1>1, <1>2 DEF Distinct
  <1> QED BY <1>1, <1>2, <1>3, <1>4 DEF Range

\* Splicing two queues with no task in common.
LEMMA ConcatQueue ==
    ASSUME NEW T, NEW p \in Seq(T), NEW q \in Seq(T)
    PROVE  /\ p \o q \in Seq(T)
           /\ Range(p \o q) = Range(p) \cup Range(q)
           /\ Distinct(p) /\ Distinct(q) /\ Range(p) \cap Range(q) = {} => Distinct(p \o q)
  <1>1. /\ p \o q \in Seq(T) /\ Len(p \o q) = Len(p) + Len(q)
        /\ \A i \in 1..(Len(p) + Len(q)) :
              (p \o q)[i] = IF i <= Len(p) THEN p[i] ELSE q[i - Len(p)]
    BY ConcatProperties
  <1>2. /\ Len(p) \in Nat /\ Len(q) \in Nat /\ DOMAIN p = 1..Len(p) /\ DOMAIN q = 1..Len(q)
        /\ DOMAIN (p \o q) = 1..(Len(p) + Len(q))
    BY <1>1
  <1>3. Range(p \o q) = Range(p) \cup Range(q)
    <2>1. ASSUME NEW i \in DOMAIN (p \o q) PROVE (p \o q)[i] \in Range(p) \cup Range(q)
      BY <1>1, <1>2 DEF Range
    <2>2. ASSUME NEW i \in DOMAIN p PROVE p[i] \in Range(p \o q)
      BY <1>1, <1>2 DEF Range
    <2>3. ASSUME NEW i \in DOMAIN q PROVE q[i] \in Range(p \o q)
      <3>1. Len(p) + i \in DOMAIN (p \o q) /\ (p \o q)[Len(p) + i] = q[i]
        BY <1>1, <1>2
      <3> QED BY <3>1 DEF Range
    <2> QED BY <2>1, <2>2, <2>3 DEF Range
  <1>4. ASSUME Distinct(p), Distinct(q), Range(p) \cap Range(q) = {}
        PROVE  Distinct(p \o q)
    <2> SUFFICES ASSUME NEW i \in DOMAIN (p \o q), NEW j \in DOMAIN (p \o q),
                        (p \o q)[i] = (p \o q)[j], i < j
                 PROVE  FALSE
      BY <1>2 DEF Distinct
    <2>1. CASE j <= Len(p) BY <2>1, <1>1, <1>2, <1>4 DEF Distinct
    <2>2. CASE i > Len(p)
      <3>1. i - Len(p) \in DOMAIN q /\ j - Len(p) \in DOMAIN q
            /\ q[i - Len(p)] = q[j - Len(p)]
        BY <2>2, <1>1, <1>2
      <3> QED BY <3>1, <1>4, <1>2 DEF Distinct
    <2>3. CASE i <= Len(p) /\ j > Len(p)
      <3>1. /\ i \in DOMAIN p /\ (p \o q)[i] = p[i]
            /\ j - Len(p) \in DOMAIN q /\ (p \o q)[j] = q[j - Len(p)]
        BY <2>3, <1>1, <1>2
      <3> QED BY <3>1, <1>4 DEF Range
    <2> QED BY <2>1, <2>2, <2>3, <1>2
  <1> QED BY <1>1, <1>3, <1>4

-----------------------------------------------------------------------------
(* Induction along a list, by least counterexample.                        *)

\* A nonempty set of natural numbers has a least element.
LEMMA LeastNat ==
    ASSUME NEW T, T \subseteq Nat, T # {}
    PROVE  \E x \in T : \A y \in T : x <= y
  <1> DEFINE R == OpToRel(<, Nat)
  <1>1. IsWellFoundedOn(R, Nat) BY NatLessThanWellFounded
  <1>2. \A x, y \in Nat : x < y => <<x, y>> \in R BY DEF OpToRel
  <1> HIDE DEF R
  <1>3. PICK x \in T : \A y \in T : ~(<<y, x>> \in R) BY <1>1, WFMin
  <1>4. ASSUME NEW y \in T PROVE x <= y
    <2>1. x \in Nat /\ y \in Nat OBVIOUS
    <2>2. ~(y < x) BY <1>2, <1>3, <2>1
    <2> QED BY <2>1, <2>2
  <1> QED BY <1>4

\* What holds at 0 and goes from each number to the next holds up to n.
LEMMA UpTo ==
    ASSUME NEW n \in Nat, NEW S, 0 \in S, \A i \in 0..n : i \in S /\ i < n => i + 1 \in S
    PROVE  \A i \in 0..n : i \in S
  <1> DEFINE Bad == {i \in 0..n : i \notin S}
  <1> SUFFICES ASSUME Bad # {} PROVE FALSE OBVIOUS
  <1>1. Bad \subseteq Nat OBVIOUS
  <1>2. PICK m \in Bad : \A i \in Bad : m <= i BY <1>1, LeastNat
  <1>3. m \in 0..n /\ m # 0 BY <1>2
  <1>4. m - 1 \in 0..n /\ m - 1 < n BY <1>3
  <1>5. m - 1 \notin Bad BY <1>1, <1>2, <1>3
  <1>6. m - 1 \in S BY <1>4, <1>5
  <1>7. (m - 1) + 1 = m BY <1>3
  <1>8. m \in S BY <1>4, <1>6, <1>7
  <1> QED BY <1>8

\* f goes through n steps from base, the i-th by the function G[i].
Iterates(f, n, base, G) == f[0] = base /\ \A i \in 1..n : f[i] = G[i][f[i - 1]]

\* Any such definition by recursion defines something.
LEMMA Recursion ==
    ASSUME NEW n \in Nat, NEW D, NEW base \in D, NEW G \in [1..n -> [D -> D]]
    PROVE  \E f \in [0..n -> D] : Iterates(f, n, base, G)
  <1> DEFINE P(k, f) == f[0] = base /\ \A i \in 1..k : f[i] = G[i][f[i - 1]]
             S == {k \in 0..n : \E f \in [0..k -> D] : P(k, f)}
  <1>1. 0 \in S
    <2> DEFINE f == [i \in 0..0 |-> base]
    <2>1. f \in [0..0 -> D] /\ P(0, f) OBVIOUS
    <2> HIDE DEF f
    <2>2. 0 \in 0..n OBVIOUS
    <2>3. \E g \in [0..0 -> D] : P(0, g) BY <2>1
    <2> HIDE DEF P
    <2> QED BY <2>2, <2>3
  <1>2. ASSUME NEW k \in 0..n, k \in S, k < n PROVE k + 1 \in S
    <2>1. PICK f \in [0..k -> D] : P(k, f) BY <1>2
    <2> DEFINE g == [i \in 0..(k + 1) |-> IF i <= k THEN f[i] ELSE G[k + 1][f[k]]]
    <2>2. k + 1 \in 1..n /\ k \in 0..k BY <1>2
    <2>3. G[k + 1][f[k]] \in D BY <2>2
    <2>4. g \in [0..(k + 1) -> D] BY <2>3
    <2>5. \A i \in 0..k : g[i] = f[i] BY <1>2
    <2>6. ASSUME NEW i \in 1..(k + 1) PROVE g[i] = G[i][g[i - 1]]
      <3>1. CASE i <= k
        <4>1. i \in 1..k /\ i \in 0..k /\ i - 1 \in 0..k BY <3>1, <1>2
        <4>2. g[i] = f[i] /\ g[i - 1] = f[i - 1] BY <4>1, <2>5
        <4>3. f[i] = G[i][f[i - 1]] BY <4>1, <2>1
        <4> HIDE DEF g
        <4> QED BY <4>2, <4>3
      <3>2. CASE i = k + 1
        <4>1. i - 1 = k /\ i \in 0..(k + 1) /\ ~(i <= k) BY <3>2, <1>2
        <4>2. g[i] = G[k + 1][f[k]] BY <4>1
        <4>3. g[k] = f[k] BY <2>5, <2>2
        <4> HIDE DEF g
        <4> QED BY <4>1, <4>2, <4>3, <3>2
      <3> QED BY <3>1, <3>2
    <2>7. g[0] = base BY <2>1, <2>5, <2>2
    <2> HIDE DEF g
    <2>8. k + 1 \in 0..n BY <2>2
    <2> QED BY <2>4, <2>6, <2>7, <2>8
  <1>3. \A k \in 0..n : k \in S 
    <2> HIDE DEF S
    <2> QED BY <1>1, <1>2, UpTo
  <1>4. n \in S BY <1>3
  <1> QED BY <1>4 DEF Iterates

\* The walk, entry by entry.
LEMMA FilteredOK ==
    ASSUME NEW T, NEW q \in Seq(T), NEW S
    PROVE  /\ Filtered(q, S)[0] = <<>>
           /\ \A i \in 1..Len(q) : Filtered(q, S)[i] =
                IF q[i] \in S THEN Filtered(q, S)[i - 1] ELSE Append(Filtered(q, S)[i - 1], q[i])
  <1> DEFINE n == Len(q)
             E(g, i) == IF i = 0 THEN <<>>
                        ELSE IF q[i] \in S THEN g[i - 1] ELSE Append(g[i - 1], q[i])
             Fix(g) == g = [i \in 0..n |-> E(g, i)]
             G == [i \in 1..n |-> [s \in Seq(T) |-> IF q[i] \in S THEN s ELSE Append(s, q[i])]]
  <1>1. n \in Nat OBVIOUS
  <1>2. G \in [1..n -> [Seq(T) -> Seq(T)]]
    <2>1. \A i \in 1..n : q[i] \in T OBVIOUS
    <2> QED BY <2>1
  <1>3. PICK f \in [0..n -> Seq(T)] : f[0] = <<>> /\ \A i \in 1..n : f[i] = G[i][f[i - 1]]
    <2> DEFINE D == Seq(T)
               base == <<>>
    <2>1. base \in D /\ G \in [1..n -> [D -> D]] BY <1>2
    <2> HIDE DEF G, n, D, base, E, Fix
    <2>2. \E f \in [0..n -> D] : Iterates(f, n, base, G) BY <1>1, <2>1, Recursion
    <2> QED BY <2>2 DEF D, base, Iterates
  <1>4. Fix(f)
    <2>1. ASSUME NEW i \in 0..n PROVE f[i] = E(f, i)
      <3>1. CASE i = 0 BY <1>3, <3>1
      <3>2. CASE i # 0
        <4>1. i \in 1..n /\ i - 1 \in 0..n BY <1>1, <3>2
        <4>2. f[i - 1] \in Seq(T) BY <4>1
        <4>3. f[i] = G[i][f[i - 1]] BY <1>3, <4>1
        <4>4. G[i][f[i - 1]] = IF q[i] \in S THEN f[i - 1] ELSE Append(f[i - 1], q[i])
          BY <4>1, <4>2
        <4> HIDE DEF G, n
        <4> QED BY <3>2, <4>3, <4>4
      <3> QED BY <3>1, <3>2
    <2> HIDE DEF E, n
    <2> QED BY <2>1
  <1>5. Filtered(q, S) = CHOOSE g : Fix(g) BY DEF Filtered
  <1>6. Fix(Filtered(q, S))
    <2> HIDE DEF Fix
    <2> QED BY <1>4, <1>5
  <1> DEFINE h == Filtered(q, S)
  <1>7. \A i \in 0..n : h[i] = E(h, i)
    <2>1. h = [i \in 0..n |-> E(h, i)] BY <1>6
    <2> HIDE DEF h, E, n
    <2> QED BY <2>1, Zenon
  <1> QED BY <1>1, <1>7

\* Taking the elements of S off a list leaves the others, in place.
LEMMA WithoutQueue ==
    ASSUME NEW T, NEW q \in Seq(T), Distinct(q), NEW S
    PROVE  /\ Without(q, S) \in Seq(T) /\ Distinct(Without(q, S))
           /\ Range(Without(q, S)) = Range(q) \ S
  <1> DEFINE n == Len(q)
             h == Filtered(q, S)
             Good(i) == /\ h[i] \in Seq(T) /\ Distinct(h[i])
                        /\ Range(h[i]) = {q[j] : j \in 1..i} \ S
             I == {i \in 0..n : Good(i)}
  <1>1. n \in Nat /\ DOMAIN q = 1..n /\ \A i \in 1..n : q[i] \in T OBVIOUS
  <1>2. /\ h[0] = <<>>
        /\ \A i \in 1..n : h[i] = IF q[i] \in S THEN h[i - 1] ELSE Append(h[i - 1], q[i])
    BY FilteredOK
  <1> HIDE DEF h, n
  <1>3. 0 \in I
    <2>1. <<>> \in Seq(T) /\ Distinct(<<>>) /\ Range(<<>>) = {} BY DEF Distinct, Range
    <2>2. {q[j] : j \in 1..0} = {} OBVIOUS
    <2>3. Good(0) BY <1>2, <2>1, <2>2
    <2>4. 0 \in 0..n BY <1>1
    <2> HIDE DEF Good
    <2> QED BY <2>3, <2>4
  <1>4. ASSUME NEW i \in 0..n, i \in I, i < n PROVE i + 1 \in I
    <2>1. i + 1 \in 1..n /\ i + 1 \in 0..n /\ (i + 1) - 1 = i BY <1>1, <1>4
    <2>2. Good(i) BY <1>4
    <2>3. {q[j] : j \in 1..(i + 1)} = {q[j] : j \in 1..i} \cup {q[i + 1]}
      <3>1. \A j \in 1..(i + 1) : j \in 1..i \/ j = i + 1 BY <2>1
      <3>2. \A j \in 1..i : j \in 1..(i + 1) BY <2>1
      <3>3. i + 1 \in 1..(i + 1) BY <2>1
      <3> QED BY <3>1, <3>2, <3>3
    <2>4. q[i + 1] \notin {q[j] : j \in 1..i}
      <3>1. ASSUME NEW j \in 1..i, q[j] = q[i + 1] PROVE FALSE
        <4>1. j \in 1..n /\ j # i + 1 BY <2>1, <1>1
        <4> QED BY <4>1, <2>1, <1>1, <3>1 DEF Distinct
      <3> QED BY <3>1
    <2>5. h[i + 1] = IF q[i + 1] \in S THEN h[i] ELSE Append(h[i], q[i + 1]) BY <1>2, <2>1
    <2>6. CASE q[i + 1] \in S
      <3>1. h[i + 1] = h[i] BY <2>5, <2>6
      <3> QED BY <2>1, <2>2, <2>3, <2>6, <3>1
    <2>7. CASE q[i + 1] \notin S
      <3> DEFINE p == h[i]
                 e == q[i + 1]
      <3>1. e \in T /\ p \in Seq(T) /\ Distinct(p) /\ e \notin Range(p) BY <1>1, <2>1, <2>2, <2>4
      <3>2. h[i + 1] = Append(p, e) BY <2>5, <2>7
      <3>3. Range(p) = {q[j] : j \in 1..i} \ S BY <2>2
      <3> HIDE DEF p, e
      <3>4. /\ Append(p, e) \in Seq(T) /\ Distinct(Append(p, e))
            /\ Range(Append(p, e)) = Range(p) \cup {e}
        BY <3>1, AppendQueue
      <3>5. Range(p) \cup {e} = {q[j] : j \in 1..(i + 1)} \ S BY <2>3, <2>7, <3>3 DEF e
      <3> QED BY <2>1, <3>2, <3>4, <3>5
    <2> QED BY <2>6, <2>7
  <1>5. \A i \in 0..n : i \in I
    <2> HIDE DEF I
    <2> QED BY <1>1, <1>3, <1>4, UpTo
  <1>6. Good(n)
    <2>1. n \in 0..n BY <1>1
    <2> HIDE DEF Good
    <2> QED BY <1>5, <2>1
  <1>7. Range(q) = {q[j] : j \in 1..n} BY <1>1 DEF Range
  <1> QED BY <1>6, <1>7 DEF Without, h, n
=============================================================================
