---------------------------- MODULE SchedProofs -----------------------------
(***************************************************************************)
(* The run queue of Sched is exact, and Sched implements RunSet, for every  *)
(* set of tasks and every boost period.                                     *)
(***************************************************************************)
EXTENDS Sched, Queues, FiniteSetTheorems

-----------------------------------------------------------------------------
(* The run queue as a value: queues qs, bitmap bits, levels lv.             *)

Members(qs) == {t \in Task : \E l \in Levels : t \in Range(qs[l])}

Exact(qs, bits, lv) ==
    /\ qs \in [Levels -> Seq(Task)]
    /\ \A l \in Levels : Distinct(qs[l])
    /\ \A l \in Levels : \A t \in Range(qs[l]) : lv[t] = l
    /\ bits = {l \in Levels : qs[l] # <<>>}

Enq(qs, lv, t) == [qs EXCEPT ![lv[t]] = Append(@, t)]
Deq(qs, lv, t, q) == [qs EXCEPT ![lv[t]] = q]

\* The elements of a queue are tasks.
LEMMA ExactTypes ==
    ASSUME NEW qs, NEW bits, NEW lv, Exact(qs, bits, lv)
    PROVE  /\ \A l \in Levels : qs[l] \in Seq(Task) /\ Range(qs[l]) \subseteq Task
           /\ \A t \in Members(qs) : lv[t] \in Levels /\ t \in Range(qs[lv[t]])
           /\ bits \subseteq Levels
  <1>1. \A l \in Levels : qs[l] \in Seq(Task) /\ Range(qs[l]) \subseteq Task
    BY DEF Exact, Range
  <1> QED BY <1>1 DEF Exact, Members

\* mlfq_enqueue at the task's level.
LEMMA AddOK ==
    ASSUME NEW qs, NEW bits, NEW lv \in [Task -> Levels], Exact(qs, bits, lv),
           NEW t \in Task, t \notin Members(qs)
    PROVE  /\ Exact(Enq(qs, lv, t), bits \cup {lv[t]}, lv)
           /\ Members(Enq(qs, lv, t)) = Members(qs) \cup {t}
  <1> DEFINE qn == Enq(qs, lv, t)
             level == lv[t]
             qt == Append(qs[level], t)
  <1>1. level \in Levels /\ qs[level] \in Seq(Task) /\ Distinct(qs[level]) /\ t \notin Range(qs[level])
    BY DEF Exact, Members
  <1>2. qt \in Seq(Task) /\ qt # <<>> /\ Range(qt) = Range(qs[level]) \cup {t} /\ Distinct(qt)
    BY <1>1, AppendQueue
  <1>3. qn = [qs EXCEPT ![level] = qt]
    BY DEF Enq
  <1> HIDE DEF qt, level, qn
  <1>4. /\ qn \in [Levels -> Seq(Task)] /\ qn[level] = qt
        /\ \A l \in Levels \ {level} : qn[l] = qs[l]
    BY <1>1, <1>2, <1>3 DEF Exact
  <1>5. \A l \in Levels : Distinct(qn[l])
    BY <1>2, <1>4 DEF Exact
  <1>6. ASSUME NEW l \in Levels, NEW u \in Range(qn[l]) PROVE lv[u] = l
    <2>1. CASE l = level /\ u = t BY <2>1 DEF level
    <2>2. CASE ~(l = level /\ u = t)
      <3>1. u \in Range(qs[l]) BY <2>2, <1>2, <1>4, <1>6
      <3> QED BY <3>1 DEF Exact
    <2> QED BY <2>1, <2>2
  <1>7. bits \cup {level} = {l \in Levels : qn[l] # <<>>}
    BY <1>1, <1>2, <1>4 DEF Exact
  <1>8. Members(qn) = Members(qs) \cup {t}
    BY <1>1, <1>2, <1>4 DEF Members
  <1> QED BY <1>4, <1>5, <1>6, <1>7, <1>8 DEF Exact, level, qn

\* Taking t out of its queue, which becomes q, and refreshing the bitmap: the
\* shape shared by mlfq_dequeue and mlfq_pick_next.
LEMMA TakeOK ==
    ASSUME NEW qs, NEW bits, NEW lv, Exact(qs, bits, lv), NEW t \in Members(qs),
           NEW q \in Seq(Task), Distinct(q), Range(q) = Range(qs[lv[t]]) \ {t}
    PROVE  /\ Exact(Deq(qs, lv, t, q), refresh_empty_mark(bits, lv[t], q), lv)
           /\ Members(Deq(qs, lv, t, q)) = Members(qs) \ {t}
  <1> DEFINE level == lv[t]
             qn == Deq(qs, lv, t, q)
  <1> HIDE DEF qn
  <1>1. t \in Task /\ level \in Levels /\ t \in Range(qs[level])
    BY ExactTypes DEF Members
  <1>2. /\ qn \in [Levels -> Seq(Task)] /\ qn[level] = q
        /\ \A l \in Levels \ {level} : qn[l] = qs[l]
    BY <1>1 DEF Exact, qn, Deq
  <1>3. \A l \in Levels \ {level} : t \notin Range(qs[l])
    BY <1>1 DEF Exact
  <1>4. \A l \in Levels : Range(qn[l]) = Range(qs[l]) \ {t}
    BY <1>1, <1>2, <1>3
  <1>5. Members(qn) = Members(qs) \ {t}
    BY <1>4 DEF Members
  <1>6. refresh_empty_mark(bits, level, q) = {l \in Levels : qn[l] # <<>>}
    <2>1. qs[level] # <<>>
      BY <1>1 DEF Range
    <2> QED BY <1>1, <1>2, <2>1 DEF Exact, refresh_empty_mark
  <1>7. \A l \in Levels : Distinct(qn[l])
    BY <1>2 DEF Exact
  <1>8. \A l \in Levels : \A u \in Range(qn[l]) : lv[u] = l
    BY <1>4 DEF Exact
  <1> QED BY <1>2, <1>5, <1>6, <1>7, <1>8 DEF Exact, qn

\* The levels of tasks that are not queued do not matter.
LEMMA RelevelOK ==
    ASSUME NEW qs, NEW bits, NEW lv, Exact(qs, bits, lv), NEW lw,
           \A t \in Members(qs) : lw[t] = lv[t]
    PROVE  Exact(qs, bits, lw)
  <1>1. ASSUME NEW l \in Levels, NEW t \in Range(qs[l]) PROVE lw[t] = l
    <2>1. t \in Members(qs) BY ExactTypes, <1>1 DEF Members
    <2> QED BY <2>1 DEF Exact
  <1> QED BY <1>1 DEF Exact

\* The best level of a non-empty bitmap.
LEMMA TopLevelOK ==
    ASSUME nonempty \subseteq Levels, nonempty # {}
    PROVE  TopLevel \in nonempty /\ \A m \in nonempty : TopLevel <= m
  <1>1. \E l \in nonempty : \A m \in nonempty : l <= m
    <2>1. CASE 0 \in nonempty BY <2>1 DEF Levels
    <2>2. CASE 0 \notin nonempty /\ 1 \in nonempty BY <2>2 DEF Levels
    <2>3. CASE 0 \notin nonempty /\ 1 \notin nonempty /\ 2 \in nonempty BY <2>3 DEF Levels
    <2>4. CASE 0 \notin nonempty /\ 1 \notin nonempty /\ 2 \notin nonempty /\ 3 \in nonempty
      BY <2>4 DEF Levels
    <2>5. PICK x \in nonempty : TRUE OBVIOUS
    <2>6. x \in 0..3 BY DEF Levels
    <2>7. x = 0 \/ x = 1 \/ x = 2 \/ x = 3 BY <2>6
    <2> QED BY <2>1, <2>2, <2>3, <2>4, <2>7
  <1> QED BY <1>1 DEF TopLevel

-----------------------------------------------------------------------------
(* The inductive invariant.                                                 *)

IInv == TypeOK /\ RunqueueExact /\ QueuedOnce /\ BitmapExact /\ CountExact /\ BudgetInv

\* The part of it about the run queue, in the terms of the lemmas above.
LEMMA InvShape ==
    ASSUME TypeOK
    PROVE  /\ Queued = Members(queues)
           /\ QueuedOnce /\ BitmapExact <=> Exact(queues, nonempty, sched_level)
           /\ IsFiniteSet(Queued) /\ Cardinality(Queued) \in Nat
  <1>1. Queued = Members(queues) /\ Queued \subseteq Task
    BY DEF Queued, Members
  <1>2. IsFiniteSet(Queued) /\ Cardinality(Queued) \in Nat
    BY <1>1, SchedAssumption, FS_Subset, FS_CardinalityType
  <1>3. QueuedOnce /\ BitmapExact <=> Exact(queues, nonempty, sched_level)
    BY DEF TypeOK, QueuedOnce, BitmapExact, Exact, Distinct
  <1> QED BY <1>1, <1>2, <1>3

\* What schedule(st) does to the run queue and to the hart: with nothing queued
\* the hart stays, or goes idle when its task cannot go on; otherwise it is
\* handed to a queued task of the best level, and its task is queued again
\* exactly when it can go on.
Handed(st) ==
    /\ current' \in Queued
    /\ Queued' = (Queued \ {current'}) \cup
                     (IF current # idle_task /\ st = "running" THEN {current} ELSE {})
    /\ \A t \in Queued : sched_level[current'] <= sched_level[t]

Kept(st) ==
    /\ Queued = {} /\ Queued' = {}
    /\ current' = IF current = idle_task \/ st = "running" THEN current ELSE idle_task

LEMMA ScheduleOK ==
    ASSUME IInv, current \notin Queued, NEW st, schedule(st),
           state' \in [Task -> States]
    PROVE  TypeOK' /\ QueuedOnce' /\ BitmapExact' /\ CountExact' /\ BudgetInv'
           /\ (Handed(st) \/ Kept(st)) /\ sched_level' = sched_level
  <1>0. TypeOK /\ Exact(queues, nonempty, sched_level) /\ Queued = Members(queues)
        /\ IsFiniteSet(Queued) /\ runnable_count = Cardinality(Queued)
    BY InvShape DEF IInv, CountExact
  <1>1. /\ sched_level' = sched_level /\ time_slice' = time_slice
        /\ jiffies' = jiffies /\ mode' = "kernel"
        /\ need_resched' \in [Task -> BOOLEAN]
    BY <1>0 DEF schedule, TypeOK
  <1>2. BudgetInv'
    BY <1>1 DEF IInv, BudgetInv
  <1>3. CASE mlfq_empty
    <2>1. UNCHANGED <<queues, nonempty, runnable_count>>
          /\ current' = IF current = idle_task \/ st = "running" THEN current ELSE idle_task
      BY <1>3 DEF schedule, rq
    <2>2. Queued = {}
      BY <1>0, <1>3 DEF mlfq_empty, Exact, Queued, Range
    <2>3. Queued' = Queued BY <2>1 DEF Queued
    <2>4. Kept(st) BY <2>1, <2>2, <2>3 DEF Kept
    <2>5. TypeOK' BY <1>0, <1>1, <2>1 DEF TypeOK
    <2>6. QueuedOnce' /\ BitmapExact' /\ CountExact'
      BY <1>1, <2>1, <2>3 DEF IInv, QueuedOnce, BitmapExact, CountExact
    <2> QED BY <1>1, <1>2, <2>4, <2>5, <2>6
  <1>4. CASE ~mlfq_empty
    <2> DEFINE level == TopLevel
               next == Head(queues[level])
               rest == [queues EXCEPT ![level] = Tail(@)]
               bits == refresh_empty_mark(nonempty, level, rest[level])
    <2>1. level \in nonempty /\ level \in Levels /\ \A m \in nonempty : level <= m
      BY <1>0, <1>4, TopLevelOK DEF mlfq_empty, TypeOK
    <2>2. queues[level] \in Seq(Task) /\ Distinct(queues[level]) /\ queues[level] # <<>>
      BY <1>0, <2>1 DEF Exact
    <2> DEFINE tl == Tail(queues[level])
    <2>3. /\ next \in Range(queues[level]) /\ tl \in Seq(Task)
          /\ Range(tl) = Range(queues[level]) \ {next} /\ Distinct(tl)
      BY <2>2, TailQueue
    <2>4. next \in Task /\ next \in Queued /\ sched_level[next] = level
      BY <1>0, <2>1, <2>3, ExactTypes DEF Exact, Members
    <2>5. rest = [queues EXCEPT ![level] = tl] /\ rest[level] = tl
      BY <1>0, <2>1 DEF TypeOK
    <2>6. Exact(rest, bits, sched_level) /\ Members(rest) = Queued \ {next}
      <3> HIDE DEF level, next, rest, tl
      <3>1. bits = refresh_empty_mark(nonempty, sched_level[next], tl)
        BY <2>4, <2>5
      <3>2. rest = Deq(queues, sched_level, next, tl)
        BY <2>4, <2>5 DEF Deq
      <3>3. Range(tl) = Range(queues[sched_level[next]]) \ {next}
        BY <2>3, <2>4
      <3>4. next \in Members(queues)
        BY <1>0, <2>4
      <3> HIDE DEF bits
      <3>5. /\ Exact(Deq(queues, sched_level, next, tl),
                     refresh_empty_mark(nonempty, sched_level[next], tl), sched_level)
            /\ Members(Deq(queues, sched_level, next, tl)) = Members(queues) \ {next}
        BY <1>0, <2>3, <3>3, <3>4, TakeOK
      <3> QED BY <1>0, <3>1, <3>2, <3>5
    <2>7. next # current BY <2>4
    <2>8. \A t \in Queued : level <= sched_level[t]
      <3> SUFFICES ASSUME NEW t \in Queued PROVE level <= sched_level[t] OBVIOUS
      <3>1. t \in Range(queues[sched_level[t]]) /\ sched_level[t] \in Levels
        BY <1>0, ExactTypes
      <3>2. sched_level[t] \in nonempty BY <1>0, <3>1 DEF Exact, Range
      <3> QED BY <3>2, <2>1
    <2>9. current' = next BY <1>4 DEF schedule
    <2>10. CASE current # idle_task /\ st = "running"
      <3>1. current \in Task /\ current \notin Members(rest)
        BY <2>10, <1>0, <2>6 DEF TypeOK
      <3>2. /\ queues' = Enq(rest, sched_level, current)
            /\ nonempty' = bits \cup {sched_level[current]}
            /\ runnable_count' = runnable_count
        BY <1>4, <2>7, <2>10 DEF schedule, Enq
      <3> HIDE DEF rest, bits, next, level, tl
      <3>3. Exact(queues', nonempty', sched_level) /\ Members(queues') = (Queued \ {next}) \cup {current}
        <4>1. sched_level \in [Task -> Levels] BY <1>0 DEF TypeOK
        <4>2. /\ Exact(Enq(rest, sched_level, current),
                       bits \cup {sched_level[current]}, sched_level)
              /\ Members(Enq(rest, sched_level, current)) = Members(rest) \cup {current}
          BY <4>1, <2>6, <3>1, AddOK
        <4> QED BY <4>2, <2>6, <3>2
      <3>4. Queued' = (Queued \ {next}) \cup {current}
        BY <3>3 DEF Queued, Members
      <3>5. Handed(st) BY <2>4, <2>8, <2>9, <2>10, <3>4 DEF Handed
      <3>6. /\ Cardinality(Queued \ {next}) = Cardinality(Queued) - 1
            /\ IsFiniteSet(Queued \ {next})
        BY <1>0, <2>4, FS_RemoveElement
      <3>7. Cardinality(Queued') = Cardinality(Queued)
        <4>1. current \notin Queued \ {next} BY <3>1, <2>6
        <4>2. Cardinality((Queued \ {next}) \cup {current}) = Cardinality(Queued \ {next}) + 1
          BY <4>1, <3>6, FS_AddElement
        <4>3. Cardinality(Queued) \in Nat BY <1>0, FS_CardinalityType
        <4> QED BY <4>2, <4>3, <3>4, <3>6
      <3>8. CountExact' BY <3>2, <3>7, <1>0 DEF CountExact
      <3>9. TypeOK'
        BY <1>0, <1>1, <2>4, <2>9, <3>2, <3>3, ExactTypes DEF TypeOK, Exact
      <3>10. QueuedOnce' /\ BitmapExact'
        BY <1>1, <3>3 DEF Exact, QueuedOnce, BitmapExact, Distinct
      <3> QED BY <1>1, <1>2, <3>5, <3>8, <3>9, <3>10
    <2>11. CASE ~(current # idle_task /\ st = "running")
      <3>1. queues' = rest /\ nonempty' = bits /\ runnable_count' = runnable_count - 1
        BY <1>4, <2>11 DEF schedule
      <3> HIDE DEF rest, bits, next, level, tl
      <3>2. Queued' = Queued \ {next}
        BY <2>6, <3>1 DEF Queued, Members
      <3>3. Handed(st) BY <2>4, <2>8, <2>9, <2>11, <3>2 DEF Handed
      <3>4. Cardinality(Queued \ {next}) = Cardinality(Queued) - 1
            /\ Cardinality(Queued \ {next}) \in Nat
        BY <1>0, <2>4, FS_RemoveElement, FS_CardinalityType
      <3>5. CountExact' BY <3>1, <3>2, <3>4, <1>0 DEF CountExact
      <3>6. TypeOK'
        BY <1>0, <1>1, <2>4, <2>6, <2>9, <3>1, <3>4, ExactTypes DEF TypeOK, Exact
      <3>7. QueuedOnce' /\ BitmapExact'
        BY <1>1, <2>6, <3>1 DEF Exact, QueuedOnce, BitmapExact, Distinct
      <3> QED BY <1>1, <1>2, <3>3, <3>5, <3>6, <3>7
    <2> QED BY <2>10, <2>11
  <1> QED BY <1>3, <1>4

\* One tick leaves the running task a legal level and a legal slice, and never
\* improves its level.
LEMMA ChargeOK ==
    ASSUME IInv, NEW t \in Task
    PROVE  /\ Charge(t)[1] \in Levels /\ Charge(t)[2] \in 1..mlfq_level_slice(Charge(t)[1])
           /\ Charge(t)[1] >= sched_level[t] /\ Charge(t)[3] \in BOOLEAN
  <1>1. sched_level[t] \in Levels /\ time_slice[t] \in 1..mlfq_level_slice(sched_level[t])
    BY DEF IInv, TypeOK, BudgetInv
  <1> QED BY <1>1 DEF Charge, Levels, mlfq_level_slice

\* The boost gathers every queue into the first one.
LEMMA BoostOK ==
    ASSUME Exact(queues, nonempty, sched_level), mlfq_boost, NEW lw,
           \A t \in Members(queues) : lw[t] = 0
    PROVE  Exact(queues', nonempty', lw) /\ Members(queues') = Members(queues)
           /\ runnable_count' = runnable_count
  <1> DEFINE a == queues[0]  b == queues[1]  c == queues[2]  d == queues[3]
             all == a \o b \o c \o d
  <1>1. 0 \in Levels /\ 1 \in Levels /\ 2 \in Levels /\ 3 \in Levels
        /\ \A l \in Levels : l = 0 \/ l = 1 \/ l = 2 \/ l = 3
    BY DEF Levels
  <1>2. /\ a \in Seq(Task) /\ b \in Seq(Task) /\ c \in Seq(Task) /\ d \in Seq(Task)
        /\ Distinct(a) /\ Distinct(b) /\ Distinct(c) /\ Distinct(d)
    BY <1>1 DEF Exact
  <1>3. \A l, m \in Levels : l # m => Range(queues[l]) \cap Range(queues[m]) = {}
    BY DEF Exact
  <1>4. /\ Range(a) \cap Range(b) = {} /\ Range(a) \cap Range(c) = {} /\ Range(a) \cap Range(d) = {}
        /\ Range(b) \cap Range(c) = {} /\ Range(b) \cap Range(d) = {} /\ Range(c) \cap Range(d) = {}
    BY <1>1, <1>3
  <1>6. /\ all \in Seq(Task) /\ Distinct(all)
        /\ Range(all) = Range(a) \cup Range(b) \cup Range(c) \cup Range(d)
    <2> HIDE DEF a, b, c, d
    <2>1. a \o b \in Seq(Task) /\ Distinct(a \o b) /\ Range(a \o b) = Range(a) \cup Range(b)
      BY <1>2, <1>4, ConcatQueue
    <2> DEFINE ab == a \o b
    <2> HIDE DEF ab
    <2>2. ab \in Seq(Task) /\ Distinct(ab) /\ Range(ab) \cap Range(c) = {}
          /\ Range(ab) = Range(a) \cup Range(b)
      BY <1>4, <2>1 DEF ab
    <2>3. ab \o c \in Seq(Task) /\ Distinct(ab \o c) /\ Range(ab \o c) = Range(ab) \cup Range(c)
      BY <1>2, <2>2, ConcatQueue
    <2> DEFINE abc == ab \o c
    <2> HIDE DEF abc
    <2>4. abc \in Seq(Task) /\ Distinct(abc) /\ Range(abc) \cap Range(d) = {}
          /\ Range(abc) = Range(a) \cup Range(b) \cup Range(c)
      BY <1>4, <2>2, <2>3 DEF abc
    <2>5. abc \o d \in Seq(Task) /\ Distinct(abc \o d) /\ Range(abc \o d) = Range(abc) \cup Range(d)
      BY <1>2, <2>4, ConcatQueue
    <2> QED BY <2>4, <2>5 DEF ab, abc
  <1>7. queues' = [l \in Levels |-> IF l = 0 THEN all ELSE <<>>] /\ runnable_count' = runnable_count
    BY DEF mlfq_boost
  <1>8. /\ nonempty' = (nonempty \ {l \in Levels \ {0} : queues[l] # <<>>}) \cup
                (IF {l \in Levels \ {0} : queues[l] # <<>>} = {} THEN {} ELSE {0})
    BY DEF mlfq_boost
  <1> HIDE DEF all
  <1>9. /\ queues' \in [Levels -> Seq(Task)] /\ queues'[0] = all
        /\ \A l \in Levels : l # 0 => queues'[l] = <<>>
    BY <1>1, <1>6, <1>7
  <1>10. Range(<<>>) = {} /\ Distinct(<<>>)
    BY DEF Range, Distinct
  <1>11. Members(queues') = Members(queues)
    <2>1. ASSUME NEW t \in Members(queues') PROVE t \in Members(queues)
      BY <2>1, <1>1, <1>6, <1>9, <1>10 DEF Members
    <2>2. ASSUME NEW t \in Members(queues) PROVE t \in Members(queues')
      <3>1. t \in Task /\ (t \in Range(a) \/ t \in Range(b) \/ t \in Range(c) \/ t \in Range(d))
        BY <2>2, <1>1 DEF Members
      <3> QED BY <3>1, <1>1, <1>6, <1>9 DEF Members
    <2> QED BY <2>1, <2>2
  <1>12. \A l \in Levels : Distinct(queues'[l])
    BY <1>6, <1>9, <1>10
  <1>13. ASSUME NEW l \in Levels, NEW t \in Range(queues'[l]) PROVE lw[t] = l
    <2>1. l = 0 BY <1>13, <1>9, <1>10
    <2>2. t \in Range(all) BY <2>1, <1>13, <1>9
    <2>3. \A m \in Levels : Range(queues[m]) \subseteq Task BY ExactTypes
    <2>4. t \in Members(queues) BY <2>2, <2>3, <1>1, <1>6 DEF Members
    <2> QED BY <2>1, <2>4
  <1>14. nonempty' = {l \in Levels : queues'[l] # <<>>}
    <2>1. nonempty = {l \in Levels : queues[l] # <<>>} BY DEF Exact
    <2>2. all = <<>> <=> a = <<>> /\ b = <<>> /\ c = <<>> /\ d = <<>>
      BY <1>2 DEF all
    <2>3. 0 \in nonempty' <=> all # <<>>
      BY <2>1, <2>2, <1>1, <1>8
    <2>4. \A l \in nonempty' : l = 0
      BY <2>1, <1>1, <1>8
    <2> QED BY <2>3, <2>4, <1>1, <1>9
  <1> QED BY <1>7, <1>9, <1>11, <1>12, <1>13, <1>14 DEF Exact

\* sched_tick keeps the invariant, and improves levels only by a total boost.
LEMMA TickOK ==
    ASSUME IInv, sched_tick
    PROVE  /\ IInv' /\ Queued' = Queued
           /\ (\E t \in Task : sched_level'[t] < sched_level[t])
                => \A t \in Task : state[t] = "running" => sched_level'[t] = 0
  <1> DEFINE charged == current \in Task /\ state[current] = "running"
             boosted(t) == BoostDue /\ t \in Boosted
             billed(t) == charged /\ t = current
  <1>0. TypeOK /\ Exact(queues, nonempty, sched_level) /\ Queued = Members(queues)
        /\ runnable_count = Cardinality(Queued)
    BY InvShape DEF IInv, CountExact
  <1>1. /\ mode' = "kernel" /\ current' = current /\ state' = state /\ jiffies' = jiffies
        /\ mlfq_tick
    BY DEF sched_tick
  <1>2. sched_level' = [t \in Task |-> IF boosted(t) THEN 0
                          ELSE IF billed(t) THEN Charge(t)[1] ELSE sched_level[t]]
    BY <1>1 DEF mlfq_tick
  <1>3. time_slice' = [t \in Task |-> IF boosted(t) THEN mlfq_level_slice(0)
                          ELSE IF billed(t) THEN Charge(t)[2] ELSE time_slice[t]]
    BY <1>1 DEF mlfq_tick
  <1>4. need_resched' = [t \in Task |-> need_resched[t] \/ (billed(t) /\ Charge(t)[3])]
    BY <1>1 DEF mlfq_tick
  <1>5. IF BoostDue THEN mlfq_boost ELSE UNCHANGED rq
    BY <1>1 DEF mlfq_tick
  <1> HIDE DEF charged, boosted, billed
  <1>6. \A t \in Task : /\ sched_level'[t] \in Levels
                         /\ time_slice'[t] \in 1..mlfq_level_slice(sched_level'[t])
    <2>1. 0 \in Levels /\ mlfq_level_slice(0) \in 1..mlfq_level_slice(0)
      BY DEF Levels, mlfq_level_slice
    <2> QED BY <1>2, <1>3, <2>1, ChargeOK DEF IInv, TypeOK, BudgetInv
  <1>7. \A l \in Levels : mlfq_level_slice(l) \in 0..8
    BY DEF mlfq_level_slice
  <1>8. sched_level' \in [Task -> Levels] /\ time_slice' \in [Task -> 0..8]
    <2>1. \A t \in Task : time_slice'[t] \in 0..8 BY <1>6, <1>7
    <2> QED BY <1>2, <1>3, <1>6, <2>1
  <1>9. need_resched' \in [Task -> BOOLEAN]
    BY <1>4
  <1>10. Exact(queues', nonempty', sched_level') /\ Members(queues') = Members(queues)
         /\ runnable_count' = runnable_count
    <2>1. CASE BoostDue
      <3>1. \A t \in Members(queues) : sched_level'[t] = 0
        BY <2>1, <1>0, <1>2 DEF boosted, Boosted, Members
      <3> QED BY <3>1, <2>1, <1>0, <1>5, BoostOK
    <2>2. CASE ~BoostDue
      <3>1. \A t \in Members(queues) : sched_level'[t] = sched_level[t]
        BY <2>2, <1>0, <1>2 DEF boosted, billed, Members, IInv, RunqueueExact
      <3>2. queues' = queues /\ nonempty' = nonempty /\ runnable_count' = runnable_count
        BY <2>2, <1>5 DEF rq
      <3> QED BY <3>1, <3>2, <1>0, RelevelOK
    <2> QED BY <2>1, <2>2
  <1>11. Queued' = Queued
    BY <1>0, <1>10 DEF Queued, Members
  <1>12. TypeOK'
    BY <1>0, <1>1, <1>8, <1>9, <1>10, ExactTypes DEF TypeOK, Exact
  <1>13. RunqueueExact' /\ CountExact' /\ BudgetInv'
    BY <1>0, <1>1, <1>6, <1>10, <1>11 DEF IInv, RunqueueExact, CountExact, BudgetInv
  <1>14. QueuedOnce' /\ BitmapExact'
    BY <1>10 DEF Exact, QueuedOnce, BitmapExact, Distinct
  <1>15. ASSUME NEW u \in Task, sched_level'[u] < sched_level[u],
                NEW t \in Task, state[t] = "running"
         PROVE  sched_level'[t] = 0
    <2>1. boosted(u)
      <3>1. sched_level[u] \in Int /\ Charge(u)[1] \in Int /\ Charge(u)[1] >= sched_level[u]
        BY ChargeOK, <1>0 DEF TypeOK, Levels
      <3> QED BY <3>1, <1>2, <1>15
    <2>2. t \in Boosted
      BY <1>15 DEF Boosted, IInv, RunqueueExact
    <2> QED BY <2>1, <2>2, <1>2 DEF boosted
  <1> QED BY <1>11, <1>12, <1>13, <1>14, <1>15 DEF IInv

-----------------------------------------------------------------------------
(* Every action keeps the invariant.                                        *)

LEMMA InitOK == Init => IInv
  <1> SUFFICES ASSUME Init PROVE IInv
    OBVIOUS
  <1>1. TypeOK
    BY SchedAssumption DEF Init, TypeOK, States, Levels, mlfq_level_slice
  <1>2. \A l \in Levels : queues[l] = <<>> /\ Range(queues[l]) = {}
    BY DEF Init, Range
  <1>3. Queued = {}
    BY <1>2 DEF Queued
  <1>4. RunqueueExact
    BY <1>3 DEF Init, RunqueueExact
  <1>5. QueuedOnce /\ BitmapExact
    BY <1>2 DEF Init, QueuedOnce, BitmapExact
  <1>6. CountExact
    BY <1>3, FS_EmptySet DEF Init, CountExact
  <1>7. BudgetInv
    BY DEF Init, BudgetInv, mlfq_level_slice
  <1> QED BY <1>1, <1>4, <1>5, <1>6, <1>7 DEF IInv

\* A task enters the run queue at its level (creation and wakeup).
LEMMA AdmitOK ==
    ASSUME IInv, NEW t \in Task, t \notin Queued, t # current,
           mlfq_enqueue(t, sched_level'[t]),
           sched_level' \in [Task -> Levels],
           \A u \in Task \ {t} : sched_level'[u] = sched_level[u],
           time_slice' = [time_slice EXCEPT ![t] = mlfq_level_slice(sched_level'[t])],
           need_resched' \in [Task -> BOOLEAN],
           state' = [state EXCEPT ![t] = "running"],
           current' = current, mode' = mode, jiffies' = jiffies
    PROVE  IInv' /\ Queued' = Queued \cup {t}
  <1>0. TypeOK /\ Exact(queues, nonempty, sched_level) /\ Queued = Members(queues)
        /\ IsFiniteSet(Queued) /\ Cardinality(Queued) \in Nat
        /\ runnable_count = Cardinality(Queued)
    BY InvShape DEF IInv, CountExact
  <1>1. Exact(queues, nonempty, sched_level')
    BY <1>0, RelevelOK DEF Members
  <1>2. /\ queues' = Enq(queues, sched_level', t)
        /\ nonempty' = nonempty \cup {sched_level'[t]}
        /\ runnable_count' = runnable_count + 1
    BY DEF mlfq_enqueue, Enq
  <1>3. t \notin Members(queues)
    BY <1>0
  <1>4. Exact(queues', nonempty', sched_level') /\ Members(queues') = Members(queues) \cup {t}
    BY <1>1, <1>2, <1>3, AddOK
  <1>5. Queued' = Queued \cup {t}
    BY <1>0, <1>4 DEF Queued, Members
  <1>6. Cardinality(Queued \cup {t}) = Cardinality(Queued) + 1
    BY <1>0, FS_AddElement
  <1>7. CountExact'
    BY <1>0, <1>2, <1>5, <1>6 DEF CountExact
  <1>8. \A l \in Levels : mlfq_level_slice(l) \in 1..8
    BY DEF mlfq_level_slice
  <1>9. TypeOK'
    <2>1. sched_level'[t] \in Levels OBVIOUS
    <2>2. mlfq_level_slice(sched_level'[t]) \in 0..8 BY <2>1, <1>8
    <2>3. time_slice' \in [Task -> 0..8] BY <2>2, <1>0 DEF TypeOK
    <2>4. state' \in [Task -> States] BY <1>0 DEF TypeOK, States
    <2>5. queues' \in [Levels -> Seq(Task)] /\ nonempty' \subseteq Levels
      BY <1>4, ExactTypes DEF Exact
    <2> QED BY <1>0, <1>2, <2>3, <2>4, <2>5 DEF TypeOK
  <1>10. RunqueueExact'
    BY <1>0, <1>5 DEF IInv, RunqueueExact, TypeOK
  <1>11. QueuedOnce' /\ BitmapExact'
    BY <1>4 DEF Exact, QueuedOnce, BitmapExact, Distinct
  <1>12. BudgetInv'
    <2> SUFFICES ASSUME NEW u \in Task
                 PROVE  time_slice'[u] \in 1..mlfq_level_slice(sched_level'[u])
      BY DEF BudgetInv
    <2>1. CASE u = t
      <3>1. sched_level'[t] \in Levels OBVIOUS
      <3>2. mlfq_level_slice(sched_level'[t]) \in 1..8 BY <3>1, <1>8
      <3> QED BY <2>1, <3>2, <1>0 DEF TypeOK
    <2>2. CASE u # t BY <2>2, <1>0 DEF IInv, BudgetInv, TypeOK
    <2> QED BY <2>1, <2>2
  <1> QED BY <1>5, <1>7, <1>9, <1>10, <1>11, <1>12 DEF IInv

\* The running task calls schedule in state st, which becomes its state.
LEMMA GiveUpOK ==
    ASSUME IInv, NEW st \in States, schedule(st),
           \/ current \in Task /\ state' = [state EXCEPT ![current] = st]
           \/ current = idle_task /\ st = "running" /\ state' = state
    PROVE  IInv' /\ (Handed(st) \/ Kept(st)) /\ sched_level' = sched_level
  <1>1. state' \in [Task -> States] /\ current \notin Queued
    BY SchedAssumption DEF IInv, TypeOK, RunqueueExact, Queued
  <1>2. TypeOK' /\ QueuedOnce' /\ BitmapExact' /\ CountExact' /\ BudgetInv'
        /\ (Handed(st) \/ Kept(st)) /\ sched_level' = sched_level
    BY <1>1, ScheduleOK
  <1>3. \A t \in Task : t # current => state'[t] = state[t]
    BY DEF IInv, TypeOK
  <1>4. current \in Task => state'[current] = st
    BY SchedAssumption DEF IInv, TypeOK
  <1>5. Queued \subseteq Task BY DEF Queued
  <1>6. RunqueueExact'
    <2>1. CASE Handed(st)
      BY <2>1, <1>3, <1>4, <1>5, SchedAssumption DEF Handed, IInv, RunqueueExact, TypeOK
    <2>2. CASE Kept(st)
      BY <2>2, <1>3, <1>4, SchedAssumption DEF Kept, IInv, RunqueueExact, TypeOK
    <2> QED BY <2>1, <2>2, <1>2
  <1> QED BY <1>2, <1>6 DEF IInv

\* A step that leaves the run queue alone and changes at most the state of the
\* running task.
LEMMA QuietOK ==
    ASSUME IInv, UNCHANGED <<rq, entity, current>>,
           mode' \in {"user", "kernel", "irq"}, jiffies' \in 0..(HZ - 1),
           state' \in [Task -> States],
           \A t \in Task \ {current} : state'[t] = state[t]
    PROVE  IInv' /\ Queued' = Queued
  <1>1. UNCHANGED <<queues, nonempty, runnable_count, sched_level, time_slice, need_resched, current>>
    BY DEF rq, entity
  <1>2. Queued' = Queued BY <1>1 DEF Queued
  <1>3. TypeOK' BY <1>1 DEF IInv, TypeOK
  <1>4. RunqueueExact' BY <1>1, <1>2 DEF IInv, RunqueueExact
  <1>5. QueuedOnce' /\ BitmapExact' /\ CountExact' /\ BudgetInv'
    BY <1>1, <1>2 DEF IInv, QueuedOnce, BitmapExact, CountExact, BudgetInv
  <1> QED BY <1>2, <1>3, <1>4, <1>5 DEF IInv

LEMMA CreateOK ==
    ASSUME IInv, NEW t \in Task, Create(t)
    PROVE  IInv' /\ Queued' = Queued \cup {t}
  <1>1. 0 \in Levels BY DEF Levels
  <1>2. /\ sched_level' = [sched_level EXCEPT ![t] = 0]
        /\ time_slice' = [time_slice EXCEPT ![t] = mlfq_level_slice(0)]
        /\ need_resched' = [need_resched EXCEPT ![t] = FALSE]
        /\ state' = [state EXCEPT ![t] = "running"] /\ mlfq_enqueue(t, 0)
        /\ current' = current /\ mode' = mode /\ jiffies' = jiffies /\ state[t] = "new"
    BY DEF Create, mlfq_task_init
  <1>3. /\ sched_level' \in [Task -> Levels] /\ sched_level'[t] = 0
        /\ \A u \in Task \ {t} : sched_level'[u] = sched_level[u]
        /\ need_resched' \in [Task -> BOOLEAN]
    BY <1>1, <1>2 DEF IInv, TypeOK
  <1>4. t \notin Queued /\ t # current
    BY <1>2, SchedAssumption DEF Create, InKernel, IInv, RunqueueExact
  <1> QED BY <1>2, <1>3, <1>4, AdmitOK

LEMMA WakeOK ==
    ASSUME IInv, NEW t \in Task, Wake(t)
    PROVE  IInv' /\ Queued' = Queued \cup ({t} \ {current})
  <1>1. /\ state' = [state EXCEPT ![t] = "running"] /\ current' = current
        /\ mode' = mode /\ jiffies' = jiffies /\ state[t] # "running"
        /\ t # current => mlfq_wakeup(t)
        /\ t = current => UNCHANGED <<rq, entity>>
    BY DEF Wake, sched_wake_task
  <1>2. t \notin Queued
    BY <1>1 DEF IInv, RunqueueExact
  <1>3. CASE t = current
    <2>1. state' \in [Task -> States] BY <1>1 DEF IInv, TypeOK, States
    <2>2. \A u \in Task \ {current} : state'[u] = state[u] BY <1>1, <1>3 DEF IInv, TypeOK
    <2>3. mode' \in {"user", "kernel", "irq"} /\ jiffies' \in 0..(HZ - 1)
      BY <1>1 DEF IInv, TypeOK
    <2> QED BY <1>1, <1>3, <2>1, <2>2, <2>3, QuietOK
  <1>4. CASE t # current
    <2>1. /\ time_slice' = [time_slice EXCEPT ![t] = mlfq_level_slice(sched_level[t])]
          /\ mlfq_enqueue(t, sched_level[t])
          /\ sched_level' = sched_level /\ need_resched' = need_resched
      BY <1>1, <1>2, <1>4 DEF mlfq_wakeup
    <2>2. sched_level' \in [Task -> Levels] /\ need_resched' \in [Task -> BOOLEAN]
      BY <2>1 DEF IInv, TypeOK
    <2> QED BY <1>1, <1>2, <1>4, <2>1, <2>2, AdmitOK
  <1> QED BY <1>3, <1>4

LEMMA DetachOK ==
    ASSUME IInv, NEW t \in Task, detach_task_queues(t)
    PROVE  IInv' /\ Queued' = Queued \ {t}
  <1>0. TypeOK /\ Exact(queues, nonempty, sched_level) /\ Queued = Members(queues)
        /\ IsFiniteSet(Queued) /\ Cardinality(Queued) \in Nat
        /\ runnable_count = Cardinality(Queued)
    BY InvShape DEF IInv, CountExact
  <1>1. /\ t # current /\ mlfq_dequeue(t) /\ state' = [state EXCEPT ![t] = "zombie"]
        /\ UNCHANGED <<current, mode, sched_level, time_slice, need_resched, jiffies>>
    BY DEF detach_task_queues, entity
  <1>2. /\ Exact(queues', nonempty', sched_level) /\ Members(queues') = Queued \ {t}
        /\ runnable_count' = Cardinality(Queued \ {t}) /\ runnable_count' \in Nat
    <2>1. CASE t \notin Queued
      BY <2>1, <1>0, <1>1 DEF mlfq_dequeue, rq
    <2>2. CASE t \in Queued
      <3> DEFINE o == queues[sched_level[t]]
                 k == CHOOSE i \in DOMAIN o : o[i] = t
                 q == Unlink(o, t)
      <3>1. o \in Seq(Task) /\ Distinct(o) /\ t \in Range(o)
        BY <1>0, <2>2, ExactTypes DEF Exact
      <3>2. k \in DOMAIN o /\ o[k] = t
        BY <3>1 DEF Range
      <3>3. q = DelAt(o, k) BY DEF Unlink
      <3>4. /\ queues' = Deq(queues, sched_level, t, q)
            /\ nonempty' = refresh_empty_mark(nonempty, sched_level[t], q)
            /\ runnable_count' = runnable_count - 1
        BY <1>1, <2>2 DEF mlfq_dequeue, Deq
      <3> HIDE DEF q, k
      <3>5. q \in Seq(Task) /\ Range(q) = Range(o) \ {t} /\ Distinct(q)
        BY <3>1, <3>2, <3>3, DelAtQueue
      <3>6. Exact(queues', nonempty', sched_level) /\ Members(queues') = Members(queues) \ {t}
        BY <1>0, <2>2, <3>4, <3>5, TakeOK
      <3>7. Cardinality(Queued \ {t}) = Cardinality(Queued) - 1 /\ Cardinality(Queued \ {t}) \in Nat
        BY <1>0, <2>2, FS_RemoveElement, FS_CardinalityType
      <3> QED BY <1>0, <3>4, <3>6, <3>7
    <2> QED BY <2>1, <2>2
  <1>3. Queued' = Queued \ {t} BY <1>2 DEF Queued, Members
  <1>4. TypeOK'
    BY <1>0, <1>1, <1>2, ExactTypes DEF TypeOK, Exact, States
  <1>5. RunqueueExact'
    BY <1>0, <1>1, <1>3 DEF IInv, RunqueueExact, TypeOK
  <1>6. QueuedOnce' /\ BitmapExact' /\ CountExact' /\ BudgetInv'
    BY <1>1, <1>2, <1>3 DEF Exact, QueuedOnce, BitmapExact, CountExact, Distinct, IInv, BudgetInv
  <1> QED BY <1>3, <1>4, <1>5, <1>6 DEF IInv

\* Every step keeps the invariant.
LEMMA StepOK ==
    ASSUME IInv, [Next]_vars
    PROVE  IInv'
  <1>0. /\ mode \in {"user", "kernel", "irq"} /\ jiffies \in 0..(HZ - 1)
        /\ state \in [Task -> States] /\ HZ \in Nat \ {0}
    BY SchedAssumption DEF IInv, TypeOK
  <1>1. ASSUME NEW t \in Task, Create(t) PROVE IInv' BY <1>1, CreateOK
  <1>2. ASSUME NEW t \in Task, Wake(t) PROVE IInv' BY <1>2, WakeOK
  <1>3. ASSUME NEW t \in Task, detach_task_queues(t) PROVE IInv' BY <1>3, DetachOK
  <1>4. CASE Block
    <2>1. current \in Task /\ state' = [state EXCEPT ![current] = "sleeping"]
          /\ state' \in [Task -> States]
      BY <1>4, <1>0 DEF Block, InKernel, States
    <2>2. CASE mlfq_empty
      <3>1. UNCHANGED <<rq, entity, current>> /\ mode' = mode /\ jiffies' = jiffies
        BY <1>4, <2>2 DEF Block
      <3>2. \A t \in Task \ {current} : state'[t] = state[t] BY <2>1, <1>0
      <3> QED BY <1>0, <2>1, <3>1, <3>2, QuietOK
    <2>3. CASE ~mlfq_empty
      <3>1. schedule("sleeping") BY <1>4, <2>3 DEF Block
      <3> QED BY <2>1, <3>1, GiveUpOK DEF States
    <2> QED BY <2>2, <2>3
  <1>5. CASE BlockRetry
    <2>1. /\ current \in Task /\ schedule("sleeping") /\ state' = state
          /\ state[current] = "sleeping"
      BY <1>5 DEF BlockRetry
    <2>2. state' = [state EXCEPT ![current] = "sleeping"] BY <1>0, <2>1
    <2> QED BY <2>1, <2>2, GiveUpOK DEF States
  <1>6. CASE BlockDone
    <2>1. /\ current \in Task /\ state' = [state EXCEPT ![current] = "running"]
          /\ UNCHANGED <<rq, entity, current>> /\ mode' = mode /\ jiffies' = jiffies
      BY <1>6 DEF BlockDone
    <2>2. state' \in [Task -> States] /\ \A t \in Task \ {current} : state'[t] = state[t]
      BY <2>1, <1>0 DEF States
    <2> QED BY <1>0, <2>1, <2>2, QuietOK
  <1>7. CASE stop_current
    BY <1>7, GiveUpOK DEF stop_current, InKernel, States
  <1>8. CASE exit_schedule
    BY <1>8, GiveUpOK DEF exit_schedule, InKernel, States
  <1>9. CASE sched_yield
    <2>1. /\ current \in Task /\ schedule("running") /\ state' = state
          /\ state[current] = "running"
      BY <1>9 DEF sched_yield, InKernel
    <2>2. state' = [state EXCEPT ![current] = "running"] BY <1>0, <2>1
    <2> QED BY <2>1, <2>2, GiveUpOK DEF States
  <1>10. CASE UserReturn
    <2>1. current \in Task /\ state' = state /\ state[current] = "running"
      BY <1>10 DEF UserReturn, InKernel
    <2>2. CASE need_resched[current]
      <3>1. schedule("running") BY <1>10, <2>2 DEF UserReturn
      <3>2. state' = [state EXCEPT ![current] = "running"] BY <1>0, <2>1
      <3> QED BY <2>1, <3>1, <3>2, GiveUpOK DEF States
    <2>3. CASE ~need_resched[current]
      <3>1. UNCHANGED <<rq, entity, current>> /\ mode' = "user" /\ jiffies' = jiffies
        BY <1>10, <2>3 DEF UserReturn
      <3> QED BY <1>0, <2>1, <3>1, QuietOK
    <2> QED BY <2>2, <2>3
  <1>11. CASE Trap
    BY <1>0, <1>11, QuietOK DEF Trap
  <1>12. CASE IdleSchedule
    BY <1>12, GiveUpOK DEF IdleSchedule, States
  <1>13. CASE IrqEnter
    <2>1. jiffies' \in 0..(HZ - 1)
      BY <1>0, <1>13 DEF IrqEnter
    <2> QED BY <1>0, <1>13, <2>1, QuietOK DEF IrqEnter
  <1>14. CASE sched_tick BY <1>14, TickOK
  <1>15. CASE UNCHANGED vars
    BY <1>0, <1>15, QuietOK DEF vars, rq, entity
  <1> QED BY <1>1, <1>2, <1>3, <1>4, <1>5, <1>6, <1>7, <1>8, <1>9, <1>10, <1>11, <1>12,
             <1>13, <1>14, <1>15 DEF Next

-----------------------------------------------------------------------------
(* The theorems.                                                            *)

\* The inductive invariant holds in every reachable state.
THEOREM Invariance == Spec => []IInv
  <1>1. Init => IInv BY InitOK
  <1>2. IInv /\ [Next]_vars => IInv' BY StepOK
  <1> QED BY <1>1, <1>2, PTL DEF Spec

\* Type correctness of the scheduler's state, for any tasks and any HZ.
THEOREM TypeCorrect == Spec => []TypeOK
  <1>1. IInv => TypeOK BY DEF IInv
  <1> QED BY <1>1, Invariance, PTL

\* The run queue holds exactly the runnable tasks that are not on the hart, so a
\* wakeup is never lost and a dead or sleeping task is never dispatched.
THEOREM RunqueueCorrect == Spec => []RunqueueExact
  <1>1. IInv => RunqueueExact BY DEF IInv
  <1> QED BY <1>1, Invariance, PTL

\* The bitmap, the counter, the level queues and the budgets agree with it.
THEOREM BookkeepingCorrect == Spec => []Bookkeeping
  <1>1. IInv => Bookkeeping BY DEF IInv, Bookkeeping
  <1> QED BY <1>1, Invariance, PTL

\* The hart passes to another task only through schedule, to the best level.
LEMMA DispatchStep ==
    ASSUME IInv, [Next]_vars, current' # current, current' \in Task, NEW t \in Queued
    PROVE  sched_level[current'] <= sched_level[t]
  <1>0. /\ state \in [Task -> States] /\ idle_task \notin Task
    BY SchedAssumption DEF IInv, TypeOK
  <1> DEFINE Calls(st) == /\ schedule(st)
                          /\ \/ current \in Task /\ state' = [state EXCEPT ![current] = st]
                             \/ current = idle_task /\ st = "running" /\ state' = state
  <1>1. \E st \in States : Calls(st)
    <2>1. CASE Block BY <1>0, <2>1 DEF Block, InKernel, States
    <2>2. CASE BlockRetry
      <3>1. state = [state EXCEPT ![current] = "sleeping"] BY <1>0, <2>2 DEF BlockRetry
      <3> QED BY <3>1, <2>2 DEF BlockRetry, States
    <2>3. CASE stop_current BY <2>3 DEF stop_current, InKernel, States
    <2>4. CASE exit_schedule BY <2>4 DEF exit_schedule, InKernel, States
    <2>5. CASE sched_yield \/ UserReturn
      <3>1. state = [state EXCEPT ![current] = "running"]
        BY <1>0, <2>5 DEF sched_yield, UserReturn, InKernel
      <3> QED BY <3>1, <2>5 DEF sched_yield, UserReturn, InKernel, States
    <2>6. CASE IdleSchedule BY <2>6 DEF IdleSchedule, States
    <2> QED BY <2>1, <2>2, <2>3, <2>4, <2>5, <2>6
            DEF Next, vars, Create, Wake, detach_task_queues, BlockDone, Trap, IrqEnter, sched_tick
  <1>2. PICK st \in States : Calls(st) BY <1>1
  <1>3. Handed(st) \/ Kept(st) BY <1>2, GiveUpOK
  <1>4. Handed(st) BY <1>0, <1>3 DEF Kept
  <1> QED BY <1>4 DEF Handed

\* Every dispatch picks a task of the best waiting level.
THEOREM DispatchCorrect == Spec => DispatchBest
  <1>1. ASSUME IInv, [Next]_vars
        PROVE  [current' # current /\ current' \in Task
                 => \A t \in Queued : sched_level[current'] <= sched_level[t]]_vars
    BY <1>1, DispatchStep
  <1> QED BY <1>1, Invariance, PTL DEF Spec, DispatchBest

\* A task that was never created is at level 0, as mlfq_task_init leaves it.
NewAtTop == \A t \in Task : state[t] = "new" => sched_level[t] = 0

\* Outside creation and the tick, schedule and its callers leave levels alone.
LEMMA LevelStep ==
    ASSUME IInv, [Next]_vars
    PROVE  \/ sched_level' = sched_level
           \/ sched_tick
           \/ \E t \in Task : state[t] = "new" /\ sched_level' = [sched_level EXCEPT ![t] = 0]
  BY DEF Next, vars, entity, Create, mlfq_task_init, Wake, sched_wake_task, mlfq_wakeup,
         detach_task_queues, Block, BlockRetry, BlockDone, stop_current, exit_schedule,
         sched_yield, UserReturn, Trap, IdleSchedule, IrqEnter, schedule

LEMMA NewAtTopInvariant == Spec => []NewAtTop
  <1>1. Init => NewAtTop BY DEF Init, NewAtTop
  <1>2. ASSUME IInv, NewAtTop, [Next]_vars PROVE NewAtTop'
    <2>0. sched_level \in [Task -> Levels] /\ state \in [Task -> States]
      BY <1>2 DEF IInv, TypeOK
    <2>1. \A t \in Task : state'[t] = "new" => state[t] = "new"
      BY <1>2, <2>0 DEF Next, vars, entity, Create, Wake, sched_wake_task,
         detach_task_queues, Block, BlockRetry, BlockDone, stop_current, exit_schedule,
         sched_yield, UserReturn, Trap, IdleSchedule, IrqEnter, sched_tick
    <2>2. CASE sched_tick
      <3>1. \A t \in Task : state[t] = "new" =>
               sched_level'[t] = 0 \/ sched_level'[t] = sched_level[t]
        BY <2>2 DEF sched_tick, mlfq_tick
      <3> QED BY <1>2, <2>1, <3>1 DEF NewAtTop
    <2>3. CASE ~sched_tick
      BY <1>2, <2>0, <2>1, <2>3, LevelStep DEF NewAtTop
    <2> QED BY <2>2, <2>3
  <1> QED BY <1>1, <1>2, Invariance, PTL DEF Spec

\* Levels improve only in a boost, and a boost is total.
THEOREM BoostCorrect == Spec => BoostTotal
  <1> DEFINE A == (\E t \in Task : sched_level'[t] < sched_level[t])
                    => \A t \in Task : state[t] = "running" => sched_level'[t] = 0
  <1>1. ASSUME IInv, NewAtTop, [Next]_vars PROVE [A]_vars
    <2>0. sched_level \in [Task -> Levels] BY <1>1 DEF IInv, TypeOK
    <2>1. CASE sched_tick BY <2>1, <1>1, TickOK
    <2>2. CASE ~sched_tick
      <3>1. sched_level' = sched_level
        BY <1>1, <2>0, <2>2, LevelStep DEF NewAtTop
      <3>2. \A t \in Task : ~(sched_level[t] < sched_level[t]) BY <2>0 DEF Levels
      <3> QED BY <3>1, <3>2
    <2> QED BY <2>1, <2>2
  <1> QED BY <1>1, Invariance, NewAtTopInvariant, PTL DEF Spec, BoostTotal

-----------------------------------------------------------------------------
(* Refinement.                                                              *)

\* Tasks whose state does not change between running and not running.
LEMMA RunnableIs ==
    ASSUME IInv
    PROVE  /\ runnable = {t \in Task : state[t] = "running"}
           /\ Queued = runnable \ {current}
  BY DEF runnable, IInv, RunqueueExact, Queued

\* schedule hands over to a runnable task or quiesces.
LEMMA GiveUpRefines ==
    ASSUME IInv, NEW st \in States, schedule(st),
           \/ /\ current \in Task /\ state' = [state EXCEPT ![current] = st]
              /\ state[current] \in {"running", st}
           \/ current = idle_task /\ st = "running" /\ state' = state
    PROVE  [Abstract!Next]_(Abstract!vars)
  <1>1. IInv' /\ (Handed(st) \/ Kept(st)) BY GiveUpOK
  <1>2. /\ Queued = runnable \ {current} /\ runnable \subseteq Task
        /\ runnable = {t \in Task : state[t] = "running"}
        /\ runnable' = {t \in Task : state'[t] = "running"}
        /\ state \in [Task -> States] /\ idle_task \notin Task
    BY RunnableIs, SchedAssumption DEF runnable, IInv, TypeOK
  <1>3. /\ st = "running" => runnable' = runnable
        /\ st # "running" => runnable' = runnable \ {current}
    BY <1>2
  <1>4. CASE Handed(st)
    <2>1. current' \in Task /\ current' \in runnable \ {current}
      BY <1>2, <1>4 DEF Handed
    <2>2. Abstract!Dispatch(current')
      BY <1>3, <2>1 DEF Abstract!Dispatch
    <2> QED BY <2>1, <2>2 DEF Abstract!Next
  <1>5. CASE Kept(st) /\ (current = idle_task \/ st = "running")
    <2>1. st = "running" BY <1>2, <1>5
    <2>2. runnable' = runnable /\ current' = current BY <1>3, <1>5, <2>1 DEF Kept
    <2> QED BY <2>2 DEF Abstract!vars
  <1>6. CASE Kept(st) /\ ~(current = idle_task \/ st = "running")
    <2>1. Abstract!Quiesce
      BY <1>2, <1>3, <1>6 DEF Kept, Abstract!Quiesce
    <2> QED BY <2>1 DEF Abstract!Next
  <1> QED BY <1>1, <1>4, <1>5, <1>6

LEMMA StepRefines ==
    ASSUME IInv, [Next]_vars
    PROVE  [Abstract!Next]_(Abstract!vars)
  <1>0. /\ state \in [Task -> States] /\ idle_task \notin Task
        /\ runnable = {t \in Task : state[t] = "running"}
        /\ runnable' = {t \in Task : state'[t] = "running"}
        /\ Queued = runnable \ {current}
    BY RunnableIs, SchedAssumption DEF IInv, TypeOK, runnable
  <1>1. ASSUME NEW t \in Task, Create(t) \/ Wake(t) PROVE Abstract!Next
    <2>1. /\ current' = current /\ state' = [state EXCEPT ![t] = "running"]
          /\ state[t] # "running"
      BY <1>1 DEF Create, Wake, sched_wake_task
    <2>2. Abstract!Admit(t) BY <1>0, <2>1 DEF Abstract!Admit
    <2> QED BY <2>2 DEF Abstract!Next
  <1>2. ASSUME NEW t \in Task, detach_task_queues(t) PROVE Abstract!Next
    <2>1. /\ t # current /\ current' = current /\ state' = [state EXCEPT ![t] = "zombie"]
      BY <1>2 DEF detach_task_queues
    <2>2. Abstract!Remove(t) BY <1>0, <2>1 DEF Abstract!Remove
    <2> QED BY <2>2 DEF Abstract!Next
  <1>3. CASE Block
    <2>1. /\ current \in Task /\ state[current] = "running"
          /\ state' = [state EXCEPT ![current] = "sleeping"]
      BY <1>3 DEF Block, InKernel
    <2>2. CASE mlfq_empty
      <3>1. current' = current BY <1>3, <2>2 DEF Block
      <3>2. Queued = {}
        BY <2>2, InvShape DEF IInv, mlfq_empty, Exact, Queued, Range
      <3>3. Abstract!Quiesce BY <1>0, <2>1, <3>1, <3>2 DEF Abstract!Quiesce
      <3> QED BY <3>3 DEF Abstract!Next
    <2>3. CASE ~mlfq_empty
      <3>1. schedule("sleeping") BY <1>3, <2>3 DEF Block
      <3> QED BY <2>1, <3>1, GiveUpRefines DEF States
    <2> QED BY <2>2, <2>3
  <1>4. CASE BlockRetry
    <2>1. /\ current \in Task /\ state[current] = "sleeping" /\ schedule("sleeping")
          /\ state' = [state EXCEPT ![current] = "sleeping"]
      BY <1>0, <1>4 DEF BlockRetry
    <2> QED BY <2>1, GiveUpRefines DEF States
  <1>5. CASE BlockDone
    <2>1. /\ current' = current /\ current \in Task /\ state[current] = "sleeping"
          /\ state' = [state EXCEPT ![current] = "running"]
      BY <1>5 DEF BlockDone
    <2>2. Abstract!Admit(current) BY <1>0, <2>1 DEF Abstract!Admit
    <2> QED BY <2>1, <2>2 DEF Abstract!Next
  <1>6. CASE stop_current BY <1>6, GiveUpRefines DEF stop_current, InKernel, States
  <1>7. CASE exit_schedule BY <1>7, GiveUpRefines DEF exit_schedule, InKernel, States
  <1>8. CASE sched_yield \/ (UserReturn /\ need_resched[current])
    <2>1. /\ current \in Task /\ state[current] = "running" /\ schedule("running")
          /\ state' = [state EXCEPT ![current] = "running"]
      BY <1>0, <1>8 DEF sched_yield, UserReturn, InKernel
    <2> QED BY <2>1, GiveUpRefines DEF States
  <1>9. CASE IdleSchedule BY <1>9, GiveUpRefines DEF IdleSchedule, States
  <1>10. CASE (UserReturn /\ ~need_resched[current]) \/ Trap \/ IrqEnter \/ sched_tick
              \/ UNCHANGED vars
    <2>1. current' = current /\ state' = state
      BY <1>10 DEF UserReturn, Trap, IrqEnter, sched_tick, vars
    <2> QED BY <1>0, <2>1 DEF Abstract!vars
  <1> QED BY <1>1, <1>2, <1>3, <1>4, <1>5, <1>6, <1>7, <1>8, <1>9, <1>10 DEF Next

\* The MLFQ scheduler implements the abstract run set.
THEOREM Refinement == Spec => ImplementsRunSet
  <1>1. Init => Abstract!Init
    BY DEF Init, Abstract!Init, runnable
  <1>2. IInv /\ [Next]_vars => [Abstract!Next]_(Abstract!vars)
    BY StepRefines
  <1> QED BY <1>1, <1>2, Invariance, PTL DEF Spec, ImplementsRunSet, Abstract!Spec
=============================================================================
