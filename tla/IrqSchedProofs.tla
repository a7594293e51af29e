--------------------------- MODULE IrqSchedProofs ---------------------------
(***************************************************************************)
(* With the timer interrupt between any two instruction groups of          *)
(* schedule(), no task is linked twice and no sleeping task is dispatched, *)
(* for every set of user tasks and kernel threads: the properties of       *)
(* IrqSched, proved from an invariant that is inductive.                   *)
(***************************************************************************)
EXTENDS IrqSched, FiniteSetTheorems

\* What the proofs need of the constants.
Constants == idle_task \notin Task /\ IsFiniteSet(Task)

-----------------------------------------------------------------------------
(* The inductive invariant.                                                *)

\* schedule() has picked a task; its caller may be back in the queue.
Chosen == {"refresh", "clear", "load", "store", "requeue", "inc_load", "inc_store", "set", "switch"}
Requeued == {"inc_load", "inc_store", "set", "switch"}
OnWayOut == {"trapret", "trapret_sstatus", "sret", "user"}
IdlePoints == Chosen \cup {"idle", "test", "pick", "resumed", "off"}

\* Where the threads are: only one is not switched out, the idle thread never
\* leaves its loop, and only user tasks go to user mode.
PlaceOK ==
  /\ pc[hart] \notin {"fresh", "off"}
  /\ \A t \in Thread : t # hart => pc[t] \in {"fresh", "off"}
  /\ pc[idle_task] \in IdlePoints /\ cont[idle_task] = "idle" /\ state[idle_task] = "running"
  /\ \A t \in Thread : pc[t] \in OnWayOut \/ cont[t] = "trapret" => t \in User
  /\ current = IF At("switch") THEN next ELSE hart
  /\ bug => At("store")
  /\ At("store") => (bug <=> tmp = 0)

\* The task that was picked is runnable and no longer in the queue, and neither is
\* the caller before it is put back.
PickOK ==
  /\ Distinct(queue)
  /\ \A t \in Range(queue) : state[t] = "running"
  /\ pc[hart] \notin Requeued => hart \notin Range(queue)
  /\ pc[hart] \in Chosen => next # hart /\ next \notin Range(queue) /\ state[next] = "running"

IInv == TypeOK /\ PlaceOK /\ PickOK

-----------------------------------------------------------------------------
(* Steps that only move the thread that has the hart.                      *)

\* A step of the thread on the hart that leaves the queue, the tasks' states and
\* the pick alone keeps the invariant, if where it goes asks no more than where it
\* was.
LEMMA MoveOK ==
  ASSUME Constants, IInv, TypeOK', NEW p \in Points \ {"fresh", "off", "switch"},
         Goto(p), pc[hart] # "switch",
         UNCHANGED <<current, hart, queue, state, next>>,
         p \in Chosen => pc[hart] \in Chosen,
         pc[hart] \in Requeued => p \in Requeued,
         hart = idle_task => p \in IdlePoints,
         p \in OnWayOut => hart \in User,
         \A t \in Thread : cont'[t] = "trapret" => t \in User,
         cont'[idle_task] = "idle",
         bug' => p = "store",
         p = "store" => (bug' <=> tmp' = 0)
  PROVE  IInv'
  <1>1. pc' \in [Thread -> Points] /\ pc'[hart] = p /\ \A t \in Thread : t # hart => pc'[t] = pc[t]
    BY DEF IInv, TypeOK, Goto
  <1>2. hart' = hart /\ current' = current /\ queue' = queue /\ state' = state /\ next' = next
    OBVIOUS
  <1>3. PlaceOK'
    <2>1. pc'[hart'] \notin {"fresh", "off"} /\ \A t \in Thread : t # hart' => pc'[t] \in {"fresh", "off"}
      BY <1>1, <1>2 DEF IInv, PlaceOK
    <2>2. pc'[idle_task] \in IdlePoints /\ cont'[idle_task] = "idle" /\ state'[idle_task] = "running"
      BY <1>1, <1>2 DEF IInv, PlaceOK, Thread
    <2>3. \A t \in Thread : pc'[t] \in OnWayOut \/ cont'[t] = "trapret" => t \in User
      BY <1>1, <1>2 DEF IInv, PlaceOK, OnWayOut
    <2>4. current' = IF pc'[hart'] = "switch" THEN next' ELSE hart'
      BY <1>1, <1>2 DEF IInv, PlaceOK, At
    <2>5. /\ bug' => pc'[hart'] = "store"
          /\ pc'[hart'] = "store" => (bug' <=> tmp' = 0)
      BY <1>1, <1>2
    <2> QED BY <2>1, <2>2, <2>3, <2>4, <2>5 DEF PlaceOK, At
  <1>4. PickOK'
    BY <1>1, <1>2 DEF IInv, PickOK
  <1> QED BY <1>3, <1>4 DEF IInv

\* Entering the kernel, leaving it, and the steps of schedule() that only look.
LEMMA LocalSteps ==
  ASSUME Constants, IInv,
         Trap \/ UserReturn \/ trapret_sepc \/ trapret_sstatus \/ sret \/ wait_block_current \/ Idle \/ resume \/ start
  PROVE  IInv'
  <1> USE DEF IInv, TypeOK, PlaceOK, At, Points, Chosen, Requeued, OnWayOut, IdlePoints, Thread, locals, rq
  <1>1. CASE Trap
    <2>1. TypeOK'
      BY <1>1 DEF Trap, Goto
    <2> HIDE DEF IInv
    <2> QED BY <1>1, <2>1, MoveOK DEF Trap, IInv
  <1>2. CASE UserReturn
    <2>1. CASE Goto("trapret") /\ UNCHANGED locals
      <3>1. TypeOK'
        BY <1>2, <2>1 DEF UserReturn, Goto
      <3> QED BY <1>2, <2>1, <3>1, MoveOK DEF UserReturn
    <2>2. CASE Call("trapret")
      <3>1. TypeOK'
        BY <1>2, <2>2 DEF UserReturn, Goto, Call
      <3> QED BY <1>2, <2>2, <3>1, MoveOK DEF UserReturn, Call
    <2> QED BY <1>2, <2>1, <2>2 DEF UserReturn
  <1>3. CASE trapret_sepc
    <2>1. TypeOK'
      BY <1>3 DEF trapret_sepc, Goto
    <2> QED BY <1>3, <2>1, MoveOK DEF trapret_sepc
  <1>4. CASE trapret_sstatus
    <2>1. TypeOK'
      BY <1>4 DEF trapret_sstatus, Goto
    <2> QED BY <1>4, <2>1, MoveOK DEF trapret_sstatus
  <1>5. CASE sret
    <2>1. TypeOK'
      BY <1>5 DEF sret, Goto
    <2> QED BY <1>5, <2>1, MoveOK DEF sret
  <1>6. CASE wait_block_current
    <2>1. CASE state[hart] # "sleeping" /\ Goto("kernel") /\ UNCHANGED <<sie, locals>>
      <3>1. TypeOK'
        BY <1>6, <2>1 DEF wait_block_current, Goto
      <3> QED BY <1>6, <2>1, <3>1, MoveOK DEF wait_block_current
    <2>2. CASE state[hart] = "sleeping" /\ mark /\ Call("kernel") /\ UNCHANGED sie
      <3>1. TypeOK'
        BY <1>6, <2>2 DEF wait_block_current, Goto, Call
      <3> QED BY <1>6, <2>2, <3>1, MoveOK DEF wait_block_current, Call
    <2>3. CASE /\ state[hart] = "sleeping" /\ ~mark
               /\ entry_sie' = [entry_sie EXCEPT ![hart] = sie] /\ UNCHANGED cont
               /\ sie' = TRUE /\ Goto("wfi")
      <3>1. TypeOK'
        BY <1>6, <2>3 DEF wait_block_current, Goto
      <3> QED BY <1>6, <2>3, <3>1, MoveOK DEF wait_block_current
    <2> QED BY <1>6, <2>1, <2>2, <2>3 DEF wait_block_current
  <1>7. CASE Idle
    <2>1. TypeOK'
      BY <1>7 DEF Idle, Goto, Call
    <2> QED BY <1>7, <2>1, MoveOK DEF Idle, Call
  <1>8. CASE resume
    <2>1. TypeOK'
      BY <1>8 DEF resume, Goto
    <2> QED BY <1>8, <2>1, MoveOK DEF resume
  <1>9. CASE start
    <2>1. CASE hart \in User
      <3>1. TypeOK'
        BY <1>9, <2>1 DEF start, Goto
      <3> QED BY <1>9, <2>1, <3>1, MoveOK DEF start
    <2>2. CASE hart \notin User
      <3>1. TypeOK'
        BY <1>9, <2>2 DEF start, Goto
      <3> QED BY <1>9, <2>2, <3>1, MoveOK DEF start
    <2> QED BY <2>1, <2>2
  <1> QED BY <1>1, <1>2, <1>3, <1>4, <1>5, <1>6, <1>7, <1>8, <1>9

\* The steps of schedule() that work on the bitmap and the count.
LEMMA CountSteps ==
  ASSUME Constants, IInv,
         refresh_test \/ refresh_clear \/ count_load \/ count_store \/ inc_load \/ inc_store
  PROVE  IInv'
  <1> USE DEF IInv, TypeOK, PlaceOK, At, Points, Chosen, Requeued, OnWayOut, IdlePoints, Thread, locals, rq
  <1>1. CASE refresh_test
    <2> DEFINE p == IF queue = <<>> THEN "clear" ELSE "load"
    <2>1. p \in {"clear", "load"} /\ Goto(p)
      BY <1>1 DEF refresh_test
    <2> HIDE DEF p
    <2>2. TypeOK'
      BY <1>1, <2>1 DEF refresh_test, Goto
    <2> QED BY <1>1, <2>1, <2>2, MoveOK DEF refresh_test
  <1>2. CASE refresh_clear
    <2>1. TypeOK'
      BY <1>2 DEF refresh_clear, Goto
    <2> QED BY <1>2, <2>1, MoveOK DEF refresh_clear
  <1>3. CASE count_load
    <2>1. TypeOK'
      BY <1>3 DEF count_load, Goto
    <2>2. bug' <=> tmp' = 0
      BY <1>3 DEF count_load
    <2> QED BY <1>3, <2>1, <2>2, MoveOK DEF count_load
  <1>4. CASE count_store
    <2>1. next # current /\ tmp # 0 /\ tmp - 1 \in Nat
      BY <1>4 DEF count_store, PickOK
    <2>2. Goto("requeue")
      BY <1>4, <2>1 DEF count_store
    <2>3. TypeOK'
      BY <1>4, <2>1, <2>2 DEF count_store, Goto
    <2> QED BY <1>4, <2>2, <2>3, MoveOK DEF count_store
  <1>5. CASE inc_load
    <2>1. TypeOK'
      BY <1>5 DEF inc_load, Goto
    <2> QED BY <1>5, <2>1, MoveOK DEF inc_load
  <1>6. CASE inc_store
    <2>1. TypeOK'
      BY <1>6 DEF inc_store, Goto
    <2> QED BY <1>6, <2>1, MoveOK DEF inc_store
  <1> QED BY <1>1, <1>2, <1>3, <1>4, <1>5, <1>6

-----------------------------------------------------------------------------
(* Falling asleep and waking up.                                           *)

\* A task that marks itself asleep is not in the queue, and the idle thread does
\* not sleep.
LEMMA SleepOK ==
  ASSUME Constants, IInv, Sleep \/ WfiDone
  PROVE  IInv'
  <1> USE DEF IInv, TypeOK, At, Points, Thread, locals, rq
  <1>1. /\ hart' = hart /\ current' = current /\ queue' = queue /\ next' = next /\ UNCHANGED <<cont, bug, tmp>>
        /\ pc[hart] \in {"kernel", "wfi"}
        /\ \E p \in {"kernel", "block"} : Goto(p)
        /\ \E s \in {"sleeping", "running"} : state' = [state EXCEPT ![hart] = s]
    BY DEF Sleep, WfiDone
  <1>2. TypeOK'
    BY DEF Sleep, WfiDone, Goto
  <1>3. /\ pc'[hart] \in {"kernel", "block"}
        /\ \A t \in Thread : t # hart => pc'[t] = pc[t] /\ state'[t] = state[t]
    BY <1>1 DEF Goto
  <1>4. hart # idle_task /\ hart \notin Range(queue)
    BY <1>1 DEF PlaceOK, PickOK, IdlePoints, Chosen, Requeued
  <1>5. PlaceOK'
    BY <1>1, <1>3, <1>4 DEF PlaceOK, IdlePoints, Chosen, OnWayOut
  <1>6. Range(queue) \subseteq Thread
    BY DEF Range
  <1>7. PickOK'
    BY <1>1, <1>3, <1>4, <1>6 DEF PickOK, Chosen, Requeued
  <1> QED BY <1>2, <1>5, <1>7

\* A wakeup queues a sleeper, unless it is current: the task that schedule() has
\* picked is runnable and cannot be woken.
LEMMA WakeOK ==
  ASSUME Constants, IInv, NEW t \in Task, sched_wake_task(t), sepc' \in User \cup {kernel_pc},
         UNCHANGED <<sie, current, hart, pc, locals, next, tmp, bug>>
  PROVE  IInv'
  <1> USE DEF IInv, TypeOK, At, Points, Thread, locals, rq
  <1>1. t # idle_task
    BY DEF Constants
  <1>2. /\ t \notin Range(queue)
        /\ state[t] = "sleeping" /\ state' = [state EXCEPT ![t] = "running"]
        /\ pc[hart] \in Chosen => t # next
    BY DEF sched_wake_task, PickOK
  <1>3. Range(queue) \subseteq Thread
    BY DEF Range
  <1>4. PlaceOK'
    BY <1>1, <1>2 DEF PlaceOK
  <1>5. CASE t # current
    <2>1. /\ queue' = Append(queue, t) /\ mark' = TRUE
          /\ runnable_count' = runnable_count + 1
      BY <1>2, <1>5 DEF sched_wake_task, Linked
    <2>2. queue' \in Seq(Task) /\ Range(queue') = Range(queue) \cup {t} /\ Distinct(queue')
      BY <1>2, <2>1, AppendQueue DEF PickOK
    <2>3. TypeOK'
      BY <1>2, <2>1, <2>2
    <2>4. pc[hart] \notin Requeued => t # hart
      BY <1>5 DEF PlaceOK, Requeued
    <2>5. PickOK'
      BY <1>2, <1>3, <2>2, <2>4 DEF PickOK
    <2> QED BY <1>4, <2>3, <2>5
  <1>6. CASE t = current
    <2>1. UNCHANGED rq
      BY <1>6 DEF sched_wake_task
    <2>2. TypeOK'
      BY <1>2, <2>1
    <2>3. PickOK'
      BY <1>2, <1>3, <2>1 DEF PickOK
    <2> QED BY <1>4, <2>2, <2>3
  <1> QED BY <1>5, <1>6

-----------------------------------------------------------------------------
(* Picking, requeueing and switching.                                      *)

\* With nothing queued, a sleeping caller gives the hart to idle, which is always
\* runnable and never queued.
LEMMA TestOK ==
  ASSUME Constants, IInv, sched_test
  PROVE  IInv'
  <1> USE DEF IInv, TypeOK, At, Points, Thread, locals, rq
  <1>1. CASE mark /\ Goto("pick") /\ UNCHANGED next
    <2>1. TypeOK'
      BY <1>1 DEF sched_test, Goto
    <2> QED BY <1>1, <2>1, MoveOK DEF sched_test, PlaceOK, Chosen, Requeued, OnWayOut, IdlePoints
  <1>2. CASE ~mark /\ state[hart] = "running" /\ Goto("resumed") /\ UNCHANGED next
    <2>1. TypeOK'
      BY <1>2 DEF sched_test, Goto
    <2> QED BY <1>2, <2>1, MoveOK DEF sched_test, PlaceOK, Chosen, Requeued, OnWayOut, IdlePoints
  <1>3. CASE ~mark /\ state[hart] # "running" /\ next' = idle_task /\ Goto("set")
    <2>1. /\ hart' = hart /\ current' = current /\ queue' = queue /\ state' = state
          /\ cont' = cont /\ tmp' = tmp /\ bug' = bug
          /\ pc[hart] = "test" /\ pc'[hart] = "set"
          /\ \A t \in Thread : t # hart => pc'[t] = pc[t]
      BY <1>3 DEF sched_test, Goto
    <2>2. TypeOK'
      BY <1>3 DEF sched_test, Goto
    <2>3. hart # idle_task
      BY <1>3 DEF PlaceOK
    <2>4. PlaceOK'
      BY <2>1, <2>3 DEF PlaceOK, OnWayOut
    <2>5. idle_task \notin Range(queue)
      BY DEF Constants, Range
    <2>6. PickOK'
      BY <1>3, <2>1, <2>3, <2>5 DEF PickOK, PlaceOK, Requeued
    <2> QED BY <2>2, <2>4, <2>6
  <1> QED BY <1>1, <1>2, <1>3 DEF sched_test

\* The task taken from the head is runnable, is not the caller and is in the queue
\* no more.
LEMMA UnlinkOK ==
  ASSUME Constants, IInv, dequeue_unlink
  PROVE  IInv'
  <1> USE DEF IInv, TypeOK, At, Points, Thread, locals, rq
  <1>1. /\ hart' = hart /\ current' = current /\ state' = state
        /\ cont' = cont /\ tmp' = tmp /\ bug' = bug
        /\ pc[hart] = "pick" /\ pc'[hart] = "refresh"
        /\ \A t \in Thread : t # hart => pc'[t] = pc[t]
    BY DEF dequeue_unlink, Goto
  <1>2. /\ next' \in Range(queue) /\ queue' \in Seq(Task)
        /\ Range(queue') = Range(queue) \ {next'} /\ Distinct(queue')
    BY TailQueue DEF dequeue_unlink, PickOK
  <1>3. Range(queue) \subseteq Task
    BY DEF Range
  <1>4. TypeOK'
    BY <1>2, <1>3 DEF dequeue_unlink, Goto
  <1>5. PlaceOK'
    BY <1>1 DEF PlaceOK, OnWayOut, IdlePoints, Chosen
  <1>6. PickOK'
    BY <1>1, <1>2 DEF PickOK, Requeued
  <1> QED BY <1>4, <1>5, <1>6

\* The caller goes back to the tail only if it is running.
LEMMA RequeueOK ==
  ASSUME Constants, IInv, requeue_prev
  PROVE  IInv'
  <1> USE DEF IInv, TypeOK, At, Points, Thread, locals, rq
  <1>1. pc[hart] = "requeue" /\ hart \notin Range(queue)
    BY DEF requeue_prev, PickOK, Requeued
  <1>2. CASE hart # idle_task /\ state[hart] = "running"
    <2>1. /\ hart' = hart /\ current' = current /\ state' = state /\ next' = next
          /\ cont' = cont /\ tmp' = tmp /\ bug' = bug
          /\ queue' = Append(queue, hart) /\ mark' = TRUE
          /\ pc' = [pc EXCEPT ![hart] = "inc_load"]
      BY <1>1, <1>2 DEF requeue_prev, Linked, Goto
    <2>2. queue' \in Seq(Task) /\ Range(queue') = Range(queue) \cup {hart} /\ Distinct(queue')
      BY <1>1, <1>2, <2>1, AppendQueue DEF PickOK
    <2>3. TypeOK'
      BY <2>1, <2>2 DEF requeue_prev
    <2>4. PlaceOK'
      BY <1>1, <2>1 DEF PlaceOK, OnWayOut, IdlePoints, Chosen
    <2>5. PickOK'
      BY <1>1, <1>2, <2>1, <2>2 DEF PickOK, Requeued, Chosen
    <2> QED BY <2>3, <2>4, <2>5
  <1>3. CASE ~(hart # idle_task /\ state[hart] = "running")
    <2>1. Goto("set") /\ UNCHANGED <<queue, mark>>
      BY <1>3 DEF requeue_prev
    <2>2. TypeOK'
      BY <2>1 DEF requeue_prev, Goto
    <2> QED
      BY <1>1, <2>1, <2>2, MoveOK DEF requeue_prev, PlaceOK, Chosen, Requeued, OnWayOut, IdlePoints
  <1> QED BY <1>2, <1>3

\* current changes before the stack does.
LEMMA SetCurrentOK ==
  ASSUME Constants, IInv, set_current
  PROVE  IInv'
  <1> USE DEF IInv, TypeOK, At, Points, Thread, locals, rq
  <1>1. /\ hart' = hart /\ current' = next /\ state' = state /\ next' = next /\ queue' = queue
        /\ cont' = cont /\ tmp' = tmp /\ bug' = bug
        /\ pc[hart] = "set" /\ pc' = [pc EXCEPT ![hart] = "switch"]
    BY DEF set_current, Goto
  <1>2. TypeOK'
    BY <1>1 DEF set_current
  <1>3. PlaceOK'
    BY <1>1 DEF PlaceOK, OnWayOut, IdlePoints, Chosen
  <1>4. PickOK'
    BY <1>1 DEF PickOK, Requeued, Chosen
  <1> QED BY <1>2, <1>3, <1>4

\* The task that is switched to is in the queue no more, and has the hart.
LEMMA SwitchOK ==
  ASSUME Constants, IInv, switch_to
  PROVE  IInv'
  <1> USE DEF IInv, TypeOK, At, Points, Thread, locals, rq
  <1>1. /\ hart' = next /\ current' = current /\ state' = state /\ next' = next /\ queue' = queue
        /\ cont' = cont /\ tmp' = tmp /\ bug' = bug /\ pc[hart] = "switch"
    BY DEF switch_to
  <1>2. next # hart /\ next \notin Range(queue) /\ current = next
    BY <1>1 DEF PickOK, PlaceOK, Chosen
  <1>3. /\ pc' \in [Thread -> Points]
        /\ pc'[hart] = "off" /\ pc'[next] \in {"start", "resumed"}
        /\ pc[next] # "fresh" => pc'[next] = "resumed"
        /\ \A t \in Thread : t # hart /\ t # next => pc'[t] = pc[t]
    BY <1>2 DEF switch_to
  <1>4. TypeOK'
    BY <1>1, <1>3 DEF switch_to
  <1>5. PlaceOK'
    <2>1. pc'[hart'] \notin {"fresh", "off"} /\ \A t \in Thread : t # hart' => pc'[t] \in {"fresh", "off"}
      BY <1>1, <1>2, <1>3 DEF PlaceOK
    <2>2. pc'[idle_task] \in IdlePoints
      BY <1>1, <1>2, <1>3 DEF PlaceOK, IdlePoints, Chosen
    <2>3. \A t \in Thread : pc'[t] \in OnWayOut \/ cont'[t] = "trapret" => t \in User
      BY <1>1, <1>2, <1>3 DEF PlaceOK, OnWayOut
    <2> QED BY <1>1, <1>2, <1>3, <2>1, <2>2, <2>3 DEF PlaceOK
  <1>6. PickOK'
    BY <1>1, <1>2, <1>3 DEF PickOK, Requeued, Chosen
  <1> QED BY <1>4, <1>5, <1>6

-----------------------------------------------------------------------------
(* The theorems.                                                           *)

\* Every task starts queued once.
LEMMA InitOK ==
  ASSUME Constants, Init
  PROVE  IInv
  <1>1. Cardinality(Task) \in Nat
    BY FS_CardinalityType DEF Constants
  <1>2. queue \in Seq(Task) /\ Len(queue) = Cardinality(Task)
    BY <1>1 DEF Init
  <1>3. idle_task \notin Range(queue) /\ Range(queue) \subseteq Thread
    BY <1>2 DEF Constants, Range, Thread
  <1>4. TypeOK
    BY <1>1, <1>2 DEF Init, TypeOK, Thread, Points
  <1>5. PlaceOK
    BY DEF Init, PlaceOK, Thread, At, IdlePoints, Chosen, OnWayOut
  <1>6. PickOK
    BY <1>3 DEF Init, PickOK, Chosen, Requeued, Thread
  <1> QED BY <1>4, <1>5, <1>6 DEF IInv

\* The invariant holds at every step, with the interrupt anywhere.
THEOREM Invariance == ASSUME Constants PROVE Spec => []IInv
  <1>1. Init => IInv
    BY InitOK
  <1>2. IInv /\ [Next]_vars => IInv'
    <2> SUFFICES ASSUME IInv, [Next]_vars PROVE IInv'
      OBVIOUS
    <2>1. CASE Wake
      <3>1. PICK t \in Task : sched_wake_task(t)
        BY <2>1 DEF Wake
      <3> QED BY <2>1, <3>1, WakeOK DEF Wake, IInv, TypeOK
    <2>2. CASE TimerIrq
      <3>1. CASE \E t \in Task : sched_wake_task(t)
        <4>1. PICK t \in Task : sched_wake_task(t)
          BY <3>1
        <4> QED BY <2>2, <4>1, WakeOK DEF TimerIrq
      <3>2. CASE UNCHANGED <<state, rq>>
        BY <2>2, <3>2 DEF TimerIrq, IInv, TypeOK, PlaceOK, PickOK, At, locals, rq
      <3> QED BY <2>2, <3>1, <3>2 DEF TimerIrq
    <2>3. CASE UNCHANGED vars
      BY <2>3 DEF vars, IInv, TypeOK, PlaceOK, PickOK, At, locals, rq
    <2> QED
      BY <2>1, <2>2, <2>3, LocalSteps, CountSteps, SleepOK, TestOK, UnlinkOK, RequeueOK, SetCurrentOK, SwitchOK
         DEF Next, Panicked
  <1> QED BY <1>1, <1>2, PTL DEF Spec

\* The hart's registers, the threads' control and the queue keep their types; the
\* subtraction of runnable_count never goes below zero without the BUG_ON.
THEOREM TypeCorrect == ASSUME Constants PROVE Spec => []TypeOK
  <1>1. IInv => TypeOK
    BY DEF IInv
  <1> QED BY <1>1, Invariance, PTL

\* DispatchSafe: no task is linked twice, current is not linked, and switch_to never
\* resumes a sleeping task, whatever the timer interrupts and wakes.
THEOREM DispatchCorrect == ASSUME Constants PROVE Spec => []DispatchSafe
  <1>1. IInv => DispatchSafe
    BY DEF IInv, PlaceOK, PickOK, DispatchSafe, CurrentNotLinked, DispatchRunnable, Linked, Requeued, Chosen, At
  <1> QED BY <1>1, Invariance, PTL
=============================================================================
