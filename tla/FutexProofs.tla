---------------------------- MODULE FutexProofs ----------------------------
(***************************************************************************)
(* Futex locks and joins strand nobody, for every set of threads and bits: *)
(* the properties of Futex, proved from an invariant that is inductive.    *)
(***************************************************************************)
EXTENDS Futex, FiniteSetTheorems

\* What the proofs need of the constants: addresses and owners are told apart,
\* and a bitset can have a bit.
Constants ==
  /\ None \notin Thread /\ Lock \notin Thread /\ Bit # {} /\ Leader \in Thread

-----------------------------------------------------------------------------
(* The inductive invariant.                                                *)

\* u is going to take the lock, knowing that others may wait, or to wake one of
\* them, or has been woken to do so.
Rescuer(u) ==
  \/ pc[u] = "lock" /\ contended[u]
  \/ pc[u] = "unlock"
  \/ Waits(u, Lock) /\ waiter[u].woken

\* The lock's owner is where the lock's code can own it, and either the robust
\* list or list_op_pending tells the kernel so; a waiter is well-formed, and
\* waits for the lock only after having said so.
ThreadOK(t) ==
  /\ lock.owner = t <=> pc[t] \in {"acquired", "held", "releasing"}
  /\ pc[t] = "held" => held[t]
  /\ pc[t] \in {"lock", "acquired", "releasing"} => pending[t]
  /\ Waits(t, Lock) => pending[t] /\ contended[t]
  /\ pc[t] = "wait" => waiter[t].bits # {}
  /\ waiter[t].asleep => pc[t] = "wait" /\ ~waiter[t].woken
  /\ tid[t] <=> pc[t] # "gone"

\* A tid word has one waiter at most.
OneJoiner == \A t, v, u \in Thread : Waits(t, u) /\ Waits(v, u) => t = v

\* Who sleeps on the lock has somebody that will look after it.
Rescued ==
  \A t \in Thread : Waits(t, Lock) /\ waiter[t].asleep =>
    (\E u \in Thread : Rescuer(u)) \/ (lock.owner # None /\ lock.waiters)

IInv ==
  /\ TypeOK
  /\ \A t \in Thread : ThreadOK(t)
  /\ OneJoiner
  /\ JoinerWoken
  /\ BucketExact
  /\ ~dropped => Rescued

-----------------------------------------------------------------------------
(* Wakes and the bucket.                                                   *)

\* A wake of one takes a waiter that matches, and does so if there is one.
LEMMA ChosenOK ==
    ASSUME TypeOK, NEW k, NEW bits
    PROVE  /\ \A t \in Chosen(k, 1, bits) :
                t \in Thread /\ t \in Range(bucket) /\ Matches(waiter[t], k, bits)
           /\ (\E t \in Range(bucket) : Matches(waiter[t], k, bits)) => Chosen(k, 1, bits) # {}
  <1> DEFINE M == {i \in DOMAIN bucket : Matches(waiter[bucket[i]], k, bits)}
             F == {j \in M : Cardinality({h \in M : h < j}) < 1}
  <1>1. bucket \in Seq(Thread) /\ M \subseteq Nat BY DEF TypeOK
  <1>2. Chosen(k, 1, bits) = {bucket[i] : i \in F} BY DEF Chosen
  <1>3. ASSUME M # {} PROVE F # {}
    <2>1. PICK m \in M : \A h \in M : m <= h BY <1>1, <1>3, LeastNat
    <2>2. {h \in M : h < m} = {} BY <1>1, <2>1
    <2>3. Cardinality({h \in M : h < m}) = 0 BY <2>2, FS_EmptySet
    <2> QED BY <2>1, <2>3
  <1>4. ASSUME NEW t \in Range(bucket), Matches(waiter[t], k, bits) PROVE M # {}
    BY <1>4 DEF Range
  <1>5. \A i \in F : bucket[i] \in Thread /\ bucket[i] \in Range(bucket)
                     /\ Matches(waiter[bucket[i]], k, bits)
    BY <1>1 DEF Range
  <1> HIDE DEF F, M
  <1> QED BY <1>2, <1>3, <1>4, <1>5

\* Woken changes who is woken and asleep, and nothing else.
LEMMA WokenOK ==
    ASSUME TypeOK, NEW S
    PROVE  /\ Woken(S) \in [Thread -> Waiter]
           /\ \A t \in Thread :
                /\ Woken(S)[t].key = waiter[t].key /\ Woken(S)[t].bits = waiter[t].bits
                /\ Woken(S)[t].woken = (waiter[t].woken \/ t \in S)
                /\ Woken(S)[t].asleep = (waiter[t].asleep /\ t \notin S)
  <1>1. ASSUME NEW t \in Thread
        PROVE  /\ Woken(S)[t] \in Waiter
               /\ Woken(S)[t].key = waiter[t].key /\ Woken(S)[t].bits = waiter[t].bits
               /\ Woken(S)[t].woken = (waiter[t].woken \/ t \in S)
               /\ Woken(S)[t].asleep = (waiter[t].asleep /\ t \notin S)
    <2>1. waiter[t] \in Waiter BY DEF TypeOK
    <2>2. CASE t \in S
      <3>1. Woken(S)[t] = [waiter[t] EXCEPT !.woken = TRUE, !.asleep = FALSE] BY <2>2 DEF Woken
      <3> QED BY <2>1, <2>2, <3>1 DEF Waiter
    <2>3. CASE t \notin S
      <3>1. Woken(S)[t] = waiter[t] BY <2>3 DEF Woken
      <3>2. waiter[t].woken \in BOOLEAN /\ waiter[t].asleep \in BOOLEAN BY <2>1 DEF Waiter
      <3> QED BY <2>1, <2>3, <3>1, <3>2
    <2> QED BY <2>2, <2>3
  <1>2. Woken(S) \in [Thread -> Waiter] BY <1>1 DEF Woken
  <1> QED BY <1>1, <1>2

\* While the process lives, the bucket has the waiting threads.
LEMMA BucketHas ==
    ASSUME IInv, NEW t \in Thread, pc[t] = "wait"
    PROVE  t \in Range(bucket)
  BY DEF IInv, BucketExact, BucketLive

\* A sleeper that matches is woken, or another one is in its place.
LEMMA WakeOne ==
    ASSUME IInv, NEW t \in Thread, NEW k, Waits(t, k), waiter[t].asleep
    PROVE  \E u \in Chosen(k, 1, MATCH_ANY) : Waits(u, k) /\ u \in Thread
  <1>1. t \in Range(bucket) BY BucketHas DEF Waits
  <1>2. Matches(waiter[t], k, MATCH_ANY)
    <2>1. waiter[t] \in Waiter BY DEF IInv, TypeOK
    <2>2. waiter[t].bits # {} /\ ~waiter[t].woken /\ waiter[t].bits \subseteq Bit
      BY <2>1 DEF IInv, ThreadOK, Waits, Waiter
    <2> QED BY <2>2 DEF Matches, MATCH_ANY, Waits
  <1>3. TypeOK BY DEF IInv
  <1>4. PICK u \in Chosen(k, 1, MATCH_ANY) : TRUE BY <1>1, <1>2, <1>3, ChosenOK
  <1>5. u \in Thread /\ u \in Range(bucket) /\ waiter[u].key = k
    BY <1>3, <1>4, ChosenOK DEF Matches
  <1>6. pc[u] = "wait" BY <1>5 DEF IInv, BucketExact, BucketLive, Waits
  <1> QED BY <1>4, <1>5, <1>6 DEF Waits

\* The invariant is about these variables only.
LEMMA StutterOK == ASSUME IInv, UNCHANGED vars PROVE IInv'
  <1>1. UNCHANGED <<lock, tid, pc, held, pending, contended, waiter, bucket, dropped>>
    BY DEF vars, words, user
  <1>2. TypeOK' /\ OneJoiner' /\ JoinerWoken' /\ BucketExact'
    BY <1>1 DEF IInv, TypeOK, OneJoiner, JoinerWoken, BucketExact, BucketLive, Waits
  <1>3. \A t \in Thread : ThreadOK(t)' BY <1>1 DEF IInv, ThreadOK, Waits
  <1>4. ~dropped => Rescued' BY <1>1 DEF IInv, Rescued, Rescuer, Waits
  <1> QED BY <1>1, <1>2, <1>3, <1>4 DEF IInv

\* Steps that leave everybody waiting or not as before, and put nobody to sleep.
LEMMA QuietOK ==
    ASSUME IInv, bucket' = bucket,
           \A v \in Thread : /\ pc'[v] = "wait" <=> pc[v] = "wait"
                             /\ pc'[v] = "gone" <=> pc[v] = "gone"
                             /\ waiter'[v].key = waiter[v].key
                             /\ waiter'[v].asleep => waiter[v].asleep
    PROVE  OneJoiner' /\ JoinerWoken' /\ BucketExact'
  <1>1. \A v \in Thread, k \in Thread : Waits(v, k)' <=> Waits(v, k) BY DEF Waits
  <1>2. OneJoiner' BY <1>1 DEF IInv, OneJoiner
  <1>3. JoinerWoken' BY <1>1 DEF IInv, JoinerWoken
  <1>4. {t \in Thread : pc[t] = "wait"}' = {t \in Thread : pc[t] = "wait"} OBVIOUS
  <1>5. BucketExact'
    BY <1>4 DEF IInv, BucketExact, BucketLive
  <1> QED BY <1>2, <1>3, <1>5

-----------------------------------------------------------------------------
(* The lock's code.                                                        *)

\* An instruction of t that others can see.
LEMMA UserStep ==
    ASSUME IInv, NEW t \in Thread, NEW p \in Points,
           pc[t] \notin {"wait", "gone"}, p \notin {"wait", "gone"},
           pc' = [pc EXCEPT ![t] = p], UNCHANGED <<tid, waiter, bucket, dropped>>,
           lock' \in LockWord, held' \in [Thread -> BOOLEAN],
           pending' \in [Thread -> BOOLEAN], contended' \in [Thread -> BOOLEAN],
           \A v \in Thread \ {t} :
             /\ held'[v] = held[v] /\ pending'[v] = pending[v] /\ contended'[v] = contended[v]
             /\ lock'.owner = v <=> lock.owner = v,
           lock'.owner = t <=> p \in {"acquired", "held", "releasing"},
           p = "held" => held'[t],
           p \in {"lock", "acquired", "releasing"} => pending'[t],
           ~dropped => Rescued'
    PROVE  IInv'
  <1>1. TypeOK' BY DEF IInv, TypeOK
  <1>2. pc \in [Thread -> Points] BY DEF IInv, TypeOK
  <1>3. pc'[t] = p /\ \A v \in Thread \ {t} : pc'[v] = pc[v] BY <1>2
  <1>4. \A v \in Thread : ThreadOK(v) BY DEF IInv
  <1>5. ThreadOK(t)'
    BY <1>3, <1>4 DEF ThreadOK, Waits
  <1>6. ASSUME NEW v \in Thread \ {t} PROVE ThreadOK(v)'
    BY <1>3, <1>4 DEF ThreadOK, Waits
  <1>7. OneJoiner' /\ JoinerWoken' /\ BucketExact' BY <1>3, QuietOK
  <1> QED BY <1>1, <1>5, <1>6, <1>7 DEF IInv

\* Nobody lost its rescue when the rescuers are the same and the lock is.
LEMMA StillRescued ==
    ASSUME IInv, ~dropped, UNCHANGED <<waiter>>,
           \A v \in Thread : Waits(v, Lock)' => Waits(v, Lock),
           \A u \in Thread : Rescuer(u) => Rescuer(u)' \/ (lock'.owner # None /\ lock'.waiters),
           lock.owner # None /\ lock.waiters =>
             (\E u \in Thread : Rescuer(u)') \/ (lock'.owner # None /\ lock'.waiters)
    PROVE  Rescued'
  BY DEF IInv, Rescued

\* list_op_pending is set before the lock is touched.
LEMMA LockBeginOK == ASSUME IInv, NEW t \in Thread, LockBegin(t) PROVE IInv'
  <1>1. /\ pc[t] = "user" /\ pc' = [pc EXCEPT ![t] = "lock"]
        /\ pending' = [pending EXCEPT ![t] = TRUE]
        /\ UNCHANGED <<lock, tid, held, contended, waiter, bucket, dropped>>
    BY DEF LockBegin, At, Goto, words
  <1>2. TypeOK /\ ThreadOK(t) BY DEF IInv
  <1>3. \A v \in Thread \ {t} : pc'[v] = pc[v] BY <1>1, <1>2 DEF TypeOK
  <1>4. pc'[t] = "lock" BY <1>1, <1>2 DEF TypeOK
  <1>5. ~dropped => Rescued'
    <2>1. \A v \in Thread : Waits(v, Lock)' => Waits(v, Lock) BY <1>1, <1>3, <1>4 DEF Waits
    <2>2. \A u \in Thread : Rescuer(u) => Rescuer(u)' BY <1>1, <1>3, <1>4 DEF Rescuer, Waits
    <2> QED BY <1>1, <2>1, <2>2, StillRescued
  <1>6. pending' \in [Thread -> BOOLEAN] /\ "lock" \in Points BY <1>1, <1>2 DEF TypeOK, Points
  <1>7. \A v \in Thread \ {t} : pending'[v] = pending[v] BY <1>1, <1>2 DEF TypeOK
  <1>8. lock.owner # t BY <1>1, <1>2 DEF ThreadOK
  <1>9. pending'[t] BY <1>1, <1>2 DEF TypeOK
  <1> QED BY <1>1, <1>2, <1>5, <1>6, <1>7, <1>8, <1>9, UserStep DEF TypeOK

\* Whoever takes the lock after having waited leaves FUTEX_WAITERS set.
LEMMA LockTakeOK ==
    ASSUME IInv, Constants, NEW t \in Thread, LockTake(t) PROVE IInv'
  <1>1. /\ pc[t] = "lock" /\ lock.owner = None /\ pc' = [pc EXCEPT ![t] = "acquired"]
        /\ lock' = [Free EXCEPT !.owner = t, !.waiters = lock.waiters \/ contended[t]]
        /\ UNCHANGED <<tid, held, pending, contended, waiter, bucket, dropped>>
    BY DEF LockTake, At, Goto, user
  <1>2. TypeOK /\ \A v \in Thread : ThreadOK(v) BY DEF IInv
  <1>3. pc'[t] = "acquired" /\ \A v \in Thread \ {t} : pc'[v] = pc[v] BY <1>1, <1>2 DEF TypeOK
  <1>4. /\ lock' \in LockWord /\ lock'.owner = t
        /\ lock'.waiters = (lock.waiters \/ contended[t])
    <2>1. lock.waiters \in BOOLEAN /\ contended[t] \in BOOLEAN BY <1>2 DEF TypeOK, LockWord
    <2> QED BY <1>1, <2>1 DEF LockWord, Free
  <1>5. ~dropped => Rescued'
    <2>1. \A v \in Thread : Waits(v, Lock)' => Waits(v, Lock) BY <1>1, <1>3 DEF Waits
    <2>2. \A u \in Thread \ {t} : Rescuer(u) => Rescuer(u)' BY <1>1, <1>3 DEF Rescuer, Waits
    <2>3. Rescuer(t) => contended[t] BY <1>1 DEF Rescuer, Waits
    <2>4. lock'.owner # None BY <1>4 DEF Constants
    <2> QED BY <1>1, <1>4, <2>1, <2>2, <2>3, <2>4, StillRescued
  <1>6. "acquired" \in Points BY DEF Points
  <1>7. pending[t] BY <1>1, <1>2 DEF ThreadOK
  <1>8. \A v \in Thread \ {t} : lock'.owner = v <=> lock.owner = v BY <1>1, <1>4 DEF Constants
  <1> QED BY <1>1, <1>2, <1>4, <1>5, <1>6, <1>7, <1>8, UserStep DEF TypeOK

\* A thread announces that it is going to wait.
LEMMA LockMarkOK == ASSUME IInv, NEW t \in Thread, LockMark(t) PROVE IInv'
  <1>1. /\ pc[t] = "lock" /\ lock.owner # None /\ lock' = [lock EXCEPT !.waiters = TRUE]
        /\ UNCHANGED <<tid, pc, held, pending, contended, waiter, bucket, dropped>>
    BY DEF LockMark, At, user
  <1>2. TypeOK /\ \A v \in Thread : ThreadOK(v) BY DEF IInv
  <1>3. lock' \in LockWord /\ lock'.owner = lock.owner /\ lock'.waiters
    BY <1>1, <1>2 DEF TypeOK, LockWord
  <1>4. ~dropped => Rescued'
    <2>1. \A v \in Thread : Waits(v, Lock)' => Waits(v, Lock) BY <1>1 DEF Waits
    <2> QED BY <1>1, <1>3, <2>1, StillRescued
  <1>5. pc' = [pc EXCEPT ![t] = "lock"] /\ "lock" \in Points BY <1>1, <1>2 DEF TypeOK, Points
  <1>6. lock.owner # t /\ pending[t] BY <1>1, <1>2 DEF ThreadOK
  <1>7. /\ pc[t] = "lock" /\ UNCHANGED <<tid, waiter, bucket, dropped>>
        /\ held' \in [Thread -> BOOLEAN] /\ pending' \in [Thread -> BOOLEAN]
        /\ contended' \in [Thread -> BOOLEAN]
        /\ \A v \in Thread \ {t} :
             /\ held'[v] = held[v] /\ pending'[v] = pending[v] /\ contended'[v] = contended[v]
             /\ lock'.owner = v <=> lock.owner = v
        /\ lock'.owner # t /\ pending'[t]
    BY <1>1, <1>2, <1>3, <1>6 DEF TypeOK
  <1> QED BY <1>3, <1>4, <1>5, <1>7, UserStep

\* The lock goes onto the robust list before list_op_pending is cleared.
LEMMA LockLinkOK == ASSUME IInv, NEW t \in Thread, LockLink(t) PROVE IInv'
  <1>1. /\ pc[t] = "acquired" /\ pc' = [pc EXCEPT ![t] = "held"]
        /\ held' = [held EXCEPT ![t] = TRUE] /\ pending' = [pending EXCEPT ![t] = FALSE]
        /\ contended' = [contended EXCEPT ![t] = FALSE]
        /\ UNCHANGED <<lock, tid, waiter, bucket, dropped>>
    BY DEF LockLink, At, Goto, words
  <1>2. TypeOK /\ ThreadOK(t) BY DEF IInv
  <1>3. pc'[t] = "held" /\ \A v \in Thread \ {t} : pc'[v] = pc[v] BY <1>1, <1>2 DEF TypeOK
  <1>4. \A v \in Thread \ {t} :
          held'[v] = held[v] /\ pending'[v] = pending[v] /\ contended'[v] = contended[v]
    BY <1>1, <1>2 DEF TypeOK
  <1>5. ~dropped => Rescued'
    <2>1. \A v \in Thread : Waits(v, Lock)' => Waits(v, Lock) BY <1>1, <1>3 DEF Waits
    <2>2. \A u \in Thread : Rescuer(u) => Rescuer(u)' BY <1>1, <1>3, <1>4 DEF Rescuer, Waits
    <2> QED BY <1>1, <2>1, <2>2, StillRescued
  <1>6. /\ held' \in [Thread -> BOOLEAN] /\ pending' \in [Thread -> BOOLEAN]
        /\ contended' \in [Thread -> BOOLEAN] /\ "held" \in Points /\ held'[t]
    BY <1>1, <1>2 DEF TypeOK, Points
  <1>7. lock.owner = t BY <1>1, <1>2 DEF ThreadOK
  <1> QED BY <1>1, <1>2, <1>4, <1>5, <1>6, <1>7, UserStep DEF TypeOK

\* And off it after list_op_pending is set.
LEMMA UnlockBeginOK == ASSUME IInv, NEW t \in Thread, UnlockBegin(t) PROVE IInv'
  <1>1. /\ pc[t] = "held" /\ pc' = [pc EXCEPT ![t] = "releasing"]
        /\ held' = [held EXCEPT ![t] = FALSE] /\ pending' = [pending EXCEPT ![t] = TRUE]
        /\ UNCHANGED <<lock, tid, contended, waiter, bucket, dropped>>
    BY DEF UnlockBegin, At, Goto, words
  <1>2. TypeOK /\ ThreadOK(t) BY DEF IInv
  <1>3. pc'[t] = "releasing" /\ \A v \in Thread \ {t} : pc'[v] = pc[v] BY <1>1, <1>2 DEF TypeOK
  <1>4. \A v \in Thread \ {t} : held'[v] = held[v] /\ pending'[v] = pending[v]
    BY <1>1, <1>2 DEF TypeOK
  <1>5. ~dropped => Rescued'
    <2>1. \A v \in Thread : Waits(v, Lock)' => Waits(v, Lock) BY <1>1, <1>3 DEF Waits
    <2>2. \A u \in Thread : Rescuer(u) => Rescuer(u)' BY <1>1, <1>3 DEF Rescuer, Waits
    <2> QED BY <1>1, <2>1, <2>2, StillRescued
  <1>6. /\ held' \in [Thread -> BOOLEAN] /\ pending' \in [Thread -> BOOLEAN]
        /\ "releasing" \in Points /\ pending'[t]
    BY <1>1, <1>2 DEF TypeOK, Points
  <1>7. lock.owner = t BY <1>1, <1>2 DEF ThreadOK
  <1> QED BY <1>1, <1>2, <1>4, <1>5, <1>6, <1>7, UserStep DEF TypeOK

\* The old value of the word tells the owner to wake, or nobody needs it to.
LEMMA UnlockStoreOK == ASSUME IInv, Constants, NEW t \in Thread, UnlockStore(t) PROVE IInv'
  <1> DEFINE p == IF lock.waiters THEN "unlock" ELSE "user"
  <1>1. /\ pc[t] = "releasing" /\ pc' = [pc EXCEPT ![t] = p] /\ lock' = Free
        /\ pending' = [pending EXCEPT ![t] = lock.waiters]
        /\ UNCHANGED <<tid, held, contended, waiter, bucket, dropped>>
    BY DEF UnlockStore, At, Goto
  <1>2. TypeOK /\ \A v \in Thread : ThreadOK(v) BY DEF IInv
  <1>3. pc'[t] = p /\ \A v \in Thread \ {t} : pc'[v] = pc[v] BY <1>1, <1>2 DEF TypeOK
  <1>4. lock' \in LockWord /\ lock'.owner = None BY <1>1 DEF LockWord, Free
  <1>5. ~dropped => Rescued'
    <2>1. \A v \in Thread : Waits(v, Lock)' => Waits(v, Lock) BY <1>1, <1>3 DEF Waits
    <2>2. \A u \in Thread : Rescuer(u) => Rescuer(u)' BY <1>1, <1>3 DEF Rescuer, Waits
    <2>3. lock.waiters => Rescuer(t)' BY <1>3 DEF Rescuer
    <2> QED BY <1>1, <2>1, <2>2, <2>3, StillRescued
  <1>6. pending' \in [Thread -> BOOLEAN] /\ p \in Points
    <2>1. lock.waiters \in BOOLEAN BY <1>2 DEF TypeOK, LockWord
    <2>2. pending' \in [Thread -> BOOLEAN] BY <1>1, <1>2, <2>1 DEF TypeOK
    <2> QED BY <2>2 DEF Points
  <1>7. \A v \in Thread \ {t} : pending'[v] = pending[v] BY <1>1, <1>2 DEF TypeOK
  <1>8. lock.owner = t BY <1>1, <1>2 DEF ThreadOK
  <1>9. \A v \in Thread : lock'.owner # v BY <1>4 DEF Constants
  <1>10. /\ pc[t] \notin {"wait", "gone"}
         /\ p \notin {"wait", "gone", "lock", "acquired", "held", "releasing"}
    BY <1>1
  <1> HIDE DEF p
  <1> QED BY <1>1, <1>2, <1>4, <1>5, <1>6, <1>7, <1>8, <1>9, <1>10, UserStep DEF TypeOK

\* Nobody lost its rescue by a wake, which makes rescuers.
LEMMA UnlockWakeOK == ASSUME IInv, Constants, NEW t \in Thread, UnlockWake(t) PROVE IInv'
  <1> DEFINE S == Chosen(Lock, 1, MATCH_ANY)
  <1>1. /\ pc[t] = "unlock" /\ pc' = [pc EXCEPT ![t] = "user"]
        /\ pending' = [pending EXCEPT ![t] = FALSE] /\ waiter' = Woken(S)
        /\ UNCHANGED <<lock, tid, held, contended, bucket, dropped>>
    BY DEF UnlockWake, At, Goto, futex_wake, words
  <1>2. TypeOK /\ \A v \in Thread : ThreadOK(v) BY DEF IInv
  <1>3. pc'[t] = "user" /\ \A v \in Thread \ {t} : pc'[v] = pc[v] BY <1>1, <1>2 DEF TypeOK
  <1>4. /\ waiter' \in [Thread -> Waiter]
        /\ \A v \in Thread :
             /\ waiter'[v].key = waiter[v].key /\ waiter'[v].bits = waiter[v].bits
             /\ waiter'[v].woken = (waiter[v].woken \/ v \in S)
             /\ waiter'[v].asleep = (waiter[v].asleep /\ v \notin S)
    BY <1>1, <1>2, WokenOK
  <1> HIDE DEF S
  <1>5. pending' \in [Thread -> BOOLEAN] /\ pc' \in [Thread -> Points]
    BY <1>1, <1>2 DEF TypeOK, Points
  <1>6. TypeOK' BY <1>1, <1>2, <1>4, <1>5 DEF TypeOK
  <1>7. ASSUME NEW v \in Thread PROVE ThreadOK(v)'
    <2>1. ThreadOK(v) /\ tid'[v] = tid[v] /\ lock' = lock /\ held'[v] = held[v]
          /\ contended'[v] = contended[v]
      BY <1>1, <1>2
    <2>2. CASE v = t BY <1>1, <1>3, <1>4, <2>1, <2>2 DEF ThreadOK, Waits
    <2>3. CASE v # t
      <3>1. pc'[v] = pc[v] /\ pending'[v] = pending[v] BY <1>1, <1>2, <1>3, <2>3 DEF TypeOK
      <3>2. waiter'[v].asleep => waiter[v].asleep /\ (waiter'[v].woken <=> waiter[v].woken) BY <1>4
      <3> QED BY <1>4, <2>1, <3>1, <3>2 DEF ThreadOK, Waits
    <2> QED BY <2>2, <2>3
  <1>8. OneJoiner' /\ JoinerWoken' /\ BucketExact' BY <1>1, <1>3, <1>4, QuietOK
  <1>9. ASSUME NEW v \in Thread, Waits(v, Lock)', waiter'[v].asleep PROVE \E u \in Thread : Rescuer(u)'
    <2>1. Waits(v, Lock) /\ waiter[v].asleep BY <1>1, <1>3, <1>4, <1>9 DEF Waits
    <2>2. PICK u \in S : Waits(u, Lock) /\ u \in Thread BY <2>1, WakeOne DEF S
    <2>3. Waits(u, Lock)' /\ waiter'[u].woken BY <1>1, <1>3, <1>4, <2>2 DEF Waits
    <2> QED BY <2>2, <2>3 DEF Rescuer
  <1> QED BY <1>1, <1>6, <1>7, <1>8, <1>9 DEF IInv, Rescued

-----------------------------------------------------------------------------
(* Waits and wakes.                                                        *)

\* A wake sets threads going, and takes nobody's rescue away.
LEMMA NotifyOK ==
    ASSUME IInv, NEW t \in Thread, NEW k \in Address, NEW bits, Notify(t, k, bits)
    PROVE  IInv'
  <1> DEFINE S == Chosen(k, 1, bits)
  <1>1. waiter' = Woken(S) /\ UNCHANGED <<lock, tid, pc, held, pending, contended, bucket, dropped>>
    BY DEF Notify, futex_wake, words, user
  <1>2. TypeOK /\ \A v \in Thread : ThreadOK(v) BY DEF IInv
  <1>3. /\ waiter' \in [Thread -> Waiter]
        /\ \A v \in Thread :
             /\ waiter'[v].key = waiter[v].key /\ waiter'[v].bits = waiter[v].bits
             /\ waiter'[v].woken = (waiter[v].woken \/ v \in S)
             /\ waiter'[v].asleep = (waiter[v].asleep /\ v \notin S)
    BY <1>1, <1>2, WokenOK
  <1> HIDE DEF S
  <1>4. TypeOK' BY <1>1, <1>2, <1>3 DEF TypeOK
  <1>5. ASSUME NEW v \in Thread PROVE ThreadOK(v)'
    <2>1. ThreadOK(v) BY <1>2
    <2>2. waiter'[v].asleep => waiter[v].asleep /\ (waiter'[v].woken <=> waiter[v].woken) BY <1>3
    <2> QED BY <1>1, <1>3, <2>1, <2>2 DEF ThreadOK, Waits
  <1>6. OneJoiner' /\ JoinerWoken' /\ BucketExact' BY <1>1, <1>3, QuietOK
  <1>7. ASSUME ~dropped PROVE Rescued'
    <2>1. \A u \in Thread : Rescuer(u) => Rescuer(u)' BY <1>1, <1>3 DEF Rescuer, Waits
    <2>2. \A v \in Thread : Waits(v, Lock)' /\ waiter'[v].asleep => Waits(v, Lock) /\ waiter[v].asleep
      BY <1>1, <1>3 DEF Waits
    <2> QED BY <1>1, <1>7, <2>1, <2>2 DEF IInv, Rescued
  <1> QED BY <1>1, <1>4, <1>5, <1>6, <1>7 DEF IInv

\* A thread queues its waiter and sleeps: for the lock only with FUTEX_WAITERS
\* set in an owned word, for a thread only while that thread lives.
LEMMA QueueOK ==
    ASSUME IInv, Constants, NEW t \in Thread, NEW k \in Address, NEW bits \in SUBSET Bit, bits # {},
           NEW timed \in BOOLEAN, pc[t] \in {"user", "lock"},
           waiter' = [waiter EXCEPT ![t] = [NoWaiter EXCEPT
                        !.key = k, !.bits = bits, !.timed = timed, !.asleep = TRUE]],
           bucket' = Append(bucket, t), pc' = [pc EXCEPT ![t] = "wait"],
           UNCHANGED <<lock, tid, held, pending, dropped>>, contended' \in [Thread -> BOOLEAN],
           \A v \in Thread \ {t} : contended'[v] = contended[v],
           k = Lock => /\ contended'[t] /\ pending[t]
                       /\ lock.owner # None /\ lock.waiters,
           k # Lock => /\ pc[t] = "user" /\ pc[k] # "gone"
                       /\ \A v \in Thread : ~Waits(v, k)
    PROVE  IInv'
  <1> DEFINE w == [NoWaiter EXCEPT !.key = k, !.bits = bits, !.timed = timed, !.asleep = TRUE]
  <1>1. w \in Waiter /\ w.key = k /\ w.bits = bits /\ w.asleep /\ ~w.woken
    BY DEF Waiter, NoWaiter, Address
  <1>2. TypeOK /\ \A v \in Thread : ThreadOK(v) BY DEF IInv
  <1>3. pc'[t] = "wait" /\ \A v \in Thread \ {t} : pc'[v] = pc[v] BY <1>2 DEF TypeOK
  <1>4. waiter'[t] = w /\ \A v \in Thread \ {t} : waiter'[v] = waiter[v] BY <1>2 DEF TypeOK
  <1>5. BucketLive /\ t \notin Range(bucket) BY DEF IInv, BucketExact, BucketLive
  <1>6. /\ bucket' \in Seq(Thread) /\ Distinct(bucket')
        /\ Range(bucket') = Range(bucket) \cup {t}
    BY <1>2, <1>5, AppendQueue DEF BucketLive, TypeOK
  <1>7. TypeOK'
    <2>1. waiter' \in [Thread -> Waiter] BY <1>1, <1>2 DEF TypeOK
    <2>2. pc' \in [Thread -> Points] BY <1>2 DEF TypeOK, Points
    <2> QED BY <1>2, <1>6, <2>1, <2>2 DEF TypeOK
  <1> HIDE DEF w
  <1>8. ASSUME NEW v \in Thread PROVE ThreadOK(v)'
    <2>1. ThreadOK(v) BY <1>2
    <2>2. CASE v = t
      <3>1. lock.owner # t /\ tid[t] BY <2>1, <2>2 DEF ThreadOK
      <3>2. waiter'[t].key = k /\ waiter'[t].bits # {} /\ ~waiter'[t].woken BY <1>1, <1>4
      <3> QED BY <1>3, <2>2, <3>1, <3>2 DEF ThreadOK, Waits
    <2>3. CASE v # t BY <1>3, <1>4, <2>1, <2>3 DEF ThreadOK, Waits
    <2> QED BY <2>2, <2>3
  <1>9. \A v \in Thread, a \in Address : Waits(v, a)' <=> (v = t /\ a = k) \/ (v # t /\ Waits(v, a))
    BY <1>1, <1>3, <1>4 DEF Waits
  <1>10. OneJoiner'
    <2>1. \A u \in Thread : u \in Address /\ u # Lock BY DEF Address, Constants
    <2> QED BY <1>9, <2>1 DEF IInv, OneJoiner
  <1>11. JoinerWoken'
    <2>1. \A u \in Thread : u \in Address /\ u # Lock BY DEF Address, Constants
    <2>2. \A u \in Thread : pc'[u] = "gone" => pc[u] = "gone" BY <1>3
    <2> QED BY <1>4, <1>9, <2>1, <2>2 DEF IInv, JoinerWoken
  <1>12. BucketExact'
    <2>1. {v \in Thread : pc'[v] = "wait"} = {v \in Thread : pc[v] = "wait"} \cup {t} BY <1>3
    <2> QED BY <1>5, <1>6, <2>1 DEF BucketExact, BucketLive
  <1>13. ASSUME ~dropped PROVE Rescued'
    <2>1. CASE k = Lock BY <2>1 DEF Rescued
    <2>2. CASE k # Lock
      <3>1. Lock \in Address BY DEF Address
      <3>2. \A u \in Thread : Rescuer(u) => Rescuer(u)'
        <4>1. ~Rescuer(t) BY <2>2 DEF Rescuer, Waits
        <4>2. \A u \in Thread \ {t} : Rescuer(u) => Rescuer(u)' BY <1>3, <1>4 DEF Rescuer, Waits
        <4> QED BY <4>1, <4>2
      <3>3. \A v \in Thread : Waits(v, Lock)' => v # t /\ Waits(v, Lock) BY <1>9, <2>2, <3>1
      <3> QED BY <1>4, <1>13, <3>2, <3>3 DEF IInv, Rescued
    <2> QED BY <2>1, <2>2
  <1> QED BY <1>7, <1>8, <1>10, <1>11, <1>12, <1>13 DEF IInv

\* The lock's code waits, or finds the word changed and tries again.
LEMMA LockWaitOK ==
    ASSUME IInv, Constants, NEW t \in Thread, NEW timed \in BOOLEAN, NEW equal \in BOOLEAN,
           LockWait(t, timed, equal)
    PROVE  IInv'
  <1>1. /\ pc[t] = "lock" /\ (equal => lock.owner # None /\ lock.waiters)
        /\ contended' = [contended EXCEPT ![t] = TRUE] /\ UNCHANGED <<lock, tid, held, pending, dropped>>
        /\ futex_wait(t, Lock, MATCH_ANY, timed, equal)
    BY DEF LockWait, At, words
  <1>2. TypeOK /\ \A v \in Thread : ThreadOK(v) BY DEF IInv
  <1>3. contended' \in [Thread -> BOOLEAN] /\ contended'[t]
    BY <1>1, <1>2 DEF TypeOK
  <1>4. \A v \in Thread \ {t} : contended'[v] = contended[v] BY <1>1, <1>2 DEF TypeOK
  <1>5. pending[t] /\ lock.owner # t BY <1>1, <1>2 DEF ThreadOK
  <1>6. CASE equal
    <2>1. /\ waiter' = [waiter EXCEPT ![t] = [NoWaiter EXCEPT
                          !.key = Lock, !.bits = MATCH_ANY, !.timed = timed, !.asleep = TRUE]]
          /\ bucket' = Append(bucket, t) /\ pc' = [pc EXCEPT ![t] = "wait"]
      BY <1>1, <1>6 DEF futex_wait, Queues
    <2>2. Lock \in Address /\ MATCH_ANY \in SUBSET Bit /\ MATCH_ANY # {}
      BY DEF Address, MATCH_ANY, Constants
    <2> QED BY <1>1, <1>3, <1>4, <1>5, <1>6, <2>1, <2>2, QueueOK
  <1>7. CASE ~equal
    <2>1. UNCHANGED <<waiter, bucket, pc>> BY <1>1, <1>7 DEF futex_wait, Queues
    <2>2. pc' = [pc EXCEPT ![t] = "lock"] /\ "lock" \in Points BY <1>1, <1>2, <2>1 DEF TypeOK, Points
    <2>3. ~dropped => Rescued'
      <3>1. \A v \in Thread : Waits(v, Lock)' => Waits(v, Lock) BY <2>1 DEF Waits
      <3>2. \A u \in Thread : Rescuer(u) => Rescuer(u)' BY <1>3, <1>4, <2>1 DEF Rescuer, Waits
      <3> QED BY <1>1, <2>1, <3>1, <3>2, StillRescued
    <2>4. /\ pc[t] = "lock" /\ UNCHANGED <<tid, waiter, bucket, dropped>>
          /\ held' \in [Thread -> BOOLEAN] /\ pending' \in [Thread -> BOOLEAN]
          /\ \A v \in Thread \ {t} :
               /\ held'[v] = held[v] /\ pending'[v] = pending[v]
               /\ lock'.owner = v <=> lock.owner = v
          /\ lock'.owner # t /\ pending'[t] /\ lock' \in LockWord
      BY <1>1, <1>2, <1>5, <2>1 DEF TypeOK
    <2> QED BY <1>3, <1>4, <2>2, <2>3, <2>4, UserStep
  <1> QED BY <1>6, <1>7

\* One thread at a time waits for the tid word of another.
LEMMA JoinOK ==
    ASSUME IInv, Constants, NEW t \in Thread, NEW u \in Thread, NEW bits \in (SUBSET Bit) \ {{}},
           NEW timed \in BOOLEAN, Join(t, u, bits, timed)
    PROVE  IInv'
  <1>1. /\ pc[t] = "user" /\ \A v \in Thread : ~Waits(v, u)
        /\ UNCHANGED <<lock, tid, held, pending, contended, dropped>>
        /\ futex_wait(t, u, bits, timed, tid[u])
    BY DEF Join, At, words, user
  <1>2. TypeOK /\ \A v \in Thread : ThreadOK(v) BY DEF IInv
  <1>3. CASE tid[u]
    <2>1. /\ waiter' = [waiter EXCEPT ![t] = [NoWaiter EXCEPT
                          !.key = u, !.bits = bits, !.timed = timed, !.asleep = TRUE]]
          /\ bucket' = Append(bucket, t) /\ pc' = [pc EXCEPT ![t] = "wait"]
      BY <1>1, <1>3 DEF futex_wait, Queues
    <2>2. u \in Address /\ u # Lock /\ pc[u] # "gone" BY <1>2, <1>3 DEF Address, Constants, ThreadOK
    <2>3. contended' \in [Thread -> BOOLEAN] BY <1>1, <1>2 DEF TypeOK
    <2>4. bits \in SUBSET Bit /\ bits # {}
      <3>1. bits \in SUBSET Bit OBVIOUS
      <3>2. bits \notin {{}} BY Zenon
      <3> QED BY <3>1, <3>2, Zenon
    <2>5. /\ pc[t] \in {"user", "lock"} /\ UNCHANGED <<lock, tid, held, pending, dropped>>
          /\ \A v \in Thread \ {t} : contended'[v] = contended[v]
      BY <1>1
    <2>6. pc[t] = "user" /\ \A v \in Thread : ~Waits(v, u) BY <1>1
    <2> QED BY <2>1, <2>2, <2>3, <2>4, <2>5, <2>6, QueueOK
  <1>4. CASE ~tid[u]
    <2>1. UNCHANGED vars BY <1>1, <1>4 DEF futex_wait, Queues, vars, words, user
    <2> QED BY <2>1, StutterOK
  <1> QED BY <1>3, <1>4

\* A signal or the deadline ends the sleep of one thread.
LEMMA InterruptOK ==
    ASSUME IInv, NEW t \in Thread, Signal(t) \/ Timeout(t) PROVE IInv'
  <1>1. UNCHANGED <<lock, tid, pc, held, pending, contended, bucket, dropped>>
    BY DEF Signal, Timeout, words, user
  <1>2. TypeOK /\ \A v \in Thread : ThreadOK(v) BY DEF IInv
  <1>3. /\ waiter' \in [Thread -> Waiter]
        /\ \A v \in Thread :
             /\ waiter'[v].key = waiter[v].key /\ waiter'[v].bits = waiter[v].bits
             /\ waiter'[v].woken = waiter[v].woken
             /\ waiter'[v].asleep => waiter[v].asleep
    <2>1. waiter[t] \in Waiter BY <1>2 DEF TypeOK
    <2>2. CASE Signal(t)
      <3> DEFINE w == [waiter[t] EXCEPT !.asleep = FALSE, !.sig = TRUE]
      <3>1. waiter' = [waiter EXCEPT ![t] = w] BY <2>2, <1>2 DEF Signal, TypeOK
      <3>2. /\ w \in Waiter /\ w.key = waiter[t].key /\ w.bits = waiter[t].bits
            /\ w.woken = waiter[t].woken /\ ~w.asleep
        BY <2>1 DEF Waiter
      <3> HIDE DEF w
      <3> QED BY <1>2, <3>1, <3>2 DEF TypeOK
    <2>3. CASE Timeout(t)
      <3> DEFINE w == [waiter[t] EXCEPT !.asleep = FALSE, !.due = TRUE]
      <3>1. waiter' = [waiter EXCEPT ![t] = w] BY <2>3, <1>2 DEF Timeout, TypeOK
      <3>2. /\ w \in Waiter /\ w.key = waiter[t].key /\ w.bits = waiter[t].bits
            /\ w.woken = waiter[t].woken /\ ~w.asleep
        BY <2>1 DEF Waiter
      <3> HIDE DEF w
      <3> QED BY <1>2, <3>1, <3>2 DEF TypeOK
    <2> QED BY <2>2, <2>3
  <1>4. TypeOK' BY <1>1, <1>2, <1>3 DEF TypeOK
  <1>5. ASSUME NEW v \in Thread PROVE ThreadOK(v)'
    <2>1. ThreadOK(v) BY <1>2
    <2> QED BY <1>1, <1>3, <2>1 DEF ThreadOK, Waits
  <1>6. OneJoiner' /\ JoinerWoken' /\ BucketExact' BY <1>1, <1>3, QuietOK
  <1>7. ASSUME ~dropped PROVE Rescued'
    <2>1. \A u \in Thread : Rescuer(u) => Rescuer(u)' BY <1>1, <1>3 DEF Rescuer, Waits
    <2>2. \A v \in Thread : Waits(v, Lock)' /\ waiter'[v].asleep => Waits(v, Lock) /\ waiter[v].asleep
      BY <1>1, <1>3 DEF Waits
    <2> QED BY <1>1, <1>7, <2>1, <2>2 DEF IInv, Rescued
  <1> QED BY <1>1, <1>4, <1>5, <1>6, <1>7 DEF IInv

\* The bucket without a thread that waits.
LEMMA LeavesOK ==
    ASSUME IInv, NEW t \in Thread, pc[t] = "wait"
    PROVE  /\ Leaves(t) \in Seq(Thread) /\ Distinct(Leaves(t))
           /\ Range(Leaves(t)) = Range(bucket) \ {t}
  <1> DEFINE k == CHOOSE i \in DOMAIN bucket : bucket[i] = t
  <1>1. bucket \in Seq(Thread) /\ Distinct(bucket) /\ t \in Range(bucket)
    BY BucketHas DEF IInv, TypeOK, BucketExact, BucketLive
  <1>2. \E i \in DOMAIN bucket : bucket[i] = t BY <1>1 DEF Range
  <1>3. k \in DOMAIN bucket /\ bucket[k] = t BY <1>2
  <1>4. Leaves(t) = DelAt(bucket, k) BY DEF Leaves
  <1> HIDE DEF k
  <1> QED BY <1>1, <1>3, <1>4, DelAtQueue

\* A woken thread tries the lock again and knows of the others; who gives up was
\* not woken.
LEMMA WaitReturnsOK ==
    ASSUME IInv, Constants, NEW t \in Thread, WaitReturns(t) PROVE IInv'
  <1> DEFINE giveUp == Outcome(t) = "timeout"
             p == IF giveUp THEN "user" ELSE IF waiter[t].key = Lock THEN "lock" ELSE "user"
  <1>1. /\ pc[t] = "wait" /\ ~waiter[t].asleep /\ bucket' = Leaves(t)
        /\ waiter' = [waiter EXCEPT ![t] = NoWaiter] /\ pc' = [pc EXCEPT ![t] = p]
        /\ pending' = [pending EXCEPT ![t] = @ /\ ~giveUp]
        /\ contended' = [contended EXCEPT ![t] = @ /\ ~giveUp]
        /\ UNCHANGED <<lock, tid, held, dropped>>
    BY DEF WaitReturns, words
  <1>2. TypeOK /\ \A v \in Thread : ThreadOK(v) BY DEF IInv
  <1>3. waiter[t].woken => ~giveUp BY DEF Outcome
  <1>4. p \in {"user", "lock"} /\ (p = "lock" <=> ~giveUp /\ waiter[t].key = Lock) OBVIOUS
  <1> HIDE DEF p, giveUp
  <1>5. pc'[t] = p /\ \A v \in Thread \ {t} : pc'[v] = pc[v] BY <1>1, <1>2 DEF TypeOK
  <1>6. /\ NoWaiter \in Waiter /\ ~NoWaiter.asleep
        /\ waiter'[t] = NoWaiter /\ \A v \in Thread \ {t} : waiter'[v] = waiter[v]
    BY <1>1, <1>2 DEF TypeOK, NoWaiter, Waiter, Address
  <1>7. /\ pending' \in [Thread -> BOOLEAN]
        /\ pending'[t] <=> pending[t] /\ ~giveUp
        /\ \A v \in Thread \ {t} : pending'[v] = pending[v]
    BY <1>1, <1>2 DEF TypeOK
  <1>8. /\ contended' \in [Thread -> BOOLEAN]
        /\ contended'[t] <=> contended[t] /\ ~giveUp
        /\ \A v \in Thread \ {t} : contended'[v] = contended[v]
    BY <1>1, <1>2 DEF TypeOK
  <1>9. /\ bucket' \in Seq(Thread) /\ Distinct(bucket') /\ Range(bucket') = Range(bucket) \ {t}
    BY <1>1, LeavesOK
  <1>10. TypeOK'
    <2>1. waiter' \in [Thread -> Waiter] BY <1>1, <1>2, <1>6 DEF TypeOK
    <2>2. pc' \in [Thread -> Points] BY <1>1, <1>2, <1>4 DEF TypeOK, Points
    <2> QED BY <1>1, <1>2, <1>7, <1>8, <1>9, <2>1, <2>2 DEF TypeOK
  <1>11. ASSUME NEW v \in Thread PROVE ThreadOK(v)'
    <2>1. ThreadOK(v) /\ lock' = lock /\ tid' = tid /\ held' = held BY <1>1, <1>2
    <2>2. CASE v = t
      <3>1. lock.owner # t /\ tid[t] BY <1>1, <2>1, <2>2 DEF ThreadOK
      <3>2. p = "lock" => pending'[t] BY <1>1, <1>4, <1>7, <2>1, <2>2 DEF ThreadOK, Waits
      <3> QED BY <1>4, <1>5, <1>6, <2>1, <2>2, <3>1, <3>2 DEF ThreadOK, Waits
    <2>3. CASE v # t BY <1>5, <1>6, <1>7, <1>8, <2>1, <2>3 DEF ThreadOK, Waits
    <2> QED BY <2>2, <2>3
  <1>12. \A v \in Thread, a \in Address : Waits(v, a)' <=> v # t /\ Waits(v, a)
    BY <1>4, <1>5, <1>6 DEF Waits
  <1>13. OneJoiner' /\ JoinerWoken'
    <2>1. \A u \in Thread : u \in Address BY DEF Address
    <2>2. \A u \in Thread : pc'[u] = "gone" => pc[u] = "gone" BY <1>4, <1>5
    <2>3. OneJoiner' BY <1>12, <2>1 DEF IInv, OneJoiner
    <2>4. JoinerWoken' BY <1>6, <1>12, <2>1, <2>2 DEF IInv, JoinerWoken
    <2> QED BY <2>3, <2>4
  <1>14. BucketExact'
    <2>1. Range(bucket) = {v \in Thread : pc[v] = "wait"} BY <1>1 DEF IInv, BucketExact, BucketLive
    <2>2. {v \in Thread : pc'[v] = "wait"} = {v \in Thread : pc[v] = "wait"} \ {t} BY <1>4, <1>5
    <2> QED BY <1>9, <2>1, <2>2 DEF BucketExact, BucketLive
  <1>15. ASSUME ~dropped PROVE Rescued'
    <2>1. Lock \in Address BY DEF Address
    <2>2. \A u \in Thread \ {t} : Rescuer(u) => Rescuer(u)' BY <1>5, <1>6, <1>8 DEF Rescuer, Waits
    <2>3. Rescuer(t) => Rescuer(t)'
      <3>1. ASSUME Rescuer(t) PROVE Rescuer(t)'
        <4>1. waiter[t].key = Lock /\ waiter[t].woken BY <1>1, <3>1 DEF Rescuer, Waits
        <4>2. p = "lock" /\ contended[t] BY <1>1, <1>2, <1>3, <1>4, <4>1 DEF ThreadOK, Waits
        <4> QED BY <1>3, <1>5, <1>8, <4>1, <4>2 DEF Rescuer
      <3> QED BY <3>1
    <2>4. \A v \in Thread : Waits(v, Lock)' /\ waiter'[v].asleep => Waits(v, Lock) /\ waiter[v].asleep
      BY <1>6, <1>12, <2>1
    <2> QED BY <1>1, <1>15, <2>2, <2>3, <2>4 DEF IInv, Rescued
  <1> QED BY <1>1, <1>10, <1>11, <1>13, <1>14, <1>15 DEF IInv

-----------------------------------------------------------------------------
(* Exit.                                                                   *)

\* A thread leaves.  The lock does not stay with it, and the one that waits for
\* its end, and one of those that wait for the lock, are woken.
LEMMA FinishOK ==
    ASSUME IInv, Constants, NEW t \in Thread, pc[t] \notin {"wait", "gone"},
           finish_task_exit(t)
    PROVE  IInv'
  <1> DEFINE robust == RobustOwner(t)
             S == (IF robust THEN Chosen(Lock, 1, MATCH_ANY) ELSE {}) \cup clear_child_tid(t)
  <1>1. /\ lock' = IF robust THEN OwnerDied(lock) ELSE lock
        /\ tid' = [tid EXCEPT ![t] = FALSE] /\ waiter' = Woken(S)
        /\ pc' = [pc EXCEPT ![t] = "gone"] /\ held' = [held EXCEPT ![t] = FALSE]
        /\ pending' = [pending EXCEPT ![t] = FALSE]
        /\ contended' = [contended EXCEPT ![t] = FALSE] /\ bucket' = bucket
        /\ dropped' = (dropped \/ pc[t] \in {"lock", "unlock"})
    BY DEF finish_task_exit
  <1>2. TypeOK /\ \A v \in Thread : ThreadOK(v) BY DEF IInv
  <1>3. robust <=> lock.owner = t
    BY <1>2 DEF RobustOwner, ThreadOK
  <1>4. pc'[t] = "gone" /\ \A v \in Thread \ {t} : pc'[v] = pc[v] BY <1>1, <1>2 DEF TypeOK
  <1>5. /\ waiter' \in [Thread -> Waiter]
        /\ \A v \in Thread :
             /\ waiter'[v].key = waiter[v].key /\ waiter'[v].bits = waiter[v].bits
             /\ waiter'[v].woken = (waiter[v].woken \/ v \in S)
             /\ waiter'[v].asleep = (waiter[v].asleep /\ v \notin S)
    BY <1>1, <1>2, WokenOK
  <1>6. clear_child_tid(t) \subseteq S /\ (lock.owner = t => Chosen(Lock, 1, MATCH_ANY) \subseteq S)
    BY <1>3
  <1>7. /\ lock' \in LockWord /\ (lock.owner = t => lock'.owner = None)
        /\ (lock.owner # t => lock' = lock)
    <2>1. lock.owner = t => lock' = OwnerDied(lock) BY <1>1, <1>3
    <2>2. lock.owner # t => lock' = lock BY <1>1, <1>3
    <2>3. lock \in LockWord BY <1>2 DEF TypeOK
    <2>4. OwnerDied(lock) \in LockWord /\ OwnerDied(lock).owner = None
      BY <2>3 DEF OwnerDied, LockWord
    <2> QED BY <2>1, <2>2, <2>3, <2>4
  <1> HIDE DEF S, robust
  <1>8. /\ \A v \in Thread \ {t} : /\ tid'[v] = tid[v] /\ held'[v] = held[v]
                                   /\ pending'[v] = pending[v] /\ contended'[v] = contended[v]
        /\ ~tid'[t]
    BY <1>1, <1>2 DEF TypeOK
  <1>9. TypeOK'
    <2>1. /\ tid' \in [Thread -> BOOLEAN] /\ pc' \in [Thread -> Points]
          /\ held' \in [Thread -> BOOLEAN] /\ pending' \in [Thread -> BOOLEAN]
          /\ contended' \in [Thread -> BOOLEAN]
      BY <1>1, <1>2 DEF TypeOK, Points
    <2> QED BY <1>1, <1>2, <1>5, <1>7, <2>1 DEF TypeOK
  <1>10. ASSUME NEW v \in Thread PROVE ThreadOK(v)'
    <2>1. ThreadOK(v) BY <1>2
    <2>2. waiter'[v].asleep => waiter[v].asleep /\ (waiter'[v].woken <=> waiter[v].woken) BY <1>5
    <2>3. CASE v = t
      <3>1. lock'.owner # t BY <1>7 DEF Constants
      <3>2. ~waiter'[t].asleep BY <2>1, <2>2, <2>3 DEF ThreadOK
      <3> QED BY <1>4, <1>8, <2>3, <3>1, <3>2 DEF ThreadOK, Waits
    <2>4. CASE v # t
      <3>1. lock'.owner = v <=> lock.owner = v BY <1>7, <2>4 DEF Constants
      <3>2. pc'[v] = pc[v] BY <1>4, <2>4
      <3> QED BY <1>5, <1>8, <2>1, <2>2, <2>4, <3>1, <3>2 DEF ThreadOK, Waits
    <2> QED BY <2>3, <2>4
  <1>11. \A v \in Thread, a \in Address : Waits(v, a)' <=> Waits(v, a)
    BY <1>4, <1>5 DEF Waits
  <1>12. Lock \in Address /\ \A u \in Thread : u \in Address BY DEF Address
  <1>13. OneJoiner' BY <1>11, <1>12 DEF IInv, OneJoiner
  <1>14. ASSUME NEW v \in Thread, NEW u \in Thread, Waits(v, u)', waiter'[v].asleep
         PROVE  pc'[u] # "gone"
    <2>1. Waits(v, u) /\ waiter[v].asleep /\ v \notin S BY <1>5, <1>11, <1>12, <1>14
    <2>2. CASE u = t
      <3>1. PICK x \in Chosen(t, 1, MATCH_ANY) : Waits(x, t) /\ x \in Thread BY <2>1, <2>2, WakeOne
      <3>2. x = v BY <2>1, <2>2, <3>1 DEF IInv, OneJoiner
      <3> QED BY <1>6, <2>1, <3>1, <3>2 DEF clear_child_tid
    <2>3. CASE u # t BY <1>4, <2>1, <2>3 DEF IInv, JoinerWoken
    <2> QED BY <2>2, <2>3
  <1>15. BucketExact'
    <2>1. {v \in Thread : pc'[v] = "wait"} = {v \in Thread : pc[v] = "wait"} BY <1>4
    <2> QED BY <1>1, <2>1 DEF IInv, BucketExact, BucketLive
  <1>16. ASSUME ~dropped' PROVE Rescued'
    <2> SUFFICES ASSUME NEW v \in Thread, Waits(v, Lock)', waiter'[v].asleep
                 PROVE  (\E u \in Thread : Rescuer(u)') \/ (lock'.owner # None /\ lock'.waiters)
      BY DEF Rescued
    <2>1. Waits(v, Lock) /\ waiter[v].asleep BY <1>5, <1>11, <1>12
    <2>2. CASE lock.owner = t
      <3>1. PICK u \in Chosen(Lock, 1, MATCH_ANY) : Waits(u, Lock) /\ u \in Thread BY <2>1, WakeOne
      <3>2. Waits(u, Lock)' /\ waiter'[u].woken BY <1>5, <1>6, <1>11, <1>12, <2>2, <3>1
      <3> QED BY <3>1, <3>2 DEF Rescuer
    <2>3. CASE lock.owner # t
      <3>1. ~Rescuer(t) BY <1>1, <1>16 DEF Rescuer, Waits
      <3>2. \A u \in Thread \ {t} : Rescuer(u) => Rescuer(u)'
        BY <1>4, <1>5, <1>8 DEF Rescuer, Waits
      <3>3. lock' = lock BY <1>7, <2>3
      <3> QED BY <1>1, <1>16, <2>1, <3>1, <3>2, <3>3 DEF IInv, Rescued
    <2> QED BY <2>2, <2>3
  <1> QED BY <1>9, <1>10, <1>13, <1>14, <1>15, <1>16 DEF IInv, JoinerWoken

\* exit, or a fatal signal.
LEMMA ExitOK ==
    ASSUME IInv, Constants, NEW t \in Thread, Exit(t) \/ Killed(t) PROVE IInv'
  <1>1. pc[t] \notin {"wait", "gone"} /\ finish_task_exit(t)
    BY DEF Exit, Killed
  <1> QED BY <1>1, FinishOK

\* Nothing is left of a process but what its bucket holds.
LEMMA ExitGroupOK == ASSUME IInv, Constants, NEW t \in Thread, ExitGroup(t) PROVE IInv'
  <1>1. /\ lock' = Free /\ tid' = [u \in Thread |-> FALSE] /\ pc' = [u \in Thread |-> "gone"]
        /\ held' = [u \in Thread |-> FALSE] /\ pending' = [u \in Thread |-> FALSE]
        /\ contended' = [u \in Thread |-> FALSE] /\ waiter' = [u \in Thread |-> NoWaiter]
        /\ bucket' = bucket /\ dropped' = dropped
    BY DEF ExitGroup
  <1>2. Free \in LockWord /\ Free.owner = None BY DEF Free, LockWord
  <1>3. NoWaiter \in Waiter /\ ~NoWaiter.asleep BY DEF NoWaiter, Waiter, Address
  <1>4. TypeOK' BY <1>1, <1>2, <1>3 DEF IInv, TypeOK, Points
  <1>5. \A v \in Thread : pc'[v] = "gone" /\ ~waiter'[v].asleep /\ ~tid'[v] BY <1>1, <1>3
  <1>6. \A v \in Thread : ThreadOK(v)' BY <1>1, <1>2, <1>5 DEF ThreadOK, Waits, Constants
  <1>7. OneJoiner' /\ JoinerWoken' /\ BucketExact' /\ Rescued'
    BY <1>5 DEF OneJoiner, JoinerWoken, BucketExact, Rescued, Waits
  <1> QED BY <1>4, <1>6, <1>7 DEF IInv

-----------------------------------------------------------------------------
(* The theorems.                                                           *)

\* A process begins in the invariant.
LEMMA InitOK == ASSUME Constants, Init PROVE IInv
  <1>1. Free \in LockWord /\ Free.owner = None BY DEF Free, LockWord
  <1>2. NoWaiter \in Waiter /\ ~NoWaiter.asleep BY DEF NoWaiter, Waiter, Address
  <1>3. TypeOK
    <2>1. dropped \in BOOLEAN BY Zenon DEF Init
    <2>2. tid \in [Thread -> BOOLEAN] /\ pc \in [Thread -> Points] BY DEF Init, Points
    <2>3. /\ held \in [Thread -> BOOLEAN] /\ pending \in [Thread -> BOOLEAN]
          /\ contended \in [Thread -> BOOLEAN]
      BY DEF Init
    <2>4. lock \in LockWord /\ waiter \in [Thread -> Waiter] /\ bucket \in Seq(Thread)
      BY <1>1, <1>2 DEF Init
    <2> QED BY <2>1, <2>2, <2>3, <2>4 DEF TypeOK
  <1>4. \A v \in Thread : pc[v] = "user" /\ ~waiter[v].asleep /\ tid[v] BY <1>2 DEF Init
  <1>5. \A v \in Thread : ThreadOK(v) BY <1>1, <1>4 DEF Init, ThreadOK, Waits, Constants
  <1>6. OneJoiner /\ JoinerWoken /\ Rescued BY <1>4 DEF OneJoiner, JoinerWoken, Rescued, Waits
  <1>7. BucketExact
    <2>1. bucket = <<>> BY DEF Init
    <2>2. Distinct(bucket) /\ Range(bucket) = {} BY <2>1 DEF Distinct, Range
    <2>3. {t \in Thread : pc[t] = "wait"} = {} BY <1>4
    <2> QED BY <2>2, <2>3 DEF BucketExact, BucketLive
  <1> QED BY <1>3, <1>5, <1>6, <1>7 DEF IInv

\* Every step keeps the invariant.
LEMMA StepOK == ASSUME IInv, Constants, [Next]_vars PROVE IInv'
  <1>1. ASSUME NEW t \in Thread,
               \/ LockBegin(t) \/ LockTake(t) \/ LockMark(t) \/ LockLink(t)
               \/ UnlockBegin(t) \/ UnlockStore(t) \/ UnlockWake(t)
        PROVE  IInv'
    BY <1>1, LockBeginOK, LockTakeOK, LockMarkOK, LockLinkOK, UnlockBeginOK, UnlockStoreOK,
       UnlockWakeOK
  <1>2. ASSUME NEW t \in Thread, NEW timed \in BOOLEAN, NEW equal \in BOOLEAN,
               LockWait(t, timed, equal)
        PROVE  IInv'
    BY <1>2, LockWaitOK
  <1>3. ASSUME NEW t \in Thread, NEW bits \in (SUBSET Bit) \ {{}}, NEW k \in Address,
               Notify(t, k, bits)
        PROVE  IInv'
    BY <1>3, NotifyOK
  <1>4. ASSUME NEW t \in Thread, NEW bits \in (SUBSET Bit) \ {{}}, NEW u \in Thread,
               NEW timed \in BOOLEAN, Join(t, u, bits, timed)
        PROVE  IInv'
    BY <1>4, JoinOK
  <1>5. ASSUME NEW t \in Thread,
               Signal(t) \/ Timeout(t) \/ WaitReturns(t) \/ Exit(t) \/ Killed(t) \/ ExitGroup(t)
        PROVE  IInv'
    BY <1>5, InterruptOK, WaitReturnsOK, ExitOK, ExitGroupOK
  <1>6. CASE UNCHANGED vars BY <1>6, StutterOK
  <1> QED BY <1>1, <1>2, <1>3, <1>4, <1>5, <1>6 DEF Next

\* The invariant holds in every state of every process.
THEOREM Invariance == ASSUME Constants PROVE Spec => []IInv
  <1>1. Init => IInv BY InitOK
  <1>2. IInv /\ [Next]_vars => IInv' BY StepOK
  <1> QED BY <1>1, <1>2, PTL DEF Spec

\* The variables keep their types.
THEOREM TypeCorrect == ASSUME Constants PROVE Spec => []TypeOK
  <1>1. IInv => TypeOK BY DEF IInv
  <1> QED BY <1>1, Invariance, PTL

\* A robust lock never belongs to a thread that is gone; until a thread is killed
\* with a wake in hand, nobody sleeps on a free lock without somebody on the way; a joiner
\* does not sleep once its thread has exited; and the bucket holds exactly the
\* threads inside futex_wait (LockNotStranded, OwnerAlive, JoinerWoken,
\* BucketExact).
THEOREM LocksCorrect == ASSUME Constants PROVE Spec => []LocksAndJoins
  <1>1. ASSUME IInv PROVE LocksAndJoins
    <2>1. ASSUME ~dropped PROVE LockNotStranded
      BY <1>1, <2>1 DEF IInv, Rescued, Rescuer, LockNotStranded
    <2>2. OwnerAlive
      <3>1. lock.owner # None => lock.owner \in Thread BY <1>1 DEF IInv, TypeOK, LockWord
      <3> QED BY <1>1, <3>1 DEF IInv, ThreadOK, OwnerAlive
    <2> QED BY <1>1, <2>1, <2>2 DEF IInv, LocksAndJoins
  <1> QED BY <1>1, Invariance, PTL
=============================================================================
