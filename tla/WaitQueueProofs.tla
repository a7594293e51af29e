-------------------------- MODULE WaitQueueProofs ---------------------------
(***************************************************************************)
(* wait_for loses no wakeup and leaves nothing behind, for every set of    *)
(* tasks and channels: the invariants of WaitQueue, proved from one that   *)
(* is inductive.                                                           *)
(***************************************************************************)
EXTENDS WaitQueue, Queues

-----------------------------------------------------------------------------
(* The inductive invariant, one task at a time.                            *)

Waits == {"recheck", "block", "wfi", "finish"}

\* Only current is anywhere but outside or switched out; the session is attached
\* exactly while wait_cancel_task has something to undo; the dead are outside;
\* and a task is marked asleep only from SetSleep to the end of its round.
PlaceOK(t) ==
    /\ t # current => pc[t] \in {"out", "finish"}
    /\ active_wait[t] <=> pc[t] \notin {"out", "cleanup"}
    /\ state[t] = "dead" => pc[t] = "out" /\ t # current
    /\ state[t] = "sleeping" => pc[t] \in Waits \cup {"detach"}

\* The timer: started once before the first sleep, and in the queue until the
\* deadline has passed; a task that sleeps through has one there.
TimerOK(t) ==
    /\ pc[t] = "out" => ~timer_active[t]
    /\ armed[t] => timer_active[t]
    /\ timer_active[t] /\ ~due[t] => armed[t]
    /\ pc[t] \in Waits \cup {"sleep"} /\ req[t].deadline => timer_active[t]
    /\ Asleep(t) /\ req[t].deadline => armed[t]

\* The watches: from SetSleep on, every channel that has been checked is watched
\* and was not ready, or its wake_all is still to come.
WatchOK(t) ==
    /\ pc[t] = "out" => \A c \in Channel : ~Linked(t, c)
    /\ pc[t] \in Waits \ {"recheck"} => todo[t] = {}
    /\ state[t] = "sleeping" /\ pc[t] \in Waits =>
         \A c \in req[t].chans \ todo[t] :
            Linked(t, c) /\ (c \in Broadcast /\ ready[c] => c \in waking)
    /\ Asleep(t) => ~(req[t].interruptible /\ pending[t])

Good(t) == PlaceOK(t) /\ TimerOK(t) /\ WatchOK(t)

IInv ==
    /\ TypeOK
    /\ \A c \in Channel : Distinct(waiters[c])
    /\ \A t \in Task : Good(t)

-----------------------------------------------------------------------------
(* Lists.                                                                  *)

\* list_del_init of one task's entry takes exactly that task off a channel.
LEMMA UnlinkOK ==
    ASSUME NEW q \in Seq(Task), Distinct(q), NEW t \in Task
    PROVE  /\ Unlink(q, t) \in Seq(Task) /\ Distinct(Unlink(q, t))
           /\ Range(Unlink(q, t)) = Range(q) \ {t}
  <1>1. CASE t \notin Range(q) BY <1>1 DEF Unlink
  <1>2. CASE t \in Range(q)
    <2> DEFINE k == CHOOSE i \in DOMAIN q : q[i] = t
    <2>1. \E i \in DOMAIN q : q[i] = t BY <1>2 DEF Range
    <2>2. k \in DOMAIN q /\ q[k] = t BY <2>1
    <2>3. Unlink(q, t) = DelAt(q, k) BY <1>2 DEF Unlink
    <2> HIDE DEF k
    <2> QED BY <2>2, <2>3, DelAtQueue
  <1> QED BY <1>1, <1>2

\* After Unlinked(t), t is on no channel and the others are where they were.
LEMMA UnlinkedOK ==
    ASSUME IInv, NEW t \in Task, waiters' = Unlinked(t)
    PROVE  /\ waiters' \in [Channel -> Seq(Task)]
           /\ \A c \in Channel : Distinct(waiters'[c])
           /\ \A c \in Channel : ~Linked(t, c)'
           /\ \A c \in Channel : \A u \in Task \ {t} : Linked(u, c)' <=> Linked(u, c)
  <1>1. ASSUME NEW c \in Channel
        PROVE  /\ waiters'[c] \in Seq(Task) /\ Distinct(waiters'[c])
               /\ Range(waiters'[c]) = Range(waiters[c]) \ {t}
    <2>1. waiters'[c] = Unlink(waiters[c], t) BY DEF Unlinked
    <2>2. waiters[c] \in Seq(Task) /\ Distinct(waiters[c]) BY DEF IInv, TypeOK
    <2> QED BY <2>1, <2>2, UnlinkOK
  <1>2. waiters' \in [Channel -> Seq(Task)] BY <1>1 DEF Unlinked
  <1> QED BY <1>1, <1>2 DEF Linked

\* wait_channel_wake_one takes one sleeper off the channel and makes it run.
LEMMA WakeOneOK ==
    ASSUME IInv, NEW c \in Channel, wait_channel_wake_one(c)
    PROVE  \E w \in Task :
             /\ state[w] = "sleeping" /\ state' = [state EXCEPT ![w] = "running"]
             /\ waiters' \in [Channel -> Seq(Task)]
             /\ \A d \in Channel : Distinct(waiters'[d])
             /\ \A d \in Channel : \A u \in Task \ {w} : Linked(u, d)' <=> Linked(u, d)
             /\ \A d \in Channel : Linked(w, d)' => Linked(w, d)
  <1>0. waiters \in [Channel -> Seq(Task)] /\ \A d \in Channel : Distinct(waiters[d])
    BY DEF IInv, TypeOK
  <1>1. PICK i \in DOMAIN waiters[c] :
          /\ Sleeper(c, i)
          /\ state' = [state EXCEPT ![waiters[c][i]] = "running"]
          /\ waiters' = [waiters EXCEPT ![c] = DelAt(waiters[c], i)]
    BY DEF wait_channel_wake_one
  <1> DEFINE w == waiters[c][i]
             r == DelAt(waiters[c], i)
  <1>2. w \in Task /\ state[w] = "sleeping" BY <1>0, <1>1 DEF Sleeper
  <1>3. r \in Seq(Task) /\ Range(r) = Range(waiters[c]) \ {w} /\ Distinct(r)
    BY <1>0, DelAtQueue
  <1>4. waiters' = [waiters EXCEPT ![c] = r] BY <1>1
  <1> HIDE DEF r
  <1>5. waiters' \in [Channel -> Seq(Task)] /\ waiters'[c] = r
        /\ \A d \in Channel \ {c} : waiters'[d] = waiters[d]
    BY <1>0, <1>3, <1>4
  <1>6. \A d \in Channel : Distinct(waiters'[d]) BY <1>0, <1>3, <1>5
  <1>7. \A d \in Channel : Range(waiters'[d]) \subseteq Range(waiters[d])
        /\ Range(waiters[d]) \subseteq Range(waiters'[d]) \cup {w}
    BY <1>3, <1>5
  <1>8. state' = [state EXCEPT ![w] = "running"] BY <1>1
  <1> HIDE DEF w
  <1> QED BY <1>2, <1>5, <1>6, <1>7, <1>8 DEF Linked

-----------------------------------------------------------------------------
(* A task that an action does not touch.                                   *)

Same(u) ==
    /\ pc'[u] = pc[u] /\ state'[u] = state[u] /\ req'[u] = req[u] /\ todo'[u] = todo[u]
    /\ timer_active'[u] = timer_active[u] /\ armed'[u] = armed[u]
    /\ active_wait'[u] = active_wait[u] /\ due'[u] = due[u] /\ pending'[u] = pending[u]
    /\ \A c \in Channel : Linked(u, c)' <=> Linked(u, c)

\* It stays good if the hart leaves it only where it may and comes to it only
\* alive, and if a source that becomes ready is going to wake.
LEMMA SameOK ==
    ASSUME IInv, NEW u \in Task, Same(u),
           u # current' => pc[u] \in {"out", "finish"},
           u = current' => state[u] # "dead",
           \A c \in Channel \cap Broadcast : ready'[c] => ready[c] \/ c \in waking',
           \A c \in Channel : Linked(u, c) /\ state[u] = "sleeping" /\ c \in waking => c \in waking'
    PROVE  Good(u)'
  <1>0. Good(u) /\ req[u].chans \subseteq Channel
    BY DEF IInv, TypeOK, Requests, NoRequest
  <1>1. PlaceOK(u)' BY <1>0 DEF Good, PlaceOK, Same
  <1>2. TimerOK(u)' BY <1>0 DEF Good, TimerOK, Same, Asleep
  <1>3. WatchOK(u)'
    <2>1. /\ pc'[u] = "out" => \A c \in Channel : ~Linked(u, c)'
          /\ pc'[u] \in Waits \ {"recheck"} => todo'[u] = {}
          /\ Asleep(u)' => ~(req'[u].interruptible /\ pending'[u])
      BY <1>0 DEF Good, WatchOK, Same, Asleep
    <2>2. ASSUME state'[u] = "sleeping", pc'[u] \in Waits, NEW c \in req'[u].chans \ todo'[u]
          PROVE  Linked(u, c)' /\ (c \in Broadcast /\ ready'[c] => c \in waking')
      <3>1. c \in req[u].chans \ todo[u] /\ c \in Channel BY <2>2, <1>0 DEF Same
      <3>2. Linked(u, c) /\ (c \in Broadcast /\ ready[c] => c \in waking)
        BY <1>0, <2>2, <3>1 DEF Good, WatchOK, Same
      <3> QED BY <3>1, <3>2, <2>2 DEF Same
    <2> QED BY <2>1, <2>2 DEF WatchOK
  <1> QED BY <1>1, <1>2, <1>3 DEF Good

-----------------------------------------------------------------------------
(* The steps of wait_for.                                                  *)

\* A request names channels.
LEMMA ReqOK == ASSUME TypeOK, NEW t \in Task PROVE req[t].chans \subseteq Channel
  <1>1. CASE req[t] \in Requests BY <1>1 DEF Requests
  <1>2. CASE req[t] = NoRequest BY <1>2 DEF NoRequest
  <1> QED BY <1>1, <1>2 DEF TypeOK

\* What a step that touches one task must show: it is good for that task.
LEMMA OneTaskOK ==
    ASSUME IInv, NEW t \in Task, current' = current, TypeOK',
           \A c \in Channel : Distinct(waiters'[c]),
           \A u \in Task \ {t} : Same(u),
           UNCHANGED <<waking, ready>>, Good(t)'
    PROVE  IInv'
  <1>1. ASSUME NEW u \in Task PROVE Good(u)'
    <2>1. CASE u = t BY <2>1
    <2>2. CASE u # t
      <3>1. Same(u) /\ Good(u) BY <2>2 DEF IInv
      <3>2. /\ u # current => pc[u] \in {"out", "finish"}
            /\ u = current => state[u] # "dead"
        BY <3>1 DEF Good, PlaceOK
      <3> QED BY <2>2, <3>1, <3>2, SameOK
    <2> QED BY <2>1, <2>2
  <1> QED BY <1>1 DEF IInv

LEMMA EnterOK == ASSUME IInv, NEW t \in Task, Enter(t) PROVE IInv'
  <1>0. TypeOK /\ Good(t) /\ current = t /\ current' = t /\ pc[t] = "out" /\ state[t] = "running"
    BY DEF IInv, Enter, At, Runs, kernel
  <1>1. PICK r \in Requests : req' = [req EXCEPT ![t] = r] /\ todo' = [todo EXCEPT ![t] = r.chans]
    BY DEF Enter
  <1>2. /\ pc' = [pc EXCEPT ![t] = "check"] /\ active_wait' = [active_wait EXCEPT ![t] = TRUE]
        /\ UNCHANGED <<current, state, waking, waiters, timer_active, armed, ready, pending, due, outcome>>
    BY DEF Enter, Goto, kernel, world
  <1>3. r.chans \subseteq Channel BY DEF Requests
  <1>4. TypeOK' BY <1>0, <1>1, <1>2, <1>3 DEF TypeOK, Points
  <1>5. \A c \in Channel : Distinct(waiters'[c]) BY <1>2 DEF IInv
  <1>6. \A u \in Task \ {t} : Same(u) BY <1>0, <1>1, <1>2 DEF Same, TypeOK, Linked
  <1>7. Good(t)'
    BY <1>0, <1>1, <1>2 DEF TypeOK, Good, PlaceOK, TimerOK, WatchOK, Asleep, Waits
  <1> QED BY <1>0, <1>2, <1>4, <1>5, <1>6, <1>7, OneTaskOK

LEMMA CheckOK == ASSUME IInv, NEW t \in Task, wait_check(t) PROVE IInv'
  <1>0. /\ TypeOK /\ Good(t) /\ current = t /\ pc[t] \in {"check", "recheck"} /\ waking = {}
        /\ UNCHANGED <<current, state, waking, req, timer_active, armed, active_wait, ready, pending, due>>
    BY DEF IInv, wait_check, Runs, kernel, world
  <1>1. PICK c \in todo[t] :
          \/ ready[c] /\ Leave(t, "event") /\ UNCHANGED <<todo, waiters>>
          \/ /\ ~ready[c]
             /\ todo' = [todo EXCEPT ![t] = @ \ {c}]
             /\ waiters' = [waiters EXCEPT ![c] = IF Linked(t, c) THEN @ ELSE Append(@, t)]
             /\ UNCHANGED <<pc, outcome>>
    BY DEF wait_check
  <1>2. c \in Channel BY <1>0 DEF TypeOK
  <1>3. CASE ready[c] /\ Leave(t, "event") /\ UNCHANGED <<todo, waiters>>
    <2>1. pc' = [pc EXCEPT ![t] = "detach"] /\ outcome' = [outcome EXCEPT ![t] = "event"]
      BY <1>3 DEF Leave, Goto
    <2>2. TypeOK' BY <1>0, <1>3, <2>1 DEF TypeOK, Points
    <2>3. \A d \in Channel : Distinct(waiters'[d]) BY <1>3 DEF IInv
    <2>4. \A u \in Task \ {t} : Same(u) BY <1>0, <1>3, <2>1 DEF Same, TypeOK, Linked
    <2>5. Good(t)'
      BY <1>0, <1>3, <2>1 DEF TypeOK, Good, PlaceOK, TimerOK, WatchOK, Asleep, Waits
    <2> QED BY <1>0, <2>2, <2>3, <2>4, <2>5, OneTaskOK
  <1>4. CASE /\ ~ready[c]
             /\ todo' = [todo EXCEPT ![t] = @ \ {c}]
             /\ waiters' = [waiters EXCEPT ![c] = IF Linked(t, c) THEN @ ELSE Append(@, t)]
             /\ UNCHANGED <<pc, outcome>>
    <2> DEFINE q == IF Linked(t, c) THEN waiters[c] ELSE Append(waiters[c], t)
    <2>1. waiters[c] \in Seq(Task) /\ Distinct(waiters[c]) BY <1>2 DEF IInv, TypeOK
    <2>2. q \in Seq(Task) /\ Distinct(q) /\ Range(q) = Range(waiters[c]) \cup {t}
      BY <2>1, AppendQueue DEF Linked
    <2>3. waiters' = [waiters EXCEPT ![c] = q] BY <1>4
    <2> HIDE DEF q
    <2>4. /\ waiters' \in [Channel -> Seq(Task)] /\ waiters'[c] = q
          /\ \A d \in Channel \ {c} : waiters'[d] = waiters[d]
      BY <1>0, <1>2, <2>2, <2>3 DEF TypeOK
    <2>5. \A d \in Channel : Distinct(waiters'[d]) BY <2>2, <2>4 DEF IInv
    <2>6. /\ \A d \in Channel : \A u \in Task \ {t} : Linked(u, d)' <=> Linked(u, d)
          /\ \A d \in Channel : Linked(t, d) => Linked(t, d)'
          /\ Linked(t, c)'
      BY <1>2, <2>2, <2>4 DEF Linked
    <2>7. TypeOK' BY <1>0, <1>4, <2>4 DEF TypeOK
    <2>8. \A u \in Task \ {t} : Same(u) BY <1>0, <1>4, <2>6 DEF Same, TypeOK
    <2>9. todo'[t] = todo[t] \ {c} /\ req[t].chans \subseteq Channel
      BY <1>0, <1>4, ReqOK DEF TypeOK
    <2>10. Good(t)'
      <3>1. PlaceOK(t)' /\ TimerOK(t)'
        BY <1>0, <1>4 DEF Good, PlaceOK, TimerOK, Asleep
      <3>2. WatchOK(t)'
        BY <1>0, <1>2, <1>4, <2>6, <2>9 DEF Good, WatchOK, Asleep, Waits
      <3> QED BY <3>1, <3>2 DEF Good
    <2> QED BY <1>0, <2>5, <2>7, <2>8, <2>10, OneTaskOK
  <1> QED BY <1>1, <1>3, <1>4

LEMMA ArbitrateOK == ASSUME IInv, NEW t \in Task, wait_arbitrate(t) PROVE IInv'
  <1>0. /\ TypeOK /\ Good(t) /\ current = t /\ pc[t] \in {"check", "recheck"} /\ todo[t] = {}
        /\ UNCHANGED <<current, state, waking, req, todo, waiters, timer_active, armed, active_wait,
                       ready, pending, due>>
    BY DEF IInv, wait_arbitrate, Runs, kernel, session, world
  <1>1. \E p \in {"arm", "block", "detach"}, o \in {"none", "event", "signal", "timeout"} :
          /\ pc' = [pc EXCEPT ![t] = p] /\ outcome' = [outcome EXCEPT ![t] = o]
          /\ p = "arm" => pc[t] = "check"
          /\ p = "block" => /\ pc[t] = "recheck" /\ ~(req[t].interruptible /\ pending[t])
                            /\ ~(req[t].deadline /\ due[t])
    <2>1. outcome = [outcome EXCEPT ![t] = outcome[t]]
          /\ outcome[t] \in {"none", "event", "signal", "timeout"}
      BY <1>0 DEF TypeOK
    <2>2. CASE req[t].interruptible /\ pending[t] BY <2>2 DEF wait_arbitrate, Leave, Goto
    <2>3. CASE ~(req[t].interruptible /\ pending[t]) /\ req[t].deadline /\ due[t]
      BY <2>3 DEF wait_arbitrate, Leave, Goto
    <2>4. CASE ~(req[t].interruptible /\ pending[t]) /\ ~(req[t].deadline /\ due[t])
      <3>1. /\ pc' = [pc EXCEPT ![t] = IF pc[t] = "check" THEN "arm" ELSE "block"]
            /\ outcome' = outcome
        BY <2>4 DEF wait_arbitrate, Goto
      <3>2. CASE pc[t] = "check" BY <3>1, <3>2, <2>1
      <3>3. CASE pc[t] # "check" BY <3>1, <3>3, <2>1, <2>4, <1>0
      <3> QED BY <3>2, <3>3
    <2> QED BY <2>2, <2>3, <2>4
  <1>2. PICK p \in {"arm", "block", "detach"}, o \in {"none", "event", "signal", "timeout"} :
          /\ pc' = [pc EXCEPT ![t] = p] /\ outcome' = [outcome EXCEPT ![t] = o]
          /\ p = "arm" => pc[t] = "check"
          /\ p = "block" => /\ pc[t] = "recheck" /\ ~(req[t].interruptible /\ pending[t])
                            /\ ~(req[t].deadline /\ due[t])
    BY <1>1
  <1>3. TypeOK' BY <1>0, <1>2 DEF TypeOK, Points
  <1>4. \A c \in Channel : Distinct(waiters'[c]) BY <1>0 DEF IInv
  <1>5. \A u \in Task \ {t} : Same(u) BY <1>0, <1>2 DEF Same, TypeOK, Linked
  <1>6. Good(t)'
    <2>1. pc'[t] = p BY <1>0, <1>2 DEF TypeOK
    <2>2. PlaceOK(t)' BY <1>0, <1>2, <2>1 DEF Good, PlaceOK, Waits
    <2>3. TimerOK(t)' BY <1>0, <1>2, <2>1 DEF Good, TimerOK, Asleep, Waits
    <2>4. WatchOK(t)' BY <1>0, <1>2, <2>1 DEF Good, WatchOK, Asleep, Waits, Linked
    <2> QED BY <2>2, <2>3, <2>4 DEF Good
  <1> QED BY <1>0, <1>3, <1>4, <1>5, <1>6, OneTaskOK

LEMMA TimerStartOK == ASSUME IInv, NEW t \in Task, wait_timer_start(t) PROVE IInv'
  <1>0. /\ TypeOK /\ Good(t) /\ current = t /\ pc[t] = "arm" /\ pc' = [pc EXCEPT ![t] = "sleep"]
        /\ UNCHANGED <<current, state, waking, req, todo, waiters, active_wait, ready, pending, due,
                       outcome>>
    BY DEF IInv, wait_timer_start, At, Runs, Goto, kernel, world
  <1>1. CASE req[t].deadline /\ ~timer_active[t]
    <2>1. /\ timer_active' = [timer_active EXCEPT ![t] = TRUE]
          /\ armed' = [armed EXCEPT ![t] = TRUE]
      BY <1>1 DEF wait_timer_start
    <2>2. TypeOK' BY <1>0, <2>1 DEF TypeOK, Points
    <2>3. \A c \in Channel : Distinct(waiters'[c]) BY <1>0 DEF IInv
    <2>4. \A u \in Task \ {t} : Same(u) BY <1>0, <2>1 DEF Same, TypeOK, Linked
    <2>5. Good(t)'
      BY <1>0, <2>1 DEF TypeOK, Good, PlaceOK, TimerOK, WatchOK, Asleep, Waits
    <2> QED BY <1>0, <2>2, <2>3, <2>4, <2>5, OneTaskOK
  <1>2. CASE ~(req[t].deadline /\ ~timer_active[t])
    <2>1. UNCHANGED <<timer_active, armed>> BY <1>2 DEF wait_timer_start
    <2>2. TypeOK' BY <1>0, <2>1 DEF TypeOK, Points
    <2>3. \A c \in Channel : Distinct(waiters'[c]) BY <1>0 DEF IInv
    <2>4. \A u \in Task \ {t} : Same(u) BY <1>0, <2>1 DEF Same, TypeOK, Linked
    <2>5. Good(t)'
      BY <1>0, <1>2, <2>1 DEF TypeOK, Good, PlaceOK, TimerOK, WatchOK, Asleep, Waits
    <2> QED BY <1>0, <2>2, <2>3, <2>4, <2>5, OneTaskOK
  <1> QED BY <1>1, <1>2

LEMMA SetSleepOK == ASSUME IInv, NEW t \in Task, SetSleep(t) PROVE IInv'
  <1>0. /\ TypeOK /\ Good(t) /\ current = t /\ pc[t] = "sleep" /\ pc' = [pc EXCEPT ![t] = "recheck"]
        /\ state' = [state EXCEPT ![t] = "sleeping"]
        /\ todo' = [todo EXCEPT ![t] = req[t].chans]
        /\ UNCHANGED <<current, waking, req, waiters, timer_active, armed, active_wait, ready, pending,
                       due, outcome>>
    BY DEF IInv, SetSleep, At, Runs, Goto, world
  <1>1. TypeOK' BY <1>0, ReqOK DEF TypeOK, Points
  <1>2. \A c \in Channel : Distinct(waiters'[c]) BY <1>0 DEF IInv
  <1>3. \A u \in Task \ {t} : Same(u) BY <1>0 DEF Same, TypeOK, Linked
  <1>4. Good(t)' BY <1>0 DEF TypeOK, Good, PlaceOK, TimerOK, WatchOK, Asleep, Waits
  <1> QED BY <1>0, <1>1, <1>2, <1>3, <1>4, OneTaskOK

LEMMA FinishOK == ASSUME IInv, NEW t \in Task, wait_finish_current_state(t) PROVE IInv'
  <1>0. /\ TypeOK /\ Good(t) /\ current = t /\ pc[t] = "finish" /\ pc' = [pc EXCEPT ![t] = "check"]
        /\ state' = [state EXCEPT ![t] = "running"]
        /\ todo' = [todo EXCEPT ![t] = req[t].chans]
        /\ UNCHANGED <<current, waking, req, waiters, timer_active, armed, active_wait, ready, pending,
                       due, outcome>>
    BY DEF IInv, wait_finish_current_state, At, Runs, Goto, world
  <1>1. TypeOK' BY <1>0, ReqOK DEF TypeOK, Points
  <1>2. \A c \in Channel : Distinct(waiters'[c]) BY <1>0 DEF IInv
  <1>3. \A u \in Task \ {t} : Same(u) BY <1>0 DEF Same, TypeOK, Linked
  <1>4. Good(t)' BY <1>0 DEF TypeOK, Good, PlaceOK, TimerOK, WatchOK, Asleep, Waits
  <1> QED BY <1>0, <1>1, <1>2, <1>3, <1>4, OneTaskOK

LEMMA WfiOK == ASSUME IInv, NEW t \in Task, WfiDone(t) PROVE IInv'
  <1>0. /\ TypeOK /\ Good(t) /\ current = t /\ pc[t] = "wfi" /\ pc' = [pc EXCEPT ![t] = "finish"]
        /\ UNCHANGED <<current, state, waking, req, todo, waiters, timer_active, armed, active_wait,
                       ready, pending, due, outcome>>
    BY DEF IInv, WfiDone, At, Runs, Goto, kernel, session, world
  <1>1. TypeOK' BY <1>0 DEF TypeOK, Points
  <1>2. \A c \in Channel : Distinct(waiters'[c]) BY <1>0 DEF IInv
  <1>3. \A u \in Task \ {t} : Same(u) BY <1>0 DEF Same, TypeOK, Linked
  <1>4. Good(t)'
    BY <1>0 DEF TypeOK, Good, PlaceOK, TimerOK, WatchOK, Asleep, Waits, Linked
  <1> QED BY <1>0, <1>1, <1>2, <1>3, <1>4, OneTaskOK

LEMMA DetachOK == ASSUME IInv, NEW t \in Task, wait_session_detach(t) PROVE IInv'
  <1>0. /\ TypeOK /\ Good(t) /\ current = t /\ pc[t] = "detach" /\ pc' = [pc EXCEPT ![t] = "cleanup"]
        /\ active_wait' = [active_wait EXCEPT ![t] = FALSE]
        /\ state' = [state EXCEPT ![t] = "running"]
        /\ UNCHANGED <<current, waking, req, todo, waiters, timer_active, armed, ready, pending, due,
                       outcome>>
    BY DEF IInv, wait_session_detach, At, Runs, Goto, world
  <1>1. TypeOK' BY <1>0 DEF TypeOK, Points
  <1>2. \A c \in Channel : Distinct(waiters'[c]) BY <1>0 DEF IInv
  <1>3. \A u \in Task \ {t} : Same(u) BY <1>0 DEF Same, TypeOK, Linked
  <1>4. Good(t)' BY <1>0 DEF TypeOK, Good, PlaceOK, TimerOK, WatchOK, Asleep, Waits
  <1> QED BY <1>0, <1>1, <1>2, <1>3, <1>4, OneTaskOK

LEMMA CleanupOK == ASSUME IInv, NEW t \in Task, wait_session_cleanup(t) PROVE IInv'
  <1>0. /\ TypeOK /\ Good(t) /\ current = t /\ pc[t] = "cleanup" /\ pc' = [pc EXCEPT ![t] = "out"]
        /\ timer_active' = [timer_active EXCEPT ![t] = FALSE]
        /\ armed' = [armed EXCEPT ![t] = FALSE] /\ waiters' = Unlinked(t)
        /\ req' = [req EXCEPT ![t] = NoRequest] /\ todo' = [todo EXCEPT ![t] = {}]
        /\ due' = [due EXCEPT ![t] = FALSE] /\ outcome' = [outcome EXCEPT ![t] = "none"]
        /\ UNCHANGED <<current, state, waking, active_wait, ready, pending>>
    BY DEF IInv, wait_session_cleanup, Forget, At, Runs, Goto, kernel
  <1>1. /\ waiters' \in [Channel -> Seq(Task)]
        /\ \A c \in Channel : Distinct(waiters'[c])
        /\ \A c \in Channel : ~Linked(t, c)'
        /\ \A c \in Channel : \A u \in Task \ {t} : Linked(u, c)' <=> Linked(u, c)
    BY <1>0, UnlinkedOK
  <1>2. TypeOK' BY <1>0, <1>1 DEF TypeOK, Points
  <1>3. \A u \in Task \ {t} : Same(u) BY <1>0, <1>1 DEF Same, TypeOK
  <1>4. Good(t)' BY <1>0, <1>1 DEF TypeOK, Good, PlaceOK, TimerOK, WatchOK, Asleep, Waits
  <1> QED BY <1>0, <1>1, <1>2, <1>3, <1>4, OneTaskOK

\* A switch from t to a runnable task.
LEMMA BlockOK == ASSUME IInv, NEW t \in Task, wait_block_current(t) PROVE IInv'
  <1>0. /\ TypeOK /\ Good(t) /\ current = t /\ pc[t] = "block"
        /\ UNCHANGED <<state, waking, req, todo, waiters, timer_active, armed, active_wait, ready,
                       pending, due, outcome>>
    BY DEF IInv, wait_block_current, At, Runs, session, world
  <1>1. PICK p \in {"finish", "wfi"} :
          /\ pc' = [pc EXCEPT ![t] = p]
          /\ current' = t \/ (p = "finish" /\ current' \in Runnable)
    BY <1>0 DEF wait_block_current, Goto
  <1>2. TypeOK' BY <1>0, <1>1 DEF TypeOK, Points, Runnable
  <1>3. \A u \in Task \ {t} : Same(u) BY <1>0, <1>1 DEF Same, TypeOK, Linked
  <1>4. Good(t)'
    <2>1. pc'[t] = p BY <1>0, <1>1 DEF TypeOK
    <2>2. PlaceOK(t)' BY <1>0, <1>1, <2>1 DEF Good, PlaceOK, Waits, Runnable
    <2>3. TimerOK(t)' BY <1>0, <1>1, <2>1 DEF Good, TimerOK, Asleep, Waits
    <2>4. WatchOK(t)' BY <1>0, <1>1, <2>1 DEF Good, WatchOK, Asleep, Waits, Linked
    <2> QED BY <2>2, <2>3, <2>4 DEF Good
  <1>5. ASSUME NEW u \in Task \ {t} PROVE Good(u)'
    <2>1. Same(u) /\ Good(u) BY <1>3 DEF IInv
    <2>2. pc[u] \in {"out", "finish"} BY <1>0, <2>1 DEF Good, PlaceOK
    <2>3. u = current' => state[u] # "dead" BY <1>1 DEF Runnable
    <2> QED BY <1>0, <2>1, <2>2, <2>3, SameOK
  <1>6. \A u \in Task : Good(u)' BY <1>4, <1>5
  <1> QED BY <1>0, <1>2, <1>6 DEF IInv

-----------------------------------------------------------------------------
(* Signals and time.                                                       *)

LEMMA SignalOK == ASSUME IInv, NEW t \in Task, Signal(t) PROVE IInv'
  <1>0. /\ TypeOK /\ Good(t) /\ pending' = [pending EXCEPT ![t] = TRUE]
        /\ UNCHANGED <<current, waking, pc, req, todo, waiters, timer_active, armed, active_wait, ready,
                       due, outcome>>
    BY DEF IInv, Signal, session
  <1>1. /\ state' = state \/ (state[t] = "sleeping" /\ state' = [state EXCEPT ![t] = "running"])
        /\ req[t].interruptible => state'[t] # "sleeping"
    BY <1>0 DEF Signal, Woken, TypeOK
  <1>2. TypeOK' BY <1>0, <1>1 DEF TypeOK
  <1>3. \A c \in Channel : Distinct(waiters'[c]) BY <1>0 DEF IInv
  <1>4. \A u \in Task \ {t} : Same(u) BY <1>0, <1>1 DEF Same, TypeOK, Linked
  <1>5. Good(t)'
    <2>1. state'[t] = state[t] \/ (state[t] = "sleeping" /\ state'[t] = "running")
      BY <1>0, <1>1 DEF TypeOK
    <2>2. PlaceOK(t)' BY <1>0, <2>1 DEF Good, PlaceOK
    <2>3. TimerOK(t)' BY <1>0, <2>1 DEF Good, TimerOK, Asleep
    <2>4. WatchOK(t)' BY <1>0, <1>1, <2>1 DEF Good, WatchOK, Asleep, Linked
    <2> QED BY <2>2, <2>3, <2>4 DEF Good
  <1> QED BY <1>0, <1>2, <1>3, <1>4, <1>5, OneTaskOK

LEMMA DeliverOK == ASSUME IInv, NEW t \in Task, Deliver(t) PROVE IInv'
  <1>0. /\ TypeOK /\ Good(t) /\ pc[t] = "out" /\ pending' = [pending EXCEPT ![t] = FALSE]
        /\ UNCHANGED <<current, state, waking, pc, req, todo, waiters, timer_active, armed, active_wait,
                       ready, due, outcome>>
    BY DEF IInv, Deliver, At, kernel, session
  <1>1. TypeOK' BY <1>0 DEF TypeOK
  <1>2. \A c \in Channel : Distinct(waiters'[c]) BY <1>0 DEF IInv
  <1>3. \A u \in Task \ {t} : Same(u) BY <1>0 DEF Same, TypeOK, Linked
  <1>4. Good(t)'
    BY <1>0 DEF TypeOK, Good, PlaceOK, TimerOK, WatchOK, Asleep, Linked, Waits
  <1> QED BY <1>0, <1>1, <1>2, <1>3, <1>4, OneTaskOK

LEMMA ElapseOK == ASSUME IInv, NEW t \in Task, Elapse(t) PROVE IInv'
  <1>0. /\ TypeOK /\ Good(t) /\ due' = [due EXCEPT ![t] = TRUE]
        /\ UNCHANGED <<current, state, waking, pc, req, todo, waiters, timer_active, armed, active_wait,
                       ready, pending, outcome>>
    BY DEF IInv, Elapse, kernel, session
  <1>1. TypeOK' BY <1>0 DEF TypeOK
  <1>2. \A c \in Channel : Distinct(waiters'[c]) BY <1>0 DEF IInv
  <1>3. \A u \in Task \ {t} : Same(u) BY <1>0 DEF Same, TypeOK, Linked
  <1>4. Good(t)'
    <2>1. due'[t] BY <1>0 DEF TypeOK
    <2>2. PlaceOK(t)' BY <1>0 DEF Good, PlaceOK
    <2>3. TimerOK(t)' BY <1>0, <2>1 DEF Good, TimerOK, Asleep
    <2>4. WatchOK(t)' BY <1>0 DEF Good, WatchOK, Asleep, Linked
    <2> QED BY <2>2, <2>3, <2>4 DEF Good
  <1> QED BY <1>0, <1>1, <1>2, <1>3, <1>4, OneTaskOK

LEMMA FireOK == ASSUME IInv, NEW t \in Task, wait_timer_fire(t) PROVE IInv'
  <1>0. /\ TypeOK /\ Good(t) /\ due[t] /\ armed' = [armed EXCEPT ![t] = FALSE]
        /\ UNCHANGED <<current, waking, pc, req, todo, waiters, timer_active, active_wait, ready,
                       pending, due, outcome>>
    BY DEF IInv, wait_timer_fire, world
  <1>1. /\ state' = state \/ (state[t] = "sleeping" /\ state' = [state EXCEPT ![t] = "running"])
        /\ state'[t] # "sleeping"
    BY <1>0 DEF wait_timer_fire, Woken, TypeOK
  <1>2. TypeOK' BY <1>0, <1>1 DEF TypeOK
  <1>3. \A c \in Channel : Distinct(waiters'[c]) BY <1>0 DEF IInv
  <1>4. \A u \in Task \ {t} : Same(u) BY <1>0, <1>1 DEF Same, TypeOK, Linked
  <1>5. Good(t)'
    <2>1. /\ state'[t] = state[t] \/ (state[t] = "sleeping" /\ state'[t] = "running")
          /\ ~armed'[t]
      BY <1>0, <1>1 DEF TypeOK
    <2>2. PlaceOK(t)' BY <1>0, <2>1 DEF Good, PlaceOK
    <2>3. TimerOK(t)' BY <1>0, <1>1, <2>1 DEF Good, TimerOK, Asleep
    <2>4. WatchOK(t)' BY <1>0, <1>1, <2>1 DEF Good, WatchOK, Asleep, Linked
    <2> QED BY <2>2, <2>3, <2>4 DEF Good
  <1> QED BY <1>0, <1>2, <1>3, <1>4, <1>5, OneTaskOK

-----------------------------------------------------------------------------
(* Sources.                                                                *)

\* wait_channel_wake_one, as Post and wake_all call it.
LEMMA WakeStepOK ==
    ASSUME IInv, NEW c \in Channel, wait_channel_wake_one(c), ready' \in [Channel -> BOOLEAN],
           \A d \in Channel \cap Broadcast : ready'[d] => ready[d],
           UNCHANGED <<current, waking, pc, req, todo, timer_active, armed, active_wait, pending, due,
                       outcome>>
    PROVE  IInv'
  <1>1. PICK w \in Task :
          /\ state[w] = "sleeping" /\ state' = [state EXCEPT ![w] = "running"]
          /\ waiters' \in [Channel -> Seq(Task)]
          /\ \A d \in Channel : Distinct(waiters'[d])
          /\ \A d \in Channel : \A u \in Task \ {w} : Linked(u, d)' <=> Linked(u, d)
          /\ \A d \in Channel : Linked(w, d)' => Linked(w, d)
    BY WakeOneOK
  <1>2. TypeOK' BY <1>1 DEF IInv, TypeOK
  <1>3. Good(w)'
    <2>1. Good(w) /\ state'[w] = "running" BY <1>1 DEF IInv, TypeOK
    <2>2. PlaceOK(w)' BY <1>1, <2>1 DEF Good, PlaceOK
    <2>3. TimerOK(w)' BY <2>1 DEF Good, TimerOK, Asleep
    <2>4. WatchOK(w)' BY <1>1, <2>1 DEF Good, WatchOK, Asleep
    <2> QED BY <2>2, <2>3, <2>4 DEF Good
  <1>4. ASSUME NEW u \in Task \ {w} PROVE Good(u)'
    <2>1. Same(u) BY <1>1 DEF Same, IInv, TypeOK
    <2>2. /\ u # current => pc[u] \in {"out", "finish"}
          /\ u = current => state[u] # "dead"
      BY DEF IInv, Good, PlaceOK
    <2> QED BY <2>1, <2>2, SameOK
  <1>5. \A u \in Task : Good(u)' BY <1>3, <1>4
  <1> QED BY <1>1, <1>2, <1>5 DEF IInv

\* A step that touches no task, only what sources there are to wake for.
LEMMA NoTaskOK ==
    ASSUME IInv, ready' \in [Channel -> BOOLEAN], waking' \subseteq Broadcast,
           \A c \in Channel \cap Broadcast : ready'[c] => ready[c] \/ c \in waking',
           \A c \in waking \ waking' : NoSleeper(c),
           UNCHANGED <<current, state, waiters, pc, req, todo, timer_active, armed, active_wait, pending,
                       due, outcome>>
    PROVE  IInv'
  <1>1. TypeOK' BY DEF IInv, TypeOK
  <1>2. \A c \in Channel : Distinct(waiters'[c]) BY DEF IInv
  <1>3. ASSUME NEW u \in Task PROVE Good(u)'
    <2>1. Same(u) BY DEF Same, Linked
    <2>2. /\ u # current => pc[u] \in {"out", "finish"}
          /\ u = current => state[u] # "dead"
      BY DEF IInv, Good, PlaceOK
    <2>3. ASSUME NEW c \in Channel, Linked(u, c), state[u] = "sleeping", c \in waking
          PROVE  c \in waking'
      <3>1. PICK i \in DOMAIN waiters[c] : waiters[c][i] = u BY <2>3 DEF Linked, Range
      <3> QED BY <2>3, <3>1 DEF NoSleeper
    <2> QED BY <2>1, <2>2, <2>3, SameOK
  <1> QED BY <1>1, <1>2, <1>3 DEF IInv

LEMMA PostOK == ASSUME IInv, NEW c \in Channel, Post(c) PROVE IInv'
  <1>0. /\ ready' = [ready EXCEPT ![c] = TRUE] /\ ready \in [Channel -> BOOLEAN]
        /\ waking \subseteq Broadcast
        /\ UNCHANGED <<current, pc, req, todo, timer_active, armed, active_wait, pending, due, outcome>>
    BY DEF IInv, TypeOK, Post
  <1>1. /\ ready' \in [Channel -> BOOLEAN]
        /\ \A d \in Channel \ {c} : ready'[d] = ready[d]
    BY <1>0
  <1>2. CASE c \in Broadcast
    <2>1. waking' = waking \cup {c} /\ UNCHANGED <<state, waiters>> BY <1>2 DEF Post
    <2> QED BY <1>0, <1>1, <1>2, <2>1, NoTaskOK
  <1>3. CASE c \notin Broadcast
    <2>1. UNCHANGED waking BY <1>3 DEF Post
    <2>2. CASE wait_channel_wake_one(c) BY <1>0, <1>1, <1>3, <2>1, <2>2, WakeStepOK
    <2>3. CASE UNCHANGED <<state, waiters>> BY <1>0, <1>1, <1>3, <2>1, <2>3, NoTaskOK
    <2> QED BY <1>3, <2>2, <2>3 DEF Post
  <1> QED BY <1>2, <1>3

LEMMA WakeAllOK == ASSUME IInv, NEW c \in Channel, wait_channel_wake_all(c) PROVE IInv'
  <1>0. /\ ready \in [Channel -> BOOLEAN] /\ waking \subseteq Broadcast
        /\ UNCHANGED <<current, pc, req, todo, timer_active, armed, active_wait, ready, pending, due,
                       outcome>>
    BY DEF IInv, TypeOK, wait_channel_wake_all, world
  <1>1. CASE wait_channel_wake_one(c) /\ UNCHANGED waking BY <1>0, <1>1, WakeStepOK
  <1>2. CASE NoSleeper(c) /\ waking' = waking \ {c} /\ UNCHANGED <<state, waiters>>
    <2>1. \A d \in waking \ waking' : NoSleeper(d) BY <1>2
    <2>2. \A d \in Channel \cap Broadcast : ready'[d] => ready[d] \/ d \in waking' BY <1>0
    <2> QED BY <1>0, <1>2, <2>1, <2>2, NoTaskOK
  <1> QED BY <1>1, <1>2 DEF wait_channel_wake_all

LEMMA ConsumeOK == ASSUME IInv, NEW t \in Task, NEW c \in Channel, Consume(t, c) PROVE IInv'
  <1>0. /\ ready \in [Channel -> BOOLEAN] /\ waking \subseteq Broadcast
        /\ ready' = [ready EXCEPT ![c] = FALSE]
        /\ UNCHANGED <<current, state, waking, waiters, pc, req, todo, timer_active, armed, active_wait,
                       pending, due, outcome>>
    BY DEF IInv, TypeOK, Consume, kernel, session
  <1>1. ready' \in [Channel -> BOOLEAN] /\ \A d \in Channel : ready'[d] => ready[d] BY <1>0
  <1> QED BY <1>0, <1>1, NoTaskOK

-----------------------------------------------------------------------------
(* The hart changes hands, tasks go.                                       *)

LEMMA YieldOK == ASSUME IInv, Idle \notin Task, Yield PROVE IInv'
  <1>0. /\ TypeOK /\ current' \in Runnable /\ (current # Idle => pc[current] = "out")
        /\ UNCHANGED <<state, waking, pc, req, todo, waiters, timer_active, armed, active_wait, ready,
                       pending, due, outcome>>
    BY DEF IInv, Yield, session, world
  <1>1. TypeOK' BY <1>0 DEF TypeOK, Runnable
  <1>2. \A c \in Channel : Distinct(waiters'[c]) BY <1>0 DEF IInv
  <1>3. ASSUME NEW u \in Task PROVE Good(u)'
    <2>1. Same(u) BY <1>0 DEF Same, Linked
    <2>2. pc[u] \in {"out", "finish"} BY <1>0 DEF IInv, Good, PlaceOK
    <2>3. u = current' => state[u] # "dead" BY <1>0 DEF Runnable
    <2> QED BY <1>0, <2>1, <2>2, <2>3, SameOK
  <1> QED BY <1>1, <1>2, <1>3 DEF IInv

LEMMA ExitOK == ASSUME IInv, Idle \notin Task, NEW t \in Task, Exit(t) PROVE IInv'
  <1>0. /\ TypeOK /\ Good(t) /\ current = t /\ pc[t] = "out" /\ current' \in Runnable \cup {Idle}
        /\ state' = [state EXCEPT ![t] = "dead"] /\ pending' = [pending EXCEPT ![t] = FALSE]
        /\ UNCHANGED <<waking, pc, req, todo, waiters, timer_active, armed, active_wait, ready, due,
                       outcome>>
    BY DEF IInv, Exit, At, Runs, session
  <1>1. TypeOK' BY <1>0 DEF TypeOK, Runnable
  <1>2. \A c \in Channel : Distinct(waiters'[c]) BY <1>0 DEF IInv
  <1>3. Good(t)'
    <2>1. state'[t] = "dead" /\ t # current' BY <1>0 DEF TypeOK, Runnable
    <2>2. PlaceOK(t)' BY <1>0, <2>1 DEF Good, PlaceOK
    <2>3. TimerOK(t)' BY <1>0, <2>1 DEF Good, TimerOK, Asleep
    <2>4. WatchOK(t)' BY <1>0, <2>1 DEF Good, WatchOK, Asleep, Linked
    <2> QED BY <2>2, <2>3, <2>4 DEF Good
  <1>4. ASSUME NEW u \in Task \ {t} PROVE Good(u)'
    <2>1. Same(u) BY <1>0 DEF Same, TypeOK, Linked
    <2>2. pc[u] \in {"out", "finish"} BY <1>0 DEF IInv, Good, PlaceOK
    <2>3. u = current' => state[u] # "dead" BY <1>0 DEF Runnable
    <2> QED BY <1>0, <2>1, <2>2, <2>3, SameOK
  <1>5. \A u \in Task : Good(u)' BY <1>3, <1>4
  <1> QED BY <1>1, <1>2, <1>5 DEF IInv

\* The torn down task was switched out: either it waits, and everything that its
\* session holds is taken back, or it is outside and holds nothing.
LEMMA CancelOK ==
    ASSUME IInv, NEW t \in Task, NEW u \in Task, wait_cancel_task(t, u) PROVE IInv'
  <1>0. /\ TypeOK /\ Good(u) /\ current = t /\ u # t
        /\ state' = [state EXCEPT ![u] = "dead"] /\ pc' = [pc EXCEPT ![u] = "out"]
        /\ active_wait' = [active_wait EXCEPT ![u] = FALSE]
        /\ pending' = [pending EXCEPT ![u] = FALSE]
        /\ req' = [req EXCEPT ![u] = NoRequest] /\ todo' = [todo EXCEPT ![u] = {}]
        /\ due' = [due EXCEPT ![u] = FALSE] /\ outcome' = [outcome EXCEPT ![u] = "none"]
        /\ UNCHANGED <<current, waking, ready>>
    BY DEF IInv, wait_cancel_task, At, Runs, Alive, Forget
  <1>1. /\ timer_active' \in [Task -> BOOLEAN] /\ armed' \in [Task -> BOOLEAN]
        /\ ~timer_active'[u] /\ ~armed'[u]
        /\ \A v \in Task \ {u} : timer_active'[v] = timer_active[v] /\ armed'[v] = armed[v]
    <2>1. CASE active_wait[u]
      <3>1. /\ timer_active' = [timer_active EXCEPT ![u] = FALSE]
            /\ armed' = IF timer_active[u] THEN [armed EXCEPT ![u] = FALSE] ELSE armed
        BY <2>1 DEF wait_cancel_task
      <3> QED BY <1>0, <3>1 DEF TypeOK, Good, TimerOK
    <2>2. CASE ~active_wait[u]
      <3>1. UNCHANGED <<timer_active, armed>> BY <2>2 DEF wait_cancel_task
      <3>2. pc[u] = "out" BY <1>0, <2>2 DEF Good, PlaceOK
      <3> QED BY <1>0, <3>1, <3>2 DEF TypeOK, Good, TimerOK
    <2> QED BY <2>1, <2>2
  <1>2. /\ waiters' \in [Channel -> Seq(Task)]
        /\ \A c \in Channel : Distinct(waiters'[c])
        /\ \A c \in Channel : ~Linked(u, c)'
        /\ \A c \in Channel : \A v \in Task \ {u} : Linked(v, c)' <=> Linked(v, c)
    <2>1. CASE active_wait[u]
      <3>1. waiters' = Unlinked(u) BY <2>1 DEF wait_cancel_task
      <3> QED BY <3>1, UnlinkedOK
    <2>2. CASE ~active_wait[u]
      <3>1. UNCHANGED waiters BY <2>2 DEF wait_cancel_task
      <3>2. pc[u] = "out" BY <1>0, <2>2 DEF Good, PlaceOK
      <3> QED BY <1>0, <3>1, <3>2 DEF IInv, TypeOK, Good, WatchOK, Linked
    <2> QED BY <2>1, <2>2
  <1>3. TypeOK' BY <1>0, <1>1, <1>2 DEF TypeOK, Points
  <1>4. \A v \in Task \ {u} : Same(v) BY <1>0, <1>1, <1>2 DEF Same, TypeOK
  <1>5. Good(u)'
    <2>1. pc'[u] = "out" /\ state'[u] = "dead" /\ ~active_wait'[u] BY <1>0 DEF TypeOK
    <2>2. PlaceOK(u)' BY <1>0, <2>1 DEF PlaceOK
    <2>3. TimerOK(u)' BY <1>1, <2>1 DEF TimerOK, Asleep, Waits
    <2>4. WatchOK(u)' BY <1>2, <2>1 DEF WatchOK, Asleep, Waits
    <2> QED BY <2>2, <2>3, <2>4 DEF Good
  <1> QED BY <1>0, <1>2, <1>3, <1>4, <1>5, OneTaskOK

-----------------------------------------------------------------------------
(* The theorems.                                                           *)

LEMMA InitOK == ASSUME Idle \notin Task, Init PROVE IInv
  <1>1. TypeOK BY DEF Init, TypeOK, Points
  <1>2. \A c \in Channel : Range(waiters[c]) = {} /\ Distinct(waiters[c])
    BY DEF Init, Distinct, Range
  <1>3. ASSUME NEW t \in Task PROVE Good(t)
    <2>1. pc[t] = "out" /\ state[t] = "running" /\ ~active_wait[t] /\ ~timer_active[t] /\ ~armed[t]
      BY DEF Init
    <2>2. \A c \in Channel : ~Linked(t, c) BY <1>2 DEF Linked
    <2> QED BY <2>1, <2>2 DEF Good, PlaceOK, TimerOK, WatchOK, Asleep, Waits
  <1> QED BY <1>1, <1>2, <1>3 DEF IInv

LEMMA StutterOK == ASSUME IInv, UNCHANGED vars PROVE IInv'
  <1>1. UNCHANGED <<current, state, waking, pc, req, todo, waiters, timer_active, armed, active_wait,
                    ready, pending, due, outcome>>
    BY DEF vars, kernel, session, world
  <1>2. ready \in [Channel -> BOOLEAN] /\ waking \subseteq Broadcast BY DEF IInv, TypeOK
  <1> QED BY <1>1, <1>2, NoTaskOK

LEMMA StepOK == ASSUME IInv, Idle \notin Task, [Next]_vars PROVE IInv'
  <1>1. ASSUME NEW t \in Task, WaitFor(t) PROVE IInv'
    BY <1>1, EnterOK, CheckOK, ArbitrateOK, TimerStartOK, SetSleepOK, BlockOK, WfiOK, FinishOK,
       DetachOK, CleanupOK DEF WaitFor
  <1>2. ASSUME NEW t \in Task,
               \/ Signal(t) \/ Deliver(t) \/ Elapse(t) \/ wait_timer_fire(t) \/ Exit(t)
               \/ \E c \in Channel : Consume(t, c)
               \/ \E u \in Task : wait_cancel_task(t, u)
        PROVE  IInv'
    BY <1>2, SignalOK, DeliverOK, ElapseOK, FireOK, ExitOK, ConsumeOK, CancelOK
  <1>3. ASSUME NEW c \in Channel, Post(c) \/ wait_channel_wake_all(c) PROVE IInv'
    BY <1>3, PostOK, WakeAllOK
  <1>4. CASE Yield BY <1>4, YieldOK
  <1>5. CASE UNCHANGED vars BY <1>5, StutterOK
  <1> QED BY <1>1, <1>2, <1>3, <1>4, <1>5 DEF Next

\* The inductive invariant holds throughout, whatever the tasks and channels are.
THEOREM Invariance == ASSUME Idle \notin Task PROVE Spec => []IInv
  <1>1. Init => IInv BY InitOK
  <1>2. IInv /\ [Next]_vars => IInv' BY StepOK
  <1> QED BY <1>1, <1>2, PTL DEF Spec

\* No lost wakeup: a task that is asleep in wait_for has no ready broadcast source
\* that is not about to wake it, no signal it would return for, and its timer.
THEOREM NoLostWakeup == ASSUME Idle \notin Task PROVE Spec => []NotAsleepThrough
  <1>1. IInv => NotAsleepThrough
    <2> SUFFICES ASSUME IInv, NEW t \in Task, Asleep(t)
                 PROVE  /\ \A c \in req[t].chans \cap Broadcast : ready[c] => c \in waking
                        /\ ~(req[t].interruptible /\ pending[t])
                        /\ req[t].deadline => armed[t]
      BY DEF NotAsleepThrough
    <2> QED BY DEF IInv, Good, TimerOK, WatchOK, Asleep, Waits
  <1> QED BY <1>1, Invariance, PTL

\* A sleeper is on every channel it asked for, nobody is on one twice, and
\* wait_for and wait_cancel_task leave no entry and no timer of a stack that is gone.
THEOREM WaitsCorrect == ASSUME Idle \notin Task PROVE Spec => [](TypeOK /\ WaitsExact)
  <1>1. IInv => TypeOK BY DEF IInv
  <1>2. IInv => CleanOutside
    BY DEF IInv, CleanOutside, Good, PlaceOK, TimerOK, WatchOK, Waits
  <1>3. IInv => WatchesExact
    <2> SUFFICES ASSUME IInv PROVE WatchesExact OBVIOUS
    <2>1. \A c \in Channel : \A i, j \in DOMAIN waiters[c] : waiters[c][i] = waiters[c][j] => i = j
      BY DEF IInv, Distinct
    <2>2. \A t \in Task : Asleep(t) => \A c \in req[t].chans : Linked(t, c)
      BY DEF IInv, Good, WatchOK, Asleep, Waits
    <2> QED BY <2>1, <2>2 DEF WatchesExact
  <1>4. IInv => TypeOK /\ WaitsExact BY <1>1, <1>2, <1>3 DEF WaitsExact
  <1> QED BY <1>4, Invariance, PTL
=============================================================================
