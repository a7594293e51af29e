--------------------------- MODULE SignalProofs ----------------------------
(***************************************************************************)
(* Signals are answered and a thread's context survives its handlers, for  *)
(* every set of threads and signals, every mask and disposition a program  *)
(* may ask for and any number of signals: the properties of Signal, proved *)
(* from an invariant that is inductive.                                    *)
(***************************************************************************)
EXTENDS Signal, TLAPS, FiniteSetTheorems, SequenceTheorems, WellFoundedInduction

\* What the proofs need of the constants.
Constants ==
  /\ Leader \in Thread /\ Sig \subseteq Nat /\ UserMask \subseteq SUBSET Sig
  /\ Disposition \subseteq Act /\ IsInit \in BOOLEAN /\ AltStack \subseteq BOOLEAN
  /\ Faults \in BOOLEAN /\ MaxSends \in Nat

-----------------------------------------------------------------------------
(* The inductive invariant, one thread at a time.                          *)

Modes == {"user", "kernel", "sleep", "woken", "stopped", "go on", "dead"}
\* The masks a thread can have: SIGKILL and SIGSTOP are never in one.
SafeMask == SUBSET (Sig \ Unblockable)
Rec == [mode : Modes, call : Call, blocked : SafeMask, pending : SUBSET Sig,
        forced : SUBSET Sig, restore : SUBSET (SUBSET Sig), restart : BOOLEAN,
        frames : Seq(Frame), alt : {"off", "on", "busy"}]

\* The mask of the innermost handler, or of the program.
Top(a) == a[Len(a)]

\* The mask the program asked for is somewhere the kernel will find it: in
\* blocked, in restore_mask, or in what sigsuspend and sigtimedwait have saved;
\* and every frame holds the one of its level.
MaskOK(r, a) ==
  /\ Len(a) = Len(r.frames) + 1
  /\ \A i \in 1..Len(r.frames) : r.frames[i].mask = a[i]
  /\ r.call.op \in {"suspend", "wait"} => r.restore = {} /\ r.call.saved = Top(a)
  /\ r.call.op \in {"none", "read"} =>
       IF r.restore = {} THEN r.blocked = Top(a) ELSE r.restore = {Top(a)}
  /\ r.mode = "user" => r.call.op = "none" /\ r.restore = {}

\* Stop signals and SIGCONT exclude each other, nobody sleeps through a signal,
\* and a call to be restarted has a signal to be arbitrated with.
PendOK(r, sh) ==
  /\ r.forced \subseteq r.pending
  /\ r.mode # "dead" => ~(SIGCONT \in r.pending \cup sh /\ StopMask \cap (r.pending \cup sh) # {})
  /\ r.mode = "sleep" => ~signal_pending(r, sh)
  /\ r.mode = "stopped" => {SIGCONT, SIGKILL} \cap (r.pending \cup sh) = {}
  /\ r.restart => r.mode = "kernel" /\ r.call.op = "none" /\ signal_pending(r, sh)

\* PID 1, as long as it does not ask for its own death.
Spared == IsInit /\ ~Faults /\ TRUE \notin AltStack

\* Without alternate stacks no frame is on one.
SpareOK(r) ==
  /\ Spared => r.mode # "dead" /\ r.forced = {}
  /\ TRUE \notin AltStack =>
       r.alt = "off" /\ \A i \in 1..Len(r.frames) : r.frames[i].alt = "off"

Good(t) == MaskOK(th[t], asked[t]) /\ PendOK(th[t], shared) /\ SpareOK(th[t])

ActionsOK == action \in [Sig -> Act] /\ (SIGKILL \in Sig => action[SIGKILL].h = "dfl")

IInv ==
  /\ th \in [Thread -> Rec]
  /\ asked \in [Thread -> Seq(SafeMask)]
  /\ shared \subseteq Sig
  /\ ActionsOK
  /\ sends \in 0..MaxSends
  /\ \A t, u \in Thread : th[t].mode = "kernel" /\ th[u].mode = "kernel" => t = u
  /\ \A t \in Thread : Good(t)

-----------------------------------------------------------------------------
(* The steps of one thread.                                                *)

\* A step that changes one thread, which has the kernel to itself.
LEMMA OneThread ==
    ASSUME IInv, NEW t \in Thread, NEW r \in Rec, NEW a \in Seq(SafeMask),
           th' = [th EXCEPT ![t] = r], asked' = [asked EXCEPT ![t] = a],
           shared' \subseteq shared, ActionsOK', sends' \in 0..MaxSends,
           KernelFree \/ th[t].mode = "kernel",
           MaskOK(r, a), PendOK(r, shared'), SpareOK(r)
    PROVE  IInv'
  <1>1. th' \in [Thread -> Rec] /\ asked' \in [Thread -> Seq(SafeMask)] /\ shared' \subseteq Sig
    BY DEF IInv
  <1>2. th'[t] = r /\ asked'[t] = a BY DEF IInv
  <1>3. \A u \in Thread \ {t} : th'[u] = th[u] /\ asked'[u] = asked[u] BY DEF IInv
  <1>4. \A u \in Thread \ {t} : th[u].mode # "kernel" BY DEF IInv, KernelFree
  <1>5. \A u, v \in Thread : th'[u].mode = "kernel" /\ th'[v].mode = "kernel" => u = v
    BY <1>3, <1>4
  <1>6. ASSUME NEW u \in Thread PROVE Good(u)'
    <2>1. CASE u = t BY <2>1, <1>2 DEF Good
    <2>2. CASE u # t
      <3>1. Good(u) /\ th'[u] = th[u] /\ asked'[u] = asked[u] /\ th[u].mode # "kernel"
        BY <1>3, <1>4, <2>2 DEF IInv
      <3>2. PendOK(th[u], shared') BY <3>1 DEF Good, PendOK, signal_pending
      <3> QED BY <3>1, <3>2 DEF Good
    <2> QED BY <2>1, <2>2
  <1> QED BY <1>1, <1>5, <1>6 DEF IInv

\* The lowest number of a set of signals.
LEMMA MinOK ==
    ASSUME NEW S, S \subseteq Nat, S # {}
    PROVE  Min(S) \in S /\ \A x \in S : Min(S) <= x
  <1> DEFINE R == OpToRel(<, Nat)
  <1>1. IsWellFoundedOn(R, Nat) BY NatLessThanWellFounded
  <1>2. \A x, y \in Nat : x < y => <<x, y>> \in R BY DEF OpToRel
  <1> HIDE DEF R
  <1>3. PICK x \in S : \A y \in S : ~(<<y, x>> \in R) BY <1>1, WFMin
  <1>4. ASSUME NEW y \in S PROVE x <= y
    <2>1. x \in Nat /\ y \in Nat OBVIOUS
    <2>2. ~(y < x) BY <1>2, <1>3, <2>1
    <2> QED BY <2>1, <2>2
  <1>5. \E z \in S : \A y \in S : z <= y BY <1>4
  <1> QED BY <1>5 DEF Min

\* sigset_sanitize.
LEMMA MaskFacts ==
    ASSUME NEW m PROVE /\ m \in SafeMask => Maskable(m) = m
                       /\ m \subseteq Sig => Maskable(m) \in SafeMask
  BY DEF Maskable, SafeMask, Unblockable

\* What is known of a thread in user mode that enters the kernel.
LEMMA FromUser ==
    ASSUME IInv, NEW t \in Thread, InUser(t)
    PROVE  /\ th[t] \in Rec /\ asked[t] \in Seq(SafeMask) /\ KernelFree
           /\ Len(asked[t]) \in Nat /\ Len(asked[t]) > 0 /\ Top(asked[t]) \in SafeMask
           /\ th[t].mode = "user" /\ th[t].call.op = "none" /\ th[t].restore = {}
           /\ ~th[t].restart /\ th[t].blocked = Top(asked[t]) /\ Good(t)
  <1>1. th[t] \in Rec /\ asked[t] \in Seq(SafeMask) /\ KernelFree /\ Good(t) /\ th[t].mode = "user"
    BY DEF IInv, InUser
  <1>2. Len(th[t].frames) \in Nat /\ Len(asked[t]) = Len(th[t].frames) + 1
    BY <1>1 DEF Rec, Good, MaskOK
  <1>3. Len(asked[t]) \in DOMAIN asked[t] BY <1>1, <1>2
  <1>4. Top(asked[t]) \in SafeMask BY <1>1, <1>3 DEF Top
  <1> QED BY <1>1, <1>2, <1>4 DEF Good, MaskOK, PendOK

\* The masks asked for, level by level: setting the innermost, a new level, and
\* back to the one before.
LEMMA SetTop ==
    ASSUME NEW q \in Seq(SafeMask), Len(q) > 0, NEW m \in SafeMask
    PROVE  LET a == [q EXCEPT ![Len(q)] = m]
           IN /\ a \in Seq(SafeMask) /\ Len(a) = Len(q) /\ Top(a) = m
              /\ \A i \in 1..(Len(q) - 1) : a[i] = q[i]
  <1> DEFINE a == [q EXCEPT ![Len(q)] = m]
  <1>1. Len(q) \in Nat /\ DOMAIN q = 1..Len(q) /\ Len(q) \in 1..Len(q) OBVIOUS
  <1>2. /\ a \in Seq(SafeMask) /\ Len(a) = Len(q)
        /\ \A j \in 1..Len(q) : a[j] = IF j = Len(q) THEN m ELSE q[j]
    BY <1>1, ExceptSeq
  <1> HIDE DEF a
  <1>3. a[Len(q)] = m BY <1>1, <1>2
  <1>4. \A i \in 1..(Len(q) - 1) : a[i] = q[i]
    <2> TAKE i \in 1..(Len(q) - 1)
    <2>1. i \in 1..Len(q) /\ i # Len(q)
      <3>1. Len(q) \in Nat OBVIOUS
      <3> HIDE <1>1
      <3> QED BY <3>1
    <2> QED BY <1>2, <2>1
  <1>5. Top(a) = m BY <1>2, <1>3 DEF Top
  <1> QED BY <1>2, <1>4, <1>5 DEF a

\* A handler begins with a mask of its own.
LEMMA PushTop ==
    ASSUME NEW q \in Seq(SafeMask), NEW m \in SafeMask
    PROVE  /\ Append(q, m) \in Seq(SafeMask) /\ Len(Append(q, m)) = Len(q) + 1
           /\ Top(Append(q, m)) = m /\ \A i \in 1..Len(q) : Append(q, m)[i] = q[i]
  <1>1. /\ Append(q, m) \in Seq(SafeMask) /\ Len(Append(q, m)) = Len(q) + 1
        /\ Append(q, m)[Len(q) + 1] = m /\ \A i \in 1..Len(q) : Append(q, m)[i] = q[i]
    OBVIOUS
  <1> QED BY <1>1 DEF Top

\* A handler ends.
LEMMA PopTop ==
    ASSUME NEW q \in Seq(SafeMask), Len(q) > 1
    PROVE  LET a == SubSeq(q, 1, Len(q) - 1)
           IN /\ a \in Seq(SafeMask) /\ Len(a) = Len(q) - 1 /\ Top(a) = q[Len(q) - 1]
              /\ \A i \in 1..(Len(q) - 1) : a[i] = q[i]
  <1> DEFINE a == SubSeq(q, 1, Len(q) - 1)
  <1>1. Len(q) \in Nat /\ Len(q) - 1 \in 1..(Len(q) - 1) OBVIOUS
  <1>2. /\ a \in Seq(SafeMask) /\ Len(a) = Len(q) - 1
        /\ \A i \in 1..(Len(q) - 1) : a[i] = q[i]
    BY <1>1
  <1> HIDE DEF a
  <1>3. Top(a) = q[Len(q) - 1] BY <1>1, <1>2 DEF Top
  <1> QED BY <1>2, <1>3 DEF a

\* A trap that changes nothing but the mode.
LEMMA TrapOK == ASSUME IInv, NEW t \in Thread, Trap(t) PROVE IInv'
  <1> DEFINE r == [th[t] EXCEPT !.mode = "kernel"]
  <1>1. InUser(t) /\ th' = [th EXCEPT ![t] = r] /\ UNCHANGED <<shared, action, asked, sends>>
    BY DEF Trap, Update
  <1>2. Good(t) /\ th[t] \in Rec /\ asked[t] \in Seq(SafeMask) /\ KernelFree /\ ~th[t].restart
        /\ th[t].mode = "user"
    BY <1>1, FromUser
  <1>3. r \in Rec /\ MaskOK(r, asked[t]) /\ PendOK(r, shared') /\ SpareOK(r)
    BY <1>1, <1>2 DEF Rec, Modes, Good, MaskOK, PendOK, SpareOK
  <1>4. asked' = [asked EXCEPT ![t] = asked[t]] /\ ActionsOK' /\ sends' \in 0..MaxSends
    BY <1>1 DEF IInv, ActionsOK
  <1> QED BY <1>1, <1>2, <1>3, <1>4, OneThread

\* sigprocmask changes the mask of the innermost level.
LEMMA SigprocmaskOK ==
    ASSUME IInv, Constants, NEW t \in Thread, NEW m \in UserMask, do_sigprocmask(t, m) PROVE IInv'
  <1> DEFINE r == [th[t] EXCEPT !.mode = "kernel", !.blocked = Maskable(m)]
             a == [asked[t] EXCEPT ![Len(asked[t])] = Maskable(m)]
  <1>1. /\ InUser(t) /\ th' = [th EXCEPT ![t] = r] /\ UNCHANGED <<shared, action, sends>>
        /\ asked' = [asked EXCEPT ![t] = a]
    BY DEF do_sigprocmask, Update, Maskable
  <1>2. /\ Good(t) /\ th[t] \in Rec /\ asked[t] \in Seq(SafeMask) /\ KernelFree /\ ~th[t].restart
        /\ th[t].mode = "user" /\ Len(asked[t]) \in Nat /\ Len(asked[t]) > 0
        /\ th[t].call.op = "none" /\ th[t].restore = {}
    BY <1>1, FromUser
  <1>3. Maskable(m) \in SafeMask BY MaskFacts DEF Constants
  <1>4. /\ a \in Seq(SafeMask) /\ Len(a) = Len(asked[t]) /\ Top(a) = Maskable(m)
        /\ \A i \in 1..(Len(asked[t]) - 1) : a[i] = asked[t][i]
    BY <1>2, <1>3, SetTop
  <1>5. r \in Rec BY <1>2, <1>3 DEF Rec, Modes
  <1>6. MaskOK(r, a)
    <2>1. Len(asked[t]) = Len(th[t].frames) + 1 /\ Len(th[t].frames) \in Nat
      BY <1>2 DEF Good, MaskOK, Rec
    <2> HIDE DEF a
    <2> QED BY <1>2, <1>4, <2>1 DEF Rec, Good, MaskOK
  <1>7. PendOK(r, shared') /\ SpareOK(r) BY <1>1, <1>2 DEF Rec, Good, PendOK, SpareOK
  <1>8. ActionsOK' /\ sends' \in 0..MaxSends BY <1>1 DEF IInv, ActionsOK
  <1> HIDE DEF r, a
  <1> QED BY <1>1, <1>2, <1>4, <1>5, <1>6, <1>7, <1>8, OneThread

\* sigaction changes one disposition, never that of SIGKILL.
LEMMA SigactionOK ==
    ASSUME IInv, Constants, NEW t \in Thread, NEW sig \in Sig, NEW a \in Disposition,
           do_sigaction(t, sig, a)
    PROVE  IInv'
  <1> DEFINE r == [th[t] EXCEPT !.mode = "kernel"]
  <1>1. /\ InUser(t) /\ th' = [th EXCEPT ![t] = r] /\ UNCHANGED <<shared, asked, sends>>
        /\ sig \notin Unblockable
        /\ action' = [action EXCEPT ![sig] = [a EXCEPT !.mask = Maskable(@)]]
    BY DEF do_sigaction, Update
  <1>2. Good(t) /\ th[t] \in Rec /\ asked[t] \in Seq(SafeMask) /\ KernelFree /\ ~th[t].restart
        /\ th[t].mode = "user"
    BY <1>1, FromUser
  <1>3. r \in Rec /\ MaskOK(r, asked[t]) /\ PendOK(r, shared') /\ SpareOK(r)
    BY <1>1, <1>2 DEF Rec, Modes, Good, MaskOK, PendOK, SpareOK
  <1>4. [a EXCEPT !.mask = Maskable(@)] \in Act BY DEF Constants, Act, Maskable
  <1>5. ActionsOK' BY <1>1, <1>4 DEF IInv, ActionsOK, Unblockable
  <1>6. asked' = [asked EXCEPT ![t] = asked[t]] /\ sends' \in 0..MaxSends BY <1>1 DEF IInv
  <1> QED BY <1>1, <1>2, <1>3, <1>5, <1>6, OneThread

\* sigaltstack, off the alternate stack.
LEMMA SigaltstackOK ==
    ASSUME IInv, Constants, NEW t \in Thread, NEW on \in AltStack, do_sigaltstack(t, on)
    PROVE  IInv'
  <1> DEFINE r == [th[t] EXCEPT !.mode = "kernel", !.alt = IF on THEN "on" ELSE "off"]
  <1>1. /\ InUser(t) /\ th' = [th EXCEPT ![t] = r] /\ UNCHANGED <<shared, action, asked, sends>>
    BY DEF do_sigaltstack, Update
  <1>2. Good(t) /\ th[t] \in Rec /\ asked[t] \in Seq(SafeMask) /\ KernelFree /\ ~th[t].restart
        /\ th[t].mode = "user"
    BY <1>1, FromUser
  <1>3. r \in Rec /\ MaskOK(r, asked[t]) /\ PendOK(r, shared')
    BY <1>1, <1>2 DEF Rec, Modes, Good, MaskOK, PendOK, signal_pending
  <1>4. SpareOK(r) BY <1>2 DEF Rec, Good, SpareOK, Constants
  <1>5. asked' = [asked EXCEPT ![t] = asked[t]] /\ ActionsOK' /\ sends' \in 0..MaxSends
    BY <1>1 DEF IInv, ActionsOK
  <1> QED BY <1>1, <1>2, <1>3, <1>4, <1>5, OneThread

\* A restartable call begins.
LEMMA ReadOK == ASSUME IInv, NEW t \in Thread, Read(t) PROVE IInv'
  <1> DEFINE r == [th[t] EXCEPT !.mode = "kernel", !.call = [NoCall EXCEPT !.op = "read"]]
  <1>1. /\ InUser(t) /\ th' = [th EXCEPT ![t] = r] /\ UNCHANGED <<shared, action, asked, sends>>
    BY DEF Read, Update
  <1>2. Good(t) /\ th[t] \in Rec /\ asked[t] \in Seq(SafeMask) /\ KernelFree /\ ~th[t].restart
        /\ th[t].mode = "user" /\ th[t].call.op = "none" /\ th[t].restore = {}
    BY <1>1, FromUser
  <1>3. r \in Rec BY <1>2 DEF Rec, Modes, Call, NoCall
  <1>4. MaskOK(r, asked[t]) /\ PendOK(r, shared') /\ SpareOK(r)
    BY <1>1, <1>2 DEF Rec, Good, MaskOK, PendOK, SpareOK, NoCall
  <1>5. asked' = [asked EXCEPT ![t] = asked[t]] /\ ActionsOK' /\ sends' \in 0..MaxSends
    BY <1>1 DEF IInv, ActionsOK
  <1> QED BY <1>1, <1>2, <1>3, <1>4, <1>5, OneThread

\* sigsuspend saves the mask that it replaces.
LEMMA SigsuspendOK ==
    ASSUME IInv, Constants, NEW t \in Thread, NEW m \in UserMask, signal_sigsuspend(t, m)
    PROVE  IInv'
  <1> DEFINE c == [NoCall EXCEPT !.op = "suspend", !.saved = th[t].blocked]
             r == [th[t] EXCEPT !.mode = "kernel", !.blocked = Maskable(m), !.call = c]
  <1>1. /\ InUser(t) /\ th' = [th EXCEPT ![t] = r] /\ UNCHANGED <<shared, action, asked, sends>>
    BY DEF signal_sigsuspend, Update
  <1>2. Good(t) /\ th[t] \in Rec /\ asked[t] \in Seq(SafeMask) /\ KernelFree /\ ~th[t].restart
        /\ th[t].mode = "user" /\ th[t].call.op = "none" /\ th[t].restore = {}
        /\ th[t].blocked = Top(asked[t])
    BY <1>1, FromUser
  <1>3. Maskable(m) \in SafeMask BY MaskFacts DEF Constants
  <1>4. c \in Call /\ c.op = "suspend" /\ c.saved = th[t].blocked
    BY <1>2 DEF Call, NoCall, Rec, SafeMask
  <1> HIDE DEF c
  <1>5. r \in Rec BY <1>2, <1>3, <1>4 DEF Rec, Modes
  <1>6. MaskOK(r, asked[t]) /\ PendOK(r, shared') /\ SpareOK(r)
    BY <1>1, <1>2, <1>4 DEF Rec, Good, MaskOK, PendOK, SpareOK
  <1>7. asked' = [asked EXCEPT ![t] = asked[t]] /\ ActionsOK' /\ sends' \in 0..MaxSends
    BY <1>1 DEF IInv, ActionsOK
  <1> QED BY <1>1, <1>2, <1>5, <1>6, <1>7, OneThread

\* The deadline of a sigtimedwait.
LEMMA TimeoutOK == ASSUME IInv, NEW t \in Thread, Timeout(t) PROVE IInv'
  <1> DEFINE c == [th[t].call EXCEPT !.due = TRUE]
             r == [th[t] EXCEPT !.mode = "woken", !.call = c]
  <1>1. /\ KernelFree /\ th[t].mode \in {"sleep", "woken"}
        /\ th' = [th EXCEPT ![t] = r] /\ UNCHANGED <<shared, action, asked, sends>>
    BY DEF Timeout, Update
  <1>2. Good(t) /\ th[t] \in Rec /\ asked[t] \in Seq(SafeMask) BY DEF IInv
  <1>3. c \in Call /\ c.op = th[t].call.op /\ c.saved = th[t].call.saved BY <1>2 DEF Rec, Call
  <1> HIDE DEF c
  <1>4. r \in Rec BY <1>2, <1>3 DEF Rec, Modes
  <1>5. MaskOK(r, asked[t]) /\ PendOK(r, shared') /\ SpareOK(r)
    BY <1>1, <1>2, <1>3 DEF Rec, Good, MaskOK, PendOK, SpareOK
  <1>6. asked' = [asked EXCEPT ![t] = asked[t]] /\ ActionsOK' /\ sends' \in 0..MaxSends
    BY <1>1 DEF IInv, ActionsOK
  <1> QED BY <1>1, <1>2, <1>4, <1>5, <1>6, OneThread

\* The read has its data.
LEMMA ReadDoneOK == ASSUME IInv, NEW t \in Thread, ReadDone(t) PROVE IInv'
  <1> DEFINE r == [th[t] EXCEPT !.mode = "kernel", !.call = NoCall]
  <1>1. /\ KernelFree /\ th[t].mode \in {"sleep", "woken"} /\ th[t].call.op = "read"
        /\ th' = [th EXCEPT ![t] = r] /\ UNCHANGED <<shared, action, asked, sends>>
    BY DEF ReadDone, Update
  <1>2. Good(t) /\ th[t] \in Rec /\ asked[t] \in Seq(SafeMask) BY DEF IInv
  <1>3. NoCall \in Call /\ NoCall.op = "none" BY DEF Call, NoCall
  <1>4. r \in Rec BY <1>2, <1>3 DEF Rec, Modes
  <1>5. MaskOK(r, asked[t]) /\ PendOK(r, shared') /\ SpareOK(r)
    BY <1>1, <1>2, <1>3 DEF Rec, Good, MaskOK, PendOK, SpareOK
  <1>6. asked' = [asked EXCEPT ![t] = asked[t]] /\ ActionsOK' /\ sends' \in 0..MaxSends
    BY <1>1 DEF IInv, ActionsOK
  <1> QED BY <1>1, <1>2, <1>4, <1>5, <1>6, OneThread

\* A woken thread gets the kernel.
LEMMA ResumeOK == ASSUME IInv, NEW t \in Thread, Resume(t) PROVE IInv'
  <1> DEFINE r == [th[t] EXCEPT !.mode = "kernel"]
  <1>1. /\ KernelFree /\ th[t].mode \in {"woken", "go on"}
        /\ th' = [th EXCEPT ![t] = r] /\ UNCHANGED <<shared, action, asked, sends>>
    BY DEF Resume, Update
  <1>2. Good(t) /\ th[t] \in Rec /\ asked[t] \in Seq(SafeMask) BY DEF IInv
  <1>3. r \in Rec /\ MaskOK(r, asked[t]) /\ PendOK(r, shared') /\ SpareOK(r)
    BY <1>1, <1>2 DEF Rec, Modes, Good, MaskOK, PendOK, SpareOK
  <1>4. asked' = [asked EXCEPT ![t] = asked[t]] /\ ActionsOK' /\ sends' \in 0..MaxSends
    BY <1>1 DEF IInv, ActionsOK
  <1> QED BY <1>1, <1>2, <1>3, <1>4, OneThread

\* The own signals of a thread are looked at before the group's, and what is taken
\* leaves one of the two lists.
LEMMA TakeOK ==
    ASSUME IInv, Constants, NEW t \in Thread, NEW r \in Rec, NEW set, set \subseteq Sig,
           Take(t, r, set), UNCHANGED <<action, asked, sends>>,
           r.mode = "kernel", ~r.restart, KernelFree \/ th[t].mode = "kernel",
           MaskOK(r, asked[t]), SpareOK(r), PendOK(r, shared)
    PROVE  IInv'
  <1> DEFINE sig == Pick(r, set)
             q == IF sig \in r.pending THEN ClearPending(r, {sig}) ELSE r
  <1>1. th' = [th EXCEPT ![t] = q] /\ shared' \subseteq shared
    BY DEF Take, Update
  <1>2. /\ q \in Rec /\ q.mode = "kernel" /\ ~q.restart /\ q.pending \subseteq r.pending
        /\ q.forced \subseteq r.forced /\ q.call = r.call /\ q.blocked = r.blocked
        /\ q.restore = r.restore /\ q.frames = r.frames /\ q.alt = r.alt
        /\ (r.forced \subseteq r.pending => q.forced \subseteq q.pending)
    BY DEF Rec, ClearPending
  <1> HIDE DEF q
  <1>3. MaskOK(q, asked[t]) /\ SpareOK(q) BY <1>2 DEF MaskOK, SpareOK
  <1>4. PendOK(q, shared') BY <1>1, <1>2 DEF PendOK
  <1>5. /\ asked' = [asked EXCEPT ![t] = asked[t]] /\ ActionsOK' /\ sends' \in 0..MaxSends
        /\ asked[t] \in Seq(SafeMask)
    BY DEF IInv, ActionsOK
  <1> QED BY <1>1, <1>2, <1>3, <1>4, <1>5, OneThread

\* sigtimedwait takes a signal that waits already, or saves the mask.
LEMMA SigwaitOK ==
    ASSUME IInv, Constants, NEW t \in Thread, NEW set \in UserMask, NEW timed \in BOOLEAN,
           signal_wait_pending(t, set, timed)
    PROVE  IInv'
  <1> DEFINE s == set \ Unblockable
             r == [th[t] EXCEPT !.mode = "kernel"]
             c == [NoCall EXCEPT !.op = "wait", !.saved = r.blocked, !.set = s, !.timed = timed]
             q == [r EXCEPT !.blocked = Maskable(@ \ s), !.call = c]
  <1>1. /\ InUser(t) /\ UNCHANGED <<action, asked, sends>>
        /\ IF Pick(r, s) # 0 THEN Take(t, r, s) ELSE th' = [th EXCEPT ![t] = q] /\ UNCHANGED shared
    BY DEF signal_wait_pending, Update
  <1>2. Good(t) /\ th[t] \in Rec /\ asked[t] \in Seq(SafeMask) /\ KernelFree /\ ~th[t].restart
        /\ th[t].mode = "user" /\ th[t].call.op = "none" /\ th[t].restore = {}
        /\ th[t].blocked = Top(asked[t])
    BY <1>1, FromUser
  <1>3. s \subseteq Sig BY DEF Constants
  <1>4. r \in Rec /\ MaskOK(r, asked[t]) /\ PendOK(r, shared) /\ SpareOK(r) /\ r.mode = "kernel"
        /\ ~r.restart
    BY <1>2 DEF Rec, Modes, Good, MaskOK, PendOK, SpareOK
  <1>5. r.blocked = Top(asked[t]) /\ r.restore = {} BY <1>2 DEF Rec
  <1> HIDE DEF r, s
  <1>6. CASE Pick(r, s) # 0
    <2>1. Take(t, r, s) BY <1>1, <1>6
    <2> QED BY <1>1, <1>2, <1>3, <1>4, <2>1, TakeOK
  <1>7. CASE ~(Pick(r, s) # 0)
    <2>1. th' = [th EXCEPT ![t] = q] /\ UNCHANGED shared BY <1>1, <1>7
    <2>2. c \in Call /\ c.op = "wait" /\ c.saved = r.blocked
      BY <1>3, <1>4 DEF Call, NoCall, Rec, SafeMask
    <2> HIDE DEF c
    <2>3. Maskable(r.blocked \ s) \in SafeMask BY <1>4, MaskFacts DEF Rec, SafeMask
    <2>4. q \in Rec BY <1>4, <2>2, <2>3 DEF Rec
    <2>5. MaskOK(q, asked[t]) /\ SpareOK(q) BY <1>4, <1>5, <2>2 DEF Rec, MaskOK, SpareOK
    <2>6. PendOK(q, shared') BY <1>4, <2>1, <2>2 DEF Rec, PendOK
    <2>7. asked' = [asked EXCEPT ![t] = asked[t]] /\ ActionsOK' /\ sends' \in 0..MaxSends
      BY <1>1 DEF IInv, ActionsOK
    <2> HIDE DEF q
    <2> QED BY <1>2, <2>1, <2>4, <2>5, <2>6, <2>7, OneThread
  <1> QED BY <1>6, <1>7

\* The end of a wait, or the sleep: the mask that sigsuspend or sigtimedwait
\* replaced is on its way back, and only a thread without a signal sleeps.
LEMMA ArbitrateOK == ASSUME IInv, Constants, NEW t \in Thread, Arbitrate(t) PROVE IInv'
  <1> DEFINE r == th[t]
             ended == [r EXCEPT !.call = NoCall]
             sig == signal_pending(r, shared)
  <1>1. r.mode = "kernel" /\ r.call.op # "none" /\ UNCHANGED <<action, asked, sends>>
    BY DEF Arbitrate
  <1>2. Good(t) /\ r \in Rec /\ asked[t] \in Seq(SafeMask) BY DEF IInv
  <1>3. ~r.restart /\ r.call.op \in {"read", "suspend", "wait"} /\ r.call \in Call
    BY <1>1, <1>2 DEF Good, PendOK, Rec, Call
  <1>4. NoCall \in Call /\ NoCall.op = "none" BY DEF Call, NoCall
  <1>5. asked' = [asked EXCEPT ![t] = asked[t]] /\ ActionsOK' /\ sends' \in 0..MaxSends
    BY <1>1 DEF IInv, ActionsOK
  <1>6. Top(asked[t]) \in SafeMask
    <2>1. Len(r.frames) \in Nat /\ Len(asked[t]) = Len(r.frames) + 1
      BY <1>2 DEF Rec, Good, MaskOK
    <2>2. Len(asked[t]) \in DOMAIN asked[t] BY <1>2, <2>1
    <2> QED BY <1>2, <2>2 DEF Top
  <1>7. CASE sig /\ r.call.op = "read"
    <2> DEFINE q == [ended EXCEPT !.restart = TRUE]
    <2>1. th' = [th EXCEPT ![t] = q] /\ UNCHANGED shared BY <1>7, <1>1 DEF Arbitrate, Update
    <2>2. q \in Rec BY <1>2, <1>4 DEF Rec
    <2>3. MaskOK(q, asked[t]) /\ SpareOK(q) BY <1>2, <1>4, <1>7 DEF Rec, Good, MaskOK, SpareOK
    <2>4. PendOK(q, shared') BY <1>1, <1>2, <1>4, <1>7, <2>1 DEF Rec, Good, PendOK, signal_pending
    <2> HIDE DEF q
    <2> QED BY <1>1, <1>2, <1>5, <2>1, <2>2, <2>3, <2>4, OneThread
  <1>8. CASE sig /\ r.call.op = "suspend"
    <2> DEFINE q == [ended EXCEPT !.restore = Deferred(r.call.saved)]
    <2>1. th' = [th EXCEPT ![t] = q] /\ UNCHANGED shared BY <1>8, <1>1 DEF Arbitrate, Update
    <2>2. Deferred(r.call.saved) = {Top(asked[t])}
      BY <1>2, <1>6, <1>8, MaskFacts DEF Good, MaskOK, Deferred
    <2>3. q \in Rec
      <3>1. {Top(asked[t])} \subseteq SUBSET Sig BY <1>6 DEF SafeMask
      <3> QED BY <1>2, <1>4, <2>2, <3>1 DEF Rec
    <2>4. MaskOK(q, asked[t]) /\ SpareOK(q)
      BY <1>1, <1>2, <1>4, <2>2 DEF Rec, Good, MaskOK, SpareOK
    <2>5. PendOK(q, shared') BY <1>1, <1>2, <1>3, <2>1 DEF Rec, Good, PendOK
    <2> HIDE DEF q
    <2> QED BY <1>1, <1>2, <1>5, <2>1, <2>3, <2>4, <2>5, OneThread
  <1>9. CASE (sig \/ r.call.due) /\ r.call.op = "wait"
    <2> DEFINE q == [ended EXCEPT !.blocked = WaitMask(r)]
    <2>1. Take(t, q, r.call.set) BY <1>9, <1>1 DEF Arbitrate
    <2>2. WaitMask(r) = Top(asked[t]) BY <1>2, <1>6, <1>9, MaskFacts DEF Good, MaskOK, WaitMask
    <2>3. q \in Rec BY <1>2, <1>4, <1>6, <2>2 DEF Rec
    <2>4. MaskOK(q, asked[t]) /\ SpareOK(q)
      BY <1>1, <1>2, <1>4, <1>9, <2>2 DEF Rec, Good, MaskOK, SpareOK
    <2>5. PendOK(q, shared) /\ q.mode = "kernel" /\ ~q.restart
      BY <1>1, <1>2, <1>3 DEF Rec, Good, PendOK
    <2>6. r.call.set \subseteq Sig BY <1>3 DEF Call
    <2> HIDE DEF q
    <2> QED BY <1>1, <2>1, <2>3, <2>4, <2>5, <2>6, TakeOK
  <1>10. CASE /\ ~(sig /\ r.call.op = "read") /\ ~(sig /\ r.call.op = "suspend")
              /\ ~((sig \/ r.call.due) /\ r.call.op = "wait")
    <2> DEFINE q == [r EXCEPT !.mode = "sleep"]
    <2>1. th' = [th EXCEPT ![t] = q] /\ UNCHANGED shared BY <1>10, <1>1 DEF Arbitrate, Update
    <2>2. ~sig BY <1>3, <1>10
    <2>3. q \in Rec BY <1>2 DEF Rec, Modes
    <2>4. MaskOK(q, asked[t]) /\ SpareOK(q) BY <1>2 DEF Rec, Good, MaskOK, SpareOK
    <2>5. PendOK(q, shared')
      BY <1>1, <1>2, <1>3, <2>1, <2>2 DEF Rec, Good, PendOK, signal_pending
    <2> HIDE DEF q
    <2> QED BY <1>1, <1>2, <1>5, <2>1, <2>3, <2>4, <2>5, OneThread
  <1> QED BY <1>7, <1>8, <1>9, <1>10

\* The threads that a signal wakes no longer sleep, and nothing else changes.
LEMMA WokenOK ==
    ASSUME NEW c \in Rec, NEW sig
    PROVE  LET q == Woken(c, sig)
           IN /\ q \in Rec /\ q.call = c.call /\ q.blocked = c.blocked /\ q.pending = c.pending
              /\ q.forced = c.forced /\ q.restore = c.restore /\ q.restart = c.restart
              /\ q.frames = c.frames /\ q.alt = c.alt
              /\ q.mode \in {c.mode, "woken", "go on"} /\ (c.mode = "dead" => q.mode = "dead")
              /\ c.mode \in {"user", "kernel"} => q.mode = c.mode
              /\ q.mode = "sleep" => c.mode = "sleep" /\ sig \in Maskable(c.blocked)
              /\ q.mode = "stopped" => c.mode = "stopped" /\ sig \notin {SIGCONT, SIGKILL}
  <1>1. CASE c.mode = "sleep" /\ sig \notin Maskable(c.blocked)
    <2>1. Woken(c, sig) = [c EXCEPT !.mode = "woken"] BY <1>1 DEF Woken
    <2> QED BY <1>1, <2>1 DEF Rec, Modes
  <1>2. CASE c.mode = "stopped" /\ sig \in {SIGCONT, SIGKILL}
    <2>1. Woken(c, sig) = [c EXCEPT !.mode = "go on"] BY <1>2 DEF Woken
    <2> QED BY <1>2, <2>1 DEF Rec, Modes
  <1>3. CASE /\ ~(c.mode = "sleep" /\ sig \notin Maskable(c.blocked))
             /\ ~(c.mode = "stopped" /\ sig \in {SIGCONT, SIGKILL})
    <2>1. Woken(c, sig) = c BY <1>3 DEF Woken
    <2> QED BY <1>3, <2>1 DEF Rec
  <1> QED BY <1>1, <1>2, <1>3

\* The pending signals after one more, for the thread (p) or the group (sh): stops
\* and SIGCONT cancel each other.
LEMMA OppositeOK ==
    ASSUME NEW P, NEW sig \in Sig,
           ~(SIGCONT \in P /\ StopMask \cap P # {})
    PROVE  LET Q == (P \ Opposite(sig)) \cup {sig}
           IN ~(SIGCONT \in Q /\ StopMask \cap Q # {})
  <1>1. SIGCONT \notin StopMask BY DEF SIGCONT, StopMask, SIGSTOP, SIGTSTP
  <1>2. CASE sig = SIGCONT BY <1>1, <1>2 DEF Opposite
  <1>3. CASE sig # SIGCONT /\ sig \in StopMask BY <1>1, <1>3 DEF Opposite
  <1>4. CASE sig # SIGCONT /\ sig \notin StopMask BY <1>4 DEF Opposite
  <1> QED BY <1>2, <1>3, <1>4

\* A signal wakes the thread it is sent to, unless the thread blocks it.
LEMMA SentOK ==
    ASSUME NEW r \in Rec, NEW sig \in Sig, NEW force \in BOOLEAN, NEW sh, sh \subseteq Sig,
           PendOK(r, sh), ~r.restart, r.mode # "dead"
    PROVE  LET q == Sent(r, sig, force)
           IN /\ q \in Rec /\ q.call = r.call /\ q.blocked = r.blocked /\ q.restore = r.restore
              /\ q.frames = r.frames /\ q.alt = r.alt /\ ~q.restart /\ q.mode # "dead"
              /\ r.mode \in {"user", "kernel"} => q.mode = r.mode
              /\ q.mode \in {r.mode, "woken", "go on"}
              /\ ~force => q.forced \subseteq r.forced
              /\ PendOK(q, sh \ Opposite(sig))
  <1> DEFINE c == ClearPending(r, Opposite(sig))
             d == [c EXCEPT !.pending = @ \cup {sig}, !.forced = IF force THEN @ \cup {sig} ELSE @]
             q == Woken(d, sig)
  <1>1. Sent(r, sig, force) = q BY DEF Sent
  <1>2. /\ d \in Rec /\ d.call = r.call /\ d.blocked = r.blocked /\ d.restore = r.restore
        /\ d.frames = r.frames /\ d.alt = r.alt /\ d.restart = r.restart /\ d.mode = r.mode
        /\ d.pending = (r.pending \ Opposite(sig)) \cup {sig}
        /\ d.forced = (r.forced \ Opposite(sig)) \cup (IF force THEN {sig} ELSE {})
    BY DEF Rec, ClearPending
  <1> HIDE DEF d
  <1>3. /\ q \in Rec /\ q.call = d.call /\ q.blocked = d.blocked /\ q.pending = d.pending
        /\ q.forced = d.forced /\ q.restore = d.restore /\ q.restart = d.restart
        /\ q.frames = d.frames /\ q.alt = d.alt
        /\ q.mode \in {d.mode, "woken", "go on"} /\ (d.mode = "dead" => q.mode = "dead")
        /\ d.mode \in {"user", "kernel"} => q.mode = d.mode
        /\ q.mode = "sleep" => d.mode = "sleep" /\ sig \in Maskable(d.blocked)
        /\ q.mode = "stopped" => d.mode = "stopped" /\ sig \notin {SIGCONT, SIGKILL}
    BY <1>2, WokenOK
  <1> HIDE DEF q
  <1>4. PendOK(q, sh \ Opposite(sig))
    <2>1. q.forced \subseteq q.pending BY <1>2, <1>3 DEF PendOK
    <2>2. q.pending \cup (sh \ Opposite(sig)) = ((r.pending \cup sh) \ Opposite(sig)) \cup {sig}
      BY <1>2, <1>3
    <2>3. ~(/\ SIGCONT \in q.pending \cup (sh \ Opposite(sig))
            /\ StopMask \cap (q.pending \cup (sh \ Opposite(sig))) # {})
      BY <2>2, OppositeOK DEF PendOK
    <2>4. q.mode = "sleep" => ~signal_pending(q, sh \ Opposite(sig))
      BY <1>2, <1>3, <2>2 DEF PendOK, signal_pending
    <2>5. q.mode = "stopped" => {SIGCONT, SIGKILL} \cap (q.pending \cup (sh \ Opposite(sig))) = {}
      BY <1>2, <1>3, <2>2 DEF PendOK
    <2> QED BY <1>2, <1>3, <2>1, <2>3, <2>4, <2>5 DEF PendOK
  <1> QED BY <1>1, <1>2, <1>3, <1>4

\* tkill.
LEMMA SendSignalOK ==
    ASSUME IInv, Constants, NEW t \in Thread, NEW sig \in Sig, send_signal_info(t, sig)
    PROVE  IInv'
  <1> DEFINE r == th[t]
             q == Sent(r, sig, FALSE)
  <1>1. /\ KernelFree /\ r.mode # "dead" /\ th' = [th EXCEPT ![t] = q] /\ sends < MaxSends
        /\ shared' = shared \ Opposite(sig) /\ sends' = sends + 1 /\ UNCHANGED <<action, asked>>
    BY DEF send_signal_info, Alive, Update, SharedAfter
  <1>2. Good(t) /\ r \in Rec /\ asked[t] \in Seq(SafeMask) /\ shared \subseteq Sig BY DEF IInv
  <1>3. r.mode # "kernel" /\ ~r.restart BY <1>1, <1>2 DEF KernelFree, Good, PendOK
  <1>4. /\ q \in Rec /\ q.call = r.call /\ q.blocked = r.blocked /\ q.restore = r.restore
        /\ q.frames = r.frames /\ q.alt = r.alt /\ ~q.restart /\ q.mode # "dead"
        /\ r.mode \in {"user", "kernel"} => q.mode = r.mode
        /\ q.mode \in {r.mode, "woken", "go on"} /\ q.forced \subseteq r.forced
        /\ PendOK(q, shared \ Opposite(sig))
    BY <1>1, <1>2, <1>3, SentOK DEF Good
  <1> HIDE DEF q
  <1>5. MaskOK(q, asked[t]) BY <1>2, <1>4 DEF Good, MaskOK
  <1>6. SpareOK(q) BY <1>2, <1>4 DEF Good, SpareOK
  <1>7. /\ asked' = [asked EXCEPT ![t] = asked[t]] /\ ActionsOK' /\ sends' \in 0..MaxSends
        /\ shared' \subseteq shared
    BY <1>1 DEF IInv, ActionsOK, Constants
  <1> QED BY <1>1, <1>2, <1>4, <1>5, <1>6, <1>7, OneThread

\* kill: the signal goes to the group, and wakes every thread that takes it.
LEMMA SendGroupOK ==
    ASSUME IInv, Constants, NEW sig \in Sig, send_group_signal_info(sig)
    PROVE  IInv'
  <1>1. /\ KernelFree /\ sends < MaxSends /\ sends' = sends + 1 /\ UNCHANGED <<action, asked>>
        /\ shared' = (shared \ Opposite(sig)) \cup {sig}
        /\ th' = [t \in Thread |-> IF th[t].mode # "dead" THEN GroupSent(th[t], sig) ELSE th[t]]
    BY DEF send_group_signal_info, GroupTargets, Alive
  <1>2. ASSUME NEW t \in Thread
        PROVE  th'[t] \in Rec /\ Good(t)' /\ th'[t].mode # "kernel"
    <2> DEFINE r == th[t]
               c == ClearPending(r, Opposite(sig))
               q == Woken(c, sig)
    <2>1. /\ r \in Rec /\ Good(t) /\ asked'[t] = asked[t] /\ r.mode # "kernel" /\ ~r.restart
      BY <1>1 DEF IInv, KernelFree, Good, PendOK
    <2>2. CASE r.mode = "dead"
      <3>1. th'[t] = r BY <1>1, <2>2
      <3>2. PendOK(r, shared') BY <2>1, <2>2 DEF Good, PendOK
      <3> QED BY <2>1, <3>1, <3>2 DEF Good
    <2>3. CASE r.mode # "dead"
      <3>1. th'[t] = q BY <1>1, <2>3 DEF GroupSent
      <3>2. /\ c \in Rec /\ c.call = r.call /\ c.blocked = r.blocked /\ c.restore = r.restore
            /\ c.frames = r.frames /\ c.alt = r.alt /\ c.restart = r.restart /\ c.mode = r.mode
            /\ c.pending = r.pending \ Opposite(sig) /\ c.forced = r.forced \ Opposite(sig)
        BY <2>1 DEF Rec, ClearPending
      <3> HIDE DEF c
      <3>3. /\ q \in Rec /\ q.call = c.call /\ q.blocked = c.blocked /\ q.pending = c.pending
            /\ q.forced = c.forced /\ q.restore = c.restore /\ q.restart = c.restart
            /\ q.frames = c.frames /\ q.alt = c.alt
            /\ q.mode \in {c.mode, "woken", "go on"}
            /\ c.mode \in {"user", "kernel"} => q.mode = c.mode
            /\ q.mode = "sleep" => c.mode = "sleep" /\ sig \in Maskable(c.blocked)
            /\ q.mode = "stopped" => c.mode = "stopped" /\ sig \notin {SIGCONT, SIGKILL}
        BY <3>2, WokenOK
      <3> HIDE DEF q
      <3>4. q.pending \cup shared' = ((r.pending \cup shared) \ Opposite(sig)) \cup {sig}
        BY <1>1, <3>2, <3>3
      <3>5. ~(SIGCONT \in q.pending \cup shared' /\ StopMask \cap (q.pending \cup shared') # {})
        BY <2>1, <2>3, <3>4, OppositeOK DEF Good, PendOK
      <3>6. q.mode = "sleep" => ~signal_pending(q, shared')
        BY <2>1, <3>2, <3>3, <3>4 DEF Good, PendOK, signal_pending
      <3>7. q.mode = "stopped" => {SIGCONT, SIGKILL} \cap (q.pending \cup shared') = {}
        BY <2>1, <3>2, <3>3, <3>4 DEF Good, PendOK
      <3>8. PendOK(q, shared') BY <2>1, <3>2, <3>3, <3>5, <3>6, <3>7 DEF Good, PendOK
      <3>9. MaskOK(q, asked[t])
        <4>1. /\ q.call = r.call /\ q.blocked = r.blocked /\ q.restore = r.restore
              /\ q.frames = r.frames /\ (q.mode = "user" => r.mode = "user")
          BY <3>2, <3>3
        <4>2. MaskOK(r, asked[t]) BY <2>1 DEF Good
        <4> HIDE DEF r
        <4> QED BY <4>1, <4>2 DEF MaskOK
      <3>10. q.mode # "kernel" /\ q.mode # "dead" BY <2>1, <2>3, <3>2, <3>3
      <3>11. SpareOK(q) BY <2>1, <3>2, <3>3, <3>10 DEF Good, SpareOK
      <3> QED BY <2>1, <3>1, <3>3, <3>8, <3>9, <3>10, <3>11 DEF Good
    <2> QED BY <2>2, <2>3
  <1>3. th' \in [Thread -> Rec] BY <1>1, <1>2
  <1>4. shared' \subseteq Sig BY <1>1 DEF IInv
  <1>5. sends' \in 0..MaxSends BY <1>1 DEF IInv, Constants
  <1>6. ActionsOK' BY <1>1 DEF IInv, ActionsOK
  <1> QED BY <1>1, <1>2, <1>3, <1>4, <1>5, <1>6 DEF IInv

-----------------------------------------------------------------------------
(* Deaths and handlers.                                                    *)

\* A dead thread satisfies the invariant, unless it is PID 1's.
LEMMA DeadOK ==
    /\ DeadThread \in Rec /\ <<{}>> \in Seq(SafeMask) /\ DeadThread.mode = "dead"
    /\ \A sh : PendOK(DeadThread, sh)
    /\ MaskOK(DeadThread, <<{}>>)
    /\ ~Spared => SpareOK(DeadThread)
  <1>1. /\ DeadThread.mode = "dead" /\ DeadThread.call = NoCall /\ DeadThread.blocked = {}
        /\ DeadThread.pending = {} /\ DeadThread.forced = {} /\ DeadThread.restore = {}
        /\ DeadThread.restart = FALSE /\ DeadThread.frames = <<>> /\ DeadThread.alt = "off"
    BY DEF DeadThread, NewThread
  <1>2. DeadThread \in Rec
    <2>1. NoCall \in Call BY DEF Call, NoCall
    <2>2. {} \in SafeMask /\ <<>> \in Seq(Frame) BY DEF SafeMask
    <2> QED BY <2>1, <2>2 DEF DeadThread, NewThread, Rec, Modes
  <1>3. <<{}>> \in Seq(SafeMask) /\ Len(<<{}>>) = 1 /\ Top(<<{}>>) = {} BY DEF SafeMask, Top
  <1>4. \A sh : PendOK(DeadThread, sh) BY <1>1 DEF PendOK
  <1>5. MaskOK(DeadThread, <<{}>>)
    <2>1. NoCall.op = "none" BY DEF NoCall
    <2>2. Len(<<>>) = 0 OBVIOUS
    <2> QED BY <1>1, <1>3, <2>1, <2>2 DEF MaskOK
  <1>6. ~Spared => SpareOK(DeadThread) BY <1>1 DEF SpareOK
  <1> QED BY <1>1, <1>2, <1>3, <1>4, <1>5, <1>6

\* do_exit_signal ends one thread, or the group.
LEMMA ExitOK ==
    ASSUME IInv, NEW t \in Thread, do_exit_signal(t), shared' \subseteq shared, ActionsOK',
           sends' \in 0..MaxSends, KernelFree \/ th[t].mode = "kernel", t \in Exits(t), ~Spared
    PROVE  IInv'
  <1>1. /\ th' = [u \in Thread |-> IF u \in Exits(t) THEN DeadThread ELSE th[u]]
        /\ asked' = [u \in Thread |-> IF u \in Exits(t) THEN << {} >> ELSE asked[u]]
    BY DEF do_exit_signal
  <1>2. ASSUME NEW u \in Thread
        PROVE  /\ th'[u] \in Rec /\ asked'[u] \in Seq(SafeMask) /\ Good(u)' /\ th'[u].mode # "kernel"
    <2>1. CASE u \in Exits(t)
      <3>1. th'[u] = DeadThread /\ asked'[u] = <<{}>> BY <1>1, <2>1
      <3>2. PendOK(DeadThread, shared') BY DeadOK
      <3> QED BY <3>1, <3>2, DeadOK DEF Good
    <2>2. CASE u \notin Exits(t)
      <3>1. th'[u] = th[u] /\ asked'[u] = asked[u] /\ u # t BY <1>1, <2>2
      <3>2. th[u] \in Rec /\ asked[u] \in Seq(SafeMask) /\ Good(u) /\ th[u].mode # "kernel"
        BY <3>1 DEF IInv, KernelFree
      <3>3. PendOK(th[u], shared') BY <3>2 DEF Good, PendOK, signal_pending
      <3> QED BY <3>1, <3>2, <3>3 DEF Good
    <2> QED BY <2>1, <2>2
  <1>3. th' \in [Thread -> Rec] /\ asked' \in [Thread -> Seq(SafeMask)]
    BY <1>1, <1>2
  <1>4. shared' \subseteq Sig BY DEF IInv
  <1> QED BY <1>2, <1>3, <1>4 DEF IInv

\* A fault forces its signal on the thread, blocked or ignored as it may be.
LEMMA ForceOK ==
    ASSUME IInv, Constants, NEW t \in Thread, NEW sig \in Sig, force_signal_info(t, sig)
    PROVE  IInv'
  <1>1. Faults /\ InUser(t) /\ sends < MaxSends /\ sends' = sends + 1 BY DEF force_signal_info
  <1>2. ~Spared /\ sends' \in 0..MaxSends BY <1>1 DEF Spared, IInv, Constants
  <1>3. Good(t) /\ th[t] \in Rec /\ asked[t] \in Seq(SafeMask) /\ KernelFree /\ ~th[t].restart
        /\ th[t].mode = "user" /\ th[t].call.op = "none" /\ th[t].restore = {}
        /\ th[t].blocked = Top(asked[t]) /\ Top(asked[t]) \in SafeMask
        /\ Len(asked[t]) \in Nat /\ Len(asked[t]) > 0
    BY <1>1, FromUser
  <1>4. CASE InFrameOf(t, sig)
    <2>1. do_exit_signal(t) /\ UNCHANGED <<shared, action>> BY <1>4 DEF force_signal_info
    <2>2. t \in Exits(t) /\ ActionsOK' BY <2>1 DEF Exits, IInv, ActionsOK
    <2> QED BY <1>2, <1>3, <2>1, <2>2, ExitOK
  <1>5. CASE ~InFrameOf(t, sig)
    <2> DEFINE r == [th[t] EXCEPT !.blocked = @ \ {sig}, !.mode = "kernel"]
               q == Sent(r, sig, TRUE)
               m == Top(asked[t]) \ {sig}
               a == [asked[t] EXCEPT ![Len(asked[t])] = m]
    <2>1. /\ th' = [th EXCEPT ![t] = q] /\ shared' = shared \ Opposite(sig)
          /\ action' = [action EXCEPT ![sig].h = IF @ = "ign" THEN "dfl" ELSE @]
          /\ asked' = [asked EXCEPT ![t] = a]
      BY <1>5 DEF force_signal_info, Update, SharedAfter, Top
    <2>2. /\ r \in Rec /\ PendOK(r, shared) /\ ~r.restart /\ r.mode = "kernel" /\ r.call = th[t].call
          /\ r.blocked = m /\ r.restore = {} /\ r.frames = th[t].frames /\ r.alt = th[t].alt
      BY <1>3 DEF Rec, Modes, SafeMask, Good, PendOK
    <2> HIDE DEF r
    <2>3. /\ q \in Rec /\ q.call = r.call /\ q.blocked = r.blocked /\ q.restore = r.restore
          /\ q.frames = r.frames /\ q.mode = "kernel" /\ q.alt = r.alt
          /\ PendOK(q, shared \ Opposite(sig))
      <3>1. shared \subseteq Sig BY DEF IInv
      <3> QED BY <2>2, <3>1, SentOK
    <2> HIDE DEF q
    <2>4. m \in SafeMask BY <1>3 DEF SafeMask
    <2> HIDE DEF m
    <2>5. /\ a \in Seq(SafeMask) /\ Len(a) = Len(asked[t]) /\ Top(a) = m
          /\ \A i \in 1..(Len(asked[t]) - 1) : a[i] = asked[t][i]
      BY <1>3, <2>4, SetTop
    <2> HIDE DEF a
    <2>6. MaskOK(q, a)
      <3>1. Len(asked[t]) = Len(th[t].frames) + 1 /\ Len(th[t].frames) \in Nat
        BY <1>3 DEF Good, MaskOK, Rec
      <3> QED BY <1>3, <2>2, <2>3, <2>5, <3>1 DEF Good, MaskOK
    <2>7. SpareOK(q) BY <1>2, <1>3, <2>2, <2>3 DEF Good, SpareOK
    <2>8. ActionsOK' BY <2>1 DEF IInv, ActionsOK, Act
    <2>9. shared' \subseteq shared BY <2>1
    <2> QED BY <1>2, <1>3, <2>1, <2>3, <2>5, <2>6, <2>7, <2>8, <2>9, OneThread
  <1> QED BY <1>4, <1>5

\* sigreturn puts back the mask of the frame.
LEMMA SigreturnOK == ASSUME IInv, Constants, NEW t \in Thread, do_sigreturn(t) PROVE IInv'
  <1> DEFINE n == Len(th[t].frames)
             f == th[t].frames[n]
             rest == SubSeq(th[t].frames, 1, n - 1)
  <1>1. InUser(t) /\ th[t].frames # <<>> /\ UNCHANGED <<shared, action, sends>>
    BY DEF do_sigreturn
  <1>2. Good(t) /\ th[t] \in Rec /\ asked[t] \in Seq(SafeMask) /\ KernelFree /\ ~th[t].restart
        /\ th[t].mode = "user" /\ th[t].call.op = "none" /\ th[t].restore = {}
    BY <1>1, FromUser
  <1>3. th[t].frames \in Seq(Frame) /\ n \in Nat /\ n > 0 /\ Len(asked[t]) = n + 1
    BY <1>1, <1>2 DEF Rec, Good, MaskOK
  <1>4. f \in Frame /\ f.mask = asked[t][n] /\ asked[t][n] \in SafeMask
    BY <1>2, <1>3 DEF Good, MaskOK
  <1>5. ActionsOK' /\ sends' \in 0..MaxSends /\ shared' \subseteq shared
    BY <1>1 DEF IInv, ActionsOK
  <1>6. CASE f.alt = "busy"
    <2>1. do_exit_signal(t) BY <1>6 DEF do_sigreturn
    <2>2. n \in 1..n /\ SpareOK(th[t]) BY <1>2, <1>3 DEF Good
    <2>3. ~Spared BY <1>6, <2>2 DEF SpareOK, Spared
    <2>4. t \in Exits(t) BY DEF Exits
    <2> QED BY <1>2, <1>5, <2>1, <2>3, <2>4, ExitOK
  <1>7. CASE f.alt # "busy"
    <2> DEFINE q == [th[t] EXCEPT !.mode = "kernel", !.blocked = Maskable(f.mask),
                       !.alt = f.alt, !.frames = rest]
               a == SubSeq(asked[t], 1, Len(asked[t]) - 1)
    <2>1. th' = [th EXCEPT ![t] = q] /\ asked' = [asked EXCEPT ![t] = a]
      BY <1>7 DEF do_sigreturn, Update
    <2>2. /\ a \in Seq(SafeMask) /\ Len(a) = n /\ Top(a) = asked[t][n]
          /\ \A i \in 1..n : a[i] = asked[t][i]
      BY <1>2, <1>3, PopTop
    <2>3. Maskable(f.mask) = asked[t][n] BY <1>4, MaskFacts
    <2>4. /\ rest \in Seq(Frame) /\ Len(rest) = n - 1
          /\ \A i \in 1..(n - 1) : rest[i] = th[t].frames[i]
      BY <1>3
    <2>5. f.alt \in {"off", "on", "busy"} BY <1>4 DEF Frame
    <2> HIDE DEF rest, a
    <2>6. /\ q \in Rec /\ q.mode = "kernel" /\ q.call = th[t].call /\ q.blocked = asked[t][n]
          /\ q.frames = rest /\ q.alt = f.alt /\ q.restore = {} /\ ~q.restart
          /\ q.pending = th[t].pending /\ q.forced = th[t].forced
      BY <1>2, <1>4, <2>3, <2>4, <2>5 DEF Rec, Modes
    <2> HIDE DEF q
    <2>7. MaskOK(q, a)
      <3>1. \A i \in 1..(n - 1) : i \in 1..n BY <1>3
      <3>2. \A i \in 1..n : th[t].frames[i].mask = asked[t][i] BY <1>2 DEF Good, MaskOK
      <3>3. n = (n - 1) + 1 BY <1>3
      <3> HIDE DEF n
      <3> QED BY <1>2, <2>2, <2>4, <2>6, <3>1, <3>2, <3>3 DEF MaskOK
    <2>8. PendOK(q, shared') BY <1>1, <1>2, <2>6 DEF Good, PendOK
    <2>9. SpareOK(q)
      <3>1. \A i \in 1..(n - 1) : i \in 1..n BY <1>3
      <3>2. n \in 1..n BY <1>3
      <3>3. Spared => q.mode # "dead" /\ q.forced = {} BY <1>2, <2>6 DEF Good, SpareOK
      <3>4. ASSUME TRUE \notin AltStack
            PROVE  \A i \in 1..n : th[t].frames[i].alt = "off"
        BY <1>2, <3>4 DEF Good, SpareOK
      <3>5. ASSUME TRUE \notin AltStack
            PROVE  q.alt = "off" /\ \A i \in 1..Len(q.frames) : q.frames[i].alt = "off"
        BY <2>4, <2>6, <3>1, <3>2, <3>4, <3>5
      <3> QED BY <3>3, <3>5 DEF SpareOK
    <2> QED BY <1>2, <1>5, <2>1, <2>2, <2>6, <2>7, <2>8, <2>9, OneThread
  <1> QED BY <1>6, <1>7

\* The mask that goes back, or into a frame, is the one the program asked for.
LEMMA FrameMaskOK ==
    ASSUME IInv, NEW t \in Thread, th[t].mode = "kernel", th[t].call.op = "none"
    PROVE  /\ FrameMask(th[t]) = Top(asked[t]) /\ Top(asked[t]) \in SafeMask
           /\ Len(asked[t]) = Len(th[t].frames) + 1 /\ Len(th[t].frames) \in Nat
  <1>1. th[t] \in Rec /\ asked[t] \in Seq(SafeMask) /\ MaskOK(th[t], asked[t]) BY DEF IInv, Good
  <1>2. Len(th[t].frames) \in Nat /\ Len(asked[t]) = Len(th[t].frames) + 1
    BY <1>1 DEF Rec, MaskOK
  <1>3. Len(asked[t]) \in DOMAIN asked[t] BY <1>1, <1>2
  <1>4. Top(asked[t]) \in SafeMask BY <1>1, <1>3 DEF Top
  <1>5. CASE th[t].restore = {} BY <1>1, <1>2, <1>4, <1>5 DEF MaskOK, FrameMask
  <1>6. CASE th[t].restore # {}
    <2>1. th[t].restore = {Top(asked[t])} BY <1>1, <1>6 DEF MaskOK
    <2>2. FrameMask(th[t]) = CHOOSE m \in {Top(asked[t])} : TRUE BY <1>6, <2>1 DEF FrameMask
    <2>3. (CHOOSE m \in {Top(asked[t])} : TRUE) = Top(asked[t]) OBVIOUS
    <2> QED BY <1>2, <1>4, <2>2, <2>3
  <1> QED BY <1>5, <1>6

\* do_signal with nothing to deliver puts a saved mask back.
LEMMA SignalNoneOK ==
    ASSUME IInv, NEW t \in Thread, th[t].mode = "kernel", th[t].call.op = "none",
           Deliverable(t) = {}, SignalNone(t), UNCHANGED sends
    PROVE  IInv'
  <1> DEFINE r == th[t]
             b == IF r.restore = {} THEN r.blocked ELSE Maskable(FrameMask(r))
             q == [r EXCEPT !.mode = "user", !.restore = {}, !.blocked = b]
  <1>1. th' = [th EXCEPT ![t] = q] /\ UNCHANGED <<shared, action, asked>>
    BY DEF SignalNone, Update
  <1>2. r \in Rec /\ asked[t] \in Seq(SafeMask) /\ Good(t) BY DEF IInv
  <1>3. b = Top(asked[t]) /\ b \in SafeMask
    BY <1>2, FrameMaskOK, MaskFacts DEF Good, MaskOK
  <1>4. ~r.restart BY <1>2 DEF Good, PendOK, signal_pending, Deliverable
  <1> HIDE DEF b
  <1>5. q \in Rec BY <1>2, <1>3 DEF Rec, Modes
  <1>6. MaskOK(q, asked[t]) BY <1>2, <1>3 DEF Rec, Good, MaskOK
  <1>7. PendOK(q, shared') /\ SpareOK(q) BY <1>1, <1>2, <1>4 DEF Rec, Good, PendOK, SpareOK
  <1>8. asked' = [asked EXCEPT ![t] = asked[t]] /\ ActionsOK' /\ sends' \in 0..MaxSends
    BY <1>1 DEF IInv, ActionsOK
  <1> HIDE DEF q
  <1> QED BY <1>1, <1>2, <1>5, <1>6, <1>7, <1>8, OneThread

\* A stop signal that is taken is the lowest deliverable one, so that SIGKILL is not
\* waiting, and SIGCONT is not because the two are never pending together.
LEMMA SignalOneOK ==
    ASSUME IInv, Constants, NEW t \in Thread, th[t].mode = "kernel", th[t].call.op = "none",
           Deliverable(t) # {}, SignalOne(t), UNCHANGED sends
    PROVE  IInv'
  <1> DEFINE sig == Chooses(t, Min(Deliverable(t)))
             a == action[sig]
             own == sig \in th[t].pending
             forced == sig \in th[t].forced
             r == IF own THEN ClearPending(th[t], {sig}) ELSE th[t]
             ignored == [r EXCEPT !.restart = IgnoredRestart(r)]
             spared == ~forced /\ a.h = "dfl" /\ InitIgnores(sig)
             stops == ~spared /\ signal_stops_default(sig)
             kills == /\ ~spared /\ ~stops
                      /\ sig = SIGKILL \/ (a.h = "dfl" /\ FatalDefault(sig))
  <1>1. /\ shared' = IF own THEN shared ELSE shared \ {sig}
        /\ \/ /\ stops
              /\ Update(t, [ignored EXCEPT !.mode = "stopped"])
              /\ UNCHANGED <<action, asked>>
           \/ kills /\ do_exit_signal(t) /\ UNCHANGED action
           \/ /\ ~stops /\ ~kills /\ a.h # "user"
              /\ Update(t, ignored)
              /\ UNCHANGED <<action, asked>>
           \/ /\ ~stops /\ ~kills /\ a.h = "user"
              /\ action' = IF a.resethand THEN [action EXCEPT ![sig] = Default] ELSE action
              /\ \/ /\ Update(t, WithFrame(r, sig, a))
                    /\ asked' = [asked EXCEPT ![t] = Append(@, HandlerMask(r, sig, a))]
                 \/ Faults /\ do_exit_signal(t)
    BY DEF SignalOne
  <1>2. th[t] \in Rec /\ asked[t] \in Seq(SafeMask) /\ Good(t) /\ shared \subseteq Sig
        /\ action \in [Sig -> Act] /\ (SIGKILL \in Sig => action[SIGKILL].h = "dfl")
        /\ sends' \in 0..MaxSends
    BY DEF IInv, ActionsOK
  <1>3. /\ sig \in Deliverable(t) /\ \A x \in Deliverable(t) : sig <= x
        /\ sig \in Sig /\ sig \in th[t].pending \cup shared
        /\ Deliverable(t) \subseteq Nat
    <2>1. Deliverable(t) \subseteq Sig BY <1>2 DEF Deliverable, Rec
    <2>2. Deliverable(t) \subseteq Nat BY <2>1 DEF Constants
    <2>3. sig \in Deliverable(t) /\ \A x \in Deliverable(t) : sig <= x
      BY <2>2, MinOK DEF Chooses
    <2> QED BY <2>1, <2>2, <2>3 DEF Deliverable
  <1> HIDE DEF sig
  <1>4. /\ r \in Rec /\ r.mode = "kernel" /\ r.call = th[t].call /\ r.blocked = th[t].blocked
        /\ r.restore = th[t].restore /\ r.frames = th[t].frames /\ r.alt = th[t].alt
        /\ r.pending \subseteq th[t].pending /\ r.forced \subseteq th[t].forced
        /\ (th[t].forced \subseteq th[t].pending => r.forced \subseteq r.pending)
    BY <1>2 DEF Rec, ClearPending
  <1>5. shared' \subseteq shared BY <1>1
  <1> HIDE DEF r
  <1>6. /\ ignored \in Rec /\ ignored.mode = "kernel" /\ ignored.call = th[t].call
        /\ ignored.blocked = th[t].blocked /\ ignored.restore = th[t].restore
        /\ ignored.frames = th[t].frames /\ ignored.alt = th[t].alt /\ ~ignored.restart
        /\ ignored.pending = r.pending /\ ignored.forced = r.forced
    BY <1>4 DEF Rec, IgnoredRestart
  <1> HIDE DEF ignored
  <1>7. FrameMask(r) = Top(asked[t]) /\ Top(asked[t]) \in SafeMask
        /\ Len(asked[t]) = Len(th[t].frames) + 1 /\ Len(th[t].frames) \in Nat
    <2>1. FrameMask(r) = FrameMask(th[t]) BY <1>4 DEF FrameMask
    <2> QED BY <2>1, FrameMaskOK
  <1>8. CASE stops /\ Update(t, [ignored EXCEPT !.mode = "stopped"]) /\ UNCHANGED <<action, asked>>
    <2> DEFINE q == [ignored EXCEPT !.mode = "stopped"]
    <2>1. th' = [th EXCEPT ![t] = q] BY <1>8 DEF Update
    <2>2. /\ q \in Rec /\ q.mode = "stopped" /\ q.call = th[t].call
          /\ q.blocked = th[t].blocked /\ q.restore = th[t].restore
          /\ q.frames = th[t].frames /\ q.alt = th[t].alt /\ ~q.restart
          /\ q.pending = r.pending /\ q.forced = r.forced
      BY <1>6 DEF Rec, Modes
    <2> HIDE DEF q
    <2>3. sig \in StopMask BY <1>3, <1>8 DEF signal_stops_default, StopMask
    <2>4. SIGCONT \notin th[t].pending \cup shared BY <1>2, <1>3, <2>3 DEF Good, PendOK
    <2>5. SIGKILL \notin th[t].pending \cup shared
      <3>1. SUFFICES ASSUME SIGKILL \in th[t].pending \cup shared PROVE FALSE OBVIOUS
      <3>2. SIGKILL \in Sig BY <1>2, <3>1 DEF Rec
      <3>3. SIGKILL \in Deliverable(t) BY <3>1, <3>2 DEF Deliverable, Maskable, Unblockable
      <3>4. sig <= SIGKILL BY <1>3, <3>3
      <3> QED BY <2>3, <3>4 DEF StopMask, SIGSTOP, SIGTSTP, SIGKILL
    <2>6. PendOK(q, shared') BY <1>2, <1>4, <1>5, <2>2, <2>4, <2>5 DEF Good, PendOK
    <2>7. MaskOK(q, asked[t]) BY <1>2, <2>2 DEF Good, MaskOK
    <2>8. SpareOK(q) BY <1>2, <1>4, <2>2 DEF Good, SpareOK
    <2>9. asked' = [asked EXCEPT ![t] = asked[t]] /\ ActionsOK' BY <1>8 DEF IInv, ActionsOK
    <2> QED BY <1>2, <1>5, <2>1, <2>2, <2>6, <2>7, <2>8, <2>9, OneThread
  <1>9. CASE kills /\ do_exit_signal(t) /\ UNCHANGED action
    <2>1. ActionsOK' /\ t \in Exits(t) BY <1>9 DEF IInv, ActionsOK, Exits
    <2>2. ~Spared
      <3> SUFFICES ASSUME Spared PROVE FALSE OBVIOUS
      <3>1. ~forced BY <1>2 DEF Good, SpareOK, Spared
      <3>2. sig = SIGKILL => a.h = "dfl" /\ FatalDefault(sig)
        BY <1>2, <1>3 DEF FatalDefault, SIGKILL, SIGCHLD, SIGCONT, SIGTSTP
      <3>3. a.h = "dfl" /\ FatalDefault(sig) BY <1>9, <3>2
      <3>4. sig # SIGSTOP BY <1>9 DEF signal_stops_default
      <3>5. InitIgnores(sig) BY <3>3, <3>4 DEF InitIgnores, Spared
      <3> QED BY <1>9, <3>1, <3>3, <3>5
    <2> QED BY <1>2, <1>5, <1>9, <2>1, <2>2, ExitOK
  <1>10. CASE Update(t, ignored) /\ UNCHANGED <<action, asked>>
    <2>1. th' = [th EXCEPT ![t] = ignored] BY <1>10 DEF Update
    <2>2. PendOK(ignored, shared') BY <1>2, <1>4, <1>5, <1>6 DEF Good, PendOK
    <2>3. MaskOK(ignored, asked[t]) BY <1>2, <1>6 DEF Good, MaskOK
    <2>4. SpareOK(ignored) BY <1>2, <1>4, <1>6 DEF Good, SpareOK
    <2>5. asked' = [asked EXCEPT ![t] = asked[t]] /\ ActionsOK' BY <1>10 DEF IInv, ActionsOK
    <2> QED BY <1>2, <1>5, <1>6, <2>1, <2>2, <2>3, <2>4, <2>5, OneThread
  <1>11. ASSUME action' = IF a.resethand THEN [action EXCEPT ![sig] = Default] ELSE action
         PROVE  ActionsOK'
    <2>1. Default \in Act /\ Default.h = "dfl" BY DEF Act, Default
    <2> QED BY <1>2, <1>3, <1>11, <2>1 DEF ActionsOK
  <1>12. CASE /\ action' = IF a.resethand THEN [action EXCEPT ![sig] = Default] ELSE action
              /\ Update(t, WithFrame(r, sig, a))
              /\ asked' = [asked EXCEPT ![t] = Append(@, HandlerMask(r, sig, a))]
    <2> DEFINE m == HandlerMask(r, sig, a)
               f == [sig |-> sig, mask |-> FrameMask(r), alt |-> r.alt]
               q == WithFrame(r, sig, a)
               b == Append(asked[t], m)
    <2>1. th' = [th EXCEPT ![t] = q] /\ asked' = [asked EXCEPT ![t] = b]
      BY <1>2, <1>12 DEF Update
    <2>2. a \in Act BY <1>2, <1>3
    <2>3. m \in SafeMask
      <3>1. r.blocked \cup a.mask \cup (IF a.nodefer THEN {} ELSE {sig}) \subseteq Sig
        BY <1>3, <1>4, <2>2 DEF Rec, Act, SafeMask
      <3> QED BY <3>1, MaskFacts DEF HandlerMask
    <2>4. f \in Frame /\ f.mask = Top(asked[t]) /\ f.alt = r.alt
      BY <1>3, <1>4, <1>7 DEF Frame, SafeMask, Rec
    <2>5. /\ Append(r.frames, f) \in Seq(Frame) /\ Len(Append(r.frames, f)) = Len(r.frames) + 1
          /\ Append(r.frames, f)[Len(r.frames) + 1] = f
          /\ \A i \in 1..Len(r.frames) : Append(r.frames, f)[i] = r.frames[i]
      BY <1>4, <2>4 DEF Rec
    <2>6. /\ q \in Rec /\ q.mode = "user" /\ q.call = r.call /\ q.blocked = m /\ q.restore = {}
          /\ q.frames = Append(r.frames, f) /\ ~q.restart
          /\ q.pending = r.pending /\ q.forced = r.forced
          /\ q.alt = IF a.onstack /\ r.alt = "on" THEN "busy" ELSE r.alt
      BY <1>4, <2>2, <2>3, <2>5 DEF WithFrame, Rec, Modes
    <2>7. /\ b \in Seq(SafeMask) /\ Len(b) = Len(asked[t]) + 1
          /\ Top(b) = m /\ \A i \in 1..Len(asked[t]) : b[i] = asked[t][i]
      BY <1>2, <2>3, PushTop
    <2>8. Len(r.frames) \in Nat /\ Len(asked[t]) = Len(r.frames) + 1 BY <1>4, <1>7
    <2> HIDE DEF q, b, f, m
    <2>9. MaskOK(q, b)
      <3>1. \A i \in 1..Len(r.frames) : r.frames[i].mask = asked[t][i]
        BY <1>2, <1>4 DEF Good, MaskOK
      <3>2. Top(asked[t]) = asked[t][Len(r.frames) + 1] BY <2>8 DEF Top
      <3>3. ASSUME NEW i \in 1..Len(q.frames) PROVE q.frames[i].mask = b[i]
        <4>1. i \in 1..(Len(r.frames) + 1) BY <2>5, <2>6
        <4>2. CASE i = Len(r.frames) + 1
          <5>1. i \in 1..Len(asked[t]) BY <2>8, <4>2
          <5> QED BY <2>4, <2>5, <2>6, <2>7, <3>2, <4>2, <5>1
        <4>3. CASE i # Len(r.frames) + 1
          <5>1. i \in 1..Len(r.frames) /\ i \in 1..Len(asked[t]) BY <2>8, <4>1, <4>3
          <5> QED BY <2>5, <2>6, <2>7, <3>1, <5>1
        <4> QED BY <4>2, <4>3
      <3>4. q.call.op = "none" BY <1>4, <2>6
      <3>5. Len(b) = Len(q.frames) + 1 BY <2>5, <2>6, <2>7, <2>8
      <3> QED BY <2>6, <2>7, <3>3, <3>4, <3>5 DEF MaskOK
    <2>10. PendOK(q, shared') BY <1>2, <1>4, <1>5, <2>6 DEF Good, PendOK
    <2>11. SpareOK(q)
      <3>0. Spared => q.mode # "dead" /\ q.forced = {} BY <1>2, <1>4, <2>6 DEF Good, SpareOK
      <3> SUFFICES ASSUME TRUE \notin AltStack
                   PROVE  /\ q.alt = "off"
                          /\ \A i \in 1..Len(q.frames) : q.frames[i].alt = "off"
        BY <3>0 DEF SpareOK
      <3>1. r.alt = "off" /\ \A i \in 1..Len(r.frames) : r.frames[i].alt = "off"
        BY <1>2, <1>4 DEF Good, SpareOK
      <3>2. ASSUME NEW i \in 1..Len(q.frames) PROVE q.frames[i].alt = "off"
        <4>1. i \in 1..(Len(r.frames) + 1) BY <2>5, <2>6
        <4>2. CASE i = Len(r.frames) + 1 BY <2>4, <2>5, <2>6, <3>1, <4>2
        <4>3. CASE i # Len(r.frames) + 1
          <5>1. i \in 1..Len(r.frames) BY <2>8, <4>1, <4>3
          <5> QED BY <2>5, <2>6, <3>1, <5>1
        <4> QED BY <4>2, <4>3
      <3> QED BY <1>4, <2>6, <3>1, <3>2
    <2> QED BY <1>2, <1>5, <1>11, <1>12, <2>1, <2>6, <2>7, <2>9, <2>10, <2>11, OneThread
  <1>13. CASE /\ action' = IF a.resethand THEN [action EXCEPT ![sig] = Default] ELSE action
              /\ Faults /\ do_exit_signal(t)
    <2>1. ~Spared /\ t \in Exits(t) BY <1>13 DEF Spared, Exits
    <2> QED BY <1>2, <1>5, <1>11, <1>13, <2>1, ExitOK
  <1> QED BY <1>1, <1>8, <1>9, <1>10, <1>12, <1>13

\* do_signal: nothing, or one signal and what its disposition asks for.
LEMMA SignalOK == ASSUME IInv, Constants, NEW t \in Thread, do_signal(t) PROVE IInv'
  <1>1. CASE Deliverable(t) = {} BY <1>1, SignalNoneOK DEF do_signal
  <1>2. CASE Deliverable(t) # {} BY <1>2, SignalOneOK DEF do_signal
  <1> QED BY <1>1, <1>2

-----------------------------------------------------------------------------
(* The theorems.                                                           *)

\* A process begins in the invariant.
LEMMA InitOK == ASSUME Constants, Init PROVE IInv
  <1>1. /\ NewThread.mode = "user" /\ NewThread.call = NoCall /\ NewThread.blocked = {}
        /\ NewThread.pending = {} /\ NewThread.forced = {} /\ NewThread.restore = {}
        /\ NewThread.restart = FALSE /\ NewThread.frames = <<>> /\ NewThread.alt = "off"
    BY DEF NewThread
  <1>2. NewThread \in Rec
    <2>1. NoCall \in Call BY DEF Call, NoCall
    <2>2. {} \in SafeMask /\ <<>> \in Seq(Frame) BY DEF SafeMask
    <2> QED BY <2>1, <2>2 DEF NewThread, Rec, Modes
  <1>3. <<{}>> \in Seq(SafeMask) /\ Len(<<{}>>) = 1 /\ Top(<<{}>>) = {} BY DEF SafeMask, Top
  <1>4. Len(<<>>) = 0 /\ NoCall.op = "none" BY DEF NoCall
  <1>5. MaskOK(NewThread, <<{}>>) BY <1>1, <1>3, <1>4 DEF MaskOK
  <1>6. PendOK(NewThread, {}) BY <1>1 DEF PendOK
  <1>7. SpareOK(NewThread) BY <1>1, <1>4 DEF SpareOK
  <1>8. \A t \in Thread : Good(t) /\ th[t].mode # "kernel"
    BY <1>1, <1>5, <1>6, <1>7 DEF Init, Good
  <1>9. ActionsOK
    <2>1. Default \in Act /\ Default.h = "dfl" BY DEF Act, Default
    <2> QED BY <2>1 DEF Init, ActionsOK
  <1> QED BY <1>2, <1>3, <1>8, <1>9 DEF IInv, Init, Constants

\* The invariant is about these variables only.
LEMMA StutterOK == ASSUME IInv, UNCHANGED vars PROVE IInv'
  <1>1. UNCHANGED <<th, shared, action, asked, sends>> BY DEF vars
  <1>2. \A t \in Thread : Good(t)' BY <1>1 DEF IInv, Good
  <1>3. ActionsOK' BY <1>1 DEF IInv, ActionsOK
  <1> QED BY <1>1, <1>2, <1>3 DEF IInv

\* Every step keeps the invariant.
LEMMA StepOK == ASSUME IInv, Constants, [Next]_vars PROVE IInv'
  <1>1. ASSUME NEW sig \in Sig, send_group_signal_info(sig) PROVE IInv' BY <1>1, SendGroupOK
  <1>2. ASSUME NEW t \in Thread,
               Kernel(t) \/ Trap(t) \/ Timeout(t) \/ Read(t) \/ ReadDone(t) \/ do_sigreturn(t)
        PROVE  IInv'
    BY <1>2, ResumeOK, ArbitrateOK, SignalOK, TrapOK, TimeoutOK, ReadOK, ReadDoneOK, SigreturnOK
       DEF Kernel
  <1>3. ASSUME NEW t \in Thread, NEW sig \in Sig,
               send_signal_info(t, sig) \/ force_signal_info(t, sig)
        PROVE  IInv'
    BY <1>3, SendSignalOK, ForceOK
  <1>4. ASSUME NEW t \in Thread, NEW m \in UserMask,
               do_sigprocmask(t, m) \/ signal_sigsuspend(t, m)
        PROVE  IInv'
    BY <1>4, SigprocmaskOK, SigsuspendOK
  <1>5. ASSUME NEW t \in Thread, NEW set \in UserMask, NEW timed \in BOOLEAN,
               signal_wait_pending(t, set, timed)
        PROVE  IInv'
    BY <1>5, SigwaitOK
  <1>6. ASSUME NEW t \in Thread, NEW sig \in Sig, NEW a \in Disposition, do_sigaction(t, sig, a)
        PROVE  IInv'
    BY <1>6, SigactionOK
  <1>7. ASSUME NEW t \in Thread, NEW on \in AltStack, do_sigaltstack(t, on) PROVE IInv'
    BY <1>7, SigaltstackOK
  <1>8. CASE UNCHANGED vars BY <1>8, StutterOK
  <1> QED BY <1>1, <1>2, <1>3, <1>4, <1>5, <1>6, <1>7, <1>8 DEF Next

\* The invariant holds in every state of every process.
THEOREM Invariance == ASSUME Constants PROVE Spec => []IInv
  <1>1. Init => IInv BY InitOK
  <1>2. IInv /\ [Next]_vars => IInv' BY StepOK
  <1> QED BY <1>1, <1>2, PTL DEF Spec

\* The variables keep their types, and no thread ever blocks SIGKILL or SIGSTOP.
THEOREM TypeCorrect == ASSUME Constants PROVE Spec => []TypeOK
  <1>1. ASSUME IInv PROVE TypeOK
    <2>1. ASSUME NEW t \in Thread
          PROVE  /\ th[t].mode \in {"user", "kernel", "sleep", "woken", "stopped", "go on", "dead"}
                 /\ th[t].call \in Call
                 /\ th[t].blocked \subseteq Sig \ Unblockable
                 /\ th[t].pending \subseteq Sig /\ th[t].forced \subseteq th[t].pending
                 /\ th[t].restore \subseteq SUBSET Sig /\ Cardinality(th[t].restore) < 2
                 /\ th[t].restart \in BOOLEAN
                 /\ \A i \in DOMAIN th[t].frames : th[t].frames[i] \in Frame
                 /\ th[t].alt \in {"off", "on", "busy"}
                 /\ th[t].mode # "dead" => Len(asked[t]) = Len(th[t].frames) + 1
      <3>1. th[t] \in Rec /\ MaskOK(th[t], asked[t]) /\ PendOK(th[t], shared) BY <1>1 DEF IInv, Good
      <3>2. th[t].restore = {} \/ \E m : th[t].restore = {m} BY <3>1 DEF MaskOK, Rec, Call
      <3>3. Cardinality(th[t].restore) < 2
        <4>1. Cardinality({}) = 0 /\ \A m : Cardinality({m}) = 1 BY FS_EmptySet, FS_Singleton
        <4>2. CASE th[t].restore = {} BY <4>1, <4>2
        <4>3. CASE \E m : th[t].restore = {m} BY <4>1, <4>3
        <4> QED BY <3>2, <4>2, <4>3
      <3>4. th[t].blocked \subseteq Sig \ Unblockable /\ th[t].forced \subseteq th[t].pending
        BY <3>1 DEF Rec, SafeMask, PendOK
      <3>5. \A i \in DOMAIN th[t].frames : th[t].frames[i] \in Frame BY <3>1 DEF Rec
      <3>6. th[t].restore \subseteq SUBSET Sig /\ th[t].pending \subseteq Sig BY <3>1 DEF Rec, SafeMask
      <3>7. Len(asked[t]) = Len(th[t].frames) + 1 BY <3>1 DEF MaskOK
      <3>8. th[t].mode \in Modes /\ th[t].call \in Call /\ th[t].restart \in BOOLEAN
            /\ th[t].alt \in {"off", "on", "busy"}
        BY <3>1 DEF Rec
      <3> QED BY <3>3, <3>4, <3>5, <3>6, <3>7, <3>8 DEF Modes
    <2> QED BY <1>1, <2>1 DEF TypeOK, IInv, ActionsOK
  <1> QED BY <1>1, Invariance, PTL

\* No thread sleeps through a signal it does not block, a stopped thread is set
\* going by SIGCONT and SIGKILL, stop signals and SIGCONT are never pending
\* together, and PID 1 survives the signals of others (AwakeForSignal,
\* StoppedAnswers, StopContExclusive, InitSurvives).
THEOREM SignalsCorrect == ASSUME Constants PROVE Spec => []SignalsAnswered
  <1>1. ASSUME IInv PROVE SignalsAnswered
    <2>1. \A t \in Thread : Good(t) BY <1>1 DEF IInv
    <2>2. AwakeForSignal BY <2>1 DEF AwakeForSignal, Good, PendOK
    <2>3. StoppedAnswers BY <2>1 DEF StoppedAnswers, Good, PendOK
    <2>4. StopContExclusive BY <2>1 DEF StopContExclusive, Alive, Good, PendOK
    <2>5. InitSurvives BY <2>1 DEF InitSurvives, Alive, Good, SpareOK, Spared
    <2> QED BY <2>2, <2>3, <2>4, <2>5 DEF SignalsAnswered
  <1> QED BY <1>1, Invariance, PTL

\* A thread in user mode has the mask it asked for, through any nesting of
\* handlers, sigsuspend and sigtimedwait, every frame has the one to go back to,
\* and no stale restart survives the return to user mode (MaskKept,
\* RestartFresh).
THEOREM ContextCorrect == ASSUME Constants PROVE Spec => []ContextKept
  <1>1. ASSUME IInv PROVE ContextKept
    <2>1. \A t \in Thread : Good(t) /\ th[t] \in Rec BY <1>1 DEF IInv
    <2>2. \A t \in Thread : th[t].mode = "user" => th[t].blocked = asked[t][Len(asked[t])]
      BY <2>1 DEF Good, MaskOK, Top
    <2>3. \A t \in Thread : \A i \in DOMAIN th[t].frames : th[t].frames[i].mask = asked[t][i]
      BY <2>1 DEF Good, MaskOK, Rec
    <2>4. RestartFresh BY <2>1 DEF RestartFresh, Good, PendOK
    <2> QED BY <2>2, <2>3, <2>4 DEF ContextKept, MaskKept, Alive
  <1> QED BY <1>1, Invariance, PTL

\* As long as no alternate stack is used, a handler can always return through its
\* frame: do_sigreturn refuses none that the kernel has built (NestedReturns).
THEOREM ReturnsSafe == ASSUME Constants, TRUE \notin AltStack PROVE Spec => NestedReturns
  <1>1. ASSUME IInv, NEW t \in Thread, do_sigreturn(t) PROVE th'[t].mode # "dead"
    <2> DEFINE n == Len(th[t].frames)
    <2>1. th[t] \in Rec /\ SpareOK(th[t]) /\ th[t].frames # <<>> BY <1>1 DEF IInv, Good, do_sigreturn
    <2>2. n \in Nat /\ n \in 1..n BY <2>1 DEF Rec
    <2>3. th[t].frames[n].alt # "busy" BY <2>1, <2>2 DEF SpareOK
    <2>4. \E r : th' = [th EXCEPT ![t] = r] /\ r.mode = "kernel"
      <3> DEFINE q == [th[t] EXCEPT !.mode = "kernel", !.blocked = Maskable(th[t].frames[n].mask),
                          !.alt = th[t].frames[n].alt, !.frames = SubSeq(th[t].frames, 1, n - 1)]
      <3>1. Update(t, q) BY <1>1, <2>3 DEF do_sigreturn
      <3>2. q.mode = "kernel" BY <2>1 DEF Rec
      <3> QED BY <3>1, <3>2 DEF Update
    <2>5. th \in [Thread -> Rec] BY <1>1 DEF IInv
    <2> QED BY <2>4, <2>5
  <1>2. IInv /\ [Next]_vars => [\A t \in Thread : do_sigreturn(t) => th'[t].mode # "dead"]_vars
    BY <1>1
  <1> QED BY <1>2, Invariance, PTL DEF NestedReturns, Spec
=============================================================================
