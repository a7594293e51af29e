----------------------------- MODULE Resources -----------------------------
(***************************************************************************)
(* What tasks share: address space, descriptor table, working directory,   *)
(* signal handlers and process signal state, each counted (kernel/fork.c,  *)
(* signal.c, exec.c, exit.c).  clone takes or copies them one by one and    *)
(* undoes what it did when a later step fails; execve builds a new address *)
(* space before it gives up the old one; exit releases them.  A task       *)
(* switch happens between the actions, none inside one.                    *)
(***************************************************************************)
EXTENDS Integers, FiniteSets, FiniteSetsExt

CONSTANTS Task, init_task, Program,
  CloneFlags   \* the sets of flags that callers of clone use

VARIABLES
  state,    \* of each task: "free", "user", "vfork" (its parent waits) or "zombie"
  leader,   \* its thread group's leader
  vfork,    \* the child whose completion it waits for, or None
  res,      \* the counts of the objects and who holds which
  prog      \* the program in each address space, None when it is free

vars == <<state, leader, vfork, res, prog>>

None == 0
Kind == {"mm", "files", "fs", "sighand", "signal"}
Object == 1 .. Cardinality(Task) + 1

-----------------------------------------------------------------------------
(* Counted objects.                                                        *)

New(R, k) == Min({o \in Object : R.ref[k][o] = 0})
Get(R, k, o) == IF o = None THEN R ELSE [R EXCEPT !.ref[k][o] = @ + 1]
Put(R, k, o) == IF o = None THEN R ELSE [R EXCEPT !.ref[k][o] = @ - 1]
Set(R, t, k, o) == [R EXCEPT !.hold[t][k] = o]
Drop(R, t, k) == Set(Put(R, k, R.hold[t][k]), t, k, None)

\* The child shares the object or has a copy of it.
Share(R, t, c, k) == Set(Get(R, k, R.hold[t][k]), c, k, R.hold[t][k])
Copy(R, c, k) == Set(Get(R, k, New(R, k)), c, k, New(R, k))
Take(R, t, c, k, share) == IF share THEN Share(R, t, c, k) ELSE Copy(R, c, k)

-----------------------------------------------------------------------------
(* clone.                                                                  *)

task_is_group_leader(t) == leader[t] = t
Group(t) == {u \in Task : state[u] \in {"user", "vfork"} /\ leader[u] = leader[t]}
task_group_has_other_threads(t) == Group(t) # {t}

validate_clone_flags(t, flags) ==
  /\ "SIGHAND" \in flags => "VM" \in flags
  /\ ~({"VFORK", "THREAD"} \subseteq flags)
  /\ "VM" \in flags => flags \cap {"SIGHAND", "VFORK"} # {}
  /\ "THREAD" \in flags => {"VM", "SIGHAND"} \subseteq flags
  /\ "THREAD" \notin flags => task_is_group_leader(t)

clone_setup_mm(R, t, c, flags) == Take(R, t, c, "mm", "VM" \in flags)

\* signals_clone: both objects are taken before the child's own are released.
signals_clone(R, t, c, flags) ==
  Take(Take(R, t, c, "sighand", "SIGHAND" \in flags), t, c, "signal", "THREAD" \in flags)

\* The steps that can fail, in their order, and what is held when one does; in
\* signals_clone a table that was taken is put back first.
Taken(t, c, flags, fail) ==
  LET r1 == clone_setup_mm(res, t, c, flags)
      r2 == Take(r1, t, c, "files", "FILES" \in flags)
      r3 == Take(r2, t, c, "fs", "FS" \in flags)
  IN CASE fail = "mm" -> res
       [] fail = "files" -> r1
       [] fail = "fs" -> r2
       [] fail = "sighand" -> r3
       [] OTHER -> signals_clone(r3, t, c, flags)

\* Everything that the tasks of S hold is put.
Release(R, S) ==
  [ref |-> [k \in Kind |-> [o \in Object |->
              R.ref[k][o] - Cardinality({t \in S : R.hold[t][k] = o})]],
   hold |-> [t \in Task |-> IF t \in S THEN [k \in Kind |-> None] ELSE R.hold[t]]]

\* child_cleanup; task_destroy releases what is left, which is nothing.
child_cleanup(R, c) == Release(R, {c})

CloneFails(t, c, flags) ==
  /\ \E fail \in {"mm", "files", "fs", "sighand", "frame"} :
       res' = child_cleanup(Taken(t, c, flags, fail), c)
  /\ UNCHANGED <<state, leader, vfork, prog>>

\* kernel_clone_prepare and kernel_clone_commit.
CloneDone(t, c, flags) ==
  /\ res' = Taken(t, c, flags, "done")
  /\ prog' = [prog EXCEPT ![res'.hold[c].mm] = prog[res.hold[t].mm]]
  /\ leader' = [leader EXCEPT ![c] = IF "THREAD" \in flags THEN leader[t] ELSE c]
  /\ state' = [state EXCEPT ![c] = "user", ![t] = IF "VFORK" \in flags THEN "vfork" ELSE @]
  /\ vfork' = [vfork EXCEPT ![t] = IF "VFORK" \in flags THEN c ELSE None]

sys_clone(t) ==
  /\ state[t] = "user" /\ res.hold[t].mm # None
  /\ LET unused == {u \in Task : state[u] = "free"}
     IN /\ unused # {}
        /\ \E flags \in CloneFlags :
             /\ validate_clone_flags(t, flags)
             /\ CloneFails(t, Min(unused), flags) \/ CloneDone(t, Min(unused), flags)

\* kernel_clone_complete_vfork: the waiting parent runs again.
VforkDone(S, V, c) == [u \in Task |-> IF V[u] = c /\ S[u] = "vfork" THEN "user" ELSE S[u]]
Waiters(V, c) == [u \in Task |-> IF V[u] = c THEN None ELSE V[u]]

-----------------------------------------------------------------------------
(* execve.                                                                 *)

\* files_unshare_for_exec.
files_unshare_for_exec(R, t) ==
  IF R.ref["files"][R.hold[t].files] = 1 THEN R ELSE Copy(Drop(R, t, "files"), t, "files")

\* A failing execve has put back the address space it had built.
kernel_execve_fails(t) ==
  /\ state[t] = "user"
  /\ LET mm == New(res, "mm") IN res' = Put(Get(res, "mm", mm), "mm", mm)
  /\ UNCHANGED <<state, leader, vfork, prog>>

\* Fault: the new program is put into the address space the task has.
Installed_inplace(R, t, mm) == IF R.hold[t].mm = None THEN Set(Get(R, "mm", mm), t, "mm", mm) ELSE R

Live(P) == [o \in Object |-> IF res'.ref["mm"][o] = 0 THEN None ELSE P[o]]

\* install_exec_mm: the new address space is set before the old one is put.
Installed(R, t, mm) == Put(Set(Get(R, "mm", mm), t, "mm", mm), "mm", R.hold[t].mm)

kernel_execve(t) ==
  /\ state[t] = "user"
  /\ ~task_group_has_other_threads(t)
  /\ \E p \in Program :
       /\ res' = Installed(files_unshare_for_exec(res, t), t, New(res, "mm"))
       /\ prog' = [o \in Object |-> IF o = res'.hold[t].mm THEN p ELSE Live(prog)[o]]
  /\ state' = VforkDone(state, vfork, t)
  /\ vfork' = Waiters(vfork, t)
  /\ UNCHANGED leader

-----------------------------------------------------------------------------
(* Exit.                                                                   *)

\* finish_task_exit of the tasks in S; the threads of gone are released at once.
Leave(S, gone) ==
  LET states == FoldSet(LAMBDA t, st : VforkDone([st EXCEPT ![t] = "zombie"], vfork, t), state, S)
  IN /\ res' = Release(res, S)
     /\ state' = [t \in Task |-> IF t \in gone THEN "free"
                                 ELSE IF t \in S THEN "zombie" ELSE states[t]]
     /\ vfork' = [t \in Task |-> IF t \in S \/ vfork[t] \in S THEN None ELSE vfork[t]]
     /\ prog' = Live(prog) /\ UNCHANGED leader

\* do_exit_status, by itself or by a fatal signal, which also ends a vfork wait:
\* a leader takes its threads with it.
do_exit_status(t) ==
  /\ t # init_task /\ state[t] \in {"user", "vfork"}
  /\ IF task_is_group_leader(t) THEN Leave(Group(t), Group(t) \ {t}) ELSE Leave({t}, {})

do_exit_group(t) ==
  /\ leader[t] # init_task /\ state[t] = "user" /\ ~task_is_group_leader(t)
  /\ Leave(Group(t), Group(t) \ {t, leader[t]})

\* release_task: the parent's wait, or the scheduler for a thread.  task_destroy
\* releases again what the task no longer holds.
release_task(t) ==
  /\ state[t] = "zombie"
  /\ state' = [state EXCEPT ![t] = "free"]
  /\ res' = Release(res, {t})
  /\ UNCHANGED <<leader, vfork, prog>>

\* task_init_resources for init, which has no address space before it execs.
Init ==
  /\ state = [t \in Task |-> IF t = init_task THEN "user" ELSE "free"]
  /\ leader = [t \in Task |-> t]
  /\ vfork = [t \in Task |-> None]
  /\ res = [ref |-> [k \in Kind |-> [o \in Object |-> IF k # "mm" /\ o = 1 THEN 1 ELSE 0]],
            hold |-> [t \in Task |-> [k \in Kind |-> IF t = init_task /\ k # "mm" THEN 1 ELSE None]]]
  /\ prog = [o \in Object |-> None]

Next ==
  \E t \in Task :
    \/ sys_clone(t) \/ kernel_execve(t) \/ kernel_execve_fails(t)
    \/ do_exit_status(t) \/ do_exit_group(t) \/ release_task(t)

Spec == Init /\ [][Next]_vars

-----------------------------------------------------------------------------
(* Properties.                                                             *)

Holders(k, o) == {t \in Task : res.hold[t][k] = o}
Alive(t) == state[t] \in {"user", "vfork"}

\* Every object is counted once for each task that holds it, whatever step of a
\* clone or an execve failed and in whichever order the sharers exit: none is
\* freed while it is used or kept when it is not.  A thread has the address
\* space and the handlers of its group, and only its group has its signal state.
ResourcesExact ==
  /\ \A k \in Kind, o \in Object : res.ref[k][o] = Cardinality(Holders(k, o))
  /\ \A t \in Task, k \in Kind :
       /\ ~Alive(t) => res.hold[t][k] = None
       /\ Alive(t) /\ k # "mm" => res.hold[t][k] # None
  /\ \A t, u \in Task : Alive(t) /\ Alive(u) =>
       /\ (leader[t] = leader[u]) <=> (res.hold[t].signal = res.hold[u].signal)
       /\ leader[t] = leader[u] => res.hold[t].mm = res.hold[u].mm
                                   /\ res.hold[t].sighand = res.hold[u].sighand

Sees(t) == IF res.hold[t].mm = None THEN None ELSE prog[res.hold[t].mm]

Changes(t) == Alive(t) /\ Alive(t)' /\ Sees(t)' # Sees(t)

\* A step changes the program that at most one task is running: execve replaces
\* it in an address space of the caller's own, never in the one that a vfork
\* parent or another process still runs in.
ExecStep ==
  \A t, u \in Task :
    Changes(t) /\ Changes(u) => t = u

ExecAlone == [][ExecStep]_vars
=============================================================================
