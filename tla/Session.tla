------------------------------ MODULE Session ------------------------------
(***************************************************************************)
(* Sessions, process groups and the controlling terminal (kernel/session.c *)
(* and tty.c, with the identity functions of kernel/task.c).  Each of them *)
(* runs under session_lock and is one step here.  Threads look up the      *)
(* attachment of their leader and are left out.  A number is given out     *)
(* again once the process that had it is reaped.                           *)
(***************************************************************************)
EXTENDS Integers, FiniteSets, FiniteSetsExt

CONSTANTS
  Pid,         \* process numbers; 1 is init
  MaxSessions  \* bound: sessions that are created

VARIABLES
  proc,     \* proc[p]: state, parent, group and session
  tty,      \* the session that owns the terminal and its foreground group
  att,      \* att[p]: the session that p is attached for, 0 for none
  created   \* sessions created so far

vars == <<proc, tty, att, created>>

None == [st |-> "none", parent |-> 0, pgid |-> 0, sid |-> 0, born |-> 0]

Published == {p \in Pid : proc[p].st # "none"}
Live == {p \in Pid : proc[p].st = "live"}

-----------------------------------------------------------------------------
(* Identity (kernel/task.c).                                               *)

task_pgid_exists(P, g) == \E p \in Pid : P[p].st # "none" /\ P[p].pgid = g
task_pgid_in_session(P, g, s) == \E p \in Pid : P[p].st # "none" /\ P[p].pgid = g /\ P[p].sid = s

\* Fault: a process that has exited counts as a member.
has_live_member_any(P, g, s, except) ==
  \E p \in Pid \ except : P[p].st # "none" /\ P[p].pgid = g /\ P[p].sid = s

task_pgid_has_live_member_except(P, g, s, except) ==
  \E p \in Pid \ except : P[p].st = "live" /\ P[p].pgid = g /\ P[p].sid = s

-----------------------------------------------------------------------------
(* The terminal (kernel/tty.c): T is its owner and foreground, A the       *)
(* attachments.                                                            *)

Unowned == [session |-> 0, fg |-> 0, born |-> 0]
Nobody == [p \in Pid |-> 0]

tty_ctty_owned_by(p, s) == s > 0 /\ tty.session = s /\ att[p] = s

\* tty_ctty_remove_task: the whole session, or one process.
RevokedTty(p, s, revoke) == IF revoke /\ tty.session = s THEN Unowned ELSE tty
RevokedAtt(p, s, revoke) ==
  IF revoke /\ tty.session = s THEN Nobody
  ELSE IF att[p] = s THEN [att EXCEPT ![p] = 0] ELSE att

\* session_clear_empty_foreground with tty_ctty_clear_foreground_if.
ForegroundCleared(T, P, s, g, except) ==
  IF s > 0 /\ g > 0 /\ ~task_pgid_has_live_member_except(P, g, s, except)
       /\ T.session = s /\ T.fg = g
  THEN [T EXCEPT !.fg = 0] ELSE T

-----------------------------------------------------------------------------
(* Processes.                                                              *)

Lowest == Min(Pid \ Published)

Identity(p, c) ==
  [proc EXCEPT ![c] = [proc[p] EXCEPT !.parent = p]]

\* session_process_clone_prepare, then kernel_clone_commit: the child has its
\* parent's identity and attachment.
session_process_clone(p) ==
  /\ p \in Live /\ Published # Pid
  /\ proc' = Identity(p, Lowest)
  /\ att' = [att EXCEPT ![Lowest] = att[p]]
  /\ UNCHANGED <<tty, created>>

\* The same, then kernel_clone_abort: the clean-up takes the attachment back.
session_process_abort(p) ==
  /\ p \in Live /\ Published # Pid
  /\ LET c == Lowest
         s == proc[p].sid
         A == [att EXCEPT ![c] = att[p]]
         revoke == s = c /\ tty.session = s
     IN /\ tty' = IF revoke THEN Unowned
                  ELSE ForegroundCleared(tty, proc, s, proc[p].pgid, {c})
        /\ att' = IF revoke THEN Nobody
                  ELSE IF A[c] = s THEN [A EXCEPT ![c] = 0] ELSE A
  /\ UNCHANGED <<proc, created>>

session_process_setsid(p) ==
  /\ p \in Live /\ created < MaxSessions
  /\ ~task_pgid_exists(proc, p)
  /\ created' = created + 1
  /\ proc' = [proc EXCEPT ![p].sid = p, ![p].pgid = p, ![p].born = created + 1]
  /\ att' = RevokedAtt(p, proc[p].sid, FALSE)
  /\ tty' = ForegroundCleared(tty, proc', proc[p].sid, proc[p].pgid, {})

\* Fault: the group that is left is not looked at.
session_process_setpgid_only(p, q, g) ==
  /\ p \in Live /\ q \in Published
  /\ q = p \/ (proc[q].parent = p /\ proc[q].sid = proc[p].sid)
  /\ proc[q].sid # q
  /\ g = q \/ task_pgid_in_session(proc, g, proc[q].sid)
  /\ proc' = [proc EXCEPT ![q].pgid = g]
  /\ UNCHANGED <<tty, att, created>>

\* A process moves itself or a child, which may have exited, to a group.
session_process_setpgid(p, q, g) ==
  /\ p \in Live /\ q \in Published
  /\ q = p \/ (proc[q].parent = p /\ proc[q].sid = proc[p].sid)
  /\ proc[q].sid # q
  /\ g = q \/ task_pgid_in_session(proc, g, proc[q].sid)
  /\ proc' = [proc EXCEPT ![q].pgid = g]
  /\ tty' = ForegroundCleared(tty, proc', proc[q].sid, proc[q].pgid, {})
  /\ UNCHANGED <<att, created>>

\* Before it becomes a zombie, a process leaves the terminal, and a session
\* leader takes the session with it.  Its children go to init.
session_process_exit(p) ==
  /\ p \in Live \ {1}
  /\ LET s == proc[p].sid
         revoke == s = p
     IN /\ tty' = IF revoke /\ tty.session = s THEN Unowned
                  ELSE ForegroundCleared(tty, proc, s, proc[p].pgid, {p})
        /\ att' = RevokedAtt(p, s, revoke)
  /\ proc' = [q \in Pid |-> IF q = p THEN [proc[q] EXCEPT !.st = "zombie"]
                            ELSE IF proc[q].parent = p THEN [proc[q] EXCEPT !.parent = 1]
                            ELSE proc[q]]
  /\ UNCHANGED created

\* The parent reaps it, and the number is free.
Reap(p) ==
  /\ proc[p].st = "zombie"
  /\ proc' = [proc EXCEPT ![p] = None]
  /\ UNCHANGED <<tty, att, created>>

-----------------------------------------------------------------------------
(* Terminal requests.                                                      *)

\* TIOCSCTTY; steal is the argument 1 from user 0.
session_console_acquire(p, steal) ==
  /\ p \in Live /\ proc[p].sid = p
  /\ tty.session \in {0, p} \/ steal
  /\ tty' = [session |-> p, fg |-> proc[p].pgid, born |-> proc[p].born]
  /\ att' = [(IF tty.session \in {0, p} THEN att ELSE Nobody) EXCEPT ![p] = p]
  /\ UNCHANGED <<proc, created>>

\* TIOCNOTTY.
session_console_release(p) ==
  /\ p \in Live /\ tty_ctty_owned_by(p, proc[p].sid)
  /\ tty' = RevokedTty(p, proc[p].sid, proc[p].sid = p)
  /\ att' = RevokedAtt(p, proc[p].sid, proc[p].sid = p)
  /\ UNCHANGED <<proc, created>>

\* TIOCSPGRP.
session_console_set_foreground_pgid(p, g) ==
  /\ p \in Live /\ tty_ctty_owned_by(p, proc[p].sid)
  /\ task_pgid_has_live_member_except(proc, g, proc[p].sid, {})
  /\ tty' = [tty EXCEPT !.fg = g]
  /\ UNCHANGED <<proc, att, created>>

\* send_session_pgrp_signal: whom a signal typed on the terminal reaches.
Targets(g, s) ==
  IF g = 0 \/ s = 0 THEN {} ELSE {p \in Live : proc[p].pgid = g /\ proc[p].sid = s}

Init ==
  /\ proc = [p \in Pid |-> IF p = 1
       THEN [st |-> "live", parent |-> 0, pgid |-> 1, sid |-> 1, born |-> 0] ELSE None]
  /\ tty = Unowned
  /\ att = Nobody
  /\ created = 0

Next ==
  \E p \in Pid :
    \/ session_process_clone(p) \/ session_process_abort(p)
    \/ session_process_setsid(p) \/ session_process_exit(p) \/ Reap(p)
    \/ session_console_release(p)
    \/ \E steal \in BOOLEAN : session_console_acquire(p, steal)
    \/ \E g \in Pid : session_console_set_foreground_pgid(p, g)
    \/ \E q, g \in Pid : session_process_setpgid(p, q, g)

Spec == Init /\ [][Next]_vars

-----------------------------------------------------------------------------
(* Properties.                                                             *)

\* The session that owns the terminal has a living leader; only living members of that session are attached, so none is left behind
\* by an exit, a revoked session, setsid or a failed clone; and the foreground
\* group, when there is one, has a living member in the session.
TerminalExact ==
  /\ tty.session # 0 =>
       /\ tty.session \in Live
       /\ proc[tty.session].sid = tty.session
  /\ \A p \in Pid : att[p] # 0 => p \in Live /\ att[p] = tty.session /\ proc[p].sid = att[p]
  /\ tty.fg # 0 => tty.session # 0 /\ Targets(tty.fg, tty.session) # {}

\* docs/architecture/task.md: a terminal signal is never delivered to a process
\* whose number or session number was used before.
NoDeliveryByReuse ==
  \A p \in Targets(tty.fg, tty.session) : proc[p].born = tty.born
=============================================================================
