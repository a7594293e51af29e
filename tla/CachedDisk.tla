---------------------------- MODULE CachedDisk ----------------------------
(***************************************************************************)
(* What the page cache promises: every block has one content that all      *)
(* users see (view) and one that the device keeps (disk).  Dirty blocks go *)
(* to the device whenever the cache likes; only a write changes the view,  *)
(* and only truncation and invalidation may bring an older content back.   *)
(***************************************************************************)
EXTENDS Naturals

CONSTANTS Block, Data

VARIABLES
  view,  \* view[b]: what a read of block b returns
  disk,  \* disk[b]: what the device keeps of it
  op     \* the last operation: its kind, the blocks it is about, its result

vars == <<view, disk, op>>

Init == view = disk /\ op = [kind |-> "none", on |-> {}, ret |-> "ok"]

\* A read fails or not, and changes nothing.
Read == op'.kind = "read" /\ UNCHANGED view

\* A write changes one block, if it succeeds.
Write ==
  /\ op'.kind = "write"
  /\ IF op'.ret = "ok"
     THEN \E b \in op'.on, d \in Data : view' = [view EXCEPT ![b] = d]
     ELSE UNCHANGED view

\* A sync that succeeds leaves its blocks on the device.
Sync ==
  /\ op'.kind = "sync"
  /\ UNCHANGED view
  /\ op'.ret = "ok" => \A b \in op'.on : disk'[b] = view[b]

\* A block that is dropped keeps its content, gets a tail of zeros, or falls
\* back to what the device has.
Drop ==
  /\ op'.kind = "drop"
  /\ \A b \in Block :
       \/ view'[b] = view[b]
       \/ /\ b \in op'.on
          /\ \/ view'[b] = disk'[b]
             \/ \E k \in DOMAIN view[b] :
                  view'[b] = [u \in DOMAIN view[b] |-> IF u > k THEN 0 ELSE view[b][u]]

Next == /\ \A b \in Block : disk'[b] \in {disk[b], view[b], view'[b]}
        /\ Read \/ Write \/ Sync \/ Drop

Spec == Init /\ [][Next]_vars
=============================================================================
