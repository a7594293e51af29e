------------------------------ MODULE ByteQueue -----------------------------
(***************************************************************************)
(* What a pipe promises about the bytes in it: a bounded queue.  Bytes are *)
(* appended behind the ones that are there and taken from the front; none  *)
(* is lost, repeated, reordered or invented.                               *)
(***************************************************************************)
EXTENDS Integers, Sequences

CONSTANTS Capacity, Byte
VARIABLE queue

Init == queue = <<>>

Put ==
  /\ Len(queue) < Len(queue') /\ Len(queue') <= Capacity
  /\ DOMAIN queue' = 1..Len(queue') /\ \A i \in DOMAIN queue' : queue'[i] \in Byte
  /\ \A i \in DOMAIN queue : queue'[i] = queue[i]

Take ==
  LET n == Len(queue) - Len(queue')
  IN /\ n > 0 /\ DOMAIN queue' = 1..Len(queue')
     /\ \A i \in DOMAIN queue' : queue'[i] = queue[n + i]

Next == Put \/ Take

Spec == Init /\ [][Next]_queue
=============================================================================
