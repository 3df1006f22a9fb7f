---------------------------- MODULE BoundedFifo ----------------------------
(***************************************************************************)
(* What a ring buffer promises: a queue of at most Capacity elements that  *)
(* takes elements at one end, in any number when it has room for them, and *)
(* hands them out at the other, one at a time.                             *)
(***************************************************************************)
EXTENDS Naturals, Sequences

CONSTANTS Elements, Capacity

VARIABLE queue

Init == queue = <<>>

Put(x) == /\ Len(queue) < Capacity
          /\ queue' = Append(queue, x)

Get == /\ queue # <<>>
       /\ queue' = Tail(queue)

Next == Get \/ \E x \in Elements : Put(x)

Spec == Init /\ [][Next]_queue
============================================================================
