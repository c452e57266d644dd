-------------------------------- MODULE Fifo --------------------------------
(***************************************************************************)
(* What cort_pod_queue promises its users, the waiting lists of a channel  *)
(* and the objects of a cort_channel: first in, first out, nothing lost.   *)
(***************************************************************************)
EXTENDS Sequences

CONSTANT Elem
VARIABLE queue

Init == queue = << >>

Push(e) == queue' = Append(queue, e)

(* The caller reads front() before pop().                                  *)
Pop == queue # << >> /\ queue' = Tail(queue)

Next == (\E e \in Elem : Push(e)) \/ Pop

Spec == Init /\ [][Next]_queue
=============================================================================
