----------------------------- MODULE MCTimerHeap -----------------------------
(* The waiters of the small instances of TimerHeap. *)
EXTENDS TimerHeap, TLC

CONSTANTS w1, w2, w3, w4, w5, w6, w7, w8

Symmetry == Permutations(Waiter)

EachAll == [w \in Waiter |-> Timeouts]

(* One timeout for each waiter. *)
Own ==
  [w \in Waiter |->
     {CASE w = w1 -> 1 [] w = w2 -> 2 [] w = w3 -> 3 [] w = w4 -> 4
        [] w = w5 -> 5 [] w = w6 -> 6 [] w = w7 -> 7 [] w = w8 -> 8}]
=============================================================================
