------------------------------ MODULE MCFdPoll ------------------------------
(* The waiters of the small instances of FdPoll. *)
EXTENDS FdPoll

CONSTANTS f1, f2, f3
=============================================================================
