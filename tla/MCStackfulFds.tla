--------------------------- MODULE MCStackfulFds ----------------------------
(* Two stackful coroutines, two fds and timeouts of up to 2 ms.            *)
EXTENDS StackfulFds

CONSTANTS a, b, f1, f2
=============================================================================
