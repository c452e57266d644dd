---------------------------- MODULE MCTcpListener ----------------------------
(* Clients, fewer files than clients, and batches of two.                  *)
EXTENDS TcpListener

CONSTANTS c1, c2, c3, c4
=============================================================================
