--------------------------- MODULE MCTcpConnection ---------------------------
(* The small instances of TcpConnection.  One ctrler that sends and one    *)
(* that receives exercise the buffers; two that move a byte at most, and   *)
(* two connections, exercise the pool.                                   *)
EXTENDS TcpConnection

CONSTANTS t1, t2, c1, c2

MCLoads ==
  { [ctrlers |-> {t1}, bytes |-> 4, reply |-> 0, timed |-> FALSE],
    [ctrlers |-> {t1}, bytes |-> 1, reply |-> 3, timed |-> TRUE],
    [ctrlers |-> {t1, t2}, bytes |-> 1, reply |-> 0, timed |-> FALSE],
    [ctrlers |-> {t1, t2}, bytes |-> 0, reply |-> 1, timed |-> FALSE] }
=============================================================================
