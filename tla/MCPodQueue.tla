----------------------------- MODULE MCPodQueue -----------------------------
(* Elements of the small instance of PodQueue. *)
EXTENDS PodQueue

CONSTANTS e1, e2
=============================================================================
