----------------------------- MODULE MCCortProto -----------------------------
(* Small instances of CortProto: coroutines c1 .. c4, of which c1 and c2    *)
(* execute more statements than the others.                                 *)
EXTENDS CortProto

CONSTANTS c1, c2

MCFuel == [c \in Cort |-> IF c = c1 THEN 3 ELSE IF c = c2 THEN 2 ELSE 1]
=============================================================================
