------------------------------ MODULE MCAwaits -------------------------------
(* Small instances of Awaits: three leaves, two awaiters that execute two    *)
(* await statements each, and two helpers.                                   *)
EXTENDS Awaits
=============================================================================
