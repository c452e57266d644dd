--------------------------- MODULE MCCortChannel ---------------------------
(* Small instances of CortChannel: a channel of objects that everybody       *)
(* pushes to and pops from, and a channel of events with one consumer.       *)
EXTENDS CortChannel

CONSTANTS c1, c2, c3

Everybody == [kind |-> "objects", pushers |-> {c1, c2, c3}, poppers |-> {c1, c2, c3},
              deltas |-> {1}, buffers |-> {0, 1}]
Events == [kind |-> "events", pushers |-> {c1, c2}, poppers |-> {c3},
           deltas |-> {1, 2}, buffers |-> {0, 2}]

MCSettings == {Everybody, Events}
=============================================================================
