------------------------------ MODULE PodQueue ------------------------------
(***************************************************************************)
(* cort_pod_queue: a ring of the_size elements that starts at the_begin of *)
(* the array ptr and is reallocated when an element is pushed into a full  *)
(* array.  The names of the specification begin with Queue: a module can   *)
(* extend it together with another one.                                    *)
(***************************************************************************)
EXTENDS Integers, Sequences

CONSTANTS
  Elem,          \* the elements
  Junk,          \* what memory holds that malloc or realloc returned
  InitCapacity,  \* the constructor's argument
  MaxSize        \* bound: an element is pushed below this size only

(* A capacity of 1 would not grow: its half is 0.                          *)
ASSUME QueueAssumption ==
  /\ Junk \notin Elem
  /\ InitCapacity \in Nat /\ InitCapacity >= 2
  /\ MaxSize \in Nat

VARIABLES ptr, the_size, the_capacity, the_begin

queueVars == <<ptr, the_size, the_capacity, the_begin>>

QueueTypeOK ==
  /\ the_capacity \in Nat
  /\ the_capacity >= InitCapacity
  /\ the_size \in 0 .. the_capacity
  /\ the_begin \in 0 .. the_capacity - 1
  /\ ptr \in [0 .. the_capacity - 1 -> Elem \union {Junk}]

QueueInit ==
  /\ the_size = 0
  /\ the_capacity = InitCapacity
  /\ the_begin = 0
  /\ ptr = [i \in 0 .. InitCapacity - 1 |-> Junk]

(* CORT_MOD: branch-free in the code, for an index below twice the capacity. *)
Mod(i, capacity) == IF i >= capacity THEN i - capacity ELSE i

capacity_delta == the_capacity \div 2

(* A reallocation either moves the elements from the_begin on up to the    *)
(* end of the longer array, or copies those before the_begin behind the    *)
(* old end.                                                                *)
Moves == the_begin > capacity_delta

Moved == IF Moves THEN the_begin .. the_capacity - 1 ELSE {}

MCopied == IF Moves THEN {} ELSE 0 .. the_begin - 2
Copied == IF Moves THEN {} ELSE 0 .. the_begin - 1

(* The array after realloc and memcpy, and the first index of the ring.    *)
Grown ==
  [i \in 0 .. the_capacity + capacity_delta - 1 |->
     IF i - capacity_delta \in Moved THEN ptr[i - capacity_delta]
     ELSE IF i - the_capacity \in Copied THEN ptr[i - the_capacity]
     ELSE IF i < the_capacity THEN ptr[i]
     ELSE Junk]

GrownBegin == IF Moves THEN the_begin + capacity_delta ELSE the_begin

(* push() into an array with a free place.                                 *)
PushFree(e) ==
  /\ the_size < the_capacity
  /\ ptr' = [ptr EXCEPT ![Mod(the_begin + the_size, the_capacity)] = e]
  /\ the_size' = the_size + 1
  /\ UNCHANGED <<the_capacity, the_begin>>

(* push() into a full array: it grows by half.                             *)
PushFull(e) ==
  /\ the_size = the_capacity
  /\ the_capacity' = the_capacity + capacity_delta
  /\ the_begin' = GrownBegin
  /\ ptr' = [Grown EXCEPT ![Mod(the_begin' + the_size, the_capacity')] = e]
  /\ the_size' = the_size + 1

Push(e) == the_size < MaxSize /\ (PushFree(e) \/ PushFull(e))

(* The caller has tested empty().                                          *)
Pop ==
  /\ the_size > 0
  /\ the_size' = the_size - 1
  /\ the_begin' = Mod(the_begin + 1, the_capacity)
  /\ UNCHANGED <<ptr, the_capacity>>

QueueNext == (\E e \in Elem : Push(e)) \/ Pop

QueueSpec == QueueInit /\ [][QueueNext]_queueVars

------------------------------------------------------------------------------
(* operator[]                                                              *)
At(offset) == ptr[Mod(the_begin + offset, the_capacity)]

Contents == [i \in 1 .. the_size |-> At(i - 1)]

F == INSTANCE Fifo WITH queue <- Contents

(* No element read is memory that was never written: the two copies of a   *)
(* reallocation leave no hole in the ring (push).                          *)
NoJunk == \A i \in 0 .. the_size - 1 : At(i) # Junk

(* The ring is a first-in first-out queue: wrapping around and growing     *)
(* neither lose, reorder nor duplicate an element (push, pop).             *)
IsFifo == F!Spec
=============================================================================
