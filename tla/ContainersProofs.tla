--------------------------- MODULE ContainersProofs ---------------------------
(***************************************************************************)
(* The two containers the library builds itself.  The ring of PodQueue     *)
(* implements the queue of Fifo, for every element set, initial capacity   *)
(* and number of reallocations.  The lists and the heap of TimerHeap agree *)
(* for any waiters and timeouts, and nobody is resumed early.              *)
(***************************************************************************)
EXTENDS PodQueue, TimerHeap, FiniteSetTheorems, SequenceTheorems,
        WellFoundedInduction, TLAPS

------------------------------------------------------------------------------
(* The ring.                                                               *)

Cell == Elem \union {Junk}

(* Half of an integer, rounded down, as a capacity grows by.               *)
LEMMA Half ==
  ASSUME NEW n \in Nat, n >= 2
  PROVE  /\ n \div 2 \in Nat
         /\ n \div 2 >= 1
         /\ 2 * (n \div 2) <= n
         /\ n <= 2 * (n \div 2) + 1
OBVIOUS

(* The ring index of an offset stays inside the array, and different       *)
(* offsets have different indices.                                         *)
LEMMA ModIndex ==
  ASSUME NEW cap \in Nat, NEW b \in 0 .. cap - 1, NEW i \in 0 .. cap - 1,
         NEW j \in 0 .. cap - 1
  PROVE  /\ Mod(b + i, cap) \in 0 .. cap - 1
         /\ Mod(b + i, cap) = Mod(b + j, cap) => i = j
BY DEF Mod

(* The array that a reallocation returns holds, in the ring that starts at *)
(* the new the_begin, the elements of the old ring at the same offsets.    *)
LEMMA GrownRing ==
  ASSUME QueueTypeOK, the_size = the_capacity, QueueAssumption
  PROVE  /\ Grown \in [0 .. the_capacity + capacity_delta - 1 -> Cell]
         /\ GrownBegin \in 0 .. the_capacity + capacity_delta - 1
         /\ \A i \in 0 .. the_size - 1 :
              Grown[Mod(GrownBegin + i, the_capacity + capacity_delta)] = At(i)
<1> DEFINE cap == the_capacity
           delta == capacity_delta
           begin == GrownBegin
           G == Grown
<1>1. /\ cap \in Nat /\ cap >= 2
      /\ the_begin \in 0 .. cap - 1
      /\ ptr \in [0 .. cap - 1 -> Cell]
  BY DEF QueueTypeOK, QueueAssumption, Cell
<1>2. /\ delta \in Nat /\ delta >= 1
      /\ 2 * delta <= cap /\ cap <= 2 * delta + 1
      /\ begin = IF the_begin > delta THEN the_begin + delta ELSE the_begin
  BY <1>1, Half DEF capacity_delta, GrownBegin, Moves
<1>3. begin \in 0 .. cap + delta - 1
  BY <1>1, <1>2
<1>4. G = [k \in 0 .. cap + delta - 1 |->
             IF k - delta \in Moved THEN ptr[k - delta]
             ELSE IF k - cap \in Copied THEN ptr[k - cap]
             ELSE IF k < cap THEN ptr[k] ELSE Junk]
  BY DEF Grown
<1>5. G \in [0 .. cap + delta - 1 -> Cell]
  <2>1. \A k \in 0 .. cap + delta - 1 :
          (IF k - delta \in Moved THEN ptr[k - delta]
           ELSE IF k - cap \in Copied THEN ptr[k - cap]
           ELSE IF k < cap THEN ptr[k] ELSE Junk) \in Cell
    BY <1>1, <1>2 DEF Moved, Moves, Copied, Cell
  <2> QED
    BY <1>4, <2>1
<1>6. ASSUME NEW i \in 0 .. cap - 1
      PROVE  G[Mod(begin + i, cap + delta)] = At(i)
  <2>1. CASE the_begin > delta
    <3>1. CASE the_begin + i < cap
      <4>1. /\ Mod(begin + i, cap + delta) = the_begin + delta + i
            /\ Mod(the_begin + i, cap) = the_begin + i
        BY <1>1, <1>2, <2>1, <3>1 DEF Mod
      <4>2. the_begin + delta + i - delta \in Moved
        BY <1>1, <1>2, <2>1, <3>1 DEF Moved, Moves
      <4>3. G[the_begin + delta + i] = ptr[the_begin + delta + i - delta]
        BY <1>1, <1>2, <1>4, <2>1, <3>1, <4>2
      <4>4. the_begin + delta + i - delta = the_begin + i
        BY <1>1, <1>2
      <4> QED
        BY <4>1, <4>3, <4>4 DEF At
    <3>2. CASE the_begin + i >= cap
      <4> DEFINE k == the_begin + i - cap
      <4>1. /\ Mod(begin + i, cap + delta) = k
            /\ Mod(the_begin + i, cap) = k
        BY <1>1, <1>2, <2>1, <3>2 DEF Mod
      <4>2. /\ k \in 0 .. cap - 1
            /\ k < the_begin
            /\ k - delta \notin Moved
            /\ k - cap \notin Copied
        BY <1>1, <1>2, <2>1, <3>2 DEF Moved, Moves, Copied
      <4>3. G[k] = ptr[k]
        BY <1>1, <1>2, <1>4, <4>2
      <4> QED
        BY <4>1, <4>3 DEF At
    <3> QED
      BY <1>1, <3>1, <3>2
  <2>2. CASE ~(the_begin > delta)
    <3>1. CASE the_begin + i < cap
      <4>1. /\ Mod(begin + i, cap + delta) = the_begin + i
            /\ Mod(the_begin + i, cap) = the_begin + i
        BY <1>1, <1>2, <2>2, <3>1 DEF Mod
      <4>2. /\ the_begin + i - delta \notin Moved
            /\ the_begin + i - cap \notin Copied
        BY <1>1, <2>2, <3>1 DEF Moved, Moves, Copied
      <4>3. G[the_begin + i] = ptr[the_begin + i]
        BY <1>1, <1>2, <1>4, <3>1, <4>2
      <4> QED
        BY <4>1, <4>3 DEF At
    <3>2. CASE the_begin + i >= cap
      <4>1. /\ Mod(begin + i, cap + delta) = the_begin + i
            /\ Mod(the_begin + i, cap) = the_begin + i - cap
        BY <1>1, <1>2, <2>2, <3>2 DEF Mod
      <4>2. /\ the_begin + i - delta \notin Moved
            /\ the_begin + i - cap \in Copied
        BY <1>1, <2>2, <3>2 DEF Moved, Moves, Copied
      <4>3. the_begin + i \in 0 .. cap + delta - 1
        BY <1>1, <1>2, <2>2
      <4>4. G[the_begin + i] = ptr[the_begin + i - cap]
        BY <1>1, <1>2, <1>4, <3>2, <4>2, <4>3
      <4> QED
        BY <4>1, <4>4 DEF At
    <3> QED
      BY <1>1, <3>1, <3>2
  <2> QED
    BY <2>1, <2>2
<1> QED
  BY <1>3, <1>5, <1>6

(* A push keeps the type and appends to the ring.                          *)
LEMMA PushAppends ==
  ASSUME QueueTypeOK, QueueAssumption, NEW e \in Elem, Push(e)
  PROVE  /\ QueueTypeOK'
         /\ the_size' = the_size + 1
         /\ \A i \in 0 .. the_size : At(i)' = IF i < the_size THEN At(i) ELSE e
<1>1. CASE PushFree(e)
  <2> DEFINE k == Mod(the_begin + the_size, the_capacity)
  <2>1. /\ the_capacity \in Nat /\ the_capacity >= 2
        /\ the_size \in 0 .. the_capacity - 1
        /\ the_begin \in 0 .. the_capacity - 1
        /\ ptr \in [0 .. the_capacity - 1 -> Cell]
    BY <1>1 DEF QueueTypeOK, PushFree, QueueAssumption, Cell
  <2>2. k \in 0 .. the_capacity - 1
    BY <2>1, ModIndex
  <2>3. \A i \in 0 .. the_size - 1 :
          /\ Mod(the_begin + i, the_capacity) \in 0 .. the_capacity - 1
          /\ Mod(the_begin + i, the_capacity) # k
    BY <2>1 DEF Mod
  <2>4. /\ ptr' = [ptr EXCEPT ![k] = e]
        /\ the_size' = the_size + 1
        /\ the_capacity' = the_capacity /\ the_begin' = the_begin
    BY <1>1 DEF PushFree
  <2>5. QueueTypeOK'
    <3>1. ptr' \in [0 .. the_capacity - 1 -> Cell]
      BY <2>1, <2>2, <2>4 DEF Cell
    <3> QED
      BY <2>1, <2>4, <3>1 DEF QueueTypeOK, Cell
  <2>6. ASSUME NEW i \in 0 .. the_size
        PROVE  At(i)' = IF i < the_size THEN At(i) ELSE e
    <3>1. At(i)' = ptr'[Mod(the_begin + i, the_capacity)]
      BY <2>4 DEF At
    <3>2. CASE i = the_size
      BY <2>1, <2>2, <2>4, <3>1, <3>2
    <3>3. CASE i # the_size
      <4>1. i \in 0 .. the_size - 1
        BY <2>1, <3>3
      <4> QED
        BY <2>1, <2>2, <2>3, <2>4, <3>1, <4>1 DEF At
    <3> QED
      BY <3>2, <3>3
  <2> QED
    BY <2>4, <2>5, <2>6
<1>2. CASE PushFull(e)
  <2> DEFINE begin == GrownBegin
             cap == the_capacity + capacity_delta
             k == Mod(begin + the_size, cap)
  <2>1. /\ the_capacity \in Nat /\ the_capacity >= 2
        /\ the_size = the_capacity
        /\ capacity_delta \in Nat /\ capacity_delta >= 1
    BY <1>2, Half DEF QueueTypeOK, PushFull, QueueAssumption, capacity_delta
  <2>2. /\ Grown \in [0 .. cap - 1 -> Cell]
        /\ begin \in 0 .. cap - 1
        /\ \A i \in 0 .. the_size - 1 : Grown[Mod(begin + i, cap)] = At(i)
    BY <2>1, GrownRing
  <2>3. cap \in Nat /\ cap > the_capacity
    BY <2>1
  <2>4. /\ ptr' = [Grown EXCEPT ![k] = e]
        /\ the_size' = the_size + 1
        /\ the_begin' = begin /\ the_capacity' = cap
    BY <1>2 DEF PushFull
  <2> HIDE DEF begin, cap
  <2>5. k \in 0 .. cap - 1
    BY <2>1, <2>2, <2>3, ModIndex
  <2>6. \A i \in 0 .. the_size - 1 :
          /\ Mod(begin + i, cap) \in 0 .. cap - 1
          /\ Mod(begin + i, cap) # k
    BY <2>1, <2>2, <2>3 DEF Mod
  <2>7. QueueTypeOK'
    <3>1. ptr' \in [0 .. cap - 1 -> Cell]
      BY <2>2, <2>4, <2>5 DEF Cell
    <3>2. /\ the_capacity >= InitCapacity
          /\ InitCapacity \in Nat
      BY DEF QueueTypeOK, QueueAssumption
    <3> QED
      BY <2>1, <2>2, <2>3, <2>4, <3>1, <3>2 DEF QueueTypeOK, Cell
  <2>8. ASSUME NEW i \in 0 .. the_size
        PROVE  At(i)' = IF i < the_size THEN At(i) ELSE e
    <3>1. At(i)' = ptr'[Mod(begin + i, cap)]
      BY <2>4 DEF At
    <3>2. CASE i = the_size
      BY <2>1, <2>2, <2>4, <2>5, <3>1, <3>2
    <3>3. CASE i # the_size
      <4>1. i \in 0 .. the_size - 1 /\ i < the_size
        BY <2>1, <3>3
      <4> QED
        BY <2>2, <2>4, <2>5, <2>6, <3>1, <4>1
    <3> QED
      BY <3>2, <3>3
  <2> QED
    BY <2>4, <2>7, <2>8
<1> QED
  BY <1>1, <1>2 DEF Push

(* A pop keeps the type and removes the first element of the ring.         *)
LEMMA PopRemoves ==
  ASSUME QueueTypeOK, QueueAssumption, Pop
  PROVE  /\ QueueTypeOK'
         /\ the_size > 0
         /\ the_size' = the_size - 1
         /\ \A i \in 0 .. the_size' - 1 : At(i)' = At(i + 1)
<1>1. /\ the_capacity \in Nat /\ the_capacity >= 2
      /\ the_size \in 1 .. the_capacity
      /\ the_begin \in 0 .. the_capacity - 1
  BY DEF QueueTypeOK, Pop, QueueAssumption
<1>2. /\ the_size' = the_size - 1
      /\ the_begin' = Mod(the_begin + 1, the_capacity)
      /\ ptr' = ptr /\ the_capacity' = the_capacity
  BY DEF Pop
<1>3. the_begin' \in 0 .. the_capacity - 1
  BY <1>1, <1>2 DEF Mod
<1>4. QueueTypeOK'
  BY <1>1, <1>2, <1>3 DEF QueueTypeOK
<1>5. ASSUME NEW i \in 0 .. the_size - 2
      PROVE  At(i)' = At(i + 1)
  <2>1. Mod(the_begin' + i, the_capacity) = Mod(the_begin + (i + 1), the_capacity)
    BY <1>1, <1>2 DEF Mod
  <2> QED
    BY <1>2, <2>1 DEF At
<1> QED
  BY <1>1, <1>2, <1>4, <1>5

------------------------------------------------------------------------------
QueueInv == QueueTypeOK /\ NoJunk

LEMMA InitIInv ==
  ASSUME QueueAssumption, QueueInit
  PROVE  QueueInv
BY DEF QueueAssumption, QueueInit, QueueInv, QueueTypeOK, NoJunk

LEMMA NextIInv ==
  ASSUME QueueAssumption, QueueInv, [QueueNext]_queueVars
  PROVE  QueueInv'
<1>0. QueueTypeOK /\ NoJunk /\ the_size \in Nat
  BY DEF QueueInv, QueueTypeOK, QueueAssumption
<1>1. ASSUME NEW e \in Elem, Push(e)
      PROVE  QueueInv'
  <2>1. /\ QueueTypeOK'
        /\ the_size' = the_size + 1
        /\ \A i \in 0 .. the_size : At(i)' = IF i < the_size THEN At(i) ELSE e
    BY <1>0, <1>1, PushAppends
  <2>2. \A i \in 0 .. the_size - 1 : At(i) # Junk
    BY <1>0 DEF NoJunk
  <2>3. e # Junk
    BY DEF QueueAssumption
  <2>4. ASSUME NEW i \in 0 .. the_size' - 1
        PROVE  At(i)' # Junk
    <3>1. i \in 0 .. the_size /\ (i < the_size => i \in 0 .. the_size - 1)
      BY <1>0, <2>1
    <3> QED
      BY <2>1, <2>2, <2>3, <3>1
  <2> QED
    BY <2>1, <2>4 DEF QueueInv, NoJunk
<1>2. ASSUME Pop
      PROVE  QueueInv'
  <2>1. /\ QueueTypeOK'
        /\ the_size > 0
        /\ the_size' = the_size - 1
        /\ \A i \in 0 .. the_size' - 1 : At(i)' = At(i + 1)
    BY <1>0, <1>2, PopRemoves
  <2>2. \A i \in 0 .. the_size' - 1 : At(i)' # Junk
    BY <1>0, <2>1 DEF NoJunk
  <2> QED
    BY <2>1, <2>2 DEF QueueInv, NoJunk
<1>3. ASSUME UNCHANGED queueVars
      PROVE  QueueInv'
  BY <1>0, <1>3 DEF queueVars, QueueInv, QueueTypeOK, NoJunk, At
<1> QED
  BY <1>1, <1>2, <1>3 DEF QueueNext

(* The indices stay inside the array, and no element of the queue is       *)
(* uninitialized memory, in every reachable state.                         *)
THEOREM QueueInvariant == QueueSpec => [](QueueTypeOK /\ NoJunk)
<1>1. QueueInit => QueueInv
  BY InitIInv, QueueAssumption
<1>2. QueueInv /\ [QueueNext]_queueVars => QueueInv'
  BY NextIInv, QueueAssumption
<1>3. QueueInv => QueueTypeOK /\ NoJunk
  BY DEF QueueInv
<1> QED
  BY <1>1, <1>2, <1>3, PTL DEF QueueSpec

------------------------------------------------------------------------------
(* The contents of a ring in a legal state are a sequence.                 *)
LEMMA ContentsSeq ==
  ASSUME QueueTypeOK, QueueAssumption
  PROVE  /\ Contents \in Seq(Cell)
         /\ Len(Contents) = the_size
         /\ \A i \in 1 .. the_size : Contents[i] = At(i - 1)
<1>1. /\ the_capacity \in Nat
      /\ the_size \in 0 .. the_capacity
      /\ the_begin \in 0 .. the_capacity - 1
      /\ ptr \in [0 .. the_capacity - 1 -> Cell]
  BY DEF QueueTypeOK, QueueAssumption, Cell
<1>2. \A i \in 1 .. the_size : At(i - 1) \in Cell
  <2> SUFFICES ASSUME NEW i \in 1 .. the_size
               PROVE  At(i - 1) \in Cell
    OBVIOUS
  <2>1. Mod(the_begin + (i - 1), the_capacity) \in 0 .. the_capacity - 1
    BY <1>1 DEF Mod
  <2> QED
    BY <1>1, <2>1 DEF At
<1>3. Contents \in [1 .. the_size -> Cell]
  BY <1>2 DEF Contents
<1> QED
  BY <1>1, <1>3 DEF Contents

LEMMA PushRefines ==
  ASSUME QueueAssumption, QueueTypeOK, NEW e \in Elem, Push(e)
  PROVE  Contents' = Append(Contents, e)
<1>1. /\ QueueTypeOK'
      /\ the_size' = the_size + 1
      /\ \A i \in 0 .. the_size : At(i)' = IF i < the_size THEN At(i) ELSE e
  BY PushAppends
<1>2. /\ Contents \in Seq(Cell)
      /\ Len(Contents) = the_size
      /\ \A i \in 1 .. the_size : Contents[i] = At(i - 1)
  BY ContentsSeq
<1>3. the_size \in Nat /\ e \in Cell
  BY DEF QueueTypeOK, QueueAssumption, Cell
<1>4. Contents' = [i \in 1 .. the_size + 1 |-> At(i - 1)']
  BY <1>1 DEF Contents, At
<1>5. /\ Append(Contents, e) \in Seq(Cell)
      /\ Len(Append(Contents, e)) = the_size + 1
      /\ \A i \in 1 .. the_size : Append(Contents, e)[i] = Contents[i]
      /\ Append(Contents, e)[the_size + 1] = e
  BY <1>2, <1>3, AppendProperties
<1>6. \A i \in 1 .. the_size + 1 : At(i - 1)' = Append(Contents, e)[i]
  <2> SUFFICES ASSUME NEW i \in 1 .. the_size + 1
               PROVE  At(i - 1)' = Append(Contents, e)[i]
    OBVIOUS
  <2>1. i - 1 \in 0 .. the_size
    BY <1>3
  <2>2. At(i - 1)' = IF i - 1 < the_size THEN At(i - 1) ELSE e
    BY <1>1, <2>1
  <2>3. CASE i = the_size + 1
    BY <1>3, <1>5, <2>2, <2>3
  <2>4. CASE i # the_size + 1
    <3>1. i \in 1 .. the_size /\ i - 1 < the_size
      BY <1>3, <2>4
    <3> QED
      BY <1>2, <1>5, <2>2, <3>1
  <2> QED
    BY <2>3, <2>4
<1>7. Append(Contents, e) = [i \in 1 .. the_size + 1 |-> Append(Contents, e)[i]]
  BY <1>3, <1>5, LenProperties
<1> QED
  BY <1>4, <1>6, <1>7

LEMMA PopRefines ==
  ASSUME QueueAssumption, QueueTypeOK, Pop
  PROVE  Contents # << >> /\ Contents' = Tail(Contents)
<1>1. /\ QueueTypeOK'
      /\ the_size > 0
      /\ the_size' = the_size - 1
      /\ \A i \in 0 .. the_size' - 1 : At(i)' = At(i + 1)
  BY PopRemoves
<1>2. /\ Contents \in Seq(Cell)
      /\ Len(Contents) = the_size
      /\ \A i \in 1 .. the_size : Contents[i] = At(i - 1)
  BY ContentsSeq
<1>3. the_size \in Nat
  BY DEF QueueTypeOK, QueueAssumption
<1>4. Contents' = [i \in 1 .. the_size - 1 |-> At(i - 1)']
  BY <1>1 DEF Contents, At
<1>5. Contents # << >>
  BY <1>1, <1>2, <1>3
<1>6. /\ Tail(Contents) \in Seq(Cell)
      /\ Len(Tail(Contents)) = the_size - 1
      /\ \A i \in 1 .. the_size - 1 : Tail(Contents)[i] = Contents[i + 1]
  BY <1>2, <1>5, HeadTailProperties
<1>7. \A i \in 1 .. the_size - 1 : At(i - 1)' = Tail(Contents)[i]
  <2> SUFFICES ASSUME NEW i \in 1 .. the_size - 1
               PROVE  At(i - 1)' = Tail(Contents)[i]
    OBVIOUS
  <2>1. /\ i - 1 \in 0 .. the_size' - 1
        /\ i + 1 \in 1 .. the_size
        /\ (i - 1) + 1 = i /\ (i + 1) - 1 = i
    BY <1>1, <1>3
  <2>2. At(i - 1)' = At(i)
    BY <1>1, <2>1
  <2>3. Contents[i + 1] = At(i)
    BY <1>2, <2>1
  <2> QED
    BY <1>6, <2>2, <2>3
<1>8. Tail(Contents) = [i \in 1 .. the_size - 1 |-> Tail(Contents)[i]]
  BY <1>3, <1>6, LenProperties
<1> QED
  BY <1>4, <1>5, <1>7, <1>8

(* The ring buffer implements the first-in first-out queue.                *)
THEOREM RingIsFifo == QueueSpec => IsFifo
<1>1. QueueInit => F!Init
  BY QueueAssumption DEF QueueInit, F!Init, Contents
<1>2. QueueTypeOK /\ [QueueNext]_queueVars => [F!Next]_Contents
  <2> SUFFICES ASSUME QueueTypeOK, [QueueNext]_queueVars
               PROVE  F!Next \/ Contents' = Contents
    OBVIOUS
  <2>1. CASE \E e \in Elem : Push(e)
    BY <2>1, QueueAssumption, PushRefines DEF F!Next, F!Push
  <2>2. CASE Pop
    BY <2>2, QueueAssumption, PopRefines DEF F!Next, F!Pop
  <2>3. CASE UNCHANGED queueVars
    BY <2>3 DEF queueVars, Contents, At
  <2> QED
    BY <2>1, <2>2, <2>3 DEF QueueNext
<1>3. QueueSpec => []QueueTypeOK
  BY QueueInvariant, PTL
<1> QED
  BY <1>1, <1>2, <1>3, PTL DEF QueueSpec, IsFifo, F!Spec
------------------------------------------------------------------------------
(* Walks: what is met from an index on, when those in Q go on to c[i], and *)
(* r falls with every step.                                                *)

(* A set of indices has a least one.                                       *)
LEMMA LeastIndex ==
  ASSUME NEW I \in SUBSET Nat, I # {}
  PROVE  \E i \in I : \A j \in I : i <= j
<1> DEFINE R == OpToRel(<, Nat)
<1>1. PICK i \in I : \A j \in I : ~ (<<j, i>> \in R)
  BY NatLessThanWellFounded, WFMin
<1>2. R = {ss \in Nat \X Nat : ss[1] < ss[2]}
  BY DEF OpToRel
<1>3. \A j \in I : ~ (j < i)
  BY <1>1, <1>2
<1> QED
  BY <1>3

(* A set that has 0 and with a number the next one has them all.           *)
LEMMA SetInduction ==
  ASSUME NEW S, 0 \in S, \A n \in Nat : n \in S => n + 1 \in S
  PROVE  Nat \subseteq S
<1> SUFFICES ASSUME NEW m \in Nat, m \notin S
             PROVE  FALSE
  OBVIOUS
<1>1. PICK i \in Nat \ S : \A j \in Nat \ S : i <= j
  BY LeastIndex
<1>2. i - 1 \in Nat /\ ~ (i <= i - 1) /\ (i - 1) + 1 = i
  OBVIOUS
<1>3. i - 1 \in S
  BY <1>1, <1>2
<1> QED
  BY <1>2, <1>3

(* A step of a walk over 0 .. N.                                           *)
Going(N, Q, c, r) ==
  /\ Q \subseteq 0 .. N
  /\ r \in [0 .. N -> 0 .. N]
  /\ \A i \in Q : c[i] \in 0 .. N /\ r[c[i]] < r[i]

Walks(N, Q, c, f) == f = [i \in 0 .. N |-> IF i \in Q THEN <<i>> \o f[c[i]] ELSE <<i>>]

(* The path from i: it starts there, goes where c goes, and r falls.       *)
PathFrom(s, N, Q, c, r, i) ==
  /\ s \in Seq(0 .. N) /\ Len(s) \in Nat /\ Len(s) >= 1
  /\ s[1] = i
  /\ \A k \in 2 .. Len(s) : \E q \in Q : s[k] = c[q]
  /\ \A j, k \in 1 .. Len(s) : j < k => r[s[k]] < r[s[j]]

LEMMA PathEnds ==
  ASSUME NEW N \in Nat, NEW Q, NEW c, NEW r, NEW i \in 0 .. N
  PROVE  PathFrom(<<i>>, N, Q, c, r, i)
<1>1. <<i>> \in Seq(0 .. N) /\ Len(<<i>>) = 1 /\ <<i>>[1] = i
  OBVIOUS
<1> QED
  BY <1>1 DEF PathFrom

LEMMA PathGoesOn ==
  ASSUME NEW N \in Nat, NEW Q, NEW c, NEW r, Going(N, Q, c, r), NEW i \in Q,
         NEW s, PathFrom(s, N, Q, c, r, c[i])
  PROVE  PathFrom(<<i>> \o s, N, Q, c, r, i)
<1>1. /\ s \in Seq(0 .. N) /\ Len(s) \in Nat /\ Len(s) >= 1 /\ s[1] = c[i]
      /\ \A k \in 2 .. Len(s) : \E q \in Q : s[k] = c[q]
      /\ \A j, k \in 1 .. Len(s) : j < k => r[s[k]] < r[s[j]]
  BY DEF PathFrom
<1>2. /\ i \in 0 .. N /\ c[i] \in 0 .. N /\ r[c[i]] < r[i]
      /\ \A k \in 0 .. N : r[k] \in Nat
  BY DEF Going
<1> DEFINE t == <<i>> \o s
<1>3. /\ t \in Seq(0 .. N) /\ Len(t) = 1 + Len(s) /\ t[1] = i
      /\ \A k \in 2 .. 1 + Len(s) : t[k] = s[k - 1]
  <2>1. <<i>> \in Seq(0 .. N) /\ Len(<<i>>) = 1 /\ <<i>>[1] = i
    BY <1>2
  <2> QED
    BY <1>1, <2>1
<1>4. \A k \in 1 .. Len(s) : s[k] \in 0 .. N /\ r[s[k]] \in Nat
  BY <1>1, <1>2
<1>5. \A k \in 1 .. Len(s) : r[s[k]] < r[i]
  <2> TAKE k \in 1 .. Len(s)
  <2>1. CASE k = 1
    BY <1>1, <1>2, <2>1
  <2>2. CASE k # 1
    <3>1. 1 \in 1 .. Len(s) /\ 1 < k
      BY <1>1, <2>2
    <3>2. r[s[k]] < r[s[1]]
      BY <1>1, <3>1
    <3> QED
      BY <1>1, <1>2, <1>4, <3>2
  <2> QED
    BY <2>1, <2>2
<1> HIDE DEF t
<1>6. \A k \in 2 .. Len(t) : \E q \in Q : t[k] = c[q]
  <2> TAKE k \in 2 .. Len(t)
  <2>1. t[k] = s[k - 1] /\ k - 1 \in 1 .. Len(s)
    BY <1>1, <1>3
  <2>2. CASE k - 1 = 1
    BY <1>1, <2>1, <2>2
  <2>3. CASE k - 1 # 1
    BY <1>1, <2>1, <2>3
  <2> QED
    BY <2>2, <2>3
<1>7. \A j, k \in 1 .. Len(t) : j < k => r[t[k]] < r[t[j]]
  <2> SUFFICES ASSUME NEW j \in 1 .. Len(t), NEW k \in 1 .. Len(t), j < k
               PROVE  r[t[k]] < r[t[j]]
    OBVIOUS
  <2>1. t[k] = s[k - 1] /\ k - 1 \in 1 .. Len(s)
    BY <1>1, <1>3
  <2>2. CASE j = 1
    BY <1>3, <1>5, <2>1, <2>2
  <2>3. CASE j # 1
    <3>1. j \in 2 .. 1 + Len(s)
      BY <1>1, <1>3, <2>3
    <3>2. t[j] = s[j - 1]
      BY ONLY <1>3, <3>1
    <3>3. j - 1 \in 1 .. Len(s)
      BY ONLY <1>1, <3>1
    <3>4. t[j] = s[j - 1] /\ j - 1 \in 1 .. Len(s) /\ j - 1 < k - 1
      BY <2>1, <3>2, <3>3, <1>1
    <3>5. r[s[k - 1]] < r[s[j - 1]]
      BY <1>1, <2>1, <3>4
    <3> QED
      BY <2>1, <3>4, <3>5
  <2> QED
    BY <2>2, <2>3
<1> QED
  BY <1>1, <1>3, <1>6, <1>7 DEF PathFrom, t

(* Such a recursive function exists.                                       *)
LEMMA WalkExists ==
  ASSUME NEW N \in Nat, NEW Q, NEW c, NEW r, Going(N, Q, c, r)
  PROVE  \E f : Walks(N, Q, c, f)
<1> DEFINE Next1(f, i) == IF i \in Q THEN <<i>> \o f[c[i]] ELSE <<i>>
           Upto(f, n) == \A i \in 0 .. N : r[i] <= n => f[i] = Next1(f, i)
           S == {n \in Nat : \E f : Upto(f, n)}
<1>1. /\ \A i \in 0 .. N : r[i] \in 0 .. N
      /\ \A i \in Q : i \in 0 .. N /\ c[i] \in 0 .. N /\ r[c[i]] < r[i]
  BY DEF Going
<1>2. 0 \in S
  <2> DEFINE f == [i \in 0 .. N |-> <<i>>]
  <2>1. \A i \in 0 .. N : r[i] <= 0 => i \notin Q
    BY <1>1
  <2>2. Upto(f, 0)
    BY <2>1
  <2> QED
    BY <2>2
<1>3. ASSUME NEW n \in Nat, n \in S PROVE n + 1 \in S
  <2>1. PICK f : Upto(f, n)
    BY <1>3
  <2> DEFINE g == [i \in 0 .. N |-> IF r[i] <= n THEN f[i] ELSE Next1(f, i)]
  <2>2. ASSUME NEW i \in 0 .. N, r[i] <= n + 1 PROVE g[i] = Next1(g, i)
    <3>1. i \in Q => g[c[i]] = f[c[i]]
      <4> SUFFICES ASSUME i \in Q PROVE g[c[i]] = f[c[i]]
        OBVIOUS
      <4>1. c[i] \in 0 .. N /\ r[c[i]] \in Nat /\ r[c[i]] < r[i] /\ r[i] \in Nat
        BY <1>1
      <4>2. r[c[i]] <= n
        BY <2>2, <4>1
      <4> QED
        BY <4>1, <4>2
    <3>2. g[i] = Next1(f, i)
      BY <2>1
    <3> QED
      BY <3>1, <3>2
  <2> HIDE DEF g
  <2>3. Upto(g, n + 1)
    BY <2>2
  <2> QED
    BY <2>3
<1> HIDE DEF S
<1>4. Nat \subseteq S
  BY <1>2, <1>3, SetInduction
<1>5. N \in S
  BY <1>4
<1>6. PICK f : Upto(f, N)
  BY <1>5 DEF S
<1> DEFINE g == [i \in 0 .. N |-> Next1(f, i)]
<1>7. \A i \in 0 .. N : g[i] = f[i]
  <2>1. \A i \in 0 .. N : r[i] <= N
    BY <1>1
  <2>2. \A i \in 0 .. N : f[i] = Next1(f, i)
    BY <1>6, <2>1
  <2> QED
    BY <2>2
<1>8. \A i \in Q : g[c[i]] = f[c[i]]
  BY <1>1, <1>7
<1>9. g = [i \in 0 .. N |-> Next1(g, i)]
  BY <1>8
<1> QED
  BY <1>9 DEF Walks

(* It gives the path from each index.                                      *)
LEMMA WalkIsPath ==
  ASSUME NEW N \in Nat, NEW Q, NEW c, NEW r, Going(N, Q, c, r), NEW f, Walks(N, Q, c, f)
  PROVE  \A i \in 0 .. N : PathFrom(f[i], N, Q, c, r, i)
<1> DEFINE S == {n \in Nat : \A i \in 0 .. N : r[i] <= n => PathFrom(f[i], N, Q, c, r, i)}
<1>1. /\ \A i \in 0 .. N : r[i] \in 0 .. N
      /\ \A i \in Q : i \in 0 .. N /\ c[i] \in 0 .. N /\ r[c[i]] < r[i]
  BY DEF Going
<1>2. \A i \in 0 .. N : f[i] = IF i \in Q THEN <<i>> \o f[c[i]] ELSE <<i>>
  BY DEF Walks
<1>3. ASSUME NEW i \in 0 .. N, i \notin Q PROVE PathFrom(f[i], N, Q, c, r, i)
  BY <1>2, <1>3, PathEnds
<1>4. ASSUME NEW i \in Q, PathFrom(f[c[i]], N, Q, c, r, c[i]) PROVE PathFrom(f[i], N, Q, c, r, i)
  <2>1. f[i] = <<i>> \o f[c[i]]
    BY <1>1, <1>2
  <2>2. PathFrom(<<i>> \o f[c[i]], N, Q, c, r, i)
    BY <1>4, PathGoesOn
  <2> QED
    BY <2>1, <2>2
<1>5. 0 \in S
  <2>1. \A i \in 0 .. N : r[i] <= 0 => i \notin Q
    BY <1>1
  <2> QED
    BY <1>3, <2>1
<1>6. ASSUME NEW n \in Nat, n \in S PROVE n + 1 \in S
  <2> SUFFICES ASSUME NEW i \in 0 .. N, r[i] <= n + 1 PROVE PathFrom(f[i], N, Q, c, r, i)
    OBVIOUS
  <2>1. CASE i \in Q
    <3>1. c[i] \in 0 .. N /\ r[c[i]] \in Nat /\ r[c[i]] < r[i] /\ r[i] \in Nat
      BY <1>1, <2>1
    <3>2. r[c[i]] <= n
      BY <3>1
    <3>3. PathFrom(f[c[i]], N, Q, c, r, c[i])
      BY <1>6, <3>1, <3>2
    <3> QED
      BY <1>4, <2>1, <3>3
  <2>2. CASE i \notin Q
    BY <1>3, <2>2
  <2> QED
    BY <2>1, <2>2
<1> HIDE DEF S
<1>7. N \in S
  BY <1>5, <1>6, SetInduction
<1> QED
  BY <1>1, <1>7 DEF S

------------------------------------------------------------------------------
(* Moving the elements along a path: each index but the last gets the      *)
(* element of the next one, the last gets that of the first.               *)

Shift(h, s, m) ==
  [i \in DOMAIN h |->
     IF i = s[m] THEN h[s[1]]
     ELSE IF \E k \in 1 .. m - 1 : s[k] = i
       THEN h[s[(CHOOSE k \in 1 .. m - 1 : s[k] = i) + 1]]
     ELSE h[i]]

(* h has each element of E exactly once on D.                              *)
Once(h, D, E) ==
  /\ D \subseteq DOMAIN h
  /\ \A i, j \in D : h[i] = h[j] => i = j
  /\ {h[i] : i \in D} = E

LEMMA ShiftKeeps ==
  ASSUME NEW h, NEW D, NEW E, Once(h, D, E), NEW s, NEW m \in Nat, m >= 1,
         \A k \in 1 .. m : s[k] \in D,
         \A j, k \in 1 .. m : s[j] = s[k] => j = k
  PROVE  Once(Shift(h, s, m), D, E) /\ DOMAIN Shift(h, s, m) = DOMAIN h
<1> DEFINE g == Shift(h, s, m)
           p(i) == IF i = s[m] THEN s[1]
                   ELSE IF \E k \in 1 .. m - 1 : s[k] = i
                     THEN s[(CHOOSE k \in 1 .. m - 1 : s[k] = i) + 1]
                   ELSE i
<1>1. /\ D \subseteq DOMAIN h /\ \A i, j \in D : h[i] = h[j] => i = j
      /\ {h[i] : i \in D} = E
  BY DEF Once
<1>2. \A i \in DOMAIN h : g[i] = h[p(i)]
  BY DEF Shift
<1>3. p(s[m]) = s[1] /\ m \in 1 .. m /\ 1 \in 1 .. m
  OBVIOUS
<1>4. ASSUME NEW k \in 1 .. m - 1
      PROVE  k \in 1 .. m /\ k + 1 \in 1 .. m /\ p(s[k]) = s[k + 1]
  <2>1. k \in 1 .. m /\ k + 1 \in 1 .. m /\ m \in 1 .. m /\ k # m
    OBVIOUS
  <2>2. s[k] # s[m]
    BY <2>1
  <2>3. \A j \in 1 .. m - 1 : s[j] = s[k] => j = k
    <3>1. \A j \in 1 .. m - 1 : j \in 1 .. m
      OBVIOUS
    <3> QED
      BY <2>1, <3>1
  <2>4. (CHOOSE j \in 1 .. m - 1 : s[j] = s[k]) = k
    BY <2>3
  <2> QED
    BY <2>1, <2>2, <2>4
<1>5. ASSUME NEW i, \A k \in 1 .. m : s[k] # i PROVE p(i) = i
  <2>1. i # s[m]
    BY <1>3, <1>5
  <2>2. ~ \E k \in 1 .. m - 1 : s[k] = i
    BY <1>4, <1>5
  <2> QED
    BY <2>1, <2>2
<1> HIDE DEF p
<1>6. \A k \in 1 .. m : k = m \/ k \in 1 .. m - 1
  OBVIOUS
<1>7. \A i \in D : p(i) \in D
  <2> TAKE i \in D
  <2>1. CASE \A k \in 1 .. m : s[k] # i
    BY <1>5, <2>1
  <2>2. CASE \E k \in 1 .. m : s[k] = i
    BY <1>3, <1>4, <1>6, <2>2
  <2> QED
    BY <2>1, <2>2
<1>8. \A k \in 1 .. m : \E j \in 1 .. m : p(s[k]) = s[j] /\ j = IF k = m THEN 1 ELSE k + 1
  BY <1>3, <1>4, <1>6
<1>9. ASSUME NEW i \in D, NEW j \in D, p(i) = p(j) PROVE i = j
  <2>1. CASE /\ \A k \in 1 .. m : s[k] # i
             /\ \A k \in 1 .. m : s[k] # j
    BY <1>5, <1>9, <2>1
  <2>2. CASE /\ \E k \in 1 .. m : s[k] = i
             /\ \A k \in 1 .. m : s[k] # j
    BY <1>5, <1>8, <1>9, <2>2
  <2>3. CASE /\ \A k \in 1 .. m : s[k] # i
             /\ \E k \in 1 .. m : s[k] = j
    BY <1>5, <1>8, <1>9, <2>3
  <2>4. CASE /\ \E k \in 1 .. m : s[k] = i
             /\ \E k \in 1 .. m : s[k] = j
    <3>1. PICK k \in 1 .. m, l \in 1 .. m : s[k] = i /\ s[l] = j
      BY <2>4
    <3>2. PICK k2 \in 1 .. m : p(i) = s[k2] /\ k2 = IF k = m THEN 1 ELSE k + 1
      BY <1>8, <3>1
    <3>3. PICK l2 \in 1 .. m : p(j) = s[l2] /\ l2 = IF l = m THEN 1 ELSE l + 1
      BY <1>8, <3>1
    <3>4. k2 = l2
      BY <1>9, <3>2, <3>3
    <3>5. k = l
      BY <3>2, <3>3, <3>4
    <3> QED
      BY <3>1, <3>5
  <2> QED
    BY <2>1, <2>2, <2>3, <2>4
<1>10. ASSUME NEW x \in D PROVE \E i \in D : p(i) = x
  <2>1. CASE \A k \in 1 .. m : s[k] # x
    BY <1>5, <2>1
  <2>2. ASSUME NEW k \in 1 .. m, s[k] = x PROVE \E i \in D : p(i) = x
    <3>1. CASE k = 1
      BY <1>3, <2>2, <3>1
    <3>2. CASE k # 1
      <4>1. k - 1 \in 1 .. m - 1 /\ (k - 1) + 1 = k
        BY <3>2
      <4>2. p(s[k - 1]) = x /\ s[k - 1] \in D
        BY <1>4, <2>2, <4>1
      <4> QED
        BY <4>2
    <3> QED
      BY <3>1, <3>2
  <2> QED
    BY <2>1, <2>2
<1>11. DOMAIN g = DOMAIN h
  BY DEF Shift
<1>12. \A i \in D : g[i] = h[p(i)]
  BY <1>1, <1>2
<1> HIDE DEF g
<1>13. \A i, j \in D : g[i] = g[j] => i = j
  BY <1>1, <1>7, <1>9, <1>12
<1>14. {g[i] : i \in D} = E
  BY <1>1, <1>7, <1>10, <1>12
<1>15. Once(g, D, E)
  BY <1>1, <1>11, <1>13, <1>14 DEF Once
<1> QED
  BY <1>11, <1>15 DEF g

------------------------------------------------------------------------------
(* up_update_heap and down_update_heap only move elements along a path.    *)

LEMMA UpPathIs ==
  ASSUME NEW pos \in Nat
  PROVE  LET path == UpPath(pos) IN
         /\ Len(path) \in Nat /\ Len(path) >= 1 /\ path[1] = pos
         /\ \A k \in 1 .. Len(path) : path[k] \in 0 .. pos
         /\ \A j, k \in 1 .. Len(path) : path[j] = path[k] => j = k
<1> DEFINE Q == 1 .. pos
           c == [p \in Q |-> p \div 2]
           r == [p \in 0 .. pos |-> p]
           f == CHOOSE f : f = [p \in 0 .. pos |-> IF p = 0 THEN <<0>> ELSE <<p>> \o f[p \div 2]]
<1>1. UpPath(pos) = f[pos]
  BY DEF UpPath
<1>2. Going(pos, Q, c, r)
  <2>1. \A p \in Q : c[p] \in 0 .. pos /\ c[p] < p
    OBVIOUS
  <2> QED
    BY <2>1 DEF Going
<1>3. \A g : Walks(pos, Q, c, g) <=>
             g = [p \in 0 .. pos |-> IF p = 0 THEN <<0>> ELSE <<p>> \o g[p \div 2]]
  <2> TAKE g
  <2>1. \A p \in 0 .. pos : (IF p \in Q THEN <<p>> \o g[c[p]] ELSE <<p>>) =
                            (IF p = 0 THEN <<0>> ELSE <<p>> \o g[p \div 2])
    OBVIOUS
  <2>2. [p \in 0 .. pos |-> IF p \in Q THEN <<p>> \o g[c[p]] ELSE <<p>>] =
        [p \in 0 .. pos |-> IF p = 0 THEN <<0>> ELSE <<p>> \o g[p \div 2]]
    BY <2>1
  <2> QED
    BY <2>2 DEF Walks
<1>4. Walks(pos, Q, c, f)
  <2>1. \E g : g = [p \in 0 .. pos |-> IF p = 0 THEN <<0>> ELSE <<p>> \o g[p \div 2]]
    BY <1>2, <1>3, WalkExists
  <2>2. f = [p \in 0 .. pos |-> IF p = 0 THEN <<0>> ELSE <<p>> \o f[p \div 2]]
    BY <2>1
  <2> QED
    BY <1>3, <2>2
<1> HIDE DEF f
<1>5. PathFrom(f[pos], pos, Q, c, r, pos)
  BY <1>2, <1>4, WalkIsPath
<1> DEFINE path == f[pos]
<1>6. /\ path \in Seq(0 .. pos) /\ Len(path) \in Nat /\ Len(path) >= 1 /\ path[1] = pos
      /\ \A j, k \in 1 .. Len(path) : j < k => r[path[k]] < r[path[j]]
  BY <1>5 DEF PathFrom
<1> HIDE DEF path
<1>7. \A k \in 1 .. Len(path) : path[k] \in 0 .. pos /\ r[path[k]] = path[k]
  BY <1>6
<1> HIDE DEF r
<1>8. \A j, k \in 1 .. Len(path) : path[j] = path[k] => j = k
  <2> TAKE j, k \in 1 .. Len(path)
  <2>1. CASE j < k
    <3>1. path[k] < path[j] /\ path[j] \in Nat /\ path[k] \in Nat
      BY <1>6, <1>7, <2>1
    <3> QED
      BY <3>1
  <2>2. CASE k < j
    <3>1. path[j] < path[k] /\ path[j] \in Nat /\ path[k] \in Nat
      BY <1>6, <1>7, <2>2
    <3> QED
      BY <3>1
  <2> QED
    BY <1>6, <2>1, <2>2
<1> QED
  BY <1>1, <1>6, <1>7, <1>8 DEF path

(* The elements that up_update_heap moves, and where to.                   *)
LEMMA UpKeeps ==
  ASSUME NEW n \in Nat, NEW h, NEW E, Once(h, 0 .. n, E), NEW key,
         \A e \in E : key[e] \in Nat, NEW pos \in 0 .. n
  PROVE  Once(Up(h, key, pos), 0 .. n, E) /\ DOMAIN Up(h, key, pos) = DOMAIN h
<1> DEFINE path == UpPath(pos)
           me == h[pos]
           Stops(m) == /\ \A k \in 2 .. m : key[me] < key[h[path[k]]]
                       /\ m < Len(path) => key[me] >= key[h[path[m + 1]]]
           stop == CHOOSE m \in 1 .. Len(path) : Stops(m)
           I == {m \in 1 .. Len(path) :
                   m < Len(path) => ~ (key[me] < key[h[path[m + 1]]])}
<1>1. /\ Len(path) \in Nat /\ Len(path) >= 1 /\ path[1] = pos
      /\ \A k \in 1 .. Len(path) : path[k] \in 0 .. pos
      /\ \A j, k \in 1 .. Len(path) : path[j] = path[k] => j = k
  <2>1. pos \in Nat
    OBVIOUS
  <2> HIDE DEF path
  <2> QED
    BY <2>1, UpPathIs DEF path
<1>2. Up(h, key, pos) =
        [i \in DOMAIN h |->
           IF i = path[stop] THEN me
           ELSE IF \E k \in 1 .. stop - 1 : path[k] = i
             THEN h[path[(CHOOSE k \in 1 .. stop - 1 : path[k] = i) + 1]]
           ELSE h[i]]
  BY DEF Up
<1> HIDE DEF path
<1>3. \A k \in 1 .. Len(path) : path[k] \in 0 .. n /\ key[h[path[k]]] \in Nat
  BY <1>1 DEF Once
<1>4. \E m \in 1 .. Len(path) : Stops(m)
  <2>1. I \in SUBSET Nat /\ Len(path) \in I
    BY <1>1
  <2>2. PICK m \in I : \A j \in I : m <= j
    <3> HIDE DEF I
    <3> QED
      BY <2>1, LeastIndex
  <2>3. ASSUME NEW k \in 2 .. m PROVE key[me] < key[h[path[k]]]
    <3>1. k - 1 \in 1 .. Len(path) /\ ~ (m <= k - 1) /\ (k - 1) + 1 = k
      BY <1>1
    <3>2. k - 1 \notin I
      BY <2>2, <3>1
    <3> QED
      BY <3>1, <3>2
  <2>4. m < Len(path) => key[me] >= key[h[path[m + 1]]]
    <3> SUFFICES ASSUME m < Len(path) PROVE key[me] >= key[h[path[m + 1]]]
      OBVIOUS
    <3>1. m + 1 \in 1 .. Len(path) /\ 1 \in 1 .. Len(path)
      BY <1>1
    <3>2. key[me] \in Nat /\ key[h[path[m + 1]]] \in Nat
      BY <1>1, <1>3, <3>1
    <3>3. ~ (key[me] < key[h[path[m + 1]]])
      BY <2>2
    <3> QED
      BY <3>2, <3>3
  <2> QED
    BY <2>3, <2>4
<1>5. stop \in 1 .. Len(path)
  BY <1>4
<1> HIDE DEF stop
<1>6. stop \in Nat /\ stop >= 1 /\ \A k \in 1 .. stop : k \in 1 .. Len(path)
  BY <1>1, <1>5
<1>7. Up(h, key, pos) = Shift(h, path, stop)
  BY <1>1, <1>2 DEF Shift
<1>8. Once(Shift(h, path, stop), 0 .. n, E) /\ DOMAIN Shift(h, path, stop) = DOMAIN h
  <2>1. \A k \in 1 .. stop : path[k] \in 0 .. n
    BY <1>3, <1>6
  <2>2. \A j, k \in 1 .. stop : path[j] = path[k] => j = k
    BY <1>1, <1>6
  <2> QED
    BY <1>6, <2>1, <2>2, ShiftKeeps
<1> QED
  BY <1>7, <1>8

(* The elements that down_update_heap moves, and where to.                 *)
LEMMA DownKeeps ==
  ASSUME NEW size \in Nat, NEW h, NEW E, Once(h, 0 .. size - 1, E), NEW key,
         NEW pos \in 0 .. size - 1
  PROVE  /\ Once(Down(h, key, pos, size), 0 .. size - 1, E)
         /\ DOMAIN Down(h, key, pos, size) = DOMAIN h
<1> DEFINE me == h[pos]
           c == [i \in 0 .. size |-> Child(h, key, i, size)]
           Q == {i \in 0 .. size : 2 * i + 1 < size /\ key[h[c[i]]] < key[me]}
           r == [i \in 0 .. size |-> size - i]
           Body(f, i) == IF 2 * i + 1 < size /\ key[h[Child(h, key, i, size)]] < key[me]
                           THEN <<i>> \o f[Child(h, key, i, size)]
                           ELSE <<i>>
           f == CHOOSE f : f = [i \in 0 .. size |-> Body(f, i)]
           path == f[pos]
           m == Len(path)
<1>1. Down(h, key, pos, size) =
        [i \in DOMAIN h |->
           IF i = Last(path) THEN me
           ELSE IF \E k \in 1 .. m - 1 : path[k] = i
             THEN h[path[(CHOOSE k \in 1 .. m - 1 : path[k] = i) + 1]]
           ELSE h[i]]
  BY DEF Down
<1>2. \A i \in Q : i \in 0 .. size /\ c[i] \in 0 .. size - 1 /\ i < c[i]
  BY DEF Child
<1>3. Going(size, Q, c, r)
  BY <1>2 DEF Going
<1>4. \A g : Walks(size, Q, c, g) <=> g = [i \in 0 .. size |-> Body(g, i)]
  <2> TAKE g
  <2>1. \A i \in 0 .. size : (IF i \in Q THEN <<i>> \o g[c[i]] ELSE <<i>>) = Body(g, i)
    OBVIOUS
  <2>2. [i \in 0 .. size |-> IF i \in Q THEN <<i>> \o g[c[i]] ELSE <<i>>] =
        [i \in 0 .. size |-> Body(g, i)]
    BY <2>1
  <2> QED
    BY <2>2 DEF Walks
<1>5. Walks(size, Q, c, f)
  <2>1. \E g : g = [i \in 0 .. size |-> Body(g, i)]
    BY <1>3, <1>4, WalkExists
  <2>2. f = [i \in 0 .. size |-> Body(f, i)]
    BY <2>1
  <2> QED
    BY <1>4, <2>2
<1> HIDE DEF f, Body
<1>6. pos \in 0 .. size
  OBVIOUS
<1>7. PathFrom(path, size, Q, c, r, pos)
  BY <1>3, <1>5, <1>6, WalkIsPath
<1>8. /\ path \in Seq(0 .. size) /\ m \in Nat /\ m >= 1 /\ path[1] = pos
      /\ \A k \in 2 .. m : \E q \in Q : path[k] = c[q]
      /\ \A j, k \in 1 .. m : j < k => r[path[k]] < r[path[j]]
  BY <1>7 DEF PathFrom
<1> HIDE DEF path
<1>9. \A k \in 1 .. m : path[k] \in 0 .. size - 1
  <2> TAKE k \in 1 .. m
  <2>1. CASE k = 1
    BY <1>8, <2>1
  <2>2. CASE k # 1
    <3>1. PICK q \in Q : path[k] = c[q]
      BY <1>8, <2>2
    <3> QED
      BY <1>2, <3>1
  <2> QED
    BY <2>1, <2>2
<1>10. \A k \in 1 .. m : r[path[k]] \in Nat
  BY <1>9
<1> HIDE DEF r, Q, c
<1>11. \A j, k \in 1 .. m : path[j] = path[k] => j = k
  <2> TAKE j, k \in 1 .. m
  <2>1. CASE j < k
    BY <1>8, <1>10, <2>1
  <2>2. CASE k < j
    BY <1>8, <1>10, <2>2
  <2> QED
    BY <1>8, <2>1, <2>2
<1>12. Last(path) = path[m]
  BY DEF Last
<1>13. Down(h, key, pos, size) = Shift(h, path, m)
  BY <1>1, <1>8, <1>12 DEF Shift
<1>14. Once(Shift(h, path, m), 0 .. size - 1, E) /\ DOMAIN Shift(h, path, m) = DOMAIN h
  <2> HIDE DEF m
  <2> QED
    BY <1>8, <1>9, <1>11, ShiftKeeps
<1> QED
  BY <1>13, <1>14

------------------------------------------------------------------------------
(* The invariant.                                                          *)

(* The lists: each entry in the list that its waiter points into, ending   *)
(* by the list's timeout from now at the latest, newest first; each waiter *)
(* that points into a list once in it.                                     *)
ListsOK(lists, at, t) ==
  /\ lists \in [Timeouts -> Seq(Entry)]
  /\ at \in [Waiter -> {npos} \union Timeouts]
  /\ \A d \in Timeouts : \A i \in 1 .. Len(lists[d]) :
       /\ at[lists[d][i].data] = d
       /\ lists[d][i].end_time <= t + d
  /\ \A d \in Timeouts : \A i, j \in 1 .. Len(lists[d]) :
       /\ lists[d][i].data = lists[d][j].data => i = j
       /\ i < j => lists[d][i].end_time >= lists[d][j].end_time
  /\ \A w \in Waiter : at[w] # npos =>
       \E i \in 1 .. Len(lists[at[w]]) : lists[at[w]][i].data = w

Armed(lists) == {d \in Timeouts : lists[d] # << >>}

(* The heap: each list that is not empty, once.                            *)
HeapOK(h, lists) ==
  /\ h \in Seq(Timeouts)
  /\ Once(h, 1 .. Len(h), Armed(lists))

TimerInv ==
  /\ now \in 0 .. MaxNow
  /\ ListsOK(list, that, now)
  /\ HeapOK(heap, list)

------------------------------------------------------------------------------
(* The array of the heap.                                                  *)

LEMMA ArrayOnce ==
  ASSUME NEW h \in Seq(Timeouts), NEW E, Once(h, 1 .. Len(h), E)
  PROVE  /\ Once(Array(h), 0 .. Len(h) - 1, E)
         /\ DOMAIN Array(h) = 0 .. Len(h) - 1
<1> DEFINE n == Len(h)  a == Array(h)
<1>1. /\ n \in Nat
      /\ \A i, j \in 1 .. n : h[i] = h[j] => i = j
      /\ {h[i] : i \in 1 .. n} = E
  BY DEF Once
<1>2. DOMAIN a = 0 .. n - 1 /\ \A i \in 0 .. n - 1 : i + 1 \in 1 .. n /\ a[i] = h[i + 1]
  BY <1>1 DEF Array
<1>3. \A i \in 1 .. n : i - 1 \in 0 .. n - 1 /\ (i - 1) + 1 = i
  BY <1>1
<1> HIDE DEF n, a
<1>4. \A i, j \in 0 .. n - 1 : a[i] = a[j] => i = j
  <2> SUFFICES ASSUME NEW i \in 0 .. n - 1, NEW j \in 0 .. n - 1, a[i] = a[j]
               PROVE  i = j
    OBVIOUS
  <2>1. i + 1 = j + 1
    BY <1>1, <1>2
  <2> QED
    BY <2>1
<1>5. \A i \in 1 .. n : a[i - 1] = h[i]
  BY <1>2, <1>3
<1>6. {a[i] : i \in 0 .. n - 1} = {h[i] : i \in 1 .. n}
  <2>1. ASSUME NEW i \in 0 .. n - 1 PROVE a[i] \in {h[k] : k \in 1 .. n}
    BY <1>2
  <2>2. ASSUME NEW i \in 1 .. n PROVE h[i] \in {a[k] : k \in 0 .. n - 1}
    BY <1>3, <1>5
  <2> QED
    BY <2>1, <2>2
<1> QED
  BY <1>1, <1>2, <1>4, <1>6 DEF Once, n, a

LEMMA HeapOnce ==
  ASSUME NEW size \in Nat, NEW g, NEW E \in SUBSET Timeouts, Once(g, 0 .. size - 1, E)
  PROVE  LET h == Heap(g, size) IN
         h \in Seq(Timeouts) /\ Once(h, 1 .. Len(h), E)
<1> DEFINE h == Heap(g, size)
<1>1. /\ \A i, j \in 0 .. size - 1 : g[i] = g[j] => i = j
      /\ {g[i] : i \in 0 .. size - 1} = E
  BY DEF Once
<1>2. \A i \in 1 .. size : i - 1 \in 0 .. size - 1 /\ h[i] = g[i - 1]
  BY DEF Heap
<1>3. \A i \in 1 .. size : h[i] \in Timeouts
  BY <1>1, <1>2
<1>4. h \in Seq(Timeouts) /\ Len(h) = size /\ DOMAIN h = 1 .. size
  BY <1>3 DEF Heap
<1> HIDE DEF h
<1>5. \A i, j \in 1 .. size : h[i] = h[j] => i = j
  <2> SUFFICES ASSUME NEW i \in 1 .. size, NEW j \in 1 .. size, h[i] = h[j]
               PROVE  i = j
    OBVIOUS
  <2>1. i - 1 = j - 1
    BY <1>1, <1>2
  <2> QED
    BY <2>1
<1>6. \A i \in 0 .. size - 1 : i + 1 \in 1 .. size /\ h[i + 1] = g[i]
  <2> TAKE i \in 0 .. size - 1
  <2>1. i + 1 \in 1 .. size /\ (i + 1) - 1 = i
    OBVIOUS
  <2> QED
    BY <1>2, <2>1
<1>7. {h[i] : i \in 1 .. size} = E
  <2>1. ASSUME NEW i \in 1 .. size PROVE h[i] \in E
    BY <1>1, <1>2
  <2>2. ASSUME NEW x \in E PROVE \E i \in 1 .. size : h[i] = x
    BY <1>1, <1>6
  <2> QED
    BY <2>1, <2>2
<1> QED
  BY <1>4, <1>5, <1>7 DEF Once, h

(* add_timer puts a list that was empty behind the others and moves it up. *)
LEMMA AddedOK ==
  ASSUME NEW h, NEW before, HeapOK(h, before), NEW d \in Timeouts, NEW after,
         after \in [Timeouts -> Seq(Entry)], Armed(after) = Armed(before) \union {d}
  PROVE  HeapOK(AddedHeap(h, after, d), after)
<1> DEFINE n == Len(h)
           E == Armed(after)
<1>1. /\ h \in Seq(Timeouts) /\ n \in Nat /\ DOMAIN h = 1 .. n
      /\ Once(h, 1 .. n, Armed(before))
      /\ \A i, j \in 1 .. n : h[i] = h[j] => i = j
      /\ {h[i] : i \in 1 .. n} = Armed(before)
  <2>1. h \in Seq(Timeouts) /\ Once(h, 1 .. n, Armed(before))
    BY DEF HeapOK
  <2>2. n \in Nat /\ DOMAIN h = 1 .. n
    BY <2>1
  <2> HIDE DEF n
  <2> QED
    BY <2>1, <2>2 DEF Once
<1>2. E \in SUBSET Timeouts
  BY DEF Armed
<1>3. CASE d \in Range(h)
  <2>1. AddedHeap(h, after, d) = h
    BY <1>3 DEF AddedHeap
  <2>2. Armed(after) = Armed(before)
    BY <1>1, <1>3 DEF Range
  <2> QED
    BY <1>1, <2>1, <2>2 DEF HeapOK
<1>4. CASE d \notin Range(h)
  <2> DEFINE b == Append(h, d)
             key == KeyOf(after)
  <2>1. AddedHeap(h, after, d) = Heap(Up(Array(b), key, n), n + 1)
    BY <1>4 DEF AddedHeap
  <2>2. \A i \in 1 .. n : h[i] # d
    BY <1>1, <1>4 DEF Range
  <2>3. /\ b \in Seq(Timeouts) /\ Len(b) = n + 1 /\ DOMAIN b = 1 .. n + 1
        /\ b[n + 1] = d /\ \A i \in 1 .. n : b[i] = h[i]
    BY <1>1
  <2>4. \A i \in 1 .. n + 1 : i = n + 1 \/ i \in 1 .. n
    BY <1>1
  <2>5. n + 1 \in 1 .. n + 1 /\ \A i \in 1 .. n : i \in 1 .. n + 1
    BY <1>1
  <2> HIDE DEF b
  <2>6. \A i, j \in 1 .. n + 1 : b[i] = b[j] => i = j
    BY <1>1, <2>2, <2>3, <2>4
  <2>7. {b[i] : i \in 1 .. n + 1} = E
    <3>1. ASSUME NEW i \in 1 .. n + 1 PROVE b[i] \in E
      BY <1>1, <2>3, <2>4
    <3>2. ASSUME NEW x \in E PROVE \E i \in 1 .. n + 1 : b[i] = x
      <4>1. CASE x = d
        BY <2>3, <2>5, <4>1
      <4>2. CASE x \in Armed(before)
        BY <1>1, <2>3, <2>5, <4>2
      <4> QED
        BY <4>1, <4>2
    <3> QED
      BY <3>1, <3>2
  <2>8. Once(b, 1 .. Len(b), E)
    BY <2>3, <2>6, <2>7 DEF Once
  <2>9. Once(Array(b), 0 .. n, E)
    <3>1. Len(b) - 1 = n
      BY <1>1, <2>3
    <3> QED
      BY <2>3, <2>8, <3>1, ArrayOnce
  <2>10. \A e \in E : key[e] \in Nat
    <3> TAKE e \in E
    <3>1. after[e] \in Seq(Entry) /\ after[e] # << >> /\ e \in Timeouts
      BY DEF Armed
    <3>2. Last(after[e]) \in Entry
      BY <3>1 DEF Last
    <3> QED
      BY <3>1, <3>2 DEF KeyOf, Key, Entry
  <2>11. n \in 0 .. n
    BY <1>1
  <2> HIDE DEF key, E
  <2>12. Once(Up(Array(b), key, n), 0 .. n, E)
    BY <1>1, <2>9, <2>10, <2>11, UpKeeps
  <2>13. n + 1 \in Nat /\ (n + 1) - 1 = n
    BY <1>1
  <2>14. LET q == Heap(Up(Array(b), key, n), n + 1) IN
         q \in Seq(Timeouts) /\ Once(q, 1 .. Len(q), E)
    BY <1>2, <2>12, <2>13, HeapOnce
  <2> QED
    BY <2>1, <2>14 DEF HeapOK, E
<1> QED
  BY <1>3, <1>4

------------------------------------------------------------------------------
(* remove_timer.                                                           *)

LEMMA WithoutIs ==
  ASSUME NEW s \in Seq(Entry), NEW w, NEW i \in 1 .. Len(s), s[i].data = w,
         \A j, k \in 1 .. Len(s) : s[j].data = s[k].data => j = k
  PROVE  /\ Without(s, w) \in Seq(Entry) /\ Len(Without(s, w)) = Len(s) - 1
         /\ \A k \in 1 .. Len(s) - 1 :
              Without(s, w)[k] = IF k < i THEN s[k] ELSE s[k + 1]
<1>1. DOMAIN s = 1 .. Len(s) /\ Len(s) \in Nat
  OBVIOUS
<1>2. (CHOOSE j \in DOMAIN s : s[j].data = w) = i
  BY <1>1
<1> DEFINE p == SubSeq(s, 1, i - 1)
           q == SubSeq(s, i + 1, Len(s))
<1>3. Without(s, w) = p \o q
  BY <1>2 DEF Without, RemoveAt
<1>4. /\ p \in Seq(Entry) /\ Len(p) = i - 1
      /\ \A k \in 1 .. i - 1 : p[k] = s[k]
  OBVIOUS
<1>5. /\ q \in Seq(Entry) /\ Len(q) = Len(s) - i
      /\ \A k \in 1 .. Len(s) - i : q[k] = s[i + k]
  OBVIOUS
<1> HIDE DEF p, q
<1>6. p \o q \in Seq(Entry) /\ Len(p \o q) = Len(s) - 1
  <2>1. p \o q \in Seq(Entry) /\ Len(p \o q) = Len(p) + Len(q)
    BY ONLY <1>4, <1>5, ConcatProperties
  <2>2. (i - 1) + (Len(s) - i) = Len(s) - 1
    BY <1>1
  <2> QED
    BY <1>4, <1>5, <2>1, <2>2
<1>7. ASSUME NEW k \in 1 .. Len(s) - 1
      PROVE  (p \o q)[k] = IF k < i THEN s[k] ELSE s[k + 1]
  <2>1. (p \o q)[k] = IF k <= Len(p) THEN p[k] ELSE q[k - Len(p)]
    BY <1>1, <1>4, <1>5
  <2>2. CASE k < i
    BY <1>4, <2>1, <2>2
  <2>3. CASE ~ (k < i)
    <3>1. k - Len(p) \in 1 .. Len(s) - i /\ i + (k - Len(p)) = k + 1 /\ ~ (k <= Len(p))
      BY <1>1, <1>4, <2>3
    <3> QED
      BY <1>5, <2>1, <2>3, <3>1
  <2> QED
    BY <2>2, <2>3
<1> QED
  BY <1>3, <1>6, <1>7

(* What an armed waiter's list is without it.                              *)
LEMMA ListsStep ==
  ASSUME TimerInv, NEW w \in Waiter, that[w] # npos
  PROVE  /\ ListsOK(ListsWithout(w), [that EXCEPT ![w] = npos], now)
         /\ that[w] \in Armed(list) /\ that[w] \in Timeouts
         /\ Armed(ListsWithout(w)) =
              IF ListsWithout(w)[that[w]] = << >> THEN Armed(list) \ {that[w]} ELSE Armed(list)
         /\ Last(list[that[w]]).data # w => ListsWithout(w)[that[w]] # << >>
<1> DEFINE d == that[w]
           L == ListsWithout(w)
           T == [that EXCEPT ![w] = npos]
           s == list[d]
           q == Without(s, w)
<1>1. /\ list \in [Timeouts -> Seq(Entry)]
      /\ that \in [Waiter -> {npos} \union Timeouts]
      /\ \A e \in Timeouts : \A i \in 1 .. Len(list[e]) :
           that[list[e][i].data] = e /\ list[e][i].end_time <= now + e
      /\ \A e \in Timeouts : \A i, j \in 1 .. Len(list[e]) :
           /\ list[e][i].data = list[e][j].data => i = j
           /\ i < j => list[e][i].end_time >= list[e][j].end_time
      /\ \A v \in Waiter : that[v] # npos =>
           \E i \in 1 .. Len(list[that[v]]) : list[that[v]][i].data = v
  BY DEF TimerInv, ListsOK
<1>2. d \in Timeouts /\ s \in Seq(Entry) /\ d # npos
  BY <1>1
<1>3. PICK i \in 1 .. Len(s) : s[i].data = w
  BY <1>1
<1>4. \A j, k \in 1 .. Len(s) : /\ s[j].data = s[k].data => j = k
                                /\ j < k => s[j].end_time >= s[k].end_time
  BY <1>1, <1>2
<1>5. \A j \in 1 .. Len(s) : that[s[j].data] = d /\ s[j].end_time <= now + d
  BY <1>1, <1>2
<1>6. L = [list EXCEPT ![d] = q]
  BY <1>2 DEF ListsWithout
<1> HIDE DEF d, L
<1>7. /\ q \in Seq(Entry) /\ Len(q) = Len(s) - 1
      /\ \A k \in 1 .. Len(s) - 1 : q[k] = IF k < i THEN s[k] ELSE s[k + 1]
  BY <1>2, <1>3, <1>4, WithoutIs
<1>8. /\ L \in [Timeouts -> Seq(Entry)] /\ L[d] = q
      /\ \A e \in Timeouts : e # d => L[e] = list[e]
  BY <1>1, <1>2, <1>6, <1>7
<1> DEFINE from(k) == IF k < i THEN k ELSE k + 1
<1>9. \A k \in 1 .. Len(q) : from(k) \in 1 .. Len(s) /\ from(k) # i /\ q[k] = s[from(k)]
  BY <1>2, <1>7
<1>10. \A j, k \in 1 .. Len(q) : /\ from(j) = from(k) => j = k
                                 /\ j < k => from(j) < from(k)
  OBVIOUS
<1>11. ASSUME NEW j \in 1 .. Len(s), j # i PROVE \E k \in 1 .. Len(q) : q[k] = s[j]
  <2>1. CASE j < i
    <3>1. j \in 1 .. Len(s) - 1
      BY <1>2, <2>1
    <3> QED
      BY <1>7, <2>1, <3>1
  <2>2. CASE ~ (j < i)
    <3>1. j - 1 \in 1 .. Len(s) - 1 /\ ~ (j - 1 < i) /\ (j - 1) + 1 = j
      BY <1>2, <1>11, <2>2
    <3> QED
      BY <1>7, <3>1
  <2> QED
    BY <2>1, <2>2
<1> HIDE DEF from, q, s
<1>12. T \in [Waiter -> {npos} \union Timeouts] /\ T[w] = npos
       /\ \A v : v # w => T[v] = that[v]
  BY <1>1
<1> HIDE DEF T
<1>13. \A e \in Timeouts : \A k \in 1 .. Len(L[e]) :
         T[L[e][k].data] = e /\ L[e][k].end_time <= now + e
  <2> TAKE e \in Timeouts
  <2> TAKE k \in 1 .. Len(L[e])
  <2>1. CASE e = d
    <3>1. L[e][k] = s[from(k)] /\ from(k) \in 1 .. Len(s) /\ from(k) # i
      BY <1>8, <1>9, <2>1
    <3>2. s[from(k)].data # w
      BY <1>3, <1>4, <3>1
    <3> QED
      BY <1>5, <1>12, <2>1, <3>1, <3>2
  <2>2. CASE e # d
    <3>1. L[e] = list[e] /\ k \in 1 .. Len(list[e])
      BY <1>8, <2>2
    <3>2. that[list[e][k].data] = e /\ list[e][k].end_time <= now + e
      BY <1>1, <3>1
    <3>3. list[e][k].data # w
      BY <2>2, <3>2 DEF d
    <3> QED
      BY <1>12, <3>1, <3>2, <3>3
  <2> QED
    BY <2>1, <2>2
<1>14. \A e \in Timeouts : \A j, k \in 1 .. Len(L[e]) :
         /\ L[e][j].data = L[e][k].data => j = k
         /\ j < k => L[e][j].end_time >= L[e][k].end_time
  <2> TAKE e \in Timeouts
  <2> TAKE j, k \in 1 .. Len(L[e])
  <2>1. CASE e = d
    <3>1. /\ L[e][j] = s[from(j)] /\ from(j) \in 1 .. Len(s)
          /\ L[e][k] = s[from(k)] /\ from(k) \in 1 .. Len(s)
          /\ j \in 1 .. Len(q) /\ k \in 1 .. Len(q)
      BY <1>8, <1>9, <2>1
    <3> QED
      BY <1>4, <1>10, <3>1
  <2>2. CASE e # d
    <3>1. L[e] = list[e] /\ j \in 1 .. Len(list[e]) /\ k \in 1 .. Len(list[e])
      BY <1>8, <2>2
    <3>2. /\ list[e][j].data = list[e][k].data => j = k
          /\ j < k => list[e][j].end_time >= list[e][k].end_time
      BY ONLY <1>1, <3>1, e \in Timeouts
    <3> QED
      BY ONLY <3>1, <3>2
  <2> QED
    BY <2>1, <2>2
<1>15. \A v \in Waiter : T[v] # npos => \E k \in 1 .. Len(L[T[v]]) : L[T[v]][k].data = v
  <2> SUFFICES ASSUME NEW v \in Waiter, T[v] # npos
               PROVE  \E k \in 1 .. Len(L[T[v]]) : L[T[v]][k].data = v
    OBVIOUS
  <2>1. v # w /\ T[v] = that[v] /\ that[v] \in Timeouts
    BY <1>1, <1>12
  <2>2. PICK j \in 1 .. Len(list[that[v]]) : list[that[v]][j].data = v
    BY <1>1, <2>1
  <2>3. CASE that[v] = d
    <3>1. j \in 1 .. Len(s) /\ s[j].data = v /\ j # i
      BY <1>3, <2>1, <2>2, <2>3 DEF s
    <3>2. PICK k \in 1 .. Len(q) : q[k] = s[j]
      BY <1>11, <3>1
    <3> QED
      BY <1>8, <2>1, <2>3, <3>1, <3>2
  <2>4. CASE that[v] # d
    BY <1>8, <2>1, <2>2, <2>4
  <2> QED
    BY <2>3, <2>4
<1>16. ListsOK(L, T, now)
  BY <1>8, <1>12, <1>13, <1>14, <1>15 DEF ListsOK
<1>17. s # << >> /\ d \in Armed(list)
  BY <1>2, <1>3 DEF Armed, s
<1>18. Armed(L) = IF L[d] = << >> THEN Armed(list) \ {d} ELSE Armed(list)
  BY <1>2, <1>8, <1>17 DEF Armed
<1>19. Last(s).data # w => L[d] # << >>
  <2> SUFFICES ASSUME Last(s).data # w PROVE L[d] # << >>
    OBVIOUS
  <2>1. Len(s) # i
    BY <1>3 DEF Last
  <2>2. s \in Seq(Entry) /\ Len(q) >= 1
    BY <1>2, <1>3, <1>7, <2>1 DEF s
  <2> QED
    BY <1>8, <2>2
<1> QED
  BY <1>2, <1>16, <1>17, <1>18, <1>19 DEF d, L, T, s

(* remove_time_out: when the oldest entry of the list d has gone, or the   *)
(* last one, the heap is what it has to be again.                          *)
LEMMA RemovedOK ==
  ASSUME NEW h, NEW before, HeapOK(h, before), NEW lists, NEW pos \in 0 .. Len(h) - 1,
         NEW d \in Timeouts, h[pos + 1] = d,
         Armed(lists) = IF lists[d] = << >> THEN Armed(before) \ {d} ELSE Armed(before)
  PROVE  HeapOK(RemoveTimeOut(h, lists, pos), lists)
<1> DEFINE n == Len(h)
           E == Armed(before)
           a == Array(h)
           key == KeyOf(lists)
<1>1. h \in Seq(Timeouts) /\ Once(h, 1 .. n, E)
  BY DEF HeapOK
<1>2. n \in Nat /\ DOMAIN h = 1 .. n /\ n >= 1 /\ pos \in 0 .. n - 1
  BY <1>1
<1>3. /\ Once(a, 0 .. n - 1, E) /\ DOMAIN a = 0 .. n - 1
      /\ a[pos] = d
  BY <1>1, ArrayOnce DEF Array
<1>4. E \in SUBSET Timeouts
  BY DEF Armed
<1>5. CASE lists[d] # << >>
  <2>1. RemoveTimeOut(h, lists, pos) = Heap(Down(a, key, pos, n), n)
    BY <1>3, <1>5 DEF RemoveTimeOut
  <2> HIDE DEF n, E, a, key
  <2>2. Once(Down(a, key, pos, n), 0 .. n - 1, E)
    <3>1. pos \in 0 .. n - 1
      BY DEF n
    <3> QED
      BY <1>2, <1>3, <3>1, DownKeeps
  <2>3. LET q == Heap(Down(a, key, pos, n), n) IN
        q \in Seq(Timeouts) /\ Once(q, 1 .. Len(q), E)
    BY <1>2, <1>4, <2>2, HeapOnce
  <2>4. Armed(lists) = E
    BY <1>5 DEF E
  <2> QED
    BY <2>1, <2>3, <2>4 DEF HeapOK
<1> DEFINE G == E \ {d}
<1>6. CASE lists[d] = << >> /\ pos = n - 1
  <2>1. RemoveTimeOut(h, lists, pos) = Front(h)
    BY <1>3, <1>6 DEF RemoveTimeOut
  <2> DEFINE q == Front(h)
  <2> HIDE DEF n, E
  <2>2. /\ q \in Seq(Timeouts) /\ Len(q) = n - 1 /\ DOMAIN q = 1 .. n - 1
        /\ \A i \in 1 .. n - 1 : q[i] = h[i]
    BY <1>1, <1>2 DEF Front, n
  <2>3. /\ \A i, j \in 1 .. n : h[i] = h[j] => i = j
        /\ {h[i] : i \in 1 .. n} = E
    BY <1>1 DEF Once
  <2>4. h[n] = d /\ n \in 1 .. n
    BY <1>2, <1>6
  <2>5. /\ \A i \in 1 .. n - 1 : i \in 1 .. n /\ i # n
        /\ \A i \in 1 .. n : i = n \/ i \in 1 .. n - 1
    BY <1>2
  <2> HIDE DEF q
  <2>6. \A i, j \in 1 .. n - 1 : q[i] = q[j] => i = j
    BY <2>2, <2>3, <2>5
  <2>7. {q[i] : i \in 1 .. n - 1} = G
    <3>1. ASSUME NEW i \in 1 .. n - 1 PROVE q[i] \in G
      <4>1. h[i] \in E /\ h[i] # d
        BY <2>3, <2>4, <2>5
      <4> QED
        BY <2>2, <4>1
    <3>2. ASSUME NEW x \in G PROVE \E i \in 1 .. n - 1 : q[i] = x
      BY <2>2, <2>3, <2>4, <2>5
    <3> QED
      BY <3>1, <3>2
  <2>8. Armed(lists) = G
    BY <1>6 DEF E
  <2>9. Once(q, 1 .. Len(q), G)
    BY <2>2, <2>6, <2>7 DEF Once
  <2> QED
    BY <2>1, <2>2, <2>8, <2>9 DEF HeapOK, q
<1>7. CASE lists[d] = << >> /\ pos # n - 1
  <2> DEFINE b == [a EXCEPT ![pos] = a[n - 1]]
             m == n - 1
  <2>1. RemoveTimeOut(h, lists, pos) = Heap(Down(b, key, pos, m), m)
    BY <1>3, <1>7 DEF RemoveTimeOut
  <2> HIDE DEF n, E, a, key
  <2>2. m \in Nat /\ pos \in 0 .. m - 1 /\ m \in 0 .. n - 1 /\ 0 .. m - 1 \subseteq 0 .. n - 1
    BY <1>2, <1>7
  <2>3. /\ \A i, j \in 0 .. n - 1 : a[i] = a[j] => i = j
        /\ {a[i] : i \in 0 .. n - 1} = E
    BY <1>3 DEF Once
  <2>4. /\ DOMAIN b = 0 .. n - 1 /\ b[pos] = a[m]
        /\ \A i \in 0 .. n - 1 : i # pos => b[i] = a[i]
    BY <1>2, <1>3, <1>7
  <2>5. \A i \in 0 .. n - 1 : i = m \/ (i \in 0 .. m - 1 /\ i # m)
    BY <1>2
  <2>6. \A i \in 0 .. m - 1 : i \in 0 .. n - 1 /\ i # m
    BY <1>2
  <2> HIDE DEF b, m
  <2>7. \A i, j \in 0 .. m - 1 : b[i] = b[j] => i = j
    BY <2>2, <2>3, <2>4, <2>5, <2>6
  <2>8. {b[i] : i \in 0 .. m - 1} = G
    <3>1. ASSUME NEW i \in 0 .. m - 1 PROVE b[i] \in G
      <4>1. CASE i = pos
        <5>1. a[m] \in E /\ a[m] # d
          BY <1>3, <2>2, <2>3, <2>6
        <5> QED
          BY <2>4, <4>1, <5>1
      <4>2. CASE i # pos
        <5>1. a[i] \in E /\ a[i] # d /\ b[i] = a[i]
          BY <1>3, <2>2, <2>3, <2>4, <2>6, <4>2
        <5> QED
          BY <5>1
      <4> QED
        BY <4>1, <4>2
    <3>2. ASSUME NEW x \in G PROVE \E i \in 0 .. m - 1 : b[i] = x
      <4>1. PICK i \in 0 .. n - 1 : a[i] = x /\ i # pos
        BY <1>3, <2>3
      <4>2. CASE i = m
        BY <2>2, <2>4, <4>1, <4>2
      <4>3. CASE i # m
        BY <2>4, <2>5, <4>1, <4>3
      <4> QED
        BY <4>2, <4>3
    <3> QED
      BY <3>1, <3>2
  <2>9. Once(b, 0 .. m - 1, G)
    BY <2>2, <2>4, <2>7, <2>8 DEF Once
  <2> HIDE DEF G
  <2>10. Once(Down(b, key, pos, m), 0 .. m - 1, G)
    BY <2>2, <2>9, DownKeeps
  <2>11. G \in SUBSET Timeouts
    BY <1>4 DEF G
  <2>12. LET q == Heap(Down(b, key, pos, m), m) IN
         q \in Seq(Timeouts) /\ Once(q, 1 .. Len(q), G)
    BY <2>2, <2>10, <2>11, HeapOnce
  <2>13. Armed(lists) = G
    BY <1>7 DEF G, E
  <2> QED
    BY <2>1, <2>12, <2>13 DEF HeapOK
<1> QED
  BY <1>5, <1>6, <1>7

(* clear_timeout, and the first half of set_timeout.                       *)
LEMMA Removed ==
  ASSUME TimerInv, NEW w \in Waiter
  PROVE  /\ ListsOK(ListsWithout(w), [that EXCEPT ![w] = npos], now)
         /\ HeapOK(HeapWithout(w), ListsWithout(w))
<1> DEFINE d == that[w]
<1>1. CASE d = npos
  <2>1. ListsWithout(w) = list /\ HeapWithout(w) = heap
    BY <1>1 DEF ListsWithout, HeapWithout
  <2>2. that \in [Waiter -> {npos} \union Timeouts]
    BY DEF TimerInv, ListsOK
  <2>3. [that EXCEPT ![w] = npos] = that
    BY <1>1, <2>2
  <2> QED
    BY <2>1, <2>3 DEF TimerInv
<1>2. CASE d # npos
  <2> DEFINE L == ListsWithout(w)
  <2>1. /\ ListsOK(L, [that EXCEPT ![w] = npos], now)
        /\ d \in Armed(list) /\ d \in Timeouts
        /\ Armed(L) = IF L[d] = << >> THEN Armed(list) \ {d} ELSE Armed(list)
        /\ Last(list[d]).data # w => L[d] # << >>
    BY <1>2, ListsStep
  <2>2. HeapOK(heap, list)
    BY DEF TimerInv
  <2>3. CASE Last(list[d]).data # w
    <3>1. HeapWithout(w) = heap
      BY <2>3 DEF HeapWithout
    <3>2. Armed(L) = Armed(list)
      BY <2>1, <2>3
    <3> QED
      BY <2>1, <2>2, <3>1, <3>2 DEF HeapOK
  <2>4. CASE Last(list[d]).data = w
    <3> DEFINE pos == HeapPos(d)
    <3>1. HeapWithout(w) = RemoveTimeOut(heap, L, pos)
      BY <1>2, <2>4 DEF HeapWithout
    <3>2. heap \in Seq(Timeouts) /\ {heap[i] : i \in 1 .. Len(heap)} = Armed(list)
      BY <2>2 DEF HeapOK, Once
    <3>3. DOMAIN heap = 1 .. Len(heap) /\ Len(heap) \in Nat
      BY <3>2
    <3>4. \E i \in DOMAIN heap : heap[i] = d
      BY <2>1, <3>2, <3>3
    <3>5. PICK i \in DOMAIN heap : heap[i] = d /\ pos = i - 1
      BY <3>4 DEF HeapPos
    <3>6. pos \in 0 .. Len(heap) - 1 /\ heap[pos + 1] = d
      BY <3>3, <3>5
    <3> HIDE DEF d, L, pos
    <3>7. HeapOK(RemoveTimeOut(heap, L, pos), L)
      BY <2>1, <2>2, <3>6, RemovedOK
    <3> QED
      BY <2>1, <3>1, <3>7 DEF L
  <2> QED
    BY <2>3, <2>4
<1> QED
  BY <1>1, <1>2

------------------------------------------------------------------------------
(* The actions.                                                            *)

(* add_timer.                                                              *)
WithEntry(L, w, d, t) ==
  [L EXCEPT ![d] = PushFront(@, [data |-> w, end_time |-> t + d])]
In(T, w, d) == [T EXCEPT ![w] = d]

LEMMA Added ==
  ASSUME NEW L, NEW T, NEW t \in Nat, ListsOK(L, T, t), NEW h, HeapOK(h, L),
         NEW w \in Waiter, T[w] = npos, NEW d \in Timeouts
  PROVE  /\ ListsOK(WithEntry(L, w, d, t), In(T, w, d), t)
         /\ HeapOK(AddedHeap(h, WithEntry(L, w, d, t), d), WithEntry(L, w, d, t))
<1> DEFINE after == WithEntry(L, w, d, t)
           U == In(T, w, d)
           e0 == [data |-> w, end_time |-> t + d]
           s == L[d]
           q == after[d]
<1>1. /\ L \in [Timeouts -> Seq(Entry)]
      /\ T \in [Waiter -> {npos} \union Timeouts]
      /\ \A e \in Timeouts : \A i \in 1 .. Len(L[e]) :
           T[L[e][i].data] = e /\ L[e][i].end_time <= t + e
      /\ \A e \in Timeouts : \A i, j \in 1 .. Len(L[e]) :
           /\ L[e][i].data = L[e][j].data => i = j
           /\ i < j => L[e][i].end_time >= L[e][j].end_time
      /\ \A v \in Waiter : T[v] # npos => \E i \in 1 .. Len(L[T[v]]) : L[T[v]][i].data = v
  BY DEF ListsOK
<1>2. d \in Nat /\ d # npos /\ e0 \in Entry /\ s \in Seq(Entry)
  <2>1. d \in Nat /\ d # npos /\ t + d \in Nat
    BY TimerAssumption DEF TimerAssumption, npos
  <2>2. e0 \in Entry
    BY <2>1 DEF Entry
  <2> HIDE DEF e0
  <2> QED
    BY <1>1, <2>1, <2>2
<1>3. /\ q = <<e0>> \o s
      /\ \A e \in Timeouts : e # d => after[e] = L[e]
      /\ after \in [Timeouts -> Seq(Entry)]
  BY <1>1, <1>2 DEF WithEntry, PushFront
<1> HIDE DEF e0, after
<1>4. /\ q \in Seq(Entry) /\ Len(q) = Len(s) + 1 /\ q[1] = e0
      /\ \A i \in 2 .. Len(q) : i - 1 \in 1 .. Len(s) /\ q[i] = s[i - 1]
  BY <1>2, <1>3
<1>5. e0.data = w /\ e0.end_time = t + d
  BY DEF e0
<1>6. \A i \in 1 .. Len(s) : /\ s[i].data # w /\ T[s[i].data] = d
                             /\ s[i].end_time <= t + d /\ s[i].end_time \in Nat
                             /\ i + 1 \in 1 .. Len(q) /\ q[i + 1] = s[i]
  <2> TAKE i \in 1 .. Len(s)
  <2>1. T[s[i].data] = d /\ s[i].end_time <= t + d
    BY <1>1
  <2>2. s[i] \in Entry
    BY <1>2
  <2>3. i + 1 \in 2 .. Len(q) /\ (i + 1) - 1 = i /\ i + 1 \in 1 .. Len(q)
    BY <1>2, <1>4
  <2>4. q[i + 1] = s[i]
    BY <1>4, <2>3
  <2> QED
    BY <1>2, <2>1, <2>2, <2>3, <2>4 DEF Entry
<1>7. /\ U \in [Waiter -> {npos} \union Timeouts] /\ U[w] = d
      /\ \A v : v # w => U[v] = T[v]
  BY <1>1 DEF In
<1> HIDE DEF U, q, s
<1>8. \A i \in 1 .. Len(q) : i = 1 \/ i \in 2 .. Len(q)
  BY <1>4
<1>9. \A e \in Timeouts : \A i \in 1 .. Len(after[e]) :
        U[after[e][i].data] = e /\ after[e][i].end_time <= t + e
  <2> TAKE e \in Timeouts
  <2> TAKE i \in 1 .. Len(after[e])
  <2>1. CASE e = d
    <3>1. i \in 1 .. Len(q) /\ after[e][i] = q[i]
      BY <2>1 DEF q
    <3>2. CASE i = 1
      BY <1>2, <1>4, <1>5, <1>7, <2>1, <3>1, <3>2
    <3>3. CASE i \in 2 .. Len(q)
      BY <1>4, <1>6, <1>7, <2>1, <3>1, <3>3
    <3> QED
      BY <1>8, <3>1, <3>2, <3>3
  <2>2. CASE e # d
    <3>1. after[e] = L[e] /\ i \in 1 .. Len(L[e])
      BY <1>3, <2>2
    <3>2. T[L[e][i].data] = e /\ L[e][i].end_time <= t + e
      BY <1>1, <3>1
    <3>3. L[e][i].data # w
      BY <3>2, TimerAssumption DEF TimerAssumption, npos
    <3> QED
      BY <1>7, <3>1, <3>2, <3>3
  <2> QED
    BY <2>1, <2>2
<1>10. \A e \in Timeouts : \A i, j \in 1 .. Len(after[e]) :
         /\ after[e][i].data = after[e][j].data => i = j
         /\ i < j => after[e][i].end_time >= after[e][j].end_time
  <2> TAKE e \in Timeouts
  <2> TAKE i, j \in 1 .. Len(after[e])
  <2>1. CASE e = d
    <3>1. /\ i \in 1 .. Len(q) /\ after[e][i] = q[i]
          /\ j \in 1 .. Len(q) /\ after[e][j] = q[j]
      BY <2>1 DEF q
    <3>2. CASE i = 1 /\ j = 1
      BY <3>2
    <3>3. CASE i = 1 /\ j \in 2 .. Len(q)
      <4>1. q[j].data # w /\ q[j].end_time <= t + d /\ q[j].end_time \in Nat
        BY <1>4, <1>6, <3>3
      <4> QED
        BY <1>2, <1>4, <1>5, <3>1, <3>3, <4>1
    <3>4. CASE i \in 2 .. Len(q) /\ j = 1
      <4>1. q[i].data # w
        BY <1>4, <1>6, <3>4
      <4> QED
        BY <1>4, <1>5, <3>1, <3>4, <4>1
    <3>5. CASE i \in 2 .. Len(q) /\ j \in 2 .. Len(q)
      <4>1. /\ i - 1 \in 1 .. Len(s) /\ q[i] = s[i - 1]
            /\ j - 1 \in 1 .. Len(s) /\ q[j] = s[j - 1]
        BY <1>4, <3>5
      <4>2. /\ s[i - 1].data = s[j - 1].data => i - 1 = j - 1
            /\ i - 1 < j - 1 => s[i - 1].end_time >= s[j - 1].end_time
        BY <1>1, <4>1 DEF s
      <4>3. (i - 1 = j - 1 => i = j) /\ (i < j => i - 1 < j - 1)
        BY <3>5
      <4> QED
        BY <3>1, <4>1, <4>2, <4>3
    <3> QED
      BY <1>8, <3>1, <3>2, <3>3, <3>4, <3>5
  <2>2. CASE e # d
    BY <1>1, <1>3, <2>2
  <2> QED
    BY <2>1, <2>2
<1>11. \A v \in Waiter : U[v] # npos => \E i \in 1 .. Len(after[U[v]]) : after[U[v]][i].data = v
  <2> SUFFICES ASSUME NEW v \in Waiter, U[v] # npos
               PROVE  \E i \in 1 .. Len(after[U[v]]) : after[U[v]][i].data = v
    OBVIOUS
  <2>1. CASE v = w
    <3>1. 1 \in 1 .. Len(q)
      BY <1>2, <1>4 DEF s
    <3> QED
      BY <1>4, <1>5, <1>7, <2>1, <3>1 DEF q
  <2>2. CASE v # w
    <3>1. U[v] = T[v]
      BY <1>7, <2>2
    <3>2. PICK i \in 1 .. Len(L[T[v]]) : L[T[v]][i].data = v
      BY <1>1, <3>1
    <3>3. CASE T[v] = d
      BY <1>6, <3>1, <3>2, <3>3 DEF q, s
    <3>4. CASE T[v] # d
      <4>1. T[v] \in Timeouts
        BY <1>1, <3>1
      <4> QED
        BY <1>3, <3>1, <3>2, <3>4, <4>1
    <3> QED
      BY <3>3, <3>4
  <2> QED
    BY <2>1, <2>2
<1>12. ListsOK(after, U, t)
  BY <1>3, <1>7, <1>9, <1>10, <1>11 DEF ListsOK
<1>13. q # << >>
  BY <1>4, <1>2 DEF s
<1>14. Armed(after) = Armed(L) \union {d}
  BY <1>3, <1>13 DEF Armed, q
<1>15. HeapOK(AddedHeap(h, after, d), after)
  BY <1>3, <1>14, AddedOK
<1> QED
  BY <1>12, <1>15 DEF U, after

LEMMA InitOK ==
  ASSUME Init
  PROVE  TimerInv
<1>1. ListsOK(list, that, now)
  <2>1. \A d \in Timeouts : list[d] = << >> /\ Len(list[d]) = 0
    BY DEF Init
  <2> QED
    BY <2>1 DEF Init, ListsOK
<1>2. Armed(list) = {}
  BY DEF Init, Armed
<1>3. heap \in Seq(Timeouts) /\ Len(heap) = 0 /\ DOMAIN heap = {} /\ 1 .. Len(heap) = {}
  BY DEF Init
<1>4. HeapOK(heap, list)
  BY <1>2, <1>3 DEF HeapOK, Once
<1> QED
  BY <1>1, <1>4, TimerAssumption DEF Init, TimerInv, TimerAssumption

LEMMA ClearStep ==
  ASSUME TimerInv, NEW w \in Waiter, ClearTimeout(w)
  PROVE  TimerInv'
<1>1. /\ list' = ListsWithout(w) /\ heap' = HeapWithout(w)
      /\ that' = [that EXCEPT ![w] = npos] /\ now' = now
  BY DEF ClearTimeout
<1>2. /\ ListsOK(ListsWithout(w), [that EXCEPT ![w] = npos], now)
      /\ HeapOK(HeapWithout(w), ListsWithout(w))
  BY Removed
<1>3. now \in 0 .. MaxNow
  BY DEF TimerInv
<1>4. ListsOK(list', that', now') /\ HeapOK(heap', list') /\ now' \in 0 .. MaxNow
  BY <1>1, <1>2, <1>3
<1> QED
  BY <1>4 DEF TimerInv

LEMMA SetStep ==
  ASSUME TimerInv, NEW w \in Waiter, NEW d \in Timeouts, SetTimeout(w, d)
  PROVE  TimerInv'
<1> DEFINE L == ListsWithout(w)
           T == [that EXCEPT ![w] = npos]
           after == WithEntry(L, w, d, now)
<1>1. /\ list' = after /\ heap' = AddedHeap(HeapWithout(w), after, d)
      /\ that' = [that EXCEPT ![w] = d] /\ now' = now
  BY DEF SetTimeout, EndTime, WithEntry
<1>2. ListsOK(L, T, now) /\ HeapOK(HeapWithout(w), L)
  BY Removed
<1>3. now \in 0 .. MaxNow /\ now \in Nat
  BY TimerAssumption DEF TimerInv, TimerAssumption
<1>4. that \in [Waiter -> {npos} \union Timeouts]
  BY DEF TimerInv, ListsOK
<1>5. T[w] = npos /\ In(T, w, d) = [that EXCEPT ![w] = d]
  BY <1>4 DEF In
<1> HIDE DEF L, T
<1>6. ListsOK(after, In(T, w, d), now) /\ HeapOK(AddedHeap(HeapWithout(w), after, d), after)
  BY <1>2, <1>3, <1>5, Added
<1>7. ListsOK(list', that', now') /\ HeapOK(heap', list') /\ now' \in 0 .. MaxNow
  BY <1>1, <1>3, <1>5, <1>6
<1> QED
  BY <1>7 DEF TimerInv

(* Time passes.                                                            *)
LEMMA LaterOK ==
  ASSUME NEW L, NEW T, NEW t \in Nat, ListsOK(L, T, t), NEW u \in Nat, t <= u
  PROVE  ListsOK(L, T, u)
<1>1. L \in [Timeouts -> Seq(Entry)]
  BY DEF ListsOK
<1>2. \A d \in Timeouts : \A i \in 1 .. Len(L[d]) : L[d][i].end_time <= u + d
  <2> TAKE d \in Timeouts
  <2> TAKE i \in 1 .. Len(L[d])
  <2>1. L[d][i] \in Entry
    BY <1>1
  <2>2. L[d][i].end_time \in Nat /\ L[d][i].end_time <= t + d
    BY <2>1 DEF ListsOK, Entry
  <2>3. d \in Nat
    BY TimerAssumption DEF TimerAssumption
  <2> QED
    BY <2>2, <2>3
<1> QED
  BY <1>2 DEF ListsOK

LEMMA RefreshStep ==
  ASSUME TimerInv, Refresh
  PROVE  TimerInv'
<1>1. /\ now < MaxNow /\ now' = now + 1
      /\ list' = list /\ heap' = heap /\ that' = that
  BY DEF Refresh
<1>2. now \in Nat /\ now' \in Nat /\ now <= now' /\ now' \in 0 .. MaxNow
  BY <1>1, TimerAssumption DEF TimerInv, TimerAssumption
<1>3. ListsOK(list, that, now) /\ HeapOK(heap, list)
  BY DEF TimerInv
<1>4. ListsOK(list, that, now')
  BY <1>2, <1>3, LaterOK
<1>5. ListsOK(list', that', now') /\ HeapOK(heap', list')
  BY <1>1, <1>3, <1>4
<1> QED
  BY <1>2, <1>5 DEF TimerInv

(* The list on top of the heap, its oldest entry, and its waiter.          *)
LEMMA TopIs ==
  ASSUME TimerInv, heap # << >>
  PROVE  LET d == heap[1]  s == list[d]  w == Last(s).data IN
         /\ d \in Timeouts /\ s \in Seq(Entry) /\ Len(s) \in 1 .. Len(s)
         /\ Last(s) = s[Len(s)] /\ Last(s) \in Entry /\ w \in Waiter /\ that[w] = d
         /\ Last(s).end_time \in Nat /\ Last(s).end_time <= now + d
         /\ \A i \in 1 .. Len(s) : s[i].data = w => i = Len(s)
<1> DEFINE d == heap[1]
           s == list[d]
           n == Len(s)
<1>1. ListsOK(list, that, now) /\ heap \in Seq(Timeouts) /\ Once(heap, 1 .. Len(heap), Armed(list))
  BY DEF TimerInv, HeapOK
<1>2. 1 \in 1 .. Len(heap)
  BY <1>1
<1>3. d \in Armed(list)
  BY <1>1, <1>2 DEF Once
<1>4. d \in Timeouts /\ s # << >>
  BY <1>3 DEF Armed
<1>5. s \in Seq(Entry)
  BY <1>1, <1>4 DEF ListsOK
<1>6. n \in 1 .. n
  BY <1>4, <1>5
<1>7. Last(s) = s[n] /\ s[n] \in Entry
  BY <1>5, <1>6 DEF Last
<1>8. s[n].data \in Waiter /\ s[n].end_time \in Nat
  BY <1>7 DEF Entry
<1>9. that[s[n].data] = d /\ s[n].end_time <= now + d
  BY <1>1, <1>4, <1>6 DEF ListsOK
<1>10. \A i \in 1 .. n : s[i].data = s[n].data => i = n
  BY <1>1, <1>4, <1>6 DEF ListsOK
<1> QED
  BY <1>4, <1>5, <1>6, <1>7, <1>8, <1>9, <1>10

LEMMA ResumeStep ==
  ASSUME TimerInv, ResumeOnTimeout
  PROVE  TimerInv'
<1> DEFINE next == Last(list[heap[1]])
           w == next.data
<1>1. /\ heap # << >>
      /\ list' = ListsWithout(w) /\ heap' = HeapWithout(w)
      /\ that' = [that EXCEPT ![w] = npos]
  BY DEF ResumeOnTimeout
<1>2. w \in Waiter /\ next.end_time \in Nat
  BY <1>1, TopIs
<1>3. now \in Nat /\ now \in 0 .. MaxNow /\ MaxNow \in Nat
  BY TimerAssumption DEF TimerInv, TimerAssumption
<1>4. now' \in Nat /\ now <= now' /\ now' \in 0 .. MaxNow
  <2>1. CASE now' = now
    BY <1>3, <2>1
  <2>2. CASE WaitTime(next.end_time - now) >= 0 /\ now' = now + WaitTime(next.end_time - now) /\ now' <= MaxNow
    <3>1. WaitTime(next.end_time - now) \in Int
      <4>1. next.end_time - now \in Int /\ IntMod \in Nat /\ IntMod >= 2
        BY <1>2, <1>3, TimerAssumption DEF TimerAssumption
      <4> QED
        BY <4>1 DEF WaitTime
    <3> QED
      BY <1>3, <2>2, <3>1
  <2> QED
    BY <2>1, <2>2 DEF ResumeOnTimeout
<1> HIDE DEF w
<1>5. /\ ListsOK(ListsWithout(w), [that EXCEPT ![w] = npos], now)
      /\ HeapOK(HeapWithout(w), ListsWithout(w))
  BY <1>2, Removed
<1>6. ListsOK(ListsWithout(w), [that EXCEPT ![w] = npos], now')
  BY <1>3, <1>4, <1>5, LaterOK
<1>7. ListsOK(list', that', now') /\ HeapOK(heap', list')
  BY <1>1, <1>5, <1>6
<1> QED
  BY <1>4, <1>7 DEF TimerInv

LEMMA NextKeeps ==
  ASSUME TimerInv, [Next]_vars
  PROVE  TimerInv'
<1>1. ASSUME NEW w \in Waiter, NEW d \in Uses[w], SetTimeout(w, d) PROVE TimerInv'
  <2>1. d \in Timeouts
    BY TimerAssumption DEF TimerAssumption
  <2> QED
    BY <1>1, <2>1, SetStep
<1>2. ASSUME NEW w \in Waiter, ClearTimeout(w) PROVE TimerInv'
  BY <1>2, ClearStep
<1>3. CASE UNCHANGED vars
  BY <1>3 DEF vars, TimerInv, ListsOK, HeapOK, Once, Armed
<1> QED
  BY <1>1, <1>2, <1>3, RefreshStep, ResumeStep DEF Next

------------------------------------------------------------------------------
(* The theorems.                                                           *)

(* The lists and the heap agree with each other and with what the waiters  *)
(* point at (set_timeout, clear_timeout, resume_on_timeout).               *)
THEOREM TimerHolds == Spec => []TimerInv
<1>1. Init => TimerInv
  BY InitOK
<1>2. TimerInv /\ [Next]_vars => TimerInv'
  BY NextKeeps
<1> QED
  BY <1>1, <1>2, PTL DEF Spec

(* The lists, the heap and the clock keep their types: every index that    *)
(* the two moves in the heap compute is one of the array's.                *)
THEOREM TimerTypes == Spec => []TypeOK
<1>1. TimerInv => TypeOK
  BY DEF TimerInv, ListsOK, HeapOK, TypeOK
<1> QED
  BY <1>1, TimerHolds, PTL

LEMMA EntriesAgree ==
  ASSUME TimerInv
  PROVE  ArmedOnce /\ OldestLast
<1>1. ListsOK(list, that, now)
  BY DEF TimerInv
<1>2. \A d \in Timeouts : list[d] \in Seq(Entry) /\ DOMAIN list[d] = 1 .. Len(list[d])
  <2> TAKE d \in Timeouts
  <2>1. list[d] \in Seq(Entry)
    BY <1>1 DEF ListsOK
  <2> QED
    BY <2>1
<1>3. ASSUME NEW w \in Waiter, NEW d \in Timeouts
      PROVE  Cardinality({i \in DOMAIN list[d] : list[d][i].data = w}) =
               IF that[w] = d THEN 1 ELSE 0
  <2> DEFINE I == {i \in DOMAIN list[d] : list[d][i].data = w}
  <2>1. CASE that[w] = d
    <3>1. that[w] # npos
      BY <2>1, TimerAssumption DEF TimerAssumption, npos
    <3>2. PICK i \in 1 .. Len(list[d]) : list[d][i].data = w
      BY <1>1, <2>1, <3>1 DEF ListsOK
    <3>3. I = {i}
      BY <1>1, <1>2, <3>2 DEF ListsOK
    <3>4. Cardinality(I) = 1
      BY <3>3, FS_Singleton
    <3> QED
      BY <2>1, <3>4
  <2>2. CASE that[w] # d
    <3>1. I = {}
      BY <1>1, <1>2, <2>2 DEF ListsOK
    <3>2. Cardinality(I) = 0
      BY <3>1, FS_EmptySet
    <3> QED
      BY <2>2, <3>2
  <2> QED
    BY <2>1, <2>2
<1>4. OldestLast
  BY <1>1, <1>2 DEF ListsOK, OldestLast
<1> QED
  BY <1>3, <1>4 DEF ArmedOnce

(* No timeout is forgotten and none is served twice: the heap holds the    *)
(* lists that are not empty, each once, and each armed waiter is in its    *)
(* list once, in the order of the ends (add_timer, remove_timer).          *)
THEOREM HeapExactHolds == Spec => []HeapExact
<1>1. TimerInv => HeapExact
  <2> SUFFICES ASSUME TimerInv PROVE HeapExact
    OBVIOUS
  <2>1. heap \in Seq(Timeouts) /\ Once(heap, 1 .. Len(heap), Armed(list))
    BY DEF TimerInv, HeapOK
  <2>2. DOMAIN heap = 1 .. Len(heap)
    BY <2>1
  <2>3. IsInjective(heap) /\ Range(heap) = Armed(list)
    BY <2>1, <2>2 DEF Once, IsInjective, Range
  <2> QED
    BY <2>3, EntriesAgree DEF HeapExact, Armed
<1> QED
  BY <1>1, TimerHolds, PTL

(* The timeouts are as short as an int of milliseconds can say.            *)
Short == \A d \in Timeouts : d < IntMod \div 2

LEMMA WaitsAll ==
  ASSUME NEW ms \in Nat, ms < IntMod \div 2
  PROVE  WaitTime(ms) = ms
<1>1. IntMod \in Nat /\ IntMod >= 2
  BY TimerAssumption DEF TimerAssumption
<1>2. IntMod \div 2 <= IntMod
  BY <1>1
<1>3. ms % IntMod = ms
  BY <1>1, <1>2
<1> QED
  BY <1>3 DEF WaitTime

(* No coroutine is resumed before its time is over, as long as no timeout  *)
(* is longer than an int can say (cort_timer_loop, cort_timer_poll).       *)
THEOREM NeverEarlyHolds ==
  ASSUME Short
  PROVE  Spec => NeverEarly
<1> DEFINE Early ==
      \A w \in Waiter :
        ResumeOnTimeout /\ that[w] # npos /\ that'[w] = npos =>
          \A i \in DOMAIN list[that[w]] :
            list[that[w]][i].data = w => now' >= list[that[w]][i].end_time
<1>1. TimerInv /\ [Next]_vars => [Early]_vars
  <2> SUFFICES ASSUME TimerInv, NEW w \in Waiter, ResumeOnTimeout,
                      that[w] # npos, that'[w] = npos,
                      NEW i \in DOMAIN list[that[w]], list[that[w]][i].data = w
               PROVE  now' >= list[that[w]][i].end_time
    OBVIOUS
  <2> DEFINE d == heap[1]
             s == list[d]
             next == Last(s)
  <2>1. heap # << >> /\ that' = [that EXCEPT ![next.data] = npos]
    BY DEF ResumeOnTimeout
  <2>2. /\ d \in Timeouts /\ s \in Seq(Entry) /\ next = s[Len(s)]
        /\ next.data \in Waiter /\ that[next.data] = d
        /\ next.end_time \in Nat /\ next.end_time <= now + d
        /\ \A j \in 1 .. Len(s) : s[j].data = next.data => j = Len(s)
    BY <2>1, TopIs
  <2>3. that \in [Waiter -> {npos} \union Timeouts]
    BY DEF TimerInv, ListsOK
  <2>4. w = next.data
    BY <2>1, <2>3
  <2>5. that[w] = d /\ i \in 1 .. Len(s) /\ s[i].data = w
    <3>1. that[w] = d /\ list[that[w]] = s
      BY <2>2, <2>4
    <3>2. DOMAIN s = 1 .. Len(s)
      BY <2>2
    <3> QED
      BY <3>1, <3>2
  <2>6. list[that[w]][i] = next
    <3>1. list[that[w]] = s
      BY <2>5
    <3>2. i = Len(s) /\ next = s[Len(s)]
      BY <2>2, <2>4, <2>5
    <3> QED
      BY ONLY <3>1, <3>2
  <2>7. now \in Nat /\ d \in Nat
    <3>1. now \in 0 .. MaxNow /\ MaxNow \in Nat
      BY TimerAssumption DEF TimerInv, TimerAssumption
    <3>2. d \in Nat
      BY <2>2, TimerAssumption DEF TimerAssumption
    <3> QED
      BY <3>1, <3>2
  <2>8. now' >= next.end_time
    <3>1. CASE next.end_time <= now /\ now' = now
      BY <2>2, <2>7, <3>1
    <3>2. CASE next.end_time > now /\ now' = now + WaitTime(next.end_time - now)
      <4>1. next.end_time - now \in Nat /\ next.end_time - now <= d /\ IntMod \div 2 \in Int
        BY <2>2, <2>7, <3>2, TimerAssumption DEF TimerAssumption
      <4>2. d < IntMod \div 2
        BY <2>2 DEF Short
      <4>3. next.end_time - now < IntMod \div 2
        BY <2>7, <4>1, <4>2
      <4>4. WaitTime(next.end_time - now) = next.end_time - now
        BY <4>1, <4>3, WaitsAll
      <4> QED
        BY <2>2, <2>7, <3>2, <4>4
    <3> QED
      BY <3>1, <3>2 DEF ResumeOnTimeout
  <2> QED
    BY <2>6, <2>8
<1>2. Spec => [][Early]_vars
  BY <1>1, TimerHolds, PTL DEF Spec
<1> QED
  BY <1>2 DEF NeverEarly
=============================================================================
