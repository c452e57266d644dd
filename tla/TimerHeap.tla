------------------------------ MODULE TimerHeap ------------------------------
(***************************************************************************)
(* cort_timer and the loop of cort_timer_loop: the coroutines with the     *)
(* same timeout share a list, newest first, and a binary heap orders the   *)
(* lists that are not empty by the end time of their last, oldest entry.   *)
(* The loop takes the list on top of the heap, polls until the end time    *)
(* and resumes the coroutine with a timeout.  What coroutines and fd       *)
(* callbacks do between two turns is any sequence of set_timeout and       *)
(* clear_timeout calls.                                                    *)
(***************************************************************************)
EXTENDS Integers, Sequences, FiniteSets, SequencesExt

CONSTANTS
  Waiter,    \* the cort_timeout_waiters
  Timeouts,  \* the timeouts they set, in milliseconds
  Uses,      \* of each waiter, the ones it sets
  IntMod,    \* int, the type of epoll_wait's timeout, is modulo IntMod
  MaxNow     \* bound of the clock

ASSUME TimerAssumption ==
  /\ IsFiniteSet(Waiter)
  /\ Timeouts \subseteq Nat /\ IsFiniteSet(Timeouts)
  /\ Uses \in [Waiter -> SUBSET Timeouts]
  /\ IntMod \in Nat /\ IntMod >= 2
  /\ MaxNow \in Nat

VARIABLES
  now,       \* cort_timer_now_ms(), which only moves when it is refreshed
  list,      \* the list of each timeout, newest entry first
  heap,      \* timer_heap[0 .. timer_size - 1] as a sequence of timeouts
  that       \* the timeout whose list a waiter is in, or npos

vars == <<now, list, heap, that>>

npos == -1

Entry == [data : Waiter, end_time : Nat]

TypeOK ==
  /\ now \in 0 .. MaxNow
  /\ list \in [Timeouts -> Seq(Entry)]
  /\ heap \in Seq(Timeouts)
  /\ that \in [Waiter -> {npos} \union Timeouts]

Init ==
  /\ now = 0
  /\ list = [d \in Timeouts |-> << >>]
  /\ heap = << >>
  /\ that = [w \in Waiter |-> npos]

------------------------------------------------------------------------------
(* The heap.  h is the array with indices from 0, key the end time of each *)
(* list's oldest entry, size the timer_size in force.                      *)

Key(lists, d) == Last(lists[d]).end_time
KeyOf(lists) == [d \in {x \in Timeouts : lists[x] # << >>} |-> Key(lists, d)]

(* The indices at which up_update_heap tries its element, from pos on.     *)
UpPath(pos) ==
  LET f[p \in 0 .. pos] == IF p = 0 THEN <<0>> ELSE <<p>> \o f[p \div 2]
  IN f[pos]

(* up_update_heap: the element at pos moves along the path while it is     *)
(* less than the next one on it.                                           *)
Up(h, key, pos) ==
  LET path == UpPath(pos)
      me == h[pos]
      stop == CHOOSE n \in 1 .. Len(path) :
                /\ \A k \in 2 .. n : key[me] < key[h[path[k]]]
                /\ n < Len(path) => key[me] >= key[h[path[n + 1]]]
  IN
  [i \in DOMAIN h |->
     IF i = path[stop] THEN me
     ELSE IF \E k \in 1 .. stop - 1 : path[k] = i
       THEN h[path[(CHOOSE k \in 1 .. stop - 1 : path[k] = i) + 1]]
     ELSE h[i]]

MFirstChild(h, key, i, size) == 2 * i + 1
(* The child of i that ends earlier; the left one if both end together.    *)
Child(h, key, i, size) ==
  IF 2 * i + 2 < size /\ key[h[2 * i + 1]] > key[h[2 * i + 2]]
    THEN 2 * i + 2 ELSE 2 * i + 1

(* down_update_heap: the element at pos moves down while the earlier child *)
(* ends before it.                                                         *)
Down(h, key, pos, size) ==
  LET me == h[pos]
      f[i \in 0 .. size] ==
        IF 2 * i + 1 < size /\ key[h[Child(h, key, i, size)]] < key[me]
          THEN <<i>> \o f[Child(h, key, i, size)]
          ELSE <<i>>
      path == f[pos]
  IN
  [i \in DOMAIN h |->
     IF i = Last(path) THEN me
     ELSE IF \E k \in 1 .. Len(path) - 1 : path[k] = i
       THEN h[path[(CHOOSE k \in 1 .. Len(path) - 1 : path[k] = i) + 1]]
     ELSE h[i]]

Array(s) == [i \in 0 .. Len(s) - 1 |-> s[i + 1]]
Heap(h, size) == [i \in 1 .. size |-> h[i - 1]]

(* heap_pos: the index of the list d in the array.                         *)
HeapPos(d) == (CHOOSE i \in DOMAIN heap : heap[i] = d) - 1

------------------------------------------------------------------------------
(* The list s without the entry of w, of which there is one.               *)
Without(s, w) == RemoveAt(s, CHOOSE i \in DOMAIN s : s[i].data = w)

(* remove_time_out(pos), when the oldest entry of the list there has gone: *)
(* the list moves down, or, when it is empty, the last list takes its      *)
(* place and moves down.                                                   *)
RemoveTimeOut(h, lists, pos) ==
  LET size == Len(h)
      a == Array(h)
  IN
  IF lists[a[pos]] # << >>
    THEN Heap(Down(a, KeyOf(lists), pos, size), size)
    ELSE IF pos = size - 1 THEN Front(h)
    ELSE Heap(Down([a EXCEPT ![pos] = a[size - 1]], KeyOf(lists), pos, size - 1),
              size - 1)

(* The lists and the heap after remove_timer of w.                         *)
ListsWithout(w) ==
  IF that[w] = npos THEN list ELSE [list EXCEPT ![that[w]] = Without(@, w)]

HeapWithout(w) ==
  IF that[w] # npos /\ Last(list[that[w]]).data = w
    THEN RemoveTimeOut(heap, ListsWithout(w), HeapPos(that[w]))
    ELSE heap

(* clear_timeout()                                                         *)
ClearTimeout(w) ==
  /\ that[w] # npos
  /\ list' = ListsWithout(w)
  /\ heap' = HeapWithout(w)
  /\ that' = [that EXCEPT ![w] = npos]
  /\ now' = now

EndTime(d) == now + d

PushFront(s, e) == <<e>> \o s

MAddedAgain(h, lists, d) == Append(h, d)
(* add_timer's end: a list that is not in the heap is added behind the     *)
(* last one and moves up.                                                  *)
AddedHeap(h, lists, d) ==
  IF d \in Range(h) THEN h
  ELSE Heap(Up(Array(Append(h, d)), KeyOf(lists), Len(h)), Len(h) + 1)

(* set_timeout(d): clear_timeout(), then add_timer().                      *)
SetTimeout(w, d) ==
  LET h == HeapWithout(w)
      before == ListsWithout(w)
      after == [before EXCEPT ![d] = PushFront(@, [data |-> w, end_time |-> EndTime(d)])]
  IN
  /\ list' = after
  /\ heap' = AddedHeap(h, after, d)
  /\ that' = [that EXCEPT ![w] = d]
  /\ now' = now

(* cort_timer_now_ms_refresh(), by a coroutine or by a poll that an fd     *)
(* event ends.                                                             *)
Refresh ==
  /\ now < MaxNow
  /\ now' = now + 1
  /\ UNCHANGED <<list, heap, that>>

(* int(until_ms - current_ms): the poll waits that long; for ever if it is *)
(* negative.                                                               *)
MHalved(ms) == ms \div 2
WaitTime(ms) ==
  IF ms % IntMod < IntMod \div 2 THEN ms % IntMod ELSE (ms % IntMod) - IntMod

(* One turn of the loop that ends with a timeout: nothing happens until    *)
(* the poll is over, and the coroutine is taken off and resumed.           *)
ResumeOnTimeout ==
  /\ heap # << >>
  /\ LET next == Last(list[heap[1]])
         w == next.data
     IN
     /\ \/ next.end_time <= now /\ now' = now
        \/ /\ next.end_time > now
           /\ WaitTime(next.end_time - now) >= 0
           /\ now' = now + WaitTime(next.end_time - now)
           /\ now' <= MaxNow
     /\ list' = ListsWithout(w)
     /\ heap' = HeapWithout(w)
     /\ that' = [that EXCEPT ![w] = npos]

Next ==
  \/ \E w \in Waiter : \E d \in Uses[w] : SetTimeout(w, d)
  \/ \E w \in Waiter : ClearTimeout(w)
  \/ Refresh
  \/ ResumeOnTimeout

Spec == Init /\ [][Next]_vars

------------------------------------------------------------------------------
(* Properties.                                                             *)

(* A waiter is in the list that "that" points into, once, and in no other: *)
(* setting a timeout again replaces the old one, and one that was resumed  *)
(* is not resumed again (set_timeout, clear_timeout, resume_on_timeout).   *)
ArmedOnce ==
  \A w \in Waiter, d \in Timeouts :
    Cardinality({i \in DOMAIN list[d] : list[d][i].data = w}) =
      IF that[w] = d THEN 1 ELSE 0

(* Within a list the last entry ends first, as get_next_timer and the heap *)
(* assume of back().                                                       *)
OldestLast ==
  \A d \in Timeouts : \A i, j \in DOMAIN list[d] :
    i < j => list[d][i].end_time >= list[d][j].end_time

(* The heap holds each list that is not empty once and no other, whichever *)
(* lists become empty or move, and each armed waiter is in one list: no    *)
(* timeout is forgotten, and the heap never reads the end time of an empty *)
(* list (add_timer, remove_timer, remove_time_out).                        *)
HeapExact ==
  /\ IsInjective(heap)
  /\ Range(heap) = {d \in Timeouts : list[d] # << >>}
  /\ ArmedOnce /\ OldestLast

(* The list on top of the heap has the earliest end time of all: the loop  *)
(* sleeps no longer than the first timeout, and a coroutine that sets a    *)
(* timeout is resumed when the time is over.                               *)
NextIsEarliest ==
  heap # << >> =>
    \A i \in DOMAIN heap : Key(list, heap[1]) <= Key(list, heap[i])

(* No coroutine is resumed before its time is over.                        *)
NeverEarly ==
  [][\A w \in Waiter :
       ResumeOnTimeout /\ that[w] # npos /\ that'[w] = npos =>
         \A i \in DOMAIN list[that[w]] :
           list[that[w]][i].data = w => now' >= list[that[w]][i].end_time]_vars
=============================================================================
