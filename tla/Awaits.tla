-------------------------------- MODULE Awaits --------------------------------
(***************************************************************************)
(* Two coroutines that stand between others: cort_wait_n, which a          *)
(* statement that awaits any n of several coroutines puts between them and *)
(* the coroutine that executes it, and cort_shared_future, which several   *)
(* coroutines await.  Both resume those that wait for them by hand, from   *)
(* inside their own activation, and go on when that call returns: in the   *)
(* meantime the resumed body may let others finish, or await again.        *)
(*                                                                         *)
(* Activations are kept on a stack, as in CortProto; the coroutines that   *)
(* are awaited are leaves: they wait for an event of their own.            *)
(***************************************************************************)
EXTENDS Integers, Sequences, FiniteSets, SequencesExt

CONSTANTS
  Leaf,        \* the coroutines that are awaited
  Awaiter,     \* the coroutines that await
  Helper,      \* the cort_wait_n objects there is memory for
  Future,      \* the shared future
  NoCort,      \* the null pointer
  SizeMod,     \* size_t arithmetic is modulo SizeMod
  Statements   \* bound: await statements of a body

(* More than a body's wait count is ever decremented by: each leaf and     *)
(* each run of the future, of which a leaf starts one, does it once, and   *)
(* the future once for each statement that awaits it.                      *)
Decrements == 2 * Cardinality(Leaf) + Cardinality(Awaiter \X (1 .. Statements))

ASSUME AwaitsAssumption ==
  /\ IsFiniteSet(Leaf) /\ IsFiniteSet(Awaiter) /\ IsFiniteSet(Helper)
  /\ NoCort \notin Leaf \union Awaiter \union Helper \union {Future}
  /\ Future \notin Leaf \union Awaiter \union Helper
  /\ Leaf \cap (Awaiter \union Helper) = {} /\ Awaiter \cap Helper = {}
  /\ Statements \in Nat
  /\ SizeMod \in Nat /\ Decrements + 1 < SizeMod

VARIABLES
  counted,     \* the future is counted: made by create(), held by add_ref()
  leaf,        \* whether a leaf is idle, waiting or done
  parent,      \* cort_parent
  wait_count,  \* cort_wait_count
  rest,        \* rest_wait_count
  phase,       \* the resume point of a helper and of the future
  pc,          \* the statement that an awaiter waits in
  call,        \* what a statement of the any kind waits for
  parent_list, \* parent_list of the future
  holds,       \* the awaiters that hold a reference of the future
  stack,       \* the activations, innermost last
  slips,       \* the leaves that finished while their helper resumed its parent,
               \* and the awaiters that the future resumed once more at its end
  left         \* await statements left

stand == <<rest, phase, slips>>
future == <<counted, parent_list, holds>>
bodies == <<pc, call, left>>
vars == <<counted, leaf, parent, wait_count, rest, phase, pc, call, parent_list,
          holds, stack, slips, left>>

Waiter == Awaiter \union Helper \union {Future}
Kids(w) == {l \in Leaf : parent[l] = w /\ leaf[l] = "waiting"}
NoCall == [args |-> {}, need |-> 0]
Done(p) == {l \in call[p].args : leaf[l] = "done"}

Frames == [who : Waiter, saved : Awaiter \union {NoCort}, ref : BOOLEAN,
           at : {"wake", "resuming", "parents", "check"}]
On(w, s) == \E i \in 1 .. Len(s) : s[i].who = w
Resuming(h, s) == \E i \in 1 .. Len(s) : s[i].who = h /\ s[i].at = "resuming"

Top == Last(stack)
Runs(w) == stack # << >> /\ Top.who = w

(* resume(): the parent is saved before the callback is called.            *)
Frame(w) == [who |-> w, saved |-> parent[w], at |-> "wake", ref |-> FALSE]

(* Counted references: those of the awaiters and of the future's own runs. *)
RefCount(h, s) == Cardinality(h) + Cardinality({i \in 1 .. Len(s) : s[i].ref})

TypeOK ==
  /\ counted \in BOOLEAN
  /\ leaf \in [Leaf -> {"idle", "waiting", "done"}]
  /\ parent \in [Leaf \union Waiter -> Waiter \union {NoCort}]
  /\ \A w \in Waiter : parent[w] \in Awaiter \union {NoCort}
  /\ wait_count \in [Waiter -> 0 .. SizeMod - 1]
  /\ rest \in [Helper -> 0 .. SizeMod - 1]
  /\ phase \in [Helper \union {Future} -> {"none", "first", "rest", "deleted"}]
  /\ pc \in [Awaiter -> {"new", "any", "future", "leaf", "on", "done"}]
  /\ call \in [Awaiter -> [args : SUBSET Leaf, need : Nat]]
  /\ parent_list \in Seq(Awaiter)
  /\ holds \subseteq Awaiter
  /\ stack \in Seq(Frames)
  /\ slips \subseteq Leaf \union Awaiter
  /\ left \in [Awaiter -> 0 .. Statements]

Init ==
  /\ counted \in BOOLEAN
  /\ leaf = [l \in Leaf |-> "idle"]
  /\ parent = [c \in Leaf \union Waiter |-> NoCort]
  /\ wait_count = [w \in Waiter |-> 0]
  /\ rest = [h \in Helper |-> 0]
  /\ phase = [h \in Helper \union {Future} |-> "none"]
  /\ pc = [p \in Awaiter |-> "new"]
  /\ call = [p \in Awaiter |-> NoCall]
  /\ parent_list = << >>
  /\ holds = {} /\ slips = {}
  /\ stack = << >>
  /\ left = [p \in Awaiter |-> Statements]

------------------------------------------------------------------------------
(* Resuming.                                                               *)

Decr(n) == (n - 1) % SizeMod

(* try_resume() of w, and what resume() does to a parent it has saved.     *)
TryResume(w, below) ==
  /\ wait_count' = [wait_count EXCEPT ![w] = Decr(@)]
  /\ stack' = IF Decr(wait_count[w]) = 0 THEN Append(below, Frame(w)) ELSE below

Below == Front(stack)
TopAt(place) == Append(Below, [Top EXCEPT !.at = place])
InBody == stack # << >> => Top.who \in Awaiter

(* The helper of l has resumed its parent and is not back yet.             *)
Missed(l) ==
  IF Resuming(parent[l], stack) THEN {l} ELSE {}

(* A leaf finishes: by its event, from the loop or from a running body.    *)
LeafDone(l) ==
  /\ InBody
  /\ leaf[l] = "waiting"
  /\ leaf' = [leaf EXCEPT ![l] = "done"]
  /\ slips' = slips \union Missed(l)
  /\ IF parent[l] = NoCort
       THEN UNCHANGED <<wait_count, stack>>
       ELSE TryResume(parent[l], stack)
  /\ UNCHANGED <<parent, rest, phase, future, bodies>>

(* A leaf is started and awaited by nobody, for until().                   *)
LeafStarts(l) ==
  /\ stack = << >>
  /\ leaf[l] = "idle"
  /\ leaf' = [leaf EXCEPT ![l] = "waiting"]
  /\ UNCHANGED <<parent, wait_count, stand, future, stack, bodies>>

------------------------------------------------------------------------------
(* cort_wait_n.                                                            *)

(* init_resume_any(): the count of the first, and what is left after them. *)
Rest(h, first, total) == rest' = [rest EXCEPT ![h] = (total - first) % SizeMod]

(* new cort_wait_n() in front of the leaves of W, and its start().         *)
NewHelper(h, W, first, total, p) ==
  /\ phase[h] = "none"
  /\ phase' = [phase EXCEPT ![h] = "first"]
  /\ wait_count' = [wait_count EXCEPT ![h] = first]
  /\ Rest(h, first, total)
  /\ parent' = [c \in DOMAIN parent |-> IF c = h THEN p
                                        ELSE IF c \in W THEN h ELSE parent[c]]

(* The loop over the arguments is over: W wait and so many have finished.  *)
(* With enough of them the statement goes on at once, and a helper stays   *)
(* for those that wait; else p waits for the rest of its n.                *)
Enough(p, W) ==
  /\ \/ W = {} /\ UNCHANGED <<parent, wait_count, rest, phase>>
     \/ W # {} /\ \E h \in Helper : NewHelper(h, W, Cardinality(W), Cardinality(W), NoCort)
  /\ pc' = [pc EXCEPT ![p] = "on"]
  /\ UNCHANGED <<call, stack>>

MOneMore(n) == n + 1
ToGo(n) == n

WaitsFor(p, W, need) ==
  /\ \E h \in Helper : NewHelper(h, W, ToGo(need), Cardinality(W), p)
  /\ pc' = [pc EXCEPT ![p] = "any"]
  /\ call' = [call EXCEPT ![p] = [args |-> W, need |-> need]]
  /\ stack' = Below

(* An await statement of the body on top of the stack.                     *)
Statement(p) ==
  /\ Runs(p)
  /\ left[p] > 0
  /\ left' = [left EXCEPT ![p] = @ - 1]

(* CO_AWAIT_ANY_N and CO_AWAIT_RANGE_ANY_N start the arguments one by one; *)
(* the n-th that finishes at once ends the loop.  cort_wait_range_any()    *)
(* waits for all that wait (every), whatever the n.                        *)
StartAny(p, every) ==
  /\ Statement(p)
  /\ \E W \in SUBSET {l \in Leaf : leaf[l] = "idle"} :
       \E atOnce \in SUBSET ({l \in Leaf : leaf[l] = "idle"} \ W) :
         /\ leaf' = [l \in Leaf |-> IF l \in W THEN "waiting"
                                    ELSE IF l \in atOnce THEN "done" ELSE leaf[l]]
         /\ \/ atOnce # {} /\ Enough(p, W)
            \/ \E n \in 1 .. Cardinality(W) :
                 WaitsFor(p, W, IF every THEN Cardinality(W) ELSE n)
  /\ UNCHANGED <<slips, future>>

AwaitAny(p) == StartAny(p, FALSE)
AwaitRangeAny(p) == StartAny(p, TRUE)

(* CO_UNTIL_ANY_N: of coroutines that run already, or null pointers, which *)
(* count as finished.                                                      *)
UntilAny(p) ==
  /\ Statement(p)
  /\ \E W \in SUBSET {l \in Leaf : leaf[l] = "waiting" /\ parent[l] = NoCort} :
       \/ Enough(p, W)
       \/ \E n \in 1 .. Cardinality(W) : WaitsFor(p, W, n)
  /\ UNCHANGED <<leaf, slips, future>>

Delete(h) ==
  /\ phase' = [phase EXCEPT ![h] = "deleted"]
  /\ stack' = Below

(* The first have finished: the helper resumes its parent, or is at its    *)
(* end when it has none.                                                   *)
HelperWakes(h) ==
  /\ Runs(h)
  /\ Top.at = "wake" /\ phase[h] = "first"
  /\ \/ /\ parent[h] # NoCort
        /\ stack' = Append(TopAt("resuming"), Frame(parent[h]))
        /\ UNCHANGED phase
     \/ parent[h] = NoCort /\ Delete(h)
  /\ UNCHANGED <<leaf, parent, wait_count, rest, slips, future, bodies>>

MKeepsCount(h) == wait_count[h]
(* The count after the parent was resumed.                                 *)
CountOfRest(h) == rest[h]

(* The parent's run is over: the helper waits for the rest.                *)
HelperGoesOn(h) ==
  /\ Runs(h)
  /\ Top.at = "resuming"
  /\ wait_count' = [wait_count EXCEPT ![h] = CountOfRest(h)]
  /\ \/ /\ rest[h] # 0
        /\ phase' = [phase EXCEPT ![h] = "rest"]
        /\ stack' = Below
     \/ rest[h] = 0 /\ Delete(h)
  /\ UNCHANGED <<leaf, parent, rest, slips, future, bodies>>

(* CO_END: on_finish() deletes the helper.                                 *)
HelperEnds(h) ==
  /\ Runs(h)
  /\ Top.at = "wake" /\ phase[h] = "rest"
  /\ Delete(h)
  /\ UNCHANGED <<leaf, parent, wait_count, rest, slips, future, bodies>>

------------------------------------------------------------------------------
(* cort_shared_future.                                                     *)

FutureLives == phase[Future] # "deleted"

(* future.await(l): by main or by a body, before or after the future was   *)
(* awaited.                                                                *)
FutureAwaits(l) ==
  /\ InBody
  /\ FutureLives
  /\ leaf[l] = "idle"
  /\ leaf' = [leaf EXCEPT ![l] = "waiting"]
  /\ parent' = [parent EXCEPT ![l] = Future]
  /\ wait_count' = [wait_count EXCEPT ![Future] = (@ + 1) % SizeMod]
  /\ UNCHANGED <<stand, future, stack, bodies>>

MForgetsParent(list, p) == list
(* add_parent() leaves out the null pointer.                               *)
AddParent(list, p) == IF p = NoCort THEN list ELSE Append(list, p)

(* CO_AWAIT(&future): start() goes through at once when the future waits   *)
(* for nobody; else it moves the parent it has to the list, for p.         *)
AwaitFuture(p) ==
  /\ Statement(p)
  /\ FutureLives
  /\ \/ /\ wait_count[Future] = 0
        /\ pc' = [pc EXCEPT ![p] = "on"]
        /\ UNCHANGED <<parent, parent_list, holds, phase, wait_count, stack>>
     \/ /\ wait_count[Future] # 0
        /\ parent_list' = AddParent(parent_list, parent[Future])
        /\ parent' = [parent EXCEPT ![Future] = p]
        /\ phase' = [phase EXCEPT ![Future] = "first"]
        /\ holds' = IF counted THEN holds \union {p} ELSE holds
        /\ wait_count' = [wait_count EXCEPT ![p] = 1]
        /\ pc' = [pc EXCEPT ![p] = "future"]
        /\ stack' = Below
  /\ UNCHANGED <<counted, leaf, rest, slips, call>>

MNoRef == FALSE
(* A run takes a reference of its own when somebody holds one.             *)
OwnRef == holds # {}

(* The future is resumed.  Before it was ever started it has no callback.  *)
FutureWakes ==
  /\ Runs(Future)
  /\ Top.at = "wake"
  /\ \/ phase[Future] = "none" /\ stack' = Below /\ UNCHANGED wait_count
     \/ /\ phase[Future] = "first"
        /\ wait_count' = [wait_count EXCEPT ![Future] = 0]
        /\ stack' = Append(Below, [Top EXCEPT !.at = "parents", !.ref = OwnRef])
  /\ UNCHANGED <<leaf, parent, stand, future, bodies>>

(* The loops over the parents: first cort_parent, then the list, newest    *)
(* first.                                                                  *)
FutureResumesParent ==
  /\ Runs(Future)
  /\ Top.at = "parents"
  /\ parent[Future] # NoCort
  /\ parent' = [parent EXCEPT ![Future] = NoCort]
  /\ TryResume(parent[Future], TopAt("check"))
  /\ UNCHANGED <<leaf, stand, future, bodies>>

FutureResumesListed ==
  /\ Runs(Future)
  /\ Top.at = "parents"
  /\ parent[Future] = NoCort /\ parent_list # << >>
  /\ parent_list' = Front(parent_list)
  /\ TryResume(Last(parent_list), TopAt("check"))
  /\ UNCHANGED <<counted, leaf, parent, stand, holds, bodies>>

(* release() of a run's own reference: was it the last one?                *)
LastRef(f) == f.ref /\ RefCount(holds, stack) = 1

(* After each parent: does the future wait again?  Then it gives back its  *)
(* reference and suspends (CO_AGAIN), the other parents stay.              *)
FutureChecks ==
  /\ Runs(Future)
  /\ Top.at = "check"
  /\ stack' = IF wait_count[Future] # 0 THEN Below ELSE TopAt("parents")
  /\ UNCHANGED <<leaf, parent, wait_count, stand, future, bodies>>

(* The awaiter that resume() saved has run since, and waits for one more.  *)
OnceMore(p) == IF p # NoCort /\ Decr(wait_count[p]) = 0 THEN {p} ELSE {}

(* All parents were resumed: release(), CO_END, and resume() goes on with  *)
(* the parent that it saved before the loops.                              *)
FutureEnds ==
  /\ Runs(Future)
  /\ Top.at = "parents"
  /\ parent[Future] = NoCort /\ parent_list = << >>
  /\ phase' = IF LastRef(Top) THEN [phase EXCEPT ![Future] = "deleted"] ELSE phase
  /\ slips' = slips \union OnceMore(Top.saved)
  /\ IF Top.saved = NoCort
       THEN stack' = Below /\ UNCHANGED wait_count
       ELSE TryResume(Top.saved, Below)
  /\ UNCHANGED <<leaf, parent, rest, future, bodies>>

------------------------------------------------------------------------------
(* The other statements of an awaiter.                                     *)

Start(p) ==
  /\ stack = << >>
  /\ pc[p] = "new"
  /\ pc' = [pc EXCEPT ![p] = "on"]
  /\ stack' = <<Frame(p)>>
  /\ UNCHANGED <<leaf, parent, wait_count, stand, future, call, left>>

(* CO_AWAIT of a leaf that does not finish at once.                        *)
AwaitLeaf(p, l) ==
  /\ Statement(p)
  /\ leaf[l] = "idle"
  /\ leaf' = [leaf EXCEPT ![l] = "waiting"]
  /\ parent' = [parent EXCEPT ![l] = p]
  /\ wait_count' = [wait_count EXCEPT ![p] = 1]
  /\ pc' = [pc EXCEPT ![p] = "leaf"]
  /\ stack' = Below
  /\ UNCHANGED <<stand, future, call>>

(* CO_END.  A body that holds a reference of the future releases it, but   *)
(* not the last but the future's own while the future waits: release()     *)
(* would throw.                                                            *)
Finish(p) ==
  /\ Runs(p)
  /\ pc' = [pc EXCEPT ![p] = "done"]
  /\ stack' = Below
  /\ \/ /\ p \in holds
        /\ wait_count[Future] # 0 => Cardinality(holds) > 1
        /\ holds' = holds \ {p}
        /\ phase' = IF RefCount(holds, stack) = 1
                      THEN [phase EXCEPT ![Future] = "deleted"] ELSE phase
     \/ /\ p \in holds => wait_count[Future] # 0 /\ holds = {p}
        /\ UNCHANGED <<holds, phase>>
  /\ UNCHANGED <<counted, leaf, parent, wait_count, rest, slips, call, parent_list, left>>

Next ==
  \/ \E l \in Leaf : LeafDone(l)
  \/ \E l \in Leaf : LeafStarts(l)
  \/ \E l \in Leaf : FutureAwaits(l)
  \/ \E p \in Awaiter : Start(p)
  \/ \E p \in Awaiter : AwaitAny(p)
  \/ \E p \in Awaiter : AwaitRangeAny(p)
  \/ \E p \in Awaiter : UntilAny(p)
  \/ \E p \in Awaiter : AwaitFuture(p)
  \/ \E p \in Awaiter : \E l \in Leaf : AwaitLeaf(p, l)
  \/ \E p \in Awaiter : Finish(p)
  \/ \E h \in Helper : HelperWakes(h)
  \/ \E h \in Helper : HelperGoesOn(h)
  \/ \E h \in Helper : HelperEnds(h)
  \/ FutureWakes
  \/ FutureResumesParent
  \/ FutureResumesListed
  \/ FutureChecks
  \/ FutureEnds

Spec == Init /\ [][Next]_vars

(* Activations go on to their end, and the event of each leaf comes.       *)
FairSpec ==
  /\ Spec
  /\ WF_vars(stack # << >> /\ Next)
  /\ \A l \in Leaf : WF_vars(stack = << >> /\ LeafDone(l))

------------------------------------------------------------------------------
(* Properties.                                                             *)

(* "Await finish of any n coroutines" (cort_proto.h:316): between two      *)
(* activations, who waits in such a statement has fewer than it asked for, *)
(* and who runs after one has them.  A range asks for all that wait.       *)
AnyExact ==
  \A p \in Awaiter :
    pc[p] = "any" =>
      /\ Runs(p) => Cardinality(Done(p)) >= call[p].need
      /\ stack = << >> => Cardinality(Done(p)) < call[p].need

(* A cort_wait_n deletes itself with the last of its leaves: no leaf ever  *)
(* finishes into a deleted one, and between two activations one is there   *)
(* only for a leaf that has not finished.  (It stays for ever if a leaf    *)
(* finished while it was resuming its parent, cort_proto.h:723.)           *)
HelperLeavesWithLast ==
  /\ \A h \in Helper : phase[h] = "deleted" => Kids(h) = {}
  /\ stack = << >> =>
       \A h \in Helper :
         phase[h] \in {"first", "rest"} =>
           Kids(h) # {} \/ \E l \in slips : parent[l] = h

(* How often the future knows p, as its parent or in the list.             *)
Known(p) ==
  Cardinality({i \in DOMAIN parent_list : parent_list[i] = p})
    + IF parent[Future] = p THEN 1 ELSE 0

(* Each coroutine that awaits the future is known to it exactly once, and  *)
(* no other is: but one that the future resumed once more, while it waited *)
(* for something else, may go on before that is done, and be resumed out   *)
(* of its next statement in turn.                                          *)
FutureKnowsWaiters ==
  stack = << >> =>
    \A p \in Awaiter \ slips : Known(p) = IF pc[p] = "future" THEN 1 ELSE 0

(* A counted future is not deleted under those that await it or under its  *)
(* own loops (the comment at cort_shared_future.h:38).                     *)
FutureOutlivesRuns ==
  ~FutureLives =>
    /\ \A i \in DOMAIN stack : stack[i].who # Future
    /\ \A p \in Awaiter : pc[p] # "future"

(* Who awaits the future is resumed once what the future awaits is done.   *)
FutureServes ==
  \A p \in Awaiter : pc[p] = "future" ~> pc[p] # "future"

(* "When all the coroutines awaited by this coroutine finished, this       *)
(* coroutine will be resumed" (cort_proto.h:148): one that awaits a leaf   *)
(* is not resumed before it.                                               *)
ResumedWhenDone ==
  \A p \in Awaiter : Runs(p) /\ pc[p] = "leaf" => Kids(p) = {}

------------------------------------------------------------------------------
(* What the properties rest on.                                            *)

(* Who resumes somebody by hand waits below him, and everybody else but    *)
(* the future is there once.                                               *)
Places(w) ==
  IF w \in Awaiter THEN {"wake"}
  ELSE IF w = Future THEN {"wake", "parents", "check"} ELSE {"wake", "resuming"}
StackOK(s) ==
  /\ \A i, j \in 1 .. Len(s) : s[i].who = s[j].who => i = j \/ s[i].who = Future
  /\ \A i \in 1 .. Len(s) :
       /\ s[i].at \in Places(s[i].who)
       /\ s[i].ref => s[i].at \in {"parents", "check"}
       /\ i = Len(s) \/ s[i].who \in Awaiter \/ s[i].at \in {"resuming", "check"}
StackInv ==
  /\ StackOK(stack)
  /\ \A p \in Awaiter : IF On(p, stack) THEN pc[p] \notin {"new", "done"} ELSE pc[p] # "on"

LeavesOK ==
  /\ \A l \in Leaf : leaf[l] = "idle" => parent[l] = NoCort
  /\ \A l \in Leaf \cap slips : leaf[l] = "done"

(* The future's count is that of the leaves it awaits.                     *)
FutureCount ==
  /\ wait_count[Future] = Cardinality(Kids(Future))
  /\ Runs(Future) /\ Top.at # "check" => wait_count[Future] = 0

(* A body that waits by its count waits for one; the count of any other is *)
(* not positive, and as often below zero as decrements were wasted on it.  *)
Asleep(p) == pc[p] \in {"future", "leaf"} /\ ~On(p, stack)
Wasted(p) == IF wait_count[p] \in {0, 1} THEN 0 ELSE SizeMod - wait_count[p]
FutureRuns(s) == Cardinality({i \in 1 .. Len(s) : s[i].who = Future})
Entries == Len(parent_list) + IF parent[Future] = NoCort THEN 0 ELSE 1
Units == {u \in Awaiter \X (1 .. Statements) : u[2] <= left[u[1]]}
Remaining ==
  2 * Cardinality({l \in Leaf : leaf[l] # "done"}) + FutureRuns(stack) + Entries
    + Cardinality(Units)
BodyOK(p) ==
  /\ wait_count[p] = 1 <=> Asleep(p)
  /\ Wasted(p) + Remaining <= Decrements

(* The leaves that a helper counts, of which it misses some.               *)
Slipped(h) == {l \in Leaf \cap slips : parent[l] = h}
Counted(h) == Kids(h) \union Slipped(h)
HelperOK(h) ==
  /\ phase[h] = "none" => ~On(h, stack) /\ \A l \in Leaf : parent[l] # h
  /\ phase[h] = "first" /\ ~Resuming(h, stack) =>
       /\ wait_count[h] + rest[h] = Cardinality(Kids(h)) /\ Slipped(h) = {}
       /\ On(h, stack) <=> wait_count[h] = 0
       /\ parent[h] = NoCort => rest[h] = 0
  /\ phase[h] = "first" /\ Resuming(h, stack) =>
       /\ rest[h] = Cardinality(Counted(h))
       /\ wait_count[h] + Cardinality(Slipped(h)) \in {0, SizeMod}
  /\ phase[h] = "rest" =>
       /\ wait_count[h] = Cardinality(Counted(h))
       /\ On(h, stack) <=> wait_count[h] = 0
       /\ ~Resuming(h, stack)
  /\ phase[h] = "deleted" => ~On(h, stack) /\ Kids(h) = {}

(* A helper that has not resumed its parent stands for its statement.      *)
Armed(h) == phase[h] = "first" /\ parent[h] # NoCort /\ ~Resuming(h, stack)
ArmedOK(h) ==
  Armed(h) =>
    LET p == parent[h] IN
    /\ pc[p] = "any" /\ ~On(p, stack)
    /\ call[p].args = {l \in Leaf : parent[l] = h} /\ call[p].args # {}
    /\ wait_count[h] + Cardinality(Done(p)) = call[p].need
AnyOK(p) ==
  pc[p] = "any" =>
    IF On(p, stack) THEN Cardinality(Done(p)) >= call[p].need
    ELSE \E h \in Helper : Armed(h) /\ parent[h] = p

(* Who awaits a counted future holds it, and each of its runs does, but    *)
(* one for which nobody is left to be resumed.                             *)
Listed == ToSet(parent_list) \union ({parent[Future]} \ {NoCort})
RunsHeld(s, h) ==
  \A i \in 1 .. Len(s) :
    s[i].who = Future /\ s[i].at # "wake" /\ ~s[i].ref => i = Len(s) /\ h = {}
HoldsOK ==
  /\ ~counted => holds = {} /\ FutureLives /\ \A i \in 1 .. Len(stack) : ~stack[i].ref
  /\ counted =>
       /\ \A p \in Awaiter \ holds : pc[p] # "future" /\ (p \in Listed => pc[p] = "done")
       /\ RunsHeld(stack, holds)
  /\ ~FutureLives => holds = {} /\ Kids(Future) = {} /\ ~On(Future, stack)

(* Who did not slip is known to whom it waits for, and to nobody else.     *)
KnownOK(p) ==
  p \notin slips =>
    /\ Known(p) = IF pc[p] = "future" /\ ~On(p, stack) THEN 1 ELSE 0
    /\ \A l, m \in Kids(p) : pc[p] = "leaf" /\ ~On(p, stack) /\ l = m

AwaitInv ==
  /\ TypeOK /\ StackInv /\ LeavesOK /\ FutureCount /\ HoldsOK
  /\ \A p \in Awaiter : BodyOK(p) /\ AnyOK(p) /\ KnownOK(p)
  /\ \A h \in Helper : HelperOK(h) /\ ArmedOK(h)
=============================================================================
