------------------------------ MODULE CortProto ------------------------------
(***************************************************************************)
(* The coroutine core of cort_proto.h: starting, awaiting, suspending,     *)
(* finishing and resuming coroutines on one thread.                        *)
(*                                                                         *)
(* There is no scheduler: a coroutine's body runs inside the C++ call that *)
(* started it (cort_start) or inside resume(), so the bodies that run at   *)
(* one moment form a call stack, and only the top one makes a step.  A     *)
(* body is any program written with the await macros: the model lets it    *)
(* choose its next statement, with `fuel' bounding how many it executes.   *)
(***************************************************************************)
EXTENDS Integers, Sequences, FiniteSets

CONSTANTS
  Cort,       \* the coroutine objects
  NoCort,     \* the null pointer
  AutoDelete, \* the coroutines whose class is wrapped in cort_auto_delete
  WithThen,   \* the coroutines given a then function before they start
  SizeMod,    \* size_t arithmetic is modulo SizeMod
  Fuel        \* bound: statements the body of each coroutine executes

ASSUME CortAssumption ==
  /\ IsFiniteSet(Cort)
  /\ NoCort \notin Cort
  /\ AutoDelete \subseteq Cort
  /\ WithThen \subseteq Cort
  /\ SizeMod \in Nat /\ Cardinality(Cort) < SizeMod
  /\ Fuel \in [Cort -> Nat]

VARIABLES
  parent,     \* cort_parent
  wait_count, \* cort_wait_count
  then,       \* whether cort_then_function is set
  status,     \* where the body is; see Status
  stack,      \* the bodies on the C++ call stack, innermost last
  save,       \* whom an activation reports to: the awaiter that called
              \* cort_start, or the parent that resume() saved
  count,      \* current_wait_count, local to an await statement
  fuel        \* statements left to the body

vars == <<parent, wait_count, then, status, stack, save, count, fuel>>

(* "starting": the body runs inside cort_start; "resumed": it runs inside  *)
(* resume(); it returned a non-null pointer to await coroutines            *)
(* ("awaiting") or an event ("yielded").                                   *)
Running == {"starting", "resumed"}
Suspended == {"awaiting", "yielded"}
Status == {"idle", "finished", "deleted"} \union Running \union Suspended

Top == stack[Len(stack)]
Below == SubSeq(stack, 1, Len(stack) - 1)

(* The coroutines c still awaits: they were linked to it by set_parent and *)
(* have not finished.                                                      *)
Kids(c) == {d \in Cort : parent[d] = c /\ status[d] \in Suspended \union {"resumed"}}

(* x is in the tree of coroutines that d awaits, at any depth.             *)
Awaits(d, x) ==
  \A T \in SUBSET Cort :
    Kids(d) \subseteq T /\ (\A y \in T : Kids(y) \subseteq T) => x \in T

TypeOK ==
  /\ parent \in [Cort -> Cort \union {NoCort}]
  /\ wait_count \in [Cort -> 0 .. SizeMod - 1]
  /\ then \in [Cort -> BOOLEAN]
  /\ status \in [Cort -> Status]
  /\ stack \in Seq(Cort)
  /\ save \in [Cort -> Cort \union {NoCort}]
  /\ count \in [Cort -> Nat]
  /\ fuel \in [Cort -> Nat]

(* The constructor, and then() calls made before the first start.          *)
Init ==
  /\ parent = [c \in Cort |-> NoCort]
  /\ wait_count = [c \in Cort |-> 0]
  /\ then = [c \in Cort |-> c \in WithThen]
  /\ status = [c \in Cort |-> "idle"]
  /\ stack = << >>
  /\ save = [c \in Cort |-> NoCort]
  /\ count = [c \in Cort |-> 0]
  /\ fuel = Fuel

------------------------------------------------------------------------------
(* Statements of a running body.                                           *)

(* A statement that costs fuel, executed by the body on top of the stack.  *)
Statement ==
  /\ stack # << >>
  /\ fuel[Top] > 0
  /\ fuel' = [fuel EXCEPT ![Top] = @ - 1]

(* cort_start() of d, called by a body (awaiter) or by nobody that awaits  *)
(* it (NoCort).  A finished object may be started again.                   *)
CallStart(d, awaiter) ==
  /\ status[d] \in {"idle", "finished"}
  /\ status' = [status EXCEPT ![d] = "starting"]
  /\ stack' = Append(stack, d)
  /\ save' = [save EXCEPT ![d] = awaiter]
  /\ UNCHANGED <<parent, wait_count, then, count>>

(* main() or the event loop starts a fresh coroutine.                      *)
MainStart(d) ==
  /\ stack = << >>
  /\ status[d] = "idle"
  /\ CallStart(d, NoCort)
  /\ UNCHANGED fuel

(* A body starts d without awaiting it; d must not carry a stale parent,   *)
(* which clear() does not remove.                                          *)
StartDetached(d) ==
  /\ Statement
  /\ count[Top] = 0
  /\ parent[d] = NoCort
  /\ CallStart(d, NoCort)

(* CO_AWAIT, CO_AWAIT_ALL, CO_AWAIT_RANGE: start the next coroutine of the *)
(* statement's list.                                                       *)
AwaitStart(d) ==
  /\ Statement
  /\ CallStart(d, Top)

(* The activation runs inside the cort_start called by an await statement. *)
Awaited(c) == status[c] = "starting" /\ save[c] # NoCort

(* The body of c returns a non-null pointer after calling until() on the   *)
(* coroutines of D and setting its wait count to waits.  An awaiter on the *)
(* stack links it and counts it; a resume() loop just ends.                *)
ReturnThis(c, how, waits, D) ==
  /\ stack' = Below
  /\ status' = [status EXCEPT ![c] = how]
  /\ wait_count' = [wait_count EXCEPT ![c] = waits]
  /\ parent' = [d \in Cort |-> IF d \in D THEN c
                               ELSE IF d = c /\ Awaited(c) THEN save[c]
                               ELSE parent[d]]
  /\ count' = [d \in Cort |-> IF d = c THEN 0
                              ELSE IF Awaited(c) /\ d = save[c] THEN count[d] + 1
                              ELSE count[d]]
  /\ UNCHANGED <<then, save>>

(* The wait count an await statement leaves behind: set_wait_count.        *)
MAwaitOne(c) == 1
AwaitCount(c) == count[c]

(* The end of an await statement some of whose coroutines did not finish   *)
(* at once; if all did, the body goes on with its next state.              *)
EndAwait ==
  /\ stack # << >>
  /\ count[Top] # 0
  /\ ReturnThis(Top, "awaiting", AwaitCount(Top), {})
  /\ UNCHANGED fuel

(* CO_YIELD, CO_AWAIT_UNKNOWN, CO_AGAIN: suspend without awaiting anyone.  *)
Yield ==
  /\ Statement
  /\ count[Top] = 0
  /\ ReturnThis(Top, "yielded", wait_count[Top], {})

(* Started, waiting, and awaited by nobody.                                *)
Detached == {d \in Cort : status[d] \in Suspended /\ parent[d] = NoCort}

(* CO_UNTIL, CO_UNTIL_ALL: await coroutines that run already.  The program *)
(* does not close a cycle of coroutines that wait for each other.          *)
Until(D) ==
  /\ Statement
  /\ count[Top] = 0
  /\ D # {}
  /\ \A d \in D : \A i \in DOMAIN stack : ~Awaits(d, stack[i])
  /\ ReturnThis(Top, "awaiting", (wait_count[Top] + Cardinality(D)) % SizeMod, D)

------------------------------------------------------------------------------
(* Finishing, and the loop of resume().                                    *)

(* decr_wait_count(1)                                                       *)
Decr(n) == (n - 1) % SizeMod

MAnyDone(n) == TRUE
MNeverDone(n) == FALSE
(* resume() goes on with the parent when the decremented count is zero.    *)
AllDone(n) == n = 0

(* The body of c returns 0.  cort_start then returns 0 to its caller; the  *)
(* resume() loop decrements the parent it saved, and runs its body in the  *)
(* place of c's when nothing is left to wait for.                          *)
ReturnZero(c, end) ==
  LET p == save[c]
      left == Decr(wait_count[p])
  IN
  /\ count' = count
  /\ then' = then
  /\ \/ /\ status[c] = "starting" \/ p = NoCort
        /\ stack' = Below
        /\ status' = [status EXCEPT ![c] = end]
        /\ UNCHANGED <<wait_count, save>>
     \/ /\ status[c] = "resumed" /\ p # NoCort
        /\ wait_count' = [wait_count EXCEPT ![p] = left]
        /\ IF AllDone(left)
             THEN /\ stack' = Append(Below, p)
                  /\ status' = [status EXCEPT ![c] = end, ![p] = "resumed"]
                  /\ save' = [save EXCEPT ![p] = parent[p]]
             ELSE /\ stack' = Below
                  /\ status' = [status EXCEPT ![c] = end]
                  /\ save' = save

(* CO_END, CO_RETURN: on_finish() without a then function.                 *)
Finish ==
  /\ stack # << >>
  /\ count[Top] = 0
  /\ ~then[Top]
  /\ ReturnZero(Top, IF Top \in AutoDelete THEN "deleted" ELSE "finished")
  /\ UNCHANGED <<parent, fuel>>

(* on_finish() calls the then function once, on the same coroutine: the    *)
(* body goes on with its statements.                                       *)
CallThen ==
  /\ stack # << >>
  /\ count[Top] = 0
  /\ then[Top]
  /\ then' = [then EXCEPT ![Top] = FALSE]
  /\ UNCHANGED <<parent, wait_count, status, stack, save, count, fuel>>

(* CO_EXIT: return 0 without on_finish, so without then and delete.        *)
Exit ==
  /\ Statement
  /\ count[Top] = 0
  /\ parent' = [parent EXCEPT ![Top] = NoCort]
  /\ ReturnZero(Top, "finished")

(* resume() of a coroutine that yielded, by the event it waited for or by  *)
(* a running body between two statements of its own.                       *)
CallResume(c) ==
  /\ stack # << >> => count[Top] = 0
  /\ status[c] = "yielded"
  /\ stack' = Append(stack, c)
  /\ status' = [status EXCEPT ![c] = "resumed"]
  /\ save' = [save EXCEPT ![c] = parent[c]]
  /\ UNCHANGED <<parent, wait_count, then, count, fuel>>

(* The discipline of the library's callers: a running body never resumes a *)
(* coroutine of its own await tree, nor one of a body below it.            *)
Resume(c) ==
  /\ CallResume(c)
  /\ \A i \in DOMAIN stack : ~Awaits(stack[i], c)

Next ==
  \/ \E d \in Cort : MainStart(d)
  \/ \E d \in Cort : StartDetached(d)
  \/ \E d \in Cort : AwaitStart(d)
  \/ EndAwait
  \/ Yield
  \/ \E D \in SUBSET Detached : Until(D)
  \/ Finish
  \/ CallThen
  \/ Exit
  \/ \E c \in Cort : Resume(c)

Spec == Init /\ [][Next]_vars

(* The thread keeps running, and each event a coroutine yielded for comes. *)
FairSpec == Spec /\ WF_vars(Next)

(* Without the discipline: a body may resume any coroutine that yielded,   *)
(* as a channel, a future or a closed timer does from inside a body.       *)
ReentrantSpec == Init /\ [][Next \/ \E c \in Cort : CallResume(c)]_vars

------------------------------------------------------------------------------
(* Properties.                                                             *)

(* A coroutine's wait count, with the count of the await statement it is   *)
(* in the middle of, is the number of coroutines it awaits that have not   *)
(* finished: no wakeup is lost and none comes early (set_parent,           *)
(* set_wait_count, incr_wait_count and decr_wait_count together).          *)
WaitCountExact ==
  \A c \in Cort : Cardinality(Kids(c)) = wait_count[c] + count[c]

(* A coroutine that returned from an await statement is waiting for        *)
(* someone: "When all the coroutines awaited by this coroutine finished,   *)
(* this coroutine will be resumed" (cort_proto.h:148).                     *)
NoLostWakeup ==
  \A c \in Cort : status[c] = "awaiting" => Kids(c) # {}

(* A body is never entered while it is running: each coroutine is at most  *)
(* once on the call stack, and exactly the running ones are.               *)
NoReentry ==
  /\ \A i, j \in DOMAIN stack : stack[i] = stack[j] => i = j
  /\ \A c \in Cort : status[c] \in Running <=> \E i \in DOMAIN stack : stack[i] = c

(* The parent that resume() saved before the callback is still there, and  *)
(* waits, when the callback is over and the parent is decremented.         *)
SavedParentWaits ==
  \A c \in Cort :
    status[c] = "resumed" /\ save[c] # NoCort =>
      status[save[c]] = "awaiting" /\ wait_count[save[c]] > 0

(* resume() continues an awaiting coroutine only with its last awaited one *)
(* finished, never in the middle of its await statement.                   *)
ResumedWhenAllDone ==
  [][\A c \in Cort :
       status[c] = "awaiting" /\ status'[c] = "resumed" => Kids(c)' = {}]_vars

(* Every coroutine that was started comes to its end once each event comes. *)
StartedFinishes ==
  \A c \in Cort :
    status[c] \notin {"idle", "finished", "deleted"} ~> status[c] \in {"finished", "deleted"}

------------------------------------------------------------------------------
(* What the proof of the invariants needs besides them.                    *)

(* Only the statement a running body is in counts; exactly the coroutines  *)
(* that returned from an await statement have a wait count.                *)
CountsLive ==
  \A c \in Cort : /\ status[c] \notin Running => count[c] = 0
                  /\ status[c] = "awaiting" <=> wait_count[c] # 0

(* An activation reports to the body just below it, or to its own parent.  *)
Reports ==
  /\ \A i \in DOMAIN stack :
       status[stack[i]] = "starting" /\ save[stack[i]] # NoCort =>
         i > 1 /\ stack[i - 1] = save[stack[i]]
  /\ \A c \in Cort : status[c] = "resumed" => save[c] = parent[c]
  /\ \A c \in Cort : status[c] = "starting" /\ save[c] = NoCort => parent[c] = NoCort
  /\ \A c \in Cort : status[c] = "idle" => parent[c] = NoCort

(* No body runs above one that awaits it, at any depth.                    *)
Apart == \A i, j \in DOMAIN stack : i < j => ~Awaits(stack[i], stack[j])

IInv ==
  /\ TypeOK
  /\ NoReentry
  /\ WaitCountExact
  /\ SavedParentWaits
  /\ CountsLive
  /\ Reports
  /\ Apart
=============================================================================
