----------------------------- MODULE CortChannel -----------------------------
(***************************************************************************)
(* cort_channel_proto with the channels built on it, cort_channel (one     *)
(* object per push) and cort_event_channel (a push of several events).     *)
(*                                                                         *)
(* try_resume() runs the woken coroutine inside the channel's own loop, so *)
(* push, pop, close and set_buffer_size nest to any depth: the C++ call    *)
(* stack is explicit, a frame per body and per loop that wakes waiters.    *)
(* Objects are indistinguishable; the container counts them.               *)
(***************************************************************************)
EXTENDS Integers, Sequences, FiniteSets, SequencesExt

CONSTANTS
  Cort,     \* the coroutines that use the channel
  NoCort,   \* the null pointer
  Settings, \* the ways the channel may be used; see Setting
  SizeMod,  \* size_t arithmetic is modulo SizeMod
  Fuel      \* bound: pushes and waits one coroutine executes

(* The kind of channel, who pushes, who waits for an object and pops it,   *)
(* the counts that a push produces (one, for a cort_channel), and the      *)
(* sizes that set_buffer_size is given.                                    *)
Setting == [kind : {"objects", "events"},
            pushers : SUBSET Cort, poppers : SUBSET Cort,
            deltas : SUBSET (1 .. SizeMod - 1), buffers : SUBSET (0 .. SizeMod - 3)]

ASSUME ChannelAssumption ==
  /\ IsFiniteSet(Cort) /\ NoCort \notin Cort
  /\ SizeMod \in Nat /\ SizeMod > 2 /\ Fuel \in Nat
  /\ Settings \subseteq Setting
  /\ \A s \in Settings : s.kind = "objects" => s.deltas = {1}

VARIABLES
  setting,      \* how this channel is used
  size,         \* objects.size() or event_count()
  pinned,       \* pinned_object_count()
  buffer,       \* get_buffer_size()
  last_recver,  \* cort_parent of the channel: the newest receiver waiting
  recvers,      \* the receivers waiting before it
  last_sender,  \* cort_parent of simulate_cort_proto_for_sender
  senders,      \* the senders waiting before it
  pc,           \* where each coroutine's body is; see Pc
  also,         \* coroutines whose await waits for something else as well
  stack,        \* the C++ call stack, innermost frame last
  fuel

vars == <<setting, size, pinned, buffer, last_recver, recvers, last_sender, senders, pc,
          also, stack, fuel>>

channel == <<size, pinned, buffer, last_recver, recvers, last_sender, senders>>

Event == setting.kind = "events"
Pushers == setting.pushers
Poppers == setting.poppers
Deltas == setting.deltas
Buffers == setting.buffers

ClosedBuffer == SizeMod - 2
Closed == buffer = ClosedBuffer

(* "idle": not started; "next": between two statements; "consume": it may  *)
(* get() an object; "recv", "send": it waits in the channel; "heldrecv",   *)
(* "heldsend": woken, but still waiting elsewhere; "done": finished.       *)
Waiting == {"recv", "send"}
Held == {"heldrecv", "heldsend"}
Pc == {"idle", "next", "consume", "done"} \union Waiting \union Held

Frame ==
  [op : {"body"}, cort : Cort]
    \union [op : {"push"}, left : Nat, awaited : BOOLEAN]
    \union [op : {"awake"}, phase : {"begin", "send", "recv"}, recheck : BOOLEAN]
    \union [op : {"resize"}, left : Nat]

TypeOK ==
  /\ setting \in Settings
  /\ size \in 0 .. SizeMod - 1
  /\ pinned \in 0 .. SizeMod - 1
  /\ buffer \in Buffers \union {ClosedBuffer}
  /\ last_recver \in Cort \union {NoCort}
  /\ last_sender \in Cort \union {NoCort}
  /\ recvers \in Seq(Cort)
  /\ senders \in Seq(Cort)
  /\ pc \in [Cort -> Pc]
  /\ also \subseteq Cort
  /\ stack \in Seq(Frame)
  /\ fuel \in [Cort -> 0 .. Fuel]

Init ==
  /\ setting \in Settings
  /\ size = 0 /\ pinned = 0
  /\ buffer \in Buffers
  /\ last_recver = NoCort /\ last_sender = NoCort
  /\ recvers = << >> /\ senders = << >>
  /\ pc = [c \in Cort |-> "idle"]
  /\ also = {}
  /\ stack = << >>
  /\ fuel = [c \in Cort |-> Fuel]

------------------------------------------------------------------------------
(* The stack, the slots and the queues.                                    *)

Body(c) == [op |-> "body", cort |-> c]
Top == Last(stack)
Under == Front(stack)

Runs(op) == stack # << >> /\ Top.op = op
(* c's body is on top of the stack, between two statements.                *)
AtBody(c) == Runs("body") /\ Top.cort = c

MOverwritten(queue, slot) == queue
(* A waiting list with the newest waiter moved from its slot to the end.   *)
Joined(queue, slot) == IF slot = NoCort THEN queue ELSE Append(queue, slot)

(* try_resume(c), called under the frames fs: the body of c runs now unless *)
(* its await waits for something else as well.                             *)
Wake(c, fs) ==
  LET got == IF pc[c] = "recv" THEN "consume" ELSE "next"
      held == IF pc[c] = "recv" THEN "heldrecv" ELSE "heldsend"
  IN
  IF c \in also
    THEN /\ stack' = fs
         /\ pc' = [pc EXCEPT ![c] = held]
         /\ also' = also \ {c}
    ELSE /\ stack' = Append(fs, Body(c))
         /\ pc' = [pc EXCEPT ![c] = got]
         /\ also' = also

Spend(c) == fuel[c] > 0 /\ fuel' = [fuel EXCEPT ![c] = @ - 1]

(* c suspends in the channel, possibly waiting for something else as well. *)
Suspend(c, where) ==
  /\ pc' = [pc EXCEPT ![c] = where]
  /\ \E more \in {{}, {c}} : also' = also \union more

------------------------------------------------------------------------------
(* Bodies.                                                                 *)

Start(c) ==
  /\ stack = << >>
  /\ pc[c] = "idle"
  /\ pc' = [pc EXCEPT ![c] = "next"]
  /\ stack' = <<Body(c)>>
  /\ UNCHANGED <<channel, also, fuel, setting>>

Finish(c) ==
  /\ AtBody(c)
  /\ pc[c] = "next"
  /\ pc' = [pc EXCEPT ![c] = "done"]
  /\ stack' = Under
  /\ UNCHANGED <<channel, also, fuel, setting>>

(* What c awaits besides the channel finishes.                             *)
OtherDone(c) ==
  /\ stack = << >>
  /\ \/ /\ c \in also
        /\ also' = also \ {c}
        /\ UNCHANGED <<pc, stack>>
     \/ /\ pc[c] \in Held
        /\ pc' = [pc EXCEPT ![c] = IF @ = "heldrecv" THEN "consume" ELSE "next"]
        /\ stack' = <<Body(c)>>
        /\ also' = also
  /\ UNCHANGED <<channel, fuel, setting>>

------------------------------------------------------------------------------
(* Receiving: wait_popable, get and pop.                                   *)

MHasObject == size >= pinned
HasObject == size > pinned

(* wait_popable returns at once.                                           *)
Popable == Closed \/ HasObject

(* wait_popable: returns at once when the channel is closed or an object   *)
(* is not pinned yet, which it pins; else c becomes the newest receiver.   *)
(* try_get is the first alternative of an open channel, or does nothing.   *)
WaitPopable(c) ==
  /\ AtBody(c) /\ pc[c] = "next"
  /\ Spend(c)
  /\ \/ /\ Closed \/ HasObject
        /\ pinned' = IF Closed THEN pinned ELSE (pinned + 1) % SizeMod
        /\ pc' = [pc EXCEPT ![c] = "consume"]
        /\ UNCHANGED <<last_recver, recvers, also, stack>>
     \/ /\ ~Popable
        /\ recvers' = Joined(recvers, last_recver)
        /\ last_recver' = c
        /\ Suspend(c, "recv")
        /\ stack' = Under
        /\ UNCHANGED pinned
  /\ UNCHANGED <<size, buffer, last_sender, senders, setting>>

(* get() returns NULL: the consumer goes on without an object.             *)
GetNull(c) ==
  /\ AtBody(c) /\ pc[c] = "consume"
  /\ size = 0 \/ Closed
  /\ pc' = [pc EXCEPT ![c] = "next"]
  /\ UNCHANGED <<channel, also, stack, fuel, setting>>

(* after_pop returns without waking a sender.                              *)
RoomLeft(n) == n < buffer

(* get() and pop(): after_pop unpins, and wakes the newest sender if it is *)
(* still in its slot, else the oldest one in the queue.                    *)
Pop(c) ==
  /\ AtBody(c) /\ pc[c] = "consume"
  /\ size # 0 /\ ~Closed
  /\ size' = size - 1
  /\ pinned' = (pinned - 1) % SizeMod
  /\ LET done == [pc EXCEPT ![c] = "next"] IN
     \/ /\ \/ RoomLeft(size - 1)
           \/ last_sender = NoCort /\ senders = << >>
        /\ pc' = done
        /\ UNCHANGED <<last_sender, senders, also, stack>>
     \/ /\ ~RoomLeft(size - 1)
        /\ \E w \in Cort :
             /\ \/ w = last_sender /\ last_sender' = NoCort /\ senders' = senders
                \/ /\ last_sender = NoCort /\ senders # << >>
                   /\ w = Head(senders) /\ senders' = Tail(senders)
                   /\ last_sender' = last_sender
             /\ IF w \in also
                  THEN /\ pc' = [done EXCEPT ![w] = "heldsend"]
                       /\ also' = also \ {w} /\ stack' = stack
                  ELSE /\ pc' = [done EXCEPT ![w] = "next"]
                       /\ also' = also /\ stack' = Append(stack, Body(w))
  /\ UNCHANGED <<buffer, last_recver, recvers, fuel, setting>>

------------------------------------------------------------------------------
(* Sending: push and after_push.                                           *)

(* The loop of after_push starts, the newest receiver moved to the queue.  *)
Produce(k, awaited) ==
  /\ size' = (size + k) % SizeMod
  /\ recvers' = Joined(recvers, last_recver)
  /\ last_recver' = NoCort
  /\ stack' = Append(stack, [op |-> "push", left |-> k, awaited |-> awaited])

(* push(k), whose result the body awaits; a closed cort_channel refuses.   *)
Push(c, k) ==
  /\ AtBody(c) /\ pc[c] = "next"
  /\ Spend(c)
  /\ IF Closed /\ ~Event
       THEN UNCHANGED <<size, recvers, last_recver, stack>>
       ELSE Produce(k, TRUE)
  /\ UNCHANGED <<pinned, buffer, last_sender, senders, pc, also, setting>>

(* try_push(k) of an event channel: pushes if there is room, awaits nothing. *)
TryPush(c, k) ==
  /\ Event
  /\ AtBody(c) /\ pc[c] = "next"
  /\ Spend(c)
  /\ ~Closed /\ RoomLeft(size + k)
  /\ Produce(k, FALSE)
  /\ UNCHANGED <<pinned, buffer, last_sender, senders, pc, also, setting>>

MPinned == pinned
(* Each receiver woken by a push has its object pinned first.              *)
PinnedOnWake == (pinned + 1) % SizeMod

(* One turn of the loop: the oldest receiver is given an object.           *)
PushWake ==
  /\ Runs("push")
  /\ Top.left # 0 /\ recvers # << >>
  /\ recvers' = Tail(recvers)
  /\ pinned' = PinnedOnWake
  /\ Wake(Head(recvers), Append(Under, [Top EXCEPT !.left = @ - 1]))
  /\ UNCHANGED <<size, buffer, last_recver, last_sender, senders, fuel, setting>>

(* after_push returns 0, and the body goes on, or the sender's placeholder: *)
(* then the newest sender is moved to the queue, and a body that awaits the *)
(* push takes its slot.                                                    *)
PushEnd ==
  /\ Runs("push")
  /\ Top.left = 0 \/ recvers = << >>
  /\ IF size <= buffer
       THEN /\ stack' = Under
            /\ UNCHANGED <<last_sender, senders, pc, also>>
       ELSE /\ senders' = Joined(senders, last_sender)
            /\ IF Top.awaited
                 THEN LET c == Last(Under).cort IN
                      /\ last_sender' = c
                      /\ Suspend(c, "send")
                      /\ stack' = Front(Under)
                 ELSE /\ last_sender' = NoCort
                      /\ stack' = Under
                      /\ UNCHANGED <<pc, also>>
  /\ UNCHANGED <<size, pinned, buffer, last_recver, recvers, fuel, setting>>

------------------------------------------------------------------------------
(* awake_all, close and set_buffer_size, called by main or by a body.      *)

MayCall == stack = << >> \/ \E c \in Cort : AtBody(c) /\ pc[c] = "next"

AwakeFrame == [op |-> "awake", phase |-> "begin", recheck |-> FALSE]

Close ==
  /\ MayCall
  /\ ~Closed
  /\ buffer' = ClosedBuffer
  /\ stack' = Append(stack, AwakeFrame)
  /\ UNCHANGED <<size, pinned, last_recver, recvers, last_sender, senders, pc, also, fuel, setting>>

AwakeAll ==
  /\ MayCall
  /\ ~Closed
  /\ stack' = Append(stack, AwakeFrame)
  /\ UNCHANGED <<channel, pc, also, fuel, setting>>

(* The start of a turn: the newest sender joins the queue.                 *)
AwakeBegin ==
  /\ Runs("awake") /\ Top.phase = "begin"
  /\ senders' = Joined(senders, last_sender)
  /\ last_sender' = NoCort
  /\ stack' = Append(Under, [op |-> "awake", phase |-> "send",
                             recheck |-> last_sender # NoCort])
  /\ UNCHANGED <<size, pinned, buffer, last_recver, recvers, pc, also, fuel, setting>>

AwakeSender ==
  /\ Runs("awake") /\ Top.phase = "send" /\ senders # << >>
  /\ senders' = Tail(senders)
  /\ Wake(Head(senders), Append(Under, [Top EXCEPT !.recheck = TRUE]))
  /\ UNCHANGED <<size, pinned, buffer, last_recver, recvers, last_sender, fuel, setting>>

(* No sender is left: the newest receiver joins its queue.                 *)
AwakeTurn ==
  /\ Runs("awake") /\ Top.phase = "send" /\ senders = << >>
  /\ recvers' = Joined(recvers, last_recver)
  /\ last_recver' = NoCort
  /\ stack' = Append(Under, [op |-> "awake", phase |-> "recv",
                             recheck |-> Top.recheck \/ last_recver # NoCort])
  /\ UNCHANGED <<size, pinned, buffer, last_sender, senders, pc, also, fuel, setting>>

AwakeRecver ==
  /\ Runs("awake") /\ Top.phase = "recv" /\ recvers # << >>
  /\ recvers' = Tail(recvers)
  /\ pinned' = IF HasObject THEN (pinned + 1) % SizeMod ELSE pinned
  /\ Wake(Head(recvers), Append(Under, [Top EXCEPT !.recheck = TRUE]))
  /\ UNCHANGED <<size, buffer, last_recver, last_sender, senders, fuel, setting>>

(* Someone was woken in this turn, and may have come back to wait.         *)
AwakeEnd ==
  /\ Runs("awake") /\ Top.phase = "recv" /\ recvers = << >>
  /\ stack' = IF Top.recheck THEN Append(Under, AwakeFrame) ELSE Under
  /\ UNCHANGED <<channel, pc, also, fuel, setting>>

MGrown(b) == 0
(* The room that set_buffer_size(b) adds: so many senders are woken.       *)
Grown(b) == IF b > buffer THEN b - buffer ELSE 0

(* set_buffer_size(b): a newest sender is woken first.                     *)
SetBufferSize(b) ==
  /\ MayCall
  /\ ~Closed /\ b # buffer
  /\ buffer' = b
  /\ IF Grown(b) > 0 /\ last_sender # NoCort
       THEN /\ last_sender' = NoCort
            /\ Wake(last_sender, Append(stack, [op |-> "resize", left |-> Grown(b) - 1]))
       ELSE /\ stack' = Append(stack, [op |-> "resize", left |-> Grown(b)])
            /\ UNCHANGED <<last_sender, pc, also>>
  /\ UNCHANGED <<size, pinned, last_recver, recvers, senders, fuel, setting>>

ResizeWake ==
  /\ Runs("resize") /\ Top.left # 0 /\ senders # << >>
  /\ senders' = Tail(senders)
  /\ Wake(Head(senders), Append(Under, [Top EXCEPT !.left = @ - 1]))
  /\ UNCHANGED <<size, pinned, buffer, last_recver, recvers, last_sender, fuel, setting>>

ResizeEnd ==
  /\ Runs("resize") /\ (Top.left = 0 \/ senders = << >>)
  /\ stack' = Under
  /\ UNCHANGED <<channel, pc, also, fuel, setting>>

------------------------------------------------------------------------------
Use ==
  \/ \E c \in Pushers \union Poppers : Start(c) \/ Finish(c) \/ OtherDone(c)
  \/ \E c \in Poppers : WaitPopable(c) \/ GetNull(c) \/ Pop(c)
  \/ \E c \in Pushers, k \in Deltas : Push(c, k) \/ TryPush(c, k)
  \/ PushWake \/ PushEnd
  \/ AwakeBegin \/ AwakeSender \/ AwakeTurn \/ AwakeRecver \/ AwakeEnd
  \/ \E b \in Buffers : SetBufferSize(b)
  \/ ResizeWake \/ ResizeEnd

(* Channels that are used, resized and closed.                             *)
Next == Use \/ Close
Spec == Init /\ [][Next]_vars

(* The thread runs on, and what a coroutine also awaits finishes.          *)
FairSpec == Spec /\ WF_vars(Next)

(* awake_all() is used too.                                                *)
AwakeSpec == Init /\ [][Use \/ Close \/ AwakeAll]_vars

------------------------------------------------------------------------------
(* Properties.                                                             *)

Consumers == {c \in Cort : pc[c] \in {"consume", "heldrecv"}}
WaitingRecvers == Range(Joined(recvers, last_recver))
WaitingSenders == Range(Joined(senders, last_sender))

(* Each coroutine that came back from wait_popable owns a pinned object:   *)
(* get() will not give it NULL unless the channel is closed meanwhile,     *)
(* however the pushes, pops and wakeups nest (wait_popable_check,          *)
(* after_push, after_pop).                                                 *)
GrantsBacked ==
  /\ pinned <= size
  /\ ~Closed => Cardinality(Consumers) = pinned

(* "count of produced and locked objects of cort_channel_proto"            *)
(* (cort_proto.h:52): there are never more locked objects than objects.    *)
PinnedAreObjects == pinned <= size

(* When control is back in main, no receiver waits while an object is      *)
(* there that nobody has pinned (after_push, wait_popable_check).          *)
NoRecverStranded ==
  stack = << >> /\ WaitingRecvers # {} => size <= Cardinality(Consumers)

(* No sender waits while its object fits in the buffer (after_pop,         *)
(* set_buffer_size): with control back in main, not even after resizing,   *)
(* on a channel with one consumer, which does not push itself. With two    *)
(* consumers, senders that are woken inside after_push can break it.       *)
NoSenderStranded ==
  stack = << >> /\ WaitingSenders # {} /\ (\E p \in Cort \ Pushers : Poppers = {p})
    => size > buffer

(* A waiting coroutine is in exactly one place of one of the two lists,    *)
(* however often it is woken and comes back inside the loops: nobody is    *)
(* resumed twice for one wait, and nobody is forgotten.                    *)
WaitsInOnePlace ==
  LET all == Joined(recvers, last_recver) \o Joined(senders, last_sender) IN
  /\ IsInjective(all)
  /\ WaitingRecvers = {c \in Cort : pc[c] = "recv"}
  /\ WaitingSenders = {c \in Cort : pc[c] = "send"}

(* A push never suspends its sender when the channel is closed, and a      *)
(* receiver never suspends then: close() comes to its end, and every       *)
(* coroutine that waits when the channel is closed ends its wait.          *)
CloseReleases ==
  \A c \in Cort : (Closed /\ pc[c] \in Waiting \union Held) ~> pc[c] \notin Waiting \union Held

------------------------------------------------------------------------------
(* What the proofs in CortChannelProofs need.                              *)

Running == {"next", "consume"}

(* A body is on the stack, once, exactly while it runs; it is between two  *)
(* statements while something runs above it. Pushes are called by bodies.  *)
StackOK(stk, p) ==
  /\ stk \in Seq(Frame)
  /\ p \in [Cort -> Pc]
  /\ \A c \in Cort : p[c] \in Running <=> \E i \in 1 .. Len(stk) : stk[i] = Body(c)
  /\ \A c \in Cort, i, j \in 1 .. Len(stk) : stk[i] = Body(c) /\ stk[j] = Body(c) => i = j
  /\ \A c \in Cort, i \in 1 .. Len(stk) - 1 : stk[i] = Body(c) => p[c] = "next"
  /\ \A i \in 1 .. Len(stk) :
       stk[i].op = "push" => i > 1 /\ \E c \in Pushers : stk[i - 1] = Body(c)

(* A queue and its slot hold those that wait there, each of them once.     *)
ListOK(queue, slot, p, where) ==
  /\ queue \in Seq(Cort)
  /\ slot \in Cort \union {NoCort}
  /\ IsInjective(queue)
  /\ slot \notin Range(queue)
  /\ \A c \in Cort : p[c] = where <=> c = slot \/ c \in Range(queue)

PlaceInv ==
  /\ TypeOK
  /\ StackOK(stack, pc)
  /\ ListOK(recvers, last_recver, pc, "recv")
  /\ ListOK(senders, last_sender, pc, "send")

(* Who pushes and who pops.                                                *)
RolesKept ==
  /\ \A c \in Cort : pc[c] \in {"recv", "heldrecv", "consume"} => c \in Poppers
  /\ \A c \in Cort : pc[c] \in {"send", "heldsend"} => c \in Pushers

(* The statements left to execute, of which each pushes at most most.      *)
Units == {u \in Cort \X (1 .. Fuel) : u[2] <= fuel[u[1]]}
SizeBounded(most) ==
  size + most * Cardinality(Units) <= most * Cardinality(Cort \X (1 .. Fuel))

(* What after_push has still to hand out. What runs inside it is a         *)
(* receiver that it woke; it has nothing left then, or nobody else waits.  *)
HandsUnder(stk) ==
  \A i \in 1 .. Len(stk) : stk[i].op = "push" =>
    /\ Deltas = {1} => stk[i].left <= 1
    /\ i < Len(stk) =>
         \E q \in Poppers : stk[i + 1] = Body(q) /\ (stk[i].left = 0 \/ Poppers = {q})
HandsOut ==
  /\ HandsUnder(stack)
  /\ Runs("push") /\ Top.left # 0 /\ recvers # << >> => pinned < size

RecversWait == recvers # << >> \/ last_recver # NoCort
SendersWait == senders # << >> \/ last_sender # NoCort

(* Receivers wait for objects that are not there, unless after_push is     *)
(* about to wake them.                                                     *)
RecversServed ==
  ~Closed /\ RecversWait =>
    \/ size <= pinned
    \/ Runs("push") /\ recvers # << >> /\ size <= pinned + Top.left

(* Who waits when the channel is closed is found by awake_all.             *)
ClosedWoken ==
  /\ \A i \in 1 .. Len(stack) : stack[i].op = "awake" => Closed
  /\ Closed /\ (RecversWait \/ SendersWait) =>
       \E i \in 1 .. Len(stack) :
         /\ stack[i].op = "awake"
         /\ stack[i].phase # "begin" => last_sender = NoCort
         /\ stack[i].phase = "recv" => senders = << >> /\ last_recver = NoCort

(* The newest sender still has a reason to wait.                           *)
SlotFull == ~Closed /\ last_sender # NoCort => size > buffer

GrantInv(most) ==
  /\ RolesKept /\ SizeBounded(most) /\ GrantsBacked /\ HandsOut
  /\ RecversServed /\ ClosedWoken /\ SlotFull

(* The senders that set_buffer_size has still to wake.                     *)
Owed(stk) ==
  UNION {{i} \X (1 .. stk[i].left) : i \in {j \in 1 .. Len(stk) : stk[j].op = "resize"}}

SendersCount == Len(senders) + (IF last_sender = NoCort THEN 0 ELSE 1)
PushesAwaited == IF Runs("push") /\ Top.awaited THEN 1 ELSE 0

(* With one consumer, that does not push: no more senders wait than        *)
(* objects exceed the buffer, and none when the consumer waits or was      *)
(* woken, in which case nothing but set_buffer_size is called above it.    *)
RoomInv ==
  ~Closed /\ (\E p \in Cort \ Pushers : Poppers = {p}) =>
    /\ SendersWait =>
         SendersCount + PushesAwaited <= size - buffer + Cardinality(Owed(stack))
    /\ \A p \in Poppers :
         /\ pc[p] = "recv" => ~SendersWait
         /\ \A i \in 2 .. Len(stack) : stack[i] = Body(p) =>
              ~SendersWait /\ \A j \in i + 1 .. Len(stack) : stack[j].op = "resize"
=============================================================================
