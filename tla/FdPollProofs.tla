----------------------------- MODULE FdPollProofs -----------------------------
(***************************************************************************)
(* For any number of waiters and fds, as long as epoll_ctl does not fail:  *)
(* the count of watched fds is exact, no event of a batch reaches a waiter *)
(* that is gone or has another fd, and the loop returns only when idle.    *)
(***************************************************************************)
EXTENDS FdPoll, FiniteSetTheorems, SequenceTheorems, TLAPS

(* Counting a set of waiters up and down does not wrap.                    *)
LEMMA Counting ==
  ASSUME NEW E \in SUBSET Waiter, NEW f \in Waiter
  PROVE  /\ Cardinality(E) \in 0 .. CountMod - 1
         /\ f \notin E => More(Cardinality(E)) = Cardinality(E \union {f})
         /\ f \in E => Less(Cardinality(E)) = Cardinality(E \ {f})
         /\ Cardinality(E) = 0 => E = {}
<1>1. IsFiniteSet(Waiter) /\ CountMod \in Nat /\ CountMod > Cardinality(Waiter)
  BY FdAssumption DEF FdAssumption
<1>2. /\ IsFiniteSet(E) /\ Cardinality(E) \in Nat
      /\ Cardinality(E) <= Cardinality(Waiter) /\ Cardinality(Waiter) \in Nat
  BY <1>1, FS_Subset, FS_CardinalityType
<1>3. ASSUME f \notin E PROVE More(Cardinality(E)) = Cardinality(E \union {f})
  <2>1. Cardinality(E \union {f}) = Cardinality(E) + 1
    BY <1>2, <1>3, FS_AddElement
  <2>2. Cardinality(E \union {f}) <= Cardinality(Waiter)
    BY <1>1, FS_Subset
  <2> QED
    BY <1>1, <1>2, <2>1, <2>2 DEF More
<1>4. ASSUME f \in E PROVE Less(Cardinality(E)) = Cardinality(E \ {f})
  <2>1. Cardinality(E \ {f}) = Cardinality(E) - 1
    BY <1>2, <1>4, FS_RemoveElement
  <2>2. Cardinality(E \ {f}) \in Nat
    BY <1>2, FS_Subset, FS_CardinalityType
  <2> QED
    BY <1>1, <1>2, <2>1, <2>2 DEF Less
<1>5. Cardinality(E) = 0 => E = {}
  BY <1>2, FS_EmptySet
<1> QED
  BY <1>1, <1>2, <1>3, <1>4, <1>5

LEMMA CountBounds ==
  ASSUME NEW n \in 0 .. CountMod - 1
  PROVE  More(n) \in 0 .. CountMod - 1 /\ Less(n) \in 0 .. CountMod - 1
BY FdAssumption, FS_CardinalityType DEF FdAssumption, More, Less

------------------------------------------------------------------------------
(* The steps of the loop, which leave the fds alone.                       *)

WatchInv == WatchOK /\ RequestsWatched /\ CountExact

LEMMA InvParts ==
  /\ IInv <=> WatchInv /\ BodiesOK /\ PendingValid /\ ReturnsIdle
  /\ IInv' <=> WatchInv' /\ BodiesOK' /\ PendingValid' /\ ReturnsIdle'
BY DEF IInv, WatchInv

LEMMA WatchKept ==
  ASSUME WatchInv, UNCHANGED <<kernel, count, waiters>>
  PROVE  WatchInv'
BY DEF WatchInv, WatchOK, RequestsWatched, CountExact, kernel, waiters

(* Nothing is watched and no timeout is set when the loop returns.         *)
LEMMA LoopStops ==
  ASSUME IInv, LoopReturns
  PROVE  IInv'
<1>1. WatchInv'
  BY InvParts, WatchKept DEF LoopReturns
<1>2. BodiesOK'
  BY InvParts DEF LoopReturns, AtTop, BodiesOK
<1>3. PendingValid'
  BY DEF LoopReturns, PendingValid
<1>4. ReturnsIdle'
  <2>1. fails = 0 => Cardinality(epoll) = 0
    BY DEF LoopReturns, IInv, CountExact
  <2>2. fails = 0 => epoll = {}
    <3>1. IsFiniteSet(epoll)
      BY FdAssumption, FS_Subset DEF IInv, WatchOK, FdAssumption
    <3> QED
      BY <2>1, <3>1, FS_EmptySet
  <2>3. armed = {}
    BY DEF LoopReturns, IInv, BodiesOK
  <2> QED
    BY <2>2, <2>3 DEF LoopReturns, ReturnsIdle, kernel
<1> QED
  BY <1>1, <1>2, <1>3, <1>4, InvParts

(* Emptying the slot of a waiter.                                          *)
LEMMA EmptiedSlot ==
  ASSUME batch \in Seq(Slot), NEW f
  PROVE  /\ EmptySlot(f) \in Seq(Slot)
         /\ DOMAIN EmptySlot(f) = DOMAIN batch
         /\ \A k \in DOMAIN batch :
              /\ EmptySlot(f)[k] \in {batch[k], Emptied}
              /\ ref_data[f] = k => EmptySlot(f)[k] = Emptied
<1>1. CASE ref_data[f] \in DOMAIN batch
  <2> DEFINE b == [batch EXCEPT ![ref_data[f]] = Emptied]
  <2>1. Emptied \in Slot
    BY DEF Slot
  <2>2. b \in Seq(Slot) /\ DOMAIN b = DOMAIN batch
    BY <1>1, <2>1, ExceptSeq
  <2>3. EmptySlot(f) = b
    BY <1>1 DEF EmptySlot
  <2>4. \A k \in DOMAIN batch : b[k] = IF k = ref_data[f] THEN Emptied ELSE batch[k]
    OBVIOUS
  <2> HIDE DEF b
  <2> QED
    BY <2>2, <2>3, <2>4
<1>2. CASE ref_data[f] \notin DOMAIN batch
  BY <1>2 DEF EmptySlot
<1> QED
  BY <1>1, <1>2

LEMMA PollsKeep ==
  ASSUME IInv, PollTimed \/ PollFds \/ NoEvent \/ BatchEnd \/ TimedOut
  PROVE  IInv'
<1>1. WatchInv'
  <2>1. UNCHANGED <<kernel, count, waiters>>
    BY DEF PollTimed, PollFds, NoEvent, BatchEnd, TimedOut
  <2> QED
    BY <2>1, InvParts, WatchKept
<1>2. loop' \in {"top", "poll"}
  BY DEF PollTimed, PollFds, NoEvent, BatchEnd, TimedOut
<1>3. BodiesOK'
  <2>1. batch' \in Seq(Slot) /\ next' \in Nat \ {0}
    <3>1. CASE TimedOut
      <4> PICK f \in armed : batch' = EmptySlot(f)
        BY <3>1 DEF TimedOut
      <4> QED
        BY <3>1, EmptiedSlot DEF TimedOut, IInv, BodiesOK
    <3>2. CASE BatchEnd
      <4>1. batch' = << >> /\ next' = 1
        BY <3>2 DEF BatchEnd
      <4> QED
        BY <4>1
    <3>3. CASE PollTimed \/ PollFds \/ NoEvent
      BY <3>3 DEF PollTimed, PollFds, NoEvent, IInv, BodiesOK
    <3> QED
      BY <3>1, <3>2, <3>3
  <2>2. stop' # "none" => body' # "none"
    BY DEF IInv, BodiesOK, PollTimed, PollFds, NoEvent, BatchEnd, TimedOut
  <2>3. /\ loop' \in {"poll", "returned"} => body' = "none"
        /\ body' \in {"main", "timeout"} => loop' = "top"
    BY DEF IInv, BodiesOK, PollTimed, PollFds, NoEvent, BatchEnd, TimedOut, AtTop
  <2>4. ~eptimer' => armed' = {}
    BY DEF IInv, BodiesOK, PollTimed, PollFds, NoEvent, BatchEnd, TimedOut
  <2> QED
    BY <2>1, <2>2, <2>3, <2>4 DEF BodiesOK
<1>4. PendingValid' /\ ReturnsIdle'
  BY <1>2 DEF PendingValid, ReturnsIdle
<1> QED
  BY <1>1, <1>3, <1>4, InvParts

(* A batch of events names each waiter at most once.                       *)
LEMMA EventsKeep ==
  ASSUME IInv, Events
  PROVE  IInv'
<1> PICK S \in SUBSET epoll :
      \E order \in SetToSeqs(S) :
        /\ batch' = [k \in DOMAIN order |->
                       [to |-> order[k], fd |-> cort_fd[order[k]]]]
        /\ ref_data' = [f \in Waiter |->
                          IF f \in S THEN CHOOSE k \in DOMAIN order : order[k] = f
                          ELSE ref_data[f]]
  BY DEF Events
<1> PICK order \in SetToSeqs(S) :
      /\ batch' = [k \in DOMAIN order |->
                     [to |-> order[k], fd |-> cort_fd[order[k]]]]
      /\ ref_data' = [f \in Waiter |->
                        IF f \in S THEN CHOOSE k \in DOMAIN order : order[k] = f
                        ELSE ref_data[f]]
  OBVIOUS
<1>1. WatchInv'
  BY InvParts, WatchKept DEF Events
<1>3. /\ \A k \in DOMAIN order : order[k] \in S
      /\ \A i, j \in DOMAIN order : order[i] = order[j] => i = j
      /\ DOMAIN order = 1 .. Cardinality(S)
  BY DEF SetToSeqs
<1>2. BodiesOK' /\ ReturnsIdle'
  <2>1. S \subseteq Waiter /\ Cardinality(S) \in Nat
    BY FdAssumption, FS_Subset, FS_CardinalityType DEF FdAssumption, IInv, WatchOK
  <2>2. \A k \in DOMAIN order : batch'[k] \in Slot
    BY <1>3, <2>1 DEF IInv, WatchOK, Slot
  <2>3. batch' \in Seq(Slot)
    BY <1>3, <2>1, <2>2, IsASeq
  <2> QED
    BY <2>3 DEF Events, IInv, BodiesOK, ReturnsIdle
<1>4. PendingValid'
  <2> SUFFICES ASSUME fails = 0, NEW k \in DOMAIN order
               PROVE  LET f == batch'[k].to IN
                      /\ f \in alive \intersect epoll
                      /\ cort_fd[f] = batch'[k].fd
                      /\ ref_data'[f] = k
    BY DEF PendingValid, Events, kernel, waiters
  <2>1. batch'[k].to = order[k] /\ batch'[k].fd = cort_fd[order[k]]
    OBVIOUS
  <2>2. order[k] \in S /\ order[k] \in epoll /\ order[k] \in alive /\ order[k] \in Waiter
    BY <1>3 DEF IInv, WatchOK, RequestsWatched
  <2>3. ref_data'[order[k]] = CHOOSE i \in DOMAIN order : order[i] = order[k]
    BY <2>2
  <2>4. (CHOOSE i \in DOMAIN order : order[i] = order[k]) = k
    BY <1>3
  <2> QED
    BY <2>1, <2>2, <2>3, <2>4
<1> QED
  BY <1>1, <1>2, <1>4, InvParts

(* An event whose turn is still to come, and what PendingValid says of it. *)
Awaited(k) ==
  /\ batch[k] # Emptied
  /\ k > next \/ (k = next /\ body = "none")

Valid(k) ==
  /\ batch[k].to \in alive \intersect epoll
  /\ cort_fd[batch[k].to] = batch[k].fd
  /\ ref_data[batch[k].to] = k

LEMMA PendingIs ==
  /\ PendingValid <=> (loop = "batch" /\ fails = 0 =>
                         \A k \in DOMAIN batch : Awaited(k) => Valid(k))
  /\ PendingValid' <=> (loop' = "batch" /\ fails' = 0 =>
                          \A k \in DOMAIN batch' : Awaited(k)' => Valid(k)')
BY DEF PendingValid, Awaited, Valid

(* The loop goes from event to event: nothing new is awaited.              *)
LEMMA TurnKeepsPending ==
  ASSUME IInv, ResumeOnPoll \/ SkipSlot \/ BodyReturns
  PROVE  PendingValid'
<1> SUFFICES ASSUME loop' = "batch", fails' = 0, NEW k \in DOMAIN batch', Awaited(k)'
             PROVE  Valid(k)'
  BY PendingIs
<1>1. UNCHANGED <<fails, alive, epoll, cort_fd>>
  BY DEF ResumeOnPoll, SkipSlot, BodyReturns, kernel, waiters
<1>2. loop = "batch" /\ batch' = batch
  BY DEF ResumeOnPoll, SkipSlot, BodyReturns, IInv, BodiesOK
<1>3. \A i \in DOMAIN batch : Awaited(i) => Valid(i)
  BY <1>1, <1>2, PendingIs DEF IInv
<1>4. next \in Nat \ {0} /\ k \in Nat
  BY <1>2, LenProperties DEF IInv, BodiesOK
<1>5. CASE ResumeOnPoll
  <2>1. /\ body = "none" /\ next' = next /\ body' = "poll" /\ batch[next] # Emptied
        /\ ref_data' = [ref_data EXCEPT ![batch[next].to] = NoSlot]
    BY <1>5 DEF ResumeOnPoll
  <2>2. k > next /\ Awaited(k)
    BY <1>2, <2>1 DEF Awaited
  <2>3. Valid(k)
    BY <1>2, <1>3, <2>2
  <2>4. batch[k].to # batch[next].to
    <3>1. next \in DOMAIN batch
      BY <1>4, <1>5 DEF ResumeOnPoll, IInv, BodiesOK
    <3>2. Valid(next)
      BY <1>3, <2>1, <3>1 DEF Awaited
    <3>3. ref_data[batch[k].to] = k /\ ref_data[batch[next].to] = next
      BY <2>3, <3>2 DEF Valid
    <3>4. k # next
      BY <1>4, <2>2
    <3> QED
      BY <3>3, <3>4
  <2> QED
    BY <1>1, <1>2, <2>1, <2>3, <2>4 DEF Valid
<1>6. CASE SkipSlot \/ BodyReturns
  <2>1. UNCHANGED ref_data
    BY <1>6 DEF SkipSlot, BodyReturns
  <2>2. Awaited(k)
    <3>1. CASE next' = next + 1
      BY <1>2, <1>4, <3>1 DEF Awaited
    <3>2. CASE next' # next + 1
      <4>1. next' = next /\ body' = body
        BY <1>2, <1>6, <3>2 DEF SkipSlot, BodyReturns, IInv, BodiesOK
      <4> QED
        BY <1>2, <4>1 DEF Awaited
    <3> QED
      BY <3>1, <3>2
  <2> QED
    BY <1>1, <1>2, <1>3, <2>1, <2>2 DEF Valid
<1> QED
  BY <1>5, <1>6

LEMMA TurnsKeep ==
  ASSUME IInv, ResumeOnPoll \/ SkipSlot \/ BodyReturns
  PROVE  IInv'
<1>1. WatchInv'
  <2>1. UNCHANGED <<kernel, count, waiters>>
    BY DEF ResumeOnPoll, SkipSlot, BodyReturns
  <2> QED
    BY <2>1, InvParts, WatchKept
<1>2. BodiesOK'
  <2>1. batch' \in Seq(Slot) /\ next' \in Nat \ {0}
    <3>1. batch \in Seq(Slot) /\ next \in Nat \ {0}
      BY DEF IInv, BodiesOK
    <3>2. \/ batch' = batch /\ next' \in {next, next + 1}
          \/ batch' = << >> /\ next' = 1
      BY DEF ResumeOnPoll, SkipSlot, BodyReturns
    <3>3. << >> \in Seq(Slot)
      OBVIOUS
    <3>4. batch' \in Seq(Slot)
      BY <3>1, <3>2, <3>3
    <3> QED
      BY <3>1, <3>2, <3>4
  <2>2. stop' # "none" => body' # "none"
    BY DEF IInv, BodiesOK, ResumeOnPoll, SkipSlot, BodyReturns
  <2>3. /\ loop' \in {"poll", "returned"} => body' = "none"
        /\ body' \in {"main", "timeout"} => loop' = "top"
    BY DEF IInv, BodiesOK, ResumeOnPoll, SkipSlot, BodyReturns
  <2>4. UNCHANGED <<eptimer, armed>>
    BY DEF ResumeOnPoll, SkipSlot, BodyReturns
  <2> QED
    BY <2>1, <2>2, <2>3, <2>4 DEF IInv, BodiesOK
<1>3. ReturnsIdle'
  BY DEF IInv, BodiesOK, ReturnsIdle, ResumeOnPoll, SkipSlot, BodyReturns, kernel
<1>4. PendingValid'
  BY TurnKeepsPending
<1> QED
  BY <1>1, <1>2, <1>3, <1>4, InvParts

------------------------------------------------------------------------------
(* What the bodies do.                                                     *)

(* Events that were awaited stay valid as long as what they are about does *)
(* not change, or their slot is emptied.                                   *)
LEMMA BodyKeepsPending ==
  ASSUME IInv, UNCHANGED <<loop, next, body>>,
         fails' = 0 => fails = 0,
         DOMAIN batch' = DOMAIN batch,
         \A k \in DOMAIN batch : batch'[k] \in {batch[k], Emptied},
         fails' = 0 => \A k \in DOMAIN batch :
           batch'[k] = batch[k] /\ batch[k] # Emptied
             /\ batch[k].to \in alive \intersect epoll /\ ref_data[batch[k].to] = k
           => /\ batch[k].to \in alive' \intersect epoll'
              /\ cort_fd'[batch[k].to] = cort_fd[batch[k].to]
              /\ ref_data'[batch[k].to] = k
  PROVE  PendingValid'
<1> SUFFICES ASSUME loop' = "batch", fails' = 0, NEW k \in DOMAIN batch', Awaited(k)'
             PROVE  Valid(k)'
  BY PendingIs
<1>1. batch'[k] = batch[k] /\ Awaited(k)
  BY DEF Awaited
<1>2. Valid(k)
  BY <1>1, PendingIs DEF IInv
<1> QED
  BY <1>1, <1>2 DEF Valid, Awaited

(* A body runs, so the loop has not returned.                              *)
LEMMA BodyRuns ==
  ASSUME IInv, Running
  PROVE  loop # "returned" /\ body # "none"
BY DEF IInv, BodiesOK, Running

LEMMA BodyKeepsReturns ==
  ASSUME IInv, Running \/ stop # "none", UNCHANGED loop
  PROVE  ReturnsIdle'
BY DEF IInv, BodiesOK, Running, ReturnsIdle

(* Timeouts, which concern neither epoll nor the batch.                    *)
LEMMA TimeoutsKeep ==
  ASSUME IInv, NEW f \in Waiter, SetTimeout(f) \/ ClearTimeout(f)
  PROVE  IInv'
<1>1. /\ UNCHANGED <<kernel, eptimer, count, waiters, ref_data, batch, control>>
      /\ Running /\ (~eptimer => armed' = {})
  BY DEF SetTimeout, ClearTimeout, IInv, BodiesOK
<1>2. WatchInv'
  BY <1>1, InvParts, WatchKept
<1>3. BodiesOK'
  <2>1. UNCHANGED <<loop, body, stop, next, batch, eptimer>>
    BY <1>1 DEF control
  <2> QED
    BY <1>1, <2>1 DEF IInv, BodiesOK
<1>5. ReturnsIdle'
  BY <1>1, BodyKeepsReturns DEF control
<1>4. PendingValid'
  BY <1>1 DEF IInv, PendingValid, kernel, waiters, control
<1> QED
  BY <1>2, <1>3, <1>4, <1>5, InvParts

LEMMA OpenKeeps ==
  ASSUME IInv, NEW f \in Waiter, Open(f)
  PROVE  IInv'
<1>1. /\ UNCHANGED <<kernel, eptimer, count, alive, poll_request, armed, ref_data,
                     batch, control>>
      /\ Running /\ cort_fd[f] = NoFd
      /\ cort_fd' = [cort_fd EXCEPT ![f] = opened[f] + 1]
      /\ opened' = [opened EXCEPT ![f] = @ + 1]
  BY DEF Open
<1>2. fails = 0 => f \notin epoll
  BY <1>1 DEF IInv, RequestsWatched
<1>3. WatchInv'
  BY <1>1, <1>2
  DEF IInv, WatchInv, WatchOK, RequestsWatched, CountExact, kernel
<1>4. BodiesOK' /\ ReturnsIdle'
  BY <1>1, BodyKeepsReturns DEF IInv, BodiesOK, control
<1>5. PendingValid'
  BY <1>1, <1>2, BodyKeepsPending DEF kernel, control, IInv, WatchOK
<1> QED
  BY <1>3, <1>4, <1>5, InvParts

LEMMA RequestKeeps ==
  ASSUME IInv, NEW f \in Waiter, AddRequest(f) \/ AddFails(f)
  PROVE  IInv'
<1>1. /\ UNCHANGED <<epfd, eptimer, alive, opened, cort_fd, armed, ref_data, batch, control>>
      /\ Running /\ f \in alive /\ cort_fd[f] # NoFd /\ ~poll_request[f]
      /\ poll_request' = [poll_request EXCEPT ![f] = TRUE]
  BY DEF AddRequest, AddFails
<1>2. fails = 0 => f \notin epoll
  BY <1>1 DEF IInv, RequestsWatched
<1>3. BodiesOK' /\ ReturnsIdle'
  BY <1>1, BodyKeepsReturns DEF IInv, BodiesOK, control
<1>4. CASE AddRequest(f)
  <2>1. /\ epoll' = epoll \union {f} /\ count' = More(count) /\ fails' = fails
        /\ epfd
    BY <1>4 DEF AddRequest
  <2>2. WatchOK'
    BY <1>1, <2>1, CountBounds DEF IInv, WatchOK
  <2>3. RequestsWatched'
    BY <1>1, <2>1 DEF IInv, WatchOK, RequestsWatched
  <2>4. CountExact'
    BY <1>2, <2>1, Counting DEF IInv, WatchOK, CountExact
  <2>5. PendingValid'
    BY <1>1, <2>1, BodyKeepsPending DEF control, IInv, WatchOK
  <2> QED
    BY <1>3, <2>2, <2>3, <2>4, <2>5, InvParts DEF WatchInv
<1>5. CASE AddFails(f)
  <2>1. fails' = fails + 1 /\ UNCHANGED <<epoll, count>>
    BY <1>5 DEF AddFails
  <2>2. fails' \in Nat /\ fails' # 0
    BY <2>1 DEF IInv, WatchOK
  <2>3. WatchInv'
    BY <1>1, <2>1, <2>2 DEF IInv, WatchInv, WatchOK, RequestsWatched, CountExact
  <2>4. PendingValid'
    BY <2>2 DEF PendingValid
  <2> QED
    BY <1>3, <2>3, <2>4, InvParts
<1> QED
  BY <1>4, <1>5

(* A waiter f is taken out of epoll if it is there, with its slot.         *)
LEMMA TakenOut ==
  ASSUME IInv, NEW f \in Waiter, NEW fd \in {NoFd} \union Nat,
         Running,
         cort_fd' = [cort_fd EXCEPT ![f] = fd],
         epoll' = epoll \ {f},
         fails = 0 => count' = IF f \in epoll THEN Less(count) ELSE count,
         count' \in 0 .. CountMod - 1,
         poll_request' = [poll_request EXCEPT ![f] = FALSE],
         batch' = EmptySlot(f),
         ref_data' = [ref_data EXCEPT ![f] = NoSlot],
         alive' \in {alive, alive \ {f}},
         armed' = armed \/ armed' = armed \ {f},
         UNCHANGED <<epfd, fails, eptimer, opened, control>>
  PROVE  IInv'
<1>1. BodiesOK' /\ ReturnsIdle'
  <2>1. batch' \in Seq(Slot) /\ (~eptimer' => armed' = {})
    BY EmptiedSlot DEF IInv, BodiesOK
  <2> QED
    BY <2>1, BodyKeepsReturns DEF IInv, BodiesOK, control
<1>2. WatchOK'
  BY DEF IInv, WatchOK
<1>3. RequestsWatched'
  BY DEF IInv, WatchOK, RequestsWatched
<1>4. CountExact'
  <2>1. f \notin epoll => epoll' = epoll
    OBVIOUS
  <2> QED
    BY <2>1, Counting DEF IInv, WatchOK, CountExact
<1>5. PendingValid'
  <2>1. /\ DOMAIN batch' = DOMAIN batch
        /\ \A k \in DOMAIN batch :
              /\ batch'[k] \in {batch[k], Emptied}
              /\ ref_data[f] = k => batch'[k] = Emptied
    BY EmptiedSlot DEF IInv, BodiesOK
  <2>2. ASSUME NEW k \in DOMAIN batch, batch'[k] = batch[k], batch[k] # Emptied,
               batch[k].to \in alive \intersect epoll, ref_data[batch[k].to] = k
        PROVE  /\ batch[k].to \in alive' \intersect epoll'
               /\ cort_fd'[batch[k].to] = cort_fd[batch[k].to]
               /\ ref_data'[batch[k].to] = k
    <3>1. batch[k].to # f
      BY <2>1, <2>2
    <3>2. batch[k].to \in Waiter
      BY <2>2 DEF IInv, WatchOK
    <3> QED
      BY <2>2, <3>1, <3>2
  <2> QED
    BY <2>1, <2>2, BodyKeepsPending DEF control
<1> QED
  BY <1>1, <1>2, <1>3, <1>4, <1>5, InvParts DEF WatchInv

(* A waiter f that is not watched loses its fd, its request or its life.   *)
LEMMA LetGo ==
  ASSUME IInv, NEW f \in Waiter, NEW fd \in {NoFd} \union Nat,
         f \notin epoll \/ fails # 0, f \notin epoll \/ cort_fd[f] = NoFd,
         Running,
         cort_fd' = [cort_fd EXCEPT ![f] = fd],
         poll_request' \in {poll_request, [poll_request EXCEPT ![f] = FALSE]},
         alive' \in {alive, alive \ {f}},
         armed' = armed \/ armed' = armed \ {f},
         UNCHANGED <<kernel, count, batch, ref_data, eptimer, opened, control>>
  PROVE  IInv'
<1>1. BodiesOK'
  <2>1. UNCHANGED <<loop, body, stop, next, batch, eptimer>>
    BY DEF control
  <2> QED
    BY <2>1 DEF IInv, BodiesOK
<1>2. ReturnsIdle'
  BY BodyKeepsReturns DEF control
<1>3. WatchOK'
  BY DEF IInv, WatchOK, kernel
<1>4. RequestsWatched' /\ CountExact'
  BY DEF IInv, WatchOK, RequestsWatched, CountExact, kernel
<1>5. PendingValid'
  BY BodyKeepsPending DEF control, kernel, IInv, WatchOK
<1> QED
  BY <1>1, <1>2, <1>3, <1>4, <1>5, InvParts DEF WatchInv

LEMMA RemovesKeep ==
  ASSUME IInv, NEW f \in Waiter, RemovePollRequest(f) \/ RemoveCortFd(f)
  PROVE  IInv'
<1> PICK fd \in {NoFd} \union Nat : TakeOut(f, fd)
  <2>1. cort_fd[f] \in {NoFd} \union Nat
    BY DEF IInv, WatchOK
  <2> QED
    BY <2>1 DEF RemovePollRequest, RemoveCortFd
<1>1. count \in 0 .. CountMod - 1
  BY DEF IInv, WatchOK
<1>2. CASE f \in epoll
  <2>1. count' = Less(count) /\ count' \in 0 .. CountMod - 1
    BY <1>1, <1>2, CountBounds DEF TakeOut
  <2> QED
    BY <1>2, <2>1, TakenOut DEF TakeOut
<1>3. CASE f \notin epoll
  BY <1>3, LetGo DEF TakeOut, kernel
<1> QED
  BY <1>2, <1>3

LEMMA ClosesKeep ==
  ASSUME IInv, NEW f \in Waiter, CloseCortFd(f) \/ Delete(f)
  PROVE  IInv'
<1>1. /\ CloseFd(f) /\ Running
      /\ UNCHANGED <<epfd, fails, eptimer, opened, control>>
      /\ alive' \in {alive, alive \ {f}}
      /\ armed' = armed \/ armed' = armed \ {f}
  BY DEF CloseCortFd, Delete, ArmedWithout
<1>2. /\ count \in 0 .. CountMod - 1
      /\ fails = 0 => (f \in epoll <=> poll_request[f])
      /\ fails = 0 /\ f \in epoll => cort_fd[f] # NoFd
      /\ cort_fd[f] \in {NoFd} \union Nat
      /\ cort_fd \in [Waiter -> {NoFd} \union Nat]
  BY DEF IInv, WatchOK, RequestsWatched
<1>3. CASE cort_fd[f] # NoFd
  <2>1. /\ fails = 0 => count' = IF f \in epoll THEN Less(count) ELSE count
        /\ count' \in 0 .. CountMod - 1
    BY <1>1, <1>2, <1>3, CountBounds DEF CloseFd, CountWithout
  <2> QED
    BY <1>1, <1>3, <2>1, TakenOut DEF CloseFd
<1>4. CASE cort_fd[f] = NoFd
  <2>1. /\ poll_request' = [poll_request EXCEPT ![f] = FALSE]
        /\ cort_fd' = [cort_fd EXCEPT ![f] = NoFd]
        /\ UNCHANGED <<batch, ref_data, count, kernel>>
    BY <1>1, <1>2, <1>4 DEF CloseFd, kernel
  <2> QED
    BY <1>1, <1>2, <1>4, <2>1, LetGo
<1> QED
  BY <1>3, <1>4

(* The timers are destroyed: the epoll fd is closed only when it watches   *)
(* nothing.                                                                *)
LEMMA DestroyKeeps ==
  ASSUME IInv, Destroy
  PROVE  IInv'
<1>1. /\ UNCHANGED <<fails, eptimer, count, waiters, armed, ref_data, batch, loop,
                     next, body>>
      /\ Running /\ stop' = "next" /\ epfd' \in BOOLEAN
      /\ epoll' \in {epoll, {}} /\ (~epfd' => epoll' = {})
      /\ epfd' = (epfd /\ count # 0)
      /\ epoll' = IF epfd' THEN epoll ELSE {}
  BY DEF Destroy, IInv, WatchOK
<1>2. fails = 0 => epoll' = epoll
  <2>1. fails = 0 /\ count = 0 => epoll = {}
    BY Counting, FdAssumption, FS_Subset, FS_EmptySet
    DEF FdAssumption, IInv, WatchOK, CountExact
  <2> QED
    BY <1>1, <2>1 DEF IInv, WatchOK
<1>3. WatchOK'
  BY <1>1 DEF IInv, WatchOK, waiters
<1>4. RequestsWatched' /\ CountExact'
  BY <1>1, <1>2 DEF IInv, RequestsWatched, CountExact, waiters
<1>5. BodiesOK' /\ ReturnsIdle'
  <2>1. body # "none" /\ loop # "returned"
    BY <1>1, BodyRuns
  <2> QED
    BY <1>1, <2>1 DEF IInv, BodiesOK, ReturnsIdle
<1>6. PendingValid'
  BY <1>1, <1>2 DEF IInv, PendingValid, waiters
<1> QED
  BY <1>3, <1>4, <1>5, <1>6, InvParts DEF WatchInv

LEMMA StopKeeps ==
  ASSUME IInv, ResumeOnStop
  PROVE  IInv'
<1> PICK f \in armed :
      /\ armed' = armed \ {f}
      /\ batch' = EmptySlot(f)
      /\ ref_data' = [ref_data EXCEPT ![f] = NoSlot]
  BY DEF ResumeOnStop
<1>1. /\ UNCHANGED <<kernel, eptimer, count, waiters, loop, timed, next, body>>
      /\ stop = "next" /\ stop' = "body"
  BY DEF ResumeOnStop
<1>2. WatchInv'
  BY <1>1, InvParts, WatchKept
<1>3. /\ batch' \in Seq(Slot) /\ DOMAIN batch' = DOMAIN batch
      /\ \A k \in DOMAIN batch :
            /\ batch'[k] \in {batch[k], Emptied}
            /\ ref_data[f] = k => batch'[k] = Emptied
  BY EmptiedSlot DEF IInv, BodiesOK
<1>4. BodiesOK'
  BY <1>1, <1>3 DEF IInv, BodiesOK
<1>5. ReturnsIdle'
  BY <1>1, BodyKeepsReturns
<1>6. PendingValid'
  <2>1. ASSUME NEW k \in DOMAIN batch, batch'[k] = batch[k], batch[k] # Emptied,
               batch[k].to \in alive \intersect epoll, ref_data[batch[k].to] = k
        PROVE  /\ batch[k].to \in alive' \intersect epoll'
               /\ cort_fd'[batch[k].to] = cort_fd[batch[k].to]
               /\ ref_data'[batch[k].to] = k
    <3>1. batch[k].to # f
      BY <1>3, <2>1
    <3>2. ref_data'[batch[k].to] = ref_data[batch[k].to]
      BY <3>1
    <3> QED
      BY <1>1, <2>1, <3>2 DEF kernel, waiters
  <2>2. fails' = fails
    BY <1>1 DEF kernel
  <2> QED
    BY <1>1, <1>3, <2>1, <2>2, BodyKeepsPending
<1> QED
  BY <1>2, <1>4, <1>5, <1>6, InvParts

LEMMA TimersKeep ==
  ASSUME IInv, Destroyed \/ TimerInit
  PROVE  IInv'
<1>1. /\ UNCHANGED <<epoll, fails, count, waiters, armed, ref_data, batch, loop,
                     next, body>>
      /\ epfd' \in BOOLEAN /\ (~epfd' => epoll = {})
      /\ stop' = "none" /\ (~eptimer' => armed = {})
      /\ Running \/ stop # "none"
  BY DEF Destroyed, TimerInit, kernel, control, IInv, WatchOK
<1>2. WatchInv'
  BY <1>1
  DEF IInv, WatchInv, WatchOK, RequestsWatched, CountExact, waiters
<1>3. BodiesOK' /\ PendingValid'
  BY <1>1 DEF IInv, BodiesOK, PendingValid, waiters
<1>4. ReturnsIdle'
  BY <1>1, BodyKeepsReturns
<1> QED
  BY <1>2, <1>3, <1>4, InvParts

------------------------------------------------------------------------------
LEMMA InitInv == Init => IInv
<1> SUFFICES ASSUME Init PROVE IInv
  OBVIOUS
<1>1. IsFiniteSet(Waiter) /\ CountMod \in Nat /\ CountMod > Cardinality(Waiter)
  BY FdAssumption DEF FdAssumption
<1>2. Cardinality({}) = 0 /\ Cardinality(Waiter) \in Nat
  BY <1>1, FS_EmptySet, FS_CardinalityType
<1>3. WatchOK
  BY <1>1, <1>2 DEF Init, WatchOK
<1>4. RequestsWatched /\ CountExact
  BY <1>2 DEF Init, RequestsWatched, CountExact
<1>5. BodiesOK /\ PendingValid /\ ReturnsIdle
  BY DEF Init, BodiesOK, PendingValid, ReturnsIdle
<1> QED
  BY <1>3, <1>4, <1>5 DEF IInv

LEMMA StutterKeeps ==
  ASSUME IInv, UNCHANGED vars
  PROVE  IInv'
<1>1. WatchOK' /\ RequestsWatched' /\ CountExact'
  BY DEF vars, IInv, WatchOK, RequestsWatched, CountExact
<1>2. BodiesOK' /\ PendingValid' /\ ReturnsIdle'
  BY DEF vars, IInv, BodiesOK, PendingValid, ReturnsIdle
<1> QED
  BY <1>1, <1>2 DEF IInv

LEMMA NextKeeps == IInv /\ [Next]_vars => IInv'
<1> SUFFICES ASSUME IInv, [Next]_vars PROVE IInv'
  OBVIOUS
<1>1. CASE Loop
  BY <1>1, PollsKeep, LoopStops, EventsKeep, TurnsKeep, StopKeeps, TimersKeep
  DEF Loop
<1>2. CASE BodyReturns
  BY <1>2, TurnsKeep
<1>3. CASE Body
  BY <1>3, OpenKeeps, RemovesKeep, ClosesKeep, TimeoutsKeep, RequestKeeps,
     DestroyKeeps, TimersKeep
  DEF Body
<1>4. CASE UNCHANGED vars
  BY <1>4, StutterKeeps
<1> QED
  BY <1>1, <1>2, <1>3, <1>4 DEF Next

(* In every state the fds that have a request are the ones epoll watches,  *)
(* and what a batch still holds is about them (cort_timer_poll).           *)
THEOREM InvHolds == Spec => []IInv
BY InitInv, NextKeeps, PTL DEF Spec

(* epollfd_total_count equals the number of fds that epoll watches.        *)
THEOREM WatchedCounted == Spec => []CountExact
<1>1. IInv => CountExact
  BY DEF IInv
<1> QED
  BY <1>1, InvHolds, PTL

(* No event of a batch reaches a waiter that another body of the batch has *)
(* deleted or taken from its fd (cort_timer_poll).                         *)
THEOREM EventsReachWaiters == Spec => []PendingValid
<1>1. IInv => PendingValid
  BY DEF IInv
<1> QED
  BY <1>1, InvHolds, PTL

(* cort_timer_loop returns only when there is nothing to wait for.         *)
THEOREM LoopReturnsIdle == Spec => []ReturnsIdle
<1>1. IInv => ReturnsIdle
  BY DEF IInv
<1> QED
  BY <1>1, InvHolds, PTL
=============================================================================
