------------------------------- MODULE FdPoll -------------------------------
(***************************************************************************)
(* cort_timer_loop, cort_timer_poll and cort_fd_waiter: the loop of one    *)
(* thread waits in epoll for the fds its coroutines registered, and        *)
(* resumes the waiters of a batch of events one after the other.  A body   *)
(* that runs may register, remove, close or delete any waiter, those of    *)
(* later events of the same batch included, and may destroy the timers,    *)
(* which stops every waiter with a timeout in a nested run.  Each waiter   *)
(* in the batch knows its slot there (ref_data), to empty it in time.      *)
(* Which timeout is next is the business of TimerHeap: here any may be.    *)
(***************************************************************************)
EXTENDS Integers, Sequences, FiniteSets, SequencesExt

CONSTANTS
  Waiter,      \* the cort_fd_waiters
  MaxOpen,     \* bound: how many fds the waiters open in all
  CountMod,    \* epollfd_total_count is modulo CountMod
  MaxFails     \* bound: how often epoll_ctl is out of memory or watches

ASSUME FdAssumption ==
  /\ IsFiniteSet(Waiter)
  /\ MaxOpen \in Nat
  /\ CountMod \in Nat /\ CountMod > Cardinality(Waiter)
  /\ MaxFails \in Nat

VARIABLES
  epfd,          \* the epoll fd is open
  eptimer,       \* the timers exist
  epoll,         \* the waiters whose fd the epoll fd watches
  count,         \* epollfd_total_count
  fails,         \* how often EPOLL_CTL_ADD has failed
  alive,         \* the waiters that are not deleted
  opened,        \* how many fds a waiter has opened
  cort_fd,       \* the fd of a waiter, the one it opened as n-th, or NoFd
  poll_request,  \* it has asked for events: poll_request is not 0
  armed,         \* the waiters that have a timeout
  ref_data,      \* the slot of a waiter in the batch, or NoSlot
  loop,          \* where cort_timer_loop is
  timed,         \* its poll was called with the end time of a timeout
  batch,         \* the events of the poll: waiter and fd, or Emptied
  next,          \* the slot whose turn it is
  body,          \* what the loop is running: who called it
  stop           \* where ~cort_timer is, which runs inside a body

kernel == <<epfd, epoll, fails>>
waiters == <<alive, opened, cort_fd, poll_request>>
control == <<loop, timed, next, body, stop>>
vars == <<epfd, eptimer, epoll, count, fails, alive, opened, cort_fd,
          poll_request, armed, ref_data, loop, timed, batch, next, body, stop>>

NoFd == -1
NoSlot == 0
Emptied == [to |-> "nobody"]
Event == [to : Waiter, fd : 1 .. MaxOpen]

TypeOK ==
  /\ epfd \in BOOLEAN /\ eptimer \in BOOLEAN
  /\ epoll \subseteq Waiter
  /\ count \in 0 .. CountMod - 1
  /\ fails \in 0 .. MaxFails
  /\ alive \subseteq Waiter
  /\ opened \in [Waiter -> 0 .. MaxOpen]
  /\ cort_fd \in [Waiter -> {NoFd} \union 1 .. MaxOpen]
  /\ poll_request \in [Waiter -> BOOLEAN]
  /\ armed \subseteq alive
  /\ ref_data \in [Waiter -> 0 .. Cardinality(Waiter)]
  /\ loop \in {"top", "poll", "batch", "returned"}
  /\ timed \in BOOLEAN
  /\ batch \in Seq(Event \union {Emptied}) /\ Len(batch) <= Cardinality(Waiter)
  /\ next \in 1 .. Cardinality(Waiter) + 1
  /\ body \in {"main", "poll", "timeout", "none"}
  /\ stop \in {"none", "next", "body"}

(* The program calls cort_timer_init, starts its coroutines and then calls *)
(* cort_timer_loop.                                                        *)
Init ==
  /\ epfd = TRUE /\ eptimer = TRUE
  /\ epoll = {} /\ count = 0 /\ fails = 0
  /\ alive = Waiter
  /\ opened = [f \in Waiter |-> 0]
  /\ cort_fd = [f \in Waiter |-> NoFd]
  /\ poll_request = [f \in Waiter |-> FALSE]
  /\ armed = {}
  /\ ref_data = [f \in Waiter |-> NoSlot]
  /\ loop = "top" /\ timed = FALSE
  /\ batch = << >> /\ next = 1
  /\ body = "main" /\ stop = "none"

------------------------------------------------------------------------------
(* cort_timer_loop and cort_timer_poll.                                    *)

AtTop == loop = "top" /\ body = "none"

(* There is a timeout: poll until its end time.                            *)
PollTimed ==
  /\ AtTop /\ eptimer /\ armed # {}
  /\ loop' = "poll" /\ timed' = TRUE
  /\ UNCHANGED <<kernel, eptimer, count, waiters, armed, ref_data, batch, next,
                 body, stop>>

(* There is none, but fds are watched.                                     *)
PollFds ==
  /\ AtTop /\ ~(eptimer /\ armed # {}) /\ count # 0
  /\ loop' = "poll" /\ timed' = FALSE
  /\ UNCHANGED <<kernel, eptimer, count, waiters, armed, ref_data, batch, next,
                 body, stop>>

LoopReturns ==
  /\ AtTop /\ ~(eptimer /\ armed # {}) /\ count = 0
  /\ loop' = "returned"
  /\ UNCHANGED <<kernel, eptimer, count, waiters, armed, ref_data, timed, batch,
                 next, body, stop>>

MNotEmptied(f) == batch
(* The batch when the slot of f has been emptied through ref_data.  A      *)
(* ref_data left from an earlier batch points into the same array.         *)
EmptySlot(f) ==
  IF ref_data[f] \in DOMAIN batch THEN [batch EXCEPT ![ref_data[f]] = Emptied]
  ELSE batch

(* The time is over and there was no event: resume_on_timeout.             *)
TimedOut ==
  /\ loop = "poll" /\ timed
  /\ \E f \in armed :
       /\ armed' = armed \ {f}
       /\ batch' = EmptySlot(f)
       /\ ref_data' = [ref_data EXCEPT ![f] = NoSlot]
  /\ loop' = "top" /\ body' = "timeout"
  /\ UNCHANGED <<kernel, eptimer, count, waiters, timed, next, stop>>

(* No event within the second that a poll without a timeout takes, or a    *)
(* signal.                                                                 *)
NoEvent ==
  /\ loop = "poll"
  /\ loop' = "top"
  /\ UNCHANGED <<kernel, eptimer, count, waiters, armed, ref_data, timed, batch,
                 next, body, stop>>

(* Events of some of the watched fds, in any order.                        *)
Events ==
  /\ loop = "poll" /\ epfd
  /\ \E S \in SUBSET epoll \ {{}} : \E order \in SetToSeqs(S) :
       /\ batch' = [k \in DOMAIN order |->
                      [to |-> order[k], fd |-> cort_fd[order[k]]]]
       /\ ref_data' = [f \in Waiter |->
                         IF f \in S THEN CHOOSE k \in DOMAIN order : order[k] = f
                         ELSE ref_data[f]]
  /\ next' = 1 /\ loop' = "batch"
  /\ UNCHANGED <<kernel, eptimer, count, waiters, armed, timed, body, stop>>

(* resume_on_poll of the waiter in the next slot.                          *)
ResumeOnPoll ==
  /\ loop = "batch" /\ body = "none"
  /\ next <= Len(batch) /\ batch[next] # Emptied
  /\ ref_data' = [ref_data EXCEPT ![batch[next].to] = NoSlot]
  /\ body' = "poll"
  /\ UNCHANGED <<kernel, eptimer, count, waiters, armed, batch, loop, timed, next,
                 stop>>

SkipSlot ==
  /\ loop = "batch" /\ body = "none"
  /\ next <= Len(batch) /\ batch[next] = Emptied
  /\ next' = next + 1
  /\ UNCHANGED <<kernel, eptimer, count, waiters, armed, ref_data, batch, loop,
                 timed, body, stop>>

BatchEnd ==
  /\ loop = "batch" /\ body = "none" /\ next > Len(batch)
  /\ loop' = "top" /\ batch' = << >> /\ next' = 1
  /\ UNCHANGED <<kernel, eptimer, count, waiters, armed, ref_data, timed, body,
                 stop>>

(* The rest of the batch is dropped when a body destroyed the timers.      *)
Abandon == ~eptimer /\ (timed \/ ~epfd)

(* A body returns, to the loop or to ~cort_timer.                          *)
BodyReturns ==
  /\ \/ /\ stop = "body" /\ stop' = "next"
        /\ UNCHANGED <<loop, batch, next, body>>
     \/ /\ stop = "none" /\ body \in {"main", "timeout"} /\ body' = "none"
        /\ UNCHANGED <<loop, batch, next, stop>>
     \/ /\ stop = "none" /\ body = "poll" /\ body' = "none"
        /\ IF Abandon
             THEN loop' = "top" /\ batch' = << >> /\ next' = 1
             ELSE next' = next + 1 /\ UNCHANGED <<loop, batch>>
        /\ UNCHANGED stop
  /\ UNCHANGED <<kernel, eptimer, count, waiters, armed, ref_data, timed>>

------------------------------------------------------------------------------
(* What a body may do with a waiter that is not deleted.                   *)

Running == (body # "none" /\ stop = "none") \/ stop = "body"

MUncounted(n) == n
Less(n) == (n - 1) % CountMod
More(n) == (n + 1) % CountMod

(* set_cort_fd() with a new fd.                                            *)
Open(f) ==
  /\ Running /\ f \in alive
  /\ cort_fd[f] = NoFd /\ FoldFunction(+, 0, opened) < MaxOpen
  /\ opened' = [opened EXCEPT ![f] = @ + 1]
  /\ cort_fd' = [cort_fd EXCEPT ![f] = opened[f] + 1]
  /\ UNCHANGED <<kernel, eptimer, count, alive, poll_request, armed, ref_data, batch,
                 control>>

(* set_poll_request(), which changes the events of a fd that has some      *)
(* already, or else adds the fd (EPOLL_CTL_ADD) and counts it ...          *)
AddRequest(f) ==
  /\ Running /\ f \in alive
  /\ cort_fd[f] # NoFd /\ ~poll_request[f] /\ epfd
  /\ epoll' = epoll \union {f}
  /\ count' = More(count)
  /\ poll_request' = [poll_request EXCEPT ![f] = TRUE]
  /\ UNCHANGED <<epfd, fails, eptimer, alive, opened, cort_fd, armed, ref_data, batch,
                 control>>

(* ... or fails to add it, and records the request all the same.           *)
AddFails(f) ==
  /\ fails < MaxFails
  /\ Running /\ f \in alive
  /\ cort_fd[f] # NoFd /\ ~poll_request[f]
  /\ poll_request' = [poll_request EXCEPT ![f] = TRUE]
  /\ fails' = fails + 1
  /\ UNCHANGED <<epfd, epoll, eptimer, count, alive, opened, cort_fd, armed, ref_data,
                 batch, control>>

(* remove_poll_request() takes the fd out of epoll if it is there, and     *)
(* remove_cort_fd() then lets go of the fd, which stays open.              *)
TakeOut(f, fd) ==
  /\ Running /\ f \in alive /\ cort_fd[f] # NoFd
  /\ cort_fd' = [cort_fd EXCEPT ![f] = fd]
  /\ IF f \in epoll
       THEN /\ epoll' = epoll \ {f}
            /\ count' = Less(count)
            /\ poll_request' = [poll_request EXCEPT ![f] = FALSE]
            /\ batch' = EmptySlot(f)
            /\ ref_data' = [ref_data EXCEPT ![f] = NoSlot]
       ELSE UNCHANGED <<epoll, count, poll_request, batch, ref_data>>
  /\ UNCHANGED <<epfd, fails, eptimer, alive, opened, armed, control>>

RemovePollRequest(f) == TakeOut(f, cort_fd[f])
RemoveCortFd(f) == TakeOut(f, NoFd)

MKeptCount(f) == count
(* epollfd_total_count after close_cort_fd: a fd is counted out when it    *)
(* has a request, whether or not it was counted in.                        *)
CountWithout(f) == IF poll_request[f] THEN Less(count) ELSE count

(* close_cort_fd(); the kernel takes a closed fd out of epoll by itself.   *)
CloseFd(f) ==
  IF cort_fd[f] # NoFd
    THEN /\ batch' = EmptySlot(f)
         /\ ref_data' = [ref_data EXCEPT ![f] = NoSlot]
         /\ count' = CountWithout(f)
         /\ epoll' = epoll \ {f}
         /\ cort_fd' = [cort_fd EXCEPT ![f] = NoFd]
         /\ poll_request' = [poll_request EXCEPT ![f] = FALSE]
    ELSE /\ poll_request' = [poll_request EXCEPT ![f] = FALSE]
         /\ UNCHANGED <<batch, ref_data, count, epoll, cort_fd>>

CloseCortFd(f) ==
  /\ Running /\ f \in alive
  /\ CloseFd(f)
  /\ UNCHANGED <<epfd, fails, eptimer, alive, opened, armed, control>>

(* The timeouts after ~cort_timeout_waiter.                                *)
ArmedWithout(f) == armed \ {f}

(* ~cort_fd_waiter and ~cort_timeout_waiter.                               *)
Delete(f) ==
  /\ Running /\ f \in alive
  /\ CloseFd(f)
  /\ armed' = ArmedWithout(f)
  /\ alive' = alive \ {f}
  /\ UNCHANGED <<epfd, fails, eptimer, opened, control>>

(* set_timeout(); no body sets one while it is being stopped.              *)
SetTimeout(f) ==
  /\ Running /\ stop = "none" /\ f \in alive \ armed /\ eptimer
  /\ armed' = armed \union {f}
  /\ UNCHANGED <<kernel, eptimer, count, waiters, ref_data, batch, control>>

ClearTimeout(f) ==
  /\ Running /\ f \in armed
  /\ armed' = armed \ {f}
  /\ UNCHANGED <<kernel, eptimer, count, waiters, ref_data, batch, control>>

(* cort_timer_destroy(): the epoll fd is closed when no fd is counted, and *)
(* ~cort_timer begins.                                                     *)
Destroy ==
  /\ Running /\ stop = "none" /\ eptimer
  /\ stop' = "next"
  /\ epfd' = (epfd /\ count # 0)
  /\ epoll' = IF epfd' THEN epoll ELSE {}
  /\ UNCHANGED <<fails, eptimer, count, waiters, armed, ref_data, batch, loop, timed,
                 next, body>>

(* cort_timeout_waiter::resume_on_stop() of the next waiter: it is called  *)
(* through that type and is not virtual, so the fd stays as it is.         *)
ResumeOnStop ==
  /\ stop = "next"
  /\ \E f \in armed :
       /\ armed' = armed \ {f}
       /\ batch' = EmptySlot(f)
       /\ ref_data' = [ref_data EXCEPT ![f] = NoSlot]
  /\ stop' = "body"
  /\ UNCHANGED <<kernel, eptimer, count, waiters, loop, timed, next, body>>

Destroyed ==
  /\ stop = "next" /\ armed = {}
  /\ stop' = "none" /\ eptimer' = FALSE
  /\ UNCHANGED <<kernel, count, waiters, armed, ref_data, batch, loop, timed, next, body>>

(* cort_timer_init() after the timers were destroyed.                      *)
TimerInit ==
  /\ Running /\ stop = "none" /\ ~eptimer
  /\ eptimer' = TRUE /\ epfd' = TRUE
  /\ UNCHANGED <<epoll, fails, count, waiters, armed, ref_data, batch, control>>

Loop ==
  \/ PollTimed \/ PollFds \/ LoopReturns
  \/ TimedOut \/ NoEvent \/ Events
  \/ ResumeOnPoll \/ SkipSlot \/ BatchEnd
  \/ ResumeOnStop \/ Destroyed

Body ==
  \/ \E f \in Waiter :
       \/ Open(f) \/ RemovePollRequest(f) \/ RemoveCortFd(f) \/ CloseCortFd(f)
       \/ Delete(f) \/ SetTimeout(f) \/ ClearTimeout(f)
       \/ AddRequest(f) \/ AddFails(f)
  \/ Destroy \/ TimerInit

Next == Loop \/ BodyReturns \/ Body

Spec == Init /\ [][Next]_vars

(* The thread goes on, and a body does only so much before it returns.     *)
FairSpec == Spec /\ WF_vars(Loop) /\ SF_vars(BodyReturns)

------------------------------------------------------------------------------
(* Properties.                                                             *)

(* epollfd_total_count is the number of fds that epoll watches, however    *)
(* they are removed, closed or deleted, as long as epoll_ctl has not       *)
(* failed: cort_timer_loop decides by it whether it has anything left to   *)
(* wait for.                                                               *)
CountExact == fails = 0 => count = Cardinality(epoll)

(* The same whatever epoll_ctl returned, as the comment of                 *)
(* cort_waited_fd_count_thread has it.                                     *)
CountAlwaysExact == count = Cardinality(epoll)

(* A slot of the batch that is still to come and is not emptied names a    *)
(* waiter that exists, that knows its slot, and that is still waiting for  *)
(* the fd the event is about: no body of the same batch has closed,        *)
(* removed, replaced or deleted it (cort_timer_poll, close_cort_fd), if    *)
(* epoll_ctl has not failed.                                               *)
PendingValid ==
  loop = "batch" /\ fails = 0 =>
    \A k \in DOMAIN batch :
      /\ batch[k] # Emptied
      /\ k > next \/ (k = next /\ body = "none")
      => LET f == batch[k].to IN
         /\ f \in alive \intersect epoll
         /\ cort_fd[f] = batch[k].fd
         /\ ref_data[f] = k

(* cort_timer_loop returns only when no timeout is set and no fd is        *)
(* watched, as its comment promises, if epoll_ctl has not failed.          *)
ReturnsIdle == loop = "returned" /\ fails = 0 => armed = {} /\ epoll = {}

(* The loop does return once every timeout is over and every fd is         *)
(* removed, closed or deleted, if epoll_ctl has not failed.                *)
IdleReturns ==
  <>[](armed = {} /\ epoll = {} /\ fails = 0) => <>(loop = "returned")

------------------------------------------------------------------------------
(* What the proof of CountExact, PendingValid and ReturnsIdle needs        *)
(* besides them.                                                           *)

WatchOK ==
  /\ epoll \subseteq Waiter /\ alive \subseteq Waiter
  /\ epfd \in BOOLEAN /\ (~epfd => epoll = {})
  /\ count \in 0 .. CountMod - 1 /\ fails \in Nat
  /\ poll_request \in [Waiter -> BOOLEAN]
  /\ cort_fd \in [Waiter -> {NoFd} \union Nat]
  /\ opened \in [Waiter -> Nat]

(* Epoll watches the fds of exactly those waiters that have a request.     *)
RequestsWatched ==
  fails = 0 =>
    /\ epoll = {f \in Waiter : poll_request[f]}
    /\ \A f \in epoll : f \in alive /\ cort_fd[f] # NoFd

Slot == [to : Waiter, fd : {NoFd} \union Nat] \union {Emptied}

(* The bodies that run, and where the loop is meanwhile.                   *)
BodiesOK ==
  /\ stop # "none" => body # "none"
  /\ loop \in {"poll", "returned"} => body = "none"
  /\ body \in {"main", "timeout"} => loop = "top"
  /\ ~eptimer => armed = {}
  /\ next \in Nat \ {0}
  /\ batch \in Seq(Slot)

IInv ==
  /\ WatchOK
  /\ RequestsWatched
  /\ BodiesOK
  /\ CountExact
  /\ PendingValid
  /\ ReturnsIdle
=============================================================================
