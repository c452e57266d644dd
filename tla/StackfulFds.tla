---------------------------- MODULE StackfulFds -----------------------------
(***************************************************************************)
(* The hooked system calls of stackful coroutines                          *)
(* (cort_stackful_fds_waiter).  A call that would block makes the          *)
(* coroutine a cort_fd_waiter of its fd, sets a timeout if there is none,  *)
(* and yields to the stack of the loop; when the loop resumes it, it takes *)
(* all that back.  Which coroutine calls is told by a variable of the      *)
(* thread, current_thread_coroutine, that every switch of stacks has to    *)
(* keep up to date.  An fd is hooked when it is in the table of the        *)
(* coroutine, and is non-blocking as long as it is.                        *)
(*                                                                         *)
(* The clock is the cached one; a timeout is kept as the time that is      *)
(* left.  What the program may do is limited as the header asks: stackful  *)
(* coroutines are started from the usual stack, and an fd is used by the   *)
(* coroutine that opened it.                                               *)
(***************************************************************************)
EXTENDS Integers, Sequences, FiniteSets, SequencesExt

CONSTANTS
  Coroutine,   \* the stackful coroutines
  Fd,          \* the numbers the kernel gives to fds
  Sleeps,      \* times to sleep, in ms
  Limits,      \* timeouts of a socket and of one call
  Deadlines,   \* timeouts that the program sets itself
  MaxTable,    \* bound: entries of the tables of fds
  MaxLag,      \* bound: how long a timeout may be overdue
  Ties         \* a coroutine may sleep until its own deadline to the ms

Nobody == "nobody"
NoFd == "none"

ASSUME StackfulAssumption ==
  /\ IsFiniteSet(Coroutine) /\ IsFiniteSet(Fd)
  /\ Nobody \notin Coroutine /\ NoFd \notin Fd
  /\ Sleeps \union Limits \union Deadlines \subseteq Nat \ {0}
  /\ MaxTable \in Nat /\ MaxLag \in Nat
  /\ Ties \in BOOLEAN

VARIABLES
  running,    \* the coroutine on whose stack the thread runs, or Nobody
  current,    \* current_thread_coroutine
  pc,         \* where a coroutine is: in its own code or in a hooked call
  call,       \* the call it is in: what it waits for, and whether it set the timeout
  table,      \* fds_array up to reserved_count
  opener,     \* who opened an fd, Nobody when it is closed
  blocking,   \* the fds without O_NONBLOCK
  raw,        \* the fds that came neither from socket() nor from dup()
  watched,    \* the kernel's epoll set: fd and waiter
  cort_fd,    \* the fd a coroutine waits for, or NoFd
  request,    \* poll_request is not 0
  timers,     \* the timeouts that are set: the coroutines' and their sleepers'
  over,       \* is_timeout_or_stopped()
  deadline,   \* the timeouts that the program itself has set
  batch       \* the coroutines whose event of the last poll is still to come

fds == <<table, opener, blocking, raw>>
waiting == <<watched, cort_fd, request>>
times == <<timers, over, deadline>>
threads == <<running, current, pc, call, batch>>
vars == <<running, current, pc, call, table, opener, blocking, raw, watched,
          cort_fd, request, timers, over, deadline, batch>>

NoCall == [op |-> "none", fd |-> NoFd, own |-> FALSE]
Ops == {"io", "accept", "connect", "events", "set", "nap", "sleep", "rest"}
Call == [op : Ops \union {"none"}, fd : Fd \union {NoFd}, own : BOOLEAN]
Entry == [fd : Fd, limit : Limits \union {0}]
Entries == FoldFunction(LAMBDA t, n : Len(t) + n, 0, table)
Span == -MaxLag .. Max(Sleeps \union Limits \union Deadlines)

TypeOK ==
  /\ {running, current} \subseteq Coroutine \union {Nobody}
  /\ pc \in [Coroutine -> {"new", "body", "try", "yielded", "done"}]
  /\ call \in [Coroutine -> Call]
  /\ table \in [Coroutine -> Seq(Entry)]
  /\ Entries <= MaxTable
  /\ opener \in [Fd -> Coroutine \union {Nobody}]
  /\ blocking \subseteq Fd /\ raw \subseteq Fd
  /\ watched \subseteq Fd \X Coroutine
  /\ cort_fd \in [Coroutine -> Fd \union {NoFd}]
  /\ request \in [Coroutine -> BOOLEAN]
  /\ timers \subseteq [of : Coroutine, what : {"waiter", "sleeper"}, left : Span]
  /\ over \in [Coroutine -> BOOLEAN]
  /\ deadline \subseteq [of : Coroutine, left : Span]
  /\ batch \subseteq Coroutine

Init ==
  /\ running = Nobody /\ current = Nobody
  /\ pc = [c \in Coroutine |-> "new"]
  /\ call = [c \in Coroutine |-> NoCall]
  /\ table = [c \in Coroutine |-> << >>]
  /\ opener = [f \in Fd |-> Nobody]
  /\ blocking = {} /\ raw = {}
  /\ watched = {}
  /\ cort_fd = [c \in Coroutine |-> NoFd]
  /\ request = [c \in Coroutine |-> FALSE]
  /\ timers = {} /\ deadline = {}
  /\ over = [c \in Coroutine |-> FALSE]
  /\ batch = {}

------------------------------------------------------------------------------
(* Timeouts.                                                               *)

Timeouts(c) == {t \in timers : t.of = c /\ t.what = "waiter"}
IsSetTimeout(c) == Timeouts(c) # {}
Timeout(c, n) == [of |-> c, what |-> "waiter", left |-> n]
Left(c) == (CHOOSE t \in Timeouts(c) : TRUE).left

Later(S) == {[t EXCEPT !.left = @ - 1] : t \in S}

(* The clock is read: by the loop around its poll, or by who runs.         *)
ClockMoves ==
  /\ timers # {}
  /\ \A t \in timers : t.left > -MaxLag
  /\ timers' = Later(timers)
  /\ deadline' = Later(deadline)
  /\ UNCHANGED <<fds, waiting, over, threads>>

(* A call sets its timeout n, if it has one and the coroutine has none.    *)
SetsTimeout(c, n) == n # 0 /\ ~IsSetTimeout(c)

CallTimeout(c, n) ==
  /\ timers' = IF SetsTimeout(c, n) THEN timers \union {Timeout(c, n)} ELSE timers
  /\ over' = IF SetsTimeout(c, n) THEN [over EXCEPT ![c] = FALSE] ELSE over
  /\ UNCHANGED deadline

------------------------------------------------------------------------------
(* The table of fds.                                                       *)

IsHooked(c, f) == \E i \in DOMAIN table[c] : table[c][i].fd = f

(* find_fd_waiter(): the first entry of an fd.                             *)
FindFd(c, f) ==
  CHOOSE i \in DOMAIN table[c] :
    /\ table[c][i].fd = f
    /\ \A j \in 1 .. i - 1 : table[c][j].fd # f

(* recv_timeout() and send_timeout() of a hooked fd.                       *)
Limit(c, f) == table[c][FindFd(c, f)].limit

(* wait_fd()                                                               *)
WaitFd(c, entry) ==
  /\ Entries < MaxTable
  /\ table' = [table EXCEPT ![c] = Append(@, entry)]

(* remove_fd(): the last entry takes the place of the removed one.         *)
WithoutFd(c, f) ==
  IF IsHooked(c, f)
    THEN Front([table[c] EXCEPT ![FindFd(c, f)] = Last(table[c])])
    ELSE table[c]

NewEntry(f) == [fd |-> f, limit |-> 0]

(* A hooked call: whoever runs, the call is taken to be of current.        *)
Calls(c) == running # Nobody /\ current = c /\ pc[c] = "body"

Mine(c, f) == opener[f] = c
Closed(f) == opener[f] = Nobody

Opens(c, f) == opener' = [opener EXCEPT ![f] = c]

Socket(c, f) ==
  /\ Calls(c) /\ Closed(f)
  /\ Opens(c, f)
  /\ WaitFd(c, NewEntry(f))
  /\ raw' = raw \ {f}
  /\ blocking' = blocking \ {f}
  /\ UNCHANGED <<waiting, times, threads>>

Same(f, g, S) == IF f \in S THEN S \union {g} ELSE S \ {g}

(* The new fd g is what f is, with the same flags ...                      *)
SameFile(f, g) == blocking' = Same(f, g, blocking) /\ raw' = Same(f, g, raw)

(* ... and, when f is hooked, its timeouts.                                *)
CopyOf(c, f, g) == [fd |-> g, limit |-> Limit(c, f)]

(* dup() and fcntl(F_DUPFD)                                                *)
Dup(c, f, g) ==
  /\ Calls(c) /\ Mine(c, f) /\ Closed(g)
  /\ Opens(c, g) /\ SameFile(f, g)
  /\ IF IsHooked(c, f) THEN WaitFd(c, CopyOf(c, f, g)) ELSE UNCHANGED table
  /\ UNCHANGED <<waiting, times, threads>>

(* dup2() and dup3() may replace an fd that is open, and leave an entry it *)
(* has as it is.                                                           *)
Dup2(c, f, g) ==
  /\ Calls(c) /\ Mine(c, f) /\ g # f
  /\ Closed(g) \/ Mine(c, g)
  /\ Opens(c, g) /\ SameFile(f, g)
  /\ IF IsHooked(c, f) /\ ~IsHooked(c, g)
       THEN WaitFd(c, CopyOf(c, f, g)) ELSE UNCHANGED table
  /\ UNCHANGED <<waiting, times, threads>>

MObeys(c, f, block) == block
(* ioctl(FIONBIO) and fcntl(F_SETFL) leave a hooked fd non-blocking,       *)
(* whatever the program asks for.                                          *)
BlockingAfter(c, f, block) == block /\ ~IsHooked(c, f)

SetBlocking(c, f, block) ==
  /\ Calls(c) /\ Mine(c, f)
  /\ blocking' = IF BlockingAfter(c, f, block)
                   THEN blocking \union {f} ELSE blocking \ {f}
  /\ UNCHANGED <<table, opener, raw, waiting, times, threads>>

Close(c, f) ==
  /\ Calls(c) /\ Mine(c, f)
  /\ table' = [table EXCEPT ![c] = WithoutFd(c, f)]
  /\ opener' = [opener EXCEPT ![f] = Nobody]
  /\ blocking' = blocking \ {f} /\ raw' = raw \ {f}
  /\ watched' = {w \in watched : w[1] # f}
  /\ UNCHANGED <<cort_fd, request, times, threads>>

(* setsockopt(SO_RCVTIMEO or SO_SNDTIMEO); an entry stands for one of its  *)
(* two timeouts.                                                           *)
SetSockOpt(c, f, n) ==
  /\ Calls(c) /\ Mine(c, f) /\ IsHooked(c, f)
  /\ table' = [table EXCEPT ![c] =
                  [@ EXCEPT ![FindFd(c, f)] = [fd |-> f, limit |-> n]]]
  /\ UNCHANGED <<opener, blocking, raw, waiting, times, threads>>

------------------------------------------------------------------------------
(* Switching stacks.                                                       *)

(* before_stackless_resume() of cort_stackful_yield()                      *)
CurrentAfterYield(c) == Nobody

MCurrentKept(c) == current
(* after_stackful_resume()                                                 *)
CurrentAfterResume(c) == c

(* current yields to the stack of the loop.                                *)
Yields(c, op, f, own) ==
  /\ pc' = [pc EXCEPT ![c] = "yielded"]
  /\ call' = [call EXCEPT ![c] = [op |-> op, fd |-> f, own |-> own]]
  /\ running' = Nobody
  /\ UNCHANGED batch

(* set_cort_fd() and set_poll_request(), which asks nothing of the kernel  *)
(* when the same request is recorded already.                              *)
WatchFd(c, f) ==
  /\ cort_fd' = [cort_fd EXCEPT ![c] = f]
  /\ request' = [request EXCEPT ![c] = TRUE]
  /\ watched' = IF request[c] THEN watched ELSE watched \union {<<f, c>>}

(* The tail that every call on an fd has in common: a timeout n unless one *)
(* is set, the fd, the request, the yield.                                 *)
WaitsFor(c, op, f, n) ==
  /\ CallTimeout(c, n)
  /\ WatchFd(c, f)
  /\ Yields(c, op, f, SetsTimeout(c, n))
  /\ current' = CurrentAfterYield(c)

(* The call is about to begin, or was resumed and tries again.             *)
Begins(c, op, f) ==
  \/ Calls(c)
  \/ /\ running # Nobody /\ current = c /\ pc[c] = "try"
     /\ call[c].op = op /\ call[c].fd = f

(* No call waits any more after a timeout, until another timeout is set.   *)
MayWait(c) == ~over[c]

(* read(), readv(), recv(), recvfrom(), recvmsg() and write(), writev(),   *)
(* send(), sendto(), sendmsg() on a hooked fd that is not ready.           *)
Io(c, f) ==
  /\ Begins(c, "io", f) /\ Mine(c, f) /\ IsHooked(c, f) /\ MayWait(c)
  /\ WaitsFor(c, "io", f, Limit(c, f))
  /\ UNCHANGED fds

(* connect() in progress; it does not try again when it is resumed.        *)
Connect(c, f) ==
  /\ Calls(c) /\ Mine(c, f) /\ IsHooked(c, f) /\ MayWait(c)
  /\ WaitsFor(c, "connect", f, Limit(c, f))
  /\ UNCHANGED fds

Accept(c, f) ==
  /\ Begins(c, "accept", f) /\ Mine(c, f) /\ IsHooked(c, f) /\ MayWait(c)
  /\ WaitsFor(c, "accept", f, Limit(c, f))
  /\ UNCHANGED fds

(* accept4() returned the fd g: what enters the table, again, is the fd    *)
(* that listens.                                                           *)
Accepts(c, f, g) ==
  /\ Begins(c, "accept", f) /\ Mine(c, f) /\ IsHooked(c, f) /\ Closed(g)
  /\ Opens(c, g) /\ raw' = raw \union {g} /\ blocking' = blocking \ {g}
  /\ WaitFd(c, NewEntry(f))
  /\ pc' = [pc EXCEPT ![c] = "body"]
  /\ call' = [call EXCEPT ![c] = NoCall]
  /\ UNCHANGED <<waiting, times, running, current, batch>>

(* A call that is tried again returns, with what it read or with an error. *)
Returns(c) ==
  /\ running # Nobody /\ current = c /\ pc[c] = "try"
  /\ pc' = [pc EXCEPT ![c] = "body"]
  /\ call' = [call EXCEPT ![c] = NoCall]
  /\ UNCHANGED <<fds, waiting, times, running, current, batch>>

(* epoll_wait() on an fd of epoll_create(), and poll() of a single fd.  A  *)
(* timeout that is set already bounds the wait; without one n does.        *)
EpollWait(c, f, n) ==
  /\ Calls(c) /\ Mine(c, f) /\ MayWait(c)
  /\ IsSetTimeout(c) => Left(c) > 0
  /\ WaitsFor(c, "events", f, n)
  /\ UNCHANGED fds

(* poll() of several fds and select(), which wait for an epoll fd of their *)
(* own.                                                                    *)
PollMany(c, e, n) ==
  /\ Calls(c) /\ Closed(e) /\ MayWait(c)
  /\ Opens(c, e) /\ raw' = raw \union {e}
  /\ WaitsFor(c, "set", e, n)
  /\ UNCHANGED <<table, blocking>>

(* usleep(), and poll() and epoll_wait() of nothing: with a deadline that  *)
(* comes first, the coroutine just switches stacks until then ...          *)
Nap(c, n) ==
  /\ Calls(c) /\ IsSetTimeout(c) /\ Left(c) > 0 /\ Left(c) < n
  /\ Yields(c, "nap", NoFd, FALSE)
  /\ UNCHANGED <<fds, waiting, times, current>>

(* (the deadline and the sleeper are over at the same time: which one is   *)
(* served first depends on the heap)                                       *)
SleepsFirst(c, n) == Left(c) > n \/ (Ties /\ Left(c) = n)

(* ... with a later one it awaits a cort_sleeper ...                       *)
Sleep(c, n) ==
  /\ Calls(c) /\ IsSetTimeout(c) /\ Left(c) > 0 /\ SleepsFirst(c, n)
  /\ timers' = timers \union {[of |-> c, what |-> "sleeper", left |-> n]}
  /\ Yields(c, "sleep", NoFd, FALSE)
  /\ current' = CurrentAfterYield(c)
  /\ UNCHANGED <<fds, waiting, over, deadline>>

(* ... and without one it sets a timeout, 0 when n is below a millisecond. *)
Rest(c, n) ==
  /\ Calls(c) /\ ~IsSetTimeout(c)
  /\ timers' = timers \union {Timeout(c, n)}
  /\ over' = [over EXCEPT ![c] = FALSE]
  /\ Yields(c, "rest", NoFd, TRUE)
  /\ current' = CurrentAfterYield(c)
  /\ UNCHANGED <<fds, waiting, deadline>>

------------------------------------------------------------------------------
(* Resuming, by the loop of the thread.                                    *)

MWatchedStill(c) == watched
(* What the kernel watches after remove_cort_fd().                         *)
WatchedWithout(c) == {w \in watched : w[2] # c}

MForgetsTimeout(c, T) == T
(* clear_timeout() of a call that set a timeout itself.                    *)
TimersAfterCall(c, T) == IF call[c].own THEN T \ Timeouts(c) ELSE T

(* The switch to the stack of c, after_stackful_resume(), and the code     *)
(* after the yield: the fd is let go, the epoll fd of poll() is closed.    *)
(* With T set and the flag of c as in O, the call returns or tries again.  *)
Resumes(c, T, O) ==
  /\ running' = c /\ current' = CurrentAfterResume(c)
  /\ watched' = WatchedWithout(c)
  /\ cort_fd' = [cort_fd EXCEPT ![c] = NoFd]
  /\ request' = [request EXCEPT ![c] = FALSE]
  /\ timers' = IF O[c] \/ call[c].fd = NoFd THEN T ELSE TimersAfterCall(c, T)
  /\ over' = O
  /\ IF call[c].op \in {"io", "accept"} /\ ~O[c]
       THEN /\ pc' = [pc EXCEPT ![c] = "try"]
            /\ call' = [call EXCEPT ![c] = [op |-> @.op, fd |-> @.fd, own |-> FALSE]]
       ELSE /\ pc' = [pc EXCEPT ![c] = "body"]
            /\ call' = [call EXCEPT ![c] = NoCall]
  /\ IF call[c].op = "set"
       THEN LET e == call[c].fd IN
            opener' = [opener EXCEPT ![e] = Nobody]
            /\ raw' = raw \ {e}
       ELSE UNCHANGED <<opener, raw>>
  /\ UNCHANGED <<table, blocking>>

Looping == running = Nobody /\ batch = {}

(* epoll_wait() of the loop, which no timeout that is over lets it reach.  *)
Poll ==
  /\ Looping /\ \A t \in timers : t.left > 0
  /\ \E S \in SUBSET {w[2] : w \in watched} \ {{}} : batch' = S
  /\ UNCHANGED <<fds, waiting, times, running, current, pc, call>>

ResumeOnPoll(c) ==
  /\ running = Nobody /\ c \in batch /\ pc[c] = "yielded"
  /\ batch' = batch \ {c}
  /\ Resumes(c, timers, over)
  /\ UNCHANGED deadline

MLastFirst(t) == t \in timers /\ t.left <= 0 /\ \A u \in timers : u.left <= t.left
(* The timeout that cort_timer_loop serves.                                *)
IsNext(t) == t \in timers /\ t.left <= 0 /\ \A u \in timers : t.left <= u.left

(* resume_on_timeout() of a coroutine                                      *)
ResumeOnTimeout(c) ==
  /\ Looping /\ pc[c] = "yielded"
  /\ \E t \in Timeouts(c) :
       /\ IsNext(t)
       /\ Resumes(c, timers \ {t}, [over EXCEPT ![c] = TRUE])
  /\ deadline' = {d \in deadline : d.of # c}
  /\ UNCHANGED batch

(* A cort_sleeper is over, and resumes the coroutine that awaited it.      *)
SleeperEnds(c) ==
  /\ Looping /\ pc[c] = "yielded"
  /\ \E t \in timers \ Timeouts(c) :
       t.of = c /\ IsNext(t) /\ Resumes(c, timers \ {t}, over)
  /\ UNCHANGED <<deadline, batch>>

(* The program starts a coroutine from the usual stack, with a deadline.   *)
Start(c, n) ==
  /\ running = Nobody /\ pc[c] = "new"
  /\ pc' = [pc EXCEPT ![c] = "body"]
  /\ running' = c /\ current' = c
  /\ timers' = IF n = 0 THEN timers ELSE timers \union {Timeout(c, n)}
  /\ deadline' = IF n = 0 THEN deadline
                 ELSE deadline \union {[of |-> c, left |-> n]}
  /\ UNCHANGED <<fds, waiting, over, call, batch>>

(* Its function closes what it opened and returns; on_finish() clears the  *)
(* timeout, and the destructor frees the table.                            *)
Finish(c) ==
  /\ Calls(c)
  /\ pc' = [pc EXCEPT ![c] = "done"]
  /\ running' = Nobody
  /\ timers' = timers \ Timeouts(c)
  /\ deadline' = {d \in deadline : d.of # c}
  /\ over' = [over EXCEPT ![c] = FALSE]
  /\ table' = [table EXCEPT ![c] = << >>]
  /\ opener' = [f \in Fd |-> IF Mine(c, f) THEN Nobody ELSE opener[f]]
  /\ blocking' = {f \in blocking : ~Mine(c, f)}
  /\ raw' = {f \in raw : ~Mine(c, f)}
  /\ UNCHANGED <<waiting, current, call, batch>>

------------------------------------------------------------------------------

Waits(c) ==
  \/ \E f \in Fd : Io(c, f) \/ Connect(c, f) \/ Accept(c, f)
  \/ \E f \in Fd, n \in Limits \union {0} : EpollWait(c, f, n) \/ PollMany(c, f, n)
  \/ \E n \in Sleeps : Nap(c, n) \/ Sleep(c, n)
  \/ \E n \in Sleeps \union {0} : Rest(c, n)

Descriptors(c) ==
  \/ \E f \in Fd :
       \/ Socket(c, f) \/ Close(c, f)
       \/ \E b \in BOOLEAN : SetBlocking(c, f, b)
       \/ \E n \in Limits \union {0} : SetSockOpt(c, f, n)
  \/ \E f, g \in Fd : Dup(c, f, g) \/ Dup2(c, f, g) \/ Accepts(c, f, g)

Next ==
  \/ ClockMoves \/ Poll
  \/ \E c \in Coroutine :
       \/ \E n \in Deadlines \union {0} : Start(c, n)
       \/ Descriptors(c) \/ Waits(c) \/ Returns(c) \/ Finish(c)
       \/ ResumeOnPoll(c) \/ ResumeOnTimeout(c) \/ SleeperEnds(c)

Spec == Init /\ [][Next]_vars

(* A coroutine does not keep the thread for ever, the loop goes on, and    *)
(* time passes.                                                            *)
Fairness ==
  /\ WF_vars(\E c \in Coroutine : Returns(c) \/ Finish(c))
  /\ WF_vars(\E c \in Coroutine :
               ResumeOnPoll(c) \/ ResumeOnTimeout(c) \/ SleeperEnds(c))
  /\ SF_vars(ClockMoves)

FairSpec == Spec /\ Fairness

------------------------------------------------------------------------------
(* Properties.                                                             *)

(* When a coroutine runs, current_thread_coroutine is itself: every hooked *)
(* call finds its own waiter there, however the coroutines of the thread   *)
(* were interleaved.                                                       *)
CurrentIsSelf == running # Nobody => current = running

(* The kernel watches exactly one fd for each coroutine that is suspended  *)
(* in a call on an fd, that fd, and nothing for any other: no event is     *)
(* lost, and none resumes a coroutine that waits for something else.       *)
WatchedExact ==
  watched = {w \in Fd \X Coroutine :
               pc[w[2]] = "yielded" /\ call[w[2]].fd = w[1]}

(* The timeout of a coroutine is the deadline that the program has set, to *)
(* the millisecond, or else one of the call that it is suspended in: no    *)
(* call postpones or drops the deadline, and no timeout of a call survives *)
(* it (new_timeout in every hook).                                         *)
DeadlineKept ==
  \A c \in Coroutine : LET D == {d \in deadline : d.of = c} IN
    IF D # {} THEN Timeouts(c) = {Timeout(c, d.left) : d \in D}
    ELSE IsSetTimeout(c) => pc[c] = "yielded" /\ call[c].own

(* An open fd of socket(), or copied from one, is in the table of the      *)
(* coroutine that opened it and non-blocking, whatever was duplicated,     *)
(* closed and opened again, and whatever flags the program asked for: no   *)
(* call on it blocks the thread.                                           *)
NothingBlocks ==
  \A f \in Fd \ raw : ~Closed(f) => IsHooked(opener[f], f) /\ f \notin blocking

(* A coroutine that waits with a timeout is resumed, whatever the other    *)
(* coroutines and fds do.                                                  *)
TimedCallsReturn ==
  \A c \in Coroutine : pc[c] = "yielded" /\ IsSetTimeout(c) ~> pc[c] # "yielded"

------------------------------------------------------------------------------
(* What the proofs of CurrentIsSelf, WatchedExact and NothingBlocks need   *)
(* besides them.                                                           *)

ThreadsOK ==
  /\ running \in Coroutine \union {Nobody}
  /\ pc \in [Coroutine -> {"new", "body", "try", "yielded", "done"}]
  /\ call \in [Coroutine -> Call]
  /\ opener \in [Fd -> Coroutine \union {Nobody}]
  /\ request \in [Coroutine -> BOOLEAN]

(* Only a suspended coroutine has a poll request ...                       *)
RequestsExact ==
  \A c \in Coroutine : request[c] => pc[c] = "yielded"

(* ... and what it waits for is an fd that it has opened itself, so nobody *)
(* else closes it.                                                         *)
WaitsForOwn ==
  \A c \in Coroutine :
    pc[c] = "yielded" /\ call[c].fd \in Fd => opener[call[c].fd] = c

WaitInv ==
  /\ ThreadsOK
  /\ CurrentIsSelf
  /\ WatchedExact
  /\ RequestsExact
  /\ WaitsForOwn

TablesOK ==
  /\ table \in [Coroutine -> Seq(Entry)]
  /\ opener \in [Fd -> Coroutine \union {Nobody}]

TableInv ==
  /\ TablesOK
  /\ NothingBlocks

(* The times of c in the timeouts T and deadlines D, in the state x of the *)
(* call y: a timeout is the program's or that of the call, and only a      *)
(* deadline that comes later lets c sleep; o is its flag.                  *)
TimesOf(c, T, D, x, y, o) ==
  /\ \A t, u \in T : t.of = c /\ u.of = c /\ t.what = u.what => t = u
  /\ \A d, e \in D : d.of = c /\ e.of = c => d = e
  /\ \A d \in D : d.of = c =>
       Timeout(c, d.left) \in T /\ x \notin {"new", "done"} /\ ~y.own
  /\ \A t \in T : t.of = c =>
       IF t.what = "waiter" THEN y.own \/ \E d \in D : d.of = c
       ELSE /\ x = "yielded" /\ y.op = "sleep"
            /\ \E d \in D : d.of = c /\ t.left < d.left
  /\ y.own => x = "yielded"
  /\ y.op = "sleep" => y.fd = NoFd
  /\ x = "yielded" /\ y.fd \in Fd => ~o

TimesOK ==
  /\ timers \subseteq [of : Coroutine, what : {"waiter", "sleeper"}, left : Int]
  /\ deadline \subseteq [of : Coroutine, left : Int]
  /\ over \in [Coroutine -> BOOLEAN]

TimeInv ==
  /\ TimesOK
  /\ \A c \in Coroutine : TimesOf(c, timers, deadline, pc[c], call[c], over[c])
  /\ \A c \in batch : c \in Coroutine /\ pc[c] = "yielded" /\ call[c].fd \in Fd
=============================================================================
