-------------------------- MODULE StackfulFdsProofs --------------------------
(***************************************************************************)
(* For any number of coroutines, fds and timeouts: a hooked call acts for  *)
(* the coroutine that runs, epoll watches exactly what the suspended       *)
(* coroutines wait for, no hooked fd can block the thread, and the         *)
(* deadlines that the program sets are kept.                               *)
(***************************************************************************)
EXTENDS StackfulFds, SequenceTheorems, WellFoundedInduction, TLAPS

------------------------------------------------------------------------------
(* Who runs, and who waits for what.                                       *)

States == {"new", "body", "try", "yielded", "done"}

(* What c does with its fds leaves those of the others alone.              *)
OthersKept(c) ==
  /\ opener' \in [Fd -> Coroutine \union {Nobody}]
  /\ \A f \in Fd : opener[f] \in Coroutine \ {c} => opener'[f] = opener[f]

(* c goes to the state x of a call y, without an fd to wait for.           *)
LEMMA Leaves ==
  ASSUME WaitInv, NEW c \in Coroutine,
         NEW x \in States, NEW y \in Call,
         x = "yielded" => y.fd = NoFd,
         pc' = [pc EXCEPT ![c] = x],
         call' = [call EXCEPT ![c] = y],
         watched' = {w \in watched : w[2] # c},
         request' = [request EXCEPT ![c] = FALSE],
         OthersKept(c),
         running' \in {c, Nobody}, running' = c => current' = c
  PROVE  WaitInv'
<1>1. /\ pc' \in [Coroutine -> States] /\ call' \in [Coroutine -> Call]
      /\ request' \in [Coroutine -> BOOLEAN]
      /\ pc'[c] = x /\ call'[c] = y /\ request'[c] = FALSE
      /\ \A d \in Coroutine \ {c} :
           pc'[d] = pc[d] /\ call'[d] = call[d] /\ request'[d] = request[d]
  BY DEF WaitInv, ThreadsOK, States
<1>2. ThreadsOK'
  BY <1>1 DEF ThreadsOK, OthersKept, States
<1>3. CurrentIsSelf'
  BY DEF CurrentIsSelf
<1>4. WatchedExact'
  BY <1>1, StackfulAssumption DEF WaitInv, WatchedExact, StackfulAssumption
<1>5. RequestsExact'
  BY <1>1 DEF WaitInv, RequestsExact
<1>6. WaitsForOwn'
  BY <1>1, StackfulAssumption DEF WaitInv, WaitsForOwn, OthersKept, StackfulAssumption
<1> QED
  BY <1>2, <1>3, <1>4, <1>5, <1>6 DEF WaitInv

(* c suspends itself in a call y on the fd f.                              *)
LEMMA Suspends ==
  ASSUME WaitInv, NEW c \in Coroutine, NEW f \in Fd, NEW y \in Call,
         y.fd = f,
         pc[c] # "yielded",
         pc' = [pc EXCEPT ![c] = "yielded"],
         call' = [call EXCEPT ![c] = y],
         watched' = watched \union {<<f, c>>},
         request' = [request EXCEPT ![c] = TRUE],
         OthersKept(c), opener'[f] = c,
         running' = Nobody
  PROVE  WaitInv'
<1>1. /\ pc' \in [Coroutine -> States] /\ call' \in [Coroutine -> Call]
      /\ request' \in [Coroutine -> BOOLEAN]
      /\ pc'[c] = "yielded" /\ call'[c] = y
      /\ \A d \in Coroutine \ {c} :
           pc'[d] = pc[d] /\ call'[d] = call[d] /\ request'[d] = request[d]
  BY DEF WaitInv, ThreadsOK, States
<1>2. ThreadsOK'
  BY <1>1 DEF ThreadsOK, OthersKept, States
<1>3. CurrentIsSelf'
  BY DEF CurrentIsSelf
<1>4. WatchedExact'
  BY <1>1 DEF WaitInv, WatchedExact
<1>5. RequestsExact'
  BY <1>1 DEF WaitInv, RequestsExact
<1>6. WaitsForOwn'
  BY <1>1, StackfulAssumption DEF WaitInv, WaitsForOwn, OthersKept, StackfulAssumption
<1> QED
  BY <1>2, <1>3, <1>4, <1>5, <1>6 DEF WaitInv

(* c goes on, with its fds changed.                                        *)
LEMMA GoesOn ==
  ASSUME WaitInv, NEW c \in Coroutine, OthersKept(c),
         pc[c] # "yielded",
         UNCHANGED <<running, current, pc, call, watched, request>>
  PROVE  WaitInv'
<1>1. ThreadsOK'
  BY DEF WaitInv, ThreadsOK, OthersKept
<1>2. CurrentIsSelf' /\ WatchedExact' /\ RequestsExact'
  BY DEF WaitInv, CurrentIsSelf, WatchedExact, RequestsExact
<1>3. WaitsForOwn'
  BY StackfulAssumption DEF WaitInv, WaitsForOwn, OthersKept, StackfulAssumption
<1> QED
  BY <1>1, <1>2, <1>3 DEF WaitInv

LEMMA NothingChanges ==
  ASSUME WaitInv, UNCHANGED <<running, current, pc, call, watched, request, opener>>
  PROVE  WaitInv'
BY DEF WaitInv, ThreadsOK, CurrentIsSelf, WatchedExact, RequestsExact, WaitsForOwn

(* Ways to change who has opened what.                                     *)
LEMMA OpenersKept ==
  ASSUME WaitInv, NEW c \in Coroutine
  PROVE  /\ UNCHANGED opener => OthersKept(c)
         /\ \A f \in Fd : (opener[f] = Nobody \/ opener[f] = c) =>
              \A d \in {c, Nobody} : opener' = [opener EXCEPT ![f] = d] => OthersKept(c)
         /\ \A f \in Fd : opener' = [opener EXCEPT ![f] = c] => opener'[f] = c
BY StackfulAssumption DEF WaitInv, ThreadsOK, OthersKept, StackfulAssumption

(* A coroutine that is not suspended is not in the epoll set and has no    *)
(* request.                                                                *)
LEMMA NotWatched ==
  ASSUME WaitInv, NEW c \in Coroutine, pc[c] # "yielded"
  PROVE  /\ watched = {w \in watched : w[2] # c}
         /\ request = [request EXCEPT ![c] = FALSE]
<1>1. watched = {w \in watched : w[2] # c}
  BY DEF WaitInv, WatchedExact
<1>2. request[c] = FALSE /\ request \in [Coroutine -> BOOLEAN]
  BY DEF WaitInv, RequestsExact, ThreadsOK
<1> QED
  BY <1>1, <1>2

(* Whoever makes a hooked call runs, and is not suspended.                 *)
LEMMA Caller ==
  ASSUME WaitInv, NEW c \in Coroutine, running # Nobody, current = c
  PROVE  running = c
BY DEF WaitInv, CurrentIsSelf

LEMMA DescriptorsKeepWaits ==
  ASSUME WaitInv, NEW c \in Coroutine, Descriptors(c)
  PROVE  WaitInv'
<1>1. CASE \E f \in Fd : Socket(c, f)
  <2> PICK f \in Fd : Socket(c, f)
    BY <1>1
  <2>1. /\ pc[c] = "body" /\ opener[f] = Nobody /\ opener' = [opener EXCEPT ![f] = c]
        /\ UNCHANGED <<running, current, pc, call, watched, request>>
    BY DEF Socket, Calls, Closed, Opens, threads, waiting
  <2> QED
    BY <2>1, OpenersKept, GoesOn
<1>2. CASE \E f, g \in Fd : Dup(c, f, g) \/ Dup2(c, f, g)
  <2> PICK f \in Fd, g \in Fd : Dup(c, f, g) \/ Dup2(c, f, g)
    BY <1>2
  <2>1. /\ pc[c] = "body" /\ (opener[g] = Nobody \/ opener[g] = c)
        /\ opener' = [opener EXCEPT ![g] = c]
        /\ UNCHANGED <<running, current, pc, call, watched, request>>
    BY DEF Dup, Dup2, Calls, Closed, Mine, Opens, threads, waiting
  <2> QED
    BY <2>1, OpenersKept, GoesOn
<1>3. CASE \E f \in Fd : \/ \E b \in BOOLEAN : SetBlocking(c, f, b)
                         \/ \E n \in Limits \union {0} : SetSockOpt(c, f, n)
  <2>1. UNCHANGED <<running, current, pc, call, watched, request, opener>>
    BY <1>3 DEF SetBlocking, SetSockOpt, threads, waiting
  <2> QED
    BY <2>1, NothingChanges
<1>4. CASE \E f \in Fd : Close(c, f)
  <2> PICK f \in Fd : Close(c, f)
    BY <1>4
  <2>1. /\ pc[c] = "body" /\ opener[f] = c /\ opener' = [opener EXCEPT ![f] = Nobody]
        /\ watched' = {w \in watched : w[1] # f}
        /\ UNCHANGED <<running, current, pc, call, request>>
    BY DEF Close, Calls, Mine, threads
  <2>2. \A w \in watched : w[1] # f
    BY <2>1 DEF WaitInv, WatchedExact, WaitsForOwn
  <2>3. watched' = watched
    BY <2>1, <2>2
  <2> QED
    BY <2>1, <2>3, OpenersKept, GoesOn
<1>5. CASE \E f, g \in Fd : Accepts(c, f, g)
  <2> PICK f \in Fd, g \in Fd : Accepts(c, f, g)
    BY <1>5
  <2>1. /\ running # Nobody /\ current = c /\ pc[c] \in {"body", "try"}
        /\ opener[g] = Nobody /\ opener' = [opener EXCEPT ![g] = c]
        /\ pc' = [pc EXCEPT ![c] = "body"] /\ call' = [call EXCEPT ![c] = NoCall]
        /\ UNCHANGED <<running, current, watched, request>>
    BY DEF Accepts, Begins, Calls, Closed, Opens, waiting
  <2>2. OthersKept(c)
    BY <2>1, OpenersKept
  <2>3. watched' = {w \in watched : w[2] # c} /\ request' = [request EXCEPT ![c] = FALSE]
    BY <2>1, NotWatched
  <2>4. "body" \in States /\ NoCall \in Call
    BY DEF States, NoCall, Call, Ops
  <2> QED
    BY <2>1, <2>2, <2>3, <2>4, Caller, Leaves
<1> QED
  BY <1>1, <1>2, <1>3, <1>4, <1>5 DEF Descriptors

(* The tail that all calls on an fd have in common.                        *)
LEMMA FdCallKeepsWaits ==
  ASSUME WaitInv, NEW c \in Coroutine, NEW f \in Fd, NEW n,
         NEW op \in Ops,
         running # Nobody, current = c, pc[c] \in {"body", "try"},
         WaitsFor(c, op, f, n),
         OthersKept(c), opener'[f] = c
  PROVE  WaitInv'
<1> DEFINE y == [op |-> op, fd |-> f, own |-> SetsTimeout(c, n)]
<1>1. /\ pc' = [pc EXCEPT ![c] = "yielded"]
      /\ call' = [call EXCEPT ![c] = y]
      /\ running' = Nobody
      /\ request' = [request EXCEPT ![c] = TRUE]
      /\ watched' = IF request[c] THEN watched ELSE watched \union {<<f, c>>}
  BY DEF WaitsFor, WatchFd, Yields
<1>2. ~request[c]
  BY DEF WaitInv, RequestsExact
<1>3. SetsTimeout(c, n) \in BOOLEAN
  BY DEF SetsTimeout
<1>4. y \in Call /\ y.fd = f
  BY <1>3 DEF Call
<1> HIDE DEF y
<1> QED
  BY <1>1, <1>2, <1>4, Suspends

LEMMA WaitsKeepWaits ==
  ASSUME WaitInv, NEW c \in Coroutine, Waits(c)
  PROVE  WaitInv'
<1>1. CASE \E f \in Fd : Io(c, f) \/ Connect(c, f) \/ Accept(c, f)
  <2> PICK f \in Fd : Io(c, f) \/ Connect(c, f) \/ Accept(c, f)
    BY <1>1
  <2>1. /\ running # Nobody /\ current = c /\ pc[c] \in {"body", "try"}
        /\ opener[f] = c /\ UNCHANGED opener
        /\ \E op \in Ops : WaitsFor(c, op, f, Limit(c, f))
    BY DEF Io, Connect, Accept, Begins, Calls, Mine, fds, Ops
  <2> QED
    BY <2>1, OpenersKept, FdCallKeepsWaits
<1>2. CASE \E f \in Fd, n \in Limits \union {0} : EpollWait(c, f, n)
  <2> PICK f \in Fd, n \in Limits \union {0} : EpollWait(c, f, n)
    BY <1>2
  <2>1. /\ running # Nobody /\ current = c /\ pc[c] = "body"
        /\ opener[f] = c /\ UNCHANGED opener
        /\ WaitsFor(c, "events", f, n) /\ "events" \in Ops
    BY DEF EpollWait, Calls, Mine, fds, Ops
  <2> QED
    BY <2>1, OpenersKept, FdCallKeepsWaits
<1>3. CASE \E f \in Fd, n \in Limits \union {0} : PollMany(c, f, n)
  <2> PICK f \in Fd, n \in Limits \union {0} : PollMany(c, f, n)
    BY <1>3
  <2>1. /\ running # Nobody /\ current = c /\ pc[c] = "body"
        /\ opener[f] = Nobody /\ opener' = [opener EXCEPT ![f] = c]
        /\ WaitsFor(c, "set", f, n) /\ "set" \in Ops
    BY DEF PollMany, Calls, Closed, Opens, Ops
  <2> QED
    BY <2>1, OpenersKept, FdCallKeepsWaits
<1>4. CASE \/ \E n \in Sleeps : Nap(c, n) \/ Sleep(c, n)
           \/ \E n \in Sleeps \union {0} : Rest(c, n)
  <2>1. /\ running # Nobody /\ current = c /\ pc[c] = "body"
        /\ UNCHANGED <<opener, watched, request>>
    BY <1>4 DEF Nap, Sleep, Rest, Calls, fds, waiting
  <2>2. \E op \in Ops, own \in BOOLEAN : Yields(c, op, NoFd, own)
    BY <1>4 DEF Nap, Sleep, Rest, Ops
  <2>3. PICK y \in Call : /\ y.fd = NoFd
                          /\ pc' = [pc EXCEPT ![c] = "yielded"]
                          /\ call' = [call EXCEPT ![c] = y]
                          /\ running' = Nobody
    BY <2>2 DEF Yields, Call
  <2>4. watched' = {w \in watched : w[2] # c} /\ request' = [request EXCEPT ![c] = FALSE]
    BY <2>1, NotWatched
  <2>5. OthersKept(c) /\ "yielded" \in States /\ c # Nobody
    BY <2>1, OpenersKept, StackfulAssumption DEF States, StackfulAssumption
  <2> QED
    BY <2>3, <2>4, <2>5, Leaves
<1> QED
  BY <1>1, <1>2, <1>3, <1>4 DEF Waits

(* The loop resumes a suspended coroutine.                                 *)
LEMMA ResumesKeepWaits ==
  ASSUME WaitInv, NEW c \in Coroutine, NEW T, NEW O, pc[c] = "yielded",
         Resumes(c, T, O)
  PROVE  WaitInv'
<1>1. /\ running' = c /\ current' = c
      /\ watched' = {w \in watched : w[2] # c}
      /\ request' = [request EXCEPT ![c] = FALSE]
  BY DEF Resumes, CurrentAfterResume, WatchedWithout
<1>2. PICK x \in {"try", "body"}, y \in Call :
        pc' = [pc EXCEPT ![c] = x] /\ call' = [call EXCEPT ![c] = y]
  <2>1. NoCall \in Call
    BY DEF NoCall, Call, Ops
  <2>2. [op |-> call[c].op, fd |-> call[c].fd, own |-> FALSE] \in Call
    BY DEF WaitInv, ThreadsOK, Call
  <2>3. CASE call[c].op \in {"io", "accept"} /\ ~O[c]
    BY <2>2, <2>3 DEF Resumes
  <2>4. CASE ~(call[c].op \in {"io", "accept"} /\ ~O[c])
    BY <2>1, <2>4 DEF Resumes
  <2> QED
    BY <2>3, <2>4
<1>3. OthersKept(c)
  <2>1. CASE call[c].op # "set"
    <3>1. UNCHANGED opener
      BY <2>1 DEF Resumes
    <3> QED
      BY <3>1, OpenersKept
  <2>2. CASE call[c].op = "set" /\ call[c].fd \in Fd
    <3>1. opener' = [opener EXCEPT ![call[c].fd] = Nobody] /\ opener[call[c].fd] = c
      BY <2>2 DEF Resumes, WaitInv, WaitsForOwn
    <3> QED
      BY <2>2, <3>1, OpenersKept
  <2>3. CASE call[c].op = "set" /\ call[c].fd \notin Fd
    <3>1. opener' = [opener EXCEPT ![call[c].fd] = Nobody] /\ call[c].fd \notin DOMAIN opener
      BY <2>3 DEF Resumes, WaitInv, ThreadsOK
    <3>2. UNCHANGED opener
      BY <3>1 DEF WaitInv, ThreadsOK
    <3> QED
      BY <3>2, OpenersKept
  <2> QED
    BY <2>1, <2>2, <2>3
<1>4. x \in States
  BY DEF States
<1> QED
  BY <1>1, <1>2, <1>3, <1>4, StackfulAssumption, Leaves DEF StackfulAssumption

LEMMA StartKeepsWaits ==
  ASSUME WaitInv, NEW c \in Coroutine, NEW n, Start(c, n)
  PROVE  WaitInv'
<1>1. /\ pc[c] = "new" /\ pc' = [pc EXCEPT ![c] = "body"]
      /\ running' = c /\ current' = c
      /\ UNCHANGED <<watched, request, call, opener>>
  BY DEF Start, waiting, fds
<1>2. watched' = {w \in watched : w[2] # c} /\ request' = [request EXCEPT ![c] = FALSE]
  BY <1>1, NotWatched
<1>3. call[c] \in Call /\ call' = [call EXCEPT ![c] = call[c]]
  BY <1>1 DEF WaitInv, ThreadsOK
<1>4. OthersKept(c) /\ "body" \in States
  BY <1>1, OpenersKept DEF States
<1> QED
  BY <1>1, <1>2, <1>3, <1>4, Leaves

LEMMA EndsKeepWaits ==
  ASSUME WaitInv, NEW c \in Coroutine, Finish(c) \/ Returns(c)
  PROVE  WaitInv'
<1>1. /\ running # Nobody /\ current = c /\ pc[c] # "yielded"
      /\ UNCHANGED <<watched, request, current>>
  BY DEF Finish, Returns, Calls, waiting
<1>2. watched' = {w \in watched : w[2] # c} /\ request' = [request EXCEPT ![c] = FALSE]
  BY <1>1, NotWatched
<1>3. PICK x \in {"body", "done"}, y \in Call :
        /\ pc' = [pc EXCEPT ![c] = x] /\ call' = [call EXCEPT ![c] = y]
        /\ running' \in {c, Nobody}
  <2>1. NoCall \in Call
    BY DEF NoCall, Call, Ops
  <2>2. call[c] \in Call /\ call = [call EXCEPT ![c] = call[c]]
    BY DEF WaitInv, ThreadsOK
  <2>3. CASE Finish(c)
    BY <2>2, <2>3 DEF Finish
  <2>4. CASE Returns(c)
    BY <1>1, <2>1, <2>4, Caller DEF Returns
  <2> QED
    BY <2>3, <2>4
<1>4. OthersKept(c)
  <2>1. CASE Finish(c)
    <3>1. opener' = [f \in Fd |-> IF opener[f] = c THEN Nobody ELSE opener[f]]
      BY <2>1 DEF Finish, Mine
    <3> QED
      BY <3>1 DEF OthersKept, WaitInv, ThreadsOK
  <2>2. CASE Returns(c)
    BY <2>2, OpenersKept DEF Returns, fds
  <2> QED
    BY <2>1, <2>2
<1>5. x \in States
  BY DEF States
<1> QED
  BY <1>1, <1>2, <1>3, <1>4, <1>5, Leaves

LEMMA InitWaits == Init => WaitInv
BY StackfulAssumption
DEF Init, WaitInv, ThreadsOK, CurrentIsSelf, WatchedExact, RequestsExact,
    WaitsForOwn, NoCall, Call, Ops, StackfulAssumption

LEMMA NextKeepsWaits == WaitInv /\ [Next]_vars => WaitInv'
<1> SUFFICES ASSUME WaitInv, [Next]_vars PROVE WaitInv'
  OBVIOUS
<1>1. CASE UNCHANGED vars
  BY <1>1, NothingChanges DEF vars
<1>2. CASE ClockMoves \/ Poll
  <2>1. UNCHANGED <<running, current, pc, call, watched, request, opener>>
    BY <1>2 DEF ClockMoves, Poll, threads, waiting, fds
  <2> QED
    BY <2>1, NothingChanges
<1>3. ASSUME NEW c \in Coroutine, NEW n, Start(c, n) PROVE WaitInv'
  BY <1>3, StartKeepsWaits
<1>4. ASSUME NEW c \in Coroutine, Descriptors(c) \/ Waits(c) PROVE WaitInv'
  BY <1>4, DescriptorsKeepWaits, WaitsKeepWaits
<1>5. ASSUME NEW c \in Coroutine, Returns(c) \/ Finish(c) PROVE WaitInv'
  BY <1>5, EndsKeepWaits
<1>6. ASSUME NEW c \in Coroutine,
             ResumeOnPoll(c) \/ ResumeOnTimeout(c) \/ SleeperEnds(c)
      PROVE  WaitInv'
  <2>1. pc[c] = "yielded" /\ \E T, O : Resumes(c, T, O)
    BY <1>6 DEF ResumeOnPoll, ResumeOnTimeout, SleeperEnds
  <2> QED
    BY <2>1, ResumesKeepWaits
<1> QED
  BY <1>1, <1>2, <1>3, <1>4, <1>5, <1>6 DEF Next

THEOREM WaitsHold == Spec => []WaitInv
BY InitWaits, NextKeepsWaits, PTL DEF Spec

(* A hooked call is always made by the coroutine that current_thread_      *)
(* coroutine names (before_stackless_resume, after_stackful_resume).       *)
THEOREM CallsOfSelf == Spec => []CurrentIsSelf
<1>1. WaitInv => CurrentIsSelf
  BY DEF WaitInv
<1> QED
  BY <1>1, WaitsHold, PTL

(* The kernel watches what the suspended coroutines wait for and nothing   *)
(* else (set_poll_request, remove_cort_fd around every yield).             *)
THEOREM WatchedIsExact == Spec => []WatchedExact
<1>1. WaitInv => WatchedExact
  BY DEF WaitInv
<1> QED
  BY <1>1, WaitsHold, PTL

------------------------------------------------------------------------------
(* The table of fds.                                                       *)

(* A set of indices has a least one.                                       *)
LEMMA LeastIndex ==
  ASSUME NEW I \in SUBSET Nat, I # {}
  PROVE  \E i \in I : \A j \in I : i <= j
<1> DEFINE R == OpToRel(<, Nat)
<1>1. PICK i \in I : \A j \in I : ~ (<<j, i>> \in R)
  BY NatLessThanWellFounded, WFMin
<1>2. R = {ss \in Nat \X Nat : ss[1] < ss[2]}
  BY DEF OpToRel
<1>3. \A j \in I : ~ (j < i)
  BY <1>1, <1>2
<1> QED
  BY <1>3

Has(s, f) == \E i \in DOMAIN s : s[i].fd = f

LEMMA HasIsHooked == \A c, f : IsHooked(c, f) <=> Has(table[c], f)
  BY DEF IsHooked, Has

(* find_fd_waiter() finds an entry of the fd.                              *)
LEMMA FindFdFinds ==
  ASSUME TablesOK, NEW c \in Coroutine, NEW f, IsHooked(c, f)
  PROVE  FindFd(c, f) \in DOMAIN table[c] /\ table[c][FindFd(c, f)].fd = f
<1> DEFINE I == {i \in DOMAIN table[c] : table[c][i].fd = f}
<1>1. table[c] \in Seq(Entry) /\ DOMAIN table[c] = 1 .. Len(table[c])
      /\ Len(table[c]) \in Nat
  BY DEF TablesOK
<1>2. I \in SUBSET Nat /\ I # {}
  BY <1>1 DEF IsHooked
<1>3. PICK i \in I : \A j \in I : i <= j
  BY <1>2, LeastIndex
<1>4. \A j \in 1 .. i - 1 : table[c][j].fd # f
  BY <1>1, <1>3
<1> QED
  BY <1>3, <1>4 DEF FindFd

LEMMA AppendHas ==
  ASSUME NEW s \in Seq(Entry), NEW e \in Entry
  PROVE  /\ Append(s, e) \in Seq(Entry)
         /\ Has(Append(s, e), e.fd)
         /\ \A f : Has(s, f) => Has(Append(s, e), f)
<1>1. /\ Append(s, e) \in Seq(Entry)
      /\ DOMAIN s = 1 .. Len(s) /\ Len(s) \in Nat
      /\ DOMAIN Append(s, e) = 1 .. Len(s) + 1
      /\ Append(s, e)[Len(s) + 1] = e
      /\ \A i \in 1 .. Len(s) : Append(s, e)[i] = s[i]
  OBVIOUS
<1>2. Has(Append(s, e), e.fd)
  BY <1>1 DEF Has
<1>3. ASSUME NEW f, Has(s, f) PROVE Has(Append(s, e), f)
  BY <1>1, <1>3 DEF Has
<1> QED
  BY <1>1, <1>2, <1>3

(* Replacing an entry by one of the same fd.                               *)
LEMMA ReplaceHas ==
  ASSUME NEW s \in Seq(Entry), NEW i \in DOMAIN s, NEW e \in Entry, e.fd = s[i].fd
  PROVE  /\ [s EXCEPT ![i] = e] \in Seq(Entry)
         /\ \A f : Has(s, f) => Has([s EXCEPT ![i] = e], f)
<1> DEFINE t == [s EXCEPT ![i] = e]
<1>1. t \in Seq(Entry) /\ DOMAIN t = DOMAIN s
  BY ExceptSeq
<1>2. t[i] = e /\ \A j \in DOMAIN s \ {i} : t[j] = s[j]
  OBVIOUS
<1> HIDE DEF t
<1>3. ASSUME NEW f, Has(s, f) PROVE Has(t, f)
  BY <1>1, <1>2, <1>3 DEF Has
<1> QED
  BY <1>1, <1>3 DEF t

(* Moving the last entry into the place of another takes out that one and  *)
(* no other.                                                               *)
LEMMA RemoveHas ==
  ASSUME NEW s \in Seq(Entry), NEW i \in DOMAIN s
  PROVE  /\ Front([s EXCEPT ![i] = Last(s)]) \in Seq(Entry)
         /\ \A f : Has(s, f) /\ f # s[i].fd => Has(Front([s EXCEPT ![i] = Last(s)]), f)
<1> DEFINE n == Len(s) - 1
           t == [s EXCEPT ![i] = Last(s)]
           u == SubSeq(t, 1, n)
<1>1. /\ DOMAIN s = 1 .. Len(s) /\ Len(s) \in Nat /\ i \in 1 .. Len(s)
      /\ Last(s) = s[Len(s)] /\ \A j \in 1 .. Len(s) : s[j] \in Entry
  BY DEF Last
<1>2. Last(s) \in Entry /\ n \in Nat /\ Len(s) = n + 1
  BY <1>1
<1>3. t \in Seq(Entry) /\ Len(t) = Len(s)
  BY <1>2, ExceptSeq
<1>4. t[i] = Last(s) /\ \A j \in DOMAIN s \ {i} : t[j] = s[j]
  OBVIOUS
<1>5. Front(t) = u
  BY <1>3 DEF Front
<1>6. \A j \in 1 .. n : t[j] \in Entry
  BY <1>1, <1>3
<1> HIDE DEF t, n
<1>7. /\ u \in Seq(Entry)
      /\ Len(u) = IF 1 <= n THEN n - 1 + 1 ELSE 0
      /\ \A j \in 1 .. n - 1 + 1 : u[j] = t[1 + j - 1]
  BY <1>2, <1>6, SubSeqProperties
<1> HIDE DEF u
<1>8. DOMAIN u = 1 .. n /\ \A j \in 1 .. n : u[j] = t[j]
  BY <1>2, <1>7, LenProperties
<1>9. ASSUME NEW f, Has(s, f), f # s[i].fd PROVE Has(u, f)
  <2>1. PICK j \in 1 .. Len(s) : s[j].fd = f /\ j # i
    BY <1>1, <1>9 DEF Has
  <2>2. CASE j \in 1 .. n
    BY <1>1, <1>4, <1>8, <2>1, <2>2 DEF Has
  <2>3. CASE j \notin 1 .. n
    <3>1. j = n + 1
      BY <1>2, <2>3
    <3>2. i \in 1 .. n
      BY <1>1, <1>2, <2>1, <3>1
    <3> QED
      BY <1>1, <1>2, <1>4, <1>8, <2>1, <3>1, <3>2 DEF Has
  <2> QED
    BY <2>2, <2>3
<1> QED
  BY <1>5, <1>7, <1>9 DEF t

------------------------------------------------------------------------------
(* No hooked fd blocks.                                                    *)

(* Fds that are open, hooked and non-blocking where c is not concerned     *)
(* stay so when c changes its own fds only.                                *)
LEMMA OwnTable ==
  ASSUME TableInv, NEW c \in Coroutine, NEW s \in Seq(Entry),
         table' = [table EXCEPT ![c] = s],
         opener' \in [Fd -> Coroutine \union {Nobody}],
         \A f \in Fd : opener'[f] \in Coroutine \ {c} =>
                         /\ opener[f] = opener'[f]
                         /\ f \in raw => f \in raw'
                         /\ f \in blocking' => f \in blocking,
         \A f \in Fd \ raw' : opener'[f] = c => Has(s, f) /\ f \notin blocking'
  PROVE  TableInv'
<1>1. /\ table' \in [Coroutine -> Seq(Entry)] /\ table'[c] = s
      /\ \A d \in Coroutine \ {c} : table'[d] = table[d]
  BY DEF TableInv, TablesOK
<1>2. ASSUME NEW f \in Fd \ raw', opener'[f] # Nobody
      PROVE  Has(table'[opener'[f]], f) /\ f \notin blocking'
  <2>1. CASE opener'[f] = c
    BY <1>1, <1>2, <2>1
  <2>2. CASE opener'[f] \in Coroutine \ {c}
    <3>1. opener[f] = opener'[f] /\ f \notin raw /\ (f \in blocking' => f \in blocking)
      BY <1>2, <2>2
    <3>2. opener[f] # Nobody
      BY <2>2, <3>1, StackfulAssumption DEF StackfulAssumption
    <3>3. Has(table[opener[f]], f) /\ f \notin blocking
      BY <1>2, <3>1, <3>2, HasIsHooked DEF TableInv, NothingBlocks, Closed
    <3> QED
      BY <1>1, <2>2, <3>1, <3>3
  <2> QED
    BY <1>2, <2>1, <2>2
<1>3. NothingBlocks'
  BY <1>2 DEF NothingBlocks, Closed, IsHooked, Has
<1> QED
  BY <1>1, <1>3 DEF TableInv, TablesOK

LEMMA FdsKept ==
  ASSUME TableInv, UNCHANGED <<table, opener, blocking, raw>>
  PROVE  TableInv'
BY DEF TableInv, TablesOK, NothingBlocks, Closed, IsHooked

(* What is hooked and open is not blocking, unless it is raw.              *)
LEMMA OwnHooked ==
  ASSUME TableInv, NEW c \in Coroutine
  PROVE  /\ table[c] \in Seq(Entry) /\ table = [table EXCEPT ![c] = table[c]]
         /\ \A f \in Fd \ raw : opener[f] = c => Has(table[c], f) /\ f \notin blocking
BY StackfulAssumption
DEF TableInv, TablesOK, NothingBlocks, Closed, IsHooked, Has, StackfulAssumption

LEMMA DescriptorsKeepTable ==
  ASSUME TableInv, NEW c \in Coroutine, Descriptors(c)
  PROVE  TableInv'
<1>0. /\ opener \in [Fd -> Coroutine \union {Nobody}] /\ Nobody \notin Coroutine
      /\ table[c] \in Seq(Entry)
      /\ \A f \in Fd \ raw : opener[f] = c => Has(table[c], f) /\ f \notin blocking
  BY OwnHooked, StackfulAssumption DEF TableInv, TablesOK, StackfulAssumption
<1>1. CASE \E f \in Fd : Socket(c, f)
  <2> PICK f \in Fd : Socket(c, f)
    BY <1>1
  <2> DEFINE e == NewEntry(f)
  <2>1. /\ opener[f] = Nobody /\ opener' = [opener EXCEPT ![f] = c]
        /\ table' = [table EXCEPT ![c] = Append(table[c], e)]
        /\ raw' = raw \ {f} /\ blocking' = blocking \ {f}
    BY DEF Socket, Closed, Opens, WaitFd
  <2>2. e \in Entry /\ e.fd = f
    BY DEF NewEntry, Entry
  <2>3. /\ Append(table[c], e) \in Seq(Entry)
        /\ Has(Append(table[c], e), f)
        /\ \A g : Has(table[c], g) => Has(Append(table[c], e), g)
    BY <1>0, <2>2, AppendHas
  <2> HIDE DEF e
  <2>4. \A g \in Fd \ raw' : opener'[g] = c => Has(Append(table[c], e), g) /\ g \notin blocking'
    BY <1>0, <2>1, <2>3
  <2> QED
    BY <1>0, <2>1, <2>3, <2>4, OwnTable
<1>2. CASE \E f \in Fd : Close(c, f)
  <2> PICK f \in Fd : Close(c, f)
    BY <1>2
  <2>1. /\ opener[f] = c /\ opener' = [opener EXCEPT ![f] = Nobody]
        /\ table' = [table EXCEPT ![c] = WithoutFd(c, f)]
        /\ blocking' = blocking \ {f} /\ raw' = raw \ {f}
    BY DEF Close, Mine
  <2>2. /\ WithoutFd(c, f) \in Seq(Entry)
        /\ \A g : Has(table[c], g) /\ g # f => Has(WithoutFd(c, f), g)
    <3>1. CASE IsHooked(c, f)
      <4>1. FindFd(c, f) \in DOMAIN table[c] /\ table[c][FindFd(c, f)].fd = f
        BY <3>1, FindFdFinds DEF TableInv
      <4> QED
        BY <1>0, <3>1, <4>1, RemoveHas DEF WithoutFd
    <3>2. CASE ~IsHooked(c, f)
      BY <1>0, <3>2 DEF WithoutFd
    <3> QED
      BY <3>1, <3>2
  <2>3. \A g \in Fd \ raw' : opener'[g] = c => Has(WithoutFd(c, f), g) /\ g \notin blocking'
    BY <1>0, <2>1, <2>2
  <2> QED
    BY <1>0, <2>1, <2>2, <2>3, OwnTable
<1>3. CASE \E f \in Fd, b \in BOOLEAN : SetBlocking(c, f, b)
  <2> PICK f \in Fd, b \in BOOLEAN : SetBlocking(c, f, b)
    BY <1>3
  <2>1. /\ opener[f] = c /\ UNCHANGED <<table, opener, raw>>
        /\ \/ blocking' = blocking \ {f}
           \/ ~IsHooked(c, f) /\ blocking' = blocking \union {f}
    BY DEF SetBlocking, Mine, BlockingAfter
  <2>2. \A g \in Fd \ raw' : opener'[g] = c => Has(table[c], g) /\ g \notin blocking'
    BY <1>0, <2>1, HasIsHooked
  <2>3. table' = [table EXCEPT ![c] = table[c]]
    BY <2>1, OwnHooked
  <2> QED
    BY <1>0, <2>1, <2>2, <2>3, OwnTable
<1>4. CASE \E f \in Fd, n \in Limits \union {0} : SetSockOpt(c, f, n)
  <2> PICK f \in Fd, n \in Limits \union {0} : SetSockOpt(c, f, n)
    BY <1>4
  <2> DEFINE e == [fd |-> f, limit |-> n]
             i == FindFd(c, f)
             s == [table[c] EXCEPT ![i] = e]
  <2>1. /\ IsHooked(c, f) /\ UNCHANGED <<opener, blocking, raw>>
        /\ table' = [table EXCEPT ![c] = s]
    BY DEF SetSockOpt
  <2>2. i \in DOMAIN table[c] /\ table[c][i].fd = f
    BY <2>1, FindFdFinds DEF TableInv
  <2>3. e \in Entry /\ e.fd = f
    BY DEF Entry
  <2> HIDE DEF e, i
  <2>4. s \in Seq(Entry) /\ \A g : Has(table[c], g) => Has(s, g)
    BY <1>0, <2>2, <2>3, ReplaceHas
  <2> HIDE DEF s
  <2>5. \A g \in Fd \ raw' : opener'[g] = c => Has(s, g) /\ g \notin blocking'
    BY <1>0, <2>1, <2>4
  <2> QED
    BY <1>0, <2>1, <2>4, <2>5, OwnTable
<1>5. CASE \E f, g \in Fd : Dup(c, f, g) \/ Dup2(c, f, g)
  <2> PICK f \in Fd, g \in Fd : Dup(c, f, g) \/ Dup2(c, f, g)
    BY <1>5
  <2> DEFINE e == CopyOf(c, f, g)
  <2>1. /\ opener[f] = c /\ opener[g] \in {c, Nobody}
        /\ opener' = [opener EXCEPT ![g] = c]
        /\ blocking' = IF f \in blocking THEN blocking \union {g} ELSE blocking \ {g}
        /\ raw' = IF f \in raw THEN raw \union {g} ELSE raw \ {g}
    BY DEF Dup, Dup2, Mine, Closed, Opens, SameFile, Same
  <2>2. IsHooked(c, f) => e \in Entry /\ e.fd = g
    <3>1. IsHooked(c, f) => FindFd(c, f) \in DOMAIN table[c]
      BY FindFdFinds DEF TableInv
    <3>2. IsHooked(c, f) => table[c][FindFd(c, f)] \in Entry
      BY <1>0, <3>1
    <3> QED
      BY <3>2 DEF CopyOf, Limit, Entry
  <2> HIDE DEF e
  <2>3. \/ IsHooked(c, f) /\ table' = [table EXCEPT ![c] = Append(table[c], e)]
        \/ (IsHooked(c, f) => IsHooked(c, g)) /\ table' = [table EXCEPT ![c] = table[c]]
    <3>1. table = [table EXCEPT ![c] = table[c]]
      BY OwnHooked
    <3> QED
      BY <3>1 DEF Dup, Dup2, WaitFd, e
  <2>4. PICK s \in Seq(Entry) :
          /\ table' = [table EXCEPT ![c] = s]
          /\ \A h : Has(table[c], h) => Has(s, h)
          /\ IsHooked(c, f) => Has(s, g)
    <3>1. CASE IsHooked(c, f) /\ table' = [table EXCEPT ![c] = Append(table[c], e)]
      <4>1. e \in Entry /\ e.fd = g
        BY <2>2, <3>1
      <4>2. /\ Append(table[c], e) \in Seq(Entry)
            /\ Has(Append(table[c], e), g)
            /\ \A h : Has(table[c], h) => Has(Append(table[c], e), h)
        BY <1>0, <4>1, AppendHas
      <4> QED
        BY <3>1, <4>2
    <3>2. CASE (IsHooked(c, f) => IsHooked(c, g)) /\ table' = [table EXCEPT ![c] = table[c]]
      BY <1>0, <3>2, HasIsHooked
    <3> QED
      BY <2>3, <3>1, <3>2
  <2>5. \A h \in Fd \ raw' : opener'[h] = c => Has(s, h) /\ h \notin blocking'
    <3> SUFFICES ASSUME NEW h \in Fd \ raw', opener'[h] = c
                 PROVE  Has(s, h) /\ h \notin blocking'
      OBVIOUS
    <3>1. CASE h = g
      <4>1. f \notin raw
        BY <2>1, <3>1
      <4>2. Has(table[c], f) /\ f \notin blocking
        BY <1>0, <2>1, <4>1
      <4> QED
        BY <2>1, <2>4, <3>1, <4>2, HasIsHooked
    <3>2. CASE h # g
      <4>1. opener[h] = c /\ h \notin raw /\ (h \in blocking' => h \in blocking)
        BY <1>0, <2>1, <3>2
      <4> QED
        BY <1>0, <2>4, <4>1
    <3> QED
      BY <3>1, <3>2
  <2> QED
    BY <1>0, <2>1, <2>4, <2>5, OwnTable
<1>6. CASE \E f, g \in Fd : Accepts(c, f, g)
  <2> PICK f \in Fd, g \in Fd : Accepts(c, f, g)
    BY <1>6
  <2> DEFINE e == NewEntry(f)
  <2>1. /\ opener[g] = Nobody /\ opener' = [opener EXCEPT ![g] = c]
        /\ raw' = raw \union {g} /\ blocking' = blocking \ {g}
        /\ table' = [table EXCEPT ![c] = Append(table[c], e)]
    BY DEF Accepts, Closed, Opens, WaitFd
  <2>2. e \in Entry
    BY DEF NewEntry, Entry
  <2> HIDE DEF e
  <2>3. /\ Append(table[c], e) \in Seq(Entry)
        /\ \A h : Has(table[c], h) => Has(Append(table[c], e), h)
    BY <1>0, <2>2, AppendHas
  <2>4. \A h \in Fd \ raw' : opener'[h] = c => Has(Append(table[c], e), h) /\ h \notin blocking'
    BY <1>0, <2>1, <2>3
  <2> QED
    BY <1>0, <2>1, <2>3, <2>4, OwnTable
<1> QED
  BY <1>1, <1>2, <1>3, <1>4, <1>5, <1>6 DEF Descriptors

(* A coroutine opens or closes an fd of its own without touching a table.  *)
LEMMA SetsKeepTable ==
  ASSUME TableInv, NEW c \in Coroutine, NEW f,
         UNCHANGED <<table, blocking>>,
         \/ opener[f] = Nobody /\ opener' = [opener EXCEPT ![f] = c] /\ raw' = raw \union {f}
         \/ opener' = [opener EXCEPT ![f] = Nobody] /\ raw' = raw \ {f}
  PROVE  TableInv'
<1>0. /\ opener \in [Fd -> Coroutine \union {Nobody}] /\ Nobody \notin Coroutine
      /\ table[c] \in Seq(Entry)
      /\ \A g \in Fd \ raw : opener[g] = c => Has(table[c], g) /\ g \notin blocking
  BY OwnHooked, StackfulAssumption DEF TableInv, TablesOK, StackfulAssumption
<1>1. table' = [table EXCEPT ![c] = table[c]]
  BY OwnHooked
<1>2. \A g \in Fd \ raw' : opener'[g] = c => Has(table[c], g) /\ g \notin blocking'
  BY <1>0
<1>3. /\ opener' \in [Fd -> Coroutine \union {Nobody}]
      /\ \A g \in Fd : opener'[g] \in Coroutine \ {c} =>
                         opener[g] = opener'[g] /\ (g \in raw => g \in raw')
  BY <1>0
<1> QED
  BY <1>0, <1>1, <1>2, <1>3, OwnTable

LEMMA FinishKeepsTable ==
  ASSUME TableInv, NEW c \in Coroutine, Finish(c)
  PROVE  TableInv'
<1>1. /\ table' = [table EXCEPT ![c] = << >>]
      /\ opener' = [f \in Fd |-> IF opener[f] = c THEN Nobody ELSE opener[f]]
      /\ blocking' = {f \in blocking : opener[f] # c}
      /\ raw' = {f \in raw : opener[f] # c}
  BY DEF Finish, Mine
<1>2. << >> \in Seq(Entry) /\ Nobody # c
  BY StackfulAssumption DEF StackfulAssumption
<1>3. /\ opener' \in [Fd -> Coroutine \union {Nobody}]
      /\ \A f \in Fd : opener'[f] # c
      /\ \A f \in Fd : opener'[f] \in Coroutine \ {c} =>
                         /\ opener[f] = opener'[f]
                         /\ f \in raw => f \in raw'
                         /\ f \in blocking' => f \in blocking
  BY <1>1, <1>2, StackfulAssumption DEF TableInv, TablesOK, StackfulAssumption
<1> QED
  BY <1>1, <1>2, <1>3, OwnTable

LEMMA InitTable == Init => TableInv
BY DEF Init, TableInv, TablesOK, NothingBlocks, Closed

LEMMA NextKeepsTable == TableInv /\ [Next]_vars => TableInv'
<1> SUFFICES ASSUME TableInv, [Next]_vars PROVE TableInv'
  OBVIOUS
<1>1. CASE UNCHANGED vars \/ ClockMoves \/ Poll
  <2>1. UNCHANGED <<table, opener, blocking, raw>>
    BY <1>1 DEF vars, ClockMoves, Poll, fds
  <2> QED
    BY <2>1, FdsKept
<1>2. ASSUME NEW c \in Coroutine, NEW n, Start(c, n) PROVE TableInv'
  BY <1>2, FdsKept DEF Start, fds
<1>3. ASSUME NEW c \in Coroutine, Descriptors(c) PROVE TableInv'
  BY <1>3, DescriptorsKeepTable
<1>4. ASSUME NEW c \in Coroutine, Waits(c) PROVE TableInv'
  <2>1. CASE \E e \in Fd, n \in Limits \union {0} : PollMany(c, e, n)
    <3> PICK e \in Fd, n \in Limits \union {0} : PollMany(c, e, n)
      BY <2>1
    <3> QED
      BY SetsKeepTable DEF PollMany, Closed, Opens
  <2>2. CASE ~ \E e \in Fd, n \in Limits \union {0} : PollMany(c, e, n)
    <3>1. UNCHANGED <<table, opener, blocking, raw>>
      BY <1>4, <2>2 DEF Waits, Io, Connect, Accept, EpollWait, Nap, Sleep, Rest, fds
    <3> QED
      BY <3>1, FdsKept
  <2> QED
    BY <2>1, <2>2
<1>5. ASSUME NEW c \in Coroutine, Returns(c) PROVE TableInv'
  BY <1>5, FdsKept DEF Returns, fds
<1>6. ASSUME NEW c \in Coroutine, Finish(c) PROVE TableInv'
  BY <1>6, FinishKeepsTable
<1>7. ASSUME NEW c \in Coroutine,
             ResumeOnPoll(c) \/ ResumeOnTimeout(c) \/ SleeperEnds(c)
      PROVE  TableInv'
  <2>1. \E T, O : Resumes(c, T, O)
    BY <1>7 DEF ResumeOnPoll, ResumeOnTimeout, SleeperEnds
  <2>2. /\ UNCHANGED <<table, blocking>>
        /\ \/ opener' = [opener EXCEPT ![call[c].fd] = Nobody] /\ raw' = raw \ {call[c].fd}
           \/ UNCHANGED <<opener, raw>>
    BY <2>1 DEF Resumes
  <2> QED
    BY <2>2, FdsKept, SetsKeepTable
<1> QED
  BY <1>1, <1>2, <1>3, <1>4, <1>5, <1>6, <1>7 DEF Next

(* No call on a hooked fd blocks the thread (wait_fd, remove_fd, the hooks *)
(* of dup, dup2, fcntl, ioctl and close).                                  *)
THEOREM HookedNeverBlocks == Spec => []NothingBlocks
<1>1. TableInv => NothingBlocks
  BY DEF TableInv
<1> QED
  BY <1>1, InitTable, NextKeepsTable, PTL DEF Spec

------------------------------------------------------------------------------
(* Timeouts and deadlines.                                                 *)

Timer == [of : Coroutine, what : {"waiter", "sleeper"}, left : Int]

(* Only c acts: its state is x, its call y and its flag o afterwards.      *)
LEMMA OneActs ==
  ASSUME TimeInv, ThreadsOK, NEW c \in Coroutine, NEW x, NEW y, NEW o \in BOOLEAN,
         pc' = [pc EXCEPT ![c] = x], call' = [call EXCEPT ![c] = y],
         over' = [over EXCEPT ![c] = o],
         timers' \subseteq Timer, deadline' \subseteq [of : Coroutine, left : Int],
         \A t : t.of # c => (t \in timers' <=> t \in timers),
         \A d : d.of # c => (d \in deadline' <=> d \in deadline),
         TimesOf(c, timers', deadline', x, y, o),
         batch' \subseteq batch, c \in batch' => x = "yielded" /\ y.fd \in Fd
  PROVE  TimeInv'
<1>1. /\ pc'[c] = x /\ call'[c] = y /\ over'[c] = o /\ over' \in [Coroutine -> BOOLEAN]
      /\ \A d \in Coroutine : d # c => pc'[d] = pc[d] /\ call'[d] = call[d] /\ over'[d] = over[d]
  BY DEF TimeInv, TimesOK, ThreadsOK
<1>2. TimesOK'
  BY <1>1 DEF TimesOK, Timer
<1>3. ASSUME NEW d \in Coroutine
      PROVE  TimesOf(d, timers', deadline', pc'[d], call'[d], over'[d])
  <2>1. CASE d = c
    BY <1>1, <2>1
  <2>2. CASE d # c
    <3>1. TimesOf(d, timers, deadline, pc[d], call[d], over[d])
      BY DEF TimeInv
    <3>2. /\ \A t : t.of = d => (t \in timers' <=> t \in timers)
          /\ \A e : e.of = d => (e \in deadline' <=> e \in deadline)
      BY <2>2
    <3>3. \A n : Timeout(d, n).of = d
      BY DEF Timeout
    <3>4. TimesOf(d, timers', deadline', pc[d], call[d], over[d])
      BY ONLY <3>1, <3>2, <3>3 DEF TimesOf
    <3> QED
      BY <1>1, <2>2, <3>4
  <2> QED
    BY <2>1, <2>2
<1>4. \A d \in batch' : d \in Coroutine /\ pc'[d] = "yielded" /\ call'[d].fd \in Fd
  BY <1>1 DEF TimeInv
<1> QED
  BY <1>2, <1>3, <1>4 DEF TimeInv

(* A call y with a timeout of its own, and one without.                    *)
Timed(y) == y.own /\ y.op # "sleep"
Untimed(y) == ~y.own /\ y.op # "sleep"

(* c leaves its times alone: in its own code, or in a call without a       *)
(* timeout of its own.                                                     *)
LEMMA BodyKeepsTimes ==
  ASSUME TimeInv, ThreadsOK, NEW c \in Coroutine, pc[c] \in {"body", "try"},
         pc' = [pc EXCEPT ![c] = "body"], call' = [call EXCEPT ![c] = NoCall],
         timers' = timers, over' = over, deadline' = deadline, batch' = batch
  PROVE  TimeInv'
<1>1. /\ over[c] \in BOOLEAN /\ over' = [over EXCEPT ![c] = over[c]]
      /\ timers' \subseteq Timer /\ deadline' \subseteq [of : Coroutine, left : Int]
  BY DEF TimeInv, TimesOK, Timer
<1>2. TimesOf(c, timers, deadline, pc[c], call[c], over[c]) /\ c \notin batch
  BY DEF TimeInv
<1>3. ~NoCall.own /\ NoCall.op # "sleep"
  BY DEF NoCall
<1>4. TimesOf(c, timers, deadline, "body", NoCall, over[c])
  BY ONLY <1>2, <1>3, pc[c] \in {"body", "try"} DEF TimesOf
<1> QED
  BY <1>1, <1>2, <1>4, OneActs

LEMMA CallKeepsTimes ==
  ASSUME TimeInv, ThreadsOK, NEW c \in Coroutine, pc[c] \in {"body", "try"},
         NEW y, Untimed(y), ~over[c] \/ y.fd \notin Fd,
         pc' = [pc EXCEPT ![c] = "yielded"], call' = [call EXCEPT ![c] = y],
         timers' = timers, over' = over, deadline' = deadline, batch' = batch
  PROVE  TimeInv'
<1>1. /\ over[c] \in BOOLEAN /\ over' = [over EXCEPT ![c] = over[c]]
      /\ timers' \subseteq Timer /\ deadline' \subseteq [of : Coroutine, left : Int]
  BY DEF TimeInv, TimesOK, Timer
<1>2. TimesOf(c, timers, deadline, pc[c], call[c], over[c]) /\ c \notin batch
  BY DEF TimeInv
<1>3. TimesOf(c, timers, deadline, "yielded", y, over[c])
  BY ONLY <1>2, pc[c] \in {"body", "try"}, Untimed(y), ~over[c] \/ y.fd \notin Fd
     DEF TimesOf, Untimed
<1> QED
  BY <1>1, <1>2, <1>3, OneActs

LEMMA NothingTimed ==
  ASSUME TimeInv, UNCHANGED <<times, pc, call, batch>>
  PROVE  TimeInv'
  BY DEF TimeInv, TimesOK, times

(* A coroutine that runs and has a timeout has set it itself.              *)
LEMMA RunsTimed ==
  ASSUME TimeInv, NEW c \in Coroutine, pc[c] # "yielded"
  PROVE  /\ ~call[c].own /\ c \notin batch
         /\ \A t \in timers : t.of = c => t.what = "waiter" /\ \E d \in deadline : d.of = c
         /\ ~IsSetTimeout(c) => (\A t \in timers : t.of # c) /\ (\A d \in deadline : d.of # c)
<1>1. TimesOf(c, timers, deadline, pc[c], call[c], over[c]) /\ c \notin batch
  BY DEF TimeInv
<1>2. ~call[c].own
  BY <1>1 DEF TimesOf
<1>3. \A t \in timers : t.of = c => t.what = "waiter" /\ \E d \in deadline : d.of = c
  BY <1>1, <1>2 DEF TimesOf
<1>4. ASSUME ~IsSetTimeout(c)
      PROVE  (\A t \in timers : t.of # c) /\ (\A d \in deadline : d.of # c)
  <2>1. \A t \in timers : t.of = c => t.what # "waiter"
    BY <1>4 DEF IsSetTimeout, Timeouts
  <2>2. \A d \in deadline : d.of = c => Timeout(c, d.left) \in timers
    BY <1>1 DEF TimesOf
  <2>3. \A n : Timeout(c, n).of = c /\ Timeout(c, n).what = "waiter"
    BY DEF Timeout
  <2> QED
    BY <1>3, <2>1, <2>2, <2>3
<1> QED
  BY <1>1, <1>2, <1>3, <1>4

(* c suspends itself in a call y with a timeout n of its own.              *)
LEMMA TimeoutSet ==
  ASSUME TimeInv, ThreadsOK, NEW c \in Coroutine, pc[c] # "yielded", ~IsSetTimeout(c),
         NEW y, Timed(y), NEW n \in Int,
         pc' = [pc EXCEPT ![c] = "yielded"], call' = [call EXCEPT ![c] = y],
         timers' = timers \union {Timeout(c, n)}, over' = [over EXCEPT ![c] = FALSE],
         UNCHANGED <<deadline, batch>>
  PROVE  TimeInv'
<1>1. /\ (\A t \in timers : t.of # c) /\ (\A d \in deadline : d.of # c) /\ c \notin batch
  BY RunsTimed
<1>2. /\ Timeout(c, n) \in Timer /\ Timeout(c, n).of = c /\ Timeout(c, n).what = "waiter"
  BY DEF Timeout, Timer
<1>3. timers' \subseteq Timer /\ deadline' \subseteq [of : Coroutine, left : Int]
  BY <1>2 DEF TimeInv, TimesOK, Timer
<1>4. /\ \A t : t.of # c => (t \in timers' <=> t \in timers)
      /\ \A d : d.of # c => (d \in deadline' <=> d \in deadline)
  BY <1>2
<1>5. TimesOf(c, timers', deadline', "yielded", y, FALSE)
  <2>1. \A t \in timers' : t.of = c => t = Timeout(c, n)
    BY <1>1
  <2>2. \A d \in deadline' : d.of # c
    BY <1>1
  <2> QED
    BY ONLY <1>2, <2>1, <2>2, Timed(y) DEF TimesOf, Timed
<1> QED
  BY <1>1, <1>3, <1>4, <1>5, OneActs

LEMMA FdCallKeepsTimes ==
  ASSUME TimeInv, ThreadsOK, NEW c \in Coroutine, NEW f \in Fd, NEW n \in Nat,
         NEW op \in Ops \ {"sleep"}, pc[c] \in {"body", "try"}, MayWait(c),
         WaitsFor(c, op, f, n)
  PROVE  TimeInv'
<1> DEFINE y == [op |-> op, fd |-> f, own |-> SetsTimeout(c, n)]
<1>1. /\ pc' = [pc EXCEPT ![c] = "yielded"] /\ call' = [call EXCEPT ![c] = y]
      /\ UNCHANGED <<deadline, batch>>
      /\ timers' = IF SetsTimeout(c, n) THEN timers \union {Timeout(c, n)} ELSE timers
      /\ over' = IF SetsTimeout(c, n) THEN [over EXCEPT ![c] = FALSE] ELSE over
  BY DEF WaitsFor, CallTimeout, Yields
<1>2. y.op # "sleep" /\ y.own = SetsTimeout(c, n)
  OBVIOUS
<1> HIDE DEF y
<1>3. CASE SetsTimeout(c, n)
  <2>1. Timed(y)
    BY <1>2, <1>3 DEF Timed
  <2>2. ~IsSetTimeout(c) /\ pc[c] # "yielded" /\ n \in Int
    BY <1>3 DEF SetsTimeout
  <2>3. timers' = timers \union {Timeout(c, n)} /\ over' = [over EXCEPT ![c] = FALSE]
    BY <1>1, <1>3
  <2> QED
    BY <1>1, <2>1, <2>2, <2>3, TimeoutSet
<1>4. CASE ~SetsTimeout(c, n)
  <2>1. ~over[c] /\ timers' = timers /\ over' = over /\ deadline' = deadline /\ batch' = batch
    BY <1>1, <1>4 DEF MayWait
  <2>2. Untimed(y)
    BY <1>2, <1>4 DEF Untimed
  <2> QED
    BY <1>1, <2>1, <2>2, CallKeepsTimes
<1> QED
  BY <1>3, <1>4

LEMMA LimitIs ==
  ASSUME TablesOK, NEW c \in Coroutine, NEW f, IsHooked(c, f)
  PROVE  Limit(c, f) \in Nat
<1>1. table[c] \in Seq(Entry) /\ FindFd(c, f) \in DOMAIN table[c]
  BY FindFdFinds DEF TablesOK
<1>2. table[c][FindFd(c, f)] \in Entry
  BY <1>1
<1> QED
  BY <1>2, StackfulAssumption DEF Limit, Entry, StackfulAssumption

(* usleep() with a deadline: the sleeper comes first.                      *)
LEMMA SleepKeepsTimes ==
  ASSUME TimeInv, ThreadsOK, ~Ties, NEW c \in Coroutine, NEW n \in Int, Sleep(c, n)
  PROVE  TimeInv'
<1> DEFINE y == [op |-> "sleep", fd |-> NoFd, own |-> FALSE]
           s == [of |-> c, what |-> "sleeper", left |-> n]
<1>1. /\ pc[c] = "body" /\ IsSetTimeout(c) /\ Left(c) > n
      /\ pc' = [pc EXCEPT ![c] = "yielded"] /\ call' = [call EXCEPT ![c] = y]
      /\ timers' = timers \union {s} /\ UNCHANGED <<over, deadline, batch>>
  BY DEF Sleep, Calls, SleepsFirst, Yields
<1>2. /\ TimesOf(c, timers, deadline, pc[c], call[c], over[c])
      /\ \A t \in timers : t.of = c => t.what = "waiter" /\ \E d \in deadline : d.of = c
      /\ c \notin batch
  BY <1>1, RunsTimed DEF TimeInv
<1>3. PICK d \in deadline : d.of = c
  BY <1>1, <1>2 DEF IsSetTimeout, Timeouts
<1>4. n < d.left
  <2>1. PICK t \in Timeouts(c) : Left(c) = t.left
    BY <1>1 DEF Left, IsSetTimeout
  <2>2. t \in timers /\ t.of = c /\ t.what = "waiter"
    BY <2>1 DEF Timeouts
  <2>3. Timeout(c, d.left) \in timers
    BY <1>2, <1>3 DEF TimesOf
  <2>4. t = Timeout(c, d.left)
    BY <1>2, <2>2, <2>3 DEF TimesOf, Timeout
  <2>5. t.left = d.left
    BY <2>4 DEF Timeout
  <2>6. t.left \in Int
    BY <2>2 DEF TimeInv, TimesOK
  <2> QED
    BY <1>1, <2>1, <2>5, <2>6
<1>5. s \in Timer /\ s.of = c /\ s.what = "sleeper" /\ s.left = n
  BY DEF Timer
<1>6. y.op = "sleep" /\ y.fd = NoFd /\ ~y.own /\ NoFd \notin Fd
  BY StackfulAssumption DEF StackfulAssumption
<1> HIDE DEF s, y
<1>7. TimesOf(c, timers', deadline', "yielded", y, over[c])
  <2>1. deadline' = deadline /\ \A t \in timers' : t \in timers \/ t = s
    BY <1>1
  <2>2. timers \subseteq timers'
    BY <1>1
  <2> QED
    BY ONLY <1>1, <1>2, <1>3, <1>4, <1>5, <1>6, <2>1, <2>2 DEF TimesOf
<1>8. /\ timers' \subseteq Timer /\ deadline' \subseteq [of : Coroutine, left : Int]
      /\ over[c] \in BOOLEAN /\ over' = [over EXCEPT ![c] = over[c]]
  BY <1>1, <1>5 DEF TimeInv, TimesOK, Timer
<1>9. /\ \A t : t.of # c => (t \in timers' <=> t \in timers)
      /\ \A e : e.of # c => (e \in deadline' <=> e \in deadline)
  BY <1>1, <1>5
<1> QED
  BY <1>1, <1>2, <1>7, <1>8, <1>9, OneActs

LEMMA WaitsKeepTimes ==
  ASSUME TimeInv, ThreadsOK, TablesOK, ~Ties, NEW c \in Coroutine, Waits(c)
  PROVE  TimeInv'
<1>1. ASSUME NEW f \in Fd, Io(c, f) \/ Connect(c, f) \/ Accept(c, f) PROVE TimeInv'
  <2>1. /\ pc[c] \in {"body", "try"} /\ MayWait(c) /\ IsHooked(c, f)
        /\ \E op \in Ops \ {"sleep"} : WaitsFor(c, op, f, Limit(c, f))
    BY <1>1 DEF Io, Connect, Accept, Begins, Calls, Ops
  <2>2. Limit(c, f) \in Nat
    BY <2>1, LimitIs
  <2> QED
    BY <2>1, <2>2, FdCallKeepsTimes
<1>2. ASSUME NEW f \in Fd, NEW n \in Limits \union {0}, EpollWait(c, f, n) \/ PollMany(c, f, n)
      PROVE  TimeInv'
  <2>1. /\ pc[c] \in {"body", "try"} /\ MayWait(c)
        /\ \E op \in Ops \ {"sleep"} : WaitsFor(c, op, f, n)
    BY <1>2 DEF EpollWait, PollMany, Calls, Ops
  <2>2. n \in Nat
    BY StackfulAssumption DEF StackfulAssumption
  <2> QED
    BY <2>1, <2>2, FdCallKeepsTimes
<1>3. ASSUME NEW n \in Sleeps, Nap(c, n) PROVE TimeInv'
  <2> DEFINE y == [op |-> "nap", fd |-> NoFd, own |-> FALSE]
  <2>1. /\ pc[c] = "body" /\ pc' = [pc EXCEPT ![c] = "yielded"]
        /\ call' = [call EXCEPT ![c] = y]
        /\ timers' = timers /\ over' = over /\ deadline' = deadline /\ batch' = batch
    BY <1>3 DEF Nap, Calls, Yields, times
  <2>2. Untimed(y) /\ y.fd \notin Fd
    BY StackfulAssumption DEF StackfulAssumption, Untimed
  <2> HIDE DEF y
  <2> QED
    BY <2>1, <2>2, CallKeepsTimes
<1>4. ASSUME NEW n \in Sleeps, Sleep(c, n) PROVE TimeInv'
  <2>1. n \in Int
    BY StackfulAssumption DEF StackfulAssumption
  <2> QED
    BY <1>4, <2>1, SleepKeepsTimes
<1>5. ASSUME NEW n \in Sleeps \union {0}, Rest(c, n) PROVE TimeInv'
  <2> DEFINE y == [op |-> "rest", fd |-> NoFd, own |-> TRUE]
  <2>1. /\ pc[c] = "body" /\ ~IsSetTimeout(c) /\ pc' = [pc EXCEPT ![c] = "yielded"]
        /\ call' = [call EXCEPT ![c] = y] /\ UNCHANGED <<deadline, batch>>
        /\ timers' = timers \union {Timeout(c, n)} /\ over' = [over EXCEPT ![c] = FALSE]
    BY <1>5 DEF Rest, Calls, Yields
  <2>2. Timed(y)
    BY DEF Timed
  <2>3. n \in Int
    BY StackfulAssumption DEF StackfulAssumption
  <2> HIDE DEF y
  <2> QED
    BY <2>1, <2>2, <2>3, TimeoutSet
<1> QED
  BY <1>1, <1>2, <1>3, <1>4, <1>5 DEF Waits

(* The loop resumes c: it has no times, or those of a deadline and none of *)
(* its call.                                                               *)
LEMMA ResumedTimes ==
  ASSUME TimeInv, ThreadsOK, NEW c \in Coroutine, NEW T, NEW O, Resumes(c, T, O),
         NEW o \in BOOLEAN, O = [over EXCEPT ![c] = o], pc[c] = "yielded",
         T \subseteq timers,
         \A t : t.of # c => (t \in T <=> t \in timers),
         \A t \in timers' : t.of = c => t \in timers /\ t.what = "waiter" /\ ~call[c].own,
         deadline' \subseteq deadline, \A d : d.of # c => (d \in deadline' <=> d \in deadline),
         \A d \in deadline' : d.of = c => Timeout(c, d.left) \in timers' /\ ~call[c].own,
         \A t \in timers' : t.of = c => \E d \in deadline' : d.of = c,
         batch' \subseteq batch \ {c}
  PROVE  TimeInv'
<1>1. /\ O[c] = o /\ over' = O
      /\ timers' = IF o \/ call[c].fd = NoFd \/ ~call[c].own THEN T ELSE T \ Timeouts(c)
  BY DEF Resumes, TimersAfterCall, TimeInv, TimesOK
<1>2. PICK x \in {"try", "body"}, y \in Call :
        /\ pc' = [pc EXCEPT ![c] = x] /\ call' = [call EXCEPT ![c] = y]
        /\ ~y.own /\ y.op # "sleep"
  <2>1. CASE call[c].op \in {"io", "accept"} /\ ~O[c]
    <3> DEFINE y == [op |-> call[c].op, fd |-> call[c].fd, own |-> FALSE]
    <3>1. call' = [call EXCEPT ![c] = y] /\ pc' = [pc EXCEPT ![c] = "try"]
      BY <2>1 DEF Resumes, ThreadsOK
    <3>2. y \in Call /\ ~y.own /\ y.op # "sleep"
      BY <2>1 DEF ThreadsOK, Call, Ops
    <3> HIDE DEF y
    <3> QED
      BY <3>1, <3>2
  <2>2. CASE ~(call[c].op \in {"io", "accept"} /\ ~O[c])
    <3>1. NoCall \in Call /\ ~NoCall.own /\ NoCall.op # "sleep"
      BY DEF NoCall, Call
    <3>2. call' = [call EXCEPT ![c] = NoCall] /\ pc' = [pc EXCEPT ![c] = "body"]
      BY <2>2 DEF Resumes
    <3> QED
      BY <3>1, <3>2
  <2> QED
    BY <2>1, <2>2
<1>3. TimesOf(c, timers, deadline, pc[c], call[c], over[c])
  BY DEF TimeInv
<1>4. TimesOf(c, timers', deadline', x, y, o)
  <2>1. x # "yielded" /\ x # "new" /\ x # "done"
    OBVIOUS
  <2>2. \A t, u \in timers' : t.of = c /\ u.of = c /\ t.what = u.what => t = u
    BY <1>3 DEF TimesOf
  <2>3. \A d, e \in deadline' : d.of = c /\ e.of = c => d = e
    BY <1>3 DEF TimesOf
  <2> QED
    BY <1>2, <2>1, <2>2, <2>3 DEF TimesOf
<1>5. /\ timers' \subseteq Timer /\ deadline' \subseteq [of : Coroutine, left : Int]
  BY <1>1 DEF TimeInv, TimesOK, Timer
<1>6. \A t : t.of # c => (t \in timers' <=> t \in timers)
  BY <1>1 DEF Timeouts
<1>7. batch' \subseteq batch /\ c \notin batch'
  OBVIOUS
<1> QED
  BY <1>1, <1>2, <1>4, <1>5, <1>6, <1>7, OneActs

LEMMA ResumesKeepTimes ==
  ASSUME TimeInv, ThreadsOK, NEW c \in Coroutine,
         ResumeOnPoll(c) \/ ResumeOnTimeout(c) \/ SleeperEnds(c)
  PROVE  TimeInv'
<1>1. TimesOf(c, timers, deadline, pc[c], call[c], over[c]) /\ pc[c] = "yielded"
  BY DEF TimeInv, ResumeOnPoll, ResumeOnTimeout, SleeperEnds
<1>2. /\ over[c] \in BOOLEAN /\ over = [over EXCEPT ![c] = over[c]] /\ NoFd \notin Fd
      /\ \A n : Timeout(c, n).of = c /\ Timeout(c, n).what = "waiter" /\ Timeout(c, n).left = n
      /\ \A t \in timers : t.left \in Int /\ t.what \in {"waiter", "sleeper"}
  BY StackfulAssumption DEF TimeInv, TimesOK, StackfulAssumption, Timeout
<1>3. CASE ResumeOnPoll(c)
  <2>1. /\ Resumes(c, timers, over) /\ deadline' = deadline /\ batch' \subseteq batch \ {c}
        /\ call[c].fd \in Fd
    BY <1>3 DEF ResumeOnPoll, TimeInv
  <2>2. ~over[c] /\ call[c].op # "sleep"
    BY <1>1, <1>2, <2>1 DEF TimesOf
  <2>3. timers' = IF call[c].own THEN timers \ Timeouts(c) ELSE timers
    BY <1>2, <2>1, <2>2 DEF Resumes, TimersAfterCall
  <2>4. ASSUME NEW t \in timers', t.of = c
        PROVE  t \in timers /\ t.what = "waiter" /\ ~call[c].own /\ \E d \in deadline' : d.of = c
    <3>1. t \in timers /\ t.what = "waiter"
      BY <1>1, <2>2, <2>3, <2>4 DEF TimesOf
    <3>2. ~call[c].own
      BY <2>3, <2>4, <3>1 DEF Timeouts
    <3> QED
      BY <1>1, <2>1, <2>4, <3>1, <3>2 DEF TimesOf
  <2>5. ASSUME NEW d \in deadline', d.of = c
        PROVE  Timeout(c, d.left) \in timers' /\ ~call[c].own
    BY <1>1, <2>1, <2>3, <2>5 DEF TimesOf
  <2> QED
    BY <1>1, <1>2, <2>1, <2>4, <2>5, ResumedTimes
<1>4. CASE ResumeOnTimeout(c)
  <2>1. PICK t \in Timeouts(c) : IsNext(t) /\ Resumes(c, timers \ {t}, [over EXCEPT ![c] = TRUE])
    BY <1>4 DEF ResumeOnTimeout
  <2>2. deadline' = {d \in deadline : d.of # c} /\ batch' = {} /\ batch = {}
    BY <1>4 DEF ResumeOnTimeout, Looping
  <2>3. t \in timers /\ t.of = c /\ t.what = "waiter" /\ \A u \in timers : t.left <= u.left
    BY <2>1 DEF Timeouts, IsNext
  <2>4. timers' = timers \ {t}
    BY <2>1 DEF Resumes, TimeInv, TimesOK
  <2>5. ASSUME NEW u \in timers', u.of = c PROVE FALSE
    <3>1. CASE u.what = "waiter"
      BY <1>1, <2>3, <2>4, <2>5, <3>1 DEF TimesOf
    <3>2. CASE u.what # "waiter"
      <4>1. PICK d \in deadline : d.of = c /\ u.left < d.left
        BY <1>1, <2>4, <2>5, <3>2 DEF TimesOf
      <4>2. Timeout(c, d.left) \in timers
        BY <1>1, <4>1 DEF TimesOf
      <4>3. t = Timeout(c, d.left)
        BY <1>1, <1>2, <2>3, <4>2 DEF TimesOf
      <4>4. t.left = d.left /\ t.left <= u.left /\ t.left \in Int /\ u.left \in Int
        BY <1>2, <2>3, <2>4, <2>5, <4>3
      <4> QED
        BY <4>1, <4>4
    <3> QED
      BY <3>1, <3>2
  <2>6. timers \ {t} \subseteq timers /\ \A u : u.of # c => (u \in timers \ {t} <=> u \in timers)
    BY <2>3
  <2>7. deadline' \subseteq deadline /\ (\A d \in deadline' : d.of # c)
        /\ \A d : d.of # c => (d \in deadline' <=> d \in deadline)
    BY <2>2
  <2> QED
    BY <1>1, <2>1, <2>2, <2>5, <2>6, <2>7, ResumedTimes
<1>5. CASE SleeperEnds(c)
  <2>1. PICK t \in timers \ Timeouts(c) : t.of = c /\ Resumes(c, timers \ {t}, over)
    BY <1>5 DEF SleeperEnds
  <2>2. deadline' = deadline /\ batch' = {} /\ batch = {}
    BY <1>5 DEF SleeperEnds, Looping
  <2>3. t \in timers /\ t.what = "sleeper"
    BY <1>2, <2>1 DEF Timeouts
  <2>4. call[c].fd = NoFd /\ call[c].op = "sleep" /\ \E d \in deadline : d.of = c
    BY <1>1, <2>1, <2>3 DEF TimesOf
  <2>5. timers' = timers \ {t} /\ ~call[c].own
    BY <1>1, <2>1, <2>4 DEF Resumes, TimesOf
  <2>6. ASSUME NEW u \in timers', u.of = c
        PROVE  u \in timers /\ u.what = "waiter" /\ ~call[c].own /\ \E d \in deadline' : d.of = c
    <3>1. u \in timers /\ u # t
      BY <2>5
    <3>2. u.what = "waiter"
      BY <1>1, <1>2, <2>1, <2>3, <2>6, <3>1 DEF TimesOf
    <3> QED
      BY <2>2, <2>4, <2>5, <3>1, <3>2
  <2>7. ASSUME NEW d \in deadline', d.of = c
        PROVE  Timeout(c, d.left) \in timers' /\ ~call[c].own
    <3>1. Timeout(c, d.left) \in timers /\ Timeout(c, d.left) # t
      BY <1>1, <1>2, <2>2, <2>3, <2>7 DEF TimesOf
    <3> QED
      BY <2>5, <3>1
  <2>8. timers \ {t} \subseteq timers /\ \A u : u.of # c => (u \in timers \ {t} <=> u \in timers)
    BY <2>1
  <2> QED
    BY <1>1, <1>2, <2>1, <2>2, <2>6, <2>7, <2>8, ResumedTimes
<1> QED
  BY <1>3, <1>4, <1>5

LEMMA StartKeepsTimes ==
  ASSUME TimeInv, ThreadsOK, NEW c \in Coroutine, NEW n \in Deadlines \union {0}, Start(c, n)
  PROVE  TimeInv'
<1>1. /\ pc[c] = "new" /\ pc' = [pc EXCEPT ![c] = "body"] /\ UNCHANGED <<over, call, batch>>
      /\ timers' = IF n = 0 THEN timers ELSE timers \union {Timeout(c, n)}
      /\ deadline' = IF n = 0 THEN deadline ELSE deadline \union {[of |-> c, left |-> n]}
  BY DEF Start
<1>2. TimesOf(c, timers, deadline, pc[c], call[c], over[c]) /\ over[c] \in BOOLEAN
  BY DEF TimeInv, TimesOK
<1>3. /\ ~call[c].own /\ c \notin batch
      /\ (\A t \in timers : t.of # c) /\ (\A d \in deadline : d.of # c)
  <2>1. \A d \in deadline : d.of # c
    BY <1>1, <1>2 DEF TimesOf
  <2> QED
    BY <1>1, <2>1, RunsTimed
<1> DEFINE d == [of |-> c, left |-> n]
<1>4. /\ Timeout(c, n) \in Timer /\ Timeout(c, n).of = c /\ Timeout(c, n).what = "waiter"
      /\ d \in [of : Coroutine, left : Int] /\ d.of = c /\ d.left = n
  <2>1. n \in Int
    BY StackfulAssumption DEF StackfulAssumption
  <2> QED
    BY <2>1 DEF Timeout, Timer
<1>5. deadline' = IF n = 0 THEN deadline ELSE deadline \union {d}
  BY <1>1
<1> HIDE DEF d
<1>6. /\ timers' \subseteq Timer /\ deadline' \subseteq [of : Coroutine, left : Int]
      /\ \A t : t.of # c => (t \in timers' <=> t \in timers)
      /\ \A e : e.of # c => (e \in deadline' <=> e \in deadline)
  BY <1>1, <1>4, <1>5 DEF TimeInv, TimesOK, Timer
<1>7. TimesOf(c, timers', deadline', "body", call[c], over[c])
  <2>1. /\ \A t \in timers' : t.of = c => n # 0 /\ t = Timeout(c, n)
        /\ \A e \in deadline' : e.of = c => n # 0 /\ e = d
        /\ n # 0 => Timeout(c, n) \in timers' /\ d \in deadline'
    BY <1>1, <1>3, <1>5
  <2>2. call[c].op = "sleep" => call[c].fd = NoFd
    BY <1>2 DEF TimesOf
  <2> QED
    BY ONLY <1>3, <1>4, <2>1, <2>2 DEF TimesOf
<1>8. call' = [call EXCEPT ![c] = call[c]] /\ over' = [over EXCEPT ![c] = over[c]]
  BY <1>1 DEF ThreadsOK, TimeInv, TimesOK
<1> QED
  BY <1>1, <1>2, <1>3, <1>6, <1>7, <1>8, OneActs

LEMMA FinishKeepsTimes ==
  ASSUME TimeInv, ThreadsOK, NEW c \in Coroutine, Finish(c)
  PROVE  TimeInv'
<1>1. /\ pc[c] = "body" /\ pc' = [pc EXCEPT ![c] = "done"] /\ UNCHANGED <<call, batch>>
      /\ timers' = timers \ Timeouts(c) /\ deadline' = {d \in deadline : d.of # c}
      /\ over' = [over EXCEPT ![c] = FALSE]
  BY DEF Finish, Calls
<1>2. /\ ~call[c].own /\ c \notin batch /\ \A t \in timers : t.of = c => t.what = "waiter"
  BY <1>1, RunsTimed
<1>3. call[c].op = "sleep" => call[c].fd = NoFd
  BY DEF TimeInv, TimesOf
<1>4. /\ \A t : t.of # c => (t \in timers' <=> t \in timers)
      /\ \A d : d.of # c => (d \in deadline' <=> d \in deadline)
      /\ \A t \in timers' : t.of # c
      /\ \A d \in deadline' : d.of # c
  BY <1>1, <1>2 DEF Timeouts
<1>5. timers' \subseteq Timer /\ deadline' \subseteq [of : Coroutine, left : Int]
  BY <1>1 DEF TimeInv, TimesOK, Timer
<1>6. TimesOf(c, timers', deadline', "done", call[c], FALSE)
  BY ONLY <1>2, <1>3, <1>4 DEF TimesOf
<1>7. call' = [call EXCEPT ![c] = call[c]]
  BY <1>1 DEF ThreadsOK
<1> QED
  BY <1>1, <1>2, <1>4, <1>5, <1>6, <1>7, OneActs

(* Time passes for all timeouts and deadlines alike.                       *)
LEMMA ClockKeepsTimes ==
  ASSUME TimeInv, ClockMoves
  PROVE  TimeInv'
<1> DEFINE L(t) == [t EXCEPT !.left = @ - 1]
<1>1. /\ timers' = {L(t) : t \in timers} /\ deadline' = {L(d) : d \in deadline}
      /\ UNCHANGED <<over, pc, call, batch>>
  BY DEF ClockMoves, Later, threads
<1>2. /\ timers \subseteq Timer /\ deadline \subseteq [of : Coroutine, left : Int]
      /\ over \in [Coroutine -> BOOLEAN]
  BY DEF TimeInv, TimesOK, Timer
<1>3. /\ \A t \in timers : L(t) \in Timer /\ L(t).of = t.of /\ L(t).what = t.what /\ L(t).left = t.left - 1
      /\ \A d \in deadline : /\ L(d) \in [of : Coroutine, left : Int]
                              /\ L(d).of = d.of /\ L(d).left = d.left - 1
  BY <1>2 DEF Timer
<1>4. ASSUME NEW c \in Coroutine, NEW d \in deadline
      PROVE  L(Timeout(c, d.left)) = Timeout(c, L(d).left)
  BY <1>3 DEF Timeout
<1> HIDE DEF L
<1>5. TimesOK'
  BY <1>1, <1>2, <1>3 DEF TimesOK, Timer
<1>6. ASSUME NEW c \in Coroutine
      PROVE  TimesOf(c, timers', deadline', pc[c], call[c], over[c])
  <2>1. TimesOf(c, timers, deadline, pc[c], call[c], over[c])
    BY DEF TimeInv
  <2>2. \A t, u \in timers' : t.of = c /\ u.of = c /\ t.what = u.what => t = u
    BY <1>1, <1>3, <2>1 DEF TimesOf
  <2>3. \A d, e \in deadline' : d.of = c /\ e.of = c => d = e
    BY <1>1, <1>3, <2>1 DEF TimesOf
  <2>4. \A d \in deadline' : d.of = c =>
          Timeout(c, d.left) \in timers' /\ pc[c] \notin {"new", "done"} /\ ~call[c].own
    <3>1. ASSUME NEW d \in deadline, L(d).of = c
          PROVE  Timeout(c, L(d).left) \in timers' /\ pc[c] \notin {"new", "done"} /\ ~call[c].own
      <4>1. Timeout(c, d.left) \in timers /\ pc[c] \notin {"new", "done"} /\ ~call[c].own
        BY <1>3, <2>1, <3>1 DEF TimesOf
      <4> QED
        BY <1>1, <1>4, <4>1
    <3> QED
      BY <1>1, <3>1
  <2>5. \A t \in timers' : t.of = c =>
          IF t.what = "waiter" THEN call[c].own \/ \E d \in deadline' : d.of = c
          ELSE /\ pc[c] = "yielded" /\ call[c].op = "sleep"
               /\ \E d \in deadline' : d.of = c /\ t.left < d.left
    <3>1. ASSUME NEW t \in timers, L(t).of = c, L(t).what = "waiter"
          PROVE  call[c].own \/ \E d \in deadline' : d.of = c
      BY <1>1, <1>3, <2>1, <3>1 DEF TimesOf
    <3>2. ASSUME NEW t \in timers, L(t).of = c, L(t).what # "waiter"
          PROVE  /\ pc[c] = "yielded" /\ call[c].op = "sleep"
                 /\ \E d \in deadline' : d.of = c /\ L(t).left < d.left
      <4>1. PICK d \in deadline : pc[c] = "yielded" /\ call[c].op = "sleep" /\ d.of = c /\ t.left < d.left
        BY <1>3, <2>1, <3>2 DEF TimesOf
      <4>2. L(d) \in deadline' /\ L(d).of = c /\ L(t).left < L(d).left
        BY <1>1, <1>2, <1>3, <4>1 DEF Timer
      <4> QED
        BY <4>1, <4>2
    <3> QED
      BY <1>1, <3>1, <3>2
  <2>6. /\ call[c].own => pc[c] = "yielded"
        /\ call[c].op = "sleep" => call[c].fd = NoFd
        /\ pc[c] = "yielded" /\ call[c].fd \in Fd => ~over[c]
    BY <2>1 DEF TimesOf
  <2> QED
    BY <2>2, <2>3, <2>4, <2>5, <2>6 DEF TimesOf
<1> QED
  BY <1>1, <1>5, <1>6 DEF TimeInv

LEMMA InitTimes == Init => TimeInv
<1> SUFFICES ASSUME Init PROVE TimeInv
  OBVIOUS
<1>1. /\ timers = {} /\ deadline = {} /\ batch = {} /\ over = [c \in Coroutine |-> FALSE]
      /\ \A c \in Coroutine : pc[c] = "new" /\ call[c] = NoCall
      /\ ~NoCall.own /\ NoCall.op # "sleep"
  BY DEF Init, NoCall
<1>2. \A c \in Coroutine : TimesOf(c, {}, {}, "new", NoCall, FALSE)
  BY <1>1 DEF TimesOf
<1> QED
  BY <1>1, <1>2 DEF TimeInv, TimesOK

LEMMA NextKeepsTimes ==
  ASSUME ~Ties, WaitInv, TablesOK, TimeInv, [Next]_vars
  PROVE  TimeInv'
<1>1. ThreadsOK
  BY DEF WaitInv
<1>2. CASE UNCHANGED vars
  BY <1>2, NothingTimed DEF vars, times
<1>3. CASE ClockMoves
  BY <1>3, ClockKeepsTimes
<1>4. CASE Poll
  <2>1. PICK S \in SUBSET {w[2] : w \in watched} : batch' = S
    BY <1>4 DEF Poll
  <2>2. UNCHANGED <<times, pc, call>>
    BY <1>4 DEF Poll
  <2>3. \A c \in S : c \in Coroutine /\ pc[c] = "yielded" /\ call[c].fd \in Fd
    BY DEF WaitInv, WatchedExact
  <2> QED
    BY <2>1, <2>2, <2>3 DEF TimeInv, TimesOK, times
<1>5. ASSUME NEW c \in Coroutine, NEW n \in Deadlines \union {0}, Start(c, n) PROVE TimeInv'
  BY <1>1, <1>5, StartKeepsTimes
<1>6. ASSUME NEW c \in Coroutine, Descriptors(c) PROVE TimeInv'
  <2>1. CASE UNCHANGED <<times, threads>>
    BY <2>1, NothingTimed DEF threads
  <2>2. ASSUME NEW f \in Fd, NEW g \in Fd, Accepts(c, f, g) PROVE TimeInv'
    <3>1. /\ pc[c] \in {"body", "try"} /\ pc' = [pc EXCEPT ![c] = "body"]
          /\ call' = [call EXCEPT ![c] = NoCall]
          /\ timers' = timers /\ over' = over /\ deadline' = deadline /\ batch' = batch
      BY <2>2 DEF Accepts, Begins, Calls, times
    <3> QED
      BY <1>1, <3>1, BodyKeepsTimes
  <2> QED
    BY <1>6, <2>1, <2>2 DEF Descriptors, Socket, Close, SetBlocking, SetSockOpt, Dup, Dup2
<1>7. ASSUME NEW c \in Coroutine, Waits(c) PROVE TimeInv'
  BY <1>1, <1>7, WaitsKeepTimes
<1>8. ASSUME NEW c \in Coroutine, Returns(c) PROVE TimeInv'
  <2>1. /\ pc[c] \in {"body", "try"} /\ pc' = [pc EXCEPT ![c] = "body"]
        /\ call' = [call EXCEPT ![c] = NoCall]
        /\ timers' = timers /\ over' = over /\ deadline' = deadline /\ batch' = batch
    BY <1>8 DEF Returns, times
  <2> QED
    BY <1>1, <2>1, BodyKeepsTimes
<1>9. ASSUME NEW c \in Coroutine, Finish(c) PROVE TimeInv'
  BY <1>1, <1>9, FinishKeepsTimes
<1>10. ASSUME NEW c \in Coroutine, ResumeOnPoll(c) \/ ResumeOnTimeout(c) \/ SleeperEnds(c)
       PROVE  TimeInv'
  BY <1>1, <1>10, ResumesKeepTimes
<1> QED
  BY <1>2, <1>3, <1>4, <1>5, <1>6, <1>7, <1>8, <1>9, <1>10 DEF Next

(* A deadline that the program sets for a coroutine is neither postponed   *)
(* nor dropped by the calls that it makes, and no timeout of a call        *)
(* survives it, unless the coroutine sleeps until its own deadline to the  *)
(* millisecond (new_timeout in every hook).                                *)
THEOREM DeadlineHolds ==
  ASSUME ~Ties
  PROVE  Spec => []DeadlineKept
<1>1. ASSUME TimeInv, NEW c \in Coroutine
      PROVE  LET D == {d \in deadline : d.of = c} IN
             IF D # {} THEN Timeouts(c) = {Timeout(c, d.left) : d \in D}
             ELSE IsSetTimeout(c) => pc[c] = "yielded" /\ call[c].own
  <2>1. TimesOf(c, timers, deadline, pc[c], call[c], over[c])
    BY <1>1 DEF TimeInv
  <2>2. \A n : Timeout(c, n).of = c /\ Timeout(c, n).what = "waiter"
    BY DEF Timeout
  <2>3. ASSUME NEW e \in deadline, e.of = c
        PROVE  Timeouts(c) = {Timeout(c, d.left) : d \in {d \in deadline : d.of = c}}
    <3>1. Timeout(c, e.left) \in timers /\ {d \in deadline : d.of = c} = {e}
      BY <2>1, <2>3 DEF TimesOf
    <3>2. \A t : t \in Timeouts(c) <=> t = Timeout(c, e.left)
      BY <2>1, <2>2, <3>1 DEF TimesOf, Timeouts
    <3> QED
      BY <3>1, <3>2
  <2>4. ASSUME \A d \in deadline : d.of # c, IsSetTimeout(c)
        PROVE  pc[c] = "yielded" /\ call[c].own
    BY <2>1, <2>4 DEF TimesOf, IsSetTimeout, Timeouts
  <2> QED
    BY <2>3, <2>4
<1>2. TimeInv => DeadlineKept
  BY <1>1 DEF DeadlineKept
<1>3. TableInv => TablesOK
  BY DEF TableInv
<1>4. WaitInv /\ TableInv /\ TimeInv /\ [Next]_vars => TimeInv'
  BY <1>3, NextKeepsTimes
<1> QED
  BY <1>2, <1>4, InitTimes, InitTable, NextKeepsTable, WaitsHold, PTL DEF Spec
=============================================================================
