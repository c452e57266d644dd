----------------------------- MODULE TcpListener ------------------------------
(***************************************************************************)
(* cort_tcp_listener and cort_tcp_server_waiter: one coroutine accepts     *)
(* connections in batches and starts a ctrler for each; a ctrler that is   *)
(* done may leave its connection to wait for the next request, with a      *)
(* keep-alive timeout, and whichever comes first, request or timeout,      *)
(* starts a new ctrler or closes the connection.  The ctrlers run inside   *)
(* the listener when they are started, and may end there and stop it.      *)
(* What a ctrler does with its connection is the business of TcpConnection.*)
(***************************************************************************)
EXTENDS Integers, Sequences, FiniteSets, SequencesExt

CONSTANTS
  Conn,        \* the clients, each with one connection at a time
  MaxFiles,    \* how many connections the process may have open
  BatchSize    \* max_accept_one_loop

ASSUME ListenerAssumption ==
  /\ IsFiniteSet(Conn)
  /\ MaxFiles \in Nat /\ BatchSize \in Nat \ {0}

VARIABLES
  at,        \* where the listener is in start()
  listening, \* its socket is open
  polled,    \* what it asks of epoll: "in", "out" or nothing
  signalled, \* its poll_result has EPOLLIN
  errno,     \* why the last round of accepts ended
  accepted,  \* accept_result: the connections that wait for their ctrler
  backlog,   \* the connections that wait in the kernel
  open,      \* the connections with an fd in this process
  served,    \* those that a ctrler holds
  waiter,    \* the cort_tcp_server_waiter of a connection
  stopped    \* the program has called stop_listen()

listener == <<at, listening, polled, signalled, errno, stopped>>
conns == <<backlog, open>>
vars == <<at, listening, polled, signalled, errno, accepted, backlog, open,
          served, waiter, stopped>>

Event == {"in", "rdhup", "err"}
Deleted == [ref |-> 0, kept |-> FALSE, timer |-> FALSE]
IsAlive(c) == waiter[c].ref > 0

(* add_ref() and remove_ref()                                              *)
Refs(r, n) == [ref |-> r.ref + n, kept |-> r.kept, timer |-> r.timer]

TypeOK ==
  /\ at \in {"new", "yield", "accept", "create", "sleep", "finished", "failed"}
  /\ listening \in BOOLEAN /\ signalled \in BOOLEAN /\ stopped \in BOOLEAN
  /\ polled \in {"none", "in", "out"}
  /\ errno \in {"none", "again", "full"}
  /\ accepted \in Seq(Conn) /\ Len(accepted) <= BatchSize
  /\ backlog \subseteq Conn /\ open \subseteq Conn /\ served \subseteq Conn
  /\ waiter \in [Conn -> [ref : 0 .. 2, kept : BOOLEAN, timer : BOOLEAN]]

Init ==
  /\ at = "new"
  /\ listening = FALSE /\ polled = "none" /\ signalled = FALSE
  /\ errno = "none" /\ accepted = << >>
  /\ backlog = {} /\ open = {} /\ served = {}
  /\ waiter = [c \in Conn |-> Deleted]
  /\ stopped = FALSE

------------------------------------------------------------------------------
(* The listener.                                                           *)

(* set_poll_request(), which forgets the result of the last poll.          *)
Request(what) ==
  /\ signalled' = FALSE
  /\ polled' = IF listening THEN what ELSE polled

(* close_cort_fd(): the kernel resets the connections of the backlog.      *)
ListenClosed ==
  /\ listening' = FALSE /\ polled' = "none" /\ signalled' = FALSE
  /\ backlog' = {}

Start ==
  /\ at = "new"
  /\ at' = "yield"
  /\ listening' = TRUE /\ polled' = "in" /\ signalled' = FALSE
  /\ UNCHANGED <<errno, accepted, conns, served, waiter, stopped>>

(* listen_connect() fails: a socket, its options, its address or listen(). *)
StartFails ==
  /\ at = "new"
  /\ at' = "failed"
  /\ UNCHANGED <<listening, polled, signalled, errno, accepted, conns, served,
                 waiter, stopped>>

(* resume_on_poll()                                                        *)
Wake ==
  /\ at = "yield" /\ listening /\ polled = "in" /\ backlog # {}
  /\ at' = "accept" /\ signalled' = TRUE /\ errno' = "none"
  /\ UNCHANGED <<listening, polled, accepted, conns, served, waiter, stopped>>

Full == Cardinality(open) >= MaxFiles

(* The loop of accept4() goes on while its array has room.                 *)
HasRoom == at = "accept" /\ Len(accepted) < BatchSize

AcceptOne ==
  /\ HasRoom /\ listening /\ ~Full
  /\ \E c \in backlog :
       /\ backlog' = backlog \ {c}
       /\ open' = open \union {c}
       /\ accepted' = Append(accepted, c)
  /\ UNCHANGED <<listener, served, waiter>>

(* It ends: the array is full or a signal came, nobody waits (or a ctrler  *)
(* has stopped the listener, whose fd the local variable still names), or  *)
(* the process has no fd left.                                             *)
AcceptEnds ==
  /\ at = "accept"
  /\ \/ errno' = "none" /\ accepted # << >>
     \/ errno' = "again" /\ HasRoom /\ (listening => backlog = {})
     \/ errno' = "full" /\ HasRoom /\ Full /\ backlog # {}
  /\ at' = "create"
  /\ UNCHANGED <<listening, polled, signalled, accepted, conns, served, waiter, stopped>>

MOnlyLast(s) == << >>
Others(s) == Front(s)

(* ctrler_creator() with a new waiter, for the last connection first.      *)
Create ==
  /\ at = "create" /\ accepted # << >>
  /\ LET c == Last(accepted) IN
     /\ waiter' = [waiter EXCEPT ![c] = Refs(Deleted, 1)]
     /\ served' = served \union {c}
  /\ accepted' = Others(accepted)
  /\ UNCHANGED <<listener, conns>>

Created == at = "create" /\ accepted = << >>

AcceptAgain ==
  /\ Created /\ errno = "none"
  /\ at' = "accept"
  /\ UNCHANGED <<listening, polled, signalled, errno, accepted, conns, served,
                 waiter, stopped>>

(* CO_AGAIN                                                                *)
WaitAgain ==
  /\ Created /\ errno = "again"
  /\ at' = "yield"
  /\ UNCHANGED <<listening, polled, signalled, errno, accepted, conns, served, waiter, stopped>>

(* pause_accept(), and a cort_sleeper                                      *)
Pause ==
  /\ Created /\ errno = "full"
  /\ at' = "sleep"
  /\ Request("out")
  /\ UNCHANGED <<listening, errno, accepted, conns, served, waiter, stopped>>

(* resume_accept(), and back to the code after the first resume point: it  *)
(* looks for the event that woke it in poll_result, which resume_accept()  *)
(* has just cleared, and without one stops to listen and returns.          *)
SleepEnds ==
  /\ at = "sleep"
  /\ at' = "finished"
  /\ ListenClosed
  /\ UNCHANGED <<errno, accepted, open, served, waiter, stopped>>

------------------------------------------------------------------------------
(* The program, its clients and its ctrlers.                               *)

InLoop == at \notin {"accept", "create"}

Arrive(c) ==
  /\ listening /\ c \notin backlog \union open
  /\ backlog' = backlog \union {c}
  /\ UNCHANGED <<listener, accepted, open, served, waiter>>

(* stop_listen(), from a coroutine of the loop or from a ctrler that the   *)
(* listener is just starting.                                              *)
StopListen ==
  /\ at \notin {"new", "accept"} /\ ~stopped
  /\ stopped' = TRUE
  /\ ListenClosed
  /\ UNCHANGED <<at, errno, accepted, open, served, waiter>>

MUntimed(r) == [ref |-> r.ref + 1, kept |-> TRUE, timer |-> r.timer]
(* keep_alive() of the waiter                                              *)
KeptAlive(r) == [ref |-> r.ref + 1, kept |-> TRUE, timer |-> TRUE]

(* release(): the last reference deletes the waiter and closes the fd.     *)
Release(c, r) ==
  /\ waiter' = [waiter EXCEPT ![c] = IF r.ref <= 1 THEN Deleted ELSE Refs(r, -1)]
  /\ open' = IF r.ref <= 1 THEN open \ {c} ELSE open

(* A ctrler is done with its connection for good, or until the next        *)
(* request.                                                                *)
CtrlerEnds(c, keep) ==
  /\ c \in served /\ at # "accept"
  /\ served' = served \ {c}
  /\ Release(c, IF keep THEN KeptAlive(waiter[c]) ELSE waiter[c])
  /\ UNCHANGED <<listener, accepted, backlog>>

MStillCounted(r) == [ref |-> r.ref, kept |-> FALSE, timer |-> FALSE]
MStillTimed(r) == [ref |-> r.ref - 1, kept |-> FALSE, timer |-> r.timer]
(* clear(), which ends the timeout, and remove_ref()                       *)
Reused(r) == [ref |-> r.ref - 1, kept |-> FALSE, timer |-> FALSE]

(* The connection hung up or failed.                                       *)
Broken(events) == events \intersect {"rdhup", "err"} # {}

(* An event of a kept connection: a ctrler for the next request, or the    *)
(* end.                                                                    *)
KeptEvent(c, events) ==
  /\ InLoop /\ waiter[c].kept
  /\ IF Broken(events)
       THEN Release(c, waiter[c]) /\ UNCHANGED served
       ELSE /\ waiter' = [waiter EXCEPT ![c] = Refs(Reused(@), 1)]
            /\ served' = served \union {c}
            /\ UNCHANGED open
  /\ UNCHANGED <<listener, accepted, backlog>>

(* Its timeout: poll_result is 0.                                          *)
KeptTimeout(c) ==
  /\ InLoop /\ waiter[c].kept /\ waiter[c].timer
  /\ Release(c, waiter[c])
  /\ UNCHANGED <<listener, accepted, backlog, served>>

Listens ==
  \/ Start \/ StartFails \/ Wake \/ AcceptOne \/ AcceptEnds \/ Create
  \/ AcceptAgain \/ WaitAgain \/ Pause \/ SleepEnds

Next ==
  \/ Listens \/ StopListen
  \/ \E c \in Conn :
       \/ Arrive(c) \/ KeptTimeout(c)
       \/ \E keep \in BOOLEAN : CtrlerEnds(c, keep)
       \/ \E events \in SUBSET Event \ {{}} : KeptEvent(c, events)

Spec == Init /\ [][Next]_vars

(* The loop goes on, time passes, and every ctrler ends.                   *)
FairSpec ==
  /\ Spec
  /\ WF_vars(Listens)
  /\ \A c \in Conn :
       SF_vars(KeptTimeout(c)) /\ WF_vars(\E keep \in BOOLEAN : CtrlerEnds(c, keep))

------------------------------------------------------------------------------
(* Properties.                                                             *)

(* The files of the process are the connections that wait for their ctrler *)
(* and those whose waiter lives, and none is both: no fd leaks, and none   *)
(* is closed under a connection that still waits for its ctrler, however   *)
(* batches, requests and timeouts are interleaved.                         *)
FilesExact ==
  /\ open = Range(accepted) \union {c \in Conn : IsAlive(c)}
  /\ \A c \in Range(accepted) : ~IsAlive(c)

(* A waiter has one reference for the ctrler that holds it or for its      *)
(* keep-alive, and none when it is deleted: it is not deleted in use       *)
(* (add_ref, keep_alive, remove_keep_alive, release).                      *)
RefsExact ==
  \A c \in Conn :
    waiter[c].ref = (IF c \in served THEN 1 ELSE 0) + (IF waiter[c].kept THEN 1 ELSE 0)

(* A connection in service has no keep-alive timeout left that would close *)
(* it in the middle of a request (remove_keep_alive, clear), and one that  *)
(* is kept is not in service.                                              *)
ServedUntimed ==
  \A c \in served : ~waiter[c].timer /\ ~waiter[c].kept

(* A connection that is kept alive is used again or closed in the end, if  *)
(* the listener returns to the loop again and again: as long as clients    *)
(* arrive faster than it accepts them, start() does not.                   *)
KeptLeaves ==
  []<>InLoop => \A c \in Conn : waiter[c].kept ~> ~waiter[c].kept

(* Once it listens, the listener ends only when the program stops it, as   *)
(* the comment of set_timeout has it.                                      *)
EndsOnlyWhenStopped == at = "finished" => stopped

------------------------------------------------------------------------------
(* What the proof of the invariants needs besides them.                    *)

(* A client has one connection: in the backlog, or open, and then at most  *)
(* once among those that wait for their ctrler.                            *)
OneConnection ==
  /\ backlog \intersect open = {}
  /\ IsInjective(accepted)

IInv ==
  /\ TypeOK
  /\ FilesExact
  /\ RefsExact
  /\ ServedUntimed
  /\ OneConnection
=============================================================================
