---------------------------- MODULE TcpConnection ----------------------------
(***************************************************************************)
(* cort_tcp_ctrler and cort_tcp_connection_waiter_client: coroutines of    *)
(* one thread that connect, send and receive over connections, which are   *)
(* counted by reference and, when an exchange is over, wait in a pool for  *)
(* the next one.  A connection is a coroutine that the fd and the timeout  *)
(* it waits for resume; between two operations of its ctrler, and in the   *)
(* pool, its callback is another one, and an event may come at any time.   *)
(* The connections here have the same address, so the pool is one vector.  *)
(* Bytes to send are numbered from 1; those received are only counted.     *)
(* How the loop dispatches the events is the business of FdPoll.           *)
(***************************************************************************)
EXTENDS Integers, Sequences, FiniteSets, SequencesExt, FiniteSetsExt

CONSTANTS
  Ctrler,       \* the cort_tcp_ctrlers
  Keepers,      \* those with a keep_alive_ms above 0
  Conn,         \* bound: the connection objects
  None,         \* the null pointer
  InitSize,     \* default_init_recv_buffer_size
  AutoRelease,  \* SOCKET_KEEPALIVE_AUTO_RELEASE_COUNT
  Loads         \* bounds: which ctrlers run, how many bytes each of them
                \* sends and receives in an exchange, and whether its
                \* operations have a timeout

ASSUME TcpAssumption ==
  /\ Keepers \subseteq Ctrler
  /\ None \notin Ctrler \union Conn
  /\ InitSize \in Nat \ {0} /\ AutoRelease \in Nat
  /\ Loads \subseteq 
       [ctrlers : SUBSET Ctrler, bytes : Nat, reply : Nat, timed : BOOLEAN]

VARIABLES
  load,     \* the bounds of this behaviour
  conn,     \* the connection objects
  pool,     \* connection_tcp_pool of the address
  held,     \* the connection_waiter of a ctrler
  awaits,   \* the operation that a ctrler awaits
  errnum,   \* its last error: which one does not matter here
  timeout,  \* it has a timeout for its next operation
  send,     \* send_data and send_data_tag
  queued,   \* how many bytes were put into the send buffer
  sent,     \* the bytes that the kernel took
  blocks,   \* the memory blocks of the send buffer, by their first byte
  recv,     \* recv_buffer_size, 0 for no buffer, recved_size and
            \* recv_check_further_needed
  busy      \* the connection that is about to call recv()

output == <<send, queued, sent, blocks>>
ctrlers == <<held, awaits, errnum, timeout>>
vars == <<load, conn, pool, held, awaits, errnum, timeout, send, queued, sent,
          blocks, recv, busy>>

Slot == 1 .. 3                        \* max_send_queue_size
Null == [base |-> 0, len |-> 0, tag |-> 0]
Weak == -1                            \* a tag with its sign bit
Deleted == [ref |-> 0, parent |-> None, fd |-> FALSE, poll |-> {}, result |-> {},
            timer |-> FALSE, over |-> FALSE, call |-> "none", pos |-> 0]
Created == [Deleted EXCEPT !.ref = 1]

Event == {"in", "out", "rdhup", "hup"}
Operation == {"connect", "send", "recv"}
Callback == Operation \union {"none", "stop_poll", "pooled", "release"}
MaxBytes == Max({l.bytes : l \in Loads} \union {0})
MaxReply == Max({l.reply : l \in Loads} \union {InitSize})

TypeOK ==
  /\ load \in Loads
  /\ conn \in [Conn -> [ref : 0 .. 2, parent : Ctrler \union {None}, fd : BOOLEAN,
                        poll : SUBSET {"in", "out"}, result : SUBSET Event,
                        timer : BOOLEAN, over : BOOLEAN, call : Callback,
                        pos : 0 .. Cardinality(Conn)]]
  /\ pool \in Seq(Conn) /\ Len(pool) <= Cardinality(Conn)
  /\ held \in [Ctrler -> Conn \union {None}]
  /\ awaits \in [Ctrler -> Operation \union {"none"}]
  /\ errnum \in [Ctrler -> {"ok", "error"}]
  /\ timeout \in [Ctrler -> BOOLEAN]
  /\ send \in [Ctrler -> [Slot -> [base : 0 .. MaxBytes, len : 0 .. MaxBytes,
                                   tag : Weak .. MaxBytes]]]
  /\ queued \in [Ctrler -> 0 .. MaxBytes]
  /\ sent \in [Ctrler -> Seq(1 .. MaxBytes)]
  /\ blocks \in [Ctrler -> SUBSET (1 .. MaxBytes)]
  /\ recv \in [Ctrler -> [size : 0 .. 2 * MaxReply, recved : 0 .. MaxReply,
                          further : BOOLEAN]]
  /\ busy \in Conn \union {None}

Init ==
  /\ load \in Loads
  /\ conn = [c \in Conn |-> Deleted] /\ pool = << >>
  /\ held = [t \in Ctrler |-> None]
  /\ awaits = [t \in Ctrler |-> "none"]
  /\ errnum = [t \in Ctrler |-> "ok"]
  /\ timeout = [t \in Ctrler |-> FALSE]
  /\ send = [t \in Ctrler |-> [i \in Slot |-> Null]]
  /\ queued = [t \in Ctrler |-> 0]
  /\ sent = [t \in Ctrler |-> << >>]
  /\ blocks = [t \in Ctrler |-> {}]
  /\ recv = [t \in Ctrler |-> [size |-> 0, recved |-> 0, further |-> FALSE]]
  /\ busy = None

------------------------------------------------------------------------------
(* What the functions of a connection make of it.                          *)

(* close_cort_fd()                                                         *)
Closed(r) == [r EXCEPT !.fd = FALSE, !.poll = {}, !.result = {}]

(* close_connection(), whose set_errno() clears the timeout as well        *)
Disconnected(r) == [Closed(r) EXCEPT !.timer = FALSE]

MStaleResult(r, events) == [r EXCEPT !.poll = IF r.fd THEN events ELSE @]
(* set_poll_request()                                                      *)
Polling(r, events) ==
  [r EXCEPT !.result = {}, !.poll = IF r.fd THEN events ELSE @]

(* set_timeout(), when the ctrler has one for this operation               *)
Timed(r, t) ==
  IF timeout[t] THEN [r EXCEPT !.timer = TRUE, !.over = FALSE] ELSE r

(* on_finish(): the operation is over, the connection is not.              *)
Finished(r) ==
  [r EXCEPT !.result = {}, !.call = "stop_poll", !.poll = @ \ {"out"}]

(* release(), which deletes an object with one reference                   *)
Released(r) == IF r.ref <= 1 THEN Deleted ELSE [r EXCEPT !.ref = @ - 1]

(* The operation of t on c ends with connection r, and with an error or    *)
(* with errnum as it was.                                                  *)
Ends(t, c, r, err) ==
  /\ conn' = [conn EXCEPT ![c] = Finished(r)]
  /\ awaits' = [awaits EXCEPT ![t] = "none"]
  /\ errnum' = [errnum EXCEPT ![t] = err]

Fails(t, c, r) == Ends(t, c, Disconnected(r), "error")

(* CO_YIELD or CO_AGAIN: t awaits c, which is to go on with op.            *)
Waits(t, c, r, op) ==
  /\ conn' = [conn EXCEPT ![c] = [r EXCEPT !.call = op, !.parent = t]]
  /\ awaits' = [awaits EXCEPT ![t] = op]
  /\ UNCHANGED errnum

Quiet == busy = None
Idle(t) == Quiet /\ t \in load.ctrlers /\ awaits[t] = "none"
TimeoutUsed(t) == timeout' = [timeout EXCEPT ![t] = FALSE]

------------------------------------------------------------------------------
(* The pool.                                                               *)

MNoTimeout(r, pos) ==
  [r EXCEPT !.over = FALSE, !.call = "pooled", !.parent = None, !.poll = {"in"},
            !.result = {}, !.pos = pos]
(* keep_alive() adds a reference for the pool, and connection_waiter.clear()*)
(* takes back the one of the ctrler.                                       *)
KeptAlive(r, pos) ==
  [r EXCEPT !.timer = TRUE, !.over = FALSE, !.call = "pooled", !.parent = None,
            !.poll = {"in"}, !.result = {}, !.pos = pos]

(* The last n of the pool are closed, out of it, and deleted when their    *)
(* timeout comes: clear_keep_alive_connection().                           *)
Dropped(p, n) == ToSet(SubSeq(p, Len(p) - n + 1, Len(p)))
Kept(p, n) == SubSeq(p, 1, Len(p) - n)
OutOfPool(r) == [Closed(r) EXCEPT !.call = "release", !.pos = 0]

MSamePos(c) == conn
(* The last of the pool takes the place of c: remove_keep_alive().         *)
Moved(c) == [conn EXCEPT ![Last(pool)].pos = conn[c].pos]
RemoveKeepAlive(c) ==
  /\ conn' = [Moved(c) EXCEPT ![c] = Released(Moved(c)[c])]
  /\ pool' = Front([pool EXCEPT ![conn[c].pos + 1] = Last(pool)])

ClearKeepAlive ==
  /\ Quiet /\ pool # << >>
  /\ \E n \in 1 .. Len(pool) :
       /\ conn' = [c \in Conn |-> IF c \in Dropped(pool, n) THEN OutOfPool(conn[c])
                                  ELSE conn[c]]
       /\ pool' = Kept(pool, n)
  /\ UNCHANGED <<load, ctrlers, output, recv, busy>>

------------------------------------------------------------------------------
(* Connecting.                                                             *)

(* on_connection_inactive() keeps a connection for which this holds.       *)
Keeps(t) == t \in Keepers /\ errnum[t] = "ok" /\ conn[held[t]].fd

MExtraRef(r) ==
  [r EXCEPT !.timer = FALSE, !.over = FALSE, !.pos = 0, !.ref = @ + 1]
(* get_keep_alive_connection_client() clears the connection and gives the  *)
(* reference of the pool to the ctrler.                                    *)
TakenBack(r) == [r EXCEPT !.timer = FALSE, !.over = FALSE, !.pos = 0]

FromPool(t) == held[t] = None /\ t \in Keepers /\ pool # << >>

(* lock_waiter(): the connection of t, that of the pool or a new one       *)
Locked(t) ==
  IF held[t] # None THEN held[t]
  ELSE IF FromPool(t) THEN Last(pool)
  ELSE CHOOSE c \in Conn : conn[c] = Deleted
LockedConn(t) ==
  LET c == Locked(t) IN
  [(IF held[t] # None THEN conn[c]
    ELSE IF FromPool(t) THEN TakenBack(conn[c]) ELSE Created)
   EXCEPT !.parent = t]

(* try_connect() on a connection that is there already                     *)
ConnectAgain(t) ==
  LET c == Locked(t)  r == LockedConn(t) IN
  /\ r.fd
  /\ Ends(t, c, r, errnum[t])
  /\ pool' = IF FromPool(t) THEN Front(pool) ELSE pool
  /\ UNCHANGED timeout

(* connect() succeeds at once or is in progress.                           *)
ConnectNew(t) ==
  LET c == Locked(t)  r == [Timed(LockedConn(t), t) EXCEPT !.fd = TRUE] IN
  /\ ~LockedConn(t).fd
  /\ \/ Ends(t, c, r, errnum[t])
     \/ Waits(t, c, Polling(r, {"in", "out"}), "connect")
  /\ TimeoutUsed(t)
  /\ UNCHANGED pool

(* There is no socket, or connect() fails, and if that is because all the  *)
(* local ports are taken, some connections of the pool are given up.       *)
ConnectFails(t) ==
  LET c == Locked(t)
      r == [LockedConn(t) EXCEPT !.timer = FALSE, !.over = @ /\ ~timeout[t]]
  IN
  /\ ~LockedConn(t).fd
  /\ \E n \in {0, Min({AutoRelease, Len(pool)})} :
       /\ conn' = [d \in Conn |-> IF d = c THEN Finished(r)
                                  ELSE IF d \in Dropped(pool, n) THEN OutOfPool(conn[d])
                                  ELSE conn[d]]
       /\ pool' = Kept(pool, n)
  /\ errnum' = [errnum EXCEPT ![t] = "error"]
  /\ TimeoutUsed(t)
  /\ UNCHANGED awaits

Connect(t) ==
  /\ Idle(t)
  /\ held[t] # None \/ FromPool(t) \/ Deleted \in {conn[c] : c \in Conn}
  /\ held' = [held EXCEPT ![t] = Locked(t)]
  /\ ConnectAgain(t) \/ ConnectNew(t) \/ ConnectFails(t)
  /\ UNCHANGED <<load, output, recv, busy>>

(* The rest of try_connect(), when the connection r has been resumed       *)
RunConnect(t, c, r) ==
  /\ IF r.over \/ {"hup", "rdhup"} \intersect r.result # {} \/ "out" \notin r.result
       THEN Fails(t, c, r)
     ELSE Ends(t, c, r, errnum[t])
  /\ UNCHANGED <<timeout, output, recv, busy>>

------------------------------------------------------------------------------
(* Sending.                                                                *)

(* get_free_index(), as the number of slots in use                         *)
InUse(s) == Min({i \in 0 .. 3 : i = 3 \/ s[i + 1].base = 0})
Bytes(slot) == [k \in 1 .. slot.len |-> slot.base + k - 1]
Pending(s) == FlattenSeq([i \in 1 .. InUse(s) |-> Bytes(s[i])])

MUnended(s, i, slot) == [s EXCEPT ![i] = slot]
(* A slot is filled and the next one emptied, which ends the array.        *)
Filled(s, i, slot) ==
  [j \in Slot |-> IF j = i THEN slot ELSE IF j = i + 1 THEN Null ELSE s[j]]

(* set_send_buffer(), alloc_send_buffer() and copy_send_buffer()           *)
AddSegment(t, len, strong) ==
  /\ Quiet /\ t \in load.ctrlers
  /\ queued[t] + len <= load.bytes /\ InUse(send[t]) < 3
  /\ send' = [send EXCEPT ![t] =
       Filled(@, InUse(@) + 1, [base |-> queued[t] + 1, len |-> len,
                                tag |-> IF strong THEN 0 ELSE Weak])]
  /\ queued' = [queued EXCEPT ![t] = @ + len]
  /\ blocks' = [blocks EXCEPT ![t] = IF strong THEN @ \union {queued[t] + 1} ELSE @]
  /\ UNCHANGED <<load, conn, pool, ctrlers, sent, recv, busy>>

MSameTag(slot, n) == [slot EXCEPT !.base = @ + n, !.len = @ - n]
(* What is left of a slot when its first n bytes are gone                  *)
Cut(slot, n) ==
  [base |-> slot.base + n, len |-> slot.len - n,
   tag |-> IF slot.tag = Weak THEN Weak ELSE slot.tag + n]

(* The slots that are sent when the kernel takes n bytes, and what free()  *)
(* is called with for them.                                                *)
Before(s, i) == Len(FlattenSeq([j \in 1 .. i |-> Bytes(s[j])]))
Done(s, n) == {i \in 1 .. InUse(s) : Before(s, i) <= n}
Freed(s, n) == {s[i].base - s[i].tag : i \in {j \in Done(s, n) : s[j].tag # Weak}}

(* The array afterwards: the slot that is sent in part moves to the front  *)
(* with those behind it, and the array ends after them; what is behind     *)
(* that end stays.                                                         *)
AfterSend(s, n) ==
  LET d == Cardinality(Done(s, n))
      u == InUse(s)
      left == [i \in Slot |->
                 IF i <= d THEN Null
                 ELSE IF i = d + 1 /\ d < u THEN Cut(s[i], n - Before(s, d))
                 ELSE s[i]]
  IN IF d = 0 \/ d = u THEN left
     ELSE [i \in Slot |-> IF i <= u - d THEN left[i + d]
                          ELSE IF i = u - d + 1 THEN Null ELSE left[i]]

(* send() or writev() takes n bytes; EAGAIN takes none.                    *)
Transmit(t, c, r, n) ==
  /\ send' = [send EXCEPT ![t] = AfterSend(@, n)]
  /\ sent' = [sent EXCEPT ![t] = @ \o SubSeq(Pending(send[t]), 1, n)]
  /\ blocks' = [blocks EXCEPT ![t] = @ \ Freed(send[t], n)]
  /\ IF n = Len(Pending(send[t])) THEN Ends(t, c, r, errnum[t])
     ELSE Waits(t, c, Polling(r, {"in", "out"}), "send")
  /\ UNCHANGED queued

(* try_send(), from its beginning each time the connection is resumed      *)
RunSend(t, c, r) ==
  LET broken == r.over \/ {"hup", "rdhup", "in"} \intersect r.result # {}
      full == "out" \in r.poll \ r.result
  IN
  /\ \/ /\ \/ ~r.fd /\ Ends(t, c, [r EXCEPT !.timer = FALSE], "error")
           \/ r.fd /\ broken /\ Fails(t, c, r)
           \/ r.fd /\ ~broken /\ full /\ Waits(t, c, r, "send")
        /\ UNCHANGED <<timeout, output>>
     \/ /\ r.fd /\ ~broken /\ ~full
        /\ \/ \E n \in 0 .. Len(Pending(send[t])) : Transmit(t, c, Timed(r, t), n)
           \/ Pending(send[t]) # << >> /\ Fails(t, c, r) /\ UNCHANGED output
        /\ TimeoutUsed(t)
  /\ UNCHANGED <<recv, busy>>

(* try_send() needs a connection_waiter.                                   *)
TrySend(t) ==
  /\ Idle(t)
  /\ IF held[t] = None
       THEN /\ errnum' = [errnum EXCEPT ![t] = "error"]
            /\ UNCHANGED <<conn, awaits, timeout, output, recv, busy>>
       ELSE RunSend(t, held[t], [conn[held[t]] EXCEPT !.parent = t])
  /\ UNCHANGED <<load, pool, held>>

------------------------------------------------------------------------------
(* Receiving.                                                              *)

(* try_recv() up to the call of recv(), which RecvLabel makes in the same  *)
(* run of the body; there may be no memory for the first buffer.           *)
RunRecv(t, c, r) ==
  LET broken == r.over \/ "hup" \in r.result IN
  /\ \/ /\ \/ ~r.fd /\ Ends(t, c, [r EXCEPT !.timer = FALSE], "error")
           \/ r.fd /\ broken /\ Fails(t, c, r)
           \/ r.fd /\ ~broken /\ "in" \notin r.result
              /\ Waits(t, c, Polling(r, {"in"}), "recv")
        /\ UNCHANGED <<timeout, recv, busy>>
     \/ /\ r.fd /\ ~broken /\ "in" \in r.result
        /\ \/ /\ Waits(t, c, Timed(r, t), "recv")
              /\ recv' = [recv EXCEPT ![t].size = IF @ = 0 THEN InitSize ELSE @]
              /\ busy' = c
           \/ recv[t].size = 0 /\ Fails(t, c, r) /\ UNCHANGED <<recv, busy>>
        /\ TimeoutUsed(t)
  /\ UNCHANGED output

TryRecv(t) ==
  /\ Idle(t) /\ recv[t].recved = 0
  /\ IF held[t] = None
       THEN /\ errnum' = [errnum EXCEPT ![t] = "error"]
            /\ UNCHANGED <<conn, awaits, timeout, output, recv, busy>>
       ELSE RunRecv(t, held[t], [conn[held[t]] EXCEPT !.parent = t])
  /\ UNCHANGED <<load, pool, held>>

(* The peer closed after what was received: so does this side, without an  *)
(* error if all was received.                                              *)
RecvEnds(t, c) ==
  /\ IF "rdhup" \in conn[c].result
       THEN Ends(t, c, Disconnected(conn[c]), "ok")
       ELSE Ends(t, c, conn[c], errnum[t])
  /\ busy' = None

RecvFails(t, c) == Fails(t, c, conn[c]) /\ busy' = None

RecvPolls(t, c) ==
  Waits(t, c, Polling(conn[c], {"in"}), "recv") /\ busy' = None

RecvMore(t, c) ==
  IF "rdhup" \in conn[c].result THEN RecvFails(t, c) ELSE RecvPolls(t, c)

MHintOnly(size, n, x) == IF x > size THEN x ELSE size
(* recv_buffer_size when n bytes are there and recv_check() asks for x in  *)
(* total, or for more without saying how much: x is 0.                     *)
BufferSize(size, n, x) ==
  IF x = 0 THEN (IF n = size THEN 2 * size ELSE size)
  ELSE IF x > size THEN x ELSE size

(* recv_check() has not enough with n bytes.  It announces a total of x or *)
(* hints at it, if x is not 0, which is more than it has.                  *)
NotEnough(t, c, n, x, announced) ==
  LET size == BufferSize(recv[t].size, n, x) IN
  /\ recv' = [recv EXCEPT ![t] = [size |-> size, recved |-> n, further |-> announced]]
  /\ IF n = recv[t].size
       THEN UNCHANGED <<conn, awaits, errnum, busy>>     \* goto recv_label
       ELSE RecvMore(t, c)

(* The memory for a larger buffer is refused: recv_buffer is 0 then.       *)
NoMemory(t, c, n) ==
  /\ n = recv[t].size \/ recv[t].size < load.reply
  /\ recv' = [recv EXCEPT ![t].size = 0, ![t].recved = n]
  /\ RecvFails(t, c)

(* recv() returns data, and recv_check() judges it, if it has not yet      *)
(* announced a total, or else the buffer is to be filled.                  *)
Received(t, c, n) ==
  \/ /\ recv[t].further
     /\ recv' = [recv EXCEPT ![t].recved = n]
     /\ IF n = recv[t].size THEN RecvEnds(t, c) ELSE RecvMore(t, c)
  \/ /\ ~recv[t].further
     /\ \/ /\ recv' = [recv EXCEPT ![t].recved = n]
           /\ RecvEnds(t, c) \/ RecvFails(t, c)
        \/ NoMemory(t, c, n)
        \/ \E x \in {0} \union n + 1 .. load.reply : \E announced \in BOOLEAN :
             /\ announced => x # 0
             /\ NotEnough(t, c, n, x, announced)

RecvLabel ==
  /\ busy # None
  /\ LET c == busy  t == conn[c].parent IN
     \/ \E n \in recv[t].recved + 1 .. Min({recv[t].size, load.reply}) :
          Received(t, c, n)
     \/ RecvFails(t, c) /\ UNCHANGED recv        \* 0 bytes or an error
     \/ RecvPolls(t, c) /\ UNCHANGED recv        \* EAGAIN
  /\ UNCHANGED <<load, pool, held, timeout, output>>

------------------------------------------------------------------------------
(* Events: the callback of a connection, which was resumed as r.           *)

(* stop_poll_when_notification(): between two operations                   *)
StopPoll(t, c, r) ==
  /\ IF r.over
       THEN /\ conn' = [conn EXCEPT ![c] = Disconnected(r)]
            /\ errnum' = [errnum EXCEPT ![t] = "ok"]
       ELSE /\ conn' = [conn EXCEPT ![c] = [r EXCEPT !.timer = FALSE, !.poll = {}]]
            /\ UNCHANGED errnum
  /\ UNCHANGED <<pool, awaits, timeout, output, recv, busy>>

Notify(c, r) ==
  LET t == r.parent IN
  /\ \/ r.call = "connect" /\ RunConnect(t, c, r) /\ UNCHANGED pool
     \/ r.call = "send" /\ RunSend(t, c, r) /\ UNCHANGED pool
     \/ r.call = "recv" /\ RunRecv(t, c, r) /\ UNCHANGED pool
     \/ r.call = "stop_poll" /\ StopPoll(t, c, r)
     \/ /\ r.call = "pooled"
        /\ RemoveKeepAlive(c)
        /\ UNCHANGED <<awaits, errnum, timeout, output, recv, busy>>
     \/ /\ r.call = "release"
        /\ conn' = [conn EXCEPT ![c] = Released(r)]
        /\ UNCHANGED <<pool, awaits, errnum, timeout, output, recv, busy>>
  /\ UNCHANGED <<load, held>>

(* resume_on_timeout()                                                     *)
TimedOut(c) ==
  /\ Quiet /\ conn[c].timer
  /\ Notify(c, [conn[c] EXCEPT !.timer = FALSE, !.over = TRUE])

(* resume_on_poll(), with the events asked for, that the peer closed, or   *)
(* that the connection is broken                                           *)
Polled(c) ==
  /\ Quiet /\ conn[c].fd /\ conn[c].poll # {}
  /\ \E events \in {{"in"}, {"in", "rdhup"}, {"out"}, {"in", "out"}, {"hup"}} :
       /\ events \intersect {"in", "out"} \subseteq conn[c].poll
       /\ Notify(c, [conn[c] EXCEPT !.result = events])

------------------------------------------------------------------------------
(* The end of an exchange.                                                 *)

SetTimeout(t) ==
  /\ Idle(t) /\ load.timed /\ ~timeout[t]
  /\ timeout' = [timeout EXCEPT ![t] = TRUE]
  /\ UNCHANGED <<load, conn, pool, held, awaits, errnum, output, recv, busy>>

LetGo(t) ==
  /\ conn' = [conn EXCEPT ![held[t]] = Released(@)]
  /\ held' = [held EXCEPT ![t] = None]

OnConnectionInactive(t) ==
  /\ Idle(t) /\ held[t] # None
  /\ IF Keeps(t)
       THEN /\ conn' = [conn EXCEPT ![held[t]] = KeptAlive(@, Len(pool))]
            /\ pool' = Append(pool, held[t])
            /\ held' = [held EXCEPT ![t] = None]
       ELSE LetGo(t) /\ UNCHANGED pool
  /\ UNCHANGED <<load, awaits, errnum, timeout, output, recv, busy>>

(* cort_tcp_ctrler::on_finish() after an error                             *)
OnFinish(t) ==
  /\ Idle(t) /\ held[t] # None /\ errnum[t] # "ok"
  /\ LetGo(t)
  /\ UNCHANGED <<load, pool, awaits, errnum, timeout, output, recv, busy>>

CloseConnection(t) ==
  /\ Idle(t) /\ held[t] # None
  /\ conn' = [conn EXCEPT ![held[t]] = Disconnected(@)]
  /\ errnum' = [errnum EXCEPT ![t] = "ok"]
  /\ UNCHANGED <<load, pool, held, awaits, timeout, output, recv, busy>>

(* clear() of the send buffer stops at the first empty slot.               *)
BufferCleared(t) ==
  /\ blocks' = [blocks EXCEPT ![t] = @ \ {send[t][i].base - send[t][i].tag :
                  i \in {j \in 1 .. InUse(send[t]) : send[t][j].tag # Weak}}]
  /\ send' = [send EXCEPT ![t][1] = Null]
  /\ queued' = [queued EXCEPT ![t] = 0]
  /\ sent' = [sent EXCEPT ![t] = << >>]

(* clear(): the ctrler is used for the next exchange.                      *)
Clear(t) ==
  /\ Idle(t)
  /\ BufferCleared(t)
  /\ recv' = [recv EXCEPT ![t].recved = 0, ![t].further = FALSE]
  /\ errnum' = [errnum EXCEPT ![t] = "ok"]
  /\ UNCHANGED <<load, conn, pool, held, awaits, timeout, busy>>

Next ==
  \/ RecvLabel \/ ClearKeepAlive
  \/ \E c \in Conn : TimedOut(c) \/ Polled(c)
  \/ \E t \in Ctrler :
       \/ SetTimeout(t) \/ Connect(t) \/ TrySend(t) \/ TryRecv(t)
       \/ \E len \in 1 .. 2, strong \in BOOLEAN : AddSegment(t, len, strong)
       \/ OnConnectionInactive(t) \/ OnFinish(t) \/ CloseConnection(t) \/ Clear(t)

Spec == Init /\ [][Next]_vars

(* A body that has begun goes on, and the loop serves every timeout that   *)
(* is over before it polls.                                                *)
FairSpec == Spec /\ WF_vars(RecvLabel) /\ \A c \in Conn : SF_vars(TimedOut(c))

------------------------------------------------------------------------------
(* Properties.                                                             *)

(* The vector of kept connections knows where each of them is, although    *)
(* its elements are swapped; each one is there once, belongs to nobody,    *)
(* is open and polled, and has the timeout that will end it.               *)
PoolExact ==
  /\ IsInjective(pool)
  /\ \A c \in Conn : conn[c].call = "pooled" => c \in ToSet(pool)
  /\ \A k \in DOMAIN pool :
       LET r == conn[pool[k]] IN
       /\ r.pos = k - 1 /\ r.call = "pooled" /\ r.parent = None
       /\ r.fd /\ r.poll # {} /\ r.timer

(* A connection has as many references as there are owners: the ctrler     *)
(* that holds it, the pool, or the callback that will delete it once it    *)
(* was given up.  One that is resumed for a ctrler is still the ctrler's,  *)
(* and no event comes for one that is deleted.                             *)
RefsExact ==
  \A c \in Conn :
    LET owners == {t \in Ctrler : held[t] = c} IN
    /\ conn[c].ref = Cardinality(owners)
                     + (IF conn[c].call \in {"pooled", "release"} THEN 1 ELSE 0)
    /\ conn[c].call \in Operation \union {"stop_poll"} => owners = {conn[c].parent}
    /\ conn[c].ref = 0 => ~conn[c].fd /\ ~conn[c].timer

(* However the kernel cuts the segments and whenever a segment is added,   *)
(* what was sent and what the array of segments still holds are together   *)
(* the bytes that were put in, in order and once (try_send).               *)
StreamExact ==
  \A t \in Ctrler :
    sent[t] \o Pending(send[t]) = [k \in 1 .. queued[t] |-> k]

(* A block of memory that the send buffer owns is freed when its last byte *)
(* is sent or the buffer is cleared, with the address that malloc gave.    *)
BlocksExact ==
  \A t \in Ctrler :
    blocks[t] = {send[t][i].base - send[t][i].tag :
                   i \in {j \in 1 .. InUse(send[t]) : send[t][j].tag # Weak}}

(* recv() is never called with a full buffer, where its 0 would be taken   *)
(* for the end of the connection.                                          *)
RoomToRecv ==
  busy # None => LET r == recv[conn[busy].parent] IN r.recved < r.size

(* A ctrler awaits a connection that is open, that will go on with that    *)
(* very operation, and for which epoll watches what the operation needs,   *)
(* unless its body runs; no result of an earlier event is left over.       *)
WaitersPolled ==
  \A t \in Ctrler : awaits[t] # "none" =>
    LET r == conn[held[t]] IN
    /\ held[t] # None /\ r.call = awaits[t] /\ r.fd
    /\ held[t] # busy =>
         /\ (IF awaits[t] = "recv" THEN "in" ELSE "out") \in r.poll
         /\ r.result = {}

(* An idle connection does not stay for ever: it is used again, or its     *)
(* timeout takes it out of the pool and deletes it.                        *)
IdleLeaves ==
  \A c \in Conn : conn[c].call \in {"pooled", "release"}
                    ~> conn[c].call \notin {"pooled", "release"}

------------------------------------------------------------------------------
(* What the proofs in TcpConnectionProofs need.                            *)

Record == [ref : Nat, parent : Ctrler \union {None}, fd : BOOLEAN,
           poll : SUBSET {"in", "out"}, result : SUBSET Event, timer : BOOLEAN,
           over : BOOLEAN, call : Callback, pos : Nat]

(* The callbacks of a connection that belongs to a ctrler.                 *)
Owned == Operation \union {"stop_poll"}

ConnTypeOK ==
  /\ load \in Loads
  /\ conn \in [Conn -> Record]
  /\ pool \in Seq(Conn)
  /\ held \in [Ctrler -> Conn \union {None}]
  /\ awaits \in [Ctrler -> Operation \union {"none"}]
  /\ busy \in Conn \union {None}
  /\ recv \in [Ctrler -> [size : Nat, recved : Nat, further : BOOLEAN]]

(* A connection that is not deleted has one reference, and its callback    *)
(* tells who owns it; a ctrler and its connection know each other, and the *)
(* callback of an operation is that of the one that the ctrler awaits.     *)
OwnersInv ==
  /\ \A c \in Conn :
       /\ conn[c].call = "none" => conn[c] = Deleted
       /\ conn[c].call # "none" => conn[c].ref = 1
       /\ conn[c].call \in Owned => conn[c].parent \in Ctrler /\ held[conn[c].parent] = c
       /\ conn[c].call \in Operation => awaits[conn[c].parent] = conn[c].call
  /\ \A t \in Ctrler : held[t] # None =>
       conn[held[t]].call \in Owned /\ conn[held[t]].parent = t

(* The connection that is about to call recv() is awaited for it, and the  *)
(* buffer of one that receives has room, or there is no buffer yet.        *)
RecvInv ==
  /\ busy # None => conn[busy].call = "recv" /\ awaits[conn[busy].parent] = "recv"
  /\ \A t \in Ctrler : awaits[t] = "recv" =>
       recv[t].recved < recv[t].size \/ (recv[t].size = 0 /\ recv[t].recved = 0)

ConnInv ==
  /\ ConnTypeOK /\ OwnersInv /\ PoolExact /\ WaitersPolled /\ RecvInv /\ RoomToRecv
=============================================================================
