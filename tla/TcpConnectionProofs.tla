------------------------- MODULE TcpConnectionProofs -------------------------
(***************************************************************************)
(* Proofs about TcpConnection, for any ctrlers, connections and loads: who *)
(* owns a connection, where the pool keeps it, what epoll watches for the  *)
(* ctrler that awaits it, that recv() is called with room, and that the    *)
(* send buffer loses, repeats and reorders no byte and leaks no block.     *)
(***************************************************************************)
EXTENDS TcpConnection, FiniteSetTheorems, SequenceTheorems, TLAPS

------------------------------------------------------------------------------
(* Connection records.                                                     *)

LEMMA Nulls == None \notin Ctrler /\ None \notin Conn
  BY TcpAssumption DEF TcpAssumption

LEMMA Calls ==
  /\ Operation \subseteq Callback /\ Owned \subseteq Callback
  /\ \A o \in Owned : o # "none" /\ o # "pooled" /\ o # "release"
  /\ \A o \in Operation : o # "stop_poll" /\ o \in Owned
  /\ "stop_poll" \in Owned /\ "stop_poll" \notin Operation /\ "none" \notin Operation
  /\ \A o \in Callback : o \in Owned \/ o \in {"none", "pooled", "release"}
  /\ \A o \in Owned : o \in Operation \/ o = "stop_poll"
  BY DEF Operation, Owned, Callback

LEMMA NewRecords ==
  /\ Deleted \in Record /\ Deleted.call = "none" /\ Deleted.ref = 0 /\ ~Deleted.fd /\ ~Deleted.timer
  /\ Created \in Record /\ Created.ref = 1 /\ ~Created.fd
<1>1. None \in Ctrler \union {None} /\ "none" \in Callback
  BY DEF Callback
<1> QED
  BY <1>1 DEF Deleted, Created, Record

LEMMA DisconnectedRecord ==
  ASSUME NEW r \in Record
  PROVE  LET q == Disconnected(r) IN
         /\ q \in Record /\ q.ref = r.ref /\ q.parent = r.parent /\ q.call = r.call
         /\ ~q.fd /\ q.poll = {} /\ q.result = {}
  BY DEF Disconnected, Closed, Record

LEMMA PollingRecord ==
  ASSUME NEW r \in Record, NEW events \in SUBSET {"in", "out"}
  PROVE  LET q == Polling(r, events) IN
         /\ q \in Record /\ q.ref = r.ref /\ q.parent = r.parent /\ q.fd = r.fd
         /\ q.result = {} /\ (r.fd => q.poll = events)
  BY DEF Polling, Record

LEMMA TimedRecord ==
  ASSUME NEW r \in Record, NEW t
  PROVE  LET q == Timed(r, t) IN
         /\ q \in Record /\ q.ref = r.ref /\ q.parent = r.parent /\ q.fd = r.fd
         /\ q.poll = r.poll /\ q.result = r.result /\ q.call = r.call
  BY DEF Timed, Record

LEMMA FinishedRecord ==
  ASSUME NEW r \in Record
  PROVE  LET q == Finished(r) IN
         q \in Record /\ q.ref = r.ref /\ q.parent = r.parent /\ q.call = "stop_poll"
<1>1. "stop_poll" \in Callback /\ {} \in SUBSET Event
  BY DEF Callback
<1> QED
  BY <1>1 DEF Finished, Record

LEMMA KeptAliveRecord ==
  ASSUME NEW r \in Record, NEW pos \in Nat
  PROVE  LET q == KeptAlive(r, pos) IN
         /\ q \in Record /\ q.ref = r.ref /\ q.parent = None /\ q.call = "pooled"
         /\ q.fd = r.fd /\ q.poll = {"in"} /\ q.timer /\ q.pos = pos
<1>1. "pooled" \in Callback /\ {} \in SUBSET Event
  BY DEF Callback
<1> QED
  BY <1>1 DEF KeptAlive, Record

LEMMA OutOfPoolRecord ==
  ASSUME NEW r \in Record
  PROVE  LET q == OutOfPool(r) IN q \in Record /\ q.ref = r.ref /\ q.call = "release"
<1>1. "release" \in Callback
  BY DEF Callback
<1> QED
  BY <1>1 DEF OutOfPool, Closed, Record

LEMMA TakenBackRecord ==
  ASSUME NEW r \in Record
  PROVE  LET q == TakenBack(r) IN q \in Record /\ q.ref = r.ref /\ q.fd = r.fd
  BY DEF TakenBack, Record

------------------------------------------------------------------------------
(* Steps.                                                                  *)

(* A connection that waits in the pool, or to be deleted                   *)
Spare(r) == r.ref = 1 /\ r.call \in {"pooled", "release"}

BufferFits(b) == b.recved < b.size \/ (b.size = 0 /\ b.recved = 0)

(* The ctrler that acts, if its connection is c afterwards                 *)
Watched(t, c, r, op, running) ==
  op # "none" =>
    /\ c # None /\ r.call = op /\ r.fd
    /\ ~running => (IF op = "recv" THEN "in" ELSE "out") \in r.poll /\ r.result = {}

(* Only t acts: the connection that it had and has not afterwards is spare *)
(* or deleted, and of the others only spare ones change.                   *)
Acts(t, c) ==
  /\ c \in Conn \union {None} /\ held' = [held EXCEPT ![t] = c]
  /\ \A u \in Ctrler : u # t => awaits'[u] = awaits[u] /\ recv'[u] = recv[u]
  /\ \A d \in Conn : d # c /\ d # held[t] =>
       conn'[d] = conn[d] \/ (Spare(conn[d]) /\ (conn'[d] = Deleted \/ Spare(conn'[d])))
  /\ held[t] # c /\ held[t] # None => conn'[held[t]] = Deleted \/ Spare(conn'[held[t]])
  /\ c # None => /\ conn'[c].ref = 1 /\ conn'[c].parent = t /\ conn'[c].call \in Owned
                 /\ conn'[c].call \in Operation => awaits'[t] = conn'[c].call
                 /\ held[t] = c \/ conn[c].call \notin Owned
  /\ Watched(t, c, conn'[c], awaits'[t], busy' = c)
  /\ awaits'[t] = "recv" => BufferFits(recv'[t])
  /\ busy \in {None, c} /\ busy' \in {None, c}
  /\ busy' # None => awaits'[t] = "recv" /\ recv'[t].recved < recv'[t].size

LEMMA CtrlerStep ==
  ASSUME ConnInv, ConnTypeOK', PoolExact', NEW t \in Ctrler, NEW c, Acts(t, c)
  PROVE  ConnInv'
<1> USE DEF Acts
<1>1. /\ OwnersInv /\ WaitersPolled /\ RecvInv
      /\ conn \in [Conn -> Record] /\ held \in [Ctrler -> Conn \union {None}]
      /\ awaits \in [Ctrler -> Operation \union {"none"}]
  BY DEF ConnInv, ConnTypeOK
<1>2. None \notin Ctrler /\ None \notin Conn
  BY Nulls
<1>3. held'[t] = c /\ \A u \in Ctrler : u # t => held'[u] = held[u]
  BY <1>1
<1>4. /\ Deleted.call = "none" /\ Operation \subseteq Owned
      /\ \A o \in Owned : o # "none" /\ o # "pooled" /\ o # "release"
  BY NewRecords, Calls
<1>5. ASSUME NEW u \in Ctrler, u # t, held[u] # None
      PROVE  /\ held[u] \in Conn /\ held[u] # c /\ held[u] # held[t]
             /\ conn'[held[u]] = conn[held[u]]
  <2>1. held[u] \in Conn /\ conn[held[u]].call \in Owned /\ conn[held[u]].parent = u
    BY <1>1, <1>5 DEF OwnersInv
  <2>2. held[u] # held[t]
    BY <1>1, <1>5, <2>1 DEF OwnersInv
  <2>3. held[u] # c
    BY <1>2, <2>1, <2>2
  <2> QED
    BY <1>4, <2>1, <2>2, <2>3 DEF Spare
<1>6. OwnersInv'
  <2>1. ASSUME NEW d \in Conn
        PROVE  /\ conn'[d].call = "none" => conn'[d] = Deleted
               /\ conn'[d].call # "none" => conn'[d].ref = 1
               /\ conn'[d].call \in Owned => conn'[d].parent \in Ctrler /\ held'[conn'[d].parent] = d
               /\ conn'[d].call \in Operation => awaits'[conn'[d].parent] = conn'[d].call
    <3>1. CASE d = c
      BY <1>2, <1>3, <1>4, <3>1
    <3>2. CASE d # c /\ d = held[t]
      BY <1>2, <1>4, <3>2 DEF Spare
    <3>3. CASE d # c /\ d # held[t]
      <4>1. CASE conn'[d] = conn[d]
        <5>1. /\ conn[d].call = "none" => conn[d] = Deleted
              /\ conn[d].call # "none" => conn[d].ref = 1
              /\ conn[d].call \in Owned => conn[d].parent \in Ctrler /\ held[conn[d].parent] = d
              /\ conn[d].call \in Operation => awaits[conn[d].parent] = conn[d].call
          BY <1>1 DEF OwnersInv
        <5>2. conn[d].call \in Owned => conn[d].parent # t
          BY <3>3, <5>1
        <5> QED
          BY <1>3, <1>4, <4>1, <5>1, <5>2
      <4>2. CASE conn'[d] = Deleted \/ Spare(conn'[d])
        BY <1>4, <4>2 DEF Spare
      <4> QED
        BY <3>3, <4>1, <4>2
    <3> QED
      BY <3>1, <3>2, <3>3
  <2>2. ASSUME NEW u \in Ctrler, held'[u] # None
        PROVE  conn'[held'[u]].call \in Owned /\ conn'[held'[u]].parent = u
    <3>1. CASE u = t
      BY <1>3, <2>2, <3>1
    <3>2. CASE u # t
      BY <1>1, <1>3, <1>5, <2>2, <3>2 DEF OwnersInv
    <3> QED
      BY <3>1, <3>2
  <2> QED
    BY <2>1, <2>2 DEF OwnersInv
<1>7. WaitersPolled'
  <2>1. SUFFICES ASSUME NEW u \in Ctrler, awaits'[u] # "none"
                 PROVE  /\ held'[u] # None /\ conn'[held'[u]].call = awaits'[u]
                        /\ conn'[held'[u]].fd
                        /\ held'[u] # busy' =>
                             /\ (IF awaits'[u] = "recv" THEN "in" ELSE "out") \in conn'[held'[u]].poll
                             /\ conn'[held'[u]].result = {}
    BY DEF WaitersPolled
  <2>2. CASE u = t
    BY <1>3, <2>1, <2>2 DEF Watched
  <2>3. CASE u # t
    <3>1. awaits[u] # "none"
      BY <2>1, <2>3
    <3>2. /\ held[u] # None /\ conn[held[u]].call = awaits[u] /\ conn[held[u]].fd
          /\ held[u] # busy =>
               /\ (IF awaits[u] = "recv" THEN "in" ELSE "out") \in conn[held[u]].poll
               /\ conn[held[u]].result = {}
      BY <1>1, <3>1 DEF WaitersPolled
    <3>3. held[u] # busy /\ conn'[held[u]] = conn[held[u]]
      BY <1>2, <1>5, <2>3, <3>2
    <3> QED
      BY <1>3, <2>3, <3>2, <3>3
  <2> QED
    BY <2>2, <2>3
<1>8. RecvInv'
  <2>1. \A u \in Ctrler : awaits'[u] = "recv" => BufferFits(recv'[u])
    BY <1>1 DEF RecvInv, BufferFits
  <2>2. busy' # None => conn'[busy'].call = "recv" /\ awaits'[conn'[busy'].parent] = "recv"
    BY DEF Watched
  <2> QED
    BY <2>1, <2>2 DEF RecvInv, BufferFits
<1>9. RoomToRecv'
  BY DEF RoomToRecv
<1> QED
  BY <1>6, <1>7, <1>8, <1>9 DEF ConnInv

(* Nobody acts: spare connections stay spare or are deleted.               *)
LEMMA SpareStep ==
  ASSUME ConnInv, ConnTypeOK', PoolExact', UNCHANGED <<held, awaits, recv, busy>>,
         \A d \in Conn :
           conn'[d] = conn[d] \/ (Spare(conn[d]) /\ (conn'[d] = Deleted \/ Spare(conn'[d])))
  PROVE  ConnInv'
<1>1. /\ OwnersInv /\ WaitersPolled /\ RecvInv /\ RoomToRecv
      /\ conn \in [Conn -> Record] /\ held \in [Ctrler -> Conn \union {None}]
      /\ awaits \in [Ctrler -> Operation \union {"none"}] /\ busy \in Conn \union {None}
  BY DEF ConnInv, ConnTypeOK
<1>2. /\ Deleted.call = "none" /\ Operation \subseteq Owned
      /\ \A o \in Owned : o # "none" /\ o # "pooled" /\ o # "release"
  BY NewRecords, Calls
<1>3. ASSUME NEW u \in Ctrler, held[u] # None
      PROVE  held[u] \in Conn /\ conn'[held[u]] = conn[held[u]]
  <2>1. held[u] \in Conn /\ conn[held[u]].call \in Owned
    BY <1>1, <1>3 DEF OwnersInv
  <2> QED
    BY <1>2, <2>1 DEF Spare
<1>4. OwnersInv'
  <2>1. ASSUME NEW d \in Conn
        PROVE  /\ conn'[d].call = "none" => conn'[d] = Deleted
               /\ conn'[d].call # "none" => conn'[d].ref = 1
               /\ conn'[d].call \in Owned => conn'[d].parent \in Ctrler /\ held[conn'[d].parent] = d
               /\ conn'[d].call \in Operation => awaits[conn'[d].parent] = conn'[d].call
    BY <1>1, <1>2 DEF OwnersInv, Spare
  <2>2. ASSUME NEW u \in Ctrler, held[u] # None
        PROVE  conn'[held[u]].call \in Owned /\ conn'[held[u]].parent = u
    BY <1>1, <1>3, <2>2 DEF OwnersInv
  <2> QED
    BY <2>1, <2>2 DEF OwnersInv
<1>5. WaitersPolled'
  BY <1>1, <1>3 DEF WaitersPolled
<1>6. busy # None => conn'[busy] = conn[busy]
  <2>1. SUFFICES ASSUME busy # None PROVE conn'[busy] = conn[busy]
    OBVIOUS
  <2>2. busy \in Conn /\ conn[busy].call = "recv"
    BY <1>1, <2>1 DEF RecvInv
  <2> QED
    BY <2>2 DEF Spare
<1>7. RecvInv' /\ RoomToRecv'
  BY <1>1, <1>6 DEF RecvInv, RoomToRecv
<1> QED
  BY <1>4, <1>5, <1>7 DEF ConnInv

------------------------------------------------------------------------------
(* The pool.                                                               *)

Pooled(r) == r.call = "pooled" /\ r.parent = None /\ r.fd /\ r.poll # {} /\ r.timer

(* PoolExact of any vector and connections                                 *)
PoolOK(p, cn) ==
  /\ p \in Seq(Conn)
  /\ \A i, j \in 1 .. Len(p) : p[i] = p[j] => i = j
  /\ \A c \in Conn : cn[c].call = "pooled" => \E k \in 1 .. Len(p) : p[k] = c
  /\ \A k \in 1 .. Len(p) : cn[p[k]].pos = k - 1 /\ Pooled(cn[p[k]])

LEMMA PoolIs ==
  /\ pool \in Seq(Conn) /\ PoolExact <=> PoolOK(pool, conn)
  /\ pool' \in Seq(Conn) /\ PoolExact' <=> PoolOK(pool', conn')
<1>1. ASSUME NEW p \in Seq(Conn)
      PROVE  /\ DOMAIN p = 1 .. Len(p)
             /\ IsInjective(p) <=> \A i, j \in 1 .. Len(p) : p[i] = p[j] => i = j
             /\ \A c : c \in ToSet(p) <=> \E k \in 1 .. Len(p) : p[k] = c
  BY DEF IsInjective, ToSet
<1> QED
  BY <1>1 DEF PoolExact, PoolOK, Pooled

LEMMA PoolSame ==
  ASSUME NEW p, NEW cn, NEW cn2, PoolOK(p, cn),
         \A d \in Conn : cn2[d] = cn[d] \/ (cn[d].call # "pooled" /\ cn2[d].call # "pooled")
  PROVE  PoolOK(p, cn2)
<1>1. \A i \in 1 .. Len(p) : p[i] \in Conn
  BY DEF PoolOK
<1>2. ASSUME NEW k \in 1 .. Len(p) PROVE cn2[p[k]].pos = k - 1 /\ Pooled(cn2[p[k]])
  <2>1. cn[p[k]].pos = k - 1 /\ Pooled(cn[p[k]])
    BY DEF PoolOK
  <2>2. cn2[p[k]] = cn[p[k]]
    BY <1>1, <2>1 DEF Pooled
  <2> QED
    BY <2>1, <2>2
<1>3. \A c \in Conn : cn2[c].call = "pooled" => \E k \in 1 .. Len(p) : p[k] = c
  <2>1. ASSUME NEW c \in Conn, cn2[c].call = "pooled" PROVE \E k \in 1 .. Len(p) : p[k] = c
    <3>1. cn[c].call = "pooled"
      BY <2>1
    <3> QED
      BY <3>1 DEF PoolOK
  <2> QED
    BY <2>1
<1> QED
  BY <1>2, <1>3 DEF PoolOK

LEMMA PoolExactSame ==
  ASSUME pool \in Seq(Conn), PoolExact, pool' = pool,
         \A d \in Conn :
           conn'[d] = conn[d] \/ (conn[d].call # "pooled" /\ conn'[d].call # "pooled")
  PROVE  PoolExact'
<1>1. PoolOK(pool, conn)
  BY PoolIs
<1>2. PoolOK(pool, conn')
  BY <1>1, PoolSame
<1> QED
  BY <1>2, PoolIs

LEMMA PoolAdd ==
  ASSUME NEW p, NEW cn, NEW cn2, PoolOK(p, cn), NEW c \in Conn, cn[c].call # "pooled",
         \A d \in Conn : d # c => cn2[d] = cn[d],
         Pooled(cn2[c]), cn2[c].pos = Len(p)
  PROVE  PoolOK(Append(p, c), cn2)
<1> DEFINE q == Append(p, c)
<1>1. /\ p \in Seq(Conn) /\ q \in Seq(Conn) /\ Len(p) \in Nat /\ Len(q) = Len(p) + 1
      /\ \A i \in 1 .. Len(p) : q[i] = p[i] /\ p[i] \in Conn
      /\ q[Len(p) + 1] = c
  BY DEF PoolOK
<1> HIDE DEF q
<1>2. \A i \in 1 .. Len(q) : i \in 1 .. Len(p) \/ i = Len(p) + 1
  BY <1>1
<1>3. \A i \in 1 .. Len(p) : p[i] # c /\ i \in 1 .. Len(q)
  BY <1>1 DEF PoolOK, Pooled
<1>4. \A i, j \in 1 .. Len(q) : q[i] = q[j] => i = j
  BY <1>1, <1>2, <1>3 DEF PoolOK
<1>5. \A d \in Conn : cn2[d].call = "pooled" => \E k \in 1 .. Len(q) : q[k] = d
  <2>1. ASSUME NEW d \in Conn, cn2[d].call = "pooled" PROVE \E k \in 1 .. Len(q) : q[k] = d
    <3>1. CASE d = c
      BY <1>1, <3>1
    <3>2. CASE d # c
      <4>1. PICK k \in 1 .. Len(p) : p[k] = d
        BY <2>1, <3>2 DEF PoolOK
      <4> QED
        BY <1>1, <1>3, <4>1
    <3> QED
      BY <3>1, <3>2
  <2> QED
    BY <2>1
<1>6. ASSUME NEW k \in 1 .. Len(q) PROVE cn2[q[k]].pos = k - 1 /\ Pooled(cn2[q[k]])
  <2>1. CASE k = Len(p) + 1
    BY <1>1, <2>1
  <2>2. CASE k \in 1 .. Len(p)
    BY <1>1, <1>3, <2>2 DEF PoolOK
  <2> QED
    BY <1>2, <2>1, <2>2
<1>7. PoolOK(q, cn2)
  BY <1>1, <1>4, <1>5, <1>6 DEF PoolOK
<1> QED
  BY <1>7 DEF q

LEMMA DroppedIs ==
  ASSUME NEW p \in Seq(Conn), NEW n \in 0 .. Len(p)
  PROVE  /\ Len(p) \in Nat
         /\ Kept(p, n) \in Seq(Conn) /\ Len(Kept(p, n)) = Len(p) - n
         /\ \A k \in 1 .. Len(p) - n : Kept(p, n)[k] = p[k]
         /\ \A d : d \in Dropped(p, n) <=> \E k \in Len(p) - n + 1 .. Len(p) : p[k] = d
         /\ n = 1 => Kept(p, n) = Front(p) /\ (\A d : d \in Dropped(p, n) <=> d = Last(p))
<1>1. Len(p) \in Nat /\ \A k \in 1 .. Len(p) : p[k] \in Conn
  OBVIOUS
<1>2. /\ Kept(p, n) \in Seq(Conn) /\ Len(Kept(p, n)) = Len(p) - n
      /\ \A k \in 1 .. Len(p) - n : Kept(p, n)[k] = p[k]
  <2> DEFINE m == Len(p) - n
  <2>1. m \in 0 .. Len(p)
    BY <1>1
  <2> HIDE DEF m
  <2>2. /\ SubSeq(p, 1, m) \in Seq(Conn) /\ Len(SubSeq(p, 1, m)) = m
        /\ \A k \in 1 .. m : SubSeq(p, 1, m)[k] = p[k]
    BY <1>1, <2>1
  <2> QED
    BY <2>2 DEF Kept, m
<1>3. \A d : d \in Dropped(p, n) <=> \E k \in Len(p) - n + 1 .. Len(p) : p[k] = d
  <2> DEFINE m == Len(p) - n + 1
             s == SubSeq(p, m, Len(p))
  <2>1. m \in 1 .. Len(p) + 1 /\ n = Len(p) - m + 1
    BY <1>1
  <2> HIDE DEF m
  <2>2. /\ s = [i \in 1 .. n |-> p[i + m - 1]]
    BY <1>1, <2>1
  <2>3. DOMAIN s = 1 .. n /\ \A i \in 1 .. n : s[i] = p[i + m - 1]
    BY <2>2
  <2> HIDE DEF s
  <2>4. \A i \in 1 .. n : i + m - 1 \in m .. Len(p)
    BY <1>1, <2>1
  <2>5. \A k \in m .. Len(p) : k - m + 1 \in 1 .. n /\ k - m + 1 + m - 1 = k
    BY <1>1, <2>1
  <2>6. \A d : d \in ToSet(s) <=> \E i \in 1 .. n : s[i] = d
    BY <2>3 DEF ToSet
  <2>7. ASSUME NEW d PROVE d \in ToSet(s) <=> \E k \in m .. Len(p) : p[k] = d
    BY <2>3, <2>4, <2>5, <2>6
  <2> QED
    BY <2>7 DEF Dropped, m, s
<1>4. n = 1 => Kept(p, n) = Front(p) /\ (\A d : d \in Dropped(p, n) <=> d = Last(p))
  <2>1. SUFFICES ASSUME n = 1
                 PROVE  Kept(p, n) = Front(p) /\ (\A d : d \in Dropped(p, n) <=> d = Last(p))
    OBVIOUS
  <2>2. \A k \in Len(p) - n + 1 .. Len(p) : k = Len(p)
    BY <1>1, <2>1
  <2>3. Len(p) \in Len(p) - n + 1 .. Len(p)
    BY <1>1, <2>1
  <2>4. \A d : d \in Dropped(p, n) <=> d = p[Len(p)]
    BY <1>3, <2>2, <2>3
  <2> QED
    BY <2>1, <2>4 DEF Kept, Front, Last
<1> QED
  BY <1>1, <1>2, <1>3, <1>4

LEMMA PoolDrop ==
  ASSUME NEW p, NEW cn, NEW cn2, PoolOK(p, cn), NEW n \in 0 .. Len(p),
         \A d \in Conn :
           IF d \in Dropped(p, n) THEN cn2[d].call # "pooled"
           ELSE cn2[d] = cn[d] \/ (cn[d].call # "pooled" /\ cn2[d].call # "pooled")
  PROVE  PoolOK(Kept(p, n), cn2)
<1> DEFINE q == Kept(p, n)
<1>1. /\ p \in Seq(Conn) /\ Len(p) \in Nat /\ q \in Seq(Conn) /\ Len(q) = Len(p) - n
      /\ \A k \in 1 .. Len(p) - n : q[k] = p[k]
      /\ \A d : d \in Dropped(p, n) <=> \E k \in Len(p) - n + 1 .. Len(p) : p[k] = d
  BY DroppedIs DEF PoolOK
<1> HIDE DEF q
<1>2. \A k \in 1 .. Len(q) : k \in 1 .. Len(p) /\ k \in 1 .. Len(p) - n
                             /\ k \notin Len(p) - n + 1 .. Len(p)
  BY <1>1
<1>3. \A k \in 1 .. Len(p) : k \in 1 .. Len(q) \/ k \in Len(p) - n + 1 .. Len(p)
  BY <1>1
<1>4. \A k \in Len(p) - n + 1 .. Len(p) : k \in 1 .. Len(p)
  BY <1>1
<1>5. \A i, j \in 1 .. Len(q) : q[i] = q[j] => i = j
  BY <1>1, <1>2 DEF PoolOK
<1>6. ASSUME NEW k \in 1 .. Len(q)
      PROVE  q[k] \in Conn /\ q[k] = p[k] /\ q[k] \notin Dropped(p, n)
  BY <1>1, <1>2, <1>4 DEF PoolOK
<1>7. ASSUME NEW k \in 1 .. Len(q) PROVE cn2[q[k]].pos = k - 1 /\ Pooled(cn2[q[k]])
  <2>1. cn[p[k]].pos = k - 1 /\ Pooled(cn[p[k]])
    BY <1>2 DEF PoolOK
  <2>2. cn2[q[k]] = cn[q[k]] \/ cn[q[k]].call # "pooled"
    BY <1>6
  <2> QED
    BY <1>6, <2>1, <2>2 DEF Pooled
<1>8. ASSUME NEW d \in Conn, cn2[d].call = "pooled" PROVE \E k \in 1 .. Len(q) : q[k] = d
  <2>1. d \notin Dropped(p, n) /\ cn2[d] = cn[d]
    BY <1>8
  <2>2. PICK k \in 1 .. Len(p) : p[k] = d
    BY <1>8, <2>1 DEF PoolOK
  <2> QED
    BY <1>1, <1>3, <1>6, <2>1, <2>2
<1>9. PoolOK(q, cn2)
  BY <1>1, <1>5, <1>7, <1>8 DEF PoolOK
<1> QED
  BY <1>9 DEF q

(* The last element takes the place of c, which is at k.                   *)
LEMMA PoolRemove ==
  ASSUME NEW p, NEW cn, NEW cn2, PoolOK(p, cn), NEW c \in Conn, cn[c].call = "pooled",
         cn2[c].call # "pooled", NEW l, l = Last(p),
         l # c => cn2[l].pos = cn[c].pos /\ Pooled(cn2[l]),
         \A d \in Conn : d # c /\ d # l => cn2[d] = cn[d],
         NEW p2, p2 = Front([p EXCEPT ![cn[c].pos + 1] = l])
  PROVE  PoolOK(p2, cn2)
<1>1. p \in Seq(Conn) /\ Len(p) \in Nat /\ \A i \in 1 .. Len(p) : p[i] \in Conn
  BY DEF PoolOK
<1>2. PICK k \in 1 .. Len(p) : p[k] = c
  BY DEF PoolOK
<1> DEFINE e == [p EXCEPT ![k] = l]
           q == Front(e)
<1>3. cn[c].pos = k - 1 /\ cn[c].pos + 1 = k /\ Len(p) > 0
  BY <1>1, <1>2 DEF PoolOK
<1>4. l = p[Len(p)] /\ l \in Conn /\ Len(p) \in 1 .. Len(p)
  BY <1>1, <1>3 DEF Last
<1>5. /\ e \in Seq(Conn) /\ Len(e) = Len(p)
      /\ \A i \in 1 .. Len(p) : e[i] = IF i = k THEN l ELSE p[i]
  BY <1>1, <1>4
<1> HIDE DEF e
<1>6. /\ q \in Seq(Conn) /\ Len(q) = Len(p) - 1
      /\ \A i \in 1 .. Len(p) - 1 : q[i] = e[i]
  <2>1. Len(p) - 1 \in 0 .. Len(e)
    BY <1>1, <1>3, <1>5
  <2>2. q = SubSeq(e, 1, Len(p) - 1)
    BY <1>5 DEF Front
  <2> QED
    BY <1>5, <2>1, <2>2
<1> HIDE DEF q
<1>7. \A i \in 1 .. Len(q) : i \in 1 .. Len(p) /\ i # Len(p) /\ q[i] = IF i = k THEN l ELSE p[i]
  BY <1>1, <1>5, <1>6
<1>8. \A i, j \in 1 .. Len(q) : q[i] = q[j] => i = j
  <2>1. \A i, j \in 1 .. Len(p) : p[i] = p[j] => i = j
    BY DEF PoolOK
  <2> QED
    BY ONLY <1>4, <1>7, <2>1
<1>9. ASSUME NEW i \in 1 .. Len(q) PROVE cn2[q[i]].pos = i - 1 /\ Pooled(cn2[q[i]])
  <2>1. CASE i = k
    <3>1. l # c /\ q[i] = l
      BY <1>2, <1>4, <1>7, <2>1 DEF PoolOK
    <3> QED
      BY <1>3, <2>1, <3>1
  <2>2. CASE i # k
    <3>1. q[i] = p[i] /\ p[i] # c /\ p[i] # l /\ i \in 1 .. Len(p)
      BY <1>2, <1>4, <1>7, <2>2 DEF PoolOK
    <3>2. cn2[p[i]] = cn[p[i]]
      BY <1>1, <3>1
    <3> QED
      BY <3>1, <3>2 DEF PoolOK
  <2> QED
    BY <2>1, <2>2
<1>10. ASSUME NEW d \in Conn, cn2[d].call = "pooled" PROVE \E i \in 1 .. Len(q) : q[i] = d
  <2>1. d # c
    BY <1>10
  <2>2. CASE d = l
    <3>1. k # Len(p)
      BY <1>2, <1>4, <2>1, <2>2
    <3>2. k \in 1 .. Len(q)
      BY <1>1, <1>6, <3>1
    <3> QED
      BY <1>7, <2>2, <3>2
  <2>3. CASE d # l
    <3>1. cn2[d] = cn[d]
      BY <2>1, <2>3
    <3>2. PICK i \in 1 .. Len(p) : p[i] = d
      BY <1>10, <3>1 DEF PoolOK
    <3>3. i # Len(p) /\ i # k
      BY <1>2, <1>4, <2>1, <2>3, <3>2
    <3>4. i \in 1 .. Len(q)
      BY ONLY <1>1, <1>6, <3>3, i \in 1 .. Len(p)
    <3> QED
      BY <1>7, <3>2, <3>3, <3>4
  <2> QED
    BY <2>2, <2>3
<1>11. PoolOK(q, cn2)
  BY <1>6, <1>8, <1>9, <1>10 DEF PoolOK
<1> QED
  BY <1>3, <1>11 DEF q, e

LEMMA DroppedSpare ==
  ASSUME ConnInv, NEW n \in 0 .. Len(pool), NEW d \in Dropped(pool, n)
  PROVE  d \in Conn /\ Spare(conn[d])
<1>1. pool \in Seq(Conn) /\ Len(pool) \in Nat /\ PoolOK(pool, conn)
  BY PoolIs DEF ConnInv, ConnTypeOK
<1>2. PICK k \in Len(pool) - n + 1 .. Len(pool) : pool[k] = d
  BY <1>1, DroppedIs
<1>3. k \in 1 .. Len(pool)
  BY <1>1
<1>4. d \in Conn /\ conn[d].call = "pooled"
  BY <1>1, <1>2, <1>3 DEF PoolOK, Pooled
<1> QED
  BY <1>4 DEF ConnInv, OwnersInv, Spare

------------------------------------------------------------------------------
(* The operations of a ctrler on the connection that it holds.             *)

Buffers == [Ctrler -> [size : Nat, recved : Nat, further : BOOLEAN]]

LEMMA HeldStep ==
  ASSUME ConnInv, NEW t \in Ctrler, NEW c \in Conn, held[t] = c,
         NEW q \in Record, q.ref = 1, q.parent = t, q.call \in Owned,
         NEW op \in Operation \union {"none"}, q.call \in Operation => q.call = op,
         conn' = [conn EXCEPT ![c] = q], awaits' = [awaits EXCEPT ![t] = op],
         UNCHANGED <<load, pool, held>>,
         recv' \in Buffers, \A u \in Ctrler : u # t => recv'[u] = recv[u],
         Watched(t, c, q, op, busy' = c), op = "recv" => BufferFits(recv'[t]),
         busy \in {None, c}, busy' \in {None, c},
         busy' # None => op = "recv" /\ recv'[t].recved < recv'[t].size
  PROVE  ConnInv'
<1>1. /\ OwnersInv /\ PoolExact /\ ConnTypeOK
      /\ conn \in [Conn -> Record] /\ held \in [Ctrler -> Conn \union {None}]
      /\ awaits \in [Ctrler -> Operation \union {"none"}] /\ pool \in Seq(Conn)
  BY DEF ConnInv, ConnTypeOK
<1>2. c # None /\ \A o \in Owned : o # "pooled"
  BY Nulls, Calls
<1>3. conn[c].call \in Owned
  BY <1>1, <1>2 DEF OwnersInv
<1>4. conn'[c] = q /\ \A d \in Conn : d # c => conn'[d] = conn[d]
  BY <1>1
<1>5. awaits'[t] = op /\ \A u \in Ctrler : u # t => awaits'[u] = awaits[u]
  BY <1>1
<1>6. ConnTypeOK'
  <2>1. conn' \in [Conn -> Record]
    BY <1>1
  <2>2. awaits' \in [Ctrler -> Operation \union {"none"}]
    BY <1>1
  <2> QED
    BY <1>1, <2>1, <2>2 DEF ConnTypeOK, Buffers
<1>7. PoolExact'
  <2>1. \A d \in Conn : conn'[d] = conn[d] \/ (conn[d].call # "pooled" /\ conn'[d].call # "pooled")
    BY <1>2, <1>3, <1>4
  <2> QED
    BY <1>1, <2>1, PoolExactSame
<1>8. held' = [held EXCEPT ![t] = c]
  BY <1>1
<1>9. Watched(t, c, conn'[c], awaits'[t], busy' = c)
  BY <1>4, <1>5
<1>10. Acts(t, c)
  BY <1>2, <1>3, <1>4, <1>5, <1>8, <1>9 DEF Acts
<1> QED
  BY <1>6, <1>7, <1>10, CtrlerStep

(* Ends(): the ctrler awaits nothing afterwards.                           *)
LEMMA EndsInv ==
  ASSUME ConnInv, NEW t \in Ctrler, NEW c \in Conn, held[t] = c,
         NEW r \in Record, r.ref = 1, r.parent = t, NEW err, Ends(t, c, r, err),
         UNCHANGED <<load, pool, held>>,
         recv' \in Buffers, \A u \in Ctrler : u # t => recv'[u] = recv[u],
         busy \in {None, c}, busy' = None
  PROVE  ConnInv'
<1> DEFINE q == Finished(r)
<1>1. q \in Record /\ q.ref = 1 /\ q.parent = t /\ q.call \in Owned /\ q.call \notin Operation
  BY FinishedRecord, Calls
<1>2. conn' = [conn EXCEPT ![c] = q] /\ awaits' = [awaits EXCEPT ![t] = "none"]
  BY DEF Ends
<1> HIDE DEF q
<1>3. Watched(t, c, q, "none", busy' = c)
  BY DEF Watched
<1> QED
  BY <1>1, <1>2, <1>3, HeldStep

LEMMA FailsInv ==
  ASSUME ConnInv, NEW t \in Ctrler, NEW c \in Conn, held[t] = c,
         NEW r \in Record, r.ref = 1, r.parent = t, Fails(t, c, r),
         UNCHANGED <<load, pool, held>>,
         recv' \in Buffers, \A u \in Ctrler : u # t => recv'[u] = recv[u],
         busy \in {None, c}, busy' = None
  PROVE  ConnInv'
<1> DEFINE q == Disconnected(r)
<1>1. q \in Record /\ q.ref = 1 /\ q.parent = t
  BY DisconnectedRecord
<1>2. Ends(t, c, q, "error")
  BY DEF Fails
<1> HIDE DEF q
<1> QED
  BY <1>1, <1>2, EndsInv

(* Waits(): the connection watches for what op needs.                      *)
LEMMA WaitsInv ==
  ASSUME ConnInv, NEW t \in Ctrler, NEW c \in Conn, held[t] = c,
         NEW r \in Record, r.ref = 1, r.fd, NEW op \in Operation, Waits(t, c, r, op),
         UNCHANGED <<load, pool, held>>,
         recv' \in Buffers, \A u \in Ctrler : u # t => recv'[u] = recv[u],
         busy' = c \/ ((IF op = "recv" THEN "in" ELSE "out") \in r.poll /\ r.result = {}),
         op = "recv" => BufferFits(recv'[t]),
         busy \in {None, c}, busy' \in {None, c},
         busy' # None => op = "recv" /\ recv'[t].recved < recv'[t].size
  PROVE  ConnInv'
<1> DEFINE q == [r EXCEPT !.call = op, !.parent = t]
<1>1. /\ q \in Record /\ q.ref = 1 /\ q.parent = t /\ q.call = op /\ q.fd
      /\ q.poll = r.poll /\ q.result = r.result
  <2>1. op \in Callback
    BY Calls
  <2>2. /\ q \in Record /\ q.ref = r.ref /\ q.parent = t /\ q.call = op
        /\ q.fd = r.fd /\ q.poll = r.poll /\ q.result = r.result
    BY ONLY <2>1, r \in Record, t \in Ctrler DEF Record
  <2> QED
    BY <2>2
<1>2. conn' = [conn EXCEPT ![c] = q] /\ awaits' = [awaits EXCEPT ![t] = op]
  BY DEF Waits
<1> HIDE DEF q
<1>3. c # None /\ op \in Owned
  BY Nulls, Calls
<1>4. Watched(t, c, q, op, busy' = c)
  BY <1>1, <1>3 DEF Watched
<1> QED
  BY <1>1, <1>2, <1>3, <1>4, HeldStep

LEMMA PollsInv ==
  ASSUME ConnInv, NEW t \in Ctrler, NEW c \in Conn, held[t] = c,
         NEW r \in Record, r.ref = 1, r.fd, NEW op \in Operation,
         NEW events \in SUBSET {"in", "out"},
         (IF op = "recv" THEN "in" ELSE "out") \in events,
         Waits(t, c, Polling(r, events), op),
         UNCHANGED <<load, pool, held>>,
         recv' \in Buffers, \A u \in Ctrler : u # t => recv'[u] = recv[u],
         op = "recv" => BufferFits(recv'[t]),
         busy \in {None, c}, busy' = None
  PROVE  ConnInv'
<1> DEFINE q == Polling(r, events)
<1>1. q \in Record /\ q.ref = 1 /\ q.fd /\ q.poll = events /\ q.result = {}
  BY PollingRecord
<1>2. Waits(t, c, q, op)
  OBVIOUS
<1> HIDE DEF q
<1> QED
  BY <1>1, <1>2, WaitsInv

LEMMA BuffersKept ==
  ASSUME ConnInv
  PROVE  recv \in Buffers
  BY DEF ConnInv, ConnTypeOK, Buffers

LEMMA RunConnectInv ==
  ASSUME ConnInv, busy = None, NEW t \in Ctrler, NEW c \in Conn, held[t] = c,
         NEW r \in Record, r.ref = 1, r.parent = t, RunConnect(t, c, r),
         UNCHANGED <<load, pool, held>>
  PROVE  ConnInv'
<1>1. recv' = recv /\ busy' = None /\ recv' \in Buffers
  BY BuffersKept DEF RunConnect
<1>2. CASE Fails(t, c, r)
  BY <1>1, <1>2, FailsInv
<1>3. CASE Ends(t, c, r, errnum[t])
  BY <1>1, <1>3, EndsInv
<1> QED
  BY <1>2, <1>3 DEF RunConnect

LEMMA RunSendInv ==
  ASSUME ConnInv, busy = None, NEW t \in Ctrler, NEW c \in Conn, held[t] = c,
         NEW r \in Record, r.ref = 1, r.parent = t, RunSend(t, c, r),
         UNCHANGED <<load, pool, held>>
  PROVE  ConnInv'
<1> DEFINE broken == r.over \/ {"hup", "rdhup", "in"} \intersect r.result # {}
           full == "out" \in r.poll \ r.result
<1>1. recv' = recv /\ busy' = None /\ recv' \in Buffers /\ "send" \in Operation
  BY BuffersKept DEF RunSend, Operation
<1>2. CASE Ends(t, c, [r EXCEPT !.timer = FALSE], "error")
  <2>1. /\ [r EXCEPT !.timer = FALSE] \in Record /\ [r EXCEPT !.timer = FALSE].ref = 1
        /\ [r EXCEPT !.timer = FALSE].parent = t
    BY DEF Record
  <2> QED
    BY <1>1, <1>2, <2>1, EndsInv
<1>3. CASE Fails(t, c, r)
  BY <1>1, <1>3, FailsInv
<1>4. CASE r.fd /\ ~broken /\ full /\ Waits(t, c, r, "send")
  <2>1. r.result = {} /\ "out" \in r.poll
    <3>1. r.result \subseteq Event
      BY DEF Record
    <3> QED
      BY <1>4, <3>1 DEF Event
  <2> QED
    BY <1>1, <1>4, <2>1, WaitsInv
<1>5. ASSUME r.fd, NEW n, Transmit(t, c, Timed(r, t), n)
      PROVE  ConnInv'
  <2> DEFINE q == Timed(r, t)
  <2>1. q \in Record /\ q.ref = 1 /\ q.parent = t /\ q.fd
    BY <1>5, TimedRecord
  <2>2. Ends(t, c, q, errnum[t]) \/ Waits(t, c, Polling(q, {"in", "out"}), "send")
    BY <1>5 DEF Transmit
  <2> HIDE DEF q
  <2>3. CASE Ends(t, c, q, errnum[t])
    BY <1>1, <2>1, <2>3, EndsInv
  <2>4. CASE Waits(t, c, Polling(q, {"in", "out"}), "send")
    BY <1>1, <2>1, <2>4, PollsInv
  <2> QED
    BY <2>2, <2>3, <2>4
<1> QED
  BY <1>2, <1>3, <1>4, <1>5 DEF RunSend

LEMMA RunRecvInv ==
  ASSUME ConnInv, busy = None, NEW t \in Ctrler, NEW c \in Conn, held[t] = c,
         NEW r \in Record, r.ref = 1, r.parent = t, BufferFits(recv[t]), RunRecv(t, c, r),
         UNCHANGED <<load, pool, held>>
  PROVE  ConnInv'
<1> DEFINE broken == r.over \/ "hup" \in r.result
<1>1. recv \in Buffers /\ "recv" \in Operation /\ c # None
  BY BuffersKept, Nulls DEF Operation
<1>2. CASE Ends(t, c, [r EXCEPT !.timer = FALSE], "error") /\ UNCHANGED <<recv, busy>>
  <2>1. /\ [r EXCEPT !.timer = FALSE] \in Record /\ [r EXCEPT !.timer = FALSE].ref = 1
        /\ [r EXCEPT !.timer = FALSE].parent = t
    BY DEF Record
  <2> QED
    BY <1>1, <1>2, <2>1, EndsInv
<1>3. CASE Fails(t, c, r) /\ UNCHANGED <<recv, busy>>
  BY <1>1, <1>3, FailsInv
<1>4. CASE r.fd /\ Waits(t, c, Polling(r, {"in"}), "recv") /\ UNCHANGED <<recv, busy>>
  BY <1>1, <1>4, PollsInv
<1>5. CASE /\ r.fd /\ Waits(t, c, Timed(r, t), "recv") /\ busy' = c
           /\ recv' = [recv EXCEPT ![t].size = IF @ = 0 THEN InitSize ELSE @]
  <2> DEFINE q == Timed(r, t)
  <2>1. q \in Record /\ q.ref = 1 /\ q.parent = t /\ q.fd /\ Waits(t, c, q, "recv")
    BY <1>5, TimedRecord
  <2> HIDE DEF q
  <2>2. InitSize \in Nat \ {0}
    BY TcpAssumption DEF TcpAssumption
  <2>3. recv[t].size \in Nat /\ recv[t].recved \in Nat /\ recv' \in Buffers
    BY <1>1, <1>5, <2>2 DEF Buffers
  <2>4. /\ recv'[t].size = IF recv[t].size = 0 THEN InitSize ELSE recv[t].size
        /\ recv'[t].recved = recv[t].recved
        /\ \A u \in Ctrler : u # t => recv'[u] = recv[u]
    BY <1>1, <1>5 DEF Buffers
  <2>5. recv'[t].recved < recv'[t].size
    BY <2>2, <2>3, <2>4 DEF BufferFits
  <2> QED
    BY <1>1, <1>5, <2>1, <2>3, <2>4, <2>5, WaitsInv DEF BufferFits
<1> QED
  BY <1>2, <1>3, <1>4, <1>5 DEF RunRecv

------------------------------------------------------------------------------
(* recv() and what recv_check() makes of it.                               *)

LEMMA LeastOfTwo ==
  ASSUME NEW a \in Nat, NEW b \in Nat
  PROVE  Min({a, b}) \in Nat /\ Min({a, b}) <= a /\ Min({a, b}) <= b
  BY DEF Min

(* The connection that is about to call recv()                             *)
LEMMA BusyConn ==
  ASSUME ConnInv, busy # None
  PROVE  /\ busy \in Conn /\ conn[busy] \in Record /\ conn[busy].call = "recv"
         /\ conn[busy].ref = 1 /\ conn[busy].fd /\ conn[busy].parent \in Ctrler
         /\ held[conn[busy].parent] = busy /\ awaits[conn[busy].parent] = "recv"
         /\ recv[conn[busy].parent].recved < recv[conn[busy].parent].size
<1>1. busy \in Conn /\ conn[busy] \in Record /\ conn[busy].call = "recv"
  BY DEF ConnInv, ConnTypeOK, RecvInv
<1>2. "recv" \in Owned /\ "recv" # "none"
  BY DEF Owned, Operation
<1>3. /\ conn[busy].ref = 1 /\ conn[busy].parent \in Ctrler
      /\ held[conn[busy].parent] = busy /\ awaits[conn[busy].parent] = "recv"
  BY <1>1, <1>2 DEF ConnInv, OwnersInv, RecvInv
<1>4. conn[busy].fd
  BY <1>2, <1>3 DEF ConnInv, WaitersPolled
<1>5. recv[conn[busy].parent].recved < recv[conn[busy].parent].size
  BY DEF ConnInv, RoomToRecv
<1> QED
  BY <1>1, <1>3, <1>4, <1>5

LEMMA RecvOverInv ==
  ASSUME ConnInv, busy # None, NEW t, NEW c, c = busy, t = conn[c].parent,
         RecvEnds(t, c) \/ RecvFails(t, c), UNCHANGED <<load, pool, held>>,
         recv' \in Buffers, \A u \in Ctrler : u # t => recv'[u] = recv[u]
  PROVE  ConnInv'
<1>1. /\ c \in Conn /\ conn[c] \in Record /\ conn[c].ref = 1
      /\ t \in Ctrler /\ held[t] = c
  BY BusyConn
<1>2. CASE Ends(t, c, Disconnected(conn[c]), "ok") /\ busy' = None
  <2> DEFINE q == Disconnected(conn[c])
  <2>1. q \in Record /\ q.ref = 1 /\ q.parent = t /\ Ends(t, c, q, "ok")
    BY <1>1, <1>2, DisconnectedRecord
  <2> HIDE DEF q
  <2> QED
    BY <1>1, <1>2, <2>1, EndsInv
<1>3. CASE Ends(t, c, conn[c], errnum[t]) /\ busy' = None
  BY <1>1, <1>3, EndsInv
<1>4. CASE Fails(t, c, conn[c]) /\ busy' = None
  BY <1>1, <1>4, FailsInv
<1> QED
  BY <1>2, <1>3, <1>4 DEF RecvEnds, RecvFails

LEMMA RecvMoreInv ==
  ASSUME ConnInv, busy # None, NEW t, NEW c, c = busy, t = conn[c].parent,
         RecvMore(t, c) \/ RecvPolls(t, c), UNCHANGED <<load, pool, held>>,
         recv' \in Buffers, \A u \in Ctrler : u # t => recv'[u] = recv[u],
         BufferFits(recv'[t])
  PROVE  ConnInv'
<1>1. /\ c \in Conn /\ conn[c] \in Record /\ conn[c].ref = 1 /\ conn[c].fd
      /\ t \in Ctrler /\ held[t] = c
  BY BusyConn
<1>2. CASE RecvFails(t, c)
  BY <1>2, RecvOverInv
<1>3. CASE Waits(t, c, Polling(conn[c], {"in"}), "recv") /\ busy' = None
  <2>1. "recv" \in Operation
    BY DEF Operation
  <2> QED
    BY <1>1, <1>3, <2>1, PollsInv
<1> QED
  BY <1>2, <1>3 DEF RecvMore, RecvPolls

(* A buffer that was full is larger afterwards, one that was not has room. *)
LEMMA BufferGrows ==
  ASSUME NEW size \in Nat, NEW n \in Nat, NEW x \in Nat, 0 < n, n <= size, x = 0 \/ n < x
  PROVE  BufferSize(size, n, x) \in Nat /\ n < BufferSize(size, n, x)
  BY DEF BufferSize

LEMMA NotEnoughInv ==
  ASSUME ConnInv, busy # None, NEW t, NEW c, c = busy, t = conn[c].parent,
         NEW n \in Nat, NEW x \in Nat, NEW announced \in BOOLEAN,
         0 < n, n <= recv[t].size, x = 0 \/ n < x,
         NotEnough(t, c, n, x, announced), UNCHANGED <<load, pool, held>>
  PROVE  ConnInv'
<1>1. /\ c \in Conn /\ conn[c] \in Record /\ conn[c].ref = 1 /\ conn[c].fd
      /\ conn[c].call = "recv" /\ t \in Ctrler /\ held[t] = c /\ awaits[t] = "recv"
  BY BusyConn
<1>2. recv \in Buffers /\ recv[t].size \in Nat
  BY <1>1, BuffersKept DEF Buffers
<1> DEFINE size == BufferSize(recv[t].size, n, x)
<1>3. size \in Nat /\ n < size
  BY <1>2, BufferGrows
<1>4. recv' = [recv EXCEPT ![t] = [size |-> size, recved |-> n, further |-> announced]]
  BY DEF NotEnough
<1> HIDE DEF size
<1>5. /\ recv' \in Buffers /\ \A u \in Ctrler : u # t => recv'[u] = recv[u]
      /\ recv'[t].recved < recv'[t].size
  BY <1>1, <1>2, <1>3, <1>4 DEF Buffers
<1>6. BufferFits(recv'[t])
  BY <1>5 DEF BufferFits
<1>7. CASE UNCHANGED <<conn, awaits, errnum, busy>>
  <2> DEFINE q == conn[c]
  <2>1. /\ q \in Record /\ q.ref = 1 /\ q.parent = t /\ q.call = "recv"
        /\ conn' = [conn EXCEPT ![c] = q] /\ awaits' = [awaits EXCEPT ![t] = "recv"]
    BY <1>1, <1>7 DEF ConnInv, ConnTypeOK
  <2>2. Watched(t, c, q, "recv", busy' = c)
    BY <1>1, <1>7 DEF Watched
  <2>3. "recv" \in Owned /\ "recv" \in Operation \union {"none"}
    BY DEF Owned, Operation
  <2>4. busy \in {None, c} /\ busy' \in {None, c}
    BY <1>7
  <2> HIDE DEF q
  <2> QED
    BY <1>1, <1>5, <1>6, <2>1, <2>2, <2>3, <2>4, HeldStep
<1>8. CASE RecvMore(t, c)
  BY <1>5, <1>6, <1>8, RecvMoreInv
<1> QED
  BY <1>7, <1>8 DEF NotEnough

LEMMA RecvLabelInv ==
  ASSUME ConnInv, RecvLabel
  PROVE  ConnInv'
<1> DEFINE c == busy
           t == conn[c].parent
<1>1. /\ busy # None /\ t \in Ctrler /\ recv[t].recved < recv[t].size
      /\ UNCHANGED <<load, pool, held>>
  BY BusyConn DEF RecvLabel
<1>2. recv \in Buffers /\ recv[t].size \in Nat /\ recv[t].recved \in Nat /\ load.reply \in Nat
  BY <1>1, BuffersKept, TcpAssumption DEF Buffers, ConnInv, ConnTypeOK, TcpAssumption
<1>3. ASSUME NEW n \in recv[t].recved + 1 .. Min({recv[t].size, load.reply}), Received(t, c, n)
      PROVE  ConnInv'
  <2>1. n \in Nat /\ 0 < n /\ n <= recv[t].size
    BY <1>2, <1>3, LeastOfTwo
  <2>2. CASE recv[t].further
    <3>1. recv' = [recv EXCEPT ![t].recved = n]
      BY <1>3, <2>2 DEF Received
    <3>2. /\ recv' \in Buffers /\ \A u \in Ctrler : u # t => recv'[u] = recv[u]
          /\ recv'[t].recved = n /\ recv'[t].size = recv[t].size
      BY <1>1, <1>2, <2>1, <3>1 DEF Buffers
    <3>3. CASE n = recv[t].size /\ RecvEnds(t, c)
      BY <1>1, <3>2, <3>3, RecvOverInv
    <3>4. CASE n # recv[t].size /\ RecvMore(t, c)
      <4>1. BufferFits(recv'[t])
        BY <1>2, <2>1, <3>2, <3>4 DEF BufferFits
      <4> QED
        BY <1>1, <3>2, <3>4, <4>1, RecvMoreInv
    <3> QED
      BY <1>3, <2>2, <3>3, <3>4 DEF Received
  <2>3. CASE recv' = [recv EXCEPT ![t].recved = n] /\ (RecvEnds(t, c) \/ RecvFails(t, c))
    <3>1. recv' \in Buffers /\ \A u \in Ctrler : u # t => recv'[u] = recv[u]
      BY <1>1, <1>2, <2>1, <2>3 DEF Buffers
    <3> QED
      BY <1>1, <2>3, <3>1, RecvOverInv
  <2>4. CASE NoMemory(t, c, n)
    <3>1. recv' \in Buffers /\ \A u \in Ctrler : u # t => recv'[u] = recv[u]
      BY <1>1, <1>2, <2>1, <2>4 DEF NoMemory, Buffers
    <3>2. RecvFails(t, c)
      BY <2>4 DEF NoMemory
    <3> QED
      BY <1>1, <3>1, <3>2, RecvOverInv
  <2>5. ASSUME NEW x \in {0} \union n + 1 .. load.reply, NEW announced \in BOOLEAN,
               NotEnough(t, c, n, x, announced)
        PROVE  ConnInv'
    <3>1. x \in Nat /\ (x = 0 \/ n < x)
      BY <1>2, <2>1
    <3> QED
      BY <1>1, <2>1, <2>5, <3>1, NotEnoughInv
  <2> QED
    BY <1>3, <2>2, <2>3, <2>4, <2>5 DEF Received
<1>4. CASE RecvFails(t, c) /\ UNCHANGED recv
  BY <1>1, <1>2, <1>4, RecvOverInv
<1>5. CASE RecvPolls(t, c) /\ UNCHANGED recv
  <2>1. BufferFits(recv'[t])
    BY <1>1, <1>5 DEF BufferFits
  <2> QED
    BY <1>1, <1>2, <1>5, <2>1, RecvMoreInv
<1> QED
  BY <1>3, <1>4, <1>5 DEF RecvLabel

------------------------------------------------------------------------------
(* Events.                                                                 *)

LEMMA StopPollInv ==
  ASSUME ConnInv, busy = None, NEW t \in Ctrler, NEW c \in Conn, held[t] = c,
         NEW r \in Record, r.ref = 1, r.parent = t, r.call = "stop_poll",
         awaits[t] = "none", StopPoll(t, c, r), UNCHANGED <<load, held>>
  PROVE  ConnInv'
<1>1. awaits' = [awaits EXCEPT ![t] = "none"] /\ recv' = recv /\ busy' = None /\ pool' = pool
  BY DEF StopPoll, ConnInv, ConnTypeOK
<1>2. recv' \in Buffers /\ "stop_poll" \in Owned /\ "stop_poll" \notin Operation
  BY <1>1, BuffersKept, Calls
<1>3. ASSUME NEW q \in Record, q.ref = 1, q.parent = t, q.call = "stop_poll",
             conn' = [conn EXCEPT ![c] = q]
      PROVE  ConnInv'
  <2>1. Watched(t, c, q, "none", busy' = c)
    BY DEF Watched
  <2> QED
    BY <1>1, <1>2, <1>3, <2>1, HeldStep
<1>4. CASE conn' = [conn EXCEPT ![c] = Disconnected(r)]
  BY <1>3, <1>4, DisconnectedRecord
<1>5. CASE conn' = [conn EXCEPT ![c] = [r EXCEPT !.timer = FALSE, !.poll = {}]]
  <2> DEFINE q == [r EXCEPT !.timer = FALSE, !.poll = {}]
  <2>1. q \in Record /\ q.ref = 1 /\ q.parent = t /\ q.call = "stop_poll"
    BY DEF Record
  <2>2. conn' = [conn EXCEPT ![c] = q]
    BY <1>5
  <2> HIDE DEF q
  <2> QED
    BY <1>3, <2>1, <2>2
<1> QED
  BY <1>4, <1>5 DEF StopPoll

(* A connection that is given up is deleted by its callback.               *)
LEMMA ReleaseInv ==
  ASSUME ConnInv, NEW c \in Conn, conn[c].call = "release",
         conn' = [conn EXCEPT ![c] = Deleted], UNCHANGED <<load, pool, held, awaits, recv, busy>>
  PROVE  ConnInv'
<1>1. conn \in [Conn -> Record] /\ pool \in Seq(Conn) /\ PoolExact /\ conn[c].ref = 1
  BY DEF ConnInv, ConnTypeOK, OwnersInv
<1>2. conn'[c] = Deleted /\ \A d \in Conn : d # c => conn'[d] = conn[d]
  BY <1>1
<1>3. ConnTypeOK'
  BY NewRecords DEF ConnInv, ConnTypeOK
<1>4. PoolExact'
  <2>1. Deleted.call # "pooled"
    BY NewRecords
  <2>2. \A d \in Conn : conn'[d] = conn[d] \/ (conn[d].call # "pooled" /\ conn'[d].call # "pooled")
    BY <1>2, <2>1
  <2> QED
    BY <1>1, <2>2, PoolExactSame
<1>5. Spare(conn[c])
  BY <1>1 DEF Spare
<1> QED
  BY <1>2, <1>3, <1>4, <1>5, SpareStep

(* A connection leaves the pool, and the last one takes its place.         *)
LEMMA RemoveInv ==
  ASSUME ConnInv, NEW c \in Conn, conn[c].call = "pooled", RemoveKeepAlive(c),
         UNCHANGED <<load, held, awaits, recv, busy>>
  PROVE  ConnInv'
<1> DEFINE l == Last(pool)
           moved == [conn[l] EXCEPT !.pos = conn[c].pos]
<1>1. /\ conn \in [Conn -> Record] /\ pool \in Seq(Conn) /\ OwnersInv /\ PoolOK(pool, conn)
  BY PoolIs DEF ConnInv, ConnTypeOK
<1>2. PICK k \in 1 .. Len(pool) : pool[k] = c
  BY <1>1 DEF PoolOK
<1>3. l \in Conn /\ l = pool[Len(pool)] /\ Len(pool) \in 1 .. Len(pool) /\ pool # << >>
  BY <1>1, <1>2 DEF Last
<1>4. conn[l] \in Record /\ Pooled(conn[l]) /\ conn[l].ref = 1 /\ conn[c].ref = 1 /\ conn[c].pos \in Nat
  <2>1. conn[l] \in Record /\ conn[c] \in Record /\ Pooled(conn[l])
    BY <1>1, <1>3 DEF PoolOK
  <2>2. conn[l].call = "pooled" /\ conn[c].pos \in Nat
    BY <2>1 DEF Pooled, Record
  <2>3. conn[l].ref = 1 /\ conn[c].ref = 1
    BY <1>1, <1>3, <2>2 DEF OwnersInv
  <2> QED
    BY <2>1, <2>2, <2>3
<1> HIDE DEF l
<1>5. /\ moved \in Record /\ moved.pos = conn[c].pos /\ moved.ref = 1 /\ Pooled(moved)
  BY <1>4 DEF Record, Pooled
<1>6. Moved(c) = [conn EXCEPT ![l] = moved]
  BY <1>1, <1>3 DEF Moved, l
<1>7. /\ Moved(c)[l] = moved /\ Moved(c)[c].ref = 1
      /\ \A d \in Conn : d # l => Moved(c)[d] = conn[d]
      /\ Moved(c) \in [Conn -> Record] /\ Moved(c)[c] \in Record
  BY <1>1, <1>3, <1>4, <1>5, <1>6
<1> HIDE DEF moved
<1>8. conn' = [Moved(c) EXCEPT ![c] = Deleted]
  BY <1>7 DEF RemoveKeepAlive, Released
<1>9. /\ conn' \in [Conn -> Record] /\ conn'[c] = Deleted
      /\ l # c => conn'[l] = moved
      /\ \A d \in Conn : d # c /\ d # l => conn'[d] = conn[d]
  BY <1>3, <1>7, <1>8, NewRecords
<1>10. PoolOK(pool', conn')
  <2>1. pool' = Front([pool EXCEPT ![conn[c].pos + 1] = Last(pool)])
    BY DEF RemoveKeepAlive
  <2>2. conn'[c].call # "pooled"
    BY <1>9, NewRecords
  <2>3. /\ l # c => conn'[l].pos = conn[c].pos /\ Pooled(conn'[l])
        /\ \A d \in Conn : d # c /\ d # l => conn'[d] = conn[d]
    BY <1>5, <1>9
  <2>4. l = Last(pool)
    BY DEF l
  <2>5. pool' = Front([pool EXCEPT ![conn[c].pos + 1] = l])
    BY <2>1, <2>4
  <2> QED
    BY <1>1, <2>2, <2>3, <2>4, <2>5, PoolRemove
<1>11. PoolExact' /\ pool' \in Seq(Conn)
  BY <1>10, PoolIs
<1>12. ConnTypeOK'
  BY <1>9, <1>11 DEF ConnInv, ConnTypeOK
<1>13. Spare(conn[c]) /\ Spare(conn[l]) /\ Spare(moved)
  BY <1>4, <1>5 DEF Spare, Pooled
<1> QED
  BY <1>3, <1>9, <1>11, <1>12, <1>13, SpareStep

LEMMA NotifyInv ==
  ASSUME ConnInv, busy = None, NEW c \in Conn, NEW r \in Record, Notify(c, r),
         r.ref = conn[c].ref, r.parent = conn[c].parent, r.call = conn[c].call
  PROVE  ConnInv'
<1> DEFINE t == r.parent
<1>1. UNCHANGED <<load, held>>
  BY DEF Notify
<1>2. ASSUME r.call \in Owned
      PROVE  /\ t \in Ctrler /\ held[t] = c /\ r.ref = 1
             /\ r.call \in Operation => awaits[t] = r.call
             /\ r.call = "stop_poll" => awaits[t] = "none"
  <2>1. /\ t \in Ctrler /\ held[t] = c /\ r.ref = 1
        /\ r.call \in Operation => awaits[t] = r.call
    BY <1>2, Calls DEF ConnInv, OwnersInv
  <2>2. awaits[t] \in Operation \union {"none"}
    BY <2>1 DEF ConnInv, ConnTypeOK
  <2>3. awaits[t] # "none" => r.call = awaits[t]
    BY <2>1 DEF ConnInv, WaitersPolled
  <2> QED
    BY <2>1, <2>2, <2>3, Calls
<1>3. Operation \subseteq Owned /\ "stop_poll" \in Owned
  BY Calls
<1>4. CASE r.call = "connect" /\ RunConnect(t, c, r) /\ UNCHANGED pool
  <2>1. r.call \in Owned
    BY <1>4 DEF Owned, Operation
  <2> QED
    BY <1>1, <1>2, <1>4, <2>1, RunConnectInv
<1>5. CASE r.call = "send" /\ RunSend(t, c, r) /\ UNCHANGED pool
  <2>1. r.call \in Owned
    BY <1>5 DEF Owned, Operation
  <2> QED
    BY <1>1, <1>2, <1>5, <2>1, RunSendInv
<1>6. CASE r.call = "recv" /\ RunRecv(t, c, r) /\ UNCHANGED pool
  <2>1. r.call \in Owned /\ r.call \in Operation
    BY <1>6 DEF Owned, Operation
  <2>2. BufferFits(recv[t])
    BY <1>2, <1>6, <2>1 DEF ConnInv, RecvInv, BufferFits
  <2> QED
    BY <1>1, <1>2, <1>6, <2>1, <2>2, RunRecvInv
<1>7. CASE r.call = "stop_poll" /\ StopPoll(t, c, r)
  BY <1>1, <1>2, <1>3, <1>7, StopPollInv
<1>8. CASE /\ r.call = "pooled" /\ RemoveKeepAlive(c)
           /\ UNCHANGED <<awaits, errnum, timeout, output, recv, busy>>
  BY <1>1, <1>8, RemoveInv
<1>9. CASE /\ r.call = "release" /\ conn' = [conn EXCEPT ![c] = Released(r)]
           /\ UNCHANGED <<pool, awaits, errnum, timeout, output, recv, busy>>
  <2>1. r.ref = 1
    BY <1>9 DEF ConnInv, OwnersInv
  <2>2. Released(r) = Deleted
    BY <2>1 DEF Released
  <2> QED
    BY <1>1, <1>9, <2>2, ReleaseInv
<1> QED
  BY <1>4, <1>5, <1>6, <1>7, <1>8, <1>9 DEF Notify

LEMMA TimedOutInv ==
  ASSUME ConnInv, NEW c \in Conn, TimedOut(c)
  PROVE  ConnInv'
<1> DEFINE r == [conn[c] EXCEPT !.timer = FALSE, !.over = TRUE]
<1>1. conn[c] \in Record
  BY DEF ConnInv, ConnTypeOK
<1>2. r \in Record /\ r.ref = conn[c].ref /\ r.parent = conn[c].parent /\ r.call = conn[c].call
  BY <1>1 DEF Record
<1>3. Notify(c, r) /\ busy = None
  BY DEF TimedOut, Quiet
<1> HIDE DEF r
<1> QED
  BY <1>2, <1>3, NotifyInv

LEMMA PolledInv ==
  ASSUME ConnInv, NEW c \in Conn, Polled(c)
  PROVE  ConnInv'
<1>1. PICK events \in {{"in"}, {"in", "rdhup"}, {"out"}, {"in", "out"}, {"hup"}} :
        Notify(c, [conn[c] EXCEPT !.result = events])
  BY DEF Polled
<1> DEFINE r == [conn[c] EXCEPT !.result = events]
<1>2. conn[c] \in Record /\ events \in SUBSET Event
  BY DEF ConnInv, ConnTypeOK, Event
<1>3. r \in Record /\ r.ref = conn[c].ref /\ r.parent = conn[c].parent /\ r.call = conn[c].call
  BY <1>2 DEF Record
<1>4. Notify(c, r) /\ busy = None
  BY <1>1 DEF Polled, Quiet
<1> HIDE DEF r
<1> QED
  BY <1>3, <1>4, NotifyInv

------------------------------------------------------------------------------
(* The end of an exchange.                                                 *)

(* The ctrler of an idle operation, and the connection that it holds       *)
LEMMA IdleConn ==
  ASSUME ConnInv, NEW t \in Ctrler, Idle(t)
  PROVE  /\ busy = None /\ awaits[t] = "none"
         /\ held[t] # None => /\ held[t] \in Conn /\ conn[held[t]] \in Record
                              /\ conn[held[t]].ref = 1 /\ conn[held[t]].parent = t
                              /\ conn[held[t]].call = "stop_poll"
<1>1. busy = None /\ awaits[t] = "none"
  BY DEF Idle, Quiet
<1>2. ASSUME held[t] # None
      PROVE  /\ held[t] \in Conn /\ conn[held[t]] \in Record
             /\ conn[held[t]].ref = 1 /\ conn[held[t]].parent = t
             /\ conn[held[t]].call = "stop_poll"
  <2>1. held[t] \in Conn /\ conn[held[t]] \in Record
    BY <1>2 DEF ConnInv, ConnTypeOK
  <2>2. conn[held[t]].call \in Owned /\ conn[held[t]].parent = t
    BY <1>2 DEF ConnInv, OwnersInv
  <2>3. conn[held[t]].ref = 1 /\ conn[held[t]].call \notin Operation
    BY <1>1, <2>1, <2>2, Calls DEF ConnInv, OwnersInv
  <2> QED
    BY <2>1, <2>2, <2>3, Calls
<1> QED
  BY <1>1, <1>2

(* A connection that its ctrler lets go is deleted.                        *)
LEMMA LetGoInv ==
  ASSUME ConnInv, NEW t \in Ctrler, Idle(t), held[t] # None, LetGo(t),
         UNCHANGED <<load, pool, awaits, recv, busy>>
  PROVE  ConnInv'
<1> DEFINE c == held[t]
<1>1. /\ busy = None /\ awaits[t] = "none" /\ c \in Conn /\ conn[c] \in Record
      /\ conn[c].ref = 1 /\ conn[c].parent = t /\ conn[c].call = "stop_poll"
  BY IdleConn
<1>2. Released(conn[c]) = Deleted
  BY <1>1 DEF Released
<1>3. /\ conn \in [Conn -> Record] /\ held \in [Ctrler -> Conn \union {None}]
      /\ pool \in Seq(Conn) /\ PoolExact
  BY DEF ConnInv, ConnTypeOK
<1>4. conn' = [conn EXCEPT ![c] = Deleted] /\ held' = [held EXCEPT ![t] = None]
  BY <1>2, <1>3 DEF LetGo
<1>5. conn'[c] = Deleted /\ \A d \in Conn : d # c => conn'[d] = conn[d]
  BY <1>1, <1>3, <1>4
<1>6. ConnTypeOK'
  BY <1>3, <1>4, NewRecords DEF ConnInv, ConnTypeOK
<1>7. PoolExact'
  <2>1. Deleted.call # "pooled"
    BY NewRecords
  <2>2. \A d \in Conn : conn'[d] = conn[d] \/ (conn[d].call # "pooled" /\ conn'[d].call # "pooled")
    BY <1>1, <1>5, <2>1
  <2> QED
    BY <1>3, <2>2, PoolExactSame
<1>8. None \in Conn \union {None} /\ Watched(t, None, conn'[None], awaits'[t], busy' = None)
  BY <1>1 DEF Watched
<1>9. awaits'[t] # "recv" /\ busy' = None
  BY <1>1
<1> HIDE DEF c
<1>10. held[t] = c
  BY DEF c
<1>11. Acts(t, None)
  BY <1>1, <1>4, <1>5, <1>8, <1>9, <1>10 DEF Acts
<1> QED
  BY <1>6, <1>7, <1>11, CtrlerStep

LEMMA OnConnectionInactiveInv ==
  ASSUME ConnInv, NEW t \in Ctrler, OnConnectionInactive(t)
  PROVE  ConnInv'
<1> DEFINE c == held[t]
           q == KeptAlive(conn[c], Len(pool))
<1>1. /\ Idle(t) /\ c # None /\ UNCHANGED <<load, awaits, recv, busy>>
  BY DEF OnConnectionInactive
<1>2. /\ busy = None /\ awaits[t] = "none" /\ c \in Conn /\ conn[c] \in Record
      /\ conn[c].ref = 1 /\ conn[c].call = "stop_poll"
  BY <1>1, IdleConn
<1>3. CASE LetGo(t) /\ UNCHANGED pool
  BY <1>1, <1>3, LetGoInv
<1>4. CASE /\ conn[c].fd /\ pool' = Append(pool, c)
           /\ conn' = [conn EXCEPT ![c] = KeptAlive(@, Len(pool))]
           /\ held' = [held EXCEPT ![t] = None]
  <2>1. /\ conn \in [Conn -> Record] /\ held \in [Ctrler -> Conn \union {None}]
        /\ pool \in Seq(Conn) /\ Len(pool) \in Nat /\ PoolOK(pool, conn)
    BY PoolIs DEF ConnInv, ConnTypeOK
  <2>2. conn' = [conn EXCEPT ![c] = q]
    BY <1>4, <2>1
  <2>3. /\ q \in Record /\ q.ref = 1 /\ q.parent = None /\ q.call = "pooled"
        /\ q.fd /\ q.poll = {"in"} /\ q.timer /\ q.pos = Len(pool)
    <3>1. /\ q \in Record /\ q.ref = conn[c].ref /\ q.parent = None /\ q.call = "pooled"
          /\ q.fd = conn[c].fd /\ q.poll = {"in"} /\ q.timer /\ q.pos = Len(pool)
      BY <1>2, <2>1, KeptAliveRecord
    <3> QED
      BY <1>2, <1>4, <3>1
  <2> HIDE DEF q
  <2>4. Pooled(q) /\ Spare(q)
    BY <2>3 DEF Pooled, Spare
  <2>5. conn'[c] = q /\ \A d \in Conn : d # c => conn'[d] = conn[d]
    BY <1>2, <2>1, <2>2
  <2>6. PoolOK(pool', conn')
    <3>1. conn[c].call # "pooled" /\ Pooled(conn'[c]) /\ conn'[c].pos = Len(pool)
      BY <1>2, <2>3, <2>4, <2>5
    <3> QED
      <4>1. PoolOK(Append(pool, c), conn')
        BY ONLY <1>2, <2>1, <2>5, <3>1, PoolAdd
      <4> QED
        BY <1>4, <4>1
  <2>7. PoolExact' /\ pool' \in Seq(Conn)
    BY <2>6, PoolIs
  <2>8. ConnTypeOK'
    BY <1>1, <1>4, <2>1, <2>2, <2>3, <2>7 DEF ConnInv, ConnTypeOK
  <2>9. None \in Conn \union {None} /\ Watched(t, None, conn'[None], awaits'[t], busy' = None)
    BY <1>1, <1>2 DEF Watched
  <2>10. awaits'[t] # "recv" /\ busy' = None
    BY <1>1, <1>2
  <2>11. \A u \in Ctrler : u # t => awaits'[u] = awaits[u] /\ recv'[u] = recv[u]
    BY <1>1
  <2>12. \A d \in Conn : d # None /\ d # held[t] =>
          conn'[d] = conn[d] \/ (Spare(conn[d]) /\ (conn'[d] = Deleted \/ Spare(conn'[d])))
    BY <2>5
  <2>13. Acts(t, None)
    BY <1>1, <1>2, <1>4, <2>4, <2>5, <2>9, <2>10, <2>11, <2>12 DEF Acts
  <2> QED
    BY <2>7, <2>8, <2>13, CtrlerStep
<1> QED
  BY <1>3, <1>4 DEF OnConnectionInactive, Keeps

LEMMA OnFinishInv ==
  ASSUME ConnInv, NEW t \in Ctrler, OnFinish(t)
  PROVE  ConnInv'
  BY LetGoInv DEF OnFinish

LEMMA CloseConnectionInv ==
  ASSUME ConnInv, NEW t \in Ctrler, CloseConnection(t)
  PROVE  ConnInv'
<1> DEFINE c == held[t]
           q == Disconnected(conn[c])
<1>1. Idle(t) /\ held[t] # None /\ UNCHANGED <<load, pool, held, awaits, recv, busy>>
  BY DEF CloseConnection
<1>2. /\ busy = None /\ awaits[t] = "none" /\ c \in Conn /\ conn[c] \in Record
      /\ conn[c].ref = 1 /\ conn[c].parent = t /\ conn[c].call = "stop_poll"
  BY <1>1, IdleConn
<1>3. /\ q \in Record /\ q.ref = 1 /\ q.parent = t /\ q.call = "stop_poll"
  BY <1>2, DisconnectedRecord
<1>4. conn' = [conn EXCEPT ![c] = q] /\ awaits' = [awaits EXCEPT ![t] = "none"]
  BY <1>1, <1>2 DEF CloseConnection, ConnInv, ConnTypeOK
<1> HIDE DEF q
<1>5. Watched(t, c, q, "none", busy' = c)
  BY DEF Watched
<1>6. recv' = recv /\ recv' \in Buffers /\ "stop_poll" \in Owned /\ "stop_poll" \notin Operation
  BY <1>1, BuffersKept, Calls
<1> QED
  BY <1>1, <1>2, <1>3, <1>4, <1>5, <1>6, HeldStep

(* A step that changes no connection, and no buffer that is being filled   *)
LEMMA ElsewhereInv ==
  ASSUME ConnInv, UNCHANGED <<load, conn, pool, held, awaits, busy>>, recv' \in Buffers,
         \A u \in Ctrler : recv'[u] = recv[u] \/ awaits[u] = "none"
  PROVE  ConnInv'
<1>1. ConnTypeOK'
  BY DEF ConnInv, ConnTypeOK, Buffers
<1>2. OwnersInv' /\ PoolExact' /\ WaitersPolled'
  BY DEF ConnInv, OwnersInv, PoolExact, WaitersPolled
<1>3. RecvInv' /\ RoomToRecv'
  <2>1. busy # None => recv'[conn[busy].parent] = recv[conn[busy].parent]
    BY BusyConn
  <2>2. \A u \in Ctrler : awaits[u] = "recv" => recv'[u] = recv[u]
    OBVIOUS
  <2> QED
    BY <2>1, <2>2 DEF ConnInv, RecvInv, RoomToRecv
<1> QED
  BY <1>1, <1>2, <1>3 DEF ConnInv

LEMMA ClearInv ==
  ASSUME ConnInv, NEW t \in Ctrler, Clear(t)
  PROVE  ConnInv'
<1>1. /\ awaits[t] = "none" /\ UNCHANGED <<load, conn, pool, held, awaits, busy>>
      /\ recv' = [recv EXCEPT ![t].recved = 0, ![t].further = FALSE]
  BY DEF Clear, Idle
<1>2. recv' \in Buffers /\ \A u \in Ctrler : u # t => recv'[u] = recv[u]
  BY <1>1, BuffersKept DEF Buffers
<1> QED
  BY <1>1, <1>2, ElsewhereInv

LEMMA ClearKeepAliveInv ==
  ASSUME ConnInv, ClearKeepAlive
  PROVE  ConnInv'
<1>1. PICK n \in 1 .. Len(pool) :
        /\ conn' = [c \in Conn |-> IF c \in Dropped(pool, n) THEN OutOfPool(conn[c])
                                   ELSE conn[c]]
        /\ pool' = Kept(pool, n)
  BY DEF ClearKeepAlive
<1>2. /\ conn \in [Conn -> Record] /\ pool \in Seq(Conn) /\ PoolOK(pool, conn)
      /\ Len(pool) \in Nat /\ n \in 0 .. Len(pool)
      /\ UNCHANGED <<load, held, awaits, recv, busy>>
  BY PoolIs DEF ConnInv, ConnTypeOK, ClearKeepAlive, ctrlers
<1>3. ASSUME NEW d \in Dropped(pool, n) PROVE Spare(conn[d]) /\ d \in Conn
  BY <1>2, DroppedSpare
<1>4. ASSUME NEW d \in Conn
      PROVE  OutOfPool(conn[d]) \in Record /\ OutOfPool(conn[d]).call = "release"
             /\ OutOfPool(conn[d]).ref = conn[d].ref
  <2>1. conn[d] \in Record
    BY <1>2
  <2> QED
    BY <2>1, OutOfPoolRecord
<1>5. conn' \in [Conn -> Record] /\ \A d \in Conn :
        conn'[d] = IF d \in Dropped(pool, n) THEN OutOfPool(conn[d]) ELSE conn[d]
  BY <1>1, <1>2, <1>4
<1>6. PoolOK(pool', conn')
  <2>1. \A d \in Conn :
          IF d \in Dropped(pool, n) THEN conn'[d].call # "pooled"
          ELSE conn'[d] = conn[d] \/ (conn[d].call # "pooled" /\ conn'[d].call # "pooled")
    BY <1>4, <1>5
  <2>2. PoolOK(Kept(pool, n), conn')
    BY ONLY <1>2, <2>1, PoolDrop
  <2> QED
    BY <1>1, <2>2
<1>7. PoolExact' /\ pool' \in Seq(Conn)
  BY <1>6, PoolIs
<1>8. ConnTypeOK'
  BY <1>2, <1>5, <1>7 DEF ConnInv, ConnTypeOK
<1>9. \A d \in Conn :
        conn'[d] = conn[d] \/ (Spare(conn[d]) /\ (conn'[d] = Deleted \/ Spare(conn'[d])))
  BY <1>3, <1>4, <1>5 DEF Spare
<1> QED
  BY <1>2, <1>7, <1>8, <1>9, SpareStep

------------------------------------------------------------------------------
(* Connecting.                                                             *)

(* What lock_waiter() gives: the connection of t, the last of the pool, or *)
(* a new one                                                               *)
LEMMA LockedIs ==
  ASSUME ConnInv, NEW t \in Ctrler, Idle(t),
         held[t] # None \/ FromPool(t) \/ Deleted \in {conn[c] : c \in Conn}
  PROVE  /\ Locked(t) \in Conn
         /\ LockedConn(t) \in Record /\ LockedConn(t).ref = 1 /\ LockedConn(t).parent = t
         /\ \/ held[t] = Locked(t) /\ ~FromPool(t) /\ conn[Locked(t)].call = "stop_poll"
            \/ /\ held[t] = None /\ ~FromPool(t) /\ conn[Locked(t)].call = "none"
               /\ ~LockedConn(t).fd
            \/ /\ held[t] = None /\ FromPool(t) /\ Locked(t) = Last(pool)
               /\ Len(pool) \in Nat \ {0} /\ conn[Locked(t)].call = "pooled"
               /\ LockedConn(t).fd
<1> DEFINE c == Locked(t)
           base == IF held[t] # None THEN conn[c]
                   ELSE IF FromPool(t) THEN TakenBack(conn[c]) ELSE Created
<1>1. /\ conn \in [Conn -> Record] /\ pool \in Seq(Conn) /\ PoolOK(pool, conn)
      /\ Len(pool) \in Nat
  BY PoolIs DEF ConnInv, ConnTypeOK
<1>2. ASSUME NEW r \in Record
      PROVE  LET q == [r EXCEPT !.parent = t] IN
             q \in Record /\ q.ref = r.ref /\ q.parent = t /\ q.fd = r.fd
  BY DEF Record
<1>3. LockedConn(t) = [base EXCEPT !.parent = t]
  BY DEF LockedConn
<1>4. ASSUME base \in Record, base.ref = 1
      PROVE  /\ LockedConn(t) \in Record /\ LockedConn(t).ref = 1
             /\ LockedConn(t).parent = t /\ LockedConn(t).fd = base.fd
  BY <1>3, <1>4 DEF Record
<1>5. CASE held[t] # None
  <2>1. c = held[t] /\ base = conn[c] /\ ~FromPool(t)
    BY <1>5 DEF Locked, FromPool
  <2>2. c \in Conn /\ base \in Record /\ base.ref = 1 /\ conn[c].call = "stop_poll"
    BY <1>5, <2>1, IdleConn
  <2> QED
    BY <1>4, <2>1, <2>2
<1>6. CASE held[t] = None /\ FromPool(t)
  <2>1. c = Last(pool) /\ base = TakenBack(conn[c]) /\ pool # << >>
    BY <1>6 DEF Locked, FromPool
  <2>2. Len(pool) \in 1 .. Len(pool) /\ Len(pool) \in Nat \ {0}
    BY <1>1, <2>1
  <2>3. c \in Conn /\ conn[c] \in Record /\ Pooled(conn[c])
    BY <1>1, <2>1, <2>2 DEF PoolOK, Last
  <2>4. conn[c].call = "pooled" /\ conn[c].fd /\ conn[c].ref = 1
    BY <2>3 DEF Pooled, ConnInv, OwnersInv
  <2>5. base \in Record /\ base.ref = 1 /\ base.fd
    BY <2>1, <2>3, <2>4, TakenBackRecord
  <2> QED
    BY <1>4, <1>6, <2>1, <2>2, <2>3, <2>4, <2>5
<1>7. CASE held[t] = None /\ ~FromPool(t)
  <2>1. c = (CHOOSE d \in Conn : conn[d] = Deleted) /\ base = Created
    BY <1>7 DEF Locked
  <2>2. c \in Conn /\ conn[c] = Deleted
    BY <1>7, <2>1
  <2>3. conn[c].call = "none" /\ base \in Record /\ base.ref = 1 /\ ~base.fd
    BY <2>1, <2>2, NewRecords
  <2> QED
    BY <1>4, <1>7, <2>2, <2>3
<1> QED
  BY <1>5, <1>6, <1>7

(* The ctrler has the connection n as q afterwards, and of the others only *)
(* spare ones change.                                                      *)
Connects(t, n, q) ==
  /\ Idle(t) /\ n \in Conn
  /\ held[t] = n \/ (held[t] = None /\ conn[n].call \notin Owned)
  /\ q \in Record /\ q.ref = 1 /\ q.parent = t /\ q.call \in Owned
  /\ q.call \in Operation => q.call = awaits'[t]
  /\ Watched(t, n, q, awaits'[t], FALSE) /\ awaits'[t] # "recv"
  /\ awaits' \in [Ctrler -> Operation \union {"none"}]
  /\ \A u \in Ctrler : u # t => awaits'[u] = awaits[u]
  /\ held' = [held EXCEPT ![t] = n]
  /\ conn' \in [Conn -> Record] /\ conn'[n] = q
  /\ \A d \in Conn : d # n => conn'[d] = conn[d] \/ (Spare(conn[d]) /\ Spare(conn'[d]))
  /\ PoolOK(pool', conn') /\ UNCHANGED <<load, recv, busy>>

LEMMA ConnectStep ==
  ASSUME ConnInv, NEW t \in Ctrler, NEW n, NEW q, Connects(t, n, q)
  PROVE  ConnInv'
<1>1. busy = None /\ busy' = None /\ n # None /\ n \in Conn
  BY IdleConn, Nulls DEF Connects
<1>2. PoolExact' /\ pool' \in Seq(Conn)
  BY PoolIs DEF PoolOK, Connects
<1>3. ConnTypeOK'
  BY <1>2 DEF ConnInv, ConnTypeOK, Connects
<1>4. Watched(t, n, conn'[n], awaits'[t], busy' = n)
  BY <1>1 DEF Watched, Connects
<1>5. Acts(t, n)
  BY <1>1, <1>4 DEF Acts, Connects
<1> QED
  BY <1>2, <1>3, <1>5, CtrlerStep

LEMMA ConnectAgainInv ==
  ASSUME ConnInv, NEW t \in Ctrler, Connect(t), ConnectAgain(t)
  PROVE  ConnInv'
<1> DEFINE n == Locked(t)
           r == LockedConn(t)
           q == Finished(r)
<1>1. /\ Idle(t) /\ held' = [held EXCEPT ![t] = n] /\ UNCHANGED <<load, recv, busy>>
      /\ held[t] # None \/ FromPool(t) \/ Deleted \in {conn[c] : c \in Conn}
  BY DEF Connect
<1>2. /\ r.fd /\ conn' = [conn EXCEPT ![n] = q] /\ awaits' = [awaits EXCEPT ![t] = "none"]
      /\ pool' = IF FromPool(t) THEN Front(pool) ELSE pool
  BY DEF ConnectAgain, Ends
<1>3. /\ n \in Conn /\ r \in Record /\ r.ref = 1 /\ r.parent = t
      /\ \/ held[t] = n /\ ~FromPool(t) /\ conn[n].call = "stop_poll"
         \/ /\ held[t] = None /\ FromPool(t) /\ n = Last(pool)
            /\ Len(pool) \in Nat \ {0} /\ conn[n].call = "pooled"
  BY <1>1, <1>2, LockedIs
<1> HIDE DEF n, r
<1>4. q \in Record /\ q.ref = 1 /\ q.parent = t /\ q.call = "stop_poll"
  BY <1>3, FinishedRecord
<1>5. "stop_poll" \in Owned /\ "stop_poll" \notin Operation /\ "pooled" \notin Owned
  BY Calls
<1> HIDE DEF q
<1>6. /\ conn \in [Conn -> Record] /\ awaits \in [Ctrler -> Operation \union {"none"}]
      /\ pool \in Seq(Conn) /\ PoolOK(pool, conn)
  BY PoolIs DEF ConnInv, ConnTypeOK
<1>7. /\ conn' \in [Conn -> Record] /\ conn'[n] = q
      /\ \A d \in Conn : d # n => conn'[d] = conn[d]
      /\ awaits' \in [Ctrler -> Operation \union {"none"}] /\ awaits'[t] = "none"
      /\ \A u \in Ctrler : u # t => awaits'[u] = awaits[u]
  BY <1>2, <1>3, <1>4, <1>6
<1>8. PoolOK(pool', conn')
  <2>1. CASE ~FromPool(t)
    <3>1. \A d \in Conn : conn'[d] = conn[d] \/ (conn[d].call # "pooled" /\ conn'[d].call # "pooled")
      BY <1>3, <1>4, <1>7, <2>1
    <3>2. PoolOK(pool, conn')
      BY ONLY <1>6, <3>1, PoolSame
    <3> QED
      BY <1>2, <2>1, <3>2
  <2>2. CASE FromPool(t)
    <3>1. 1 \in 0 .. Len(pool) /\ n = Last(pool)
      BY <1>3, <2>2
    <3>2. Kept(pool, 1) = Front(pool) /\ \A d : d \in Dropped(pool, 1) <=> d = n
      BY <1>6, <3>1, DroppedIs
    <3>3. \A d \in Conn :
            IF d \in Dropped(pool, 1) THEN conn'[d].call # "pooled"
            ELSE conn'[d] = conn[d] \/ (conn[d].call # "pooled" /\ conn'[d].call # "pooled")
      BY <1>4, <1>7, <3>2
    <3>4. PoolOK(Kept(pool, 1), conn')
      BY ONLY <1>6, <3>1, <3>3, PoolDrop
    <3> QED
      BY <1>2, <2>2, <3>2, <3>4
  <2> QED
    BY <2>1, <2>2
<1>9. Watched(t, n, q, awaits'[t], FALSE)
  BY <1>7 DEF Watched
<1>10. Connects(t, n, q)
  BY <1>1, <1>3, <1>4, <1>5, <1>7, <1>8, <1>9 DEF Connects
<1> QED
  BY <1>10, ConnectStep

LEMMA ConnectNewInv ==
  ASSUME ConnInv, NEW t \in Ctrler, Connect(t), ConnectNew(t)
  PROVE  ConnInv'
<1> DEFINE n == Locked(t)
           base == LockedConn(t)
           timed == Timed(base, t)
           r == [timed EXCEPT !.fd = TRUE]
<1>1. /\ Idle(t) /\ held' = [held EXCEPT ![t] = n] /\ UNCHANGED <<load, recv, busy>>
      /\ held[t] # None \/ FromPool(t) \/ Deleted \in {conn[c] : c \in Conn}
  BY DEF Connect
<1>2. /\ ~base.fd /\ pool' = pool
      /\ Ends(t, n, r, errnum[t]) \/ Waits(t, n, Polling(r, {"in", "out"}), "connect")
  BY DEF ConnectNew
<1>3. /\ n \in Conn /\ base \in Record /\ base.ref = 1 /\ base.parent = t
      /\ \/ held[t] = n /\ conn[n].call = "stop_poll"
         \/ held[t] = None /\ conn[n].call = "none"
  BY <1>1, <1>2, LockedIs
<1> HIDE DEF n, base
<1>4. timed \in Record /\ timed.ref = 1 /\ timed.parent = t
  BY <1>3, TimedRecord
<1> HIDE DEF timed
<1>5. r \in Record /\ r.ref = 1 /\ r.parent = t /\ r.fd
  BY <1>4 DEF Record
<1> HIDE DEF r
<1>6. /\ conn \in [Conn -> Record] /\ awaits \in [Ctrler -> Operation \union {"none"}]
      /\ pool \in Seq(Conn) /\ PoolOK(pool, conn)
  BY PoolIs DEF ConnInv, ConnTypeOK
<1>7. /\ "stop_poll" \in Owned /\ "stop_poll" \notin Operation /\ "none" \notin Owned
      /\ "connect" \in Owned /\ "connect" \in Operation /\ "pooled" \notin Owned
  BY Calls DEF Operation
<1>8. ASSUME NEW q \in Record, q.ref = 1, q.parent = t, q.call \in Owned,
             NEW op \in {"none", "connect"}, q.call \in Operation => q.call = op,
             Watched(t, n, q, op, FALSE),
             conn' = [conn EXCEPT ![n] = q], awaits' = [awaits EXCEPT ![t] = op]
      PROVE  ConnInv'
  <2>1. /\ conn' \in [Conn -> Record] /\ conn'[n] = q
        /\ \A d \in Conn : d # n => conn'[d] = conn[d]
    BY <1>3, <1>6, <1>8
  <2>2. /\ awaits' \in [Ctrler -> Operation \union {"none"}] /\ awaits'[t] = op
        /\ \A u \in Ctrler : u # t => awaits'[u] = awaits[u]
    BY <1>6, <1>7, <1>8
  <2>3. \A d \in Conn : conn'[d] = conn[d] \/ (conn[d].call # "pooled" /\ conn'[d].call # "pooled")
    BY <1>3, <1>7, <1>8, <2>1
  <2>4. PoolOK(pool, conn')
    BY ONLY <1>6, <2>3, PoolSame
  <2>5. PoolOK(pool', conn')
    BY <1>2, <2>4
  <2>6. /\ awaits'[t] # "recv" /\ Watched(t, n, q, awaits'[t], FALSE)
        /\ q.call \in Operation => q.call = awaits'[t]
    BY <1>8, <2>2
  <2>7. held[t] = n \/ held[t] = None
    BY <1>3
  <2>8. held[t] = n \/ conn[n].call \notin Owned
    BY <1>3, <1>7
  <2>9. Connects(t, n, q)
    BY <1>1, <1>3, <1>8, <2>1, <2>2, <2>5, <2>6, <2>7, <2>8 DEF Connects
  <2> QED
    BY <2>9, ConnectStep
<1>9. CASE Ends(t, n, r, errnum[t])
  <2> DEFINE q == Finished(r)
  <2>1. q \in Record /\ q.ref = 1 /\ q.parent = t /\ q.call = "stop_poll"
    BY <1>5, FinishedRecord
  <2>2. conn' = [conn EXCEPT ![n] = q] /\ awaits' = [awaits EXCEPT ![t] = "none"]
    BY <1>9 DEF Ends
  <2> HIDE DEF q
  <2>3. Watched(t, n, q, "none", FALSE)
    BY DEF Watched
  <2> QED
    BY <1>7, <1>8, <2>1, <2>2, <2>3
<1>10. CASE Waits(t, n, Polling(r, {"in", "out"}), "connect")
  <2> DEFINE polling == Polling(r, {"in", "out"})
             q == [polling EXCEPT !.call = "connect", !.parent = t]
  <2>1. /\ polling \in Record /\ polling.ref = 1 /\ polling.fd
        /\ polling.poll = {"in", "out"} /\ polling.result = {}
    BY <1>5, PollingRecord
  <2>2. conn' = [conn EXCEPT ![n] = q] /\ awaits' = [awaits EXCEPT ![t] = "connect"]
    BY <1>10 DEF Waits
  <2> HIDE DEF polling
  <2>3. "connect" \in Callback
    BY <1>7, Calls
  <2>4. /\ q \in Record /\ q.ref = 1 /\ q.parent = t /\ q.call = "connect"
        /\ q.fd /\ q.poll = {"in", "out"} /\ q.result = {}
    BY <2>1, <2>3 DEF Record
  <2> HIDE DEF q
  <2>5. Watched(t, n, q, "connect", FALSE)
    BY <1>3, <2>4, Nulls DEF Watched
  <2> QED
    BY <1>7, <1>8, <2>2, <2>4, <2>5
<1> QED
  BY <1>2, <1>9, <1>10

LEMMA ConnectFailsInv ==
  ASSUME ConnInv, NEW t \in Ctrler, Connect(t), ConnectFails(t)
  PROVE  ConnInv'
<1> DEFINE n == Locked(t)
           base == LockedConn(t)
           r == [base EXCEPT !.timer = FALSE, !.over = @ /\ ~timeout[t]]
           q == Finished(r)
<1>1. /\ Idle(t) /\ held' = [held EXCEPT ![t] = n] /\ UNCHANGED <<load, recv, busy, awaits>>
      /\ held[t] # None \/ FromPool(t) \/ Deleted \in {conn[c] : c \in Conn}
  BY DEF Connect, ConnectFails
<1>2. PICK k \in {0, Min({AutoRelease, Len(pool)})} :
        /\ conn' = [d \in Conn |-> IF d = n THEN q
                                   ELSE IF d \in Dropped(pool, k) THEN OutOfPool(conn[d])
                                   ELSE conn[d]]
        /\ pool' = Kept(pool, k)
  BY DEF ConnectFails
<1>3. ~base.fd
  BY DEF ConnectFails
<1>4. /\ n \in Conn /\ base \in Record /\ base.ref = 1 /\ base.parent = t
      /\ \/ held[t] = n /\ conn[n].call = "stop_poll"
         \/ held[t] = None /\ conn[n].call = "none"
  BY <1>1, <1>3, LockedIs
<1> HIDE DEF n, base
<1>5. r \in Record /\ r.ref = 1 /\ r.parent = t
  BY <1>4 DEF Record
<1> HIDE DEF r
<1>6. q \in Record /\ q.ref = 1 /\ q.parent = t /\ q.call = "stop_poll"
  BY <1>5, FinishedRecord
<1> HIDE DEF q
<1>7. /\ conn \in [Conn -> Record] /\ awaits \in [Ctrler -> Operation \union {"none"}]
      /\ pool \in Seq(Conn) /\ PoolOK(pool, conn) /\ Len(pool) \in Nat
  BY PoolIs DEF ConnInv, ConnTypeOK
<1>8. k \in 0 .. Len(pool)
  <2>1. AutoRelease \in Nat
    BY TcpAssumption DEF TcpAssumption
  <2>2. Min({AutoRelease, Len(pool)}) \in Nat /\ Min({AutoRelease, Len(pool)}) <= Len(pool)
    BY <1>7, <2>1, LeastOfTwo
  <2> QED
    BY <1>2, <1>7, <2>2
<1>9. ASSUME NEW d \in Dropped(pool, k) PROVE Spare(conn[d]) /\ d \in Conn
  BY <1>8, DroppedSpare
<1>10. ASSUME NEW d \in Conn
       PROVE  /\ OutOfPool(conn[d]) \in Record /\ OutOfPool(conn[d]).call = "release"
              /\ OutOfPool(conn[d]).ref = conn[d].ref
  <2>1. conn[d] \in Record
    BY <1>7
  <2> QED
    BY <2>1, OutOfPoolRecord
<1>11. /\ conn' \in [Conn -> Record] /\ conn'[n] = q
       /\ \A d \in Conn : d # n =>
             conn'[d] = IF d \in Dropped(pool, k) THEN OutOfPool(conn[d]) ELSE conn[d]
  BY <1>2, <1>4, <1>6, <1>7, <1>10
<1>12. PoolOK(pool', conn')
  <2>1. \A d \in Conn :
          IF d \in Dropped(pool, k) THEN conn'[d].call # "pooled"
          ELSE conn'[d] = conn[d] \/ (conn[d].call # "pooled" /\ conn'[d].call # "pooled")
    <3>1. conn'[n].call # "pooled" /\ conn[n].call # "pooled"
      BY <1>4, <1>6, <1>11
    <3> QED
      BY <1>10, <1>11, <3>1
  <2>2. PoolOK(Kept(pool, k), conn')
    BY ONLY <1>7, <1>8, <2>1, PoolDrop
  <2> QED
    BY <1>2, <2>2
<1>13. \A d \in Conn : d # n => conn'[d] = conn[d] \/ (Spare(conn[d]) /\ Spare(conn'[d]))
  BY <1>9, <1>10, <1>11 DEF Spare
<1>14. awaits'[t] = "none" /\ Watched(t, n, q, awaits'[t], FALSE)
  BY <1>1, IdleConn DEF Watched
<1>15. /\ "stop_poll" \in Owned /\ "stop_poll" \notin Operation /\ "none" \notin Owned
  BY Calls
<1>16. Connects(t, n, q)
  BY <1>1, <1>4, <1>6, <1>7, <1>11, <1>12, <1>13, <1>14, <1>15 DEF Connects
<1> QED
  BY <1>16, ConnectStep

------------------------------------------------------------------------------
(* Theorems.                                                               *)

LEMMA InitInv == Init => ConnInv
<1> SUFFICES ASSUME Init PROVE ConnInv
  OBVIOUS
<1>1. \A c \in Conn : conn[c] = Deleted
  BY DEF Init
<1>2. ConnTypeOK
  <2>1. Deleted \in Record /\ None \in Conn \union {None} /\ << >> \in Seq(Conn)
    BY NewRecords
  <2> QED
    BY <2>1 DEF Init, ConnTypeOK
<1>3. OwnersInv
  <2>1. Deleted.call = "none" /\ "none" \notin Owned /\ "none" \notin Operation
    BY NewRecords, Calls
  <2> QED
    BY <1>1, <2>1 DEF Init, OwnersInv
<1>4. PoolExact
  <2>1. pool = << >> /\ Deleted.call # "pooled"
    BY NewRecords DEF Init
  <2>2. PoolOK(pool, conn)
    BY <1>1, <2>1 DEF PoolOK
  <2> QED
    BY <2>2, PoolIs
<1>5. WaitersPolled /\ RecvInv /\ RoomToRecv
  BY DEF Init, WaitersPolled, RecvInv, RoomToRecv
<1> QED
  BY <1>2, <1>3, <1>4, <1>5 DEF ConnInv

LEMMA NextInv == ConnInv /\ [Next]_vars => ConnInv'
<1> SUFFICES ASSUME ConnInv, [Next]_vars PROVE ConnInv'
  OBVIOUS
<1>1. CASE UNCHANGED vars
  <2>1. UNCHANGED <<load, conn, pool, held, awaits, busy>> /\ recv' = recv
    BY <1>1 DEF vars, ctrlers
  <2> QED
    BY <2>1, BuffersKept, ElsewhereInv
<1>2. CASE RecvLabel
  BY <1>2, RecvLabelInv
<1>3. CASE ClearKeepAlive
  BY <1>3, ClearKeepAliveInv
<1>4. ASSUME NEW c \in Conn, TimedOut(c) \/ Polled(c) PROVE ConnInv'
  BY <1>4, TimedOutInv, PolledInv
<1>5. ASSUME NEW t \in Ctrler, SetTimeout(t) PROVE ConnInv'
  <2>1. UNCHANGED <<load, conn, pool, held, awaits, busy>> /\ recv' = recv
    BY <1>5 DEF SetTimeout
  <2> QED
    BY <2>1, BuffersKept, ElsewhereInv
<1>6. ASSUME NEW t \in Ctrler, Connect(t) PROVE ConnInv'
  BY <1>6, ConnectAgainInv, ConnectNewInv, ConnectFailsInv DEF Connect
<1>7. ASSUME NEW t \in Ctrler, TrySend(t) PROVE ConnInv'
  <2>1. busy = None /\ UNCHANGED <<load, pool, held>>
    BY <1>7 DEF TrySend, Idle, Quiet
  <2>2. CASE held[t] = None
    <3>1. UNCHANGED <<load, conn, pool, held, awaits, busy>> /\ recv' = recv
      BY <1>7, <2>1, <2>2 DEF TrySend
    <3> QED
      BY <3>1, BuffersKept, ElsewhereInv
  <2>3. CASE held[t] # None
    <3> DEFINE r == [conn[held[t]] EXCEPT !.parent = t]
    <3>1. held[t] \in Conn /\ conn[held[t]] \in Record /\ conn[held[t]].ref = 1
      BY <1>7, <2>3, IdleConn DEF TrySend
    <3>2. r \in Record /\ r.ref = 1 /\ r.parent = t
      BY <3>1 DEF Record
    <3>3. RunSend(t, held[t], r)
      BY <1>7, <2>3 DEF TrySend
    <3> HIDE DEF r
    <3> QED
      BY <2>1, <3>1, <3>2, <3>3, RunSendInv
  <2> QED
    BY <2>2, <2>3
<1>8. ASSUME NEW t \in Ctrler, TryRecv(t) PROVE ConnInv'
  <2>1. busy = None /\ UNCHANGED <<load, pool, held>> /\ recv[t].recved = 0
    BY <1>8 DEF TryRecv, Idle, Quiet
  <2>2. CASE held[t] = None
    <3>1. UNCHANGED <<load, conn, pool, held, awaits, busy>> /\ recv' = recv
      BY <1>8, <2>1, <2>2 DEF TryRecv
    <3> QED
      BY <3>1, BuffersKept, ElsewhereInv
  <2>3. CASE held[t] # None
    <3> DEFINE r == [conn[held[t]] EXCEPT !.parent = t]
    <3>1. held[t] \in Conn /\ conn[held[t]] \in Record /\ conn[held[t]].ref = 1
      BY <1>8, <2>3, IdleConn DEF TryRecv
    <3>2. r \in Record /\ r.ref = 1 /\ r.parent = t
      BY <3>1 DEF Record
    <3>3. RunRecv(t, held[t], r)
      BY <1>8, <2>3 DEF TryRecv
    <3>4. BufferFits(recv[t])
      <4>1. recv[t].size \in Nat
        BY BuffersKept DEF Buffers
      <4> QED
        BY <2>1, <4>1 DEF BufferFits
    <3> HIDE DEF r
    <3> QED
      BY <2>1, <3>1, <3>2, <3>3, <3>4, RunRecvInv
  <2> QED
    BY <2>2, <2>3
<1>9. ASSUME NEW t \in Ctrler, NEW len \in 1 .. 2, NEW strong \in BOOLEAN,
             AddSegment(t, len, strong)
      PROVE  ConnInv'
  <2>1. UNCHANGED <<load, conn, pool, held, awaits, busy>> /\ recv' = recv
    BY <1>9 DEF AddSegment, ctrlers
  <2> QED
    BY <2>1, BuffersKept, ElsewhereInv
<1>10. ASSUME NEW t \in Ctrler, OnConnectionInactive(t) \/ OnFinish(t) PROVE ConnInv'
  BY <1>10, OnConnectionInactiveInv, OnFinishInv
<1>11. ASSUME NEW t \in Ctrler, CloseConnection(t) \/ Clear(t) PROVE ConnInv'
  BY <1>11, CloseConnectionInv, ClearInv
<1> QED
  BY <1>1, <1>2, <1>3, <1>4, <1>5, <1>6, <1>7, <1>8, <1>9, <1>10, <1>11 DEF Next

(* Every connection that is not deleted has one owner, which its callback  *)
(* tells, and the pool, epoll and the buffer of what is received fit it    *)
(* (cort_tcp_ctrler.h, cort_tcp_ctrler.cpp).                               *)
THEOREM ConnHolds == Spec => []ConnInv
  BY InitInv, NextInv, PTL DEF Spec

(* The vector of kept connections knows where each of them is, whatever    *)
(* leaves it: the last one, some from its end or one in the middle         *)
(* (keep_alive, remove_keep_alive, clear_keep_alive_connection).           *)
THEOREM PoolExactHolds == Spec => []PoolExact
<1>1. ConnInv => PoolExact
  BY DEF ConnInv
<1> QED
  BY <1>1, ConnHolds, PTL

(* A ctrler awaits a connection that is open, that goes on with the very   *)
(* operation, and that epoll watches for what the operation needs          *)
(* (try_connect, try_send, try_recv).                                      *)
THEOREM WaitersPolledHolds == Spec => []WaitersPolled
<1>1. ConnInv => WaitersPolled
  BY DEF ConnInv
<1> QED
  BY <1>1, ConnHolds, PTL

(* recv() is called with room in the buffer, however recv_check() made the *)
(* buffer grow before, and in the next exchange too (try_recv).            *)
THEOREM RoomToRecvHolds == Spec => []RoomToRecv
<1>1. ConnInv => RoomToRecv
  BY DEF ConnInv
<1> QED
  BY <1>1, ConnHolds, PTL

(* A connection has as many references as owners, an operation is resumed  *)
(* for the ctrler that holds the connection, and no event comes for one    *)
(* that is deleted (add_ref, release, keep_alive, lock_waiter).            *)
THEOREM RefsExactHolds == Spec => []RefsExact
<1>1. ASSUME ConnInv, NEW c \in Conn
      PROVE  LET owners == {t \in Ctrler : held[t] = c} IN
             /\ conn[c].ref = Cardinality(owners)
                              + (IF conn[c].call \in {"pooled", "release"} THEN 1 ELSE 0)
             /\ conn[c].call \in Operation \union {"stop_poll"} => owners = {conn[c].parent}
             /\ conn[c].ref = 0 => ~conn[c].fd /\ ~conn[c].timer
  <2> DEFINE owners == {t \in Ctrler : held[t] = c}
  <2>1. /\ c # None /\ conn[c].call \in Callback
        /\ \A t \in owners : conn[c].call \in Owned /\ conn[c].parent = t
    BY <1>1, Nulls DEF ConnInv, ConnTypeOK, OwnersInv, Record
  <2>2. /\ conn[c].call = "none" => conn[c] = Deleted
        /\ conn[c].call # "none" => conn[c].ref = 1
        /\ conn[c].call \in Owned => conn[c].parent \in Ctrler /\ held[conn[c].parent] = c
    BY <1>1 DEF ConnInv, OwnersInv
  <2>3. CASE conn[c].call \in Owned
    <3>1. owners = {conn[c].parent}
      BY <2>1, <2>2, <2>3
    <3> HIDE DEF owners
    <3>2. Cardinality(owners) = 1
      BY <3>1, FS_Singleton
    <3>3. conn[c].ref = 1 /\ conn[c].call \notin {"pooled", "release"}
      BY <2>2, <2>3, Calls
    <3> QED
      BY <3>1, <3>2, <3>3 DEF owners
  <2>4. CASE conn[c].call \notin Owned
    <3>1. owners = {}
      BY <2>1, <2>4
    <3> HIDE DEF owners
    <3>2. Cardinality(owners) = 0
      BY <3>1, FS_EmptySet
    <3>3. CASE conn[c].call = "none"
      BY <2>2, <2>4, <3>2, <3>3, NewRecords DEF owners, Owned
    <3>4. CASE conn[c].call \in {"pooled", "release"}
      BY <2>2, <2>4, <3>2, <3>4 DEF owners, Owned
    <3> QED
      BY <2>1, <2>4, <3>3, <3>4, Calls
  <2> QED
    BY <2>3, <2>4
<1>2. ConnInv => RefsExact
  BY <1>1 DEF RefsExact
<1> QED
  BY <1>2, ConnHolds, PTL

------------------------------------------------------------------------------
(* The send buffer.                                                        *)

(* The bytes from a to b, without b, in order                              *)
Run(a, b) == [k \in 1 .. b - a |-> a + k - 1]

Segment == [base : Nat, len : Nat, tag : Nat \union {Weak}]

(* The first u slots hold the bytes from a to b, and none of them is empty. *)
Contiguous(s, u, a, b) ==
  /\ \A i \in 1 .. u : s[i].base > 0 /\ s[i].len > 0
  /\ \A i \in 1 .. u - 1 : s[i + 1].base = s[i].base + s[i].len
  /\ IF u = 0 THEN a = b ELSE s[1].base = a /\ s[u].base + s[u].len = b

(* The array holds the bytes from a to b; only its first slot is cut.      *)
ArrayOK(s, a, b) ==
  /\ s \in [Slot -> Segment] /\ Contiguous(s, InUse(s), a, b)
  /\ \A i \in 2 .. InUse(s) : s[i].tag \in {0, Weak}

(* What free() will be called with for the slots of I                      *)
Owns(s, I) == {s[i].base - s[i].tag : i \in {j \in I : s[j].tag # Weak}}

(* What is there of one ctrler's send buffer                               *)
BufferOK(s, q, out, mem) ==
  /\ q \in Nat /\ out \in Seq(Nat) /\ mem \in SUBSET Int
  /\ out = Run(1, Len(out) + 1)
  /\ ArrayOK(s, Len(out) + 1, q + 1)
  /\ mem = Owns(s, 1 .. InUse(s))

BufferInv ==
  /\ send \in [Ctrler -> [Slot -> Segment]]
  /\ queued \in [Ctrler -> Nat]
  /\ sent \in [Ctrler -> Seq(Nat)]
  /\ blocks \in [Ctrler -> SUBSET Int]
  /\ \A t \in Ctrler : BufferOK(send[t], queued[t], sent[t], blocks[t])

LEMMA FlattenIs ==
  ASSUME NEW q, NEW u \in 1 .. 3, Len(q) = u
  PROVE  /\ u = 1 => FlattenSeq(q) = q[1]
         /\ u = 2 => FlattenSeq(q) = q[1] \o q[2]
         /\ u = 3 => FlattenSeq(q) = (q[1] \o q[2]) \o q[3]
<1> DEFINE Join(a, b) == a \o b
           h == [i \in 1 .. u |-> IF i = 1 THEN q[1]
                                  ELSE IF i = 2 THEN Join(q[1], q[2])
                                  ELSE Join(Join(q[1], q[2]), q[3])]
           Solves(g) == g = [i \in 1 .. Len(q) |-> IF i = 1 THEN q[i] ELSE Join(g[i - 1], q[i])]
           g == CHOOSE g : Solves(g)
<1>1. FlattenSeq(q) = g[u]
  BY DEF FlattenSeq
<1> HIDE DEF g, Join
<1>2. Solves(h)
  OBVIOUS
<1>3. Solves(g)
  BY ONLY <1>2 DEF g
<1> HIDE DEF h
<1>4. \A i \in 1 .. u : g[i] = IF i = 1 THEN q[i] ELSE Join(g[i - 1], q[i])
  BY <1>3
<1> HIDE DEF Solves
<1>5. /\ g[1] = q[1]
      /\ u \in {2, 3} => g[2] = Join(g[1], q[2])
      /\ u = 3 => g[3] = Join(g[2], q[3])
  BY <1>4
<1>6. CASE u = 1
  BY <1>1, <1>5, <1>6
<1>7. CASE u = 2
  BY <1>1, <1>5, <1>7 DEF Join
<1>8. CASE u = 3
  BY <1>1, <1>5, <1>8 DEF Join
<1> QED
  BY <1>6, <1>7, <1>8

LEMMA RunIs ==
  ASSUME NEW a \in Nat, NEW b \in Nat, a <= b
  PROVE  Run(a, b) \in Seq(Nat) /\ Len(Run(a, b)) = b - a
<1>1. b - a \in Nat
  OBVIOUS
<1>2. \A k \in 1 .. b - a : a + k - 1 \in Nat
  OBVIOUS
<1> QED
  BY <1>1, <1>2 DEF Run

LEMMA RunAt ==
  ASSUME NEW a \in Nat, NEW b \in Nat, NEW k \in 1 .. b - a
  PROVE  Run(a, b)[k] = a + k - 1 /\ Run(a, b)[k] \in Nat
  BY DEF Run

LEMMA RunJoin ==
  ASSUME NEW a \in Nat, NEW b \in Nat, NEW c \in Nat, a <= b, b <= c
  PROVE  Run(a, b) \o Run(b, c) = Run(a, c)
<1> DEFINE p == Run(a, b)  q == Run(b, c)  r == Run(a, c)
           m == b - a  n == c - b
<1>1. m \in Nat /\ n \in Nat /\ c - a = m + n /\ b = a + m
  OBVIOUS
<1>2. /\ p \in Seq(Nat) /\ Len(p) = m
      /\ q \in Seq(Nat) /\ Len(q) = n
      /\ r \in Seq(Nat) /\ Len(r) = m + n
  <2>1. a <= c
    OBVIOUS
  <2> QED
    BY <1>1, <2>1, RunIs
<1>3. /\ \A k \in 1 .. m : p[k] = a + k - 1
      /\ \A k \in 1 .. n : q[k] = b + k - 1
      /\ \A k \in 1 .. m + n : r[k] = a + k - 1
  BY <1>1, RunAt
<1> HIDE DEF p, q, r, m, n
<1>4. /\ p \o q \in Seq(Nat) /\ Len(p \o q) = m + n
      /\ \A k \in 1 .. m + n : (p \o q)[k] = IF k <= m THEN p[k] ELSE q[k - m]
  BY ONLY <1>2, ConcatProperties
<1>5. ASSUME NEW k \in 1 .. m + n PROVE (p \o q)[k] = r[k]
  <2>0. a \in Nat /\ b \in Nat /\ m \in Nat /\ n \in Nat /\ k \in Nat /\ 1 <= k /\ k <= m + n
    BY <1>1
  <2>1. CASE k <= m
    BY <1>1, <1>3, <1>4, <2>1
  <2>2. CASE k > m
    <3>1. k - m \in 1 .. n /\ b + (k - m) - 1 = a + k - 1
      BY ONLY <1>1, <2>2, <2>0
    <3>2. q[k - m] = a + k - 1
      BY ONLY <1>3, <3>1
    <3> QED
      BY <1>1, <1>3, <1>4, <2>2, <3>2
  <2>3. k <= m \/ k > m
    BY ONLY <2>0
  <2> QED
    BY <2>1, <2>2, <2>3
<1>6. p \o q = r
  BY ONLY <1>2, <1>4, <1>5, SeqEqual
<1> QED
  BY <1>6 DEF p, q, r

LEMMA RunCut ==
  ASSUME NEW a \in Nat, NEW b \in Nat, NEW n \in 0 .. b - a
  PROVE  SubSeq(Run(a, b), 1, n) = Run(a, a + n)
<1> DEFINE p == Run(a, b)  q == SubSeq(Run(a, b), 1, n)  r == Run(a, a + n)
<1>1. r \in Seq(Nat) /\ Len(r) = n /\ n \in Nat
  <2>1. a + n \in Nat /\ a <= a + n /\ (a + n) - a = n
    OBVIOUS
  <2> QED
    BY <2>1, RunIs
<1>2. \A k \in 1 .. n : p[k] = a + k - 1 /\ p[k] \in Nat /\ r[k] = a + k - 1
  <2>1. \A k \in 1 .. n : k \in 1 .. b - a /\ k \in 1 .. (a + n) - a
    OBVIOUS
  <2>2. a + n \in Nat
    OBVIOUS
  <2> QED
    BY <2>1, <2>2, RunAt
<1>3. /\ q \in Seq(Nat) /\ Len(q) = IF 1 <= n THEN n - 1 + 1 ELSE 0
      /\ \A k \in 1 .. n - 1 + 1 : q[k] = p[1 + k - 1]
  BY <1>2, SubSeqProperties
<1> HIDE DEF p, q, r
<1>4. Len(q) = n /\ \A k \in 1 .. n : q[k] = r[k]
  BY <1>1, <1>2, <1>3
<1>5. q = r
  BY ONLY <1>1, <1>3, <1>4, SeqEqual
<1> QED
  BY <1>5 DEF q, r

(* get_free_index() finds the first empty slot.                            *)
LEMMA InUseIs ==
  ASSUME NEW s, NEW u \in 0 .. 3
  PROVE  u = InUse(s) <=> (\A i \in 1 .. u : s[i].base # 0) /\ (u = 3 \/ s[u + 1].base = 0)
<1> DEFINE free == {i \in 0 .. 3 : i = 3 \/ s[i + 1].base = 0}
           First(i) == i \in free /\ \A j \in free : i <= j
<1>1. InUse(s) = CHOOSE i \in free : \A j \in free : i <= j
  BY DEF InUse, Min
<1>2. \E i \in free : First(i)
  <2>1. 3 \in free
    OBVIOUS
  <2>2. CASE 0 \in free
    BY <2>2
  <2>3. CASE 0 \notin free /\ 1 \in free
    BY <2>3
  <2>4. CASE 0 \notin free /\ 1 \notin free /\ 2 \in free
    BY <2>4
  <2>5. CASE 0 \notin free /\ 1 \notin free /\ 2 \notin free
    BY <2>1, <2>5
  <2> QED
    BY <2>2, <2>3, <2>4, <2>5
<1>3. First(InUse(s))
  BY <1>1, <1>2
<1>4. First(u) <=> (\A i \in 1 .. u : s[i].base # 0) /\ (u = 3 \/ s[u + 1].base = 0)
  <2>1. (\A j \in free : u <= j) <=> \A i \in 1 .. u : s[i].base # 0
    <3>1. ASSUME \A j \in free : u <= j, NEW i \in 1 .. u PROVE s[i].base # 0
      <4>1. i - 1 \in 0 .. 3 /\ i - 1 # 3 /\ (i - 1) + 1 = i /\ ~(u <= i - 1)
        OBVIOUS
      <4> QED
        BY <3>1, <4>1
    <3>2. ASSUME \A i \in 1 .. u : s[i].base # 0, NEW j \in free PROVE u <= j
      <4>1. j < u => j + 1 \in 1 .. u /\ j # 3
        OBVIOUS
      <4> QED
        BY <3>2, <4>1
    <3> QED
      BY <3>1, <3>2
  <2> QED
    BY <2>1
<1>5. First(u) => u = InUse(s)
  BY <1>3
<1> QED
  BY <1>3, <1>4, <1>5

LEMMA InUseSlots ==
  ASSUME NEW s
  PROVE  InUse(s) \in 0 .. 3
<1> DEFINE free == {i \in 0 .. 3 : i = 3 \/ s[i + 1].base = 0}
<1>1. CASE 0 \in free
  <2>1. 0 = InUse(s)
    BY <1>1, InUseIs
  <2> QED
    BY <2>1
<1>2. CASE 0 \notin free /\ 1 \in free
  <2>1. 1 = InUse(s)
    BY <1>2, InUseIs
  <2> QED
    BY <2>1
<1>3. CASE 0 \notin free /\ 1 \notin free /\ 2 \in free
  <2>1. 2 = InUse(s)
    BY <1>3, InUseIs
  <2> QED
    BY <2>1
<1>4. CASE 0 \notin free /\ 1 \notin free /\ 2 \notin free
  <2>1. 3 = InUse(s)
    BY <1>4, InUseIs
  <2> QED
    BY <2>1
<1> QED
  BY <1>1, <1>2, <1>3, <1>4

LEMMA BytesIs ==
  ASSUME NEW r, r.base \in Nat, r.len \in Nat
  PROVE  Bytes(r) = Run(r.base, r.base + r.len)
<1>1. (r.base + r.len) - r.base = r.len
  OBVIOUS
<1> QED
  BY <1>1 DEF Bytes, Run

(* The segments of an array without gaps are the bytes from its first to   *)
(* its last.                                                               *)
LEMMA SegmentsJoin ==
  ASSUME NEW s \in [Slot -> Segment], NEW u \in 0 .. 3, NEW a \in Nat, NEW b \in Nat,
         Contiguous(s, u, a, b)
  PROVE  /\ FlattenSeq([i \in 1 .. u |-> Bytes(s[i])]) = Run(a, b)
         /\ a <= b
<1> DEFINE q == [i \in 1 .. u |-> Bytes(s[i])]
           x(i) == s[i].base
           y(i) == s[i].base + s[i].len
<1>1. \A i \in 1 .. u : /\ x(i) \in Nat /\ y(i) \in Nat /\ x(i) <= y(i)
                        /\ q[i] = Run(x(i), y(i))
  <2> SUFFICES ASSUME NEW i \in 1 .. u
               PROVE  x(i) \in Nat /\ y(i) \in Nat /\ x(i) <= y(i) /\ q[i] = Run(x(i), y(i))
    OBVIOUS
  <2>1. s[i].base \in Nat /\ s[i].len \in Nat
    BY DEF Slot, Segment
  <2> QED
    BY <2>1, BytesIs
<1>2. /\ \A i \in 1 .. u - 1 : x(i + 1) = y(i)
      /\ IF u = 0 THEN a = b ELSE x(1) = a /\ y(u) = b
  BY DEF Contiguous
<1>3. Len(q) = u
  OBVIOUS
<1> HIDE DEF q, x, y
<1>4. CASE u = 0
  <2>1. FlattenSeq(q) = q
    BY <1>3, <1>4 DEF FlattenSeq
  <2>2. q = Run(a, b)
    BY <1>2, <1>4 DEF q, Run
  <2> QED
    BY <1>2, <1>4, <2>1, <2>2 DEF q
<1>5. CASE u = 1
  <2>1. 1 \in 1 .. u /\ u \in 1 .. 3
    BY <1>5
  <2>2. FlattenSeq(q) = q[1]
    BY ONLY <1>3, <1>5, <2>1, FlattenIs
  <2>3. q[1] = Run(a, b) /\ a <= b
    BY <1>1, <1>2, <1>5, <2>1
  <2> QED
    BY <2>2, <2>3 DEF q
<1>6. CASE u = 2
  <2>1. x(2) = y(1) /\ 1 \in 1 .. u /\ 2 \in 1 .. u
    BY <1>2, <1>6
  <2>2. /\ q[1] = Run(a, y(1)) /\ q[2] = Run(y(1), b)
        /\ y(1) \in Nat /\ a <= y(1) /\ y(1) <= b
    BY <1>1, <1>2, <1>6, <2>1
  <2>3. FlattenSeq(q) = q[1] \o q[2]
    <3>1. u \in 1 .. 3
      BY <1>6
    <3> QED
      BY ONLY <1>3, <1>6, <3>1, FlattenIs
  <2>4. a <= b
    BY ONLY <2>2, a \in Nat, b \in Nat
  <2>5. Run(a, y(1)) \o Run(y(1), b) = Run(a, b)
    BY ONLY <2>2, RunJoin, a \in Nat, b \in Nat
  <2>6. FlattenSeq(q) = Run(a, b)
    BY ONLY <2>2, <2>3, <2>5
  <2> QED
    BY <2>4, <2>6 DEF q
<1>7. CASE u = 3
  <2>1. x(2) = y(1) /\ x(3) = y(2) /\ 1 \in 1 .. u /\ 2 \in 1 .. u /\ 3 \in 1 .. u
    BY <1>2, <1>7
  <2>2. /\ q[1] = Run(a, y(1)) /\ q[2] = Run(y(1), y(2)) /\ q[3] = Run(y(2), b)
        /\ y(1) \in Nat /\ y(2) \in Nat
        /\ a <= y(1) /\ y(1) <= y(2) /\ y(2) <= b
    BY <1>1, <1>2, <1>7, <2>1
  <2>3. FlattenSeq(q) = (q[1] \o q[2]) \o q[3]
    <3>1. u \in 1 .. 3
      BY <1>7
    <3> QED
      BY ONLY <1>3, <1>7, <3>1, FlattenIs
  <2>4. a <= y(2) /\ a <= b
    BY ONLY <2>2, a \in Nat, b \in Nat
  <2>5. Run(a, y(1)) \o Run(y(1), y(2)) = Run(a, y(2))
    BY ONLY <2>2, RunJoin, a \in Nat
  <2>6. Run(a, y(2)) \o Run(y(2), b) = Run(a, b)
    BY ONLY <2>2, <2>4, RunJoin, a \in Nat, b \in Nat
  <2>7. FlattenSeq(q) = Run(a, b)
    BY ONLY <2>2, <2>3, <2>5, <2>6
  <2> QED
    BY <2>4, <2>7 DEF q
<1> QED
  BY <1>4, <1>5, <1>6, <1>7

(* So are those of its first i slots.                                      *)
LEMMA PrefixIs ==
  ASSUME NEW s \in [Slot -> Segment], NEW u \in 0 .. 3, NEW a \in Nat, NEW b \in Nat,
         Contiguous(s, u, a, b), NEW i \in 1 .. u
  PROVE  /\ Contiguous(s, i, a, s[i].base + s[i].len)
         /\ Before(s, i) = s[i].base + s[i].len - a
         /\ s[i].base \in Nat /\ s[i].len \in Nat /\ a <= s[i].base + s[i].len
<1> DEFINE y == s[i].base + s[i].len
<1>1. s[i].base \in Nat /\ s[i].len \in Nat /\ y \in Nat
  BY DEF Slot, Segment
<1>2. /\ \A j \in 1 .. i : j \in 1 .. u
      /\ \A j \in 1 .. i - 1 : j \in 1 .. u - 1
      /\ i \in 0 .. 3 /\ i # 0 /\ u # 0
  OBVIOUS
<1>3. Contiguous(s, i, a, y)
  BY <1>2 DEF Contiguous
<1> HIDE DEF y
<1>4. FlattenSeq([j \in 1 .. i |-> Bytes(s[j])]) = Run(a, y) /\ a <= y
  BY <1>1, <1>2, <1>3, SegmentsJoin
<1>5. Before(s, i) = y - a
  BY <1>1, <1>4, RunIs DEF Before
<1> QED
  BY <1>1, <1>3, <1>4, <1>5 DEF y

(* What Cut leaves of a slot                                               *)
LEMMA CutIs ==
  ASSUME NEW r \in Segment, NEW k \in Nat, k < r.len
  PROVE  LET q == Cut(r, k) IN
         /\ q \in Segment /\ q.base = r.base + k /\ q.len = r.len - k /\ q.len > 0
         /\ q.tag = Weak <=> r.tag = Weak
         /\ q.base - q.tag = r.base - r.tag \/ r.tag = Weak
<1>1. r.base \in Nat /\ r.len \in Nat /\ (r.tag \in Nat \/ r.tag = Weak)
  BY DEF Segment
<1>2. /\ Cut(r, k).base = r.base + k /\ Cut(r, k).len = r.len - k
      /\ Cut(r, k).tag = IF r.tag = Weak THEN Weak ELSE r.tag + k
  BY DEF Cut
<1>3. Cut(r, k) \in Segment
  BY <1>1 DEF Cut, Segment
<1> QED
  BY <1>1, <1>2, <1>3 DEF Weak

(* When n bytes are sent from a contiguous array, that starts at a and     *)
(* ends before b, the first d slots are done, and the next one in part.    *)
FirstDone(s, u, a, b, n, d) ==
  /\ Done(s, n) = 1 .. d /\ Cardinality(Done(s, n)) = d
  /\ d = u => a + n = b
  /\ d < u => LET k == n - Before(s, d) IN
              k \in Nat /\ k < s[d + 1].len /\ s[d + 1].base + k = a + n

LEMMA DoneIs ==
  ASSUME NEW s \in [Slot -> Segment], NEW u \in 0 .. 3, u = InUse(s),
         NEW a \in Nat, NEW b \in Nat, Contiguous(s, u, a, b), NEW n \in 0 .. b - a
  PROVE  \E d \in 0 .. u : FirstDone(s, u, a, b, n, d)
<1> DEFINE y(i) == s[i].base + s[i].len
           Sent(d) == Done(s, n) = 1 .. d
<1>1. \A i \in 1 .. u : /\ Before(s, i) = y(i) - a /\ s[i].base \in Nat /\ s[i].len \in Nat
                        /\ y(i) \in Nat
  BY PrefixIs
<1>2. \A i \in 1 .. u : i \in Done(s, n) <=> y(i) <= a + n
  <2>1. ASSUME NEW i \in 1 .. u PROVE i \in Done(s, n) <=> y(i) - a <= n
    BY <1>1 DEF Done
  <2> QED
    BY <1>1, <2>1
<1>3. Done(s, n) \subseteq 1 .. u
  BY DEF Done
<1>4. \A i \in 1 .. u - 1 : s[i + 1].base = y(i) /\ y(i) < y(i + 1)
  <2> SUFFICES ASSUME NEW i \in 1 .. u - 1
               PROVE  s[i + 1].base = y(i) /\ y(i) < y(i + 1)
    OBVIOUS
  <2>1. i \in 1 .. u /\ i + 1 \in 1 .. u
    OBVIOUS
  <2>2. s[i + 1].base = y(i) /\ s[i + 1].len > 0
    BY <2>1 DEF Contiguous
  <2> QED
    BY <1>1, <2>1, <2>2
<1>5. u > 0 => s[1].base = a /\ y(u) = b /\ s[1].len > 0
  BY DEF Contiguous
<1> HIDE DEF y
<1>6. \E d \in 0 .. u : /\ \A i \in 1 .. u : i \in Done(s, n) <=> i <= d
  <2>1. CASE u = 0
    BY <2>1
  <2>2. CASE u = 1
    BY <1>1, <1>2, <2>2
  <2>3. CASE u = 2
    BY <1>1, <1>2, <1>4, <2>3
  <2>4. CASE u = 3
    BY <1>1, <1>2, <1>4, <2>4
  <2> QED
    BY <2>1, <2>2, <2>3, <2>4
<1>7. PICK d \in 0 .. u : \A i \in 1 .. u : i \in Done(s, n) <=> i <= d
  BY <1>6
<1>8. Done(s, n) = 1 .. d
  <2>1. ASSUME NEW i PROVE i \in Done(s, n) <=> i \in 1 .. u /\ i <= d
    BY ONLY <1>3, <1>7
  <2>2. \A i : i \in 1 .. d <=> i \in 1 .. u /\ i <= d
    OBVIOUS
  <2> QED
    BY ONLY <2>1, <2>2
<1>9. Cardinality(Done(s, n)) = d
  BY <1>8, FS_Interval
<1>10. d = u => a + n = b
  <2>1. CASE u = 0
    BY <2>1 DEF Contiguous
  <2>2. CASE u # 0
    BY <1>1, <1>2, <1>5, <1>7, <2>2
  <2> QED
    BY <2>1, <2>2
<1>11. ASSUME d < u
       PROVE  LET k == n - Before(s, d) IN
              k \in Nat /\ k < s[d + 1].len /\ s[d + 1].base + k = a + n
  <2>1. d + 1 \in 1 .. u /\ ~(y(d + 1) <= a + n)
    BY <1>2, <1>7, <1>11
  <2>2. y(d + 1) = s[d + 1].base + s[d + 1].len /\ y(d + 1) \in Nat
        /\ s[d + 1].base \in Nat /\ s[d + 1].len \in Nat
    BY <1>1, <2>1 DEF y
  <2>3. CASE d = 0
    <3>1. Before(s, d) = 0
      <4>1. Len([j \in 1 .. 0 |-> Bytes(s[j])]) = 0
        OBVIOUS
      <4> QED
        BY <2>3, <4>1 DEF Before, FlattenSeq
    <3> QED
      BY <1>5, <1>11, <2>1, <2>2, <2>3, <3>1
  <2>4. CASE d # 0
    <3>1. d \in 1 .. u /\ d \in 1 .. u - 1
      BY <1>11, <2>4
    <3>2. y(d) <= a + n /\ Before(s, d) = y(d) - a /\ s[d + 1].base = y(d) /\ y(d) \in Nat
      BY <1>1, <1>2, <1>4, <1>7, <3>1
    <3> QED
      BY <2>1, <2>2, <3>2
  <2> QED
    BY <2>3, <2>4
<1> QED
  BY <1>8, <1>9, <1>10, <1>11 DEF FirstDone

(* The array when d of the u slots in use are sent                         *)
Rest(s, n, d, u) ==
  LET left == [i \in Slot |->
                 IF i <= d THEN Null
                 ELSE IF i = d + 1 /\ d < u THEN Cut(s[i], n - Before(s, d))
                 ELSE s[i]]
  IN IF d = 0 \/ d = u THEN left
     ELSE [i \in Slot |-> IF i <= u - d THEN left[i + d]
                          ELSE IF i = u - d + 1 THEN Null ELSE left[i]]

(* After a send the array holds the slots from d + 1 on, the first of them *)
(* cut, and ends after them.                                               *)
LEMMA AfterSendIs ==
  ASSUME NEW s \in [Slot -> Segment], NEW u \in 0 .. 3, u = InUse(s),
         NEW n, NEW d \in 0 .. u, Cardinality(Done(s, n)) = d,
         d < u => Cut(s[d + 1], n - Before(s, d)) \in Segment
                  /\ Cut(s[d + 1], n - Before(s, d)).base > 0,
         \A i \in 1 .. u : s[i].base > 0
  PROVE  LET q == AfterSend(s, n)  v == u - d IN
         /\ q \in [Slot -> Segment] /\ v = InUse(q)
         /\ v > 0 => q[1] = Cut(s[d + 1], n - Before(s, d))
         /\ \A i \in 2 .. v : q[i] = s[d + i]
<1> DEFINE first == Cut(s[d + 1], n - Before(s, d))
           left == [i \in Slot |->
                      IF i <= d THEN Null
                      ELSE IF i = d + 1 /\ d < u THEN first
                      ELSE s[i]]
           q == AfterSend(s, n)
           v == u - d
<1>1. q = IF d = 0 \/ d = u THEN left
          ELSE [i \in Slot |-> IF i <= u - d THEN left[i + d]
                               ELSE IF i = u - d + 1 THEN Null ELSE left[i]]
  <2>1. q = Rest(s, n, Cardinality(Done(s, n)), InUse(s))
    BY DEF AfterSend, Rest
  <2>2. q = Rest(s, n, d, u)
    BY <2>1
  <2>3. \A i : i = d + 1 => s[i] = s[d + 1]
    OBVIOUS
  <2> QED
    BY <2>2, <2>3 DEF Rest
<1> HIDE DEF q, first
<1>2. Null \in Segment /\ Null.base = 0
  BY DEF Null, Segment
<1>3. left \in [Slot -> Segment]
  BY <1>2 DEF first, Slot
<1>4. u < 3 => s[u + 1].base = 0
  BY InUseIs
<1>5. /\ q \in [Slot -> Segment]
      /\ v > 0 => q[1] = first
      /\ \A i \in 2 .. v : q[i] = s[d + i]
      /\ v < 3 => q[v + 1].base = 0
  <2>1. CASE d = 0
    <3>1. q = left /\ v = u
      BY <1>1, <2>1
    <3>2. v < 3 => v + 1 \in Slot /\ q[v + 1] = s[v + 1]
      BY <2>1, <3>1 DEF Slot
    <3> QED
      BY <1>3, <1>4, <2>1, <3>1, <3>2 DEF Slot
  <2>2. CASE d # 0 /\ d = u
    <3>1. q = left /\ v = 0
      BY <1>1, <2>2
    <3>2. q[1] = Null
      BY <2>2, <3>1 DEF Slot
    <3> QED
      BY <1>2, <1>3, <2>2, <3>1, <3>2
  <2>3. CASE d # 0 /\ d # u
    <3>1. q = [i \in Slot |-> IF i <= v THEN left[i + d]
                              ELSE IF i = v + 1 THEN Null ELSE left[i]]
      BY <1>1, <2>3
    <3>2. \A i \in Slot : i <= v => i + d \in Slot
      BY DEF Slot
    <3>3. q \in [Slot -> Segment]
      BY <1>2, <1>3, <3>1, <3>2
    <3>4. \A i \in 1 .. v : i \in Slot /\ q[i] = left[i + d] /\ i + d \in Slot
      BY <3>1 DEF Slot
    <3>5. v + 1 \in Slot /\ q[v + 1] = Null
      BY <2>3, <3>1 DEF Slot
    <3>6. v > 0 => q[1] = first
      <4>1. left[1 + d] = first /\ 1 \in 1 .. v
        BY <2>3 DEF Slot
      <4> QED
        BY <3>4, <4>1
    <3>7. ASSUME NEW i \in 2 .. v PROVE q[i] = s[d + i]
      <4>1. i \in 1 .. v /\ i + d \in Slot /\ i + d = d + i /\ i + d > d + 1
        BY <2>3 DEF Slot
      <4>2. left[i + d] = s[i + d]
        BY <4>1 DEF Slot
      <4> QED
        BY <3>4, <4>1, <4>2
    <3> QED
      BY <1>2, <3>3, <3>5, <3>6, <3>7
  <2> QED
    BY <2>1, <2>2, <2>3
<1>6. v = InUse(q)
  <2>1. \A i \in 1 .. v : q[i].base # 0
    <3> SUFFICES ASSUME NEW i \in 1 .. v PROVE q[i].base # 0
      OBVIOUS
    <3>1. CASE i = 1
      BY <1>5, <3>1 DEF first
    <3>2. CASE i # 1
      BY <1>5, <3>2
    <3> QED
      BY <3>1, <3>2
  <2>2. v \in 0 .. 3 /\ (v = 3 \/ q[v + 1].base = 0)
    BY <1>5
  <2> HIDE DEF v
  <2> QED
    BY <2>1, <2>2, InUseIs
<1> QED
  BY <1>5, <1>6 DEF q, first

(* The kernel takes n bytes: the rest is contiguous from there on, and the *)
(* memory of what is sent is freed.                                        *)
LEMMA SendSome ==
  ASSUME NEW s, NEW u \in 0 .. 3, u = InUse(s), NEW a \in Nat, NEW b \in Nat,
         ArrayOK(s, a, b), NEW n \in 0 .. b - a
  PROVE  /\ ArrayOK(AfterSend(s, n), a + n, b)
         /\ Owns(AfterSend(s, n), 1 .. InUse(AfterSend(s, n))) =
              Owns(s, 1 .. InUse(s)) \ Freed(s, n)
<1> /\ s \in [Slot -> Segment] /\ Contiguous(s, u, a, b)
    /\ \A i \in 2 .. u : s[i].tag \in {0, Weak}
  BY DEF ArrayOK
<1> DEFINE q == AfterSend(s, n)
           own(i) == s[i].base - s[i].tag
<1>0. PICK d \in 0 .. u : FirstDone(s, u, a, b, n, d)
  BY DoneIs
<1>1. /\ Done(s, n) = 1 .. d /\ Cardinality(Done(s, n)) = d
      /\ d = u => a + n = b
      /\ d < u => LET k == n - Before(s, d) IN
                  k \in Nat /\ k < s[d + 1].len /\ s[d + 1].base + k = a + n
  BY <1>0 DEF FirstDone
<1> DEFINE v == u - d
           k == n - Before(s, d)
           first == Cut(s[d + 1], k)
<1>2. \A i \in 1 .. u : /\ s[i] \in Segment /\ s[i].base \in Nat /\ s[i].len \in Nat
                        /\ s[i].tag \in Nat \/ s[i].tag = Weak
                        /\ s[i].base > 0 /\ s[i].len > 0
  <2> SUFFICES ASSUME NEW i \in 1 .. u
               PROVE  /\ s[i] \in Segment /\ s[i].base \in Nat /\ s[i].len \in Nat
                      /\ s[i].tag \in Nat \/ s[i].tag = Weak
                      /\ s[i].base > 0 /\ s[i].len > 0
    OBVIOUS
  <2>1. s[i] \in Segment
    BY DEF Slot
  <2>2. s[i].base > 0 /\ s[i].len > 0
    BY DEF Contiguous
  <2> QED
    BY <2>1, <2>2 DEF Segment
<1>3. d < u => /\ first \in Segment /\ first.base = a + n /\ first.len > 0
               /\ first.base + first.len = s[d + 1].base + s[d + 1].len
               /\ first.tag = Weak <=> s[d + 1].tag = Weak
               /\ first.tag = Weak \/ first.base - first.tag = own(d + 1)
               /\ first.base > 0
  <2> SUFFICES ASSUME d < u
               PROVE  /\ first \in Segment /\ first.base = a + n /\ first.len > 0
                      /\ first.base + first.len = s[d + 1].base + s[d + 1].len
                      /\ first.tag = Weak <=> s[d + 1].tag = Weak
                      /\ first.tag = Weak \/ first.base - first.tag = own(d + 1)
                      /\ first.base > 0
    OBVIOUS
  <2>1. d + 1 \in 1 .. u
    OBVIOUS
  <2>2. k \in Nat /\ k < s[d + 1].len /\ s[d + 1].base + k = a + n
    BY <1>1
  <2> HIDE DEF k
  <2>3. /\ first \in Segment /\ first.base = s[d + 1].base + k
        /\ first.len = s[d + 1].len - k /\ first.len > 0
        /\ first.tag = Weak <=> s[d + 1].tag = Weak
        /\ first.base - first.tag = s[d + 1].base - s[d + 1].tag \/ s[d + 1].tag = Weak
    BY ONLY <1>2, <2>1, <2>2, CutIs
  <2> HIDE DEF first
  <2> QED
    BY <1>2, <2>1, <2>2, <2>3
<1> HIDE DEF k
<1>4. /\ q \in [Slot -> Segment] /\ v = InUse(q)
      /\ v > 0 => q[1] = first
      /\ \A i \in 2 .. v : q[i] = s[d + i]
  <2>1. /\ s \in [Slot -> Segment] /\ u \in 0 .. 3 /\ u = InUse(s)
        /\ d \in 0 .. u /\ Cardinality(Done(s, n)) = d
        /\ \A i \in 1 .. u : s[i].base > 0
    BY <1>1, <1>2
  <2>2. d < u => first \in Segment /\ first.base > 0
    BY <1>3
  <2> QED
    BY ONLY <2>1, <2>2, AfterSendIs DEF k
<1> HIDE DEF q, first
<1>5. \A i \in 2 .. v : d + i \in 2 .. u /\ d + i \in 1 .. u
  OBVIOUS
<1>6. v > 0 => d < u
  OBVIOUS
<1>7. Contiguous(q, v, a + n, b)
  <2>1. ASSUME NEW i \in 1 .. v PROVE q[i].base > 0 /\ q[i].len > 0
    <3>1. CASE i = 1
      BY <1>3, <1>4, <3>1
    <3>2. CASE i # 1
      BY <1>2, <1>4, <1>5, <3>2
    <3> QED
      BY <3>1, <3>2
  <2>2. ASSUME NEW i \in 1 .. v - 1 PROVE q[i + 1].base = q[i].base + q[i].len
    <3>1. i + 1 \in 2 .. v /\ q[i + 1] = s[d + i + 1]
      BY <1>4
    <3>2. d + i \in 1 .. u - 1 /\ s[d + i + 1].base = s[d + i].base + s[d + i].len
      BY DEF Contiguous
    <3>3. q[i].base + q[i].len = s[d + i].base + s[d + i].len
      <4>1. CASE i = 1
        BY <1>3, <1>4, <4>1
      <4>2. CASE i # 1
        BY <1>4, <4>2
      <4> QED
        BY <4>1, <4>2
    <3> QED
      BY <3>1, <3>2, <3>3
  <2>3. CASE v = 0
    BY <1>1, <2>3 DEF Contiguous
  <2>4. CASE v # 0
    <3>1. q[1].base = a + n
      BY <1>3, <1>4, <2>4
    <3>2. q[v].base + q[v].len = s[u].base + s[u].len
      <4>1. CASE v = 1
        BY <1>3, <1>4, <4>1
      <4>2. CASE v # 1
        BY <1>4, <2>4, <4>2
      <4> QED
        BY <4>1, <4>2
    <3>3. s[u].base + s[u].len = b
      BY <2>4 DEF Contiguous
    <3> QED
      BY <2>1, <2>2, <2>4, <3>1, <3>2, <3>3 DEF Contiguous
  <2> QED
    BY <2>3, <2>4
<1>8. ASSUME NEW i \in 2 .. v PROVE q[i].tag \in {0, Weak}
  <2>1. q[i] = s[d + i] /\ d + i \in 2 .. u
    BY <1>4, <1>5
  <2> QED
    BY <2>1
<1>9. ASSUME NEW i \in 1 .. u, NEW j \in 1 .. u, i < j, s[i].tag # Weak, s[j].tag # Weak
      PROVE  own(i) # own(j)
  <2>1. s[j].tag = 0
    BY <1>9
  <2>2. s[i].base < s[j].base
    <3>1. \A m \in 1 .. u - 1 : m \in 1 .. u /\ s[m].base < s[m + 1].base
      BY <1>2 DEF Contiguous
    <3>2. j = i + 1 \/ (i = 1 /\ j = 3 /\ u = 3)
      BY <1>9
    <3>3. CASE j = i + 1
      BY <3>1, <3>3
    <3>4. CASE i = 1 /\ j = 3 /\ u = 3
      <4>1. s[1].base < s[2].base /\ s[2].base < s[3].base
        BY <3>1, <3>4
      <4>2. 1 \in 1 .. u /\ 2 \in 1 .. u /\ 3 \in 1 .. u
        BY <3>4
      <4> QED
        BY <1>2, <3>4, <4>1, <4>2
    <3> QED
      BY <3>2, <3>3, <3>4
  <2> QED
    BY <1>2, <1>9, <2>1, <2>2
<1>10. \A i \in 1 .. v : /\ d + i \in 1 .. u
                         /\ q[i].tag = Weak <=> s[d + i].tag = Weak
                         /\ q[i].tag # Weak => q[i].base - q[i].tag = own(d + i)
  <2> SUFFICES ASSUME NEW i \in 1 .. v
               PROVE  /\ d + i \in 1 .. u
                      /\ q[i].tag = Weak <=> s[d + i].tag = Weak
                      /\ q[i].tag # Weak => q[i].base - q[i].tag = own(d + i)
    OBVIOUS
  <2>1. CASE i = 1
    BY <1>3, <1>4, <2>1
  <2>2. CASE i # 1
    BY <1>4, <2>2
  <2> QED
    BY <2>1, <2>2
<1> HIDE DEF own
<1>11. \A x : x \in Owns(q, 1 .. v) <=> \E j \in 1 .. u : j > d /\ s[j].tag # Weak /\ x = own(j)
  <2>1. ASSUME NEW x, x \in Owns(q, 1 .. v)
        PROVE  \E j \in 1 .. u : j > d /\ s[j].tag # Weak /\ x = own(j)
    <3>1. PICK i \in 1 .. v : q[i].tag # Weak /\ x = q[i].base - q[i].tag
      BY <2>1 DEF Owns
    <3>2. d + i > d
      OBVIOUS
    <3> QED
      BY <1>10, <3>1, <3>2
  <2>2. ASSUME NEW x, NEW j \in 1 .. u, j > d, s[j].tag # Weak, x = own(j)
        PROVE  x \in Owns(q, 1 .. v)
    <3>1. j - d \in 1 .. v /\ d + (j - d) = j
      BY <2>2
    <3>2. q[j - d].tag # Weak /\ q[j - d].base - q[j - d].tag = x
      BY <1>10, <2>2, <3>1
    <3> QED
      BY <3>1, <3>2 DEF Owns
  <2> QED
    BY <2>1, <2>2
<1>12. \A x : x \in Owns(s, 1 .. u) <=> \E j \in 1 .. u : s[j].tag # Weak /\ x = own(j)
  BY DEF Owns, own
<1>13. \A x : x \in Freed(s, n) <=> \E j \in 1 .. u : j <= d /\ s[j].tag # Weak /\ x = own(j)
  <2>1. \A j : j \in Done(s, n) <=> j \in 1 .. u /\ j <= d
    BY <1>1
  <2> QED
    BY <2>1 DEF Freed, own
<1>14. \A j \in 1 .. u : j <= d \/ j > d
  OBVIOUS
<1>15. Owns(q, 1 .. v) = Owns(s, 1 .. u) \ Freed(s, n)
  <2>1. \A j, m \in 1 .. u : j > d /\ m <= d => m < j
    OBVIOUS
  <2>2. ASSUME NEW x, x \in Owns(q, 1 .. v) PROVE x \in Owns(s, 1 .. u) /\ x \notin Freed(s, n)
    BY ONLY <1>9, <1>11, <1>12, <1>13, <2>1, <2>2
  <2>3. ASSUME NEW x, x \in Owns(s, 1 .. u), x \notin Freed(s, n) PROVE x \in Owns(q, 1 .. v)
    BY ONLY <1>11, <1>12, <1>13, <1>14, <2>3
  <2> QED
    BY <2>2, <2>3
<1>16. ArrayOK(AfterSend(s, n), a + n, b)
  BY <1>4, <1>7, <1>8 DEF q, ArrayOK
<1> QED
  BY <1>4, <1>15, <1>16 DEF q

LEMMA ArraySent ==
  ASSUME NEW s, NEW a \in Nat, NEW b \in Nat, ArrayOK(s, a, b), NEW n \in 0 .. b - a
  PROVE  /\ ArrayOK(AfterSend(s, n), a + n, b)
         /\ Owns(AfterSend(s, n), 1 .. InUse(AfterSend(s, n))) =
              Owns(s, 1 .. InUse(s)) \ Freed(s, n)
<1>1. PICK u \in 0 .. 3 : u = InUse(s)
  BY InUseSlots
<1> QED
  BY <1>1, SendSome

LEMMA BuffersSame ==
  ASSUME BufferInv, UNCHANGED output
  PROVE  BufferInv'
<1>1. send' = send /\ queued' = queued /\ sent' = sent /\ blocks' = blocks
  BY DEF output
<1> QED
  BY <1>1 DEF BufferInv

LEMMA BufferOf ==
  ASSUME BufferInv, NEW t \in Ctrler
  PROVE  BufferOK(send[t], queued[t], sent[t], blocks[t])
  BY DEF BufferInv

(* Only the buffer of t changes.                                           *)
LEMMA BufferStep ==
  ASSUME BufferInv, NEW t, NEW s, NEW q, NEW out, NEW mem,
         send' = [send EXCEPT ![t] = s], queued' = [queued EXCEPT ![t] = q],
         sent' = [sent EXCEPT ![t] = out], blocks' = [blocks EXCEPT ![t] = mem],
         t \in Ctrler => BufferOK(s, q, out, mem)
  PROVE  BufferInv'
<1>1. CASE t \notin Ctrler
  <2>1. send' = send /\ queued' = queued /\ sent' = sent /\ blocks' = blocks
    BY <1>1 DEF BufferInv
  <2> QED
    BY <2>1 DEF BufferInv
<1>2. CASE t \in Ctrler
  <2>1. /\ s \in [Slot -> Segment] /\ q \in Nat /\ out \in Seq(Nat) /\ mem \in SUBSET Int
    BY <1>2 DEF BufferOK, ArrayOK
  <2>2. /\ send' \in [Ctrler -> [Slot -> Segment]] /\ queued' \in [Ctrler -> Nat]
        /\ sent' \in [Ctrler -> Seq(Nat)] /\ blocks' \in [Ctrler -> SUBSET Int]
    BY <2>1 DEF BufferInv
  <2>3. ASSUME NEW x \in Ctrler PROVE BufferOK(send'[x], queued'[x], sent'[x], blocks'[x])
    <3>1. CASE x = t
      <4>1. send'[x] = s /\ queued'[x] = q /\ sent'[x] = out /\ blocks'[x] = mem
        BY <3>1 DEF BufferInv
      <4> QED
        BY <1>2, <4>1
    <3>2. CASE x # t
      <4>1. /\ send'[x] = send[x] /\ queued'[x] = queued[x]
            /\ sent'[x] = sent[x] /\ blocks'[x] = blocks[x]
        BY <3>2 DEF BufferInv
      <4> QED
        BY <4>1, BufferOf
    <3> QED
      BY <3>1, <3>2
  <2> QED
    BY <2>2, <2>3 DEF BufferInv
<1> QED
  BY <1>1, <1>2

(* What was sent and what is pending                                       *)
LEMMA PendingIs ==
  ASSUME NEW s, NEW q, NEW out, NEW mem, BufferOK(s, q, out, mem)
  PROVE  /\ Pending(s) = Run(Len(out) + 1, q + 1) /\ Len(out) \in Nat /\ Len(out) <= q
         /\ Len(Pending(s)) = q - Len(out)
<1> DEFINE m == Len(out)
<1>1. /\ s \in [Slot -> Segment] /\ q \in Nat /\ m \in Nat
      /\ Contiguous(s, InUse(s), m + 1, q + 1)
  BY DEF BufferOK, ArrayOK
<1> HIDE DEF m
<1>2. /\ InUse(s) \in 0 .. 3 /\ m + 1 \in Nat /\ q + 1 \in Nat
      /\ (q + 1) - (m + 1) = q - m
  BY <1>1, InUseSlots
<1>3. Pending(s) = Run(m + 1, q + 1) /\ m + 1 <= q + 1
  BY <1>1, <1>2, SegmentsJoin DEF Pending
<1>4. Len(Pending(s)) = q - m
  BY <1>2, <1>3, RunIs
<1> QED
  BY <1>1, <1>3, <1>4 DEF m

LEMMA TransmitKeeps ==
  ASSUME BufferInv, NEW t, NEW c, NEW r, NEW n \in 0 .. Len(Pending(send[t])),
         Transmit(t, c, r, n)
  PROVE  BufferInv'
<1> DEFINE s == AfterSend(send[t], n)
           out == sent[t] \o SubSeq(Pending(send[t]), 1, n)
           mem == blocks[t] \ Freed(send[t], n)
<1>1. /\ send' = [send EXCEPT ![t] = s] /\ queued' = queued
      /\ sent' = [sent EXCEPT ![t] = out] /\ blocks' = [blocks EXCEPT ![t] = mem]
  BY DEF Transmit
<1>2. queued' = [queued EXCEPT ![t] = queued[t]]
  BY <1>1 DEF BufferInv
<1>3. ASSUME t \in Ctrler PROVE BufferOK(s, queued[t], out, mem)
  <2> DEFINE m == Len(sent[t])  q == queued[t]
  <2>1. BufferOK(send[t], q, sent[t], blocks[t])
    BY <1>3, BufferOf
  <2>2. /\ q \in Nat /\ m \in Nat /\ blocks[t] \in SUBSET Int
        /\ sent[t] = Run(1, m + 1)
        /\ ArrayOK(send[t], m + 1, q + 1)
        /\ blocks[t] = Owns(send[t], 1 .. InUse(send[t]))
    BY <2>1 DEF BufferOK
  <2>3. /\ Pending(send[t]) = Run(m + 1, q + 1) /\ m <= q
        /\ Len(Pending(send[t])) = q - m
    BY <2>1, PendingIs
  <2> HIDE DEF m, q
  <2>4. /\ m + 1 \in Nat /\ q + 1 \in Nat /\ n \in 0 .. (q + 1) - (m + 1)
        /\ (m + 1) + n = (m + n) + 1 /\ (m + n) + 1 \in Nat /\ m + n \in Nat
        /\ 1 <= m + 1 /\ m + 1 <= (m + n) + 1 /\ 1 <= (m + n) + 1
        /\ ((m + n) + 1) - 1 = m + n
    BY <2>2, <2>3
  <2>5. SubSeq(Pending(send[t]), 1, n) = Run(m + 1, (m + n) + 1)
    <3>1. SubSeq(Run(m + 1, q + 1), 1, n) = Run(m + 1, (m + 1) + n)
      BY <2>4, RunCut
    <3> QED
      BY ONLY <2>3, <2>4, <3>1
  <2>6. Run(1, m + 1) \o Run(m + 1, (m + n) + 1) = Run(1, (m + n) + 1)
    BY <2>4, RunJoin
  <2>7. Run(1, (m + n) + 1) \in Seq(Nat) /\ Len(Run(1, (m + n) + 1)) = m + n
    BY <2>4, RunIs
  <2>8. out = Run(1, (m + n) + 1)
    BY ONLY <2>2, <2>5, <2>6 DEF out
  <2>9. /\ ArrayOK(s, (m + 1) + n, q + 1)
        /\ Owns(s, 1 .. InUse(s)) = Owns(send[t], 1 .. InUse(send[t])) \ Freed(send[t], n)
    BY <2>2, <2>4, ArraySent DEF s
  <2>10. mem \in SUBSET Int /\ mem = Owns(s, 1 .. InUse(s))
    BY <2>2, <2>9
  <2> HIDE DEF s, out, mem
  <2>11. out \in Seq(Nat) /\ out = Run(1, Len(out) + 1) /\ ArrayOK(s, Len(out) + 1, q + 1)
    BY ONLY <2>4, <2>7, <2>8, <2>9
  <2> QED
    BY <2>2, <2>10, <2>11 DEF BufferOK, q
<1> HIDE DEF s, out, mem
<1> QED
  BY <1>1, <1>2, <1>3, BufferStep

LEMMA RunSendKeeps ==
  ASSUME BufferInv, NEW t, NEW c, NEW r, RunSend(t, c, r)
  PROVE  BufferInv'
  BY BuffersSame, TransmitKeeps DEF RunSend

LEMMA NotifyKeeps ==
  ASSUME BufferInv, NEW c, NEW r, Notify(c, r)
  PROVE  BufferInv'
<1>1. CASE RunSend(r.parent, c, r)
  BY <1>1, RunSendKeeps
<1>2. CASE UNCHANGED output
  BY <1>2, BuffersSame
<1>3. RunSend(r.parent, c, r) \/ UNCHANGED output
  BY DEF Notify, RunConnect, RunRecv, StopPoll
<1> QED
  BY <1>1, <1>2, <1>3

(* A segment is added behind the last one.                                 *)
LEMMA SegmentAdded ==
  ASSUME NEW s, NEW a \in Nat, NEW b \in Nat \ {0}, ArrayOK(s, a, b), InUse(s) < 3,
         NEW r \in Segment, r.base = b, r.len > 0, r.tag \in {0, Weak}
  PROVE  LET q == Filled(s, InUse(s) + 1, r) IN
         /\ ArrayOK(q, a, b + r.len)
         /\ Owns(q, 1 .. InUse(q)) =
              Owns(s, 1 .. InUse(s)) \union (IF r.tag = Weak THEN {} ELSE {b})
<1> DEFINE u == InUse(s)
           v == u + 1
           q == Filled(s, v, r)
<1>1. u \in 0 .. 2 /\ u = InUse(s)
  BY InUseSlots
<1>2. /\ s \in [Slot -> Segment] /\ Contiguous(s, u, a, b)
      /\ \A i \in 2 .. u : s[i].tag \in {0, Weak}
  BY DEF ArrayOK
<1> HIDE DEF u
<1>3. Null \in Segment /\ Null.base = 0
  BY DEF Null, Segment
<1>4. q \in [Slot -> Segment]
  BY <1>2, <1>3 DEF Filled
<1>5. /\ q[v] = r /\ \A i \in 1 .. u : q[i] = s[i]
      /\ v < 3 => q[v + 1] = Null
  BY <1>1 DEF Filled, Slot
<1> HIDE DEF q
<1>6. \A i \in 1 .. v : i \in 1 .. u \/ i = v
  BY <1>1
<1>7. \A i \in 1 .. v : q[i].base > 0 /\ q[i].len > 0
  <2>1. \A i \in 1 .. u : s[i].base > 0 /\ s[i].len > 0
    BY <1>2 DEF Contiguous
  <2> QED
    BY <1>5, <1>6, <2>1
<1>8. v = InUse(q) /\ v \in 1 .. 3
  BY <1>1, <1>3, <1>5, <1>7, InUseIs
<1>9. Contiguous(q, v, a, b + r.len)
  <2>1. ASSUME NEW i \in 1 .. v - 1 PROVE q[i + 1].base = q[i].base + q[i].len
    <3>1. CASE i = u
      <4>1. s[u].base + s[u].len = b
        BY <1>1, <2>1, <3>1, <1>2 DEF Contiguous
      <4> QED
        BY <1>1, <1>5, <3>1, <4>1
    <3>2. CASE i # u
      <4>1. i \in 1 .. u - 1 /\ i \in 1 .. u /\ i + 1 \in 1 .. u
        BY <1>1, <3>2
      <4>2. s[i + 1].base = s[i].base + s[i].len
        BY <1>2, <4>1 DEF Contiguous
      <4> QED
        BY <1>5, <4>1, <4>2
    <3> QED
      BY <3>1, <3>2
  <2>2. q[1].base = a
    <3>1. CASE u = 0
      BY <1>2, <1>5, <3>1 DEF Contiguous
    <3>2. CASE u # 0
      BY <1>1, <1>2, <1>5, <3>2 DEF Contiguous
    <3> QED
      BY <3>1, <3>2
  <2>3. q[v].base + q[v].len = b + r.len
    BY <1>5
  <2>4. v # 0
    BY <1>8
  <2> QED
    BY <1>7, <2>1, <2>2, <2>3, <2>4 DEF Contiguous
<1>10. \A i \in 2 .. v : q[i].tag \in {0, Weak}
  <2> SUFFICES ASSUME NEW i \in 2 .. v PROVE q[i].tag \in {0, Weak}
    OBVIOUS
  <2>1. CASE i = v
    BY <1>5, <2>1
  <2>2. CASE i # v
    <3>1. i \in 1 .. u /\ i \in 2 .. u
      BY <1>1, <2>2
    <3> QED
      BY <1>2, <1>5, <3>1
  <2> QED
    BY <2>1, <2>2
<1>11. Owns(q, 1 .. v) = Owns(s, 1 .. u) \union (IF r.tag = Weak THEN {} ELSE {b})
  <2>1. v \in 1 .. v /\ \A i \in 1 .. u : i \in 1 .. v
    BY <1>1
  <2>2. r.tag # Weak => r.base - r.tag = b
    <3>1. r.tag # Weak => r.tag = 0
      OBVIOUS
    <3> QED
      BY <3>1
  <2>3. ASSUME NEW x PROVE x \in Owns(q, 1 .. v) <=>
                             x \in Owns(s, 1 .. u) \/ (r.tag # Weak /\ x = r.base - r.tag)
    <3>1. x \in Owns(q, 1 .. v) <=> \E i \in 1 .. v : q[i].tag # Weak /\ x = q[i].base - q[i].tag
      BY DEF Owns
    <3>2. x \in Owns(s, 1 .. u) <=> \E i \in 1 .. u : s[i].tag # Weak /\ x = s[i].base - s[i].tag
      BY DEF Owns
    <3> HIDE DEF v
    <3> QED
      BY ONLY <1>5, <1>6, <2>1, <3>1, <3>2
  <2> QED
    BY <2>2, <2>3
<1> QED
  BY <1>4, <1>8, <1>9, <1>10, <1>11 DEF ArrayOK, u, q

LEMMA AddSegmentKeeps ==
  ASSUME BufferInv, NEW t \in Ctrler, NEW len \in 1 .. 2, NEW strong \in BOOLEAN,
         AddSegment(t, len, strong)
  PROVE  BufferInv'
<1> DEFINE b == queued[t] + 1
           r == [base |-> queued[t] + 1, len |-> len, tag |-> IF strong THEN 0 ELSE Weak]
           s == Filled(send[t], InUse(send[t]) + 1, r)
           mem == IF strong THEN blocks[t] \union {b} ELSE blocks[t]
<1>1. /\ send' = [send EXCEPT ![t] = s] /\ queued' = [queued EXCEPT ![t] = queued[t] + len]
      /\ sent' = sent /\ blocks' = [blocks EXCEPT ![t] = mem] /\ InUse(send[t]) < 3
  BY DEF AddSegment
<1>2. sent' = [sent EXCEPT ![t] = sent[t]]
  BY <1>1 DEF BufferInv
<1>3. /\ queued[t] \in Nat /\ sent[t] \in Seq(Nat) /\ blocks[t] \in SUBSET Int
      /\ sent[t] = Run(1, Len(sent[t]) + 1)
      /\ ArrayOK(send[t], Len(sent[t]) + 1, b)
      /\ blocks[t] = Owns(send[t], 1 .. InUse(send[t]))
  BY BufferOf DEF BufferOK
<1>4. /\ r \in Segment /\ r.base = b /\ r.len = len /\ r.tag = IF strong THEN 0 ELSE Weak
  BY <1>3 DEF Segment
<1>5. b \in Nat \ {0} /\ Len(sent[t]) + 1 \in Nat /\ len > 0 /\ Weak # 0
      /\ b + len = (queued[t] + len) + 1 /\ queued[t] + len \in Nat
  BY <1>3 DEF Weak
<1> HIDE DEF b, r
<1>6. /\ ArrayOK(s, Len(sent[t]) + 1, b + r.len)
      /\ Owns(s, 1 .. InUse(s)) = Owns(send[t], 1 .. InUse(send[t]))
                                    \union (IF r.tag = Weak THEN {} ELSE {b})
  BY <1>1, <1>3, <1>4, <1>5, SegmentAdded
<1> HIDE DEF s
<1>7. mem = Owns(s, 1 .. InUse(s)) /\ mem \in SUBSET Int
  <2>1. r.tag = Weak <=> ~strong
    BY <1>4, <1>5
  <2>2. CASE strong
    BY ONLY <1>3, <1>5, <1>6, <2>1, <2>2
  <2>3. CASE ~strong
    BY ONLY <1>3, <1>6, <2>1, <2>3
  <2> QED
    BY <2>2, <2>3
<1>8. BufferOK(s, queued[t] + len, sent[t], mem)
  BY <1>3, <1>4, <1>5, <1>6, <1>7 DEF BufferOK
<1> HIDE DEF mem
<1> QED
  BY <1>1, <1>2, <1>8, BufferStep

LEMMA ClearKeeps ==
  ASSUME BufferInv, NEW t \in Ctrler, Clear(t)
  PROVE  BufferInv'
<1> DEFINE s == [send[t] EXCEPT ![1] = Null]
           mem == blocks[t] \ Owns(send[t], 1 .. InUse(send[t]))
<1>1. /\ send' = [send EXCEPT ![t] = s] /\ queued' = [queued EXCEPT ![t] = 0]
      /\ sent' = [sent EXCEPT ![t] = << >>] /\ blocks' = [blocks EXCEPT ![t] = mem]
  BY DEF Clear, BufferCleared, Owns
<1>2. /\ send[t] \in [Slot -> Segment]
      /\ blocks[t] = Owns(send[t], 1 .. InUse(send[t]))
  BY DEF BufferInv, BufferOK
<1>3. Null \in Segment /\ Null.base = 0 /\ 1 \in Slot
  BY DEF Null, Segment, Slot
<1>4. s \in [Slot -> Segment] /\ s[0 + 1].base = 0
  BY <1>2, <1>3
<1> HIDE DEF s
<1>5. 0 = InUse(s)
  BY <1>4, InUseIs
<1>6. ArrayOK(s, 1, 1)
  BY <1>4, <1>5 DEF ArrayOK, Contiguous
<1>7. mem = {} /\ Owns(s, 1 .. InUse(s)) = {}
  BY <1>2, <1>5 DEF Owns
<1> HIDE DEF mem
<1>8. /\ << >> \in Seq(Nat) /\ Len(<< >>) = 0 /\ << >> = Run(1, 1)
      /\ 0 + 1 = 1 /\ 0 \in Nat
  BY DEF Run
<1>9. BufferOK(s, 0, << >>, mem)
  BY <1>6, <1>7, <1>8 DEF BufferOK
<1> QED
  BY <1>1, <1>9, BufferStep

LEMMA BufferInit == Init => BufferInv
<1> SUFFICES ASSUME Init PROVE BufferInv
  OBVIOUS
<1> DEFINE s == [i \in Slot |-> Null]
<1>1. Null \in Segment /\ Null.base = 0 /\ 1 \in Slot
  BY DEF Null, Segment, Slot
<1>2. s \in [Slot -> Segment] /\ s[0 + 1].base = 0
  BY <1>1
<1> HIDE DEF s
<1>3. 0 = InUse(s)
  BY <1>2, InUseIs
<1>4. ArrayOK(s, 1, 1)
  BY <1>2, <1>3 DEF ArrayOK, Contiguous
<1>5. Owns(s, 1 .. InUse(s)) = {}
  BY <1>3 DEF Owns
<1>6. /\ << >> \in Seq(Nat) /\ Len(<< >>) = 0 /\ << >> = Run(1, 1)
      /\ 0 + 1 = 1 /\ 0 \in Nat
  BY DEF Run
<1>7. BufferOK(s, 0, << >>, {})
  BY <1>4, <1>5, <1>6 DEF BufferOK
<1>8. /\ send = [t \in Ctrler |-> s] /\ queued = [t \in Ctrler |-> 0]
      /\ sent = [t \in Ctrler |-> << >>] /\ blocks = [t \in Ctrler |-> {}]
  BY DEF Init, s
<1> QED
  BY <1>2, <1>6, <1>7, <1>8 DEF BufferInv

LEMMA BufferNext == BufferInv /\ [Next]_vars => BufferInv'
<1> SUFFICES ASSUME BufferInv, [Next]_vars PROVE BufferInv'
  OBVIOUS
<1>1. CASE UNCHANGED output
  BY <1>1, BuffersSame
<1>2. ASSUME NEW c \in Conn, TimedOut(c) \/ Polled(c) PROVE BufferInv'
  BY <1>2, NotifyKeeps DEF TimedOut, Polled
<1>3. ASSUME NEW t \in Ctrler, TrySend(t) PROVE BufferInv'
  BY <1>3, BuffersSame, RunSendKeeps DEF TrySend
<1>4. ASSUME NEW t \in Ctrler, NEW len \in 1 .. 2, NEW strong \in BOOLEAN,
             AddSegment(t, len, strong)
      PROVE  BufferInv'
  BY <1>4, AddSegmentKeeps
<1>5. ASSUME NEW t \in Ctrler, Clear(t) PROVE BufferInv'
  BY <1>5, ClearKeeps
<1>6. ASSUME RecvLabel \/ ClearKeepAlive \/ UNCHANGED vars PROVE UNCHANGED output
  BY <1>6 DEF RecvLabel, ClearKeepAlive, vars, output
<1>7. ASSUME NEW t \in Ctrler,
             SetTimeout(t) \/ Connect(t) \/ TryRecv(t)
             \/ OnConnectionInactive(t) \/ OnFinish(t) \/ CloseConnection(t)
      PROVE  UNCHANGED output
  BY <1>7 DEF SetTimeout, Connect, TryRecv, RunRecv, OnConnectionInactive, OnFinish,
              CloseConnection
<1> QED
  BY <1>1, <1>2, <1>3, <1>4, <1>5, <1>6, <1>7 DEF Next

(* Each send buffer is an array of segments without gaps that begins where *)
(* the kernel stopped, and owns the memory of its segments                 *)
(* (cort_tcp_ctrler.h: set_send_buffer, get_free_index, clear; try_send).  *)
THEOREM BuffersHold == Spec => []BufferInv
  BY BufferInit, BufferNext, PTL DEF Spec

(* However the kernel cuts the segments and whenever a segment is added,   *)
(* what was sent and what is still pending are together the bytes that     *)
(* were put in, in order and once (try_send).                              *)
THEOREM StreamExactHolds == Spec => []StreamExact
<1>1. ASSUME BufferInv, NEW t \in Ctrler
      PROVE  sent[t] \o Pending(send[t]) = [k \in 1 .. queued[t] |-> k]
  <2> DEFINE m == Len(sent[t])  q == queued[t]
  <2>1. BufferOK(send[t], q, sent[t], blocks[t])
    BY <1>1, BufferOf
  <2>2. /\ Pending(send[t]) = Run(m + 1, q + 1) /\ m \in Nat /\ m <= q
        /\ sent[t] = Run(1, m + 1) /\ q \in Nat
    BY <2>1, PendingIs DEF BufferOK
  <2> HIDE DEF m
  <2>3. Run(1, m + 1) \o Run(m + 1, q + 1) = Run(1, q + 1)
    <3> HIDE DEF q
    <3>1. 1 \in Nat /\ m + 1 \in Nat /\ q + 1 \in Nat /\ 1 <= m + 1 /\ m + 1 <= q + 1
      BY <2>2
    <3> QED
      BY ONLY <3>1, RunJoin
  <2>4. Run(1, q + 1) = [k \in 1 .. q |-> k]
    BY <2>2 DEF Run
  <2> QED
    BY <2>2, <2>3, <2>4
<1>2. BufferInv => StreamExact
  BY <1>1 DEF StreamExact
<1> QED
  BY <1>2, BuffersHold, PTL

(* A block of memory that the send buffer owns is freed when its last byte *)
(* is sent or the buffer is cleared, with the address that malloc gave     *)
(* (try_send, clear).                                                      *)
THEOREM BlocksExactHolds == Spec => []BlocksExact
<1>1. BufferInv => BlocksExact
  BY DEF BufferInv, BufferOK, Owns, BlocksExact
<1> QED
  BY <1>1, BuffersHold, PTL
=============================================================================
