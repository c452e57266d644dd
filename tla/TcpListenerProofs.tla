-------------------------- MODULE TcpListenerProofs --------------------------
(***************************************************************************)
(* The bookkeeping of TcpListener is exact for any number of clients, any  *)
(* limit of files and any size of a batch.                                 *)
(***************************************************************************)
EXTENDS TcpListener, SequenceTheorems, TLAPS

(* Taking the last element out of a sequence without repetitions takes it  *)
(* out of its range.                                                       *)
LEMMA FrontLast ==
  ASSUME NEW S, NEW s \in Seq(S), s # << >>
  PROVE  /\ Last(s) \in S
         /\ Front(s) \in Seq(S)
         /\ Len(Front(s)) = Len(s) - 1
         /\ Range(s) = Range(Front(s)) \union {Last(s)}
         /\ IsInjective(s) => /\ Last(s) \notin Range(Front(s))
                              /\ IsInjective(Front(s))
<1>1. Len(s) \in Nat /\ Len(s) > 0
  BY EmptySeq
<1>2. /\ Front(s) \in Seq(S)
      /\ Len(Front(s)) = Len(s) - 1
      /\ DOMAIN Front(s) = 1 .. Len(s) - 1
      /\ \A i \in 1 .. Len(s) - 1 : Front(s)[i] = s[i]
  <2> DEFINE n == Len(s) - 1
             f == SubSeq(s, 1, n)
  <2>1. n \in Nat /\ Front(s) = f
    BY <1>1 DEF Front
  <2>2. \A i \in 1 .. n : s[i] \in S
    BY <1>1
  <2> HIDE DEF n
  <2>3. /\ f \in Seq(S)
        /\ Len(f) = IF 1 <= n THEN n - 1 + 1 ELSE 0
        /\ \A i \in 1 .. n - 1 + 1 : f[i] = s[1 + i - 1]
    BY <2>1, <2>2, SubSeqProperties
  <2> HIDE DEF f
  <2>4. Len(f) = n /\ \A i \in 1 .. n : f[i] = s[i]
    BY <2>1, <2>3
  <2>5. DOMAIN f = 1 .. n
    BY <2>3, <2>4, LenProperties
  <2> QED
    BY <2>1, <2>3, <2>4, <2>5 DEF n
<1>3. DOMAIN s = 1 .. Len(s) /\ \A i \in 1 .. Len(s) : s[i] \in S
  OBVIOUS
<1>4. Last(s) = s[Len(s)]
  BY DEF Last
<1>5. Range(s) = Range(Front(s)) \union {Last(s)}
  BY <1>1, <1>2, <1>3, <1>4 DEF Range
<1>6. IsInjective(s) => /\ Last(s) \notin Range(Front(s))
                        /\ IsInjective(Front(s))
  BY <1>1, <1>2, <1>3, <1>4 DEF Range, IsInjective
<1> QED
  BY <1>1, <1>2, <1>3, <1>4, <1>5, <1>6

(* Appending an element that is not there yet.                             *)
LEMMA AppendRange ==
  ASSUME NEW S, NEW s \in Seq(S), NEW e \in S
  PROVE  /\ Append(s, e) \in Seq(S)
         /\ Len(Append(s, e)) = Len(s) + 1
         /\ Range(Append(s, e)) = Range(s) \union {e}
         /\ IsInjective(s) /\ e \notin Range(s) => IsInjective(Append(s, e))
<1>1. /\ Append(s, e) \in Seq(S)
      /\ Len(Append(s, e)) = Len(s) + 1
      /\ DOMAIN s = 1 .. Len(s) /\ Len(s) \in Nat
      /\ DOMAIN Append(s, e) = 1 .. Len(s) + 1
      /\ Append(s, e)[Len(s) + 1] = e
      /\ \A i \in 1 .. Len(s) : Append(s, e)[i] = s[i]
  OBVIOUS
<1> QED
  BY <1>1 DEF Range, IsInjective

LEMMA InitInv == Init => IInv
<1> SUFFICES ASSUME Init PROVE IInv
  OBVIOUS
<1>1. Range(accepted) = {} /\ IsInjective(accepted)
  BY DEF Init, Range, IsInjective
<1>2. /\ waiter \in [Conn -> [ref : 0 .. 2, kept : BOOLEAN, timer : BOOLEAN]]
      /\ \A c \in Conn : waiter[c] = [ref |-> 0, kept |-> FALSE, timer |-> FALSE]
  BY DEF Init, Deleted
<1>3. TypeOK
  <2>1. accepted \in Seq(Conn) /\ Len(accepted) <= BatchSize
    BY ListenerAssumption DEF Init, ListenerAssumption
  <2>2. /\ backlog \subseteq Conn /\ open \subseteq Conn /\ served \subseteq Conn
        /\ listening \in BOOLEAN /\ signalled \in BOOLEAN /\ stopped \in BOOLEAN
    BY DEF Init
  <2>3. /\ at \in {"new", "yield", "accept", "create", "sleep", "finished", "failed"}
        /\ polled \in {"none", "in", "out"}
        /\ errno \in {"none", "again", "full"}
    BY DEF Init
  <2> QED
    BY <1>2, <2>1, <2>2, <2>3 DEF TypeOK
<1>4. FilesExact
  BY <1>1, <1>2 DEF Init, FilesExact, IsAlive
<1>5. RefsExact
  BY <1>2 DEF Init, RefsExact
<1>6. ServedUntimed /\ OneConnection
  BY <1>1 DEF Init, ServedUntimed, OneConnection
<1> QED
  BY <1>3, <1>4, <1>5, <1>6 DEF IInv

(* The part of the state that the listener's control changes alone.        *)
ControlOK ==
  /\ at \in {"new", "yield", "accept", "create", "sleep", "finished", "failed"}
  /\ listening \in BOOLEAN /\ signalled \in BOOLEAN /\ stopped \in BOOLEAN
  /\ polled \in {"none", "in", "out"}
  /\ errno \in {"none", "again", "full"}

WaiterRecord == [ref : 0 .. 2, kept : BOOLEAN, timer : BOOLEAN]

(* The rest of the invariant, which is about the connections.              *)
ConnsOK ==
  /\ accepted \in Seq(Conn) /\ Len(accepted) <= BatchSize
  /\ backlog \subseteq Conn /\ open \subseteq Conn /\ served \subseteq Conn
  /\ waiter \in [Conn -> WaiterRecord]
  /\ FilesExact /\ RefsExact /\ ServedUntimed /\ OneConnection

(* The waiters that occur.                                                 *)
Fresh == [ref |-> 1, kept |-> FALSE, timer |-> FALSE]
Kept == [ref |-> 1, kept |-> TRUE, timer |-> TRUE]

LEMMA Records ==
  /\ Deleted \in WaiterRecord /\ Fresh \in WaiterRecord /\ Kept \in WaiterRecord
  /\ Deleted.ref = 0 /\ ~Deleted.kept /\ ~Deleted.timer
  /\ Fresh.ref = 1 /\ ~Fresh.kept /\ ~Fresh.timer
  /\ Kept.ref = 1 /\ Kept.kept
BY DEF Deleted, Fresh, Kept, WaiterRecord

(* What the waiter of a connection becomes when it is made, when it is     *)
(* kept and when it is used again.                                         *)
LEMMA NewRecords ==
  ASSUME NEW r \in WaiterRecord, r.ref = 1
  PROVE  /\ Refs(Deleted, 1) = Fresh
         /\ KeptAlive(r).ref = 2 /\ Refs(KeptAlive(r), -1) = Kept
         /\ Refs(Reused(r), 1) = Fresh
BY DEF Refs, KeptAlive, Reused, Deleted, Fresh, Kept, WaiterRecord

LEMMA InvParts ==
  /\ IInv <=> ControlOK /\ ConnsOK
  /\ IInv' <=> ControlOK' /\ ConnsOK'
BY DEF IInv, TypeOK, ControlOK, ConnsOK, WaiterRecord

(* A step that leaves the connections alone, or only empties the backlog.  *)
LEMMA ConnsKept ==
  ASSUME ConnsOK, backlog' \in {backlog, {}},
         UNCHANGED <<accepted, open, served, waiter>>
  PROVE  ConnsOK'
BY DEF ConnsOK, FilesExact, RefsExact, ServedUntimed, OneConnection, IsAlive

LEMMA ListensKeeps ==
  ASSUME IInv, Listens
  PROVE  IInv'
<1> USE InvParts
<1>1. CASE Start \/ StartFails \/ Wake \/ AcceptEnds \/ AcceptAgain \/ WaitAgain
  <2>1. ControlOK'
    BY <1>1 DEF ControlOK, Start, StartFails, Wake, AcceptEnds, AcceptAgain, WaitAgain
  <2>2. backlog' \in {backlog, {}} /\ UNCHANGED <<accepted, open, served, waiter>>
    BY <1>1 DEF Start, StartFails, Wake, AcceptEnds, AcceptAgain, WaitAgain, conns
  <2> QED
    BY <2>1, <2>2, ConnsKept
<1>2. CASE Pause \/ SleepEnds
  <2>1. ControlOK'
    BY <1>2 DEF ControlOK, Pause, SleepEnds, Request, ListenClosed
  <2>2. backlog' \in {backlog, {}} /\ UNCHANGED <<accepted, open, served, waiter>>
    BY <1>2 DEF Pause, SleepEnds, ListenClosed, conns
  <2> QED
    BY <2>1, <2>2, ConnsKept
<1>3. CASE AcceptOne
  <2> PICK c \in backlog : /\ backlog' = backlog \ {c}
                           /\ open' = open \union {c}
                           /\ accepted' = Append(accepted, c)
    BY <1>3 DEF AcceptOne
  <2>1. UNCHANGED <<served, waiter>> /\ ControlOK'
    BY <1>3 DEF AcceptOne, listener, ControlOK
  <2>2. Len(accepted) < BatchSize
    BY <1>3 DEF AcceptOne, HasRoom
  <2>3. c \in Conn /\ c \notin open /\ c \notin Range(accepted) /\ ~IsAlive(c)
    BY DEF ConnsOK, FilesExact, OneConnection
  <2>4. /\ accepted' \in Seq(Conn)
        /\ Len(accepted') = Len(accepted) + 1
        /\ Range(accepted') = Range(accepted) \union {c}
        /\ IsInjective(accepted')
    BY <2>3, AppendRange DEF ConnsOK, OneConnection
  <2>5. Len(accepted') <= BatchSize
    BY <2>2, <2>4, ListenerAssumption DEF ListenerAssumption, ConnsOK
  <2>6. FilesExact'
    BY <2>1, <2>3, <2>4 DEF ConnsOK, FilesExact, IsAlive
  <2>7. RefsExact' /\ ServedUntimed' /\ OneConnection'
    BY <2>1, <2>4 DEF ConnsOK, RefsExact, ServedUntimed, OneConnection
  <2> QED
    BY <2>1, <2>3, <2>4, <2>5, <2>6, <2>7 DEF ConnsOK
<1>4. CASE Create
  <2> DEFINE c == Last(accepted)
  <2>1. /\ UNCHANGED <<backlog, open>> /\ ControlOK'
        /\ accepted # << >>
        /\ accepted' = Front(accepted)
        /\ served' = served \union {c}
        /\ waiter' = [waiter EXCEPT ![c] = Fresh]
    <3>1. UNCHANGED listener /\ UNCHANGED conns
      BY <1>4 DEF Create
    <3>2. ControlOK' /\ UNCHANGED <<backlog, open>>
      BY <3>1 DEF listener, conns, ControlOK
    <3> QED
      BY <1>4, <3>2 DEF Create, Others, Refs, Deleted, Fresh
  <2>2. /\ c \in Conn /\ accepted' \in Seq(Conn)
        /\ Len(accepted') = Len(accepted) - 1
        /\ Range(accepted) = Range(accepted') \union {c}
        /\ c \notin Range(accepted') /\ IsInjective(accepted')
    BY <2>1, FrontLast DEF ConnsOK, OneConnection
  <2>3. Len(accepted') <= BatchSize
    BY <2>2, ListenerAssumption, LenProperties DEF ListenerAssumption, ConnsOK
  <2> HIDE DEF c
  <2>4. /\ waiter' \in [Conn -> WaiterRecord]
        /\ waiter'[c] = Fresh
        /\ \A d \in Conn \ {c} : waiter'[d] = waiter[d]
    BY <2>1, <2>2, Records DEF ConnsOK
  <2>5. ~IsAlive(c) /\ waiter[c] \in WaiterRecord
    BY <2>2 DEF ConnsOK, FilesExact
  <2>6. FilesExact'
    BY <2>1, <2>2, <2>4, Records DEF ConnsOK, FilesExact, IsAlive
  <2>7. RefsExact'
    BY <2>1, <2>2, <2>4, <2>5, Records DEF ConnsOK, RefsExact, IsAlive, WaiterRecord
  <2>8. ServedUntimed' /\ OneConnection'
    BY <2>1, <2>2, <2>4, Records DEF ConnsOK, ServedUntimed, OneConnection
  <2> QED
    BY <2>1, <2>2, <2>3, <2>4, <2>6, <2>7, <2>8 DEF ConnsOK
<1> QED
  BY <1>1, <1>2, <1>3, <1>4 DEF Listens

(* A step that changes the waiter of one connection c, which is not among  *)
(* those that wait for their ctrler, to r, with the fd closed exactly when *)
(* no reference is left.                                                   *)
Becomes(c, r) ==
  /\ waiter' = [waiter EXCEPT ![c] = r]
  /\ open' = IF r.ref = 0 THEN open \ {c} ELSE open
  /\ served' \subseteq Conn
  /\ \A d \in Conn \ {c} : d \in served' <=> d \in served
  /\ r.ref = (IF c \in served' THEN 1 ELSE 0) + (IF r.kept THEN 1 ELSE 0)
  /\ c \in served' => ~r.timer /\ ~r.kept
  /\ UNCHANGED <<accepted, backlog>>

LEMMA WaiterChanges ==
  ASSUME ConnsOK, NEW c \in Conn, NEW r \in WaiterRecord, IsAlive(c), Becomes(c, r)
  PROVE  ConnsOK'
<1> USE DEF Becomes
<1>1. /\ waiter' \in [Conn -> WaiterRecord]
      /\ waiter'[c] = r
      /\ \A d \in Conn \ {c} : waiter'[d] = waiter[d]
  BY DEF ConnsOK
<1>2. c \notin Range(accepted) /\ c \in open
  BY DEF ConnsOK, FilesExact
<1>3. r.ref > 0 <=> r.ref # 0
  BY DEF WaiterRecord
<1>4. FilesExact'
  BY <1>1, <1>2, <1>3 DEF ConnsOK, FilesExact, IsAlive
<1>5. RefsExact'
  BY <1>1 DEF ConnsOK, RefsExact
<1>6. ServedUntimed'
  BY <1>1 DEF ConnsOK, ServedUntimed
<1>7. OneConnection' /\ open' \subseteq Conn
  BY DEF ConnsOK, OneConnection
<1> QED
  BY <1>1, <1>4, <1>5, <1>6, <1>7 DEF ConnsOK

LEMMA WaitersKeep ==
  ASSUME IInv, NEW c \in Conn,
         \/ KeptTimeout(c)
         \/ \E keep \in BOOLEAN : CtrlerEnds(c, keep)
         \/ \E events \in SUBSET Event \ {{}} : KeptEvent(c, events)
  PROVE  IInv'
<1> USE InvParts
<1> DEFINE w == waiter[c]
<1>1. /\ w \in WaiterRecord
      /\ w.ref = (IF c \in served THEN 1 ELSE 0) + (IF w.kept THEN 1 ELSE 0)
      /\ c \in served => ~w.timer /\ ~w.kept
      /\ served \subseteq Conn
  BY DEF ConnsOK, RefsExact, ServedUntimed
<1>2. IsAlive(c) <=> w.ref > 0
  BY DEF IsAlive
<1>3. CASE KeptTimeout(c) \/ \E events \in SUBSET Event : Broken(events) /\ KeptEvent(c, events)
  <2>1. /\ w.kept /\ Release(c, w)
        /\ UNCHANGED <<served, accepted, backlog>> /\ ControlOK'
    BY <1>3 DEF KeptTimeout, KeptEvent, listener, ControlOK
  <2>2. w.ref = 1 /\ c \notin served
    BY <1>1, <2>1
  <2>3. Becomes(c, Deleted)
    BY <1>1, <2>1, <2>2, Records DEF Release, Becomes
  <2> QED
    BY <1>2, <2>1, <2>2, <2>3, Records, WaiterChanges
<1>4. CASE \E events \in SUBSET Event : ~Broken(events) /\ KeptEvent(c, events)
  <2>1. /\ w.kept
        /\ waiter' = [waiter EXCEPT ![c] = Refs(Reused(waiter[c]), 1)]
        /\ served' = served \union {c}
        /\ UNCHANGED <<open, accepted, backlog>>
    BY <1>4 DEF KeptEvent
  <2>2. ControlOK'
    BY <1>4 DEF KeptEvent, listener, ControlOK
  <2>3. w.ref = 1
    BY <1>1, <2>1
  <2>4. waiter' = [waiter EXCEPT ![c] = Fresh]
    BY <1>1, <2>1, <2>3, NewRecords
  <2>5. Becomes(c, Fresh)
    <3>1. /\ c \in served' /\ served' \subseteq Conn
          /\ \A d \in Conn \ {c} : d \in served' <=> d \in served
      BY <1>1, <2>1
    <3>2. open' = IF Fresh.ref = 0 THEN open \ {c} ELSE open
      BY <2>1, Records
    <3>3. Fresh.ref = (IF c \in served' THEN 1 ELSE 0) + (IF Fresh.kept THEN 1 ELSE 0)
      BY <3>1, Records
    <3> QED
      BY <2>1, <2>4, <3>1, <3>2, <3>3, Records, Zenon DEF Becomes
  <2> QED
    BY <1>2, <2>2, <2>3, <2>5, Records, WaiterChanges
<1>5. CASE \E keep \in BOOLEAN : CtrlerEnds(c, keep)
  <2> PICK keep \in BOOLEAN : CtrlerEnds(c, keep)
    BY <1>5
  <2>1. /\ c \in served /\ served' = served \ {c}
        /\ Release(c, IF keep THEN KeptAlive(w) ELSE w)
        /\ UNCHANGED <<accepted, backlog>> /\ ControlOK'
    BY DEF CtrlerEnds, listener, ControlOK
  <2>2. w.ref = 1 /\ ~w.kept
    BY <1>1, <2>1
  <2>3. CASE ~keep
    <3>1. Release(c, w)
      BY <2>1, <2>3
    <3>2. waiter' = [waiter EXCEPT ![c] = Deleted] /\ open' = open \ {c}
      BY <2>2, <3>1 DEF Release
    <3>3. Becomes(c, Deleted)
      <4>1. /\ c \notin served' /\ served' \subseteq Conn
            /\ \A d \in Conn \ {c} : d \in served' <=> d \in served
        BY <1>1, <2>1
      <4> QED
        BY <2>1, <3>2, <4>1, Records DEF Becomes
    <3> QED
      BY <1>2, <2>1, <2>2, <3>3, Records, WaiterChanges
  <2>4. CASE keep
    <3>1. Release(c, KeptAlive(w))
      BY <2>1, <2>4
    <3>2. ~(KeptAlive(w).ref <= 1) /\ Refs(KeptAlive(w), -1) = Kept
      BY <1>1, <2>2, NewRecords
    <3>3. waiter' = [waiter EXCEPT ![c] = Kept] /\ open' = open
      BY <3>1, <3>2, Zenon DEF Release
    <3>4. Becomes(c, Kept)
      BY <1>1, <2>1, <3>3, Records DEF Becomes
    <3> QED
      BY <1>2, <2>1, <2>2, <3>4, Records, WaiterChanges
  <2> QED
    BY <2>3, <2>4
<1> QED
  BY <1>3, <1>4, <1>5

LEMMA ArriveKeeps ==
  ASSUME IInv, NEW c \in Conn, Arrive(c)
  PROVE  IInv'
<1> USE InvParts
<1>1. /\ c \notin open /\ backlog' = backlog \union {c}
      /\ UNCHANGED <<accepted, open, served, waiter>> /\ ControlOK'
  BY DEF Arrive, listener, ControlOK
<1> QED
  BY <1>1 DEF ConnsOK, FilesExact, RefsExact, ServedUntimed, OneConnection, IsAlive

LEMMA StopKeeps ==
  ASSUME IInv, StopListen
  PROVE  IInv'
<1>1. /\ backlog' = {} /\ UNCHANGED <<accepted, open, served, waiter>>
      /\ ControlOK'
  BY InvParts DEF StopListen, ListenClosed, ControlOK
<1> QED
  BY <1>1, InvParts, ConnsKept

LEMMA NextKeeps == IInv /\ [Next]_vars => IInv'
<1> SUFFICES ASSUME IInv, [Next]_vars PROVE IInv'
  OBVIOUS
<1>1. CASE UNCHANGED vars
  <2>1. ControlOK' /\ backlog' = backlog /\ UNCHANGED <<accepted, open, served, waiter>>
    BY <1>1, InvParts DEF vars, conns, ControlOK
  <2> QED
    BY <2>1, InvParts, ConnsKept
<1>2. CASE Listens
  BY <1>2, ListensKeeps
<1>3. CASE StopListen
  BY <1>3, StopKeeps
<1>4. ASSUME NEW c \in Conn, Arrive(c) PROVE IInv'
  BY <1>4, ArriveKeeps
<1>5. ASSUME NEW c \in Conn,
             \/ KeptTimeout(c)
             \/ \E keep \in BOOLEAN : CtrlerEnds(c, keep)
             \/ \E events \in SUBSET Event \ {{}} : KeptEvent(c, events)
      PROVE  IInv'
  BY <1>5, WaitersKeep
<1> QED
  BY <1>1, <1>2, <1>3, <1>4, <1>5 DEF Next

(* The invariant holds in every state of the listener.                     *)
THEOREM InvHolds == Spec => []IInv
  BY InitInv, NextKeeps, PTL DEF Spec

(* The files of the process are the connections that wait for their ctrler *)
(* and those whose waiter lives (accept4, cort_tcp_server_waiter::release).*)
THEOREM NoFileLost == Spec => []FilesExact
<1>1. IInv => FilesExact
  BY DEF IInv
<1> QED
  BY <1>1, InvHolds, PTL

(* Waiters have exactly the references of their ctrler and of their        *)
(* keep-alive (add_ref, remove_ref).                                       *)
THEOREM ReferencesExact == Spec => []RefsExact
<1>1. IInv => RefsExact
  BY DEF IInv
<1> QED
  BY <1>1, InvHolds, PTL

(* No keep-alive timeout is left on a connection in service (clear).       *)
THEOREM NoTimeoutInService == Spec => []ServedUntimed
<1>1. IInv => ServedUntimed
  BY DEF IInv
<1> QED
  BY <1>1, InvHolds, PTL
=============================================================================
