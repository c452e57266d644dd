-------------------------- MODULE CortChannelProofs --------------------------
(***************************************************************************)
(* However pushes, pops and wakeups nest, every waiter of CortChannel is   *)
(* in one place of one list, for any number of coroutines and any use of   *)
(* the channel.  For the uses that the channel is made for, an object that *)
(* was promised is there, no receiver waits beside an object, and no       *)
(* sender beside room for its own.                                         *)
(***************************************************************************)
EXTENDS CortChannel, FiniteSetTheorems, SequenceTheorems, TLAPS

------------------------------------------------------------------------------
(* Frames and stacks.                                                      *)

LEMMA BodyFrame ==
  ASSUME NEW c \in Cort
  PROVE  /\ Body(c) \in Frame
         /\ Body(c).op = "body" /\ Body(c).cort = c
         /\ \A d \in Cort : Body(c) = Body(d) => c = d
<1>1. Body(c).op = "body" /\ Body(c).cort = c
  BY DEF Body
<1>2. Body(c) \in [op : {"body"}, cort : Cort]
  BY DEF Body
<1>3. \A d \in Cort : Body(d).cort = d
  BY DEF Body
<1> QED
  BY <1>1, <1>2, <1>3 DEF Frame

LEMMA IsBody ==
  ASSUME NEW f \in Frame, f.op = "body"
  PROVE  f.cort \in Cort /\ f = Body(f.cort)
<1>1. f \in [op : {"body"}, cort : Cort]
  BY DEF Frame
<1> QED
  BY <1>1 DEF Body

LEMMA PushFrame ==
  ASSUME NEW f \in Frame, f.op = "push"
  PROVE  /\ f.left \in Nat /\ f.awaited \in BOOLEAN
         /\ f.left # 0 => LET g == [f EXCEPT !.left = @ - 1] IN
                          /\ g \in Frame /\ g.op = "push"
                          /\ g.left = f.left - 1 /\ g.awaited = f.awaited
<1>1. f \in [op : {"push"}, left : Nat, awaited : BOOLEAN]
  BY DEF Frame
<1>2. SUFFICES ASSUME f.left # 0
               PROVE  LET g == [f EXCEPT !.left = @ - 1] IN
                      /\ g \in Frame /\ g.op = "push"
                      /\ g.left = f.left - 1 /\ g.awaited = f.awaited
  BY <1>1
<1> DEFINE g == [f EXCEPT !.left = @ - 1]
<1>3. f.left - 1 \in Nat
  BY <1>1, <1>2
<1>4. g \in [op : {"push"}, left : Nat, awaited : BOOLEAN]
  BY <1>1, <1>3
<1>5. g.op = "push" /\ g.left = f.left - 1 /\ g.awaited = f.awaited
  BY <1>1
<1> QED
  BY <1>4, <1>5 DEF Frame

LEMMA ResizeFrame ==
  ASSUME NEW f \in Frame, f.op = "resize"
  PROVE  /\ f.left \in Nat
         /\ f.left # 0 => LET g == [f EXCEPT !.left = @ - 1] IN
                          g \in Frame /\ g.op = "resize" /\ g.left = f.left - 1
<1>1. f \in [op : {"resize"}, left : Nat]
  BY DEF Frame
<1>2. SUFFICES ASSUME f.left # 0
               PROVE  LET g == [f EXCEPT !.left = @ - 1] IN
                      g \in Frame /\ g.op = "resize" /\ g.left = f.left - 1
  BY <1>1
<1> DEFINE g == [f EXCEPT !.left = @ - 1]
<1>3. f.left - 1 \in Nat
  BY <1>1, <1>2
<1>4. g \in [op : {"resize"}, left : Nat]
  BY <1>1, <1>3
<1>5. g.op = "resize" /\ g.left = f.left - 1
  BY <1>1
<1> QED
  BY <1>4, <1>5 DEF Frame

LEMMA AwakeFrames ==
  ASSUME NEW f \in Frame, f.op = "awake"
  PROVE  /\ f.phase \in {"begin", "send", "recv"} /\ f.recheck \in BOOLEAN
         /\ LET g == [f EXCEPT !.recheck = TRUE] IN
            g \in Frame /\ g.op = "awake" /\ g.phase = f.phase
<1>1. f \in [op : {"awake"}, phase : {"begin", "send", "recv"}, recheck : BOOLEAN]
  BY DEF Frame
<1> DEFINE g == [f EXCEPT !.recheck = TRUE]
<1>2. g \in [op : {"awake"}, phase : {"begin", "send", "recv"}, recheck : BOOLEAN]
  BY <1>1
<1>3. g.op = "awake" /\ g.phase = f.phase
  BY <1>1
<1> QED
  BY <1>1, <1>2, <1>3 DEF Frame

LEMMA NewFrames ==
  /\ AwakeFrame \in Frame /\ AwakeFrame.op = "awake" /\ AwakeFrame.phase = "begin"
  /\ \A ph \in {"begin", "send", "recv"}, r \in BOOLEAN :
       LET f == [op |-> "awake", phase |-> ph, recheck |-> r] IN
       f \in Frame /\ f.op = "awake" /\ f.phase = ph
  /\ \A k \in Nat : LET f == [op |-> "resize", left |-> k] IN
                    f \in Frame /\ f.op = "resize" /\ f.left = k
  /\ \A k \in Nat, b \in BOOLEAN :
       LET f == [op |-> "push", left |-> k, awaited |-> b] IN
       f \in Frame /\ f.op = "push" /\ f.left = k /\ f.awaited = b
  BY DEF Frame, AwakeFrame

LEMMA Pushed ==
  ASSUME NEW S, NEW s \in Seq(S), NEW x \in S
  PROVE  /\ Append(s, x) \in Seq(S) /\ Append(s, x) # << >>
         /\ Len(Append(s, x)) = Len(s) + 1
         /\ \A i \in 1 .. Len(s) : Append(s, x)[i] = s[i]
         /\ Append(s, x)[Len(s) + 1] = x
         /\ Last(Append(s, x)) = x
<1>1. /\ Append(s, x) \in Seq(S)
      /\ Len(Append(s, x)) = Len(s) + 1
      /\ \A i \in 1 .. Len(s) : Append(s, x)[i] = s[i]
      /\ Append(s, x)[Len(s) + 1] = x
  OBVIOUS
<1>2. Append(s, x) # << >>
  BY <1>1
<1> QED
  BY <1>1, <1>2 DEF Last

LEMMA Popped ==
  ASSUME NEW S, NEW s \in Seq(S), s # << >>
  PROVE  /\ Len(s) \in Nat /\ Len(s) > 0
         /\ Last(s) \in S /\ Last(s) = s[Len(s)]
         /\ Front(s) \in Seq(S)
         /\ Len(Front(s)) = Len(s) - 1
         /\ \A i \in 1 .. Len(s) - 1 : Front(s)[i] = s[i]
         /\ Front(s) = << >> <=> Len(s) = 1
<1>1. Len(s) \in Nat /\ Len(s) > 0
  BY EmptySeq
<1>2. Last(s) \in S /\ Last(s) = s[Len(s)]
  BY <1>1 DEF Last
<1>3. /\ Front(s) \in Seq(S)
      /\ Len(Front(s)) = Len(s) - 1
      /\ \A i \in 1 .. Len(s) - 1 : Front(s)[i] = s[i]
  <2> DEFINE n == Len(s) - 1
             f == SubSeq(s, 1, n)
  <2>1. n \in Nat /\ Front(s) = f
    BY <1>1 DEF Front
  <2>2. \A i \in 1 .. n : s[i] \in S
    BY <1>1
  <2> HIDE DEF n
  <2>3. /\ f \in Seq(S)
        /\ Len(f) = IF 1 <= n THEN n - 1 + 1 ELSE 0
        /\ \A i \in 1 .. n - 1 + 1 : f[i] = s[1 + i - 1]
    BY <2>1, <2>2, SubSeqProperties
  <2> HIDE DEF f
  <2>4. Len(f) = n /\ \A i \in 1 .. n : f[i] = s[i]
    BY <2>1, <2>3
  <2> QED
    BY <2>1, <2>3, <2>4 DEF n
<1>4. Front(s) = << >> <=> Len(s) = 1
  BY <1>1, <1>3, EmptySeq
<1> QED
  BY <1>1, <1>2, <1>3, <1>4

(* Below a frame that is pushed on the stack no body may be in the midst   *)
(* of consuming.                                                           *)
MayPush(stk, p) ==
  stk # << >> => \A c \in Cort : Last(stk) = Body(c) => p[c] = "next"

LEMMA StackPush ==
  ASSUME NEW stk, NEW p, StackOK(stk, p), MayPush(stk, p),
         NEW f \in Frame, f.op # "body",
         f.op = "push" => stk # << >> /\ \E c \in Pushers : Last(stk) = Body(c)
  PROVE  StackOK(Append(stk, f), p)
<1> DEFINE s == Append(stk, f)
<1>1. stk \in Seq(Frame) /\ Len(stk) \in Nat
  BY DEF StackOK
<1>2. /\ s \in Seq(Frame) /\ Len(s) = Len(stk) + 1
      /\ \A i \in 1 .. Len(stk) : s[i] = stk[i]
      /\ s[Len(stk) + 1] = f
  BY <1>1, Pushed
<1>3. \A c \in Cort : f # Body(c)
  BY BodyFrame
<1>4. stk # << >> => Last(stk) = stk[Len(stk)] /\ Len(stk) > 0
  BY <1>1, Popped
<1> HIDE DEF s
<1>5. \A c \in Cort, i \in 1 .. Len(s) : s[i] = Body(c) <=> i \in 1 .. Len(stk) /\ stk[i] = Body(c)
  BY <1>1, <1>2, <1>3
<1>6. \A c \in Cort : p[c] \in Running <=> \E i \in 1 .. Len(s) : s[i] = Body(c)
  BY <1>1, <1>2, <1>5 DEF StackOK
<1>7. \A c \in Cort, i, j \in 1 .. Len(s) : s[i] = Body(c) /\ s[j] = Body(c) => i = j
  BY <1>5 DEF StackOK
<1>8. ASSUME NEW c \in Cort, NEW i \in 1 .. Len(s) - 1, s[i] = Body(c)
      PROVE  p[c] = "next"
  <2>1. i \in 1 .. Len(stk) /\ stk[i] = Body(c)
    BY <1>1, <1>2, <1>8
  <2>2. CASE i = Len(stk)
    BY <2>1, <2>2, <1>1, <1>4, EmptySeq DEF MayPush
  <2>3. CASE i # Len(stk)
    BY <2>1, <2>3, <1>1 DEF StackOK
  <2> QED
    BY <2>2, <2>3
<1>9. ASSUME NEW i \in 1 .. Len(s), s[i].op = "push"
      PROVE  i > 1 /\ \E c \in Pushers : s[i - 1] = Body(c)
  <2>1. CASE i \in 1 .. Len(stk)
    <3>1. i > 1 /\ \E c \in Pushers : stk[i - 1] = Body(c)
      BY <2>1, <1>2, <1>9 DEF StackOK
    <3> QED
      BY <3>1, <2>1, <1>1, <1>2
  <2>2. CASE i = Len(stk) + 1
    BY <2>2, <1>1, <1>2, <1>4, <1>9
  <2> QED
    BY <2>1, <2>2, <1>1, <1>2
<1> QED
  BY <1>2, <1>6, <1>7, <1>8, <1>9 DEF StackOK, s

(* The frame of a loop is taken off the stack.                             *)
LEMMA StackPop ==
  ASSUME NEW stk, NEW p, StackOK(stk, p), stk # << >>, Last(stk).op # "body"
  PROVE  StackOK(Front(stk), p) /\ MayPush(Front(stk), p)
<1> DEFINE s == Front(stk)
<1>1. stk \in Seq(Frame) /\ Len(stk) \in Nat /\ Len(stk) > 0
  BY Popped DEF StackOK
<1>2. /\ s \in Seq(Frame) /\ Len(s) = Len(stk) - 1
      /\ \A i \in 1 .. Len(stk) - 1 : s[i] = stk[i]
      /\ Last(stk) = stk[Len(stk)]
  BY <1>1, Popped
<1>3. s # << >> => Last(s) = s[Len(s)] /\ Len(s) > 0
  BY <1>2, Popped
<1> HIDE DEF s
<1>4. \A c \in Cort, i \in 1 .. Len(stk) : stk[i] = Body(c) <=> i \in 1 .. Len(s) /\ s[i] = Body(c)
  BY <1>1, <1>2, BodyFrame
<1>5. \A c \in Cort : p[c] \in Running <=> \E i \in 1 .. Len(s) : s[i] = Body(c)
  BY <1>1, <1>2, <1>4 DEF StackOK
<1>6. \A c \in Cort, i, j \in 1 .. Len(s) : s[i] = Body(c) /\ s[j] = Body(c) => i = j
  BY <1>1, <1>2 DEF StackOK
<1>7. \A c \in Cort, i \in 1 .. Len(s) : s[i] = Body(c) => p[c] = "next"
  BY <1>1, <1>2 DEF StackOK
<1>8. \A i \in 1 .. Len(s) : s[i].op = "push" => i > 1 /\ \E c \in Pushers : s[i - 1] = Body(c)
  <2>1. \A i \in 1 .. Len(s) : i \in 1 .. Len(stk) /\ s[i] = stk[i]
    BY <1>1, <1>2
  <2>2. \A i \in 1 .. Len(s) : i > 1 => s[i - 1] = stk[i - 1]
    BY <1>1, <1>2
  <2> QED
    BY <2>1, <2>2 DEF StackOK
<1>9. MayPush(s, p)
  BY <1>1, <1>2, <1>3, <1>7 DEF MayPush
<1>10. \A c \in Cort, i \in 1 .. Len(s) - 1 : s[i] = Body(c) => p[c] = "next"
  BY <1>1, <1>2, <1>7
<1>11. p \in [Cort -> Pc]
  BY DEF StackOK
<1>12. StackOK(s, p)
  BY <1>2, <1>5, <1>6, <1>8, <1>10, <1>11 DEF StackOK
<1> QED
  BY <1>9, <1>12 DEF s

(* A body suspends or finishes.                                            *)
LEMMA StackLeave ==
  ASSUME NEW stk, NEW p, StackOK(stk, p), stk # << >>,
         NEW c \in Cort, Last(stk) = Body(c), NEW w \in Pc \ Running
  PROVE  /\ StackOK(Front(stk), [p EXCEPT ![c] = w])
         /\ MayPush(Front(stk), [p EXCEPT ![c] = w])
<1> DEFINE s == Front(stk)
           q == [p EXCEPT ![c] = w]
<1>1. stk \in Seq(Frame) /\ Len(stk) \in Nat /\ Len(stk) > 0 /\ p \in [Cort -> Pc]
  BY Popped DEF StackOK
<1>2. /\ s \in Seq(Frame) /\ Len(s) = Len(stk) - 1
      /\ \A i \in 1 .. Len(stk) - 1 : s[i] = stk[i]
      /\ stk[Len(stk)] = Body(c)
  BY <1>1, Popped
<1>3. s # << >> => Last(s) = s[Len(s)] /\ Len(s) > 0
  BY <1>2, Popped
<1>4. q \in [Cort -> Pc] /\ q[c] = w /\ \A d \in Cort : d # c => q[d] = p[d]
  BY <1>1
<1> HIDE DEF s, q
<1>5. \A i \in 1 .. Len(s) : s[i] # Body(c)
  BY <1>1, <1>2 DEF StackOK
<1>6. \A d \in Cort, i \in 1 .. Len(stk) :
        d # c => (stk[i] = Body(d) <=> i \in 1 .. Len(s) /\ s[i] = Body(d))
  BY <1>1, <1>2, BodyFrame
<1>7. \A d \in Cort : q[d] \in Running <=> \E i \in 1 .. Len(s) : s[i] = Body(d)
  <2>1. \A d \in Cort : d # c => (p[d] \in Running <=> \E i \in 1 .. Len(s) : s[i] = Body(d))
    BY <1>1, <1>2, <1>6 DEF StackOK
  <2> QED
    BY <2>1, <1>4, <1>5
<1>8. \A d \in Cort, i, j \in 1 .. Len(s) : s[i] = Body(d) /\ s[j] = Body(d) => i = j
  BY <1>1, <1>2 DEF StackOK
<1>9. \A d \in Cort, i \in 1 .. Len(s) : s[i] = Body(d) => q[d] = "next"
  BY <1>1, <1>2, <1>4, <1>5 DEF StackOK
<1>10. \A i \in 1 .. Len(s) : s[i].op = "push" => i > 1 /\ \E d \in Pushers : s[i - 1] = Body(d)
  <2>1. \A i \in 1 .. Len(s) : i \in 1 .. Len(stk) /\ s[i] = stk[i]
    BY <1>1, <1>2
  <2>2. \A i \in 1 .. Len(s) : i > 1 => s[i - 1] = stk[i - 1]
    BY <1>1, <1>2
  <2> QED
    BY <2>1, <2>2 DEF StackOK
<1>11. MayPush(s, q)
  BY <1>1, <1>2, <1>3, <1>9 DEF MayPush
<1>12. \A d \in Cort, i \in 1 .. Len(s) - 1 : s[i] = Body(d) => q[d] = "next"
  BY <1>1, <1>2, <1>9
<1>13. StackOK(s, q)
  BY <1>2, <1>4, <1>7, <1>8, <1>10, <1>12 DEF StackOK
<1> QED
  BY <1>11, <1>13 DEF s, q

(* A coroutine whose body does not run is resumed.                         *)
LEMMA StackEnter ==
  ASSUME NEW stk, NEW p, StackOK(stk, p), MayPush(stk, p),
         NEW c \in Cort, p[c] \notin Running, NEW w \in Running
  PROVE  StackOK(Append(stk, Body(c)), [p EXCEPT ![c] = w])
<1> DEFINE s == Append(stk, Body(c))
           q == [p EXCEPT ![c] = w]
<1>1. stk \in Seq(Frame) /\ Len(stk) \in Nat /\ p \in [Cort -> Pc]
  BY DEF StackOK
<1>2. /\ s \in Seq(Frame) /\ Len(s) = Len(stk) + 1
      /\ \A i \in 1 .. Len(stk) : s[i] = stk[i]
      /\ s[Len(stk) + 1] = Body(c)
  BY <1>1, BodyFrame, Pushed
<1>3. stk # << >> => Last(stk) = stk[Len(stk)] /\ Len(stk) > 0
  BY <1>1, Popped
<1>4. q \in [Cort -> Pc] /\ q[c] = w /\ \A d \in Cort : d # c => q[d] = p[d]
  BY <1>1 DEF Running, Pc
<1> HIDE DEF s, q
<1>5. \A i \in 1 .. Len(stk) : stk[i] # Body(c)
  BY DEF StackOK
<1>6. \A d \in Cort, i \in 1 .. Len(s) :
        s[i] = Body(d) <=> \/ d = c /\ i = Len(s)
                           \/ d # c /\ i \in 1 .. Len(stk) /\ stk[i] = Body(d)
  BY <1>1, <1>2, <1>5, BodyFrame
<1>7. \A d \in Cort : q[d] \in Running <=> \E i \in 1 .. Len(s) : s[i] = Body(d)
  <2>1. \A d \in Cort : d # c => (p[d] \in Running <=> \E i \in 1 .. Len(s) : s[i] = Body(d))
    BY <1>1, <1>2, <1>6 DEF StackOK
  <2> QED
    BY <2>1, <1>1, <1>2, <1>4
<1>8. \A d \in Cort, i, j \in 1 .. Len(s) : s[i] = Body(d) /\ s[j] = Body(d) => i = j
  BY <1>6 DEF StackOK
<1>9. ASSUME NEW d \in Cort, NEW i \in 1 .. Len(s) - 1, s[i] = Body(d)
      PROVE  q[d] = "next"
  <2>1. i \in 1 .. Len(stk) /\ stk[i] = Body(d) /\ d # c
    BY <1>1, <1>2, <1>5, <1>9
  <2>2. CASE i = Len(stk)
    BY <2>1, <2>2, <1>1, <1>3, <1>4, EmptySeq DEF MayPush
  <2>3. CASE i # Len(stk)
    BY <2>1, <2>3, <1>1, <1>4 DEF StackOK
  <2> QED
    BY <2>2, <2>3
<1>10. ASSUME NEW i \in 1 .. Len(s), s[i].op = "push"
       PROVE  i > 1 /\ \E d \in Pushers : s[i - 1] = Body(d)
  <2>1. i \in 1 .. Len(stk)
    BY <1>1, <1>2, <1>10, BodyFrame
  <2>2. i > 1 /\ \E d \in Pushers : stk[i - 1] = Body(d)
    BY <2>1, <1>2, <1>10 DEF StackOK
  <2> QED
    BY <2>1, <2>2, <1>1, <1>2
<1> QED
  BY <1>2, <1>4, <1>7, <1>8, <1>9, <1>10 DEF StackOK, s, q

(* The body on top goes on to another statement.                           *)
LEMMA StackStay ==
  ASSUME NEW stk, NEW p, StackOK(stk, p), stk # << >>,
         NEW c \in Cort, Last(stk) = Body(c), NEW w \in Running
  PROVE  /\ StackOK(stk, [p EXCEPT ![c] = w])
         /\ w = "next" => MayPush(stk, [p EXCEPT ![c] = w])
<1> DEFINE q == [p EXCEPT ![c] = w]
<1>1. stk \in Seq(Frame) /\ Len(stk) \in Nat /\ Len(stk) > 0 /\ p \in [Cort -> Pc]
  BY Popped DEF StackOK
<1>2. stk[Len(stk)] = Body(c)
  BY <1>1, Popped
<1>3. q \in [Cort -> Pc] /\ q[c] = w /\ \A d \in Cort : d # c => q[d] = p[d]
  BY <1>1 DEF Running, Pc
<1> HIDE DEF q
<1>4. \A d \in Cort : q[d] \in Running <=> \E i \in 1 .. Len(stk) : stk[i] = Body(d)
  BY <1>1, <1>2, <1>3 DEF StackOK
<1>5. \A d \in Cort, i \in 1 .. Len(stk) - 1 : stk[i] = Body(d) => q[d] = "next"
  BY <1>1, <1>2, <1>3 DEF StackOK
<1>6. w = "next" => MayPush(stk, q)
  BY <1>3, BodyFrame DEF MayPush
<1>7. StackOK(stk, q)
  BY <1>1, <1>3, <1>4, <1>5 DEF StackOK
<1> QED
  BY <1>6, <1>7 DEF q

(* A coroutine changes its state without running before or after.          *)
LEMMA StackAside ==
  ASSUME NEW stk, NEW p, StackOK(stk, p),
         NEW c \in Cort, p[c] \notin Running, NEW w \in Pc \ Running
  PROVE  /\ StackOK(stk, [p EXCEPT ![c] = w])
         /\ MayPush(stk, p) => MayPush(stk, [p EXCEPT ![c] = w])
<1> DEFINE q == [p EXCEPT ![c] = w]
<1>1. stk \in Seq(Frame) /\ Len(stk) \in Nat /\ p \in [Cort -> Pc]
  BY DEF StackOK
<1>2. q \in [Cort -> Pc] /\ q[c] = w /\ \A d \in Cort : d # c => q[d] = p[d]
  BY <1>1
<1> HIDE DEF q
<1>3. \A i \in 1 .. Len(stk) : stk[i] # Body(c)
  BY DEF StackOK
<1>4. \A d \in Cort : q[d] \in Running <=> \E i \in 1 .. Len(stk) : stk[i] = Body(d)
  BY <1>1, <1>2, <1>3 DEF StackOK
<1>5. \A d \in Cort, i \in 1 .. Len(stk) - 1 : stk[i] = Body(d) => q[d] = "next"
  BY <1>1, <1>2, <1>3 DEF StackOK
<1>6. MayPush(stk, p) => MayPush(stk, q)
  <2>1. stk # << >> => Last(stk) = stk[Len(stk)] /\ Len(stk) > 0
    BY <1>1, Popped
  <2> QED
    BY <2>1, <1>1, <1>2, <1>3 DEF MayPush
<1>7. StackOK(stk, q)
  BY <1>1, <1>2, <1>4, <1>5 DEF StackOK
<1> QED
  BY <1>6, <1>7 DEF q

------------------------------------------------------------------------------
(* The waiting lists.                                                      *)

LEMMA SeqFacts ==
  ASSUME NEW q \in Seq(Cort)
  PROVE  /\ Len(q) \in Nat /\ DOMAIN q = 1 .. Len(q)
         /\ Range(q) = {q[i] : i \in 1 .. Len(q)} /\ Range(q) \subseteq Cort
         /\ IsInjective(q) <=> \A i, j \in 1 .. Len(q) : q[i] = q[j] => i = j
  BY DEF Range, IsInjective

LEMMA ListJoin ==
  ASSUME NEW q, NEW slot, NEW p, NEW where, ListOK(q, slot, p, where)
  PROVE  /\ ListOK(Joined(q, slot), NoCort, p, where)
         /\ \A c : c \in Range(Joined(q, slot)) <=> c \in Cort /\ p[c] = where
<1>0. NoCort \notin Cort
  BY ChannelAssumption DEF ChannelAssumption
<1>1. q \in Seq(Cort) /\ slot \in Cort \union {NoCort}
  BY DEF ListOK
<1>2. CASE slot = NoCort
  BY <1>0, <1>1, <1>2, SeqFacts DEF ListOK, Joined
<1>3. CASE slot # NoCort
  <2> DEFINE s == Append(q, slot)
  <2>1. Joined(q, slot) = s /\ slot \in Cort
    BY <1>1, <1>3 DEF Joined
  <2>2. /\ s \in Seq(Cort) /\ Len(s) = Len(q) + 1
        /\ \A i \in 1 .. Len(q) : s[i] = q[i]
        /\ s[Len(q) + 1] = slot
    BY <1>1, <2>1, Pushed
  <2> HIDE DEF s
  <2>3. Range(s) = Range(q) \union {slot}
    BY <1>1, <2>1, <2>2, SeqFacts
  <2>4. IsInjective(s)
    BY <1>1, <2>1, <2>2, SeqFacts DEF ListOK
  <2>5. NoCort \notin Range(s)
    BY <1>0, <2>2, SeqFacts
  <2> QED
    BY <1>0, <2>1, <2>2, <2>3, <2>4, <2>5, SeqFacts DEF ListOK
<1> QED
  BY <1>2, <1>3

LEMMA ListEnter ==
  ASSUME NEW q, NEW p \in [Cort -> Pc], NEW where \in Pc, ListOK(q, NoCort, p, where),
         NEW c \in Cort, p[c] # where
  PROVE  ListOK(q, c, [p EXCEPT ![c] = where], where)
<1>1. NoCort \notin Cort
  BY ChannelAssumption DEF ChannelAssumption
<1> QED
  BY <1>1 DEF ListOK

LEMMA ListHead ==
  ASSUME NEW q, NEW slot, NEW p \in [Cort -> Pc], NEW where, ListOK(q, slot, p, where),
         q # << >>, NEW v \in Pc, v # where
  PROVE  /\ Head(q) \in Cort /\ p[Head(q)] = where
         /\ ListOK(Tail(q), slot, [p EXCEPT ![Head(q)] = v], where)
<1>0. NoCort \notin Cort
  BY ChannelAssumption DEF ChannelAssumption
<1>1. q \in Seq(Cort) /\ Len(q) \in Nat /\ Len(q) > 0
  BY EmptySeq DEF ListOK
<1> DEFINE t == Tail(q)
           h == Head(q)
           r == [p EXCEPT ![h] = v]
<1>2. /\ t \in Seq(Cort) /\ Len(t) = Len(q) - 1
      /\ \A i \in 1 .. Len(t) : t[i] = q[i + 1]
      /\ h = q[1] /\ h \in Cort
  BY <1>1
<1>3. r \in [Cort -> Pc] /\ r[h] = v /\ \A d \in Cort : d # h => r[d] = p[d]
  BY <1>2
<1> HIDE DEF t, h, r
<1>9. \A i, j \in 1 .. Len(q) : q[i] = q[j] => i = j
  BY <1>1, SeqFacts DEF ListOK
<1>10. \A i \in 1 .. Len(t) : i + 1 \in 1 .. Len(q) /\ 1 \in 1 .. Len(q)
  BY <1>1, <1>2
<1>4. IsInjective(t)
  <2>1. \A i, j \in 1 .. Len(t) : t[i] = t[j] => i = j
    BY <1>2, <1>9, <1>10
  <2> QED
    BY <2>1, <1>2, SeqFacts
<1>5. h \in Range(q) /\ h \notin Range(t) /\ Range(q) = Range(t) \union {h}
  <2>1. h \in Range(q)
    BY <1>1, <1>2, SeqFacts
  <2>2. h \notin Range(t)
    <3>1. \A i \in 1 .. Len(t) : t[i] # h
      BY <1>2, <1>9, <1>10
    <3> QED
      BY <3>1, <1>2, SeqFacts
  <2>3. Range(t) \subseteq Range(q)
    <3>1. \A i \in 1 .. Len(t) : t[i] \in {q[k] : k \in 1 .. Len(q)}
      BY <1>2, <1>10
    <3> QED
      BY <3>1, <1>1, <1>2, SeqFacts
  <2>4. ASSUME NEW d \in Range(q), d # h
        PROVE  d \in Range(t)
    <3>1. PICK i \in 1 .. Len(q) : q[i] = d
      BY <1>1, SeqFacts
    <3>2. i - 1 \in 1 .. Len(t) /\ t[i - 1] = d
      BY <3>1, <2>4, <1>1, <1>2
    <3> QED
      BY <3>2, <1>2, SeqFacts
  <2> QED
    BY <2>1, <2>2, <2>3, <2>4
<1>6. p[h] = where
  BY <1>2, <1>5 DEF ListOK
<1>7. slot # h
  BY <1>5 DEF ListOK
<1>8. \A d \in Cort : r[d] = where <=> d = slot \/ d \in Range(t)
  BY <1>3, <1>5, <1>7 DEF ListOK
<1> QED
  BY <1>2, <1>4, <1>5, <1>6, <1>8 DEF ListOK, t, h, r

LEMMA ListSlot ==
  ASSUME NEW q, NEW slot, NEW p \in [Cort -> Pc], NEW where, ListOK(q, slot, p, where),
         slot # NoCort, NEW v \in Pc, v # where
  PROVE  /\ slot \in Cort /\ p[slot] = where
         /\ ListOK(q, NoCort, [p EXCEPT ![slot] = v], where)
<1>1. NoCort \notin Cort /\ q \in Seq(Cort) /\ slot \in Cort
  BY ChannelAssumption DEF ChannelAssumption, ListOK
<1>2. NoCort \notin Range(q)
  BY <1>1, SeqFacts
<1> QED
  BY <1>1, <1>2 DEF ListOK

LEMMA ListAside ==
  ASSUME NEW q, NEW slot, NEW p \in [Cort -> Pc], NEW where, ListOK(q, slot, p, where),
         NEW c \in Cort, p[c] # where, NEW v \in Pc, v # where
  PROVE  ListOK(q, slot, [p EXCEPT ![c] = v], where)
  BY DEF ListOK

------------------------------------------------------------------------------
(* Every waiter is in one place.                                           *)

LEMMA SettingFacts ==
  ASSUME setting \in Settings
  PROVE  /\ Pushers \subseteq Cort /\ Poppers \subseteq Cort
         /\ Deltas \subseteq 1 .. SizeMod - 1 /\ Buffers \subseteq 0 .. SizeMod - 3
         /\ setting.kind \in {"objects", "events"}
         /\ ~Event => Deltas = {1}
         /\ SizeMod \in Nat /\ SizeMod > 2 /\ Fuel \in Nat
         /\ IsFiniteSet(Cort) /\ NoCort \notin Cort
<1>1. setting \in Setting
  BY ChannelAssumption DEF ChannelAssumption
<1> QED
  BY <1>1, ChannelAssumption DEF ChannelAssumption, Setting, Pushers, Poppers, Deltas, Buffers, Event

LEMMA Modulo ==
  ASSUME NEW i \in Int, NEW n \in Nat, n > 0
  PROVE  i % n \in 0 .. n - 1 /\ (i \in 0 .. n - 1 => i % n = i)
  OBVIOUS

(* The rest of the type invariant.                                         *)
Scalars ==
  /\ setting \in Settings
  /\ size \in 0 .. SizeMod - 1
  /\ pinned \in 0 .. SizeMod - 1
  /\ buffer \in Buffers \union {ClosedBuffer}
  /\ also \subseteq Cort
  /\ fuel \in [Cort -> 0 .. Fuel]

LEMMA PlaceParts ==
  ASSUME PlaceInv
  PROVE  /\ Scalars
         /\ StackOK(stack, pc)
         /\ ListOK(recvers, last_recver, pc, "recv")
         /\ ListOK(senders, last_sender, pc, "send")
         /\ pc \in [Cort -> Pc] /\ stack \in Seq(Frame)
  BY DEF PlaceInv, TypeOK, Scalars

LEMMA PlaceNext ==
  ASSUME setting' = setting, Scalars', StackOK(stack', pc'),
         ListOK(recvers', last_recver', pc', "recv"),
         ListOK(senders', last_sender', pc', "send")
  PROVE  PlaceInv'
<1>1. StackOK(stack, pc)'
  BY DEF StackOK, Pushers
<1>2. ListOK(recvers, last_recver, pc, "recv")' /\ ListOK(senders, last_sender, pc, "send")'
  BY DEF ListOK
<1>3. TypeOK'
  BY <1>1, <1>2 DEF TypeOK, Scalars, StackOK, ListOK
<1> QED
  BY <1>1, <1>2, <1>3 DEF PlaceInv

LEMMA TopBody ==
  ASSUME stack \in Seq(Frame), NEW c \in Cort, AtBody(c)
  PROVE  stack # << >> /\ Last(stack) = Body(c) /\ Top = Body(c)
<1>1. stack # << >> /\ Top.op = "body" /\ Top.cort = c
  BY DEF AtBody, Runs
<1>2. Top \in Frame
  BY <1>1, Popped DEF Top
<1> QED
  BY <1>1, <1>2, IsBody DEF Top

LEMMA BodyMayPush ==
  ASSUME stack \in Seq(Frame), NEW c \in Cort, AtBody(c), pc[c] = "next"
  PROVE  MayPush(stack, pc)
  BY TopBody, BodyFrame DEF MayPush

LEMMA CallMayPush ==
  ASSUME stack \in Seq(Frame), MayCall
  PROVE  MayPush(stack, pc)
<1>1. CASE stack = << >>
  BY <1>1 DEF MayPush
<1>2. CASE stack # << >>
  BY <1>2, BodyMayPush DEF MayCall
<1> QED
  BY <1>1, <1>2

LEMMA Loop ==
  ASSUME StackOK(stack, pc), NEW op, Runs(op), op # "body"
  PROVE  /\ stack # << >> /\ Top \in Frame /\ Top.op = op /\ Top = Last(stack)
         /\ StackOK(Under, pc) /\ MayPush(Under, pc)
         /\ op = "push" => Under # << >> /\ \E c \in Pushers : Last(Under) = Body(c)
<1>1. stack \in Seq(Frame) /\ stack # << >> /\ Top.op = op /\ Top = Last(stack)
  BY DEF StackOK, Runs, Top
<1>2. /\ Len(stack) \in Nat /\ Len(stack) > 0 /\ Top = stack[Len(stack)] /\ Top \in Frame
      /\ Under \in Seq(Frame) /\ Len(Under) = Len(stack) - 1
      /\ \A i \in 1 .. Len(stack) - 1 : Under[i] = stack[i]
  BY <1>1, Popped DEF Under
<1>3. StackOK(Under, pc) /\ MayPush(Under, pc)
  BY <1>1, StackPop DEF Under
<1>4. ASSUME op = "push"
      PROVE  Under # << >> /\ \E c \in Pushers : Last(Under) = Body(c)
  <2>1. Len(stack) > 1 /\ \E c \in Pushers : stack[Len(stack) - 1] = Body(c)
    BY <1>1, <1>2, <1>4 DEF StackOK
  <2>2. Under # << >>
    BY <1>2, <2>1
  <2>3. Last(Under) = Under[Len(Under)]
    BY <1>2, <2>2, Popped
  <2> QED
    BY <1>2, <2>1, <2>2, <2>3
<1> QED
  BY <1>1, <1>2, <1>3, <1>4

(* try_resume() of a waiting coroutine.                                    *)
LEMMA WakeKeeps ==
  ASSUME NEW c \in Cort, NEW fs, StackOK(fs, pc), MayPush(fs, pc),
         pc[c] \in Waiting, Wake(c, fs), also \subseteq Cort
  PROVE  /\ StackOK(stack', pc')
         /\ also' \subseteq Cort
         /\ \E v \in Pc \ Waiting : pc' = [pc EXCEPT ![c] = v]
<1> DEFINE got == IF pc[c] = "recv" THEN "consume" ELSE "next"
           held == IF pc[c] = "recv" THEN "heldrecv" ELSE "heldsend"
<1>1. /\ got \in Running /\ held \in Pc \ Running /\ pc[c] \notin Running
      /\ got \in Pc \ Waiting /\ held \in Pc \ Waiting
  BY DEF Running, Waiting, Held, Pc
<1>2. CASE c \in also
  <2>1. stack' = fs /\ pc' = [pc EXCEPT ![c] = held] /\ also' = also \ {c}
    BY <1>2 DEF Wake
  <2>2. StackOK(fs, [pc EXCEPT ![c] = held])
    BY <1>1, StackAside
  <2> QED
    BY <2>1, <2>2, <1>1
<1>3. CASE c \notin also
  <2>1. stack' = Append(fs, Body(c)) /\ pc' = [pc EXCEPT ![c] = got] /\ also' = also
    BY <1>3 DEF Wake
  <2>2. StackOK(Append(fs, Body(c)), [pc EXCEPT ![c] = got])
    BY <1>1, StackEnter
  <2> QED
    BY <2>1, <2>2, <1>1
<1> QED
  BY <1>2, <1>3

LEMMA InitPlace == Init => PlaceInv
<1> SUFFICES ASSUME Init PROVE PlaceInv
  OBVIOUS
<1>1. NoCort \notin Cort /\ SizeMod \in Nat /\ SizeMod > 2 /\ Fuel \in Nat
  BY ChannelAssumption DEF ChannelAssumption
<1>2. stack = << >> /\ Len(stack) = 0 /\ stack \in Seq(Frame)
  BY DEF Init
<1>3. \A c \in Cort : pc[c] = "idle"
  BY DEF Init
<1>4. pc \in [Cort -> Pc]
  BY DEF Init, Pc
<1>5. StackOK(stack, pc)
  BY <1>2, <1>3, <1>4 DEF StackOK, Running
<1>6. Range(recvers) = {} /\ Range(senders) = {} /\ IsInjective(recvers) /\ IsInjective(senders)
  BY DEF Init, Range, IsInjective
<1>7. recvers \in Seq(Cort) /\ senders \in Seq(Cort)
  BY DEF Init
<1>8. ListOK(recvers, last_recver, pc, "recv") /\ ListOK(senders, last_sender, pc, "send")
  BY <1>1, <1>3, <1>6, <1>7 DEF Init, ListOK
<1>9. TypeOK
  BY <1>1, <1>2, <1>4, <1>7 DEF Init, TypeOK
<1> QED
  BY <1>5, <1>8, <1>9 DEF PlaceInv

LEMMA BodiesPlace ==
  ASSUME PlaceInv, NEW c \in Cort, Start(c) \/ Finish(c) \/ OtherDone(c) \/ GetNull(c)
  PROVE  PlaceInv'
<1>1. /\ Scalars /\ StackOK(stack, pc) /\ pc \in [Cort -> Pc] /\ stack \in Seq(Frame)
      /\ ListOK(recvers, last_recver, pc, "recv") /\ ListOK(senders, last_sender, pc, "send")
  BY PlaceParts
<1>2. setting' = setting /\ Scalars' /\ UNCHANGED <<recvers, last_recver, senders, last_sender>>
  BY <1>1 DEF Start, Finish, OtherDone, GetNull, Scalars, channel, Buffers, ClosedBuffer
<1>3. SUFFICES /\ StackOK(stack', pc')
               /\ \/ pc' = pc
                  \/ pc[c] \notin Waiting /\ \E v \in Pc \ Waiting : pc' = [pc EXCEPT ![c] = v]
  <2>1. ListOK(recvers, last_recver, pc', "recv") /\ ListOK(senders, last_sender, pc', "send")
    BY <1>1, <1>3, ListAside DEF Waiting
  <2> QED
    BY <1>2, <1>3, <2>1, PlaceNext
<1>4. CASE Start(c)
  <2>1. stack = << >> /\ pc[c] = "idle" /\ pc' = [pc EXCEPT ![c] = "next"]
        /\ stack' = <<Body(c)>>
    BY <1>4 DEF Start
  <2>2. stack' = Append(stack, Body(c))
    BY <2>1
  <2>3. MayPush(stack, pc)
    BY <2>1 DEF MayPush
  <2>4. "next" \in Running /\ pc[c] \notin Running
    BY <2>1 DEF Running
  <2>5. StackOK(Append(stack, Body(c)), [pc EXCEPT ![c] = "next"])
    BY <1>1, <2>3, <2>4, StackEnter
  <2> QED
    BY <2>1, <2>2, <2>5 DEF Waiting, Pc
<1>5. CASE Finish(c)
  <2>1. AtBody(c) /\ pc[c] = "next" /\ pc' = [pc EXCEPT ![c] = "done"] /\ stack' = Front(stack)
    BY <1>5 DEF Finish, Under
  <2>2. "done" \in Pc \ Running /\ "done" \in Pc \ Waiting
    BY DEF Pc, Running, Waiting
  <2>3. StackOK(stack', pc')
    BY <1>1, <2>1, <2>2, TopBody, StackLeave
  <2> QED
    BY <2>1, <2>2, <2>3 DEF Waiting
<1>6. CASE OtherDone(c)
  <2>1. CASE pc' = pc /\ stack' = stack
    BY <1>1, <2>1
  <2>2. CASE ~(pc' = pc /\ stack' = stack)
    <3> DEFINE v == IF pc[c] = "heldrecv" THEN "consume" ELSE "next"
    <3>1. stack = << >> /\ pc[c] \in Held /\ pc' = [pc EXCEPT ![c] = v]
          /\ stack' = <<Body(c)>>
      BY <1>6, <2>2 DEF OtherDone
    <3>2. stack' = Append(stack, Body(c))
      BY <3>1
    <3>3. MayPush(stack, pc)
      BY <3>1 DEF MayPush
    <3>4. v \in Running /\ v \in Pc \ Waiting /\ pc[c] \notin Running /\ pc[c] \notin Waiting
      BY <3>1 DEF Running, Pc, Waiting, Held
    <3> HIDE DEF v
    <3>5. StackOK(Append(stack, Body(c)), [pc EXCEPT ![c] = v])
      BY <1>1, <3>3, <3>4, StackEnter
    <3> QED
      BY <3>1, <3>2, <3>4, <3>5
  <2> QED
    BY <2>1, <2>2
<1>7. CASE GetNull(c)
  <2>1. AtBody(c) /\ pc[c] = "consume" /\ pc' = [pc EXCEPT ![c] = "next"] /\ stack' = stack
    BY <1>7 DEF GetNull
  <2>2. "next" \in Running /\ "next" \in Pc \ Waiting
    BY DEF Pc, Running, Waiting
  <2>3. StackOK(stack', pc')
    BY <1>1, <2>1, <2>2, TopBody, StackStay
  <2> QED
    BY <2>1, <2>2, <2>3 DEF Waiting
<1> QED
  BY <1>4, <1>5, <1>6, <1>7

LEMMA WaitPopablePlace ==
  ASSUME PlaceInv, NEW c \in Cort, WaitPopable(c)
  PROVE  PlaceInv'
<1>1. /\ Scalars /\ StackOK(stack, pc) /\ pc \in [Cort -> Pc] /\ stack \in Seq(Frame)
      /\ ListOK(recvers, last_recver, pc, "recv") /\ ListOK(senders, last_sender, pc, "send")
  BY PlaceParts
<1>2. /\ AtBody(c) /\ pc[c] = "next" /\ Spend(c)
      /\ UNCHANGED <<size, buffer, last_sender, senders, setting>>
  BY DEF WaitPopable
<1>3. stack # << >> /\ Last(stack) = Body(c)
  BY <1>1, <1>2, TopBody
<1>4. fuel' \in [Cort -> 0 .. Fuel]
  BY <1>1, <1>2, SettingFacts DEF Spend, Scalars
<1>5. CASE /\ pinned' = IF Closed THEN pinned ELSE (pinned + 1) % SizeMod
           /\ pc' = [pc EXCEPT ![c] = "consume"]
           /\ UNCHANGED <<last_recver, recvers, also, stack>>
  <2>1. "consume" \in Running /\ "consume" \in Pc
    BY DEF Running, Pc
  <2>2. StackOK(stack', pc')
    BY <1>1, <1>3, <1>5, <2>1, StackStay
  <2>3. ListOK(recvers', last_recver', pc', "recv") /\ ListOK(senders', last_sender', pc', "send")
    BY <1>1, <1>2, <1>5, <2>1, ListAside
  <2>4. pinned' \in 0 .. SizeMod - 1
    BY <1>1, <1>5, SettingFacts, Modulo DEF Scalars
  <2>5. Scalars'
    BY <1>1, <1>2, <1>4, <1>5, <2>4 DEF Scalars, Buffers, ClosedBuffer
  <2> QED
    BY <1>2, <2>2, <2>3, <2>5, PlaceNext
<1>6. CASE /\ recvers' = Joined(recvers, last_recver)
           /\ last_recver' = c
           /\ Suspend(c, "recv")
           /\ stack' = Under
           /\ UNCHANGED pinned
  <2>1. pc' = [pc EXCEPT ![c] = "recv"] /\ also' \subseteq Cort
    BY <1>1, <1>6 DEF Suspend, Scalars
  <2>2. "recv" \in Pc \ Running /\ "recv" \in Pc
    BY DEF Running, Pc, Waiting
  <2>3. StackOK(stack', pc')
    BY <1>1, <1>3, <1>6, <2>1, <2>2, StackLeave DEF Under
  <2>4. ListOK(recvers', NoCort, pc, "recv")
    BY <1>1, <1>6, ListJoin
  <2>5. ListOK(recvers', last_recver', pc', "recv")
    BY <1>1, <1>2, <1>6, <2>1, <2>2, <2>4, ListEnter
  <2>6. ListOK(senders', last_sender', pc', "send")
    BY <1>1, <1>2, <2>1, <2>2, ListAside
  <2>7. Scalars'
    BY <1>1, <1>2, <1>4, <1>6, <2>1 DEF Scalars, Buffers, ClosedBuffer
  <2> QED
    BY <1>2, <2>3, <2>5, <2>6, <2>7, PlaceNext
<1> QED
  BY <1>5, <1>6 DEF WaitPopable

LEMMA PopPlace ==
  ASSUME PlaceInv, NEW c \in Cort, Pop(c)
  PROVE  PlaceInv'
<1>1. /\ Scalars /\ StackOK(stack, pc) /\ pc \in [Cort -> Pc] /\ stack \in Seq(Frame)
      /\ ListOK(recvers, last_recver, pc, "recv") /\ ListOK(senders, last_sender, pc, "send")
  BY PlaceParts
<1> DEFINE done == [pc EXCEPT ![c] = "next"]
<1>2. /\ AtBody(c) /\ pc[c] = "consume" /\ size # 0
      /\ size' = size - 1 /\ pinned' = (pinned - 1) % SizeMod
      /\ UNCHANGED <<buffer, last_recver, recvers, fuel, setting>>
  BY DEF Pop
<1>3. stack # << >> /\ Last(stack) = Body(c)
  BY <1>1, <1>2, TopBody
<1>4. size' \in 0 .. SizeMod - 1 /\ pinned' \in 0 .. SizeMod - 1
  <2>1. pinned - 1 \in Int
    BY <1>1 DEF Scalars
  <2> QED
    BY <1>1, <1>2, <2>1, SettingFacts, Modulo DEF Scalars
<1>5. "next" \in Running /\ "next" \in Pc
  BY DEF Running, Pc
<1>6. /\ StackOK(stack, done) /\ MayPush(stack, done) /\ done \in [Cort -> Pc]
      /\ \A d \in Cort : d # c => done[d] = pc[d]
      /\ done[c] = "next"
  BY <1>1, <1>3, <1>5, StackStay
<1>7. ListOK(recvers, last_recver, done, "recv") /\ ListOK(senders, last_sender, done, "send")
  BY <1>1, <1>2, <1>5, ListAside
<1> HIDE DEF done
<1>8. CASE pc' = done /\ UNCHANGED <<last_sender, senders, also, stack>>
  <2>1. Scalars'
    BY <1>1, <1>2, <1>4, <1>8 DEF Scalars, Buffers, ClosedBuffer
  <2> QED
    BY <1>2, <1>6, <1>7, <1>8, <2>1, PlaceNext
<1>9. ASSUME NEW w \in Cort,
             \/ w = last_sender /\ last_sender' = NoCort /\ senders' = senders
             \/ /\ last_sender = NoCort /\ senders # << >>
                /\ w = Head(senders) /\ senders' = Tail(senders)
                /\ last_sender' = last_sender,
             IF w \in also
               THEN /\ pc' = [done EXCEPT ![w] = "heldsend"]
                    /\ also' = also \ {w} /\ stack' = stack
               ELSE /\ pc' = [done EXCEPT ![w] = "next"]
                    /\ also' = also /\ stack' = Append(stack, Body(w))
      PROVE  PlaceInv'
  <2>1. "heldsend" \in Pc \ Running /\ "heldsend" \in Pc
    BY DEF Pc, Held, Running
  <2>2. done[w] = "send" /\ \A v \in Pc :
          v # "send" => ListOK(senders', last_sender', [done EXCEPT ![w] = v], "send")
    <3>1. CASE w = last_sender /\ last_sender' = NoCort /\ senders' = senders
      <4>1. last_sender # NoCort
        BY <3>1, SettingFacts, <1>1 DEF Scalars
      <4> QED
        BY <3>1, <4>1, <1>6, <1>7, ListSlot
    <3>2. CASE /\ senders # << >>
               /\ w = Head(senders) /\ senders' = Tail(senders)
               /\ last_sender' = last_sender
      BY <3>2, <1>6, <1>7, ListHead
    <3> QED
      BY <1>9, <3>1, <3>2
  <2>3. \E v \in Pc \ Waiting : pc' = [done EXCEPT ![w] = v]
    BY <1>9, <2>1, <1>5 DEF Waiting, Held
  <2>4. ListOK(senders', last_sender', pc', "send")
    BY <2>2, <2>3 DEF Waiting
  <2>5. ListOK(recvers', last_recver', pc', "recv")
    <3>1. PICK v \in Pc : v # "recv" /\ pc' = [done EXCEPT ![w] = v]
      BY <2>3 DEF Waiting
    <3>2. ListOK(recvers, last_recver, [done EXCEPT ![w] = v], "recv")
      BY <1>6, <1>7, <2>2, <3>1, ListAside
    <3> QED
      BY <1>2, <3>1, <3>2
  <2>6. StackOK(stack', pc') /\ also' \subseteq Cort
    <3>1. done[w] \notin Running
      BY <2>2 DEF Running
    <3>2. also \subseteq Cort
      BY <1>1 DEF Scalars
    <3>3. CASE w \in also
      <4>1. StackOK(stack, [done EXCEPT ![w] = "heldsend"])
        BY <1>6, <2>1, <3>1, StackAside
      <4> QED
        BY <1>9, <3>2, <3>3, <4>1
    <3>4. CASE w \notin also
      <4>1. StackOK(Append(stack, Body(w)), [done EXCEPT ![w] = "next"])
        BY <1>5, <1>6, <3>1, StackEnter
      <4> QED
        BY <1>9, <3>2, <3>4, <4>1
    <3> QED
      BY <3>3, <3>4
  <2>7. Scalars'
    BY <1>1, <1>2, <1>4, <2>6 DEF Scalars, Buffers, ClosedBuffer
  <2> QED
    BY <1>2, <2>4, <2>5, <2>6, <2>7, PlaceNext
<1> QED
  BY <1>8, <1>9 DEF Pop, done

(* push() and try_push() up to the loop of after_push.                     *)
LEMMA ProducePlace ==
  ASSUME PlaceInv, NEW c \in Pushers, AtBody(c), pc[c] = "next", Spend(c),
         NEW k \in Nat, NEW b \in BOOLEAN,
         \/ UNCHANGED <<size, recvers, last_recver, stack>>
         \/ Produce(k, b),
         UNCHANGED <<pinned, buffer, last_sender, senders, pc, also, setting>>
  PROVE  PlaceInv'
<1>1. /\ Scalars /\ StackOK(stack, pc) /\ pc \in [Cort -> Pc] /\ stack \in Seq(Frame)
      /\ ListOK(recvers, last_recver, pc, "recv") /\ ListOK(senders, last_sender, pc, "send")
  BY PlaceParts
<1>2. c \in Cort
  BY <1>1, SettingFacts DEF Scalars
<1>3. fuel' \in [Cort -> 0 .. Fuel]
  BY <1>1, <1>2, SettingFacts DEF Spend, Scalars
<1>4. ListOK(senders', last_sender', pc', "send")
  BY <1>1
<1>5. CASE UNCHANGED <<size, recvers, last_recver, stack>>
  <2>1. Scalars'
    BY <1>1, <1>3, <1>5 DEF Scalars, Buffers, ClosedBuffer
  <2> QED
    BY <1>1, <1>4, <1>5, <2>1, PlaceNext
<1>6. CASE Produce(k, b)
  <2> DEFINE f == [op |-> "push", left |-> k, awaited |-> b]
  <2>1. f \in Frame /\ f.op = "push"
    BY NewFrames
  <2>2. stack' = Append(stack, f)
    BY <1>6 DEF Produce
  <2>3. stack # << >> /\ Last(stack) = Body(c) /\ MayPush(stack, pc)
    BY <1>1, <1>2, TopBody, BodyMayPush
  <2> HIDE DEF f
  <2>4. StackOK(stack', pc')
    BY <1>1, <2>1, <2>2, <2>3, StackPush
  <2>5. ListOK(recvers', last_recver', pc', "recv")
    BY <1>1, <1>6, ListJoin DEF Produce
  <2>6. size' \in 0 .. SizeMod - 1
    BY <1>1, <1>6, SettingFacts, Modulo DEF Produce, Scalars
  <2>7. Scalars'
    BY <1>1, <1>3, <2>6 DEF Scalars, Buffers, ClosedBuffer
  <2> QED
    BY <1>4, <2>4, <2>5, <2>7, PlaceNext
<1> QED
  BY <1>5, <1>6

LEMMA WakeRecver ==
  ASSUME PlaceInv, recvers # << >>, recvers' = Tail(recvers),
         NEW fs, StackOK(fs, pc), MayPush(fs, pc), Wake(Head(recvers), fs),
         UNCHANGED <<setting, buffer, size, fuel, last_recver, senders, last_sender>>,
         pinned' \in 0 .. SizeMod - 1
  PROVE  PlaceInv'
<1>1. /\ Scalars /\ StackOK(stack, pc) /\ pc \in [Cort -> Pc] /\ stack \in Seq(Frame)
      /\ ListOK(recvers, last_recver, pc, "recv") /\ ListOK(senders, last_sender, pc, "send")
  BY PlaceParts
<1> DEFINE h == Head(recvers)
<1>2. "done" \in Pc /\ "done" # "recv"
  BY DEF Pc
<1>3. h \in Cort /\ pc[h] = "recv"
  BY <1>1, <1>2, ListHead
<1> HIDE DEF h
<1>4. /\ StackOK(stack', pc') /\ also' \subseteq Cort
      /\ \E v \in Pc \ Waiting : pc' = [pc EXCEPT ![h] = v]
  BY <1>1, <1>3, WakeKeeps DEF Waiting, Scalars, h
<1>5. PICK v \in Pc : v # "recv" /\ v # "send" /\ pc' = [pc EXCEPT ![h] = v]
  BY <1>4 DEF Waiting
<1>6. ListOK(Tail(recvers), last_recver, [pc EXCEPT ![h] = v], "recv")
  BY <1>1, <1>5, ListHead DEF h
<1>7. ListOK(senders, last_sender, [pc EXCEPT ![h] = v], "send")
  BY <1>1, <1>3, <1>5, ListAside
<1>8. Scalars'
  BY <1>1, <1>4 DEF Scalars, Buffers, ClosedBuffer
<1> QED
  BY <1>4, <1>5, <1>6, <1>7, <1>8, PlaceNext

(* A sender is woken, the newest one or the oldest one of the queue.       *)
LEMMA WakeSender ==
  ASSUME PlaceInv, NEW w,
         \/ w = last_sender /\ last_sender # NoCort /\ last_sender' = NoCort /\ senders' = senders
         \/ w = Head(senders) /\ senders # << >> /\ senders' = Tail(senders) /\ last_sender' = last_sender,
         NEW fs, StackOK(fs, pc), MayPush(fs, pc), Wake(w, fs),
         UNCHANGED <<setting, pinned, size, fuel, recvers, last_recver>>,
         buffer' \in Buffers \union {ClosedBuffer}
  PROVE  PlaceInv'
<1>1. /\ Scalars /\ StackOK(stack, pc) /\ pc \in [Cort -> Pc] /\ stack \in Seq(Frame)
      /\ ListOK(recvers, last_recver, pc, "recv") /\ ListOK(senders, last_sender, pc, "send")
  BY PlaceParts
<1>2. "done" \in Pc /\ "done" # "send"
  BY DEF Pc
<1>3. /\ w \in Cort /\ pc[w] = "send"
      /\ \A v \in Pc : v # "send" =>
           ListOK(senders', last_sender', [pc EXCEPT ![w] = v], "send")
  <2>1. CASE w = last_sender /\ last_sender # NoCort /\ last_sender' = NoCort /\ senders' = senders
    BY <1>1, <1>2, <2>1, ListSlot
  <2>2. CASE w = Head(senders) /\ senders # << >> /\ senders' = Tail(senders) /\ last_sender' = last_sender
    BY <1>1, <1>2, <2>2, ListHead
  <2> QED
    BY <2>1, <2>2
<1>4. /\ StackOK(stack', pc') /\ also' \subseteq Cort
      /\ \E v \in Pc \ Waiting : pc' = [pc EXCEPT ![w] = v]
  BY <1>1, <1>3, WakeKeeps DEF Waiting, Scalars
<1>5. PICK v \in Pc : v # "recv" /\ v # "send" /\ pc' = [pc EXCEPT ![w] = v]
  BY <1>4 DEF Waiting
<1>6. ListOK(senders', last_sender', [pc EXCEPT ![w] = v], "send")
  BY <1>3, <1>5
<1>7. ListOK(recvers, last_recver, [pc EXCEPT ![w] = v], "recv")
  BY <1>1, <1>3, <1>5, ListAside
<1>8. Scalars'
  BY <1>1, <1>4 DEF Scalars, Buffers, ClosedBuffer
<1> QED
  BY <1>4, <1>5, <1>6, <1>7, <1>8, PlaceNext

(* The turns of the loops that wake a coroutine, with the loop's frame g   *)
(* put back under what runs.                                               *)
LEMMA LoopAgain ==
  ASSUME StackOK(stack, pc), NEW op, Runs(op), op # "body", NEW g \in Frame, g.op = op
  PROVE  StackOK(Append(Under, g), pc) /\ MayPush(Append(Under, g), pc)
<1>1. /\ StackOK(Under, pc) /\ MayPush(Under, pc) /\ Under \in Seq(Frame)
      /\ op = "push" => Under # << >> /\ \E c \in Pushers : Last(Under) = Body(c)
  BY Loop DEF StackOK
<1>2. StackOK(Append(Under, g), pc)
  BY <1>1, StackPush
<1>3. Last(Append(Under, g)) = g /\ \A c \in Cort : g # Body(c)
  BY <1>1, Pushed, BodyFrame
<1> QED
  BY <1>2, <1>3 DEF MayPush

LEMMA LoopsPlace ==
  ASSUME PlaceInv, PushWake \/ AwakeSender \/ AwakeRecver \/ ResizeWake
  PROVE  PlaceInv'
<1>1. /\ Scalars /\ StackOK(stack, pc) /\ pc \in [Cort -> Pc] /\ stack \in Seq(Frame)
  BY PlaceParts
<1>2. buffer \in Buffers \union {ClosedBuffer} /\ pinned \in 0 .. SizeMod - 1
  BY <1>1 DEF Scalars
<1>3. (pinned + 1) % SizeMod \in 0 .. SizeMod - 1
  BY <1>1, SettingFacts, Modulo DEF Scalars
<1>4. CASE PushWake
  <2> DEFINE g == [Top EXCEPT !.left = @ - 1]
  <2>1. Runs("push") /\ Top.left # 0 /\ Top \in Frame /\ Top.op = "push"
    BY <1>1, <1>4, Loop DEF PushWake
  <2>2. g \in Frame /\ g.op = "push"
    BY <2>1, PushFrame
  <2> HIDE DEF g
  <2>3. StackOK(Append(Under, g), pc) /\ MayPush(Append(Under, g), pc)
    BY <1>1, <2>1, <2>2, LoopAgain
  <2>4. /\ recvers # << >> /\ recvers' = Tail(recvers) /\ Wake(Head(recvers), Append(Under, g))
        /\ UNCHANGED <<setting, buffer, size, fuel, last_recver, senders, last_sender>>
        /\ pinned' = (pinned + 1) % SizeMod
    BY <1>4 DEF PushWake, g, PinnedOnWake
  <2> QED
    BY <1>3, <2>3, <2>4, WakeRecver
<1>5. CASE AwakeSender
  <2> DEFINE g == [Top EXCEPT !.recheck = TRUE]
  <2>1. Runs("awake") /\ Top \in Frame /\ Top.op = "awake"
    BY <1>1, <1>5, Loop DEF AwakeSender
  <2>2. g \in Frame /\ g.op = "awake"
    BY <2>1, AwakeFrames
  <2> HIDE DEF g
  <2>3. StackOK(Append(Under, g), pc) /\ MayPush(Append(Under, g), pc)
    BY <1>1, <2>1, <2>2, LoopAgain
  <2>4. /\ senders # << >> /\ senders' = Tail(senders) /\ Wake(Head(senders), Append(Under, g))
        /\ UNCHANGED <<setting, buffer, pinned, size, fuel, recvers, last_recver, last_sender>>
    BY <1>5 DEF AwakeSender, g
  <2> QED
    BY <1>2, <2>3, <2>4, WakeSender
<1>6. CASE AwakeRecver
  <2> DEFINE g == [Top EXCEPT !.recheck = TRUE]
  <2>1. Runs("awake") /\ Top \in Frame /\ Top.op = "awake"
    BY <1>1, <1>6, Loop DEF AwakeRecver
  <2>2. g \in Frame /\ g.op = "awake"
    BY <2>1, AwakeFrames
  <2> HIDE DEF g
  <2>3. StackOK(Append(Under, g), pc) /\ MayPush(Append(Under, g), pc)
    BY <1>1, <2>1, <2>2, LoopAgain
  <2>4. /\ recvers # << >> /\ recvers' = Tail(recvers) /\ Wake(Head(recvers), Append(Under, g))
        /\ UNCHANGED <<setting, buffer, size, fuel, last_recver, senders, last_sender>>
        /\ pinned' = IF HasObject THEN (pinned + 1) % SizeMod ELSE pinned
    BY <1>6 DEF AwakeRecver, g
  <2>5. pinned' \in 0 .. SizeMod - 1
    BY <1>2, <1>3, <2>4
  <2> QED
    BY <2>3, <2>4, <2>5, WakeRecver
<1>7. CASE ResizeWake
  <2> DEFINE g == [Top EXCEPT !.left = @ - 1]
  <2>1. Runs("resize") /\ Top.left # 0 /\ Top \in Frame /\ Top.op = "resize"
    BY <1>1, <1>7, Loop DEF ResizeWake
  <2>2. g \in Frame /\ g.op = "resize"
    BY <2>1, ResizeFrame
  <2> HIDE DEF g
  <2>3. StackOK(Append(Under, g), pc) /\ MayPush(Append(Under, g), pc)
    BY <1>1, <2>1, <2>2, LoopAgain
  <2>4. /\ senders # << >> /\ senders' = Tail(senders) /\ Wake(Head(senders), Append(Under, g))
        /\ UNCHANGED <<setting, buffer, pinned, size, fuel, recvers, last_recver, last_sender>>
    BY <1>7 DEF ResizeWake, g
  <2> QED
    BY <1>2, <2>3, <2>4, WakeSender
<1> QED
  BY <1>4, <1>5, <1>6, <1>7

LEMMA PushEndPlace ==
  ASSUME PlaceInv, PushEnd
  PROVE  PlaceInv'
<1>1. /\ Scalars /\ StackOK(stack, pc) /\ pc \in [Cort -> Pc] /\ stack \in Seq(Frame)
      /\ ListOK(recvers, last_recver, pc, "recv") /\ ListOK(senders, last_sender, pc, "send")
  BY PlaceParts
<1>2. Runs("push") /\ UNCHANGED <<size, pinned, buffer, last_recver, recvers, fuel, setting>>
  BY DEF PushEnd
<1>3. /\ StackOK(Under, pc) /\ MayPush(Under, pc)
      /\ Under # << >> /\ \E c \in Pushers : Last(Under) = Body(c)
  BY <1>1, <1>2, Loop
<1>4. CASE stack' = Under /\ UNCHANGED <<last_sender, senders, pc, also>>
  <2>1. Scalars'
    BY <1>1, <1>2, <1>4 DEF Scalars, Buffers, ClosedBuffer
  <2> QED
    BY <1>1, <1>2, <1>3, <1>4, <2>1, PlaceNext
<1>5. CASE /\ senders' = Joined(senders, last_sender) /\ last_sender' = NoCort
           /\ stack' = Under /\ UNCHANGED <<pc, also>>
  <2>1. Scalars'
    BY <1>1, <1>2, <1>5 DEF Scalars, Buffers, ClosedBuffer
  <2>2. ListOK(senders', last_sender', pc', "send")
    BY <1>1, <1>5, ListJoin
  <2> QED
    BY <1>1, <1>2, <1>3, <1>5, <2>1, <2>2, PlaceNext
<1>6. CASE LET c == Last(Under).cort IN
           /\ senders' = Joined(senders, last_sender)
           /\ last_sender' = c
           /\ Suspend(c, "send")
           /\ stack' = Front(Under)
  <2>1. PICK c \in Pushers : Last(Under) = Body(c)
    BY <1>3
  <2>2. c \in Cort
    BY <1>1, SettingFacts DEF Scalars
  <2>3. /\ senders' = Joined(senders, last_sender) /\ last_sender' = c
        /\ stack' = Front(Under) /\ pc' = [pc EXCEPT ![c] = "send"] /\ also' \subseteq Cort
    BY <1>1, <1>6, <2>1, <2>2, BodyFrame DEF Suspend, Scalars
  <2>4. "send" \in Pc \ Running /\ "send" \in Pc
    BY DEF Pc, Running, Waiting
  <2>5. StackOK(stack', pc')
    <3>1. StackOK(Front(Under), [pc EXCEPT ![c] = "send"])
      BY <1>3, <2>1, <2>2, <2>4, StackLeave
    <3> QED
      BY <2>3, <3>1
  <2>6. pc[c] \in Running
    <3>1. Under \in Seq(Frame)
      BY <1>3 DEF StackOK
    <3>2. Len(Under) \in Nat /\ Len(Under) > 0 /\ Under[Len(Under)] = Body(c)
      BY <1>3, <2>1, <3>1, Popped
    <3> QED
      BY <1>3, <2>2, <3>2 DEF StackOK
  <2>7. ListOK(senders', last_sender', pc', "send")
    <3>1. ListOK(Joined(senders, last_sender), NoCort, pc, "send")
      BY <1>1, ListJoin
    <3>2. pc[c] # "send"
      BY <2>6 DEF Running
    <3>3. ListOK(Joined(senders, last_sender), c, [pc EXCEPT ![c] = "send"], "send")
      BY <1>1, <2>2, <2>4, <3>1, <3>2, ListEnter
    <3> QED
      BY <2>3, <3>3
  <2>8. ListOK(recvers', last_recver', pc', "recv")
    <3>1. pc[c] # "recv"
      BY <2>6 DEF Running
    <3>2. ListOK(recvers, last_recver, [pc EXCEPT ![c] = "send"], "recv")
      BY <1>1, <2>2, <2>4, <3>1, ListAside
    <3> QED
      BY <1>2, <2>3, <3>2
  <2>9. Scalars'
    BY <1>1, <1>2, <2>3 DEF Scalars, Buffers, ClosedBuffer
  <2> QED
    BY <1>2, <2>5, <2>7, <2>8, <2>9, PlaceNext
<1> QED
  BY <1>4, <1>5, <1>6 DEF PushEnd

LEMMA CallsPlace ==
  ASSUME PlaceInv, Close \/ AwakeAll \/ \E b \in Buffers : SetBufferSize(b)
  PROVE  PlaceInv'
<1>1. /\ Scalars /\ StackOK(stack, pc) /\ pc \in [Cort -> Pc] /\ stack \in Seq(Frame)
      /\ ListOK(recvers, last_recver, pc, "recv") /\ ListOK(senders, last_sender, pc, "send")
  BY PlaceParts
<1>2. MayPush(stack, pc)
  BY <1>1, CallMayPush DEF Close, AwakeAll, SetBufferSize
<1>3. CASE Close \/ AwakeAll
  <2>1. StackOK(stack', pc')
    <3>1. stack' = Append(stack, AwakeFrame) /\ pc' = pc
      BY <1>3 DEF Close, AwakeAll
    <3>2. StackOK(Append(stack, AwakeFrame), pc)
      BY <1>1, <1>2, NewFrames, StackPush
    <3> QED
      BY <3>1, <3>2
  <2>2. /\ UNCHANGED <<setting, size, pinned, recvers, last_recver, senders, last_sender, pc, also, fuel>>
        /\ buffer' = buffer \/ buffer' = ClosedBuffer
    BY <1>3 DEF Close, AwakeAll, channel
  <2>3. Scalars'
    BY <1>1, <2>2 DEF Scalars, Buffers, ClosedBuffer
  <2> QED
    BY <1>1, <2>1, <2>2, <2>3, PlaceNext
<1>4. ASSUME NEW b \in Buffers, SetBufferSize(b)
      PROVE  PlaceInv'
  <2>1. /\ buffer' = b /\ b \in Buffers \union {ClosedBuffer}
        /\ UNCHANGED <<size, pinned, last_recver, recvers, senders, fuel, setting>>
    BY <1>4 DEF SetBufferSize
  <2>2. b \in Nat /\ buffer \in Nat /\ Grown(b) \in Nat
    BY <1>1, SettingFacts DEF Scalars, Grown, ClosedBuffer
  <2>3. CASE /\ Grown(b) > 0 /\ last_sender # NoCort
             /\ last_sender' = NoCort
             /\ Wake(last_sender, Append(stack, [op |-> "resize", left |-> Grown(b) - 1]))
    <3> DEFINE f == [op |-> "resize", left |-> Grown(b) - 1]
    <3>1. f \in Frame /\ f.op = "resize"
      BY <2>2, <2>3, NewFrames
    <3>2. Wake(last_sender, Append(stack, f))
      BY <2>3
    <3> HIDE DEF f
    <3>3. StackOK(Append(stack, f), pc)
      BY <1>1, <1>2, <3>1, StackPush
    <3>4. MayPush(Append(stack, f), pc)
      <4>1. Last(Append(stack, f)) = f /\ \A c \in Cort : f # Body(c)
        BY <1>1, <3>1, Pushed, BodyFrame
      <4> QED
        BY <4>1 DEF MayPush
    <3> QED
      BY <2>1, <2>3, <3>2, <3>3, <3>4, WakeSender
  <2>4. CASE /\ stack' = Append(stack, [op |-> "resize", left |-> Grown(b)])
             /\ UNCHANGED <<last_sender, pc, also>>
    <3> DEFINE f == [op |-> "resize", left |-> Grown(b)]
    <3>1. f \in Frame /\ f.op = "resize"
      BY <2>2, NewFrames
    <3>2. stack' = Append(stack, f)
      BY <2>4
    <3> HIDE DEF f
    <3>3. StackOK(Append(stack, f), pc)
      BY <1>1, <1>2, <3>1, StackPush
    <3>4. Scalars'
      BY <1>1, <2>1, <2>4 DEF Scalars, Buffers, ClosedBuffer
    <3> QED
      BY <1>1, <2>1, <2>4, <3>2, <3>3, <3>4, PlaceNext
  <2> QED
    BY <1>4, <2>3, <2>4 DEF SetBufferSize
<1> QED
  BY <1>3, <1>4

LEMMA LoopEndsPlace ==
  ASSUME PlaceInv, AwakeBegin \/ AwakeTurn \/ AwakeEnd \/ ResizeEnd
  PROVE  PlaceInv'
<1>1. /\ Scalars /\ StackOK(stack, pc) /\ pc \in [Cort -> Pc] /\ stack \in Seq(Frame)
      /\ ListOK(recvers, last_recver, pc, "recv") /\ ListOK(senders, last_sender, pc, "send")
  BY PlaceParts
<1>2. UNCHANGED <<size, pinned, buffer, pc, also, fuel, setting>>
  BY DEF AwakeBegin, AwakeTurn, AwakeEnd, ResizeEnd, channel
<1>3. Scalars'
  BY <1>1, <1>2 DEF Scalars, Buffers, ClosedBuffer
<1>4. ListOK(recvers', last_recver', pc', "recv") /\ ListOK(senders', last_sender', pc', "send")
  <2>1. \/ UNCHANGED <<recvers, last_recver>>
        \/ recvers' = Joined(recvers, last_recver) /\ last_recver' = NoCort
    BY DEF AwakeBegin, AwakeTurn, AwakeEnd, ResizeEnd, channel
  <2>2. \/ UNCHANGED <<senders, last_sender>>
        \/ senders' = Joined(senders, last_sender) /\ last_sender' = NoCort
    BY DEF AwakeBegin, AwakeTurn, AwakeEnd, ResizeEnd, channel
  <2> QED
    BY <1>1, <1>2, <2>1, <2>2, ListJoin
<1>5. StackOK(stack', pc')
  <2>1. CASE stack' = Under
    BY <1>1, <1>2, <2>1, Loop DEF AwakeBegin, AwakeTurn, AwakeEnd, ResizeEnd
  <2>2. ASSUME NEW g \in Frame, g.op = "awake", stack' = Append(Under, g), Runs("awake")
        PROVE  StackOK(stack', pc')
    BY <1>1, <1>2, <2>2, LoopAgain
  <2>3. CASE AwakeBegin
    <3> DEFINE g == [op |-> "awake", phase |-> "send", recheck |-> last_sender # NoCort]
    <3>1. g \in Frame /\ g.op = "awake"
      BY NewFrames
    <3>2. stack' = Append(Under, g) /\ Runs("awake")
      BY <2>3 DEF AwakeBegin
    <3> QED
      BY <2>2, <3>1, <3>2
  <2>4. CASE AwakeTurn
    <3> DEFINE g == [op |-> "awake", phase |-> "recv",
                     recheck |-> Top.recheck \/ last_recver # NoCort]
    <3>1. Runs("awake") /\ Top \in Frame /\ Top.op = "awake"
      BY <1>1, <2>4, Loop DEF AwakeTurn
    <3>2. (Top.recheck \/ last_recver # NoCort) \in BOOLEAN
      BY <3>1, AwakeFrames
    <3>3. g \in Frame /\ g.op = "awake"
      BY <3>2, NewFrames
    <3>4. stack' = Append(Under, g)
      BY <2>4 DEF AwakeTurn
    <3> QED
      BY <2>2, <3>1, <3>3, <3>4
  <2>5. CASE AwakeEnd
    BY <2>1, <2>2, <2>5, NewFrames DEF AwakeEnd
  <2>6. CASE ResizeEnd
    BY <2>1, <2>6 DEF ResizeEnd
  <2> QED
    BY <2>3, <2>4, <2>5, <2>6
<1> QED
  BY <1>2, <1>3, <1>4, <1>5, PlaceNext

LEMMA NextPlace == PlaceInv /\ [Next \/ AwakeAll]_vars => PlaceInv'
<1> SUFFICES ASSUME PlaceInv, [Next \/ AwakeAll]_vars PROVE PlaceInv'
  OBVIOUS
<1>1. Pushers \subseteq Cort /\ Poppers \subseteq Cort /\ Deltas \subseteq Nat
  BY PlaceParts, SettingFacts DEF Scalars
<1>2. CASE UNCHANGED vars
  BY <1>2, PlaceParts, PlaceNext DEF vars, Scalars, Buffers, ClosedBuffer
<1>3. ASSUME NEW c \in Pushers \union Poppers, Start(c) \/ Finish(c) \/ OtherDone(c)
      PROVE  PlaceInv'
  BY <1>1, <1>3, BodiesPlace
<1>4. ASSUME NEW c \in Poppers, WaitPopable(c) \/ GetNull(c) \/ Pop(c)
      PROVE  PlaceInv'
  BY <1>1, <1>4, BodiesPlace, WaitPopablePlace, PopPlace
<1>5. ASSUME NEW c \in Pushers, NEW k \in Deltas, Push(c, k) \/ TryPush(c, k)
      PROVE  PlaceInv'
  <2>1. k \in Nat
    BY <1>1
  <2>2. /\ AtBody(c) /\ pc[c] = "next" /\ Spend(c)
        /\ UNCHANGED <<size, recvers, last_recver, stack>> \/ Produce(k, TRUE) \/ Produce(k, FALSE)
        /\ UNCHANGED <<pinned, buffer, last_sender, senders, pc, also, setting>>
    BY <1>5 DEF Push, TryPush
  <2> QED
    BY <2>1, <2>2, ProducePlace
<1> QED
  BY <1>2, <1>3, <1>4, <1>5, LoopsPlace, PushEndPlace, CallsPlace, LoopEndsPlace DEF Next, Use

LEMMA PlacesApart == PlaceInv => WaitsInOnePlace
<1> SUFFICES ASSUME PlaceInv PROVE WaitsInOnePlace
  OBVIOUS
<1> DEFINE r == Joined(recvers, last_recver)
           s == Joined(senders, last_sender)
<1>0. ListOK(recvers, last_recver, pc, "recv") /\ ListOK(senders, last_sender, pc, "send")
  BY PlaceParts
<1>1. ListOK(r, NoCort, pc, "recv") /\ \A c : c \in Range(r) <=> c \in Cort /\ pc[c] = "recv"
  BY <1>0, ListJoin
<1>2. ListOK(s, NoCort, pc, "send") /\ \A c : c \in Range(s) <=> c \in Cort /\ pc[c] = "send"
  BY <1>0, ListJoin
<1>3. WaitingRecvers = Range(r) /\ WaitingSenders = Range(s)
  BY DEF WaitingRecvers, WaitingSenders
<1> HIDE DEF r, s
<1>4. /\ r \in Seq(Cort) /\ s \in Seq(Cort) /\ Len(r) \in Nat /\ Len(s) \in Nat
      /\ \A i, j \in 1 .. Len(r) : r[i] = r[j] => i = j
      /\ \A i, j \in 1 .. Len(s) : s[i] = s[j] => i = j
  BY <1>1, <1>2, SeqFacts DEF ListOK
<1>5. \A i \in 1 .. Len(r) : pc[r[i]] = "recv"
  BY <1>1, <1>4, SeqFacts
<1>6. \A i \in 1 .. Len(s) : pc[s[i]] = "send"
  BY <1>2, <1>4, SeqFacts
<1> DEFINE a == r \o s
<1>7. /\ a \in Seq(Cort) /\ Len(a) = Len(r) + Len(s)
      /\ \A i \in 1 .. Len(r) : a[i] = r[i]
      /\ \A i \in Len(r) + 1 .. Len(r) + Len(s) : a[i] = s[i - Len(r)]
  BY <1>4
<1> HIDE DEF a
<1>8. ASSUME NEW i \in 1 .. Len(a), NEW j \in 1 .. Len(a), a[i] = a[j]
      PROVE  i = j
  <2>1. CASE i <= Len(r) /\ j <= Len(r)
    BY <1>4, <1>7, <1>8, <2>1
  <2>2. CASE i > Len(r) /\ j > Len(r)
    <3>1. i - Len(r) \in 1 .. Len(s) /\ j - Len(r) \in 1 .. Len(s)
      BY <1>4, <1>7, <2>2
    <3>2. i \in Len(r) + 1 .. Len(r) + Len(s) /\ j \in Len(r) + 1 .. Len(r) + Len(s)
      BY <1>4, <1>7, <2>2
    <3>4. a[i] = s[i - Len(r)] /\ a[j] = s[j - Len(r)]
      BY <1>7, <3>2
    <3>3. i - Len(r) = j - Len(r)
      BY <1>4, <1>8, <3>1, <3>4
    <3> QED
      BY <1>4, <3>3
  <2>3. CASE i <= Len(r) /\ j > Len(r)
    <3>1. j - Len(r) \in 1 .. Len(s) /\ a[j] = s[j - Len(r)] /\ a[i] = r[i] /\ i \in 1 .. Len(r)
      BY <1>4, <1>7, <2>3
    <3> QED
      BY <1>5, <1>6, <1>8, <3>1
  <2>4. CASE i > Len(r) /\ j <= Len(r)
    <3>1. i - Len(r) \in 1 .. Len(s) /\ a[i] = s[i - Len(r)] /\ a[j] = r[j] /\ j \in 1 .. Len(r)
      BY <1>4, <1>7, <2>4
    <3> QED
      BY <1>5, <1>6, <1>8, <3>1
  <2> QED
    BY <1>4, <1>7, <2>1, <2>2, <2>3, <2>4
<1>9. IsInjective(a)
  BY <1>7, <1>8, SeqFacts
<1> QED
  BY <1>1, <1>2, <1>3, <1>9 DEF WaitsInOnePlace, r, s, a

(* The stack holds the bodies that run, and the lists those that wait, for *)
(* any coroutines, any use of the channel and any width of size_t.         *)
THEOREM PlacesHold == Spec => []PlaceInv
<1>1. PlaceInv /\ [Next]_vars => PlaceInv'
  BY NextPlace
<1> QED
  BY <1>1, InitPlace, PTL DEF Spec

(* Each waiter is in one place of one list (WaitsInOnePlace), whatever     *)
(* wakes it: nobody is resumed twice for one wait, and nobody is forgotten. *)
THEOREM OnePlaceHolds == Spec => []WaitsInOnePlace
  BY PlacesHold, PlacesApart, PTL

(* So it is when the program also calls awake_all() on an open channel.    *)
THEOREM OnePlaceHoldsWithAwakeAll == AwakeSpec => []WaitsInOnePlace
<1>1. Use \/ Close \/ AwakeAll <=> Next \/ AwakeAll
  BY DEF Next
<1>2. PlaceInv /\ [Use \/ Close \/ AwakeAll]_vars => PlaceInv'
  BY <1>1, NextPlace
<1>3. AwakeSpec => []PlaceInv
  BY <1>2, InitPlace, PTL DEF AwakeSpec
<1> QED
  BY <1>3, PlacesApart, PTL

------------------------------------------------------------------------------
(* Objects and waiters. The theorems are about channels that are used as   *)
(* the code requires: a push produces one object, or there is a single     *)
(* consumer (two consumers of several events: see PinnedAreObjects); and   *)
(* about programs that push less than size_t can count.                    *)

Disciplined == \A s \in Settings : s.deltas = {1} \/ \E p \in Cort : s.poppers = {p}

Counts(most) ==
  /\ most \in Nat
  /\ \A s \in Settings : s.deltas \subseteq 0 .. most
  /\ most * Cardinality(Cort \X (1 .. Fuel)) < SizeMod - 1

LEMMA UnitsSpent ==
  ASSUME PlaceInv
  PROVE  /\ Cardinality(Units) \in Nat /\ Cardinality(Cort \X (1 .. Fuel)) \in Nat
         /\ \A c \in Cort : Spend(c) => /\ Cardinality(Units) > 0
                                       /\ Cardinality(Units') = Cardinality(Units) - 1
<1>1. IsFiniteSet(Cort) /\ Fuel \in Nat /\ fuel \in [Cort -> 0 .. Fuel]
  BY PlaceParts, SettingFacts DEF Scalars
<1>0. IsFiniteSet(1 .. Fuel)
  BY <1>1, FS_Interval
<1>2. IsFiniteSet(Cort \X (1 .. Fuel)) /\ Cardinality(Cort \X (1 .. Fuel)) \in Nat
  BY <1>0, <1>1, FS_Product, FS_CardinalityType
<1>3. IsFiniteSet(Units) /\ Cardinality(Units) \in Nat
  BY <1>2, FS_Subset, FS_CardinalityType DEF Units
<1>4. ASSUME NEW c \in Cort, Spend(c)
      PROVE  Cardinality(Units) > 0 /\ Cardinality(Units') = Cardinality(Units) - 1
  <2> DEFINE u == <<c, fuel[c]>>
  <2>1. fuel[c] \in 1 .. Fuel
    BY <1>1, <1>4 DEF Spend
  <2>2. u \in Units
    BY <2>1 DEF Units
  <2>3. fuel'[c] = fuel[c] - 1 /\ \A d \in Cort : d # c => fuel'[d] = fuel[d]
    BY <1>1, <1>4 DEF Spend
  <2>4. ASSUME NEW d \in Cort, NEW i \in 1 .. Fuel
        PROVE  i <= fuel'[d] <=> (i <= fuel[d] /\ <<d, i>> # u)
    BY <1>1, <2>1, <2>3
  <2>5. Units' = Units \ {u}
    BY <2>4 DEF Units
  <2>6. Cardinality(Units \ {u}) = Cardinality(Units) - 1
    BY <1>3, <2>2, FS_RemoveElement
  <2>7. Cardinality(Units) > 0
    BY <1>3, <2>2, FS_EmptySet
  <2> QED
    BY <2>5, <2>6, <2>7
<1> QED
  BY <1>2, <1>3, <1>4

LEMMA LessPlus == \A a, b, x, y \in Int : a <= b /\ b + x <= y => a + x <= y
  OBVIOUS

(* No sum of counts wraps around.                                          *)
LEMMA SizeFits ==
  ASSUME PlaceInv, NEW most, Counts(most), SizeBounded(most)
  PROVE  /\ size < SizeMod - 1 /\ Deltas \subseteq 0 .. most
         /\ \A c \in Cort, k \in 0 .. most :
              Spend(c) => /\ size + k < SizeMod - 1 /\ (size + k) % SizeMod = size + k
                          /\ size' \in Int /\ size' <= size + k => SizeBounded(most)'
<1> DEFINE all == Cardinality(Cort \X (1 .. Fuel))
           n == Cardinality(Units)
<1>1. n \in Nat /\ all \in Nat /\ size \in Nat /\ most \in Nat /\ SizeMod \in Nat
  BY UnitsSpent, PlaceParts, SettingFacts DEF Scalars, Counts
<1>2. size + most * n <= most * all /\ most * all < SizeMod - 1
  BY DEF SizeBounded, Counts
<1> HIDE DEF all
<1>3. most * n >= 0
  BY <1>1
<1>4. ASSUME NEW c \in Cort, NEW k \in 0 .. most, Spend(c)
      PROVE  /\ size + k < SizeMod - 1 /\ (size + k) % SizeMod = size + k
             /\ size' \in Int /\ size' <= size + k => SizeBounded(most)'
  <2>1. Cardinality(Units') = n - 1 /\ n - 1 \in Nat
    BY <1>1, <1>4, UnitsSpent
  <2>2. k \in Nat /\ k <= most
    BY <1>1
  <2> HIDE DEF n
  <2>3. most * n = most * (n - 1) + most /\ most * (n - 1) >= 0
    BY <1>1, <2>1
  <2>4. size + k < SizeMod - 1
    BY <1>1, <1>2, <2>2, <2>3
  <2>5. (size + k) % SizeMod = size + k
    BY <1>1, <2>2, <2>4, Modulo
  <2>6. ASSUME size' \in Int, size' <= size + k
        PROVE  SizeBounded(most)'
    <3> DEFINE x == most * (n - 1)
               y == most * all
    <3>1. x \in Int /\ y \in Int
      BY <1>1, <2>1
    <3>4. size + (x + most) <= y
      BY <1>2, <2>3
    <3>5. most \in Nat
      BY <1>1
    <3> HIDE DEF x, y
    <3>7. size + k \in Int /\ size + k + x <= y
      BY <1>1, <2>2, <3>1, <3>4, <3>5
    <3>6. size' + x <= y
      BY <2>6, <3>1, <3>7, LessPlus
    <3>2. size' + most * (n - 1) <= most * all
      BY <3>6 DEF x, y
    <3> QED
      BY <2>1, <3>2 DEF SizeBounded, all
  <2> QED
    BY <2>4, <2>5, <2>6
<1>5. Deltas \subseteq 0 .. most
  BY PlaceParts DEF Counts, Scalars, Deltas
<1> QED
  BY <1>1, <1>2, <1>3, <1>4, <1>5

LEMMA SizeKept ==
  ASSUME PlaceInv, NEW most \in Nat, SizeBounded(most), fuel' = fuel, size' <= size, size' \in Int
  PROVE  SizeBounded(most)'
<1>1. Units' = Units
  BY DEF Units
<1>2. Cardinality(Units) \in Nat /\ Cardinality(Cort \X (1 .. Fuel)) \in Nat /\ size \in Nat
  BY UnitsSpent, PlaceParts, SettingFacts DEF Scalars
<1> DEFINE x == most * Cardinality(Units)
           y == most * Cardinality(Cort \X (1 .. Fuel))
<1>3. x \in Int /\ y \in Int
  BY <1>2
<1>4. size + x <= y /\ size \in Int
  BY <1>2 DEF SizeBounded
<1> HIDE DEF x, y
<1>5. size' + x <= y
  BY <1>3, <1>4, LessPlus
<1> QED
  BY <1>1, <1>5 DEF SizeBounded, x, y

IsConsumer(where) == where \in {"consume", "heldrecv"}

LEMMA ConsumersStep ==
  ASSUME pc \in [Cort -> Pc], NEW c \in Cort, NEW v \in Pc, pc' = [pc EXCEPT ![c] = v]
  PROVE  /\ Cardinality(Consumers) \in Nat
         /\ IsConsumer(v) <=> IsConsumer(pc[c]) => Cardinality(Consumers') = Cardinality(Consumers)
         /\ IsConsumer(v) /\ ~IsConsumer(pc[c]) => Cardinality(Consumers') = Cardinality(Consumers) + 1
         /\ ~IsConsumer(v) /\ IsConsumer(pc[c]) => Cardinality(Consumers') = Cardinality(Consumers) - 1
         /\ IsConsumer(pc[c]) => Cardinality(Consumers) > 0
<1>1. IsFiniteSet(Cort)
  BY ChannelAssumption DEF ChannelAssumption
<1>2. IsFiniteSet(Consumers) /\ Cardinality(Consumers) \in Nat
  BY <1>1, FS_Subset, FS_CardinalityType DEF Consumers
<1>3. pc'[c] = v /\ \A d \in Cort : d # c => pc'[d] = pc[d]
  OBVIOUS
<1>4. c \in Consumers <=> IsConsumer(pc[c])
  BY DEF Consumers, IsConsumer
<1>5. Consumers' = IF IsConsumer(v) THEN Consumers \union {c} ELSE Consumers \ {c}
  BY <1>3 DEF Consumers, IsConsumer
<1>6. c \in Consumers => Cardinality(Consumers) > 0
  BY <1>2, FS_EmptySet
<1>7. c \in Consumers => Consumers \union {c} = Consumers
  OBVIOUS
<1>8. c \notin Consumers => Consumers \ {c} = Consumers
  OBVIOUS
<1> QED
  BY <1>2, <1>4, <1>5, <1>6, <1>7, <1>8, FS_AddElement, FS_RemoveElement

LEMMA HandsAppend ==
  ASSUME NEW stk \in Seq(Frame), HandsUnder(stk), NEW f \in Frame,
         f.op = "push" => (Deltas = {1} => f.left <= 1),
         stk # << >> /\ Last(stk).op = "push" =>
           \E q \in Poppers : f = Body(q) /\ (Last(stk).left = 0 \/ Poppers = {q})
  PROVE  HandsUnder(Append(stk, f))
<1> DEFINE s == Append(stk, f)
<1>1. /\ Len(stk) \in Nat /\ Len(s) = Len(stk) + 1
      /\ \A i \in 1 .. Len(stk) : s[i] = stk[i]
      /\ s[Len(stk) + 1] = f
  BY Pushed
<1>2. stk # << >> => Last(stk) = stk[Len(stk)] /\ Len(stk) > 0
  BY Popped
<1> HIDE DEF s
<1>3. ASSUME NEW i \in 1 .. Len(s), s[i].op = "push"
      PROVE  /\ Deltas = {1} => s[i].left <= 1
             /\ i < Len(s) =>
                  \E q \in Poppers : s[i + 1] = Body(q) /\ (s[i].left = 0 \/ Poppers = {q})
  <2>1. CASE i = Len(stk) + 1
    BY <1>1, <1>3, <2>1
  <2>2. CASE i = Len(stk)
    <3>1. i \in 1 .. Len(stk) /\ s[i] = stk[i] /\ stk # << >> /\ s[i + 1] = f
      BY <1>1, <2>2, EmptySeq
    <3>2. Last(stk) = s[i]
      BY <1>2, <2>2, <3>1
    <3> QED
      BY <1>3, <3>1, <3>2 DEF HandsUnder
  <2>3. CASE i < Len(stk)
    <3>1. i \in 1 .. Len(stk) /\ s[i] = stk[i] /\ s[i + 1] = stk[i + 1]
      BY <1>1, <2>3
    <3> QED
      BY <1>3, <2>3, <3>1 DEF HandsUnder
  <2> QED
    BY <1>1, <2>1, <2>2, <2>3
<1> QED
  BY <1>3 DEF HandsUnder, s

LEMMA HandsFront ==
  ASSUME NEW stk \in Seq(Frame), stk # << >>, HandsUnder(stk)
  PROVE  /\ HandsUnder(Front(stk))
         /\ Front(stk) # << >> /\ Last(Front(stk)).op = "push" =>
              \E q \in Poppers : /\ Last(stk) = Body(q)
                                 /\ Last(Front(stk)).left = 0 \/ Poppers = {q}
<1> DEFINE s == Front(stk)
<1>1. /\ Len(stk) \in Nat /\ Len(stk) > 0 /\ Len(s) = Len(stk) - 1 /\ s \in Seq(Frame)
      /\ \A i \in 1 .. Len(stk) - 1 : s[i] = stk[i]
      /\ Last(stk) = stk[Len(stk)]
  BY Popped
<1>2. s # << >> => Last(s) = s[Len(s)] /\ Len(s) > 0
  BY <1>1, Popped
<1> HIDE DEF s
<1>3. ASSUME NEW i \in 1 .. Len(s), s[i].op = "push"
      PROVE  /\ Deltas = {1} => s[i].left <= 1
             /\ \E q \in Poppers : stk[i + 1] = Body(q) /\ (s[i].left = 0 \/ Poppers = {q})
  <2>1. i \in 1 .. Len(stk) /\ i < Len(stk) /\ s[i] = stk[i]
    BY <1>1
  <2> QED
    BY <1>3, <2>1 DEF HandsUnder
<1>4. HandsUnder(s)
  <2>1. \A i \in 1 .. Len(s) : i < Len(s) => s[i + 1] = stk[i + 1]
    BY <1>1
  <2> QED
    BY <1>3, <2>1 DEF HandsUnder
<1>5. ASSUME s # << >>, Last(s).op = "push"
      PROVE  \E q \in Poppers : Last(stk) = Body(q) /\ (Last(s).left = 0 \/ Poppers = {q})
  <2>1. Len(s) \in 1 .. Len(s) /\ s[Len(s)] = Last(s) /\ Len(s) + 1 = Len(stk)
    BY <1>1, <1>2, <1>5
  <2> QED
    BY <1>1, <1>3, <1>5, <2>1
<1> QED
  BY <1>4, <1>5 DEF s

(* The two stacks have the same frames of loops op.                        *)
Same(stk, stk2, op) ==
  /\ stk \in Seq(Frame) /\ stk2 \in Seq(Frame)
  /\ \A i \in Nat : /\ i \in 1 .. Len(stk) /\ stk[i].op = op
                       => i \in 1 .. Len(stk2) /\ stk2[i] = stk[i]
                    /\ i \in 1 .. Len(stk2) /\ stk2[i].op = op
                       => i \in 1 .. Len(stk) /\ stk[i].op = op

LEMMA SameRefl == \A stk \in Seq(Frame) : \A op : Same(stk, stk, op)
  BY DEF Same

LEMMA SameAppend ==
  ASSUME NEW stk, NEW stk2, NEW op, Same(stk, stk2, op), NEW f \in Frame, f.op # op
  PROVE  Same(stk, Append(stk2, f), op)
<1> DEFINE s == Append(stk2, f)
<1>1. /\ s \in Seq(Frame) /\ Len(stk2) \in Nat /\ Len(s) = Len(stk2) + 1
      /\ \A i \in 1 .. Len(stk2) : s[i] = stk2[i]
      /\ s[Len(stk2) + 1] = f
  BY Pushed DEF Same
<1> HIDE DEF s
<1>2. \A i \in Nat : i \in 1 .. Len(s) => i \in 1 .. Len(stk2) \/ i = Len(stk2) + 1
  BY <1>1
<1>3. \A i \in Nat : i \in 1 .. Len(stk2) => i \in 1 .. Len(s)
  BY <1>1
<1>4. Same(stk, s, op)
  BY <1>1, <1>2, <1>3 DEF Same
<1> QED
  BY <1>4 DEF s

LEMMA SameFront ==
  ASSUME NEW stk, NEW stk2, NEW op, Same(stk, stk2, op), stk2 # << >>, Last(stk2).op # op
  PROVE  Same(stk, Front(stk2), op)
<1> DEFINE s == Front(stk2)
<1>1. /\ s \in Seq(Frame) /\ Len(stk2) \in Nat /\ Len(stk2) > 0 /\ Len(s) = Len(stk2) - 1
      /\ \A i \in 1 .. Len(stk2) - 1 : s[i] = stk2[i]
      /\ Last(stk2) = stk2[Len(stk2)]
  BY Popped DEF Same
<1> HIDE DEF s
<1>2. \A i \in Nat : i \in 1 .. Len(stk2) => i = Len(stk2) \/ i \in 1 .. Len(s)
  BY <1>1
<1>3. \A i \in Nat : i \in 1 .. Len(s) => i \in 1 .. Len(stk2) /\ s[i] = stk2[i]
  BY <1>1
<1>4. Same(stk, s, op)
  BY <1>1, <1>2, <1>3 DEF Same
<1> QED
  BY <1>4 DEF s

(* What is under a frame that is not a body is not a push.                 *)
LEMMA UnderLoop ==
  ASSUME PlaceInv, HandsUnder(stack), NEW op, Runs(op), op # "body"
  PROVE  /\ HandsUnder(Under) /\ Under \in Seq(Frame)
         /\ Under # << >> => Last(Under).op # "push"
<1>1. stack \in Seq(Frame) /\ stack # << >> /\ Last(stack) \in Frame /\ Last(stack).op = op
  BY PlaceParts, Popped DEF Runs, Top
<1>2. \A q \in Cort : Last(stack) # Body(q)
  BY <1>1, BodyFrame
<1>3. Poppers \subseteq Cort
  BY PlaceParts, SettingFacts DEF Scalars
<1> QED
  BY <1>1, <1>2, <1>3, HandsFront, Popped DEF Under

(* If only c may wait in a list, and it does not, or in the slot, nobody   *)
(* waits in the queue.                                                     *)
LEMMA Alone ==
  ASSUME NEW q, NEW slot, NEW p, NEW where, ListOK(q, slot, p, where),
         NEW c \in Cort, \A d \in Cort : p[d] = where => d = c
  PROVE  /\ p[c] # where => q = << >> /\ slot = NoCort
         /\ slot = c => q = << >>
<1>1. NoCort \notin Cort /\ q \in Seq(Cort) /\ slot \in Cort \union {NoCort}
  BY ChannelAssumption DEF ChannelAssumption, ListOK
<1>2. \A d \in Cort : d = slot \/ d \in Range(q) => d = c /\ p[c] = where
  BY <1>1 DEF ListOK
<1>3. q # << >> => Head(q) \in Range(q) /\ Head(q) \in Cort
  <2>1. ASSUME q # << >> PROVE 1 \in 1 .. Len(q)
    BY <1>1, <2>1, EmptySeq
  <2> QED
    BY <1>1, <2>1, SeqFacts
<1> QED
  BY <1>1, <1>2, <1>3 DEF ListOK

(* The lists of a closed channel only lose waiters.                        *)
Calm ==
  Closed =>
    /\ last_sender = NoCort => last_sender' = NoCort
    /\ last_recver = NoCort => last_recver' = NoCort
    /\ senders = << >> => senders' = << >> \/ last_sender # NoCort
    /\ RecversWait' => RecversWait
    /\ SendersWait' => SendersWait

LEMMA AwakeKept ==
  ASSUME ClosedWoken, Same(stack, stack', "awake"), buffer' = buffer, Calm
  PROVE  ClosedWoken'
<1>1. Closed' <=> Closed
  BY DEF Closed, ClosedBuffer
<1>2. ASSUME NEW i \in 1 .. Len(stack'), stack'[i].op = "awake"
      PROVE  Closed'
  <2>1. i \in 1 .. Len(stack) /\ stack[i].op = "awake"
    BY <1>2 DEF Same
  <2> QED
    BY <1>1, <2>1 DEF ClosedWoken
<1>3. ASSUME Closed', RecversWait' \/ SendersWait'
      PROVE  \E i \in 1 .. Len(stack') :
               /\ stack'[i].op = "awake"
               /\ stack'[i].phase # "begin" => last_sender' = NoCort
               /\ stack'[i].phase = "recv" => senders' = << >> /\ last_recver' = NoCort
  <2>1. PICK i \in 1 .. Len(stack) :
          /\ stack[i].op = "awake"
          /\ stack[i].phase # "begin" => last_sender = NoCort
          /\ stack[i].phase = "recv" => senders = << >> /\ last_recver = NoCort
    BY <1>1, <1>3 DEF ClosedWoken, Calm
  <2>2. i \in 1 .. Len(stack') /\ stack'[i] = stack[i]
    BY <2>1 DEF Same
  <2> QED
    BY <1>1, <1>3, <2>1, <2>2 DEF Calm
<1> QED
  BY <1>2, <1>3 DEF ClosedWoken

LEMMA GrantParts ==
  ASSUME PlaceInv, NEW most, Counts(most), GrantInv(most)
  PROVE  /\ RolesKept /\ SizeBounded(most) /\ GrantsBacked /\ HandsOut
         /\ RecversServed /\ ClosedWoken /\ SlotFull
         /\ most \in Nat /\ size \in Nat /\ pinned \in Nat /\ buffer \in Nat
         /\ pinned <= size /\ size < SizeMod - 1 /\ SizeMod \in Nat
         /\ pinned < size => (pinned + 1) % SizeMod = pinned + 1
         /\ ~Closed => Cardinality(Consumers) = pinned /\ buffer \in Buffers
         /\ Closed => size <= buffer
         /\ HandsUnder(stack)
<1>1. /\ RolesKept /\ SizeBounded(most) /\ GrantsBacked /\ HandsOut
      /\ RecversServed /\ ClosedWoken /\ SlotFull
  BY DEF GrantInv
<1>2. /\ size \in Nat /\ pinned \in Nat /\ SizeMod \in Nat /\ SizeMod > 2 /\ most \in Nat
      /\ buffer \in Buffers \union {ClosedBuffer} /\ Buffers \subseteq 0 .. SizeMod - 3
  BY PlaceParts, SettingFacts DEF Scalars, Counts
<1>3. buffer \in Nat
  BY <1>2 DEF ClosedBuffer
<1>4. size < SizeMod - 1
  BY <1>1, SizeFits
<1>5. pinned <= size /\ (~Closed => Cardinality(Consumers) = pinned)
  BY <1>1 DEF GrantsBacked
<1>6. pinned < size => (pinned + 1) % SizeMod = pinned + 1
  BY <1>2, <1>4, Modulo
<1>7. ~Closed => buffer \in Buffers
  BY <1>2 DEF Closed
<1>8. Closed => size <= buffer
  BY <1>2, <1>4 DEF Closed, ClosedBuffer
<1> QED
  BY <1>1, <1>2, <1>3, <1>4, <1>5, <1>6, <1>7, <1>8 DEF HandsOut

TopHands ==
  Runs("push") /\ Top.left # 0 /\ recvers # << >> => pinned < size

LEMMA GrantNext ==
  ASSUME setting' = setting, NEW most,
         RolesKept', SizeBounded(most)', pinned' <= size',
         ~Closed' => Cardinality(Consumers') = pinned',
         HandsUnder(stack'), TopHands', RecversServed', ClosedWoken', SlotFull'
  PROVE  GrantInv(most)'
<1>1. GrantsBacked'
  BY DEF GrantsBacked
<1>2. HandsOut'
  BY DEF HandsOut, HandsUnder, TopHands, Poppers, Deltas
<1> QED
  BY <1>1, <1>2 DEF GrantInv

(* A coroutine that is woken keeps what it waited for.                     *)
LEMMA WakeFacts ==
  ASSUME pc \in [Cort -> Pc], NEW c \in Cort, pc[c] \in Waiting, NEW fs, Wake(c, fs)
  PROVE  /\ stack' = fs \/ stack' = Append(fs, Body(c))
         /\ \E v \in Pc : /\ pc' = [pc EXCEPT ![c] = v]
                          /\ pc[c] = "recv" => v \in {"consume", "heldrecv"}
                          /\ pc[c] = "send" => v \in {"next", "heldsend"}
  BY DEF Wake, Waiting, Held, Pc

LEMMA RolesStep ==
  ASSUME PlaceInv, RolesKept, setting' = setting, NEW c \in Cort, NEW v \in Pc,
         pc' = [pc EXCEPT ![c] = v],
         v \in {"recv", "heldrecv", "consume"} => c \in Poppers,
         v \in {"send", "heldsend"} => c \in Pushers
  PROVE  RolesKept'
<1>1. pc' \in [Cort -> Pc] /\ pc'[c] = v /\ \A d \in Cort : d # c => pc'[d] = pc[d]
  BY PlaceParts
<1> QED
  BY <1>1 DEF RolesKept, Poppers, Pushers

LEMMA BodiesGrant ==
  ASSUME PlaceInv, PlaceInv', NEW most, Counts(most), GrantInv(most),
         NEW c \in Cort, Start(c) \/ Finish(c) \/ OtherDone(c) \/ (GetNull(c) /\ c \in Poppers)
  PROVE  GrantInv(most)'
<1>1. /\ Scalars /\ StackOK(stack, pc) /\ pc \in [Cort -> Pc] /\ stack \in Seq(Frame)
      /\ ListOK(recvers, last_recver, pc, "recv")
  BY PlaceParts
<1>2. /\ RolesKept /\ SizeBounded(most) /\ GrantsBacked /\ HandsOut
      /\ RecversServed /\ ClosedWoken /\ SlotFull
      /\ most \in Nat /\ size \in Nat /\ pinned \in Nat
      /\ pinned <= size /\ HandsUnder(stack)
      /\ ~Closed => Cardinality(Consumers) = pinned
  BY GrantParts
<1>3. UNCHANGED <<size, pinned, buffer, recvers, last_recver, senders, last_sender, fuel, setting>>
  BY DEF Start, Finish, OtherDone, GetNull, channel
<1>4. /\ Closed' <=> Closed
      /\ RecversWait' <=> RecversWait
      /\ SendersWait' <=> SendersWait
      /\ Calm
  BY <1>3 DEF Closed, ClosedBuffer, RecversWait, SendersWait, Calm
<1>5. SizeBounded(most)'
  BY <1>2, <1>3, SizeKept
<1>6. SlotFull'
  BY <1>2, <1>3, <1>4 DEF SlotFull
<1>7. \/ pc' = pc
      \/ \E v \in Pc : /\ pc' = [pc EXCEPT ![c] = v]
                       /\ \/ IsConsumer(pc[c]) <=> IsConsumer(v)
                          \/ Closed \/ (size = 0 /\ IsConsumer(pc[c]))
                       /\ v # "recv" /\ v \notin {"send", "heldsend"}
                       /\ v \in {"heldrecv", "consume"} => c \in Poppers
  <2>1. /\ "next" \in Pc /\ "done" \in Pc /\ "consume" \in Pc
        /\ ~IsConsumer("next") /\ ~IsConsumer("done") /\ IsConsumer("consume")
        /\ ~IsConsumer("idle") /\ IsConsumer("heldrecv") /\ ~IsConsumer("heldsend")
    BY DEF Pc, IsConsumer
  <2>2. CASE Start(c)
    BY <2>1, <2>2 DEF Start
  <2>3. CASE Finish(c)
    BY <2>1, <2>3 DEF Finish
  <2>4. CASE OtherDone(c)
    BY <1>2, <2>1, <2>4 DEF OtherDone, Held, RolesKept
  <2>5. CASE GetNull(c) /\ c \in Poppers
    BY <2>1, <2>5 DEF GetNull
  <2> QED
    BY <2>2, <2>3, <2>4, <2>5
<1>8. RolesKept'
  <2>1. CASE pc' = pc
    BY <1>2, <1>3, <2>1 DEF RolesKept, Poppers, Pushers
  <2>2. CASE pc' # pc
    BY <1>2, <1>3, <1>7, <2>2, RolesStep
  <2> QED
    BY <2>1, <2>2
<1>9. ~Closed' => Cardinality(Consumers') = pinned'
  <2>1. CASE pc' = pc
    <3>1. Consumers' = Consumers
      BY <2>1 DEF Consumers
    <3> QED
      BY <1>2, <1>3, <1>4, <3>1
  <2>2. ASSUME NEW v \in Pc, pc' = [pc EXCEPT ![c] = v],
               \/ IsConsumer(pc[c]) <=> IsConsumer(v)
               \/ Closed \/ (size = 0 /\ IsConsumer(pc[c])), ~Closed
        PROVE  Cardinality(Consumers') = pinned'
    <3>1. /\ Cardinality(Consumers) \in Nat
          /\ (IsConsumer(v) <=> IsConsumer(pc[c])) => Cardinality(Consumers') = Cardinality(Consumers)
          /\ IsConsumer(pc[c]) => Cardinality(Consumers) > 0
      BY <1>1, <2>2, ConsumersStep
    <3>2. ~(size = 0 /\ IsConsumer(pc[c]))
      BY <1>2, <2>2, <3>1
    <3> QED
      BY <1>2, <1>3, <2>2, <3>1, <3>2
  <2> QED
    BY <1>4, <1>7, <2>1, <2>2
<1>10. pc[c] # "recv" \/ stack' = stack
  <2>1. AtBody(c) => pc[c] # "recv"
    <3>1. ASSUME AtBody(c) PROVE pc[c] \in Running
      <4>1. stack # << >> /\ Last(stack) = Body(c)
        BY <1>1, <3>1, TopBody
      <4>2. Len(stack) \in Nat /\ Len(stack) > 0 /\ stack[Len(stack)] = Body(c)
        BY <1>1, <4>1, Popped
      <4> QED
        BY <1>1, <4>2 DEF StackOK
    <3> QED
      BY <3>1 DEF Running
  <2> QED
    BY <2>1 DEF Start, Finish, OtherDone, GetNull, Held
<1>11. CASE stack' = stack /\ ~Runs("push")
  <2>1. TopHands' /\ RecversServed'
    BY <1>2, <1>3, <1>4, <1>11 DEF TopHands, RecversServed, Runs, Top
  <2>2. ClosedWoken'
    BY <1>1, <1>2, <1>3, <1>4, <1>11, SameRefl, AwakeKept
  <2> QED
    BY <1>2, <1>3, <1>5, <1>6, <1>8, <1>9, <1>11, <2>1, <2>2, GrantNext
<1>12. CASE stack = << >> /\ stack' = <<Body(c)>>
  <2>1. stack' = Append(stack, Body(c)) /\ Body(c) \in Frame /\ Body(c).op = "body"
    BY <1>12, BodyFrame
  <2>2. HandsUnder(stack')
    BY <1>1, <1>2, <1>12, <2>1, HandsAppend
  <2>3. Same(stack, stack', "awake")
    BY <1>1, <2>1, SameRefl, SameAppend
  <2>4. Last(stack').op = "body"
    BY <1>1, <2>1, Pushed
  <2>5. TopHands' /\ RecversServed'
    BY <1>2, <1>3, <1>4, <1>12, <2>4 DEF TopHands, RecversServed, Runs, Top
  <2>6. ClosedWoken'
    BY <1>2, <1>3, <1>4, <2>3, AwakeKept
  <2> QED
    BY <1>2, <1>3, <1>5, <1>6, <1>8, <1>9, <2>2, <2>5, <2>6, GrantNext
<1>13. CASE stack' = Under /\ AtBody(c)
  <2>1. stack # << >> /\ Last(stack) = Body(c) /\ Top = Body(c) /\ Body(c).op = "body"
    BY <1>1, <1>13, TopBody, BodyFrame
  <2>2. /\ HandsUnder(stack') /\ stack' = Front(stack)
        /\ stack' # << >> /\ Last(stack').op = "push" =>
              \E q \in Poppers : Body(c) = Body(q) /\ (Last(stack').left = 0 \/ Poppers = {q})
    BY <1>1, <1>2, <1>13, <2>1, HandsFront DEF Under
  <2>3. Same(stack, stack', "awake")
    BY <1>1, <2>1, <2>2, SameRefl, SameFront
  <2>4. ClosedWoken'
    BY <1>2, <1>3, <1>4, <2>3, AwakeKept
  <2>5. TopHands'
    <3>1. SUFFICES ASSUME Runs("push")', Top'.left # 0, recvers' # << >> PROVE FALSE
      BY DEF TopHands
    <3>2. stack' # << >> /\ Last(stack').op = "push" /\ Last(stack').left # 0
      BY <3>1 DEF Runs, Top
    <3>3. Poppers \subseteq Cort
      BY <1>1, SettingFacts DEF Scalars
    <3>4. Poppers = {c}
      BY <2>2, <3>2, <3>3, BodyFrame
    <3>5. \A d \in Cort : pc[d] = "recv" => d = c
      BY <1>2, <3>4 DEF RolesKept
    <3>6. pc[c] # "recv"
      <4>1. Len(stack) \in Nat /\ Len(stack) > 0 /\ stack[Len(stack)] = Body(c)
        BY <1>1, <2>1, Popped
      <4>2. pc[c] \in Running
        BY <1>1, <4>1 DEF StackOK
      <4> QED
        BY <4>2 DEF Running
    <3>7. recvers = << >>
      BY <1>1, <3>5, <3>6, Alone
    <3> QED
      BY <1>3, <3>1, <3>7
  <2>6. RecversServed'
    BY <1>2, <1>3, <1>4, <2>1 DEF RecversServed, Runs
  <2> QED
    BY <1>2, <1>3, <1>5, <1>6, <1>8, <1>9, <2>2, <2>4, <2>5, <2>6, GrantNext
<1>14. \/ ~Runs("push") /\ stack' = stack
       \/ stack = << >> /\ stack' = <<Body(c)>>
       \/ stack' = Under /\ AtBody(c)
  <2>1. Start(c) => stack = << >> /\ stack' = <<Body(c)>>
    BY DEF Start
  <2>2. Finish(c) => stack' = Under /\ AtBody(c)
    BY DEF Finish
  <2>3. OtherDone(c) => stack = << >> /\ (stack' = stack \/ stack' = <<Body(c)>>)
    BY DEF OtherDone
  <2>4. GetNull(c) => AtBody(c) /\ stack' = stack
    BY DEF GetNull
  <2>5. AtBody(c) \/ stack = << >> => ~Runs("push")
    BY DEF Runs, AtBody
  <2> QED
    BY <2>1, <2>2, <2>3, <2>4, <2>5
<1> QED
  BY <1>11, <1>12, <1>13, <1>14

LEMMA TopRuns ==
  ASSUME PlaceInv, NEW c \in Cort, AtBody(c)
  PROVE  /\ stack # << >> /\ Last(stack) = Body(c) /\ Last(stack).op = "body" /\ Top.op = "body"
         /\ pc[c] \in Running
         /\ ~Runs("push")
<1>1. StackOK(stack, pc) /\ stack \in Seq(Frame)
  BY PlaceParts
<1>2. stack # << >> /\ Last(stack) = Body(c) /\ Top = Body(c) /\ Body(c).op = "body"
  BY <1>1, TopBody, BodyFrame
<1>3. Len(stack) \in Nat /\ Len(stack) > 0 /\ stack[Len(stack)] = Body(c)
  BY <1>1, <1>2, Popped
<1>4. pc[c] \in Running
  BY <1>1, <1>3 DEF StackOK
<1> QED
  BY <1>2, <1>4 DEF Runs

(* The body of c leaves the top of stk: what was under it had nothing left *)
(* to hand out, or c is the only popper.                                   *)
LEMMA Left ==
  ASSUME NEW stk \in Seq(Frame), HandsUnder(stk), stk # << >>, NEW c \in Cort,
         Last(stk) = Body(c), Poppers \subseteq Cort, stack' = Front(stk)
  PROVE  /\ HandsUnder(stack')
         /\ Runs("push")' /\ Top'.left # 0 => Poppers = {c}
<1>1. /\ HandsUnder(stack')
      /\ stack' # << >> /\ Last(stack').op = "push" =>
              \E q \in Poppers : Body(c) = Body(q) /\ (Last(stack').left = 0 \/ Poppers = {q})
  BY HandsFront
<1> QED
  BY <1>1, BodyFrame DEF Runs, Top

LEMMA WaitPopableGrant ==
  ASSUME PlaceInv, PlaceInv', NEW most, Counts(most), GrantInv(most),
         NEW c \in Poppers, WaitPopable(c)
  PROVE  GrantInv(most)'
<1>1. /\ Scalars /\ StackOK(stack, pc) /\ pc \in [Cort -> Pc] /\ stack \in Seq(Frame)
      /\ ListOK(recvers, last_recver, pc, "recv")
      /\ Poppers \subseteq Cort /\ c \in Cort
  BY PlaceParts, SettingFacts DEF Scalars
<1>2. /\ RolesKept /\ SizeBounded(most) /\ HandsOut
      /\ RecversServed /\ ClosedWoken /\ SlotFull
      /\ most \in Nat /\ size \in Nat /\ pinned \in Nat
      /\ pinned <= size /\ HandsUnder(stack)
      /\ pinned < size => (pinned + 1) % SizeMod = pinned + 1
      /\ ~Closed => Cardinality(Consumers) = pinned
  BY GrantParts
<1>3. /\ AtBody(c) /\ pc[c] = "next" /\ Spend(c)
      /\ UNCHANGED <<size, buffer, last_sender, senders, setting>>
  BY DEF WaitPopable
<1>4. /\ stack # << >> /\ Last(stack) = Body(c) /\ Last(stack).op = "body"
      /\ ~Runs("push") /\ Top.op = "body"
  BY <1>1, <1>3, TopRuns
<1>5. Closed' <=> Closed
  BY <1>3 DEF Closed, ClosedBuffer
<1>6. SizeBounded(most)'
  <2>1. size' \in Int /\ size' <= size + 0 /\ 0 \in 0 .. most
    BY <1>2, <1>3
  <2> QED
    BY <1>1, <1>2, <1>3, <2>1, SizeFits
<1>7. SlotFull'
  BY <1>2, <1>3, <1>5 DEF SlotFull
<1>8. CASE /\ Closed \/ HasObject
           /\ pinned' = IF Closed THEN pinned ELSE (pinned + 1) % SizeMod
           /\ pc' = [pc EXCEPT ![c] = "consume"]
           /\ UNCHANGED <<last_recver, recvers, also, stack>>
  <2>1. "consume" \in Pc /\ IsConsumer("consume") /\ ~IsConsumer("next")
    BY DEF Pc, IsConsumer
  <2>2. RolesKept'
    BY <1>1, <1>2, <1>3, <1>8, <2>1, RolesStep
  <2>3. pinned' = (IF Closed THEN pinned ELSE pinned + 1) /\ pinned' <= size'
    BY <1>2, <1>3, <1>8 DEF HasObject
  <2>4. Cardinality(Consumers') = Cardinality(Consumers) + 1
    BY <1>1, <1>3, <1>8, <2>1, ConsumersStep
  <2>5. ~Closed' => Cardinality(Consumers') = pinned'
    BY <1>2, <1>5, <2>3, <2>4
  <2>6. ~Runs("push")' /\ HandsUnder(stack')
    BY <1>2, <1>4, <1>8 DEF Runs, Top
  <2>7. TopHands'
    BY <2>6 DEF TopHands
  <2>8. RecversWait' <=> RecversWait
    BY <1>8 DEF RecversWait
  <2>9. RecversServed'
    <3>1. ASSUME ~Closed, RecversWait PROVE size' <= pinned'
      BY <1>2, <1>3, <1>4, <1>8, <2>3, <3>1 DEF RecversServed
    <3> QED
      BY <1>5, <2>8, <3>1 DEF RecversServed
  <2>10. Calm
    BY <1>3, <1>8, <2>8 DEF Calm, SendersWait
  <2>11. ClosedWoken'
    BY <1>1, <1>2, <1>3, <1>8, <2>10, SameRefl, AwakeKept
  <2> QED
    BY <1>3, <1>6, <1>7, <2>2, <2>3, <2>5, <2>6, <2>7, <2>9, <2>11, GrantNext
<1>9. CASE /\ ~Popable
           /\ recvers' = Joined(recvers, last_recver)
           /\ last_recver' = c
           /\ Suspend(c, "recv")
           /\ stack' = Under
           /\ UNCHANGED pinned
  <2>1. /\ "recv" \in Pc /\ ~IsConsumer("recv") /\ ~IsConsumer("next")
        /\ pc' = [pc EXCEPT ![c] = "recv"]
    BY <1>9 DEF Pc, Waiting, IsConsumer, Suspend
  <2>2. RolesKept'
    BY <1>1, <1>2, <1>3, <2>1, RolesStep
  <2>3. ~Closed /\ size <= pinned
    BY <1>2, <1>9 DEF Popable, HasObject
  <2>4. pinned' <= size' /\ (~Closed' => Cardinality(Consumers') = pinned')
    BY <1>1, <1>2, <1>3, <1>9, <2>1, <2>3, ConsumersStep
  <2>5. RecversServed'
    BY <1>3, <1>9, <2>3 DEF RecversServed
  <2>6. HandsUnder(stack') /\ (Runs("push")' /\ Top'.left # 0 => Poppers = {c})
    BY <1>1, <1>2, <1>4, <1>9, Left DEF Under
  <2>7. TopHands'
    <3>1. SUFFICES ASSUME Poppers = {c} PROVE recvers' = << >>
      BY <2>6 DEF TopHands
    <3>2. \A d \in Cort : pc[d] = "recv" => d = c
      BY <1>2, <3>1 DEF RolesKept
    <3>3. recvers = << >> /\ last_recver = NoCort
      BY <1>1, <1>3, <3>2, Alone
    <3> QED
      BY <1>9, <3>3 DEF Joined
  <2>8. ClosedWoken'
    <3>1. Same(stack, stack', "awake")
      <4>1. Same(stack, stack, "awake") /\ Last(stack).op # "awake"
        BY <1>1, <1>4, SameRefl
      <4>2. Same(stack, Front(stack), "awake")
        BY <1>4, <4>1, SameFront
      <4> QED
        BY <1>9, <4>2 DEF Under
    <3> QED
      BY <1>2, <1>3, <2>3, <3>1, AwakeKept DEF Calm
  <2> QED
    BY <1>3, <1>6, <1>7, <2>2, <2>4, <2>5, <2>6, <2>7, <2>8, GrantNext
<1> QED
  BY <1>8, <1>9 DEF WaitPopable

LEMMA PopGrant ==
  ASSUME PlaceInv, PlaceInv', NEW most, Counts(most), GrantInv(most),
         NEW c \in Poppers, Pop(c)
  PROVE  GrantInv(most)'
<1>1. /\ Scalars /\ StackOK(stack, pc) /\ pc \in [Cort -> Pc] /\ stack \in Seq(Frame)
      /\ ListOK(senders, last_sender, pc, "send") /\ NoCort \notin Cort
      /\ Poppers \subseteq Cort /\ c \in Cort
  BY PlaceParts, SettingFacts DEF Scalars
<1>2. /\ RolesKept /\ SizeBounded(most) /\ HandsOut
      /\ RecversServed /\ ClosedWoken /\ SlotFull
      /\ most \in Nat /\ size \in Nat /\ pinned \in Nat /\ buffer \in Nat
      /\ SizeMod \in Nat /\ size < SizeMod - 1
      /\ pinned <= size /\ HandsUnder(stack)
      /\ ~Closed => Cardinality(Consumers) = pinned
  BY GrantParts
<1> DEFINE done == [pc EXCEPT ![c] = "next"]
<1>3. /\ AtBody(c) /\ pc[c] = "consume" /\ size # 0 /\ ~Closed
      /\ size' = size - 1 /\ pinned' = (pinned - 1) % SizeMod
      /\ UNCHANGED <<buffer, last_recver, recvers, fuel, setting>>
  BY DEF Pop
<1>4. stack # << >> /\ Last(stack) = Body(c) /\ Last(stack).op = "body" /\ ~Runs("push")
  BY <1>1, <1>3, TopRuns
<1>5. ~Closed' /\ (RecversWait' <=> RecversWait)
  BY <1>3 DEF Closed, ClosedBuffer, RecversWait
<1>6. SizeBounded(most)'
  BY <1>2, <1>3, SizeKept
<1>7. IsConsumer("consume") /\ ~IsConsumer("next") /\ "next" \in Pc
      /\ "heldsend" \in Pc /\ ~IsConsumer("heldsend") /\ ~IsConsumer("send")
  BY DEF IsConsumer, Pc, Held
<1>8. pinned > 0 /\ pinned' = pinned - 1
  <2>1. Consumers # {} /\ IsFiniteSet(Consumers)
    <3>1. c \in Consumers
      BY <1>1, <1>3 DEF Consumers
    <3>2. IsFiniteSet(Cort)
      BY ChannelAssumption DEF ChannelAssumption
    <3> QED
      BY <3>1, <3>2, FS_Subset DEF Consumers
  <2>2. Cardinality(Consumers) # 0
    BY <2>1, FS_EmptySet
  <2>3. pinned - 1 \in 0 .. SizeMod - 1
    BY <1>2, <1>3, <2>2
  <2> QED
    BY <1>2, <1>3, <2>3, Modulo
<1>9. done \in [Cort -> Pc] /\ done[c] = "next" /\ \A d \in Cort : d # c => done[d] = pc[d]
  BY <1>1, <1>7
<1>10. /\ \/ pc' = done
          \/ \E w \in Cort : done[w] = "send" /\ \E v \in {"next", "heldsend"} :
               pc' = [done EXCEPT ![w] = v]
       /\ \/ stack' = stack
          \/ \E w \in Cort : stack' = Append(stack, Body(w))
       /\ last_sender' = NoCort
  <2>1. CASE /\ \/ RoomLeft(size - 1)
                \/ last_sender = NoCort /\ senders = << >>
             /\ pc' = done
             /\ UNCHANGED <<last_sender, senders, also, stack>>
    <3>1. ASSUME last_sender' # NoCort PROVE FALSE
      BY <1>2, <1>3, <2>1, <3>1 DEF SlotFull, RoomLeft
    <3> QED
      BY <2>1, <3>1
  <2>2. ASSUME NEW w \in Cort,
               ~RoomLeft(size - 1),
               \/ w = last_sender /\ last_sender' = NoCort /\ senders' = senders
               \/ /\ last_sender = NoCort /\ senders # << >>
                  /\ w = Head(senders) /\ senders' = Tail(senders)
                  /\ last_sender' = last_sender,
               IF w \in also
                 THEN /\ pc' = [done EXCEPT ![w] = "heldsend"]
                      /\ also' = also \ {w} /\ stack' = stack
                 ELSE /\ pc' = [done EXCEPT ![w] = "next"]
                      /\ also' = also /\ stack' = Append(stack, Body(w))
        PROVE  /\ done[w] = "send"
               /\ last_sender' = NoCort
               /\ \E v \in {"next", "heldsend"} : pc' = [done EXCEPT ![w] = v]
               /\ \/ stack' = stack
                  \/ stack' = Append(stack, Body(w))
    <3>1. pc[w] = "send"
      <4>1. "done" \in Pc /\ "done" # "send"
        BY DEF Pc
      <4>2. CASE w = last_sender
        BY <1>1, <4>1, <4>2, ListSlot
      <4>3. CASE senders # << >> /\ w = Head(senders)
        BY <1>1, <4>1, <4>3, ListHead
      <4> QED
        BY <2>2, <4>2, <4>3
    <3> QED
      BY <1>3, <1>9, <2>2, <3>1
  <2> QED
    BY <1>2, <1>3, <2>1, <2>2 DEF Pop, done
<1> HIDE DEF done
<1>11. /\ \A d \in Cort : pc'[d] # pc[d] => pc'[d] \in {"next", "heldsend"}
       /\ \A d \in Cort : pc'[d] = "heldsend" => pc[d] \in {"send", "heldsend"}
       /\ \A d \in Cort : d \in Consumers' <=> d \in Consumers /\ d # c
  <2>1. CASE pc' = done
    BY <1>3, <1>9, <2>1 DEF Consumers
  <2>2. ASSUME NEW w \in Cort, done[w] = "send", NEW v \in {"next", "heldsend"},
               pc' = [done EXCEPT ![w] = v]
        PROVE  \A d \in Cort : /\ pc'[d] # pc[d] => pc'[d] \in {"next", "heldsend"}
                               /\ pc'[d] = "heldsend" => pc[d] \in {"send", "heldsend"}
                               /\ d \in Consumers' <=> d \in Consumers /\ d # c
    <3>1. w # c /\ pc[w] = "send" /\ pc'[w] = v /\ pc'[c] = "next"
      BY <1>9, <1>1, <2>2
    <3>2. \A d \in Cort : d # w /\ d # c => pc'[d] = pc[d]
      BY <1>9, <2>2
    <3> QED
      BY <1>3, <3>1, <3>2 DEF Consumers
  <2> QED
    BY <1>10, <2>1, <2>2
<1>12. RolesKept'
  BY <1>2, <1>3, <1>11 DEF RolesKept, Poppers, Pushers
<1>13. Cardinality(Consumers') = pinned'
  <2>1. Consumers' = Consumers \ {c} /\ c \in Consumers
    <3>1. Consumers \subseteq Cort /\ Consumers' \subseteq Cort
      BY DEF Consumers
    <3>2. c \in Consumers
      BY <1>1, <1>3 DEF Consumers
    <3> QED
      BY <1>11, <3>1, <3>2
  <2>2. IsFiniteSet(Consumers)
    <3>1. IsFiniteSet(Cort)
      BY ChannelAssumption DEF ChannelAssumption
    <3> QED
      BY <3>1, FS_Subset DEF Consumers
  <2>3. Cardinality(Consumers \ {c}) = Cardinality(Consumers) - 1
    BY <2>1, <2>2, FS_RemoveElement
  <2> QED
    BY <1>2, <1>3, <1>8, <2>1, <2>3
<1>14. HandsUnder(stack') /\ ~Runs("push")' /\ Same(stack, stack', "awake")
  <2>1. CASE stack' = stack
    BY <1>1, <1>2, <1>4, <2>1, SameRefl DEF Runs, Top
  <2>2. ASSUME NEW w \in Cort, stack' = Append(stack, Body(w))
        PROVE  HandsUnder(stack') /\ ~Runs("push")' /\ Same(stack, stack', "awake")
    <3>1. Body(w) \in Frame /\ Body(w).op = "body"
      BY BodyFrame
    <3>2. HandsUnder(Append(stack, Body(w)))
      BY <1>1, <1>2, <1>4, <3>1, HandsAppend
    <3>3. Last(stack') = Body(w)
      BY <1>1, <2>2, <3>1, Pushed
    <3>4. Same(stack, Append(stack, Body(w)), "awake")
      BY <1>1, <3>1, SameRefl, SameAppend
    <3> QED
      BY <2>2, <3>1, <3>2, <3>3, <3>4 DEF Runs, Top
  <2> QED
    BY <1>10, <2>1, <2>2
<1>15. TopHands'
  BY <1>14 DEF TopHands
<1>16. RecversServed'
  BY <1>2, <1>3, <1>4, <1>5, <1>8 DEF RecversServed
<1>17. ClosedWoken'
  BY <1>2, <1>3, <1>14, AwakeKept DEF Calm
<1>18. SlotFull'
  BY <1>10 DEF SlotFull
<1> QED
  BY <1>2, <1>3, <1>6, <1>8, <1>12, <1>13, <1>14, <1>15, <1>16, <1>17, <1>18, GrantNext

LEMMA ProduceGrant ==
  ASSUME PlaceInv, PlaceInv', NEW most, Counts(most), GrantInv(most),
         NEW c \in Cort, AtBody(c), pc[c] = "next", Spend(c),
         NEW k \in Deltas, NEW b \in BOOLEAN,
         \/ UNCHANGED <<size, recvers, last_recver, stack>>
         \/ Produce(k, b),
         UNCHANGED <<pinned, buffer, last_sender, senders, pc, also, setting>>
  PROVE  GrantInv(most)'
<1>1. /\ Scalars /\ StackOK(stack, pc) /\ pc \in [Cort -> Pc] /\ stack \in Seq(Frame)
      /\ ListOK(recvers, last_recver, pc, "recv")
      /\ Deltas \subseteq 1 .. SizeMod - 1
  BY PlaceParts, SettingFacts DEF Scalars
<1>2. /\ RolesKept /\ SizeBounded(most) /\ HandsOut
      /\ RecversServed /\ ClosedWoken /\ SlotFull
      /\ most \in Nat /\ size \in Nat /\ pinned \in Nat /\ buffer \in Nat /\ SizeMod \in Nat
      /\ pinned <= size /\ HandsUnder(stack)
      /\ ~Closed => Cardinality(Consumers) = pinned
  BY GrantParts
<1>3. /\ stack # << >> /\ Last(stack) = Body(c) /\ Last(stack).op = "body" /\ ~Runs("push")
  BY <1>1, TopRuns
<1>4. k \in 1 .. SizeMod - 1 /\ k \in 0 .. most
  BY <1>1, <1>2, SizeFits
<1>5. RolesKept'
  BY <1>2 DEF RolesKept, Poppers, Pushers
<1>6. Closed' <=> Closed
  BY DEF Closed, ClosedBuffer
<1>7. Consumers' = Consumers
  BY DEF Consumers
<1>8. CASE UNCHANGED <<size, recvers, last_recver, stack>>
  <2>1. size' \in Int /\ size' <= size + 0 /\ 0 \in 0 .. most
    BY <1>2, <1>8
  <2>2. SizeBounded(most)'
    BY <1>1, <1>2, <2>1, SizeFits
  <2>3. SlotFull' /\ TopHands' /\ RecversServed'
    BY <1>2, <1>3, <1>6, <1>8
    DEF SlotFull, TopHands, RecversServed, Runs, Top, RecversWait
  <2>4. Calm
    BY <1>8 DEF Calm, RecversWait, SendersWait
  <2>5. ClosedWoken'
    BY <1>1, <1>2, <1>8, <2>4, SameRefl, AwakeKept
  <2> QED
    BY <1>2, <1>5, <1>6, <1>7, <1>8, <2>2, <2>3, <2>5, GrantNext
<1>9. CASE Produce(k, b)
  <2> DEFINE f == [op |-> "push", left |-> k, awaited |-> b]
  <2>1. f \in Frame /\ f.op = "push" /\ f.left = k
    BY <1>4, NewFrames
  <2>2. /\ size' = (size + k) % SizeMod /\ recvers' = Joined(recvers, last_recver)
        /\ last_recver' = NoCort /\ stack' = Append(stack, f)
    BY <1>9 DEF Produce
  <2> HIDE DEF f
  <2>3. size' = size + k
    BY <1>1, <1>2, <1>4, <2>2, SizeFits
  <2>4. SizeBounded(most)'
    BY <1>1, <1>2, <1>4, <2>3, SizeFits
  <2>5. SlotFull'
    BY <1>2, <1>4, <1>6, <2>3 DEF SlotFull
  <2>6. HandsUnder(stack')
    BY <1>1, <1>2, <1>3, <1>4, <2>1, <2>2, HandsAppend
  <2>7. TopHands'
    BY <1>2, <1>4, <2>3 DEF TopHands
  <2>8. RecversWait' <=> RecversWait /\ recvers' # << >>
    <3>1. Append(recvers, last_recver) # << >> \/ last_recver = NoCort
      BY <1>1, Pushed DEF ListOK
    <3> QED
      BY <2>2, <3>1 DEF RecversWait, Joined
  <2>9. RecversServed'
    <3>1. Last(stack') = f /\ stack' # << >>
      BY <1>1, <2>1, <2>2, Pushed
    <3>2. ASSUME ~Closed, RecversWait PROVE size <= pinned
      BY <1>2, <1>3, <3>2 DEF RecversServed
    <3>3. ASSUME ~Closed, RecversWait PROVE size' <= pinned' + k
      BY <1>2, <1>4, <2>3, <3>2, <3>3
    <3> QED
      BY <1>6, <2>1, <2>8, <3>1, <3>3 DEF RecversServed, Runs, Top
  <2>10. ClosedWoken'
    <3>1. Same(stack, stack', "awake")
      BY <1>1, <2>1, <2>2, SameRefl, SameAppend
    <3> QED
      BY <1>2, <2>2, <2>8, <3>1, AwakeKept DEF Calm, SendersWait
  <2> QED
    BY <1>2, <1>4, <1>5, <1>6, <1>7, <2>3, <2>4, <2>5, <2>6, <2>7, <2>9, <2>10, GrantNext
<1> QED
  BY <1>8, <1>9

LEMMA PushWakeGrant ==
  ASSUME PlaceInv, PlaceInv', NEW most, Disciplined, Counts(most), GrantInv(most), PushWake
  PROVE  GrantInv(most)'
<1>1. /\ Scalars /\ StackOK(stack, pc) /\ pc \in [Cort -> Pc] /\ stack \in Seq(Frame)
      /\ ListOK(recvers, last_recver, pc, "recv") /\ Poppers \subseteq Cort
  BY PlaceParts, SettingFacts DEF Scalars
<1>2. /\ RolesKept /\ SizeBounded(most) /\ HandsOut
      /\ RecversServed /\ ClosedWoken /\ SlotFull
      /\ most \in Nat /\ size \in Nat /\ pinned \in Nat
      /\ pinned <= size /\ HandsUnder(stack)
      /\ pinned < size => (pinned + 1) % SizeMod = pinned + 1
      /\ ~Closed => Cardinality(Consumers) = pinned
  BY GrantParts
<1> DEFINE g == [Top EXCEPT !.left = @ - 1]
           q == Head(recvers)
           fs == Append(Under, g)
<1>3. /\ Runs("push") /\ Top.left # 0 /\ recvers # << >> /\ recvers' = Tail(recvers)
      /\ pinned' = (pinned + 1) % SizeMod /\ Wake(q, fs)
      /\ UNCHANGED <<size, buffer, last_recver, last_sender, senders, fuel, setting>>
  BY DEF PushWake, PinnedOnWake
<1>4. /\ stack # << >> /\ Top \in Frame /\ Top.op = "push" /\ Top = Last(stack)
      /\ Under \in Seq(Frame)
  BY <1>1, <1>3, Loop DEF StackOK
<1>5. g \in Frame /\ g.op = "push" /\ g.left = Top.left - 1 /\ Top.left \in Nat
  BY <1>3, <1>4, PushFrame
<1>6. q \in Cort /\ pc[q] = "recv" /\ q \in Poppers
  <2>1. "done" \in Pc /\ "done" # "recv"
    BY DEF Pc
  <2>2. q \in Cort /\ pc[q] = "recv"
    BY <1>1, <1>3, <2>1, ListHead
  <2> QED
    BY <1>2, <2>2 DEF RolesKept
<1>7. pinned < size /\ pinned' = pinned + 1
  BY <1>2, <1>3 DEF HandsOut
<1> HIDE DEF g, q
<1>8. /\ stack' = fs \/ stack' = Append(fs, Body(q))
      /\ \E v \in Pc : pc' = [pc EXCEPT ![q] = v] /\ v \in {"consume", "heldrecv"}
  BY <1>1, <1>3, <1>6, WakeFacts DEF Waiting
<1>9. RolesKept'
  BY <1>2, <1>3, <1>6, <1>8, RolesStep
<1>10. ~Closed' => Cardinality(Consumers') = pinned'
  <2>1. IsConsumer("consume") /\ IsConsumer("heldrecv") /\ ~IsConsumer("recv")
    BY DEF IsConsumer
  <2>2. Cardinality(Consumers') = Cardinality(Consumers) + 1
    BY <1>1, <1>6, <1>8, <2>1, ConsumersStep
  <2> QED
    BY <1>2, <1>3, <1>7, <2>2 DEF Closed, ClosedBuffer
<1>11. Deltas = {1} \/ Poppers = {q}
  <2>1. Deltas = {1} \/ \E p \in Cort : Poppers = {p}
    BY <1>1 DEF Disciplined, Scalars, Deltas, Poppers
  <2> QED
    BY <1>6, <2>1
<1>12. g.left = 0 \/ Poppers = {q}
  <2>1. Len(stack) \in Nat /\ Len(stack) > 0 /\ Top = stack[Len(stack)]
    BY <1>1, <1>4, Popped
  <2>2. Deltas = {1} => Top.left <= 1
    BY <1>2, <1>4, <2>1 DEF HandsUnder
  <2> QED
    BY <1>3, <1>5, <1>11, <2>2
<1>13. /\ HandsUnder(fs) /\ fs \in Seq(Frame) /\ Last(fs) = g /\ fs # << >>
  <2>1. HandsUnder(Under) /\ (Under # << >> => Last(Under).op # "push")
    BY <1>2, <1>3, UnderLoop
  <2>2. Deltas = {1} => g.left <= 1
    <3>1. Len(stack) \in Nat /\ Len(stack) > 0 /\ Top = stack[Len(stack)]
      BY <1>1, <1>4, Popped
    <3> QED
      BY <1>2, <1>4, <1>5, <3>1 DEF HandsUnder
  <2>3. HandsUnder(fs)
    BY <1>4, <1>5, <2>1, <2>2, HandsAppend
  <2> QED
    BY <1>4, <1>5, <2>3, Pushed
<1>14. Same(stack, fs, "awake")
  <2>1. Same(stack, Under, "awake")
    <3>1. Same(stack, stack, "awake") /\ Last(stack).op # "awake"
      BY <1>1, <1>4, SameRefl
    <3> QED
      BY <1>4, <3>1, SameFront DEF Under
  <2> QED
    BY <1>5, <2>1, SameAppend
<1> HIDE DEF fs
<1>15. Poppers = {q} => ~RecversWait' /\ recvers' = << >>
  <2>1. SUFFICES ASSUME Poppers = {q} PROVE ~RecversWait' /\ recvers' = << >>
    OBVIOUS
  <2>2. ListOK(recvers', last_recver', pc', "recv") /\ pc' \in [Cort -> Pc]
    <3>1. PlaceInv'
      OBVIOUS
    <3> QED
      BY <3>1 DEF PlaceInv, ListOK, StackOK
  <2>3. pc'[q] # "recv"
    BY <1>1, <1>6, <1>8
  <2>4. \A d \in Cort : pc'[d] = "recv" => d = q
    BY <1>3, <1>9, <2>1 DEF RolesKept, Poppers
  <2> QED
    BY <1>6, <2>2, <2>3, <2>4, Alone DEF RecversWait
<1>16. RecversWait' => RecversWait
  BY <1>3 DEF RecversWait
<1>17. Calm
  BY <1>3, <1>16 DEF Calm, SendersWait
<1>18. SizeBounded(most)'
  BY <1>2, <1>3, SizeKept
<1>19. SlotFull'
  BY <1>2, <1>3 DEF SlotFull, Closed, ClosedBuffer
<1>20. g.left # 0 => recvers' = << >>
  BY <1>12, <1>15
<1>21. RecversServed'
  <2>1. SUFFICES ASSUME ~Closed, RecversWait' PROVE size' <= pinned'
    BY <1>3 DEF RecversServed, Closed, ClosedBuffer
  <2>2. g.left = 0
    BY <1>12, <1>15, <2>1
  <2>3. size <= pinned + Top.left
    BY <1>2, <1>5, <1>16, <2>1 DEF RecversServed
  <2> QED
    BY <1>2, <1>3, <1>5, <1>7, <2>2, <2>3
<1>22. CASE stack' = fs
  <2>1. TopHands'
    BY <1>13, <1>20, <1>22 DEF TopHands, Top
  <2>2. ClosedWoken'
    BY <1>2, <1>3, <1>14, <1>17, <1>22, AwakeKept
  <2> QED
    BY <1>2, <1>3, <1>7, <1>9, <1>10, <1>13, <1>18, <1>19, <1>21, <1>22, <2>1, <2>2, GrantNext
<1>23. CASE stack' = Append(fs, Body(q))
  <2>1. Body(q) \in Frame /\ Body(q).op = "body"
    BY <1>6, BodyFrame
  <2>2. Last(stack') = Body(q) /\ TopHands'
    BY <1>13, <1>23, <2>1, Pushed DEF TopHands, Runs, Top
  <2>3. HandsUnder(stack')
    BY <1>6, <1>12, <1>13, <1>23, <2>1, HandsAppend
  <2>4. Same(stack, stack', "awake")
    BY <1>14, <1>23, <2>1, SameAppend
  <2>5. ClosedWoken'
    BY <1>2, <1>3, <1>17, <2>4, AwakeKept
  <2> QED
    BY <1>2, <1>3, <1>7, <1>9, <1>10, <1>18, <1>19, <1>21, <2>2, <2>3, <2>5, GrantNext
<1> QED
  BY <1>8, <1>22, <1>23

LEMMA PushEndGrant ==
  ASSUME PlaceInv, PlaceInv', NEW most, Counts(most), GrantInv(most), PushEnd
  PROVE  GrantInv(most)'
<1>1. /\ Scalars /\ StackOK(stack, pc) /\ pc \in [Cort -> Pc] /\ stack \in Seq(Frame)
      /\ ListOK(recvers, last_recver, pc, "recv") /\ Poppers \subseteq Cort /\ Pushers \subseteq Cort
  BY PlaceParts, SettingFacts DEF Scalars
<1>2. /\ RolesKept /\ SizeBounded(most) /\ HandsOut
      /\ RecversServed /\ ClosedWoken /\ SlotFull
      /\ most \in Nat /\ size \in Nat /\ pinned \in Nat /\ buffer \in Nat
      /\ pinned <= size /\ HandsUnder(stack)
      /\ ~Closed => Cardinality(Consumers) = pinned
      /\ Closed => size <= buffer
  BY GrantParts
<1>3. /\ Runs("push") /\ (Top.left = 0 \/ recvers = << >>)
      /\ UNCHANGED <<size, pinned, buffer, last_recver, recvers, fuel, setting>>
  BY DEF PushEnd
<1>4. /\ stack # << >> /\ Top \in Frame /\ Top.op = "push" /\ Top = Last(stack)
      /\ StackOK(Under, pc) /\ Under \in Seq(Frame) /\ Under # << >>
      /\ \E c \in Pushers : Last(Under) = Body(c)
  BY <1>1, <1>3, Loop DEF StackOK
<1>5. HandsUnder(Under)
  BY <1>2, <1>3, UnderLoop
<1>6. Same(stack, Under, "awake")
  <2>1. Same(stack, stack, "awake") /\ Last(stack).op # "awake"
    BY <1>1, <1>4, SameRefl
  <2> QED
    BY <1>4, <2>1, SameFront DEF Under
<1>7. Closed' <=> Closed
  BY <1>3 DEF Closed, ClosedBuffer
<1>8. RecversWait' <=> RecversWait
  BY <1>3 DEF RecversWait
<1>9. RecversServed'
  <2>1. ASSUME ~Closed, RecversWait PROVE size <= pinned
    <3>1. \/ size <= pinned
          \/ recvers # << >> /\ size <= pinned + Top.left
      BY <1>2, <2>1 DEF RecversServed
    <3> QED
      BY <1>2, <1>3, <3>1
  <2> QED
    BY <1>3, <1>7, <1>8, <2>1 DEF RecversServed
<1>10. SizeBounded(most)'
  BY <1>2, <1>3, SizeKept
<1>11. PICK c \in Pushers : Last(Under) = Body(c)
  BY <1>4
<1>12. c \in Cort /\ Body(c).op = "body" /\ Last(Under).cort = c
  BY <1>1, <1>11, BodyFrame
<1>13. ASSUME stack' = Under, pc' = pc, pinned' = pinned, size' = size,
              SlotFull', Calm
       PROVE  GrantInv(most)'
  <2>1. Consumers' = Consumers
    BY <1>13 DEF Consumers
  <2>2. RolesKept'
    BY <1>2, <1>3, <1>13 DEF RolesKept, Poppers, Pushers
  <2>3. TopHands'
    BY <1>11, <1>12, <1>13 DEF TopHands, Runs, Top
  <2>4. ClosedWoken'
    BY <1>2, <1>3, <1>6, <1>13, AwakeKept
  <2> QED
    BY <1>2, <1>3, <1>5, <1>7, <1>9, <1>10, <1>13, <2>1, <2>2, <2>3, <2>4, GrantNext
<1>14. CASE stack' = Under /\ UNCHANGED <<last_sender, senders, pc, also>>
  <2>1. Calm
    BY <1>3, <1>8, <1>14 DEF Calm, SendersWait
  <2>2. SlotFull'
    BY <1>2, <1>3, <1>7, <1>14 DEF SlotFull
  <2> QED
    BY <1>3, <1>13, <1>14, <2>1, <2>2
<1>15. CASE /\ size > buffer
            /\ senders' = Joined(senders, last_sender) /\ last_sender' = NoCort
            /\ stack' = Under /\ UNCHANGED <<pc, also>>
  <2>1. ~Closed
    BY <1>2, <1>15
  <2>2. Calm /\ SlotFull'
    BY <1>15, <2>1 DEF Calm, SlotFull
  <2> QED
    BY <1>3, <1>13, <1>15, <2>2
<1>16. CASE /\ size > buffer
            /\ senders' = Joined(senders, last_sender)
            /\ last_sender' = c
            /\ Suspend(c, "send")
            /\ stack' = Front(Under)
  <2>1. ~Closed
    BY <1>2, <1>16
  <2>2. Calm /\ SlotFull'
    BY <1>2, <1>3, <1>16, <2>1 DEF Calm, SlotFull
  <2>3. /\ "send" \in Pc /\ ~IsConsumer("send") /\ ~IsConsumer("next")
        /\ pc' = [pc EXCEPT ![c] = "send"]
    BY <1>16 DEF Pc, Waiting, IsConsumer, Suspend
  <2>4. pc[c] = "next"
    <3>1. MayPush(Under, pc)
      BY <1>1, <1>3, Loop
    <3> QED
      BY <1>4, <1>11, <1>12, <3>1 DEF MayPush
  <2>5. RolesKept'
    BY <1>2, <1>3, <1>11, <1>12, <2>3, RolesStep
  <2>6. ~Closed' => Cardinality(Consumers') = pinned'
    BY <1>1, <1>2, <1>3, <1>7, <1>12, <2>3, <2>4, ConsumersStep
  <2>7. HandsUnder(stack') /\ (Runs("push")' /\ Top'.left # 0 => Poppers = {c})
    BY <1>1, <1>4, <1>5, <1>11, <1>12, <1>16, Left
  <2>8. TopHands'
    <3>1. SUFFICES ASSUME Poppers = {c} PROVE recvers' = << >>
      BY <2>7 DEF TopHands
    <3>2. \A d \in Cort : pc[d] = "recv" => d = c
      BY <1>2, <3>1 DEF RolesKept
    <3>3. pc[c] # "recv"
      BY <2>4
    <3>4. recvers = << >>
      BY <1>1, <1>12, <3>2, <3>3, Alone
    <3> QED
      BY <1>3, <3>4
  <2>9. ClosedWoken'
    <3>1. Last(Under).op # "awake"
      BY <1>11, <1>12
    <3>2. Same(stack, Front(Under), "awake")
      BY <1>4, <1>6, <3>1, SameFront
    <3> QED
      BY <1>2, <1>3, <1>16, <2>2, <3>2, AwakeKept
  <2> QED
    BY <1>2, <1>3, <1>9, <1>10, <2>2, <2>5, <2>6, <2>7, <2>8, <2>9, GrantNext
<1>17. ~(size <= buffer) => size > buffer
  BY <1>2
<1> QED
  BY <1>12, <1>14, <1>15, <1>16, <1>17 DEF PushEnd

(* Steps of the other loops and calls leave objects and receivers alone.   *)
LEMMA CallMade ==
  ASSUME PlaceInv, MayCall
  PROVE  /\ stack # << >> => Last(stack).op = "body"
         /\ ~Runs("push")
  BY PlaceParts, TopRuns DEF MayCall, Runs

LEMMA CloseGrant ==
  ASSUME PlaceInv, PlaceInv', NEW most, Counts(most), GrantInv(most), Close
  PROVE  GrantInv(most)'
<1>1. stack \in Seq(Frame)
  BY PlaceParts
<1>2. /\ RolesKept /\ SizeBounded(most) /\ HandsUnder(stack)
      /\ most \in Nat /\ size \in Nat /\ pinned <= size
  BY GrantParts
<1>3. /\ MayCall /\ buffer' = ClosedBuffer /\ stack' = Append(stack, AwakeFrame)
      /\ UNCHANGED <<size, pinned, last_recver, recvers, last_sender, senders, pc, also, fuel, setting>>
  BY DEF Close
<1>4. stack # << >> => Last(stack).op = "body"
  BY <1>3, CallMade
<1>5. AwakeFrame \in Frame /\ AwakeFrame.op = "awake" /\ AwakeFrame.phase = "begin"
  BY NewFrames
<1>6. /\ Len(stack') = Len(stack) + 1 /\ Len(stack) \in Nat
      /\ stack'[Len(stack) + 1] = AwakeFrame /\ Last(stack') = AwakeFrame
  BY <1>1, <1>3, <1>5, Pushed
<1>7. HandsUnder(stack')
  BY <1>1, <1>2, <1>3, <1>4, <1>5, HandsAppend
<1>8. Closed'
  BY <1>3 DEF Closed, ClosedBuffer
<1>9. RolesKept'
  BY <1>2, <1>3 DEF RolesKept, Poppers, Pushers
<1>10. SizeBounded(most)'
  BY <1>2, <1>3, SizeKept
<1>11. TopHands' /\ RecversServed' /\ SlotFull'
  BY <1>5, <1>6, <1>8 DEF TopHands, RecversServed, SlotFull, Runs, Top
<1>12. ClosedWoken'
  <2>1. Len(stack') \in 1 .. Len(stack') /\ stack'[Len(stack')] = AwakeFrame
    BY <1>6
  <2> QED
    BY <1>5, <1>8, <2>1 DEF ClosedWoken
<1> QED
  BY <1>2, <1>3, <1>7, <1>8, <1>9, <1>10, <1>11, <1>12, GrantNext

(* A frame of awake_all that finds who waits.                              *)
Found(f, slot, queue, recver) ==
  /\ f.op = "awake"
  /\ f.phase # "begin" => slot = NoCort
  /\ f.phase = "recv" => queue = << >> /\ recver = NoCort

(* Nothing that a step of a closed channel does strands a waiter if the    *)
(* frames under the top stay and the top one finds as many as before.      *)
LEMMA ClosedStep ==
  ASSUME PlaceInv, NEW most, Counts(most), GrantInv(most), Runs("awake"), Calm,
         stack' \in Seq(Frame), HandsUnder(stack'), stack' # << >> => Last(stack').op # "push",
         \A i \in 1 .. Len(Under) : i \in 1 .. Len(stack') /\ stack'[i] = Under[i],
         Found(Top, last_sender, senders, last_recver) /\ (RecversWait' \/ SendersWait') =>
           \E i \in 1 .. Len(stack') : Found(stack'[i], last_sender', senders', last_recver'),
         RolesKept', pinned' <= size, UNCHANGED <<setting, size, buffer, fuel>>
  PROVE  GrantInv(most)'
<1>1. /\ ClosedWoken /\ SizeBounded(most) /\ most \in Nat /\ size \in Nat
  BY GrantParts
<1>2. /\ Len(stack) \in Nat /\ Len(stack) > 0 /\ Top = stack[Len(stack)] /\ Top.op = "awake"
      /\ Len(Under) = Len(stack) - 1
      /\ \A i \in 1 .. Len(stack) - 1 : Under[i] = stack[i]
  BY PlaceParts, Popped DEF Runs, Top, Under
<1>3. Closed /\ Closed'
  <2>1. Len(stack) \in 1 .. Len(stack)
    BY <1>2
  <2> QED
    BY <1>1, <1>2, <2>1 DEF ClosedWoken, Closed, ClosedBuffer
<1>4. ClosedWoken'
  <2>1. SUFFICES ASSUME RecversWait' \/ SendersWait'
                 PROVE  \E i \in 1 .. Len(stack') :
                          Found(stack'[i], last_sender', senders', last_recver')
    BY <1>3 DEF ClosedWoken, Found
  <2>2. PICK i \in 1 .. Len(stack) : Found(stack[i], last_sender, senders, last_recver)
    BY <1>1, <1>3, <2>1 DEF ClosedWoken, Found, Calm
  <2>3. CASE i = Len(stack)
    BY <1>2, <2>1, <2>2, <2>3
  <2>4. CASE i # Len(stack)
    <3>1. i \in 1 .. Len(stack) - 1 /\ i \in 1 .. Len(Under)
      BY <1>2, <2>4
    <3>2. i \in 1 .. Len(stack') /\ stack'[i] = stack[i]
      BY <1>2, <3>1
    <3>3. Found(stack[i], last_sender', senders', last_recver')
      BY <1>3, <2>2 DEF Found, Calm
    <3> QED
      BY <3>2, <3>3
  <2> QED
    BY <2>3, <2>4
<1>5. TopHands' /\ RecversServed' /\ SlotFull'
  BY <1>3 DEF TopHands, RecversServed, SlotFull, Runs, Top
<1>6. SizeBounded(most)'
  BY <1>1, SizeKept
<1> QED
  BY <1>3, <1>4, <1>5, <1>6, GrantNext

LEMMA AwakeTurned ==
  ASSUME PlaceInv, NEW most, Counts(most), GrantInv(most), Runs("awake"), Calm,
         NEW g \in Frame, g.op = "awake",
         Found(Top, last_sender, senders, last_recver) /\ (RecversWait' \/ SendersWait') =>
           Found(g, last_sender', senders', last_recver'),
         stack' = Append(Under, g) \/ \E c \in Cort : stack' = Append(Append(Under, g), Body(c)),
         RolesKept', pinned' <= size, UNCHANGED <<setting, size, buffer, fuel>>
  PROVE  GrantInv(most)'
<1> DEFINE fs == Append(Under, g)
<1>1. HandsUnder(stack)
  BY GrantParts
<1>2. HandsUnder(Under) /\ Under \in Seq(Frame) /\ (Under # << >> => Last(Under).op # "push")
  BY <1>1, UnderLoop
<1>3. /\ fs \in Seq(Frame) /\ fs # << >> /\ Last(fs) = g /\ Len(Under) \in Nat
      /\ Len(fs) = Len(Under) + 1 /\ fs[Len(Under) + 1] = g
      /\ \A i \in 1 .. Len(Under) : fs[i] = Under[i]
  BY <1>2, Pushed
<1>4. HandsUnder(fs)
  BY <1>2, HandsAppend
<1> HIDE DEF fs
<1>5. CASE stack' = fs
  <2>1. Len(stack') \in 1 .. Len(stack') /\ stack'[Len(stack')] = g
    BY <1>3, <1>5
  <2>2. \A i \in 1 .. Len(Under) : i \in 1 .. Len(stack') /\ stack'[i] = Under[i]
    BY <1>3, <1>5
  <2> QED
    BY <1>3, <1>4, <1>5, <2>1, <2>2, ClosedStep
<1>6. ASSUME NEW c \in Cort, stack' = Append(fs, Body(c))
      PROVE  GrantInv(most)'
  <2>1. Body(c) \in Frame /\ Body(c).op = "body"
    BY BodyFrame
  <2>2. /\ stack' \in Seq(Frame) /\ Last(stack') = Body(c) /\ Len(stack') = Len(fs) + 1
        /\ \A i \in 1 .. Len(fs) : stack'[i] = fs[i]
    BY <1>3, <1>6, <2>1, Pushed
  <2>3. HandsUnder(stack')
    BY <1>3, <1>4, <1>6, <2>1, HandsAppend
  <2>4. Len(fs) \in 1 .. Len(stack') /\ stack'[Len(fs)] = g
    BY <1>3, <2>2
  <2>5. \A i \in 1 .. Len(Under) : i \in 1 .. Len(stack') /\ stack'[i] = Under[i]
    BY <1>3, <2>2
  <2> QED
    BY <2>1, <2>2, <2>3, <2>4, <2>5, ClosedStep
<1> QED
  BY <1>5, <1>6 DEF fs

LEMMA JoinedFacts ==
  ASSUME NEW q \in Seq(Cort), NEW slot \in Cort \union {NoCort}
  PROVE  /\ Joined(q, slot) # << >> <=> q # << >> \/ slot # NoCort
         /\ q = << >> /\ slot = NoCort => Joined(q, slot) = << >>
  BY Pushed DEF Joined

LEMMA AwakeTurnsGrant ==
  ASSUME PlaceInv, PlaceInv', NEW most, Counts(most), GrantInv(most),
         AwakeBegin \/ AwakeTurn \/ AwakeEnd
  PROVE  GrantInv(most)'
<1>1. /\ recvers \in Seq(Cort) /\ senders \in Seq(Cort)
      /\ last_recver \in Cort \union {NoCort} /\ last_sender \in Cort \union {NoCort}
      /\ stack \in Seq(Frame)
  BY PlaceParts DEF ListOK
<1>2. RolesKept /\ pinned <= size /\ HandsUnder(stack)
  BY GrantParts
<1>3. /\ Runs("awake") /\ UNCHANGED <<size, pinned, buffer, pc, also, fuel, setting>>
  BY DEF AwakeBegin, AwakeTurn, AwakeEnd, channel
<1>4. RolesKept'
  BY <1>2, <1>3 DEF RolesKept, Poppers, Pushers
<1>5. /\ Top \in Frame /\ Top.op = "awake" /\ HandsUnder(Under) /\ Under \in Seq(Frame)
      /\ Under # << >> => Last(Under).op # "push"
  BY <1>1, <1>2, <1>3, UnderLoop, Popped DEF Runs, Top
<1>6. Top.recheck \in BOOLEAN
  BY <1>5, AwakeFrames
<1>7. CASE AwakeBegin
  <2> DEFINE g == [op |-> "awake", phase |-> "send", recheck |-> last_sender # NoCort]
  <2>1. /\ senders' = Joined(senders, last_sender) /\ last_sender' = NoCort
        /\ stack' = Append(Under, g) /\ UNCHANGED <<recvers, last_recver>>
    BY <1>7 DEF AwakeBegin
  <2>2. g \in Frame /\ g.op = "awake" /\ g.phase = "send"
    BY DEF Frame
  <2> HIDE DEF g
  <2>3. Calm
    BY <1>1, <2>1, JoinedFacts DEF Calm, RecversWait, SendersWait
  <2>4. Found(g, last_sender', senders', last_recver')
    BY <2>1, <2>2 DEF Found
  <2> QED
    BY <1>2, <1>3, <1>4, <2>1, <2>2, <2>3, <2>4, AwakeTurned
<1>8. CASE AwakeTurn
  <2> DEFINE g == [op |-> "awake", phase |-> "recv",
                   recheck |-> Top.recheck \/ last_recver # NoCort]
  <2>1. /\ recvers' = Joined(recvers, last_recver) /\ last_recver' = NoCort
        /\ stack' = Append(Under, g) /\ UNCHANGED <<senders, last_sender>>
        /\ Top.phase = "send" /\ senders = << >>
    BY <1>8 DEF AwakeTurn
  <2>2. g \in Frame /\ g.op = "awake" /\ g.phase = "recv"
    BY DEF Frame
  <2> HIDE DEF g
  <2>3. Calm
    BY <1>1, <2>1, JoinedFacts DEF Calm, RecversWait, SendersWait
  <2>4. Found(Top, last_sender, senders, last_recver) =>
          Found(g, last_sender', senders', last_recver')
    BY <2>1, <2>2 DEF Found
  <2> QED
    BY <1>2, <1>3, <1>4, <2>1, <2>2, <2>3, <2>4, AwakeTurned
<1>9. CASE AwakeEnd
  <2>1. /\ stack' = IF Top.recheck THEN Append(Under, AwakeFrame) ELSE Under
        /\ UNCHANGED <<recvers, last_recver, senders, last_sender>>
        /\ Top.phase = "recv" /\ recvers = << >>
    BY <1>9 DEF AwakeEnd, channel
  <2>2. Calm
    BY <2>1 DEF Calm, RecversWait, SendersWait
  <2>3. Found(Top, last_sender, senders, last_recver) => ~RecversWait' /\ ~SendersWait'
    BY <2>1 DEF Found, RecversWait, SendersWait
  <2>4. CASE stack' = Under
    BY <1>2, <1>3, <1>4, <1>5, <2>2, <2>3, <2>4, ClosedStep
  <2>5. CASE stack' = Append(Under, AwakeFrame)
    <3>1. AwakeFrame \in Frame /\ AwakeFrame.op = "awake"
      BY NewFrames
    <3> QED
      BY <1>2, <1>3, <1>4, <2>2, <2>3, <2>5, <3>1, AwakeTurned
  <2> QED
    BY <1>6, <2>1, <2>4, <2>5
<1> QED
  BY <1>7, <1>8, <1>9

LEMMA AwakeWakesGrant ==
  ASSUME PlaceInv, PlaceInv', NEW most, Counts(most), GrantInv(most),
         AwakeSender \/ AwakeRecver
  PROVE  GrantInv(most)'
<1>1. /\ recvers \in Seq(Cort) /\ senders \in Seq(Cort) /\ pc \in [Cort -> Pc]
      /\ ListOK(recvers, last_recver, pc, "recv") /\ ListOK(senders, last_sender, pc, "send")
      /\ stack \in Seq(Frame)
  BY PlaceParts DEF ListOK
<1>2. /\ RolesKept /\ pinned <= size /\ pinned \in Nat /\ size \in Nat
      /\ pinned < size => (pinned + 1) % SizeMod = pinned + 1
  BY GrantParts
<1>3. /\ Runs("awake") /\ UNCHANGED <<size, buffer, last_recver, last_sender, fuel, setting>>
  BY DEF AwakeSender, AwakeRecver
<1> DEFINE g == [Top EXCEPT !.recheck = TRUE]
<1>4. Top \in Frame /\ Top.op = "awake"
  BY <1>1, <1>3, Popped DEF Runs, Top
<1>5. g \in Frame /\ g.op = "awake" /\ g.phase = Top.phase
  BY <1>4, AwakeFrames
<1>6. PICK w : /\ Wake(w, Append(Under, g))
               /\ \/ w = Head(senders) /\ senders # << >> /\ senders' = Tail(senders)
                     /\ UNCHANGED <<recvers, pinned>>
                  \/ /\ w = Head(recvers) /\ recvers # << >> /\ recvers' = Tail(recvers)
                     /\ UNCHANGED senders /\ Top.phase = "recv"
                     /\ pinned' = IF HasObject THEN (pinned + 1) % SizeMod ELSE pinned
  BY DEF AwakeSender, AwakeRecver
<1> HIDE DEF g
<1>7. /\ w \in Cort
      /\ (pc[w] = "send" /\ w \in Pushers) \/ (pc[w] = "recv" /\ w \in Poppers)
  <2>1. "done" \in Pc /\ "done" # "recv" /\ "done" # "send"
    BY DEF Pc
  <2>2. CASE w = Head(senders) /\ senders # << >>
    <3>1. w \in Cort /\ pc[w] = "send"
      BY <1>1, <2>1, <2>2, ListHead
    <3> QED
      BY <1>2, <3>1 DEF RolesKept
  <2>3. CASE w = Head(recvers) /\ recvers # << >>
    <3>1. w \in Cort /\ pc[w] = "recv"
      BY <1>1, <2>1, <2>3, ListHead
    <3> QED
      BY <1>2, <3>1 DEF RolesKept
  <2> QED
    BY <1>6, <2>2, <2>3
<1>8. /\ stack' = Append(Under, g) \/ stack' = Append(Append(Under, g), Body(w))
      /\ \E v \in Pc : /\ pc' = [pc EXCEPT ![w] = v]
                       /\ pc[w] = "recv" => v \in {"consume", "heldrecv"}
                       /\ pc[w] = "send" => v \in {"next", "heldsend"}
  BY <1>1, <1>6, <1>7, WakeFacts DEF Waiting
<1>9. RolesKept'
  <2>1. PICK v \in Pc : /\ pc' = [pc EXCEPT ![w] = v]
                        /\ pc[w] = "recv" => v \in {"consume", "heldrecv"}
                        /\ pc[w] = "send" => v \in {"next", "heldsend"}
    BY <1>8
  <2>2. /\ v \in {"recv", "heldrecv", "consume"} => w \in Poppers
        /\ v \in {"send", "heldsend"} => w \in Pushers
    BY <1>7, <2>1
  <2> QED
    BY <1>2, <1>3, <1>7, <2>1, <2>2, RolesStep
<1>10. pinned' <= size
  BY <1>2, <1>6 DEF HasObject
<1>11. Calm
  BY <1>3, <1>6 DEF Calm, RecversWait, SendersWait
<1>12. Found(Top, last_sender, senders, last_recver) =>
         Found(g, last_sender', senders', last_recver')
  BY <1>3, <1>5, <1>6 DEF Found
<1> QED
  BY <1>3, <1>5, <1>7, <1>8, <1>9, <1>10, <1>11, <1>12, AwakeTurned

(* The loops and calls that wake senders leave objects and receivers alone. *)
LEMMA SendersOnly ==
  ASSUME PlaceInv, PlaceInv', NEW most, Counts(most), GrantInv(most),
         UNCHANGED <<setting, size, pinned, last_recver, recvers, fuel>>,
         Closed' <=> Closed, Calm, SlotFull', ~Runs("push"),
         Same(stack, stack', "awake"), HandsUnder(stack'),
         stack' # << >> => Last(stack').op # "push",
         \/ pc' = pc
         \/ \E w \in Cort, v \in {"next", "heldsend"} :
              pc[w] = "send" /\ pc' = [pc EXCEPT ![w] = v]
  PROVE  GrantInv(most)'
<1>1. /\ RolesKept /\ SizeBounded(most) /\ RecversServed /\ ClosedWoken
      /\ most \in Nat /\ size \in Nat /\ pinned <= size
      /\ ~Closed => Cardinality(Consumers) = pinned
  BY GrantParts
<1>2. pc \in [Cort -> Pc]
  BY PlaceParts
<1>3. RolesKept' /\ Cardinality(Consumers') = Cardinality(Consumers)
  <2>1. CASE pc' = pc
    BY <1>1, <2>1 DEF RolesKept, Consumers, Poppers, Pushers
  <2>2. ASSUME NEW w \in Cort, NEW v \in {"next", "heldsend"},
               pc[w] = "send", pc' = [pc EXCEPT ![w] = v]
        PROVE  RolesKept' /\ Cardinality(Consumers') = Cardinality(Consumers)
    <3>1. v \in Pc /\ ~IsConsumer(v) /\ ~IsConsumer(pc[w])
      BY <2>2 DEF Pc, Held, IsConsumer
    <3>2. w \in Pushers
      BY <1>1, <2>2 DEF RolesKept
    <3>3. v \notin {"recv", "heldrecv", "consume"}
      BY <2>2
    <3> QED
      BY <1>1, <1>2, <2>2, <3>1, <3>2, <3>3, RolesStep, ConsumersStep
  <2> QED
    BY <2>1, <2>2
<1>4. RecversServed'
  BY <1>1 DEF RecversServed, RecversWait
<1>5. ClosedWoken'
  <2>1. ASSUME NEW i \in 1 .. Len(stack'), stack'[i].op = "awake" PROVE Closed'
    <3>1. i \in 1 .. Len(stack) /\ stack[i].op = "awake"
      BY <2>1 DEF Same
    <3> QED
      BY <1>1, <3>1 DEF ClosedWoken
  <2>2. ASSUME Closed', RecversWait' \/ SendersWait'
        PROVE  \E i \in 1 .. Len(stack') :
                 Found(stack'[i], last_sender', senders', last_recver')
    <3>1. PICK i \in 1 .. Len(stack) : Found(stack[i], last_sender, senders, last_recver)
      BY <1>1, <2>2 DEF ClosedWoken, Found, Calm
    <3>2. i \in 1 .. Len(stack') /\ stack'[i] = stack[i]
      BY <3>1 DEF Same, Found
    <3>3. Found(stack[i], last_sender', senders', last_recver')
      BY <2>2, <3>1 DEF Found, Calm
    <3> QED
      BY <3>2, <3>3
  <2> QED
    BY <2>1, <2>2 DEF ClosedWoken, Found
<1>6. TopHands' /\ SizeBounded(most)'
  BY <1>1, SizeKept DEF TopHands, Runs, Top
<1> QED
  BY <1>1, <1>3, <1>4, <1>5, <1>6, GrantNext

(* A sender woken above frames of which the last is not a push.            *)
LEMMA SenderWoken ==
  ASSUME PlaceInv, NEW fs \in Seq(Frame), HandsUnder(fs), fs # << >>, Last(fs).op # "push",
         Same(stack, fs, "awake"), NEW w \in Cort, pc[w] = "send", Wake(w, fs)
  PROVE  /\ Same(stack, stack', "awake") /\ HandsUnder(stack')
         /\ stack' # << >> /\ Last(stack').op # "push"
         /\ \E v \in {"next", "heldsend"} : pc' = [pc EXCEPT ![w] = v]
<1>1. Body(w) \in Frame /\ Body(w).op = "body"
  BY BodyFrame
<1>2. /\ stack' = fs \/ stack' = Append(fs, Body(w))
      /\ \E v \in {"next", "heldsend"} : pc' = [pc EXCEPT ![w] = v]
  BY PlaceParts, WakeFacts DEF Waiting
<1>3. /\ HandsUnder(Append(fs, Body(w))) /\ Same(stack, Append(fs, Body(w)), "awake")
      /\ Append(fs, Body(w)) # << >> /\ Last(Append(fs, Body(w))) = Body(w)
  BY <1>1, HandsAppend, SameAppend, Pushed
<1> QED
  BY <1>1, <1>2, <1>3

LEMMA ResizeGrant ==
  ASSUME PlaceInv, PlaceInv', NEW most, Counts(most), GrantInv(most),
         ResizeWake \/ ResizeEnd
  PROVE  GrantInv(most)'
<1>1. /\ senders \in Seq(Cort) /\ pc \in [Cort -> Pc] /\ stack \in Seq(Frame)
      /\ ListOK(senders, last_sender, pc, "send")
  BY PlaceParts DEF ListOK
<1>2. SlotFull /\ HandsUnder(stack)
  BY GrantParts
<1>3. /\ Runs("resize")
      /\ UNCHANGED <<setting, size, pinned, buffer, last_recver, recvers, last_sender, fuel>>
  BY DEF ResizeWake, ResizeEnd, channel
<1>4. /\ stack # << >> /\ Top \in Frame /\ Top.op = "resize" /\ Top = Last(stack)
      /\ HandsUnder(Under) /\ Under \in Seq(Frame)
      /\ Under # << >> => Last(Under).op # "push"
  BY <1>1, <1>2, <1>3, UnderLoop, Popped DEF Runs, Top
<1>5. Same(stack, Under, "awake")
  <2>1. Same(stack, stack, "awake") /\ Last(stack).op # "awake"
    BY <1>1, <1>4, SameRefl
  <2> QED
    BY <1>4, <2>1, SameFront DEF Under
<1>6. ~Runs("push")
  BY <1>4 DEF Runs
<1>7. Closed' <=> Closed
  BY <1>3 DEF Closed, ClosedBuffer
<1>8. SlotFull'
  BY <1>2, <1>3, <1>7 DEF SlotFull
<1>9. CASE ResizeEnd
  <2>1. stack' = Under /\ pc' = pc /\ senders' = senders
    BY <1>9 DEF ResizeEnd, channel
  <2>2. Calm
    BY <1>3, <2>1 DEF Calm, RecversWait, SendersWait
  <2> QED
    BY <1>3, <1>4, <1>5, <1>6, <1>7, <1>8, <2>1, <2>2, SendersOnly
<1>10. CASE ResizeWake
  <2> DEFINE g == [Top EXCEPT !.left = @ - 1]
             w == Head(senders)
             fs == Append(Under, g)
  <2>1. Top.left # 0 /\ senders # << >> /\ senders' = Tail(senders) /\ Wake(w, fs)
    BY <1>10 DEF ResizeWake
  <2>2. g \in Frame /\ g.op = "resize"
    BY <1>4, <2>1, ResizeFrame
  <2>3. w \in Cort /\ pc[w] = "send"
    <3>1. "done" \in Pc /\ "done" # "send"
      BY DEF Pc
    <3> QED
      BY <1>1, <2>1, <3>1, ListHead
  <2> HIDE DEF g, w
  <2>4. /\ fs \in Seq(Frame) /\ fs # << >> /\ Last(fs) = g /\ HandsUnder(fs)
        /\ Same(stack, fs, "awake")
    BY <1>4, <1>5, <2>2, Pushed, HandsAppend, SameAppend
  <2> HIDE DEF fs
  <2>5. /\ Same(stack, stack', "awake") /\ HandsUnder(stack')
        /\ stack' # << >> /\ Last(stack').op # "push"
        /\ \E v \in {"next", "heldsend"} : pc' = [pc EXCEPT ![w] = v]
    BY <2>1, <2>2, <2>3, <2>4, SenderWoken
  <2>6. Calm
    BY <1>3, <2>1 DEF Calm, RecversWait, SendersWait
  <2> QED
    BY <1>3, <1>6, <1>7, <1>8, <2>3, <2>5, <2>6, SendersOnly
<1> QED
  BY <1>9, <1>10

LEMMA SetBufferGrant ==
  ASSUME PlaceInv, PlaceInv', NEW most, Counts(most), GrantInv(most),
         NEW b \in Buffers, SetBufferSize(b)
  PROVE  GrantInv(most)'
<1>1. /\ pc \in [Cort -> Pc] /\ stack \in Seq(Frame) /\ last_sender \in Cort \union {NoCort}
      /\ ListOK(senders, last_sender, pc, "send") /\ Scalars
      /\ b \in 0 .. SizeMod - 3 /\ SizeMod \in Nat
  BY PlaceParts, SettingFacts DEF ListOK, Scalars
<1>2. SlotFull /\ HandsUnder(stack) /\ buffer \in Nat /\ size \in Nat
  BY GrantParts
<1>3. /\ MayCall /\ ~Closed /\ b # buffer /\ buffer' = b
      /\ UNCHANGED <<setting, size, pinned, last_recver, recvers, senders, fuel>>
  BY DEF SetBufferSize
<1>4. ~Closed'
  BY <1>1, <1>3 DEF Closed, ClosedBuffer
<1>5. Calm
  BY <1>3 DEF Calm
<1>6. /\ stack # << >> => Last(stack).op = "body"
      /\ ~Runs("push")
  BY <1>3, CallMade
<1>7. Grown(b) \in Nat /\ (Grown(b) = 0 => b < buffer)
  BY <1>1, <1>2, <1>3 DEF Grown
<1>8. ASSUME NEW k \in Nat
      PROVE  LET f == [op |-> "resize", left |-> k]
                 fs == Append(stack, f)
             IN /\ fs \in Seq(Frame) /\ fs # << >> /\ Last(fs).op # "push"
                /\ HandsUnder(fs) /\ Same(stack, fs, "awake")
  <2> DEFINE f == [op |-> "resize", left |-> k]
  <2>1. f \in Frame /\ f.op = "resize"
    BY <1>8, NewFrames
  <2> HIDE DEF f
  <2>2. Same(stack, stack, "awake")
    BY <1>1, SameRefl
  <2>3. LET fs == Append(stack, f) IN
        /\ fs \in Seq(Frame) /\ fs # << >> /\ Last(fs).op # "push"
        /\ HandsUnder(fs) /\ Same(stack, fs, "awake")
    BY <1>1, <1>2, <1>6, <2>1, <2>2, Pushed, HandsAppend, SameAppend
  <2> QED
    BY <2>3 DEF f
<1>9. CASE Grown(b) > 0 /\ last_sender # NoCort
  <2> DEFINE fs == Append(stack, [op |-> "resize", left |-> Grown(b) - 1])
  <2>1. last_sender' = NoCort /\ Wake(last_sender, fs)
    BY <1>9 DEF SetBufferSize
  <2>2. Grown(b) - 1 \in Nat
    BY <1>7, <1>9
  <2>3. fs \in Seq(Frame) /\ fs # << >> /\ Last(fs).op # "push"
        /\ HandsUnder(fs) /\ Same(stack, fs, "awake")
    BY <1>8, <2>2
  <2> HIDE DEF fs
  <2>4. last_sender \in Cort /\ pc[last_sender] = "send"
    BY <1>1, <1>9 DEF ListOK
  <2>5. /\ Same(stack, stack', "awake") /\ HandsUnder(stack')
        /\ stack' # << >> /\ Last(stack').op # "push"
        /\ \E v \in {"next", "heldsend"} : pc' = [pc EXCEPT ![last_sender] = v]
    BY <2>1, <2>3, <2>4, SenderWoken
  <2>6. SlotFull'
    BY <2>1 DEF SlotFull
  <2> QED
    BY <1>3, <1>4, <1>5, <1>6, <2>4, <2>5, <2>6, SendersOnly
<1>10. CASE ~(Grown(b) > 0 /\ last_sender # NoCort)
  <2>1. /\ stack' = Append(stack, [op |-> "resize", left |-> Grown(b)])
        /\ UNCHANGED <<last_sender, pc, also>>
    BY <1>10 DEF SetBufferSize
  <2>2. SlotFull'
    BY <1>1, <1>2, <1>3, <1>7, <1>10, <2>1 DEF SlotFull
  <2> QED
    BY <1>3, <1>4, <1>5, <1>6, <1>7, <1>8, <2>1, <2>2, SendersOnly
<1> QED
  BY <1>9, <1>10

LEMMA InitGrant ==
  ASSUME NEW most, Counts(most), Init
  PROVE  GrantInv(most)
<1>1. PlaceInv /\ most \in Nat
  BY InitPlace DEF Counts
<1>2. \A c \in Cort : pc[c] = "idle"
  BY DEF Init
<1>3. RolesKept
  BY <1>2 DEF RolesKept
<1>4. Consumers = {}
  BY <1>2 DEF Consumers
<1>5. Cardinality(Consumers) = 0 /\ size = 0 /\ pinned = 0
  BY <1>4, FS_EmptySet DEF Init
<1>6. SizeBounded(most)
  <2>1. Fuel \in Nat /\ \A c \in Cort : fuel[c] = Fuel
    BY ChannelAssumption DEF ChannelAssumption, Init
  <2>2. \A u : u \in Units <=> u \in Cort \X (1 .. Fuel)
    BY <2>1 DEF Units
  <2>3. Units = Cort \X (1 .. Fuel)
    BY <2>2
  <2>4. Cardinality(Cort \X (1 .. Fuel)) \in Nat
    BY <1>1, UnitsSpent
  <2>5. most * Cardinality(Cort \X (1 .. Fuel)) \in Nat
    BY <1>1, <2>4
  <2> QED
    BY <1>5, <2>3, <2>5 DEF SizeBounded
<1>7. Len(stack) = 0 /\ stack = << >>
  BY DEF Init
<1>8. ~Closed
  <2>1. buffer \in 0 .. SizeMod - 3 /\ SizeMod \in Nat
    BY <1>1, PlaceParts, SettingFacts DEF Init, Scalars
  <2> QED
    BY <2>1 DEF Closed, ClosedBuffer
<1>9. HandsOut /\ RecversServed /\ ClosedWoken /\ SlotFull
  BY <1>7, <1>8 DEF Init, HandsOut, HandsUnder, RecversServed, RecversWait, ClosedWoken,
                    SlotFull, Runs
<1> QED
  BY <1>3, <1>5, <1>6, <1>9 DEF GrantInv, GrantsBacked

LEMMA NextGrant ==
  ASSUME NEW most, Disciplined, Counts(most), PlaceInv, PlaceInv', GrantInv(most), [Next]_vars
  PROVE  GrantInv(most)'
<1>1. Pushers \subseteq Cort /\ Poppers \subseteq Cort
  BY PlaceParts, SettingFacts DEF Scalars
<1>2. CASE UNCHANGED vars
  <2>1. /\ RolesKept /\ SizeBounded(most) /\ GrantsBacked /\ HandsOut
        /\ RecversServed /\ ClosedWoken /\ SlotFull
    BY GrantParts
  <2>2. Consumers' = Consumers /\ Units' = Units
    BY <1>2 DEF vars, Consumers, Units
  <2>3. RolesKept' /\ SizeBounded(most)' /\ GrantsBacked'
    BY <1>2, <2>1, <2>2 DEF vars, RolesKept, SizeBounded, GrantsBacked, Poppers, Pushers,
                            Closed, ClosedBuffer
  <2>4. HandsOut' /\ RecversServed' /\ ClosedWoken' /\ SlotFull'
    BY <1>2, <2>1 DEF vars, HandsOut, HandsUnder, RecversServed, RecversWait, SendersWait,
                      ClosedWoken, SlotFull, Closed, ClosedBuffer, Runs, Top, Deltas, Poppers
  <2> QED
    BY <2>3, <2>4 DEF GrantInv
<1>3. ASSUME NEW c \in Pushers \union Poppers, Start(c) \/ Finish(c) \/ OtherDone(c)
      PROVE  GrantInv(most)'
  BY <1>1, <1>3, BodiesGrant
<1>4. ASSUME NEW c \in Poppers, WaitPopable(c) \/ GetNull(c) \/ Pop(c)
      PROVE  GrantInv(most)'
  BY <1>1, <1>4, BodiesGrant, WaitPopableGrant, PopGrant
<1>5. ASSUME NEW c \in Pushers, NEW k \in Deltas, Push(c, k) \/ TryPush(c, k)
      PROVE  GrantInv(most)'
  <2>1. /\ AtBody(c) /\ pc[c] = "next" /\ Spend(c)
        /\ UNCHANGED <<size, recvers, last_recver, stack>> \/ Produce(k, TRUE) \/ Produce(k, FALSE)
        /\ UNCHANGED <<pinned, buffer, last_sender, senders, pc, also, setting>>
    BY <1>5 DEF Push, TryPush
  <2> QED
    BY <1>1, <2>1, ProduceGrant
<1>6. ASSUME NEW b \in Buffers, SetBufferSize(b)
      PROVE  GrantInv(most)'
  BY <1>6, SetBufferGrant
<1> QED
  BY <1>2, <1>3, <1>4, <1>5, <1>6, PushWakeGrant, PushEndGrant, AwakeTurnsGrant,
     AwakeWakesGrant, ResizeGrant, CloseGrant DEF Next, Use

LEMMA NobodyStranded ==
  ASSUME PlaceInv, NEW most, Counts(most), GrantInv(most)
  PROVE  NoRecverStranded
<1>1. SUFFICES ASSUME stack = << >>, WaitingRecvers # {}
               PROVE  size <= Cardinality(Consumers)
  BY DEF NoRecverStranded
<1>2. /\ RecversServed /\ ClosedWoken
      /\ ~Closed => Cardinality(Consumers) = pinned
  BY GrantParts
<1>3. RecversWait
  <2>1. recvers \in Seq(Cort) /\ last_recver \in Cort \union {NoCort}
    BY PlaceParts DEF ListOK
  <2>2. Range(<< >>) = {}
    BY DEF Range
  <2> QED
    BY <1>1, <2>1, <2>2, JoinedFacts DEF WaitingRecvers, RecversWait
<1>4. ~Closed
  BY <1>1, <1>2, <1>3 DEF ClosedWoken
<1> QED
  BY <1>1, <1>2, <1>3, <1>4 DEF RecversServed, Runs

(* In a program that respects what the channel requires, no count wraps    *)
(* around, and the invariant holds of any number of coroutines and calls.  *)
LEMMA GrantsKept ==
  ASSUME NEW most, Disciplined, Counts(most)
  PROVE  Spec => [](PlaceInv /\ GrantInv(most))
<1> DEFINE Inv == PlaceInv /\ GrantInv(most)
<1>1. Init => Inv
  BY InitPlace, InitGrant
<1>2. Inv /\ [Next]_vars => Inv'
  <2>1. SUFFICES ASSUME Inv, [Next]_vars PROVE Inv'
    OBVIOUS
  <2>2. PlaceInv'
    BY <2>1, NextPlace
  <2> QED
    BY <2>1, <2>2, NextGrant
<1> HIDE DEF Inv
<1>3. Spec => []Inv
  BY <1>1, <1>2, PTL DEF Spec
<1> QED
  BY <1>3 DEF Inv

(* Each coroutine that came back from wait_popable owns a pinned object,   *)
(* however the pushes, pops, wakeups and resizes nest.                     *)
THEOREM GrantsHold ==
  ASSUME NEW most, Disciplined, Counts(most)
  PROVE  Spec => []GrantsBacked
<1>1. PlaceInv /\ GrantInv(most) => GrantsBacked
  BY DEF GrantInv
<1>2. Spec => [](PlaceInv /\ GrantInv(most))
  BY GrantsKept
<1> QED
  BY <1>1, <1>2, PTL

(* No receiver waits, with control back in main, while an object is there  *)
(* that nobody has pinned.                                                 *)
THEOREM RecversServedHolds ==
  ASSUME NEW most, Disciplined, Counts(most)
  PROVE  Spec => []NoRecverStranded
<1>1. PlaceInv /\ GrantInv(most) => NoRecverStranded
  BY NobodyStranded
<1>2. Spec => [](PlaceInv /\ GrantInv(most))
  BY GrantsKept
<1> QED
  BY <1>1, <1>2, PTL

------------------------------------------------------------------------------
(* Room in the buffer.                                                     *)

LEMMA CountTo == \A n \in Nat : IsFiniteSet(1 .. n) /\ Cardinality(1 .. n) = n
  BY FS_Interval

LEMMA OwedFinite ==
  ASSUME NEW stk \in Seq(Frame)
  PROVE  IsFiniteSet(Owed(stk)) /\ Cardinality(Owed(stk)) \in Nat
<1> DEFINE I == {j \in 1 .. Len(stk) : stk[j].op = "resize"}
           f == [i \in I |-> {i} \X (1 .. stk[i].left)]
           T == {{i} \X (1 .. stk[i].left) : i \in I}
<1>1. Owed(stk) = UNION T
  BY DEF Owed
<1>2. Len(stk) \in Nat /\ \A i \in 1 .. Len(stk) : stk[i] \in Frame
  OBVIOUS
<1>3. IsFiniteSet(I)
  <2>1. IsFiniteSet(1 .. Len(stk))
    BY <1>2, FS_Interval
  <2> QED
    BY <2>1, FS_Subset
<1>4. \A i \in I : IsFiniteSet({i} \X (1 .. stk[i].left))
  <2>1. SUFFICES ASSUME NEW i \in I PROVE IsFiniteSet({i} \X (1 .. stk[i].left))
    OBVIOUS
  <2>2. stk[i].left \in Nat
    BY <1>2, <2>1, ResizeFrame
  <2>3. IsFiniteSet({i})
    BY FS_Singleton
  <2>4. IsFiniteSet(1 .. stk[i].left)
    BY <2>2, CountTo
  <2> QED
    BY <2>3, <2>4, FS_Product
<1>5. f \in Surjection(I, T)
  BY DEF Surjection
<1>6. IsFiniteSet(T)
  BY <1>3, <1>5, FS_Surjection
<1> HIDE DEF f
<1>7. \A t \in T : IsFiniteSet(t)
  BY <1>4
<1> HIDE DEF T
<1>8. IsFiniteSet(Owed(stk))
  BY <1>1, <1>6, <1>7, FS_UNION
<1> QED
  BY <1>8, FS_CardinalityType

(* The senders that a frame put on the stack is to wake.                   *)
Due(f) == IF f.op = "resize" THEN f.left ELSE 0

LEMMA OwedAppend ==
  ASSUME NEW stk \in Seq(Frame), NEW f \in Frame
  PROVE  /\ Due(f) \in Nat
         /\ Cardinality(Owed(Append(stk, f))) = Cardinality(Owed(stk)) + Due(f)
<1> DEFINE s == Append(stk, f)
           new == {Len(stk) + 1} \X (1 .. Due(f))
<1>1. /\ s \in Seq(Frame) /\ Len(stk) \in Nat /\ Len(s) = Len(stk) + 1
      /\ \A i \in 1 .. Len(stk) : s[i] = stk[i]
      /\ s[Len(stk) + 1] = f
  BY Pushed
<1>2. Due(f) \in Nat
  BY ResizeFrame DEF Due
<1> HIDE DEF s
<1>3. Owed(s) = Owed(stk) \union new
  <2>1. ASSUME NEW u
        PROVE  u \in Owed(s) <=>
                 \E i \in 1 .. Len(s) : s[i].op = "resize" /\ u \in {i} \X (1 .. s[i].left)
    BY DEF Owed
  <2>2. ASSUME NEW u
        PROVE  u \in Owed(stk) <=>
                 \E i \in 1 .. Len(stk) : stk[i].op = "resize" /\ u \in {i} \X (1 .. stk[i].left)
    BY DEF Owed
  <2>3. \A i \in 1 .. Len(s) : i \in 1 .. Len(stk) \/ i = Len(stk) + 1
    BY <1>1
  <2>4. \A i \in 1 .. Len(stk) : i \in 1 .. Len(s)
    BY <1>1
  <2>5. Len(stk) + 1 \in 1 .. Len(s)
    BY <1>1
  <2>6. ASSUME NEW u PROVE u \in new <=> f.op = "resize" /\ u \in {Len(stk) + 1} \X (1 .. f.left)
    <3>1. CASE f.op = "resize"
      BY <3>1 DEF Due
    <3>2. CASE f.op # "resize"
      <4>1. 1 .. Due(f) = {}
        BY <3>2 DEF Due
      <4> QED
        BY <3>2, <4>1
    <3> QED
      BY <3>1, <3>2
  <2> HIDE DEF new
  <2>7. ASSUME NEW u \in Owed(s) PROVE u \in Owed(stk) \union new
    BY <1>1, <2>1, <2>2, <2>3, <2>6, <2>7
  <2>8. ASSUME NEW u \in Owed(stk) PROVE u \in Owed(s)
    BY <1>1, <2>1, <2>2, <2>4, <2>8
  <2>9. ASSUME NEW u \in new PROVE u \in Owed(s)
    BY <1>1, <2>1, <2>5, <2>6, <2>9
  <2> QED
    BY <2>7, <2>8, <2>9
<1>4. Owed(stk) \cap new = {}
  <2>1. ASSUME NEW u \in Owed(stk), u \in new PROVE FALSE
    <3>1. PICK i \in 1 .. Len(stk) : u \in {i} \X (1 .. stk[i].left)
      BY <2>1 DEF Owed
    <3>2. u[1] = i /\ u[1] = Len(stk) + 1
      BY <2>1, <3>1
    <3> QED
      BY <1>1, <3>2
  <2> QED
    BY <2>1
<1>5. IsFiniteSet(new) /\ Cardinality(new) = Due(f)
  <2>1. IsFiniteSet({Len(stk) + 1}) /\ Cardinality({Len(stk) + 1}) = 1
    BY FS_Singleton
  <2>2. IsFiniteSet(1 .. Due(f)) /\ Cardinality(1 .. Due(f)) = Due(f)
    BY <1>2, FS_Interval
  <2>3. /\ IsFiniteSet({Len(stk) + 1} \X (1 .. Due(f)))
        /\ Cardinality({Len(stk) + 1} \X (1 .. Due(f))) =
             Cardinality({Len(stk) + 1}) * Cardinality(1 .. Due(f))
    BY ONLY <2>1, <2>2, FS_Product
  <2>4. IsFiniteSet(new) /\ Cardinality(new) = 1 * Due(f)
    BY ONLY <2>1, <2>2, <2>3
  <2> QED
    BY ONLY <1>2, <2>4
<1> HIDE DEF new
<1>6. IsFiniteSet(Owed(stk)) /\ Cardinality(Owed(stk)) \in Nat
  BY OwedFinite
<1>7. Cardinality(Owed(s)) = Cardinality(Owed(stk)) + Cardinality(new) - Cardinality({})
  BY <1>3, <1>4, <1>5, <1>6, FS_Union
<1> QED
  BY <1>2, <1>5, <1>6, <1>7, FS_EmptySet DEF s

LEMMA OwedFront ==
  ASSUME NEW stk \in Seq(Frame), stk # << >>
  PROVE  /\ Due(Last(stk)) \in Nat
         /\ Cardinality(Owed(stk)) = Cardinality(Owed(Front(stk))) + Due(Last(stk))
<1>1. Front(stk) \in Seq(Frame) /\ Last(stk) \in Frame
  BY Popped
<1>2. stk = Append(Front(stk), Last(stk))
  BY Popped DEF Front, Last
<1> QED
  BY <1>1, <1>2, OwedAppend

(* The consumer p runs above another frame, and nothing but set_buffer_size *)
(* is above it.                                                            *)
High(p, stk) == \E i \in 2 .. Len(stk) : stk[i] = Body(p)
Quiet(p, stk) ==
  \A i \in 2 .. Len(stk) : stk[i] = Body(p) =>
    \A j \in i + 1 .. Len(stk) : stk[j].op = "resize"

RoomFor(p) ==
  /\ SendersWait =>
       SendersCount + PushesAwaited <= size - buffer + Cardinality(Owed(stack))
  /\ pc[p] = "recv" => ~SendersWait
  /\ High(p, stack) => ~SendersWait
  /\ Quiet(p, stack)

LEMMA RoomIs ==
  /\ RoomInv <=> (~Closed => \A p \in Cort \ Pushers : Poppers = {p} => RoomFor(p))
  /\ RoomInv' <=> (~Closed' => \A p \in Cort \ Pushers' : Poppers' = {p} => RoomFor(p)')
  BY DEF RoomInv, RoomFor, High, Quiet

LEMMA QuietAppend ==
  ASSUME NEW p \in Cort, NEW stk \in Seq(Frame), Quiet(p, stk), NEW f \in Frame,
         f.op = "resize" \/ ~High(p, stk)
  PROVE  /\ Quiet(p, Append(stk, f))
         /\ High(p, Append(stk, f)) => High(p, stk) \/ (f = Body(p) /\ stk # << >>)
<1> DEFINE s == Append(stk, f)
<1>1. /\ s \in Seq(Frame) /\ Len(stk) \in Nat /\ Len(s) = Len(stk) + 1
      /\ \A i \in 1 .. Len(stk) : s[i] = stk[i]
      /\ s[Len(stk) + 1] = f
  BY Pushed
<1> HIDE DEF s
<1>2. Quiet(p, s)
  <2>1. SUFFICES ASSUME NEW i \in 2 .. Len(s), s[i] = Body(p), NEW j \in i + 1 .. Len(s)
                 PROVE  s[j].op = "resize"
    BY DEF Quiet
  <2>2. i \in 2 .. Len(stk) /\ stk[i] = Body(p) /\ (j = Len(stk) + 1 \/ j \in i + 1 .. Len(stk))
    BY <1>1, <2>1
  <2>3. f.op = "resize"
    BY <2>2 DEF High
  <2>4. CASE j = Len(stk) + 1
    BY <1>1, <2>3, <2>4
  <2>5. CASE j \in i + 1 .. Len(stk)
    <3>1. stk[j].op = "resize" /\ j \in 1 .. Len(stk)
      BY <2>2, <2>5 DEF Quiet
    <3> QED
      BY <1>1, <3>1
  <2> QED
    BY <2>2, <2>4, <2>5
<1>3. ASSUME High(p, s) PROVE High(p, stk) \/ (f = Body(p) /\ stk # << >>)
  <2>1. PICK i \in 2 .. Len(s) : s[i] = Body(p)
    BY <1>3 DEF High
  <2>2. i = Len(stk) + 1 \/ (i \in 2 .. Len(stk) /\ stk[i] = Body(p))
    BY <1>1, <2>1
  <2>3. i = Len(stk) + 1 => stk # << >>
    <3>1. Len(<< >>) = 0
      OBVIOUS
    <3> QED
      BY <2>1, <3>1
  <2> QED
    BY <1>1, <2>1, <2>2, <2>3 DEF High
<1> QED
  BY <1>2, <1>3 DEF s

LEMMA QuietFront ==
  ASSUME NEW p \in Cort, NEW stk \in Seq(Frame), Quiet(p, stk), stk # << >>
  PROVE  /\ Quiet(p, Front(stk))
         /\ High(p, Front(stk)) => High(p, stk) /\ Last(stk).op = "resize"
         /\ High(p, stk) => Last(stk) = Body(p) \/ Last(stk).op = "resize"
<1> DEFINE s == Front(stk)
<1>1. /\ s \in Seq(Frame) /\ Len(stk) \in Nat /\ Len(stk) > 0 /\ Len(s) = Len(stk) - 1
      /\ \A i \in 1 .. Len(stk) - 1 : s[i] = stk[i]
      /\ Last(stk) = stk[Len(stk)]
  BY Popped
<1> HIDE DEF s
<1>2. \A i \in 2 .. Len(s) : i \in 2 .. Len(stk) /\ s[i] = stk[i] /\ Len(stk) \in i + 1 .. Len(stk)
  BY <1>1
<1>3. \A i \in 2 .. Len(s) : \A j \in i + 1 .. Len(s) : j \in i + 1 .. Len(stk) /\ s[j] = stk[j]
  BY <1>1
<1>4. Quiet(p, s)
  BY <1>2, <1>3 DEF Quiet
<1>5. High(p, s) => High(p, stk) /\ Last(stk).op = "resize"
  BY <1>1, <1>2 DEF High, Quiet
<1>6. ASSUME High(p, stk) PROVE Last(stk) = Body(p) \/ Last(stk).op = "resize"
  <2>1. PICK i \in 2 .. Len(stk) : stk[i] = Body(p)
    BY <1>6 DEF High
  <2>2. i = Len(stk) \/ Len(stk) \in i + 1 .. Len(stk)
    BY <1>1, <2>1
  <2> QED
    BY <1>1, <2>1, <2>2 DEF Quiet
<1> QED
  BY <1>4, <1>5, <1>6 DEF s

LEMMA CountFacts ==
  ASSUME PlaceInv
  PROVE  /\ SendersCount \in Nat /\ (SendersWait <=> SendersCount # 0)
         /\ senders \in Seq(Cort) /\ last_sender \in Cort \union {NoCort}
         /\ Len(senders) \in Nat
         /\ senders # << >> => Len(Tail(senders)) = Len(senders) - 1
         /\ Len(Joined(senders, last_sender)) = SendersCount
         /\ PushesAwaited \in {0, 1} /\ (~Runs("push") => PushesAwaited = 0)
         /\ Cardinality(Owed(stack)) \in Nat
<1>1. senders \in Seq(Cort) /\ last_sender \in Cort \union {NoCort} /\ stack \in Seq(Frame)
  BY PlaceParts DEF ListOK
<1>2. Len(senders) \in Nat /\ (senders = << >> <=> Len(senders) = 0)
  BY <1>1, EmptySeq
<1>3. SendersCount \in Nat /\ (SendersWait <=> SendersCount # 0)
  BY <1>2 DEF SendersCount, SendersWait
<1>4. Len(Joined(senders, last_sender)) = SendersCount
  BY <1>1, <1>2, Pushed DEF Joined, SendersCount
<1>5. senders # << >> => Len(Tail(senders)) = Len(senders) - 1
  BY <1>1
<1> QED
  BY <1>1, <1>2, <1>3, <1>4, <1>5, OwedFinite DEF PushesAwaited

(* An open channel with the one consumer p.                                *)
Room(most, p) ==
  /\ PlaceInv /\ GrantInv(most) /\ ~Closed
  /\ Poppers = {p} /\ p \notin Pushers
  /\ RoomFor(p)

LEMMA RoomParts ==
  ASSUME NEW most, Counts(most), NEW p \in Cort, Room(most, p)
  PROVE  /\ PlaceInv /\ RoomFor(p) /\ Poppers = {p} /\ p \notin Pushers
         /\ pc \in [Cort -> Pc] /\ stack \in Seq(Frame)
         /\ size \in Nat /\ buffer \in Nat /\ pinned \in Nat /\ pinned <= size
         /\ HandsUnder(stack) /\ RecversServed /\ SlotFull
         /\ Poppers \subseteq Cort /\ Pushers \subseteq Cort
         /\ ~IsConsumer(pc[p]) => pinned = 0
         /\ \A c \in Cort : pc[c] = "send" => c # p
         /\ \A c \in Cort : pc[c] = "recv" => c = p
<1>1. PlaceInv /\ GrantInv(most) /\ ~Closed /\ Poppers = {p} /\ p \notin Pushers
  BY DEF Room
<1>2. /\ RolesKept /\ HandsUnder(stack) /\ Cardinality(Consumers) = pinned
      /\ size \in Nat /\ buffer \in Nat /\ pinned \in Nat /\ pinned <= size
      /\ RecversServed /\ SlotFull
  BY <1>1, GrantParts
<1>3. ASSUME ~IsConsumer(pc[p]) PROVE pinned = 0
  <2>1. Consumers = {}
    BY <1>1, <1>2, <1>3 DEF Consumers, IsConsumer, RolesKept
  <2> QED
    BY <1>2, <2>1, FS_EmptySet
<1>4. /\ \A c \in Cort : pc[c] = "send" => c # p
      /\ \A c \in Cort : pc[c] = "recv" => c = p
  BY <1>1, <1>2 DEF RolesKept
<1> QED
  BY <1>1, <1>2, <1>3, <1>4, PlaceParts, SettingFacts DEF Scalars, Room

(* A body enters or leaves, and no sender comes or goes.                   *)
LEMMA BodiesRoom ==
  ASSUME NEW most, Counts(most), NEW p \in Cort, Room(most, p),
         NEW c \in Cort, Start(c) \/ Finish(c) \/ OtherDone(c) \/ GetNull(c)
  PROVE  RoomFor(p)'
<1>1. /\ PlaceInv /\ RoomFor(p) /\ Poppers = {p} /\ pc \in [Cort -> Pc] /\ stack \in Seq(Frame)
      /\ HandsUnder(stack) /\ Poppers \subseteq Cort
      /\ size \in Nat /\ buffer \in Nat
  BY RoomParts
<1>2. /\ SendersCount \in Nat /\ PushesAwaited \in {0, 1} /\ Cardinality(Owed(stack)) \in Nat
      /\ ~Runs("push") => PushesAwaited = 0
  BY <1>1, CountFacts
<1>3. UNCHANGED <<size, buffer, senders, last_sender>>
  BY DEF Start, Finish, OtherDone, GetNull, channel
<1>4. /\ SendersWait' <=> SendersWait
      /\ SendersCount' = SendersCount
  BY <1>3 DEF SendersWait, SendersCount
<1>5. pc'[p] = "recv" => pc[p] = "recv"
  BY <1>1 DEF Start, Finish, OtherDone, GetNull, Held
<1>6. /\ SendersWait => SendersCount + PushesAwaited <= size - buffer + Cardinality(Owed(stack))
      /\ pc[p] = "recv" => ~SendersWait
      /\ High(p, stack) => ~SendersWait
      /\ Quiet(p, stack)
  BY <1>1 DEF RoomFor
<1>7. ASSUME Cardinality(Owed(stack')) = Cardinality(Owed(stack)),
             SendersWait => PushesAwaited' <= PushesAwaited /\ PushesAwaited' \in Nat,
             High(p, stack') => ~SendersWait, Quiet(p, stack')
      PROVE  RoomFor(p)'
  <2>1. SendersWait' => SendersCount' + PushesAwaited' <= size' - buffer' + Cardinality(Owed(stack'))
    <3>1. SUFFICES ASSUME SendersWait'
                   PROVE  SendersCount' + PushesAwaited' <= size' - buffer' + Cardinality(Owed(stack'))
      OBVIOUS
    <3>2. /\ PushesAwaited' <= PushesAwaited /\ PushesAwaited' \in Nat
          /\ SendersCount + PushesAwaited <= size - buffer + Cardinality(Owed(stack))
      BY <1>4, <1>6, <1>7, <3>1
    <3>3. SendersCount + PushesAwaited' <= size - buffer + Cardinality(Owed(stack))
      BY <1>1, <1>2, <3>2
    <3> QED
      BY <1>3, <1>4, <1>7, <3>3
  <2>2. (pc'[p] = "recv" => ~SendersWait') /\ (High(p, stack') => ~SendersWait') /\ Quiet(p, stack')
    BY <1>4, <1>5, <1>6, <1>7
  <2> QED
    BY <2>1, <2>2 DEF RoomFor, High, Quiet
<1>8. CASE stack' = stack
  <2>1. PushesAwaited' = PushesAwaited
    BY <1>8 DEF PushesAwaited, Runs, Top
  <2> QED
    BY <1>2, <1>6, <1>7, <1>8, <2>1
<1>9. Body(c) \in Frame /\ Body(c).op = "body" /\ Due(Body(c)) = 0
  BY BodyFrame DEF Due
<1>10. CASE stack = << >> /\ stack' = <<Body(c)>>
  <2>1. stack' = Append(stack, Body(c)) /\ ~High(p, stack)
    BY <1>10 DEF High
  <2>2. Last(stack') = Body(c)
    BY <1>1, <1>9, <2>1, Pushed
  <2>3. PushesAwaited' = 0
    BY <1>9, <2>2 DEF PushesAwaited, Runs, Top
  <2>4. Cardinality(Owed(stack')) = Cardinality(Owed(stack))
    BY <1>1, <1>2, <1>9, <2>1, OwedAppend
  <2>5. Quiet(p, stack') /\ ~High(p, stack')
    BY <1>1, <1>6, <1>9, <1>10, <2>1, QuietAppend
  <2> QED
    BY <1>2, <1>7, <2>3, <2>4, <2>5
<1>11. CASE Finish(c)
  <2>1. AtBody(c) /\ stack' = Front(stack)
    BY <1>11 DEF Finish, Under
  <2>2. /\ stack # << >> /\ Last(stack) = Body(c) /\ Last(stack).op = "body" /\ ~Runs("push")
    BY <1>1, <2>1, TopRuns
  <2>3. Cardinality(Owed(stack')) = Cardinality(Owed(stack))
    <3>1. Front(stack) \in Seq(Frame)
      BY <1>1, <2>2, Popped
    <3>2. Cardinality(Owed(Front(stack))) \in Nat
      BY <3>1, OwedFinite
    <3> QED
      BY <1>1, <1>9, <2>1, <2>2, <3>2, OwedFront
  <2>4. Quiet(p, stack') /\ ~High(p, stack')
    BY <1>1, <1>6, <2>1, <2>2, QuietFront
  <2>5. ASSUME SendersWait PROVE PushesAwaited' = 0
    <3>1. SUFFICES ASSUME Runs("push")' PROVE FALSE
      BY DEF PushesAwaited
    <3>2. Front(stack) # << >> /\ Last(Front(stack)).op = "push"
      BY <2>1, <3>1 DEF Runs, Top
    <3>3. \E q \in Poppers : Last(stack) = Body(q)
      BY <1>1, <2>2, <3>2, HandsFront
    <3>4. Last(stack) = Body(p)
      BY <1>1, <3>3
    <3>5. Len(stack) \in Nat /\ stack[Len(stack)] = Body(p) /\ Len(stack) # 1 /\ Len(stack) > 0
      BY <1>1, <2>2, <3>2, <3>4, Popped
    <3>6. Len(stack) \in 2 .. Len(stack)
      BY <3>5
    <3>7. High(p, stack)
      BY <3>5, <3>6 DEF High
    <3> QED
      BY <1>6, <2>5, <3>7
  <2> QED
    BY <1>2, <1>7, <2>2, <2>3, <2>4, <2>5
<1> QED
  BY <1>8, <1>10, <1>11 DEF Start, OtherDone, GetNull

(* The only body of the stack is the consumer's, or it runs above another. *)
LEMMA OwedByNone ==
  ASSUME NEW p \in Cort, stack \in Seq(Frame), stack # << >>, Last(stack) = Body(p), ~High(p, stack)
  PROVE  Cardinality(Owed(stack)) = 0 /\ stack = Append(<< >>, Body(p))
<1>1. /\ Len(stack) \in Nat /\ Len(stack) > 0 /\ Last(stack) = stack[Len(stack)]
      /\ Front(stack) \in Seq(Frame)
      /\ Front(stack) = << >> <=> Len(stack) = 1
  BY Popped
<1>2. Len(stack) = 1
  <2>1. SUFFICES ASSUME Len(stack) # 1 PROVE FALSE
    OBVIOUS
  <2>2. Len(stack) \in Nat /\ Len(stack) > 0
    BY <1>1
  <2>3. \A n \in Nat : n > 0 /\ n # 1 => n \in 2 .. n
    OBVIOUS
  <2>4. Len(stack) \in 2 .. Len(stack)
    BY <2>1, <2>2, <2>3
  <2>5. stack[Len(stack)] = Body(p)
    BY <1>1
  <2> QED
    BY <2>4, <2>5 DEF High
<1>3. Body(p) \in Frame /\ Due(Body(p)) = 0
  BY BodyFrame DEF Due
<1>4. Owed(<< >>) = {}
  BY DEF Owed
<1>5. stack = Append(Front(stack), Last(stack))
  BY Popped DEF Front, Last
<1>6. Front(stack) = << >>
  BY <1>1, <1>2
<1>7. Cardinality(Owed(stack)) = Cardinality(Owed(Front(stack))) + Due(Last(stack))
  BY OwedFront
<1>8. Cardinality(Owed(Front(stack))) = 0
  BY <1>4, <1>6, FS_EmptySet
<1> QED
  BY <1>3, <1>5, <1>6, <1>7, <1>8

LEMMA WaitPopableRoom ==
  ASSUME NEW most, Counts(most), NEW p \in Cort, Room(most, p), WaitPopable(p)
  PROVE  RoomFor(p)'
<1>1. /\ PlaceInv /\ RoomFor(p) /\ pc \in [Cort -> Pc] /\ stack \in Seq(Frame)
      /\ size \in Nat /\ buffer \in Nat /\ pinned \in Nat
      /\ ~IsConsumer(pc[p]) => pinned = 0
  BY RoomParts
<1>2. /\ SendersCount \in Nat /\ PushesAwaited \in {0, 1} /\ Cardinality(Owed(stack)) \in Nat
      /\ ~Runs("push") => PushesAwaited = 0
      /\ SendersWait <=> SendersCount # 0
  BY <1>1, CountFacts
<1>3. /\ AtBody(p) /\ pc[p] = "next" /\ UNCHANGED <<size, buffer, last_sender, senders, setting>>
      /\ \/ pc' = [pc EXCEPT ![p] = "consume"] /\ stack' = stack
         \/ ~HasObject /\ stack' = Under
  BY DEF WaitPopable, Suspend, Popable
<1>4. /\ SendersWait' <=> SendersWait
      /\ SendersCount' = SendersCount
  BY <1>3 DEF SendersWait, SendersCount
<1>5. /\ SendersWait => SendersCount + PushesAwaited <= size - buffer + Cardinality(Owed(stack))
      /\ High(p, stack) => ~SendersWait
      /\ Quiet(p, stack)
  BY <1>1 DEF RoomFor
<1>6. /\ stack # << >> /\ Last(stack) = Body(p) /\ Last(stack).op = "body" /\ ~Runs("push")
  BY <1>1, <1>3, TopRuns
<1>7. CASE pc' = [pc EXCEPT ![p] = "consume"] /\ stack' = stack
  <2>1. PushesAwaited' = PushesAwaited
    BY <1>7 DEF PushesAwaited, Runs, Top
  <2>2. pc'[p] # "recv"
    BY <1>1, <1>7
  <2> QED
    BY <1>3, <1>4, <1>5, <1>7, <2>1, <2>2 DEF RoomFor, High, Quiet
<1>8. CASE ~HasObject /\ stack' = Under
  <2>1. size = 0
    BY <1>1, <1>3, <1>8 DEF HasObject, IsConsumer
  <2>2. ~SendersWait
    <3>1. SUFFICES ASSUME SendersWait PROVE FALSE
      OBVIOUS
    <3>2. Cardinality(Owed(stack)) = 0
      BY <1>1, <1>5, <1>6, <3>1, OwedByNone
    <3> QED
      BY <1>1, <1>2, <1>5, <2>1, <3>1, <3>2
  <2>3. Quiet(p, stack')
    BY <1>1, <1>5, <1>6, <1>8, QuietFront DEF Under
  <2> QED
    BY <1>4, <2>2, <2>3 DEF RoomFor, Quiet
<1> QED
  BY <1>3, <1>7, <1>8

LEMMA PopRoom ==
  ASSUME NEW most, Counts(most), NEW p \in Cort, Room(most, p), Pop(p)
  PROVE  RoomFor(p)'
<1>1. /\ PlaceInv /\ RoomFor(p) /\ pc \in [Cort -> Pc] /\ stack \in Seq(Frame)
      /\ size \in Nat /\ buffer \in Nat
      /\ \A c \in Cort : pc[c] = "send" => c # p
  BY RoomParts
<1>2. /\ SendersCount \in Nat /\ PushesAwaited \in {0, 1} /\ Cardinality(Owed(stack)) \in Nat
      /\ ~Runs("push") => PushesAwaited = 0
      /\ SendersWait <=> SendersCount # 0
      /\ senders # << >> => Len(Tail(senders)) = Len(senders) - 1
      /\ Len(senders) \in Nat /\ senders \in Seq(Cort)
  BY <1>1, CountFacts
<1>3. /\ AtBody(p) /\ pc[p] = "consume" /\ size # 0 /\ size' = size - 1 /\ buffer' = buffer
  BY DEF Pop
<1>4. /\ SendersWait => SendersCount + PushesAwaited <= size - buffer + Cardinality(Owed(stack))
      /\ High(p, stack) => ~SendersWait
      /\ Quiet(p, stack)
  BY <1>1 DEF RoomFor
<1>5. /\ stack # << >> /\ Last(stack) = Body(p) /\ Last(stack).op = "body" /\ ~Runs("push")
  BY <1>1, <1>3, TopRuns
<1>6. SendersWait => Cardinality(Owed(stack)) = 0 /\ ~High(p, stack)
  BY <1>1, <1>4, <1>5, OwedByNone
<1>7. CASE /\ RoomLeft(size - 1) \/ (last_sender = NoCort /\ senders = << >>)
           /\ pc' = [pc EXCEPT ![p] = "next"]
           /\ UNCHANGED <<last_sender, senders, stack>>
  <2>1. ~SendersWait
    <3>1. SUFFICES ASSUME SendersWait PROVE FALSE
      OBVIOUS
    <3>2. size - 1 < buffer
      BY <1>7, <3>1 DEF SendersWait, RoomLeft
    <3> QED
      BY <1>1, <1>2, <1>4, <1>6, <3>1, <3>2
  <2>2. ~SendersWait'
    BY <1>7, <2>1 DEF SendersWait
  <2> QED
    BY <1>4, <1>7, <2>2 DEF RoomFor, Quiet
<1>8. ASSUME NEW w \in Cort,
             \/ w = last_sender /\ last_sender' = NoCort /\ senders' = senders
             \/ /\ last_sender = NoCort /\ senders # << >>
                /\ w = Head(senders) /\ senders' = Tail(senders)
                /\ last_sender' = last_sender,
             \/ pc' = [[pc EXCEPT ![p] = "next"] EXCEPT ![w] = "heldsend"] /\ stack' = stack
             \/ /\ pc' = [[pc EXCEPT ![p] = "next"] EXCEPT ![w] = "next"]
                /\ stack' = Append(stack, Body(w))
      PROVE  RoomFor(p)'
  <2>1. NoCort \notin Cort
    BY ChannelAssumption DEF ChannelAssumption
  <2>2. SendersWait /\ SendersCount' = SendersCount - 1
    BY <1>2, <1>8, <2>1 DEF SendersWait, SendersCount
  <2>3. w # p
    <3>1. w = last_sender \/ w \in Range(senders)
      <4>1. senders # << >> => 1 \in 1 .. Len(senders) /\ Head(senders) = senders[1]
        BY <1>2
      <4> QED
        BY <1>2, <1>8, <4>1, SeqFacts
    <3>2. pc[w] = "send"
      BY <1>1, <3>1, PlaceParts DEF ListOK
    <3> QED
      BY <1>1, <3>2
  <2>4. pc'[p] # "recv"
    BY <1>1, <1>8
  <2>5. Body(w) \in Frame /\ Body(w).op = "body" /\ Body(w) # Body(p) /\ Due(Body(w)) = 0
    BY <2>3, BodyFrame DEF Due
  <2>6. /\ Cardinality(Owed(stack')) = 0 /\ ~High(p, stack') /\ Quiet(p, stack')
        /\ ~Runs("push")'
    <3>1. CASE stack' = stack
      BY <1>4, <1>5, <1>6, <2>2, <3>1 DEF Runs, Top
    <3>2. CASE stack' = Append(stack, Body(w))
      <4>1. Last(stack') = Body(w)
        BY <1>1, <2>5, <3>2, Pushed
      <4>2. Quiet(p, stack') /\ ~High(p, stack')
        BY <1>1, <1>4, <1>6, <2>2, <2>5, <3>2, QuietAppend
      <4>3. Cardinality(Owed(stack')) = 0
        BY <1>1, <1>6, <2>2, <2>5, <3>2, OwedAppend
      <4> QED
        BY <2>5, <4>1, <4>2, <4>3 DEF Runs, Top
    <3> QED
      BY <1>8, <3>1, <3>2
  <2>7. PushesAwaited' = 0
    BY <2>6 DEF PushesAwaited
  <2>8. SendersCount' + PushesAwaited' <= size' - buffer' + Cardinality(Owed(stack'))
    BY <1>1, <1>2, <1>3, <1>4, <1>5, <1>6, <2>2, <2>6, <2>7
  <2> QED
    BY <2>4, <2>6, <2>8 DEF RoomFor, High, Quiet
<1>9. \/ /\ RoomLeft(size - 1) \/ (last_sender = NoCort /\ senders = << >>)
         /\ pc' = [pc EXCEPT ![p] = "next"]
         /\ UNCHANGED <<last_sender, senders, stack>>
      \/ \E w \in Cort :
           /\ \/ w = last_sender /\ last_sender' = NoCort /\ senders' = senders
              \/ /\ last_sender = NoCort /\ senders # << >>
                 /\ w = Head(senders) /\ senders' = Tail(senders)
                 /\ last_sender' = last_sender
           /\ \/ pc' = [[pc EXCEPT ![p] = "next"] EXCEPT ![w] = "heldsend"] /\ stack' = stack
              \/ /\ pc' = [[pc EXCEPT ![p] = "next"] EXCEPT ![w] = "next"]
                 /\ stack' = Append(stack, Body(w))
  BY DEF Pop
<1> QED
  BY <1>7, <1>8, <1>9

LEMMA ProduceRoom ==
  ASSUME NEW most, Counts(most), NEW p \in Cort, Room(most, p),
         NEW c \in Pushers, AtBody(c), pc[c] = "next", Spend(c),
         NEW k \in Deltas, NEW b \in BOOLEAN,
         \/ UNCHANGED <<size, recvers, last_recver, stack>>
         \/ Produce(k, b),
         UNCHANGED <<pinned, buffer, last_sender, senders, pc, also, setting>>
  PROVE  RoomFor(p)'
<1>1. /\ PlaceInv /\ RoomFor(p) /\ pc \in [Cort -> Pc] /\ stack \in Seq(Frame)
      /\ size \in Nat /\ buffer \in Nat /\ Pushers \subseteq Cort /\ p \notin Pushers
  BY RoomParts
<1>2. /\ SendersCount \in Nat /\ PushesAwaited \in {0, 1} /\ Cardinality(Owed(stack)) \in Nat
      /\ ~Runs("push") => PushesAwaited = 0
      /\ SendersWait <=> SendersCount # 0
  BY <1>1, CountFacts
<1>3. /\ SendersWait => SendersCount + PushesAwaited <= size - buffer + Cardinality(Owed(stack))
      /\ pc[p] = "recv" => ~SendersWait
      /\ High(p, stack) => ~SendersWait
      /\ Quiet(p, stack)
  BY <1>1 DEF RoomFor
<1>4. /\ SendersWait' <=> SendersWait
      /\ SendersCount' = SendersCount
  BY DEF SendersWait, SendersCount
<1>5. /\ stack # << >> /\ Last(stack) = Body(c) /\ Last(stack).op = "body" /\ ~Runs("push")
      /\ c \in Cort /\ c # p
  BY <1>1, TopRuns
<1>6. CASE UNCHANGED <<size, recvers, last_recver, stack>>
  <2>1. PushesAwaited' = PushesAwaited
    BY <1>6 DEF PushesAwaited, Runs, Top
  <2> QED
    BY <1>3, <1>4, <1>6, <2>1 DEF RoomFor, High, Quiet
<1>7. CASE Produce(k, b)
  <2> DEFINE f == [op |-> "push", left |-> k, awaited |-> b]
  <2>1. /\ stack' = Append(stack, f) /\ size' = (size + k) % SizeMod
    BY <1>7 DEF Produce
  <2>2. k \in Nat /\ k > 0
    BY <1>1, PlaceParts, SettingFacts DEF Scalars
  <2>3. f \in Frame /\ f.op = "push"
    BY <2>2, NewFrames
  <2>4. Due(f) = 0 /\ f # Body(p)
    BY <2>3, BodyFrame DEF Due
  <2> HIDE DEF f
  <2>5. size' = size + k
    <3>1. SizeBounded(most)
      BY GrantParts DEF Room
    <3>2. Deltas \subseteq 0 .. most
      BY <1>1, <3>1, SizeFits
    <3>3. (size + k) % SizeMod = size + k
      BY <1>1, <1>5, <3>1, <3>2, SizeFits
    <3> QED
      BY <2>1, <3>3
  <2>6. ~High(p, stack)
    <3>1. Body(c) # Body(p)
      BY <1>5, BodyFrame
    <3> QED
      BY <1>1, <1>3, <1>5, <3>1, QuietFront
  <2>7. Quiet(p, stack') /\ ~High(p, stack')
    BY <1>1, <1>3, <2>1, <2>3, <2>4, <2>6, QuietAppend
  <2>8. Cardinality(Owed(stack')) = Cardinality(Owed(stack))
    BY <1>1, <1>2, <2>1, <2>3, <2>4, OwedAppend
  <2>9. PushesAwaited' \in {0, 1}
    BY DEF PushesAwaited
  <2>10. SendersWait => SendersCount' + PushesAwaited' <= size' - buffer' + Cardinality(Owed(stack'))
    BY <1>1, <1>2, <1>3, <1>4, <1>5, <2>2, <2>5, <2>8, <2>9
  <2> QED
    BY <1>3, <1>4, <2>7, <2>10 DEF RoomFor, High, Quiet
<1> QED
  BY <1>6, <1>7

LEMMA PushWakeRoom ==
  ASSUME NEW most, Counts(most), NEW p \in Cort, Room(most, p), PushWake
  PROVE  RoomFor(p)'
<1>1. /\ PlaceInv /\ RoomFor(p) /\ pc \in [Cort -> Pc] /\ stack \in Seq(Frame)
      /\ \A c \in Cort : pc[c] = "recv" => c = p
      /\ ListOK(recvers, last_recver, pc, "recv")
  BY RoomParts, PlaceParts
<1> DEFINE g == [Top EXCEPT !.left = @ - 1]
           q == Head(recvers)
           fs == Append(Under, g)
<1>2. /\ Runs("push") /\ Top.left # 0 /\ recvers # << >> /\ Wake(q, fs)
      /\ UNCHANGED <<last_sender, senders>>
  BY DEF PushWake
<1>3. /\ stack # << >> /\ Top \in Frame /\ Top.op = "push" /\ Top = Last(stack)
      /\ Under \in Seq(Frame) /\ Under = Front(stack)
  BY <1>1, <1>2, Popped DEF Runs, Top, Under
<1>4. g \in Frame /\ g.op = "push"
  BY <1>2, <1>3, PushFrame
<1>5. q = p /\ pc[q] = "recv"
  <2>1. "done" \in Pc /\ "done" # "recv"
    BY DEF Pc
  <2>2. q \in Cort /\ pc[q] = "recv"
    BY <1>1, <1>2, <2>1, ListHead
  <2> QED
    BY <1>1, <2>2
<1> HIDE DEF g, q
<1>6. /\ stack' = fs \/ stack' = Append(fs, Body(p))
      /\ \E v \in Pc : pc' = [pc EXCEPT ![p] = v] /\ v \in {"consume", "heldrecv"}
  BY <1>1, <1>2, <1>5, WakeFacts DEF Waiting
<1>7. ~SendersWait' /\ pc'[p] # "recv"
  <2>1. ~SendersWait
    BY <1>1, <1>5 DEF RoomFor
  <2> QED
    BY <1>1, <1>2, <1>6, <2>1 DEF SendersWait
<1>8. Body(p) \in Frame /\ Body(p).op = "body"
  BY BodyFrame
<1>9. Quiet(p, Under) /\ ~High(p, Under)
  BY <1>1, <1>3, QuietFront DEF RoomFor
<1>10. Quiet(p, fs) /\ ~High(p, fs) /\ fs \in Seq(Frame)
  BY <1>3, <1>4, <1>8, <1>9, QuietAppend, Pushed
<1> HIDE DEF fs
<1>11. Quiet(p, stack')
  BY <1>6, <1>8, <1>10, QuietAppend
<1> QED
  BY <1>7, <1>11 DEF RoomFor, Quiet

LEMMA PushEndRoom ==
  ASSUME NEW most, Counts(most), NEW p \in Cort, Room(most, p), PushEnd
  PROVE  RoomFor(p)'
<1>1. /\ PlaceInv /\ RoomFor(p) /\ pc \in [Cort -> Pc] /\ stack \in Seq(Frame)
      /\ size \in Nat /\ buffer \in Nat /\ pinned \in Nat /\ HandsUnder(stack) /\ RecversServed
      /\ Poppers = {p} /\ p \notin Pushers
      /\ ~IsConsumer(pc[p]) => pinned = 0
      /\ ListOK(recvers, last_recver, pc, "recv") /\ StackOK(stack, pc) /\ ~Closed
      /\ Pushers \subseteq Cort /\ Poppers \subseteq Cort
  BY RoomParts, PlaceParts DEF Room
<1>2. /\ SendersCount \in Nat /\ PushesAwaited \in {0, 1} /\ Cardinality(Owed(stack)) \in Nat
      /\ SendersWait <=> SendersCount # 0
      /\ senders \in Seq(Cort) /\ last_sender \in Cort \union {NoCort} /\ Len(senders) \in Nat
      /\ Len(Joined(senders, last_sender)) = SendersCount
  BY <1>1, CountFacts
<1>3. /\ SendersWait => SendersCount + PushesAwaited <= size - buffer + Cardinality(Owed(stack))
      /\ pc[p] = "recv" => ~SendersWait
      /\ Quiet(p, stack)
  BY <1>1 DEF RoomFor
<1>4. /\ Runs("push") /\ (Top.left = 0 \/ recvers = << >>)
      /\ UNCHANGED <<size, buffer, setting>>
  BY DEF PushEnd
<1>5. /\ stack # << >> /\ Top \in Frame /\ Top.op = "push" /\ Top = Last(stack)
      /\ Under \in Seq(Frame) /\ Under = Front(stack) /\ Under # << >>
      /\ \E c \in Pushers : Last(Under) = Body(c)
      /\ Top.left \in Nat /\ Top.awaited \in BOOLEAN
  BY <1>1, <1>4, Loop, PushFrame DEF StackOK, Under
<1>6. PICK c \in Pushers : Last(Under) = Body(c)
  BY <1>5
<1>7. /\ c \in Cort /\ c # p /\ Body(c).op = "body" /\ Last(Under).cort = c
      /\ Due(Body(c)) = 0 /\ Due(Top) = 0
  BY <1>1, <1>5, <1>6, BodyFrame DEF Due
<1>8. Quiet(p, Under) /\ ~High(p, Under)
  BY <1>1, <1>3, <1>5, QuietFront
<1>9. Quiet(p, Front(Under)) /\ ~High(p, Front(Under)) /\ Front(Under) \in Seq(Frame)
  BY <1>5, <1>8, QuietFront, Popped
<1>10. /\ Cardinality(Owed(Under)) = Cardinality(Owed(stack))
       /\ Cardinality(Owed(Front(Under))) = Cardinality(Owed(stack))
  <2>1. Cardinality(Owed(Under)) \in Nat /\ Cardinality(Owed(Front(Under))) \in Nat
    BY <1>5, <1>9, OwedFinite
  <2>2. Cardinality(Owed(stack)) = Cardinality(Owed(Under)) + 0
    BY <1>1, <1>5, <1>7, OwedFront
  <2>3. Cardinality(Owed(Under)) = Cardinality(Owed(Front(Under))) + 0
    BY <1>5, <1>6, <1>7, OwedFront
  <2> QED
    BY <2>1, <2>2, <2>3
<1>11. size > buffer => pc[p] # "recv"
  <2>1. SUFFICES ASSUME pc[p] = "recv" PROVE size = 0
    BY <1>1
  <2>2. RecversWait
    <3>1. p = last_recver \/ p \in Range(recvers)
      BY <1>1, <2>1 DEF ListOK
    <3>2. Range(<< >>) = {}
      BY DEF Range
    <3>3. NoCort \notin Cort
      BY ChannelAssumption DEF ChannelAssumption
    <3> QED
      BY <1>1, <3>1, <3>2, <3>3 DEF RecversWait
  <2>3. pinned = 0
    BY <1>1, <2>1 DEF IsConsumer
  <2> QED
    BY <1>1, <1>4, <1>5, <2>2, <2>3 DEF RecversServed
<1>12. ASSUME stack' = Under, pc' = pc, SendersCount' = SendersCount, SendersWait' <=> SendersWait
       PROVE  RoomFor(p)'
  <2>1. PushesAwaited' = 0
    BY <1>6, <1>7, <1>12 DEF PushesAwaited, Runs, Top
  <2>2. SendersWait => SendersCount' + PushesAwaited' <= size' - buffer' + Cardinality(Owed(stack'))
    BY <1>1, <1>2, <1>3, <1>4, <1>10, <1>12, <2>1
  <2> QED
    BY <1>3, <1>8, <1>12, <2>2 DEF RoomFor, High, Quiet
<1>13. CASE stack' = Under /\ UNCHANGED <<last_sender, senders, pc, also>>
  <2>1. SendersCount' = SendersCount /\ (SendersWait' <=> SendersWait)
    BY <1>13 DEF SendersCount, SendersWait
  <2> QED
    BY <1>12, <1>13, <2>1
<1>14. CASE /\ senders' = Joined(senders, last_sender) /\ last_sender' = NoCort
            /\ stack' = Under /\ UNCHANGED <<pc, also>>
  <2>1. SendersCount' = SendersCount
    BY <1>2, <1>14 DEF SendersCount
  <2>2. SendersWait' <=> SendersWait
    BY <1>2, <1>14, JoinedFacts DEF SendersWait
  <2> QED
    BY <1>12, <1>14, <2>1, <2>2
<1>15. CASE /\ size > buffer /\ Top.awaited
            /\ senders' = Joined(senders, last_sender)
            /\ last_sender' = c
            /\ Suspend(c, "send")
            /\ stack' = Front(Under)
  <2>1. SendersCount' = SendersCount + 1
    <3>1. NoCort \notin Cort
      BY ChannelAssumption DEF ChannelAssumption
    <3> QED
      BY <1>2, <1>7, <1>15, <3>1 DEF SendersCount
  <2>2. PushesAwaited = 1
    BY <1>4, <1>15 DEF PushesAwaited
  <2>3. PushesAwaited' = 0
    <3>1. SUFFICES ASSUME Runs("push")' PROVE FALSE
      BY DEF PushesAwaited
    <3>2. Front(Under) # << >> /\ Last(Front(Under)).op = "push"
      BY <1>15, <3>1 DEF Runs, Top
    <3>3. HandsUnder(Under)
      BY <1>1, <1>4, UnderLoop
    <3>4. \E q \in Poppers : Last(Under) = Body(q)
      BY <1>5, <3>2, <3>3, HandsFront
    <3>5. Body(c) = Body(p)
      BY <1>1, <1>6, <3>4
    <3> QED
      BY <1>7, <3>5, BodyFrame
  <2>4. SendersCount' + PushesAwaited' <= size' - buffer' + Cardinality(Owed(stack'))
    <3>1. CASE SendersWait
      BY <1>1, <1>2, <1>3, <1>4, <1>10, <1>15, <2>1, <2>2, <2>3, <3>1
    <3>2. CASE ~SendersWait
      BY <1>1, <1>2, <1>4, <1>10, <1>15, <2>1, <2>3, <3>2
    <3> QED
      BY <3>1, <3>2
  <2>5. pc'[p] = pc[p]
    BY <1>1, <1>7, <1>15 DEF Suspend
  <2> QED
    BY <1>9, <1>11, <1>15, <2>4, <2>5 DEF RoomFor, High, Quiet
<1>16. ~(size <= buffer) => size > buffer
  BY <1>1
<1> QED
  BY <1>5, <1>7, <1>13, <1>14, <1>15, <1>16 DEF PushEnd

(* A sender w that set_buffer_size wakes, above the frame g of its loop.   *)
LEMMA WokenRoom ==
  ASSUME NEW p \in Cort, pc \in [Cort -> Pc], NEW fs \in Seq(Frame), Quiet(p, fs), ~High(p, fs),
         NEW g \in Frame, g.op = "resize",
         NEW w \in Cort, w # p, pc[w] = "send", Wake(w, Append(fs, g))
  PROVE  /\ Quiet(p, stack') /\ ~High(p, stack') /\ ~Runs("push")'
         /\ Cardinality(Owed(stack')) = Cardinality(Owed(fs)) + g.left
         /\ pc'[p] = pc[p]
<1> DEFINE s == Append(fs, g)
<1>1. /\ Body(w) \in Frame /\ Body(w).op = "body" /\ Body(w) # Body(p) /\ g # Body(p)
      /\ Due(Body(w)) = 0 /\ Due(g) = g.left
  BY BodyFrame DEF Due
<1>2. /\ s \in Seq(Frame) /\ Last(s) = g /\ s # << >>
      /\ Quiet(p, s) /\ ~High(p, s)
      /\ Cardinality(Owed(s)) = Cardinality(Owed(fs)) + g.left
  BY <1>1, QuietAppend, Pushed, OwedAppend
<1>3. stack' = s \/ stack' = Append(s, Body(w))
  BY WakeFacts DEF Waiting
<1>4. pc'[p] = pc[p]
  <2>1. \E v \in Pc : pc' = [pc EXCEPT ![w] = v]
    BY WakeFacts DEF Waiting
  <2> QED
    BY <2>1
<1> HIDE DEF s
<1>5. CASE stack' = s
  BY <1>2, <1>4, <1>5 DEF Runs, Top
<1>6. CASE stack' = Append(s, Body(w))
  <2>1. /\ Quiet(p, stack') /\ ~High(p, stack') /\ Last(stack') = Body(w)
    BY <1>1, <1>2, <1>6, QuietAppend, Pushed
  <2>2. Cardinality(Owed(s)) \in Nat /\ Cardinality(Owed(stack')) = Cardinality(Owed(s)) + 0
    BY <1>1, <1>2, <1>6, OwedAppend, OwedFinite
  <2>3. Cardinality(Owed(stack')) = Cardinality(Owed(fs)) + g.left
    BY <1>2, <2>2
  <2> QED
    BY <1>1, <1>4, <2>1, <2>3 DEF Runs, Top
<1> QED
  BY <1>3, <1>5, <1>6

LEMMA ResizeRoom ==
  ASSUME NEW most, Counts(most), NEW p \in Cort, Room(most, p), ResizeWake \/ ResizeEnd
  PROVE  RoomFor(p)'
<1>1. /\ PlaceInv /\ RoomFor(p) /\ pc \in [Cort -> Pc] /\ stack \in Seq(Frame)
      /\ size \in Nat /\ buffer \in Nat /\ HandsUnder(stack) /\ SlotFull /\ ~Closed
      /\ \A c \in Cort : pc[c] = "send" => c # p
      /\ ListOK(senders, last_sender, pc, "send")
  BY RoomParts, PlaceParts DEF Room
<1>2. /\ SendersCount \in Nat /\ PushesAwaited \in {0, 1} /\ Cardinality(Owed(stack)) \in Nat
      /\ SendersWait <=> SendersCount # 0
      /\ Len(senders) \in Nat /\ senders \in Seq(Cort)
      /\ senders # << >> => Len(Tail(senders)) = Len(senders) - 1
      /\ ~Runs("push") => PushesAwaited = 0
  BY <1>1, CountFacts
<1>3. /\ SendersWait => SendersCount + PushesAwaited <= size - buffer + Cardinality(Owed(stack))
      /\ pc[p] = "recv" => ~SendersWait
      /\ High(p, stack) => ~SendersWait
      /\ Quiet(p, stack)
  BY <1>1 DEF RoomFor
<1>4. Runs("resize") /\ UNCHANGED <<size, buffer, last_sender>>
  BY DEF ResizeWake, ResizeEnd, channel
<1>5. /\ stack # << >> /\ Top \in Frame /\ Top.op = "resize" /\ Top = Last(stack)
      /\ Under \in Seq(Frame) /\ Under = Front(stack)
      /\ Under # << >> => Last(Under).op # "push"
      /\ Top.left \in Nat /\ Due(Top) = Top.left
      /\ ~Runs("push")
  BY <1>1, <1>4, UnderLoop, Popped, ResizeFrame DEF Runs, Top, Under, Due
<1>6. /\ Quiet(p, Under) /\ (High(p, Under) => High(p, stack))
      /\ Cardinality(Owed(stack)) = Cardinality(Owed(Under)) + Top.left
      /\ Cardinality(Owed(Under)) \in Nat
  BY <1>1, <1>3, <1>5, QuietFront, OwedFront, OwedFinite
<1>7. CASE ResizeEnd
  <2>1. /\ stack' = Under /\ UNCHANGED <<pc, senders, last_sender, size, buffer>>
        /\ Top.left = 0 \/ senders = << >>
    BY <1>7 DEF ResizeEnd, channel
  <2>2. PushesAwaited' = 0
    BY <1>5, <2>1 DEF PushesAwaited, Runs, Top
  <2>3. (SendersWait' <=> SendersWait) /\ SendersCount' = SendersCount
    BY <2>1 DEF SendersWait, SendersCount
  <2>4. SendersWait => SendersCount <= size - buffer + Cardinality(Owed(Under))
    <3>1. CASE Top.left = 0
      BY <1>1, <1>2, <1>3, <1>5, <1>6, <3>1
    <3>2. ASSUME senders = << >>, SendersWait
          PROVE  SendersCount <= size - buffer + Cardinality(Owed(Under))
      <4>1. SendersCount = 1 /\ size > buffer
        BY <1>1, <3>2 DEF SendersCount, SendersWait, SlotFull
      <4> QED
        BY <1>1, <1>6, <4>1
    <3> QED
      BY <2>1, <3>1, <3>2
  <2>5. SendersWait => SendersCount' + PushesAwaited' <= size' - buffer' + Cardinality(Owed(stack'))
    BY <1>2, <2>1, <2>2, <2>3, <2>4
  <2> QED
    BY <1>3, <1>6, <2>1, <2>3, <2>5 DEF RoomFor, High, Quiet
<1>8. CASE ResizeWake
  <2> DEFINE g == [Top EXCEPT !.left = @ - 1]
             w == Head(senders)
  <2>1. Top.left # 0 /\ senders # << >> /\ senders' = Tail(senders) /\ Wake(w, Append(Under, g))
    BY <1>8 DEF ResizeWake
  <2>2. g \in Frame /\ g.op = "resize" /\ g.left = Top.left - 1
    BY <1>5, <2>1, ResizeFrame
  <2>3. w \in Cort /\ pc[w] = "send" /\ w # p
    <3>1. "done" \in Pc /\ "done" # "send"
      BY DEF Pc
    <3>2. w \in Cort /\ pc[w] = "send"
      BY <1>1, <2>1, <3>1, ListHead
    <3> QED
      BY <1>1, <3>2
  <2> HIDE DEF g, w
  <2>4. SendersWait /\ SendersCount' = SendersCount - 1
    BY <1>2, <1>4, <2>1 DEF SendersWait, SendersCount
  <2>5. ~High(p, Under)
    BY <1>3, <1>6, <2>4
  <2>6. /\ Quiet(p, stack') /\ ~High(p, stack') /\ ~Runs("push")'
        /\ Cardinality(Owed(stack')) = Cardinality(Owed(Under)) + g.left
        /\ pc'[p] = pc[p]
    BY <1>1, <1>5, <1>6, <2>1, <2>2, <2>3, <2>5, WokenRoom
  <2>7. PushesAwaited' = 0
    BY <2>6 DEF PushesAwaited
  <2>8. SendersCount' + PushesAwaited' <= size' - buffer' + Cardinality(Owed(stack'))
    BY <1>1, <1>2, <1>3, <1>4, <1>5, <1>6, <2>2, <2>4, <2>6, <2>7
  <2>9. pc'[p] # "recv"
    BY <1>3, <2>4, <2>6
  <2> QED
    BY <2>6, <2>8, <2>9 DEF RoomFor, High, Quiet
<1> QED
  BY <1>7, <1>8

LEMMA SetBufferRoom ==
  ASSUME NEW most, Counts(most), NEW p \in Cort, Room(most, p), NEW b \in Buffers, SetBufferSize(b)
  PROVE  RoomFor(p)'
<1>1. /\ PlaceInv /\ RoomFor(p) /\ pc \in [Cort -> Pc] /\ stack \in Seq(Frame)
      /\ size \in Nat /\ buffer \in Nat
      /\ \A c \in Cort : pc[c] = "send" => c # p
      /\ ListOK(senders, last_sender, pc, "send") /\ b \in Nat
  BY RoomParts, PlaceParts, SettingFacts DEF Scalars
<1>2. /\ SendersCount \in Nat /\ PushesAwaited \in {0, 1} /\ Cardinality(Owed(stack)) \in Nat
      /\ SendersWait <=> SendersCount # 0
      /\ Len(senders) \in Nat /\ senders \in Seq(Cort) /\ last_sender \in Cort \union {NoCort}
      /\ ~Runs("push") => PushesAwaited = 0
  BY <1>1, CountFacts
<1>3. /\ SendersWait => SendersCount + PushesAwaited <= size - buffer + Cardinality(Owed(stack))
      /\ pc[p] = "recv" => ~SendersWait
      /\ High(p, stack) => ~SendersWait
      /\ Quiet(p, stack)
  BY <1>1 DEF RoomFor
<1>4. MayCall /\ buffer' = b /\ b # buffer /\ UNCHANGED <<size, senders>>
  BY DEF SetBufferSize
<1>5. ~Runs("push")
  BY <1>1, <1>4, CallMade
<1>6. /\ Grown(b) \in Nat
      /\ Grown(b) > 0 => Grown(b) = b - buffer
      /\ Grown(b) = 0 => b < buffer
  BY <1>1, <1>4 DEF Grown
<1>7. CASE Grown(b) > 0 /\ last_sender # NoCort
  <2> DEFINE g == [op |-> "resize", left |-> Grown(b) - 1]
  <2>1. last_sender' = NoCort /\ Wake(last_sender, Append(stack, g))
    BY <1>7 DEF SetBufferSize
  <2>2. Grown(b) - 1 \in Nat
    BY <1>6, <1>7
  <2>3. g \in Frame /\ g.op = "resize" /\ g.left = Grown(b) - 1
    BY <2>2, NewFrames
  <2> HIDE DEF g
  <2>4. last_sender \in Cort /\ pc[last_sender] = "send" /\ last_sender # p
    <3>1. last_sender \in Cort /\ pc[last_sender] = "send"
      BY <1>1, <1>7 DEF ListOK
    <3> QED
      BY <1>1, <3>1
  <2>5. SendersWait /\ SendersCount' = SendersCount - 1
    BY <1>2, <1>4, <1>7, <2>1 DEF SendersWait, SendersCount
  <2>6. /\ Quiet(p, stack') /\ ~High(p, stack') /\ ~Runs("push")'
        /\ Cardinality(Owed(stack')) = Cardinality(Owed(stack)) + g.left
        /\ pc'[p] = pc[p]
    BY <1>1, <1>3, <2>1, <2>3, <2>4, <2>5, WokenRoom
  <2>7. PushesAwaited' = 0
    BY <2>6 DEF PushesAwaited
  <2>8. SendersCount' + PushesAwaited' <= size' - buffer' + Cardinality(Owed(stack'))
    BY <1>1, <1>2, <1>3, <1>4, <1>5, <1>6, <1>7, <2>3, <2>5, <2>6, <2>7
  <2>9. pc'[p] # "recv"
    BY <1>3, <2>5, <2>6
  <2> QED
    BY <2>6, <2>8, <2>9 DEF RoomFor, High, Quiet
<1>8. CASE ~(Grown(b) > 0 /\ last_sender # NoCort)
  <2> DEFINE g == [op |-> "resize", left |-> Grown(b)]
  <2>1. stack' = Append(stack, g) /\ UNCHANGED <<last_sender, pc, also>>
    BY <1>8 DEF SetBufferSize
  <2>2. g \in Frame /\ g.op = "resize" /\ g.left = Grown(b)
    BY <1>6, NewFrames
  <2>3. Due(g) = Grown(b) /\ g # Body(p)
    BY <2>2, BodyFrame DEF Due
  <2> HIDE DEF g
  <2>4. /\ Quiet(p, stack') /\ (High(p, stack') => High(p, stack)) /\ Last(stack') = g
        /\ Cardinality(Owed(stack')) = Cardinality(Owed(stack)) + Grown(b)
    BY <1>1, <1>3, <2>1, <2>2, <2>3, QuietAppend, OwedAppend, Pushed
  <2>5. PushesAwaited' = 0
    BY <2>2, <2>4 DEF PushesAwaited, Runs, Top
  <2>6. (SendersWait' <=> SendersWait) /\ SendersCount' = SendersCount
    BY <1>4, <2>1 DEF SendersWait, SendersCount
  <2>7. SendersWait => SendersCount' + PushesAwaited' <= size' - buffer' + Cardinality(Owed(stack'))
    BY <1>1, <1>2, <1>3, <1>4, <1>5, <1>6, <2>4, <2>5, <2>6
  <2> QED
    BY <1>3, <2>1, <2>4, <2>6, <2>7 DEF RoomFor, High, Quiet
<1> QED
  BY <1>7, <1>8

LEMMA NextRoom ==
  ASSUME NEW most, Counts(most), PlaceInv, PlaceInv', GrantInv(most), RoomInv, [Next]_vars
  PROVE  RoomInv'
<1>1. SUFFICES ASSUME ~Closed', NEW p \in Cort \ Pushers', Poppers' = {p}
               PROVE  RoomFor(p)'
  BY RoomIs
<1>2. CASE UNCHANGED vars
  <2>1. ~Closed /\ Poppers = {p} /\ p \in Cort \ Pushers
    BY <1>1, <1>2 DEF vars, Closed, ClosedBuffer, Poppers, Pushers
  <2>2. RoomFor(p)
    BY <2>1, RoomIs
  <2> QED
    BY <1>2, <2>2 DEF vars, RoomFor, High, Quiet, SendersWait, SendersCount, PushesAwaited,
                      Runs, Top
<1>3. CASE Next
  <2>1. setting' = setting
    BY <1>3 DEF Next, Use, Start, Finish, OtherDone, WaitPopable, GetNull, Pop, Push, TryPush,
                PushWake, PushEnd, AwakeBegin, AwakeSender, AwakeTurn, AwakeRecver, AwakeEnd,
                SetBufferSize, ResizeWake, ResizeEnd, Close
  <2>2. Poppers = {p} /\ p \in Cort /\ p \notin Pushers
    BY <1>1, <2>1 DEF Poppers, Pushers
  <2>3. buffer' # ClosedBuffer
    BY <1>1 DEF Closed, ClosedBuffer
  <2>4. ~Close
    BY <2>3 DEF Close
  <2>5. CASE AwakeBegin \/ AwakeSender \/ AwakeTurn \/ AwakeRecver \/ AwakeEnd
    <3>1. Runs("awake") /\ buffer' = buffer
      BY <2>5 DEF AwakeBegin, AwakeSender, AwakeTurn, AwakeRecver, AwakeEnd, channel
    <3>2. stack \in Seq(Frame) /\ stack # << >> /\ Last(stack).op = "awake"
      BY <3>1, PlaceParts DEF Runs, Top
    <3>3. Len(stack) \in Nat /\ Len(stack) > 0 /\ Last(stack) = stack[Len(stack)]
      BY <3>2, Popped
    <3>4. ClosedWoken
      BY GrantParts
    <3>5. Len(stack) \in 1 .. Len(stack) /\ stack[Len(stack)].op = "awake"
      BY <3>2, <3>3
    <3>6. Closed
      BY <3>4, <3>5 DEF ClosedWoken
    <3> QED
      BY <2>3, <3>1, <3>6 DEF Closed
  <2>6. ASSUME ~Closed PROVE RoomFor(p)'
    <3>1. Room(most, p)
      BY <2>2, <2>6, RoomIs DEF Room
    <3>2. Pushers \subseteq Cort
      BY PlaceParts, SettingFacts DEF Scalars
    <3>3. ASSUME NEW c \in Pushers \union Poppers, Start(c) \/ Finish(c) \/ OtherDone(c)
          PROVE  RoomFor(p)'
      BY <2>2, <3>1, <3>2, <3>3, BodiesRoom
    <3>4. ASSUME NEW c \in Poppers, WaitPopable(c) \/ GetNull(c) \/ Pop(c)
          PROVE  RoomFor(p)'
      BY <2>2, <3>1, <3>4, BodiesRoom, WaitPopableRoom, PopRoom
    <3>5. ASSUME NEW c \in Pushers, NEW k \in Deltas, Push(c, k) \/ TryPush(c, k)
          PROVE  RoomFor(p)'
      <4>1. /\ AtBody(c) /\ pc[c] = "next" /\ Spend(c)
            /\ UNCHANGED <<size, recvers, last_recver, stack>> \/ Produce(k, TRUE) \/ Produce(k, FALSE)
            /\ UNCHANGED <<pinned, buffer, last_sender, senders, pc, also, setting>>
        BY <3>5 DEF Push, TryPush
      <4> QED
        BY <2>2, <3>1, <4>1, ProduceRoom
    <3>6. ASSUME NEW b \in Buffers, SetBufferSize(b)
          PROVE  RoomFor(p)'
      BY <2>2, <3>1, <3>6, SetBufferRoom
    <3> QED
      BY <1>3, <2>2, <2>4, <2>5, <3>1, <3>3, <3>4, <3>5, <3>6, PushWakeRoom, PushEndRoom,
         ResizeRoom DEF Next, Use
  <2>7. ASSUME Closed PROVE FALSE
    <3>1. buffer' = buffer
      BY <1>3, <2>4, <2>7 DEF Next, Use, Start, Finish, OtherDone, WaitPopable, GetNull, Pop,
         Push, TryPush, PushWake, PushEnd, AwakeBegin, AwakeSender, AwakeTurn, AwakeRecver,
         AwakeEnd, SetBufferSize, ResizeWake, ResizeEnd, channel
    <3> QED
      BY <2>3, <2>7, <3>1 DEF Closed
  <2> QED
    BY <2>6, <2>7
<1> QED
  BY <1>2, <1>3

LEMMA InitRoom == Init => RoomInv
<1> SUFFICES ASSUME Init, NEW p \in Cort PROVE RoomFor(p)
  BY RoomIs
<1>1. ~SendersWait
  BY DEF Init, SendersWait
<1>2. stack = << >> /\ Len(stack) = 0
  BY DEF Init
<1> QED
  BY <1>1, <1>2 DEF RoomFor, High, Quiet

LEMMA RoomMade ==
  ASSUME PlaceInv, NEW most, Counts(most), GrantInv(most), RoomInv
  PROVE  NoSenderStranded
<1>1. SUFFICES ASSUME stack = << >>, WaitingSenders # {}, NEW p \in Cort \ Pushers, Poppers = {p}
               PROVE  size > buffer
  BY DEF NoSenderStranded
<1>2. /\ ClosedWoken /\ size \in Nat /\ buffer \in Nat
  BY GrantParts
<1>3. SendersWait
  <2>1. senders \in Seq(Cort) /\ last_sender \in Cort \union {NoCort}
    BY PlaceParts DEF ListOK
  <2>2. Range(<< >>) = {}
    BY DEF Range
  <2> QED
    BY <1>1, <2>1, <2>2, JoinedFacts DEF WaitingSenders, SendersWait
<1>4. ~Closed
  BY <1>1, <1>2, <1>3 DEF ClosedWoken
<1>5. SendersCount + PushesAwaited <= size - buffer + Cardinality(Owed(stack))
  BY <1>1, <1>3, <1>4, RoomIs DEF RoomFor
<1>6. Cardinality(Owed(stack)) = 0
  <2>1. Owed(stack) = {}
    BY <1>1 DEF Owed
  <2> QED
    BY <2>1, FS_EmptySet
<1>7. SendersCount \in Nat /\ SendersCount # 0 /\ PushesAwaited \in {0, 1}
  BY <1>3, CountFacts
<1> QED
  BY <1>2, <1>5, <1>6, <1>7

(* With one consumer that does not push, no sender waits, with control     *)
(* back in main, while its object fits in the buffer: every room that a    *)
(* pop or set_buffer_size makes is given to a sender.                      *)
THEOREM SendersServedHolds ==
  ASSUME NEW most, Disciplined, Counts(most)
  PROVE  Spec => []NoSenderStranded
<1> DEFINE Inv == PlaceInv /\ GrantInv(most) /\ RoomInv
<1>1. Init => Inv
  BY InitPlace, InitGrant, InitRoom
<1>2. Inv /\ [Next]_vars => Inv'
  <2>1. SUFFICES ASSUME Inv, [Next]_vars PROVE Inv'
    OBVIOUS
  <2>2. PlaceInv'
    BY <2>1, NextPlace
  <2>3. GrantInv(most)'
    BY <2>1, <2>2, NextGrant
  <2> QED
    BY <2>1, <2>2, <2>3, NextRoom
<1>3. Inv => NoSenderStranded
  BY RoomMade
<1> HIDE DEF Inv
<1> QED
  BY <1>1, <1>2, <1>3, PTL DEF Spec
=============================================================================
