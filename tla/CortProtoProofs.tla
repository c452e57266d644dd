--------------------------- MODULE CortProtoProofs ---------------------------
(* Proofs that the invariants of CortProto hold in every reachable state,   *)
(* for any number of coroutines.                                            *)
EXTENDS CortProto, FiniteSetTheorems, SequenceTheorems, TLAPS

------------------------------------------------------------------------------
(* Lemmas on the operators of the model.                                    *)

(* The non-empty call stack: its top, and what is below it.                 *)
LEMMA StackTop ==
  ASSUME stack \in Seq(Cort), stack # << >>
  PROVE  /\ Len(stack) \in Nat /\ Len(stack) >= 1
         /\ DOMAIN stack = 1 .. Len(stack)
         /\ Top \in Cort /\ Top = stack[Len(stack)]
         /\ Below \in Seq(Cort)
         /\ Len(Below) = Len(stack) - 1
         /\ DOMAIN Below = 1 .. Len(stack) - 1
         /\ \A i \in 1 .. Len(stack) - 1 : Below[i] = stack[i]
<1>1. Len(stack) \in Nat /\ DOMAIN stack = 1 .. Len(stack) /\ Len(stack) >= 1
  BY EmptySeq, LenProperties
<1>2. 1 \in 1 .. Len(stack) + 1 /\ Len(stack) - 1 \in 1 - 1 .. Len(stack)
  BY <1>1
<1>3. /\ Below \in Seq(Cort)
      /\ Len(Below) = Len(stack) - 1
      /\ \A i \in 1 .. Len(stack) - 1 : Below[i] = stack[i]
  BY <1>1, <1>2, SubSeqProperties DEF Below
<1>4. DOMAIN Below = 1 .. Len(stack) - 1
  BY <1>3, LenProperties
<1>5. Top \in Cort
  BY <1>1, ElementOfSeq DEF Top
<1> QED
  BY <1>1, <1>3, <1>4, <1>5 DEF Top

(* Pushing a body on a call stack.                                          *)
LEMMA StackPush ==
  ASSUME NEW s \in Seq(Cort), NEW c \in Cort
  PROVE  /\ Append(s, c) \in Seq(Cort)
         /\ Len(s) \in Nat
         /\ DOMAIN s = 1 .. Len(s)
         /\ DOMAIN Append(s, c) = 1 .. Len(s) + 1
         /\ Len(Append(s, c)) = Len(s) + 1
         /\ Append(s, c)[Len(s) + 1] = c
         /\ \A i \in 1 .. Len(s) : Append(s, c)[i] = s[i]
  OBVIOUS

(* The awaited coroutines of one coroutine are finitely many, and a size_t  *)
(* counts them without overflow.                                            *)
LEMMA KidsBound ==
  ASSUME NEW c \in Cort
  PROVE  /\ IsFiniteSet(Kids(c))
         /\ Cardinality(Kids(c)) \in 0 .. SizeMod - 1
<1>1. Kids(c) \subseteq Cort
  BY DEF Kids
<1>2. IsFiniteSet(Kids(c)) /\ Cardinality(Kids(c)) <= Cardinality(Cort)
  BY <1>1, CortAssumption, FS_Subset
<1>3. Cardinality(Kids(c)) \in Nat /\ Cardinality(Cort) \in Nat
  BY <1>2, CortAssumption, FS_CardinalityType
<1> QED
  BY <1>2, <1>3, CortAssumption

(* A coroutine awaits its kids, and the kids of its kids.                   *)
LEMMA AwaitsKids ==
  ASSUME NEW c \in Cort, NEW d \in Kids(c)
  PROVE  /\ Awaits(c, d)
         /\ \A x \in Kids(d) : Awaits(c, x)
  BY DEF Awaits, Kids

------------------------------------------------------------------------------
(* The initial states.                                                      *)

LEMMA InitInv == Init => IInv
<1> SUFFICES ASSUME Init PROVE IInv
  OBVIOUS
<1> USE DEF Init, Running, Suspended, Status
<1>1. TypeOK
  BY CortAssumption, KidsBound, EmptySeq DEF TypeOK
<1>2. \A c \in Cort : Kids(c) = {}
  BY CortAssumption DEF Kids
<1>3. WaitCountExact
  <2> SUFFICES ASSUME NEW c \in Cort
               PROVE  Cardinality(Kids(c)) = wait_count[c] + count[c]
    BY DEF WaitCountExact
  <2>1. Cardinality(Kids(c)) = 0
    BY <1>2, FS_EmptySet
  <2>2. wait_count[c] = 0 /\ count[c] = 0
    OBVIOUS
  <2> QED
    BY <2>1, <2>2
<1>4. DOMAIN stack = {}
  OBVIOUS
<1>5. NoReentry /\ Apart
  BY <1>4 DEF NoReentry, Apart
<1>6. SavedParentWaits /\ CountsLive /\ Reports
  BY <1>4 DEF SavedParentWaits, CountsLive, Reports
<1> QED
  BY <1>1, <1>3, <1>5, <1>6 DEF IInv

------------------------------------------------------------------------------
(* Starting a coroutine.                                                    *)

(* cort_start keeps the invariant, whoever calls it: an awaiter is the body *)
(* on top of the stack, and a coroutine nobody awaits has no parent.        *)
LEMMA CallStartKeeps ==
  ASSUME IInv, NEW d \in Cort, NEW a \in Cort \union {NoCort}, CallStart(d, a),
         a = NoCort => parent[d] = NoCort,
         a # NoCort => stack # << >> /\ a = Top,
         fuel' \in [Cort -> Nat]
  PROVE  IInv'
<1> USE DEF IInv, CallStart
<1> DEFINE n == Len(stack)
<1>1. /\ stack' \in Seq(Cort) /\ n \in Nat /\ Len(stack') = n + 1
      /\ DOMAIN stack = 1 .. n /\ DOMAIN stack' = 1 .. n + 1
      /\ stack'[n + 1] = d
      /\ \A i \in 1 .. n : stack'[i] = stack[i] /\ stack[i] \in Cort
  <2>1. stack \in Seq(Cort)
    BY DEF TypeOK
  <2> QED
    BY <2>1, StackPush, ElementOfSeq
<1>2. /\ status[d] \notin Running
      /\ status' = [status EXCEPT ![d] = "starting"]
      /\ status'[d] = "starting"
      /\ \A c \in Cort : c # d => status'[c] = status[c]
  BY DEF TypeOK, Running
<1>3. \A i \in 1 .. n : stack[i] # d
  BY <1>1, <1>2 DEF NoReentry
<1>4. \A c \in Cort : Kids(c)' = Kids(c)
  BY <1>2 DEF Kids, Suspended
<1>5. TypeOK'
  BY <1>1 DEF TypeOK, Status, Running
<1>6. NoReentry'
  <2>1. \A i, j \in DOMAIN stack' : stack'[i] = stack'[j] => i = j
    BY <1>1, <1>3 DEF NoReentry
  <2>2. \A c \in Cort : status'[c] \in Running <=> \E i \in DOMAIN stack' : stack'[i] = c
    BY <1>1, <1>2, <1>3 DEF NoReentry, Running
  <2> QED
    BY <2>1, <2>2 DEF NoReentry
<1>7. WaitCountExact'
  BY <1>4 DEF WaitCountExact
<1>8. SavedParentWaits'
  <2> SUFFICES ASSUME NEW c \in Cort, status'[c] = "resumed", save'[c] # NoCort
               PROVE  status'[save'[c]] = "awaiting" /\ wait_count'[save'[c]] > 0
    BY DEF SavedParentWaits
  <2>1. c # d /\ status[c] = "resumed"
    BY <1>2
  <2>2. save'[c] = save[c] /\ save[c] \in Cort
    BY <2>1 DEF TypeOK
  <2>3. status[save[c]] = "awaiting" /\ wait_count[save[c]] > 0
    BY <2>1, <2>2 DEF SavedParentWaits
  <2>4. save[c] # d
    BY <2>3
  <2> QED
    BY <1>2, <2>2, <2>3, <2>4
<1>9. CountsLive'
  BY <1>2 DEF CountsLive, Running
<1>10. Reports'
  <2>1. \A i \in DOMAIN stack' :
          status'[stack'[i]] = "starting" /\ save'[stack'[i]] # NoCort =>
            i > 1 /\ stack'[i - 1] = save'[stack'[i]]
    <3> SUFFICES ASSUME NEW i \in 1 .. n + 1,
                        status'[stack'[i]] = "starting", save'[stack'[i]] # NoCort
                 PROVE  i > 1 /\ stack'[i - 1] = save'[stack'[i]]
      BY <1>1
    <3>1. CASE i = n + 1
      <4>1. stack # << >> /\ a = Top /\ save'[d] = a
        BY <3>1, <1>1 DEF TypeOK
      <4>2. n >= 1 /\ Top = stack[n]
        BY <4>1, StackTop DEF TypeOK
      <4> QED
        BY <3>1, <4>1, <4>2, <1>1
    <3>2. CASE i # n + 1
      <4>1. i \in 1 .. n /\ stack'[i] = stack[i] /\ stack[i] # d
        BY <3>2, <1>1, <1>3
      <4>2. stack[i] \in Cort /\ i \in DOMAIN stack
        BY <4>1, <1>1
      <4>3. status[stack[i]] = "starting" /\ save[stack[i]] = save'[stack[i]]
        BY <4>1, <4>2, <1>2 DEF TypeOK
      <4>4. i > 1 /\ stack[i - 1] = save[stack[i]]
        BY <4>1, <4>2, <4>3 DEF Reports
      <4> QED
        BY <4>1, <4>3, <4>4, <1>1
    <3> QED
      BY <3>1, <3>2
  <2>2. /\ \A c \in Cort : status'[c] = "resumed" => save'[c] = parent'[c]
        /\ \A c \in Cort : status'[c] = "starting" /\ save'[c] = NoCort => parent'[c] = NoCort
        /\ \A c \in Cort : status'[c] = "idle" => parent'[c] = NoCort
    BY <1>2 DEF Reports, TypeOK
  <2> QED
    BY <2>1, <2>2 DEF Reports
<1>11. Apart'
  <2>1. \A x, y \in Cort : Awaits(x, y)' <=> Awaits(x, y)
    BY <1>4 DEF Awaits
  <2>2. \A x \in Cort : ~Awaits(x, d)
    <3> DEFINE T == Cort \ {d}
    <3>1. \A y \in Cort : Kids(y) \subseteq T
      BY <1>2, CortAssumption DEF Kids, Suspended, Running
    <3>2. T \in SUBSET Cort /\ d \notin T
      OBVIOUS
    <3> QED
      BY <3>1, <3>2 DEF Awaits
  <2>3. \A i, j \in 1 .. n + 1 : i < j => ~Awaits(stack'[i], stack'[j])
    <3> SUFFICES ASSUME NEW i \in 1 .. n + 1, NEW j \in 1 .. n + 1, i < j
                 PROVE  ~Awaits(stack'[i], stack'[j])
      OBVIOUS
    <3>1. i \in 1 .. n /\ stack'[i] = stack[i] /\ stack[i] \in Cort
      BY <1>1
    <3>2. CASE j = n + 1
      BY <3>1, <3>2, <2>2, <1>1
    <3>3. CASE j # n + 1
      <4>1. n \in Nat
        BY <1>1
      <4> HIDE DEF n
      <4>2. j \in 1 .. n
        BY <3>3, <4>1
      <4>3. stack'[j] = stack[j]
        BY <4>2, <1>1 DEF n
      <4>4. ~Awaits(stack[i], stack[j])
        BY <3>1, <4>2, <1>1 DEF Apart, n
      <4> QED
        BY <3>1, <4>3, <4>4
    <3> QED
      BY <3>2, <3>3
  <2>4. \A i \in 1 .. n + 1 : stack'[i] \in Cort
    BY <1>1
  <2>5. ASSUME NEW i \in DOMAIN stack', NEW j \in DOMAIN stack', i < j
        PROVE  (~Awaits(stack[i], stack[j]))'
    <3>1. PICK x \in Cort, y \in Cort : x = stack'[i] /\ y = stack'[j]
      BY <2>4, <1>1
    <3>2. ~Awaits(x, y)
      BY <3>1, <2>3, <2>5, <1>1
    <3>3. ~Awaits(x, y)'
      BY <3>2, <2>1
    <3> QED
      BY <3>1, <3>3
  <2> QED
    BY <2>5 DEF Apart
<1> QED
  BY <1>5, <1>6, <1>7, <1>8, <1>9, <1>10, <1>11

LEMMA MainStartKeeps ==
  ASSUME IInv, NEW d \in Cort, MainStart(d)
  PROVE  IInv'
<1>1. parent[d] = NoCort /\ fuel' \in [Cort -> Nat]
  BY DEF MainStart, IInv, Reports, TypeOK
<1> QED
  BY <1>1, CallStartKeeps DEF MainStart

(* A statement leaves the bound on statements a natural number.             *)
LEMMA StatementFuel ==
  ASSUME TypeOK, Statement
  PROVE  Top \in Cort /\ fuel' \in [Cort -> Nat]
<1>1. Top \in Cort
  BY StackTop DEF TypeOK, Statement
<1> QED
  BY <1>1 DEF TypeOK, Statement

LEMMA StartDetachedKeeps ==
  ASSUME IInv, NEW d \in Cort, StartDetached(d)
  PROVE  IInv'
BY StatementFuel, CallStartKeeps DEF StartDetached, IInv

LEMMA AwaitStartKeeps ==
  ASSUME IInv, NEW d \in Cort, AwaitStart(d)
  PROVE  IInv'
<1>1. Top \in Cort /\ fuel' \in [Cort -> Nat] /\ stack # << >>
  BY StatementFuel DEF AwaitStart, IInv, Statement
<1>2. CallStart(d, Top) /\ Top # NoCort
  BY <1>1, CortAssumption DEF AwaitStart
<1> QED
  BY <1>1, <1>2, CallStartKeeps

------------------------------------------------------------------------------
(* Suspending.                                                              *)

(* The body on top of the stack returns to its awaiter or to resume(),      *)
(* leaving the exact number of its awaited coroutines in its wait count.    *)
LEMMA ReturnThisKeeps ==
  ASSUME IInv, stack # << >>, NEW c \in Cort, c = Top,
         NEW how \in Suspended, NEW waits \in 0 .. SizeMod - 1,
         NEW D \in SUBSET Detached, ReturnThis(c, how, waits, D),
         how = "awaiting" <=> waits # 0,
         Cardinality(Kids(c) \union D) = waits,
         fuel' \in [Cort -> Nat]
  PROVE  IInv'
<1> USE DEF IInv, ReturnThis
<1> DEFINE n == Len(stack)
<1> DEFINE s == save[c]
<1>1. /\ n \in Nat /\ n >= 1
      /\ c = stack[n]
      /\ DOMAIN stack = 1 .. n
      /\ stack' \in Seq(Cort) /\ Len(stack') = n - 1 /\ DOMAIN stack' = 1 .. n - 1
      /\ \A i \in 1 .. n - 1 : stack'[i] = stack[i]
  BY StackTop DEF TypeOK
<1>2. \A i \in 1 .. n : stack[i] \in Cort
  BY <1>1, ElementOfSeq DEF TypeOK
<1> HIDE DEF n
<1>3. \A i \in 1 .. n - 1 : i \in 1 .. n /\ i # n
  <2>1. n \in Nat
    BY <1>1
  <2> QED
    BY <2>1
<1>4. \A i \in 1 .. n - 1 : stack[i] # c
  <2> SUFFICES ASSUME NEW i \in 1 .. n - 1, stack[i] = c
               PROVE  FALSE
    OBVIOUS
  <2>1. i \in DOMAIN stack /\ n \in DOMAIN stack /\ i # n
    BY <1>1, <1>3
  <2> QED
    BY <2>1, <1>1 DEF NoReentry
<1>5. /\ status[c] \in Running
      /\ status'[c] = how
      /\ \A x \in Cort : x # c => status'[x] = status[x]
      /\ \A x \in D : x \in Cort /\ status[x] \in Suspended /\ parent[x] = NoCort /\ x # c
  <2>1. n \in DOMAIN stack
    BY <1>1
  <2>2. status[c] \in Running
    BY <2>1, <1>1 DEF NoReentry
  <2> QED
    BY <2>2 DEF TypeOK, Detached, Running, Suspended
<1>6. Awaited(c) => /\ s \in Cort /\ n - 1 \in 1 .. n - 1 /\ stack[n - 1] = s
                    /\ s # c /\ status[s] \in Running
  <2> SUFFICES ASSUME Awaited(c)
               PROVE  /\ s \in Cort /\ n - 1 \in 1 .. n - 1 /\ stack[n - 1] = s
                      /\ s # c /\ status[s] \in Running
    OBVIOUS
  <2>1. n \in DOMAIN stack /\ status[stack[n]] = "starting" /\ save[stack[n]] # NoCort
    BY <1>1 DEF Awaited
  <2>2. n > 1 /\ stack[n - 1] = s
    BY <2>1, <1>1 DEF Reports
  <2>3. n - 1 \in 1 .. n - 1 /\ n - 1 \in DOMAIN stack
    BY <2>2, <1>1
  <2>4. s \in Cort /\ s # c
    BY <2>2, <2>3, <1>2, <1>4, <1>3
  <2>5. status[s] \in Running
    BY <2>2, <2>3, <2>4 DEF NoReentry
  <2> QED
    BY <2>2, <2>3, <2>4, <2>5
<1>7. /\ \A x \in D : parent'[x] = c
      /\ parent'[c] = IF Awaited(c) THEN s ELSE parent[c]
      /\ \A x \in Cort : x \notin D /\ x # c => parent'[x] = parent[x]
  BY <1>5
<1>8. Kids(c)' = Kids(c) \union D
  <2>1. c \in Kids(c)' <=> c \in Kids(c)
    <3>1. CASE Awaited(c)
      BY <3>1, <1>5, <1>6, <1>7 DEF Kids, Awaited, Suspended
    <3>2. CASE ~Awaited(c)
      <4>1. status[c] = "starting" => parent[c] = NoCort
        BY <3>2 DEF Reports, Awaited
      <4> QED
        BY <4>1, <3>2, <1>5, <1>7, CortAssumption DEF Kids, Running, Suspended
    <3> QED
      BY <3>1, <3>2
  <2>2. \A x \in Cort : x # c => (x \in Kids(c)' <=> x \in Kids(c) \union D)
    BY <1>5, <1>7, CortAssumption DEF Kids
  <2> QED
    BY <2>1, <2>2, <1>5 DEF Kids
<1>9. Awaited(c) => Kids(s)' = Kids(s) \union {c} /\ c \notin Kids(s)
  <2> SUFFICES ASSUME Awaited(c) PROVE Kids(s)' = Kids(s) \union {c} /\ c \notin Kids(s)
    OBVIOUS
  <2>1. c \notin Kids(s)
    BY DEF Kids, Awaited, Suspended
  <2>2. c \in Kids(s)'
    BY <1>5, <1>6, <1>7 DEF Kids
  <2>3. \A x \in Cort : x # c => (x \in Kids(s)' <=> x \in Kids(s))
    BY <1>5, <1>6, <1>7, CortAssumption DEF Kids
  <2> QED
    BY <2>1, <2>2, <2>3 DEF Kids
<1>10. \A x \in Cort : x # c /\ ~(Awaited(c) /\ x = s) => Kids(x)' = Kids(x)
  <2> SUFFICES ASSUME NEW x \in Cort, x # c, ~(Awaited(c) /\ x = s)
               PROVE  Kids(x)' = Kids(x)
    OBVIOUS
  <2>1. c \in Kids(x)' <=> c \in Kids(x)
    <3>1. CASE Awaited(c)
      BY <3>1, <1>5, <1>7 DEF Kids, Awaited, Suspended
    <3>2. CASE ~Awaited(c)
      <4>1. status[c] = "starting" => parent[c] = NoCort
        BY <3>2 DEF Reports, Awaited
      <4> QED
        BY <4>1, <3>2, <1>5, <1>7, CortAssumption DEF Kids, Running, Suspended
    <3> QED
      BY <3>1, <3>2
  <2>2. \A y \in Cort : y # c => (y \in Kids(x)' <=> y \in Kids(x))
    BY <1>5, <1>7, CortAssumption DEF Kids
  <2> QED
    BY <2>1, <2>2 DEF Kids
<1>11. TypeOK'
  <2>1. status' \in [Cort -> Status]
    BY DEF TypeOK, Status
  <2>2. parent' \in [Cort -> Cort \union {NoCort}]
    BY DEF TypeOK
  <2>3. count' \in [Cort -> Nat]
    BY DEF TypeOK
  <2> QED
    BY <2>1, <2>2, <2>3, <1>1 DEF TypeOK
<1>12. NoReentry'
  <2>1. ASSUME NEW i \in DOMAIN stack', NEW j \in DOMAIN stack', stack'[i] = stack'[j]
        PROVE  i = j
    <3>1. stack[i] = stack[j] /\ i \in DOMAIN stack /\ j \in DOMAIN stack
      BY <2>1, <1>1, <1>3
    <3> QED
      BY <3>1 DEF NoReentry
  <2>2. ASSUME NEW x \in Cort
        PROVE  status'[x] \in Running <=> \E i \in DOMAIN stack' : stack'[i] = x
    <3>1. CASE x = c
      BY <3>1, <1>1, <1>4, <1>5 DEF Running, Suspended
    <3>2. CASE x # c
      <4>1. (\E i \in 1 .. n : stack[i] = x) <=> (\E i \in 1 .. n - 1 : stack[i] = x)
        BY <3>2, <1>1
      <4>2. status[x] \in Running <=> \E i \in 1 .. n : stack[i] = x
        BY <1>1 DEF NoReentry
      <4> QED
        BY <4>1, <4>2, <3>2, <1>1, <1>5
    <3> QED
      BY <3>1, <3>2
  <2> QED
    BY <2>1, <2>2 DEF NoReentry
<1>13. WaitCountExact'
  <2> SUFFICES ASSUME NEW x \in Cort
               PROVE  Cardinality(Kids(x)') = wait_count'[x] + count'[x]
    BY DEF WaitCountExact
  <2>1. Cardinality(Kids(x)) = wait_count[x] + count[x]
    BY DEF WaitCountExact
  <2>2. wait_count[x] \in Nat /\ count[x] \in Nat
    BY DEF TypeOK
  <2>3. CASE x = c
    <3>1. wait_count'[x] = waits /\ count'[x] = 0
      BY <2>3 DEF TypeOK
    <3>2. Cardinality(Kids(x)') = waits
      BY <2>3, <1>8
    <3>3. waits \in Nat
      BY CortAssumption
    <3> QED
      BY <3>1, <3>2, <3>3
  <2>4. CASE x # c /\ Awaited(c) /\ x = s
    <3>1. wait_count'[x] = wait_count[x] /\ count'[x] = count[x] + 1
      BY <2>4 DEF TypeOK
    <3>2. IsFiniteSet(Kids(x)) /\ c \notin Kids(x) /\ Kids(x)' = Kids(x) \union {c}
      BY <2>4, <1>9, KidsBound
    <3>3. Cardinality(Kids(x)') = Cardinality(Kids(x)) + 1
      BY <3>2, FS_AddElement
    <3> QED
      <4>1. ASSUME NEW k, NEW w \in Nat, NEW m \in Nat, k = w + m
            PROVE  k + 1 = w + (m + 1)
        BY <4>1
      <4>2. Cardinality(Kids(x)) + 1 = wait_count[x] + (count[x] + 1)
        BY <4>1, <2>1, <2>2
      <4> QED
        BY <3>1, <3>3, <4>2
  <2>5. CASE x # c /\ ~(Awaited(c) /\ x = s)
    <3>1. wait_count'[x] = wait_count[x] /\ count'[x] = count[x]
      BY <2>5 DEF TypeOK
    <3> QED
      BY <3>1, <2>1, <2>5, <1>10
  <2> QED
    BY <2>3, <2>4, <2>5
<1>14. SavedParentWaits'
  <2> SUFFICES ASSUME NEW x \in Cort, status'[x] = "resumed", save'[x] # NoCort
               PROVE  status'[save'[x]] = "awaiting" /\ wait_count'[save'[x]] > 0
    BY DEF SavedParentWaits
  <2>1. x # c /\ status[x] = "resumed" /\ save[x] # NoCort /\ save[x] \in Cort
    BY <1>5 DEF Suspended, TypeOK
  <2>2. status[save[x]] = "awaiting" /\ wait_count[save[x]] > 0
    BY <2>1 DEF SavedParentWaits
  <2>3. save[x] # c
    BY <2>2, <1>5 DEF Running
  <2> QED
    BY <2>1, <2>2, <2>3, <1>5 DEF TypeOK
<1>15. CountsLive'
  <2> SUFFICES ASSUME NEW x \in Cort
               PROVE  /\ status'[x] \notin Running => count'[x] = 0
                      /\ status'[x] = "awaiting" <=> wait_count'[x] # 0
    BY DEF CountsLive
  <2>1. CASE x = c
    BY <2>1, <1>5 DEF TypeOK
  <2>2. CASE x # c
    <3>1. /\ status[x] \notin Running => count[x] = 0
          /\ status[x] = "awaiting" <=> wait_count[x] # 0
      BY DEF CountsLive
    <3>2. Awaited(c) /\ x = s => status[x] \in Running
      BY <1>6
    <3> QED
      BY <2>2, <3>1, <3>2, <1>5 DEF TypeOK
  <2> QED
    BY <2>1, <2>2
<1>16. Reports'
  <2>1. ASSUME NEW i \in 1 .. n - 1,
               status'[stack'[i]] = "starting", save'[stack'[i]] # NoCort
        PROVE  i > 1 /\ stack'[i - 1] = save'[stack'[i]]
    <3>1. i \in DOMAIN stack /\ stack'[i] = stack[i] /\ stack[i] # c /\ stack[i] \in Cort
      BY <1>1, <1>2, <1>3, <1>4
    <3>2. i > 1 /\ stack[i - 1] = save[stack[i]]
      BY <3>1, <2>1, <1>5 DEF Reports
    <3>3. i - 1 \in 1 .. n - 1
      BY <3>2, <1>1
    <3> QED
      BY <3>1, <3>2, <3>3, <1>1
  <2>2. \A x \in Cort : status'[x] = "resumed" => save'[x] = parent'[x]
    BY <1>5, <1>7 DEF Reports, Suspended
  <2>3. \A x \in Cort : status'[x] = "starting" /\ save'[x] = NoCort => parent'[x] = NoCort
    BY <1>5, <1>7 DEF Reports, Suspended
  <2>4. \A x \in Cort : status'[x] = "idle" => parent'[x] = NoCort
    BY <1>5, <1>7 DEF Reports, Suspended
  <2> QED
    BY <2>1, <2>2, <2>3, <2>4, <1>1 DEF Reports
<1>17. Apart'
  <2>1. ASSUME NEW i \in 1 .. n - 1, NEW j \in 1 .. n - 1, i < j,
               NEW x \in Cort, NEW y \in Cort, x = stack[i], y = stack[j]
        PROVE  ~Awaits(x, y)'
    <3>1. /\ i \in DOMAIN stack /\ j \in DOMAIN stack /\ n \in DOMAIN stack /\ i < n
          /\ n - 1 \in DOMAIN stack /\ i < n - 1
          /\ stack[n - 1] \in Cort
      BY <2>1, <1>1, <1>2
    <3>2. ~Awaits(x, y) /\ ~Awaits(x, c) /\ ~Awaits(x, stack[n - 1])
      BY <2>1, <3>1, <1>1 DEF Apart
    <3>3. PICK T1 \in SUBSET Cort : /\ Kids(x) \subseteq T1 /\ y \notin T1
                                    /\ \A z \in T1 : Kids(z) \subseteq T1
      BY <3>2 DEF Awaits
    <3>4. PICK T2 \in SUBSET Cort : /\ Kids(x) \subseteq T2 /\ c \notin T2
                                    /\ \A z \in T2 : Kids(z) \subseteq T2
      BY <3>2 DEF Awaits
    <3>5. PICK T3 \in SUBSET Cort : /\ Kids(x) \subseteq T3 /\ stack[n - 1] \notin T3
                                    /\ \A z \in T3 : Kids(z) \subseteq T3
      BY <3>2 DEF Awaits
    <3> DEFINE T == T1 \cap T2 \cap T3
    <3>6. \A z \in T : z \in Cort /\ z # c /\ ~(Awaited(c) /\ z = s)
      BY <3>4, <3>5, <1>6
    <3>7. \A z \in T : Kids(z)' \subseteq T
      BY <3>3, <3>4, <3>5, <3>6, <1>10
    <3>8. x # c /\ ~(Awaited(c) /\ x = s)
      BY <2>1, <3>1, <1>1, <1>4, <1>6 DEF NoReentry
    <3>9. Kids(x)' \subseteq T
      BY <3>3, <3>4, <3>5, <3>8, <1>10
    <3>10. y \notin T /\ T \in SUBSET Cort
      BY <3>3
    <3> HIDE DEF T
    <3> QED
      BY <3>7, <3>9, <3>10 DEF Awaits
  <2>2. ASSUME NEW i \in DOMAIN stack', NEW j \in DOMAIN stack', i < j
        PROVE  (~Awaits(stack[i], stack[j]))'
    <3>1. /\ i \in 1 .. n - 1 /\ j \in 1 .. n - 1
          /\ stack'[i] = stack[i] /\ stack'[j] = stack[j]
      BY <1>1
    <3>2. PICK x \in Cort, y \in Cort : x = stack[i] /\ y = stack[j]
      BY <3>1, <1>2, <1>3
    <3>3. ~Awaits(x, y)'
      BY <3>1, <3>2, <2>1, <2>2
    <3> QED
      BY <3>1, <3>2, <3>3
  <2> QED
    BY <2>2 DEF Apart
<1> QED
  BY <1>11, <1>12, <1>13, <1>14, <1>15, <1>16, <1>17

LEMMA EndAwaitKeeps ==
  ASSUME IInv, EndAwait
  PROVE  IInv'
<1> DEFINE c == Top
<1>1. c \in Cort /\ stack # << >> /\ count[c] # 0
  BY StackTop DEF EndAwait, IInv, TypeOK
<1>2. status[c] # "awaiting"
  BY <1>1 DEF EndAwait, IInv, CountsLive, Running
<1>3. wait_count[c] = 0
  BY <1>1, <1>2 DEF IInv, CountsLive
<1>4. Cardinality(Kids(c)) = count[c]
  BY <1>1, <1>3 DEF IInv, WaitCountExact, TypeOK
<1>5. Kids(c) \union {} = Kids(c) /\ count[c] \in 0 .. SizeMod - 1
  BY <1>1, <1>4, KidsBound
<1>6. ReturnThis(c, "awaiting", count[c], {}) /\ fuel' \in [Cort -> Nat]
  BY DEF EndAwait, AwaitCount, IInv, TypeOK
<1> QED
  BY <1>1, <1>4, <1>5, <1>6, ReturnThisKeeps DEF Suspended

(* A running body in none of its await statements awaits nobody.            *)
LEMMA NoKids ==
  ASSUME IInv, stack # << >>, count[Top] = 0
  PROVE  /\ Top \in Cort /\ status[Top] \in Running
         /\ Kids(Top) = {} /\ wait_count[Top] = 0
<1>1. Top \in Cort /\ Len(stack) \in DOMAIN stack /\ stack[Len(stack)] = Top
  BY StackTop DEF IInv, TypeOK
<1>2. status[Top] \in Running
  BY <1>1 DEF IInv, NoReentry
<1>3. wait_count[Top] = 0
  BY <1>1, <1>2 DEF IInv, CountsLive, Running
<1>4. Cardinality(Kids(Top)) = 0
  BY <1>1, <1>3 DEF IInv, WaitCountExact
<1>5. Kids(Top) = {}
  BY <1>1, <1>4, KidsBound, FS_EmptySet
<1> QED
  BY <1>1, <1>2, <1>3, <1>5

LEMMA YieldKeeps ==
  ASSUME IInv, Yield
  PROVE  IInv'
<1>1. /\ Top \in Cort /\ Kids(Top) = {} /\ wait_count[Top] = 0
      /\ stack # << >> /\ fuel' \in [Cort -> Nat]
  BY NoKids, StatementFuel DEF Yield, Statement, IInv
<1>2. Cardinality(Kids(Top) \union {}) = 0
  BY <1>1, FS_EmptySet
<1>3. 0 \in 0 .. SizeMod - 1
  BY <1>1, KidsBound, CortAssumption
<1>4. ReturnThis(Top, "yielded", 0, {})
  BY <1>1 DEF Yield
<1> QED
  BY <1>1, <1>2, <1>3, <1>4, ReturnThisKeeps DEF Suspended

LEMMA UntilKeeps ==
  ASSUME IInv, NEW D \in SUBSET Detached, Until(D)
  PROVE  IInv'
<1>1. /\ Top \in Cort /\ Kids(Top) = {} /\ wait_count[Top] = 0
      /\ stack # << >> /\ fuel' \in [Cort -> Nat]
  BY NoKids, StatementFuel DEF Until, Statement, IInv
<1>2. D \subseteq Cort
  BY DEF Detached
<1>3. Cardinality(D) \in 0 .. SizeMod - 1 /\ Cardinality(D) # 0
  <2>1. IsFiniteSet(D) /\ Cardinality(D) <= Cardinality(Cort)
    BY <1>2, CortAssumption, FS_Subset
  <2>2. Cardinality(D) \in Nat /\ Cardinality(Cort) \in Nat
    BY <2>1, CortAssumption, FS_CardinalityType
  <2>3. Cardinality(D) # 0
    BY <2>1, FS_EmptySet DEF Until
  <2> QED
    BY <2>1, <2>2, <2>3, CortAssumption
<1>4. (0 + Cardinality(D)) % SizeMod = Cardinality(D)
  BY <1>3, CortAssumption
<1>5. Cardinality(Kids(Top) \union D) = Cardinality(D)
  BY <1>1
<1>6. ReturnThis(Top, "awaiting", Cardinality(D), D)
  BY <1>1, <1>4 DEF Until
<1> QED
  BY <1>1, <1>3, <1>5, <1>6, ReturnThisKeeps DEF Suspended

------------------------------------------------------------------------------
(* Finishing and resuming.                                                  *)

(* Who awaits the awaiter of c awaits c.                                    *)
LEMMA AwaitsStep ==
  ASSUME NEW x \in Cort, NEW p \in Cort, NEW c \in Kids(p), Awaits(x, p)
  PROVE  Awaits(x, c)
BY DEF Awaits

(* A suspended coroutine that no running body awaits, at any depth, is      *)
(* awaited by a coroutine that returned from its await statement.           *)
LEMMA ParentAwaiting ==
  ASSUME IInv, NEW p \in Cort, status[p] \in Suspended, parent[p] # NoCort,
         \A i \in DOMAIN stack : ~Awaits(stack[i], p)
  PROVE  /\ parent[p] \in Cort /\ p \in Kids(parent[p])
         /\ status[parent[p]] = "awaiting" /\ wait_count[parent[p]] > 0
<1> DEFINE q == parent[p]
<1>1. q \in Cort /\ p \in Kids(q)
  BY DEF IInv, TypeOK, Kids
<1>2. Awaits(q, p)
  BY <1>1, AwaitsKids
<1>3. status[q] \notin Running
  BY <1>1, <1>2 DEF IInv, NoReentry
<1>4. Cardinality(Kids(q)) # 0 /\ Cardinality(Kids(q)) \in Nat
  BY <1>1, KidsBound, FS_EmptySet, FS_CardinalityType
<1>5. count[q] = 0
  BY <1>1, <1>3 DEF IInv, CountsLive
<1>6. Cardinality(Kids(q)) = wait_count[q] + 0 /\ wait_count[q] \in Nat
  BY <1>1, <1>5 DEF IInv, WaitCountExact, TypeOK
<1>7. wait_count[q] > 0
  BY <1>4, <1>6
<1>8. status[q] = "awaiting"
  BY <1>1, <1>7 DEF IInv, CountsLive
<1> QED
  BY <1>1, <1>7, <1>8

(* Decrementing a positive count does not wrap.                             *)
LEMMA DecrPositive ==
  ASSUME NEW w \in 1 .. SizeMod - 1
  PROVE  Decr(w) = w - 1 /\ Decr(w) \in 0 .. SizeMod - 1
<1>1. SizeMod \in Nat /\ w - 1 \in 0 .. SizeMod - 1
  BY CortAssumption
<1>2. SizeMod > 0
  BY <1>1
<1>3. (w - 1) % SizeMod = w - 1
  BY <1>1, <1>2
<1> QED
  BY <1>1, <1>3 DEF Decr

(* The body on top of the stack returns 0, and resume() goes on with the    *)
(* saved parent if that was the last coroutine it waited for.               *)
LEMMA ReturnZeroKeeps ==
  ASSUME IInv, stack # << >>, NEW c \in Cort, c = Top, count[c] = 0,
         NEW p \in Cort \union {NoCort}, p = save[c],
         NEW end \in {"finished", "deleted"}, ReturnZero(c, end),
         parent' \in [Cort -> Cort \union {NoCort}],
         \A x \in Cort : x # c => parent'[x] = parent[x],
         fuel' \in [Cort -> Nat]
  PROVE  IInv'
<1> USE DEF IInv
<1> DEFINE n == Len(stack)
<1> DEFINE left == Decr(wait_count[p])
<1> DEFINE linked == status[c] = "resumed" /\ p # NoCort
<1> DEFINE goesOn == linked /\ left = 0
<1>0. n \in Nat /\ n >= 1 /\ DOMAIN stack = 1 .. n
  BY StackTop DEF TypeOK
<1>1. /\ n \in Nat /\ n >= 1 /\ n \in DOMAIN stack
      /\ c = stack[n]
      /\ DOMAIN stack = 1 .. n
      /\ Below \in Seq(Cort) /\ Len(Below) = n - 1 /\ DOMAIN Below = 1 .. n - 1
      /\ \A i \in 1 .. n - 1 : Below[i] = stack[i]
  <2>1. n \in 1 .. n
    BY <1>0
  <2> QED
    BY <1>0, <2>1, StackTop DEF TypeOK
<1>2. \A i \in 1 .. n : stack[i] \in Cort
  BY <1>1, ElementOfSeq DEF TypeOK
<1>3. /\ status[c] \in Running /\ Kids(c) = {} /\ wait_count[c] = 0
  BY NoKids
<1>4. /\ count' = count /\ then' = then
      /\ ~linked => /\ stack' = Below
                    /\ status' = [status EXCEPT ![c] = end]
                    /\ UNCHANGED <<wait_count, save>>
      /\ linked => wait_count' = [wait_count EXCEPT ![p] = left]
      /\ linked /\ ~goesOn => /\ stack' = Below
                              /\ status' = [status EXCEPT ![c] = end]
                              /\ save' = save
      /\ goesOn => /\ stack' = Append(Below, p)
                   /\ status' = [status EXCEPT ![c] = end, ![p] = "resumed"]
                   /\ save' = [save EXCEPT ![p] = parent[p]]
  BY <1>3 DEF ReturnZero, Running, AllDone
<1>5. linked => /\ p \in Cort /\ p # c /\ p = parent[c] /\ c \in Kids(p)
                /\ status[p] = "awaiting" /\ wait_count[p] > 0
                /\ left = wait_count[p] - 1 /\ left \in 0 .. SizeMod - 1
  <2> SUFFICES ASSUME linked
               PROVE  /\ p \in Cort /\ p # c /\ p = parent[c] /\ c \in Kids(p)
                      /\ status[p] = "awaiting" /\ wait_count[p] > 0
                      /\ left = wait_count[p] - 1 /\ left \in 0 .. SizeMod - 1
    OBVIOUS
  <2>1. p \in Cort /\ p = parent[c] /\ status[p] = "awaiting" /\ wait_count[p] > 0
    BY DEF TypeOK, Reports, SavedParentWaits
  <2>2. c \in Kids(p) /\ p # c
    BY <2>1 DEF Kids
  <2>3. wait_count[p] \in 0 .. SizeMod - 1 /\ SizeMod \in Nat
    BY <2>1, CortAssumption DEF TypeOK
  <2>4. wait_count[p] \in 1 .. SizeMod - 1
    BY <2>1, <2>3
  <2>5. left = wait_count[p] - 1 /\ left \in 0 .. SizeMod - 1
    BY <2>4, DecrPositive
  <2> QED
    BY <2>1, <2>2, <2>5
<1> HIDE DEF n, left
<1>6. /\ status'[c] = end
      /\ goesOn => status'[p] = "resumed"
      /\ \A x \in Cort : x # c /\ ~(goesOn /\ x = p) => status'[x] = status[x]
  BY <1>3, <1>4, <1>5 DEF TypeOK
<1>7. \A x \in Cort : Kids(x)' = Kids(x) \ {c}
  <2> SUFFICES ASSUME NEW x \in Cort, NEW y \in Cort
               PROVE  y \in Kids(x)' <=> y \in Kids(x) \ {c}
    BY DEF Kids
  <2>1. CASE y = c
    BY <2>1, <1>6 DEF Kids, Suspended
  <2>2. CASE y # c /\ goesOn /\ y = p
    BY <2>2, <1>5, <1>6 DEF Kids, Suspended
  <2>3. CASE y # c /\ ~(goesOn /\ y = p)
    BY <2>3, <1>6 DEF Kids
  <2> QED
    BY <2>1, <2>2, <2>3
<1>8. \A x \in Cort : c \in Kids(x) => linked /\ x = p
  <2> SUFFICES ASSUME NEW x \in Cort, c \in Kids(x) PROVE linked /\ x = p
    OBVIOUS
  <2>1. status[c] = "resumed" /\ parent[c] = x /\ save[c] = parent[c]
    BY <1>3 DEF Kids, Running, Suspended, Reports
  <2> QED
    BY <2>1, CortAssumption
<1>9. \A x \in Cort : x # p \/ ~linked => Kids(x)' = Kids(x)
  <2> SUFFICES ASSUME NEW x \in Cort, x # p \/ ~linked PROVE Kids(x)' = Kids(x)
    OBVIOUS
  <2>1. c \notin Kids(x)
    BY <1>8
  <2> QED
    BY <2>1, <1>7
<1>10. linked => Cardinality(Kids(p)') = left
  <2> SUFFICES ASSUME linked PROVE Cardinality(Kids(p)') = left
    OBVIOUS
  <2>1. Cardinality(Kids(p)) = wait_count[p] + count[p] /\ count[p] = 0
    BY <1>5 DEF WaitCountExact, CountsLive, Running
  <2>2. Cardinality(Kids(p) \ {c}) = Cardinality(Kids(p)) - 1
    BY <1>5, KidsBound, FS_RemoveElement
  <2>3. Cardinality(Kids(p)) = wait_count[p] /\ wait_count[p] \in Nat
    BY <2>1, <1>5 DEF TypeOK
  <2>4. Cardinality(Kids(p) \ {c}) = wait_count[p] - 1
    BY <2>2, <2>3
  <2>5. Kids(p)' = Kids(p) \ {c}
    BY <1>7, <1>5
  <2> QED
    BY <2>4, <2>5, <1>5
<1>11. goesOn => Kids(p) = {c}
  <2> SUFFICES ASSUME goesOn PROVE Kids(p) = {c}
    OBVIOUS
  <2>1. IsFiniteSet(Kids(p) \ {c})
    BY <1>5, KidsBound, FS_RemoveElement
  <2>2. Cardinality(Kids(p) \ {c}) = 0
    BY <1>10, <1>7, <1>5
  <2>3. Kids(p) \ {c} = {}
    BY <2>1, <2>2, FS_EmptySet
  <2> QED
    BY <2>3, <1>5
<1>12. \A i \in 1 .. n - 1 : i \in 1 .. n /\ i < n
  <2>1. n \in Nat
    BY <1>1
  <2> QED
    BY <2>1
<1>13. \A i \in 1 .. n - 1 : stack[i] # c
  <2> SUFFICES ASSUME NEW i \in 1 .. n - 1, stack[i] = c
               PROVE  FALSE
    OBVIOUS
  <2>1. i \in DOMAIN stack /\ i # n
    BY <1>1, <1>12
  <2> QED
    BY <2>1, <1>1 DEF NoReentry
<1>14. goesOn => \A i \in 1 .. n : stack[i] # p
  BY <1>1, <1>5 DEF NoReentry, Running
<1>15. /\ stack' \in Seq(Cort)
       /\ \A i \in 1 .. n - 1 : stack'[i] = stack[i]
       /\ ~goesOn => DOMAIN stack' = 1 .. n - 1
       /\ goesOn => DOMAIN stack' = 1 .. n /\ stack'[n] = p
  <2>1. CASE goesOn
    <3>1. stack' = Append(Below, p) /\ p \in Cort
      BY <2>1, <1>4, <1>5
    <3>2. /\ stack' \in Seq(Cort)
          /\ DOMAIN stack' = 1 .. Len(Below) + 1
          /\ stack'[Len(Below) + 1] = p
          /\ \A i \in 1 .. Len(Below) : stack'[i] = Below[i]
      BY <3>1, <1>1, StackPush
    <3>3. Len(Below) = n - 1 /\ (n - 1) + 1 = n
      BY <1>1
    <3> QED
      BY <2>1, <3>2, <3>3, <1>1
  <2>2. CASE ~goesOn
    BY <2>2, <1>1, <1>4
  <2> QED
    BY <2>1, <2>2
<1>16. \A i \in DOMAIN stack' : i \in 1 .. n - 1 \/ (goesOn /\ i = n)
  <2>1. n \in Nat
    BY <1>1
  <2> QED
    BY <2>1, <1>15
<1>17. goesOn => \A i \in DOMAIN stack : ~Awaits(stack[i], p)
  <2> SUFFICES ASSUME goesOn, NEW i \in 1 .. n, Awaits(stack[i], p)
               PROVE  FALSE
    BY <1>1
  <2>1. Awaits(stack[i], c) /\ p \in Cort /\ stack[i] \in Cort
    BY <1>2, <1>5, AwaitsStep
  <2>2. CASE i = n
    <3>1. ~Awaits(c, c)
      BY <1>3 DEF Awaits
    <3> QED
      BY <2>1, <2>2, <3>1, <1>1
  <2>3. CASE i # n
    <3>1. i < n /\ i \in DOMAIN stack /\ n \in DOMAIN stack
      BY <2>3, <1>1
    <3> QED
      BY <2>1, <3>1, <1>1 DEF Apart
  <2> QED
    BY <2>2, <2>3
<1>18. goesOn /\ parent[p] # NoCort =>
         /\ parent[p] \in Cort /\ parent[p] # p /\ parent[p] # c
         /\ status[parent[p]] = "awaiting" /\ wait_count[parent[p]] > 0
  <2> SUFFICES ASSUME goesOn, parent[p] # NoCort
               PROVE  /\ parent[p] \in Cort /\ parent[p] # p /\ parent[p] # c
                      /\ status[parent[p]] = "awaiting" /\ wait_count[parent[p]] > 0
    OBVIOUS
  <2>1. /\ parent[p] \in Cort /\ p \in Kids(parent[p])
        /\ status[parent[p]] = "awaiting" /\ wait_count[parent[p]] > 0
    BY <1>5, <1>17, ParentAwaiting DEF Suspended
  <2>2. parent[p] # p
    BY <2>1, <1>5, <1>11
  <2> QED
    BY <2>1, <2>2, <1>3 DEF Running
<1>19. TypeOK'
  <2>0. linked \/ ~linked
    OBVIOUS
  <2> HIDE DEF linked, goesOn
  <2>1. status' \in [Cort -> Status]
    BY <1>4, <1>5 DEF TypeOK, Status, Running
  <2>2. wait_count' \in [Cort -> 0 .. SizeMod - 1]
    <3>1. CASE linked
      <4>1. wait_count' = [wait_count EXCEPT ![p] = left] /\ left \in 0 .. SizeMod - 1
        BY <3>1, <1>4, <1>5
      <4> QED
        BY ONLY <4>1, TypeOK DEF TypeOK
    <3>2. CASE ~linked
      BY <3>2, <1>4 DEF TypeOK
    <3> QED
      BY <3>1, <3>2
  <2>3. save' \in [Cort -> Cort \union {NoCort}]
    BY <1>4, <1>5 DEF TypeOK
  <2> QED
    BY <2>1, <2>2, <2>3, <1>4, <1>15 DEF TypeOK
<1>20. NoReentry'
  <2>1. ASSUME NEW i \in DOMAIN stack', NEW j \in DOMAIN stack', stack'[i] = stack'[j]
        PROVE  i = j
    <3>1. CASE i \in 1 .. n - 1 /\ j \in 1 .. n - 1
      BY <2>1, <3>1, <1>1, <1>12, <1>15 DEF NoReentry
    <3>2. CASE goesOn /\ i = n /\ j \in 1 .. n - 1
      BY <2>1, <3>2, <1>12, <1>14, <1>15
    <3>3. CASE goesOn /\ j = n /\ i \in 1 .. n - 1
      BY <2>1, <3>3, <1>12, <1>14, <1>15
    <3> QED
      BY <2>1, <3>1, <3>2, <3>3, <1>16
  <2>2. ASSUME NEW x \in Cort
        PROVE  status'[x] \in Running <=> \E i \in DOMAIN stack' : stack'[i] = x
    <3>1. status[x] \in Running <=> \E i \in 1 .. n : stack[i] = x
      BY <1>1 DEF NoReentry
    <3>2. CASE x = c
      BY <3>2, <1>5, <1>6, <1>13, <1>15, <1>16 DEF Running
    <3>3. CASE goesOn /\ x = p
      BY <3>3, <1>1, <1>6, <1>15 DEF Running
    <3>4. CASE x # c /\ ~(goesOn /\ x = p)
      <4>1. (\E i \in 1 .. n : stack[i] = x) <=> (\E i \in 1 .. n - 1 : stack[i] = x)
        BY <3>4, <1>1, <1>12
      <4>2. (\E i \in DOMAIN stack' : stack'[i] = x) <=> (\E i \in 1 .. n - 1 : stack[i] = x)
        BY <3>4, <1>12, <1>15, <1>16
      <4> QED
        BY <4>1, <4>2, <3>1, <3>4, <1>6
    <3> QED
      BY <3>2, <3>3, <3>4
  <2> QED
    BY <2>1, <2>2 DEF NoReentry
<1>21. WaitCountExact'
  <2> SUFFICES ASSUME NEW x \in Cort
               PROVE  Cardinality(Kids(x)') = wait_count'[x] + count'[x]
    BY DEF WaitCountExact
  <2>1. CASE linked /\ x = p
    <3>1. wait_count'[x] = left /\ count'[x] = 0
      BY <2>1, <1>4, <1>5 DEF TypeOK, CountsLive, Running
    <3>2. left \in Nat
      BY <2>1, <1>5
    <3>3. Cardinality(Kids(x)') = left
      BY <2>1, <1>10
    <3>4. left = left + 0
      BY <3>2
    <3> QED
      BY <3>1, <3>3, <3>4
  <2>2. CASE ~(linked /\ x = p)
    <3>1. wait_count'[x] = wait_count[x] /\ count'[x] = count[x]
      BY <2>2, <1>4 DEF TypeOK
    <3>2. Kids(x)' = Kids(x)
      BY <2>2, <1>9
    <3>3. Cardinality(Kids(x)) = wait_count[x] + count[x]
      BY DEF WaitCountExact
    <3> QED
      BY <3>1, <3>2, <3>3
  <2> QED
    BY <2>1, <2>2
<1>22. SavedParentWaits'
  <2> SUFFICES ASSUME NEW x \in Cort, status'[x] = "resumed", save'[x] # NoCort
               PROVE  status'[save'[x]] = "awaiting" /\ wait_count'[save'[x]] > 0
    BY DEF SavedParentWaits
  <2>1. x # c
    BY <1>6
  <2>2. CASE goesOn /\ x = p
    <3>1. save'[x] = parent[p]
      BY <2>2, <1>4, <1>5 DEF TypeOK
    <3> QED
      BY <2>2, <3>1, <1>4, <1>5, <1>6, <1>18 DEF TypeOK
  <2>3. CASE ~(goesOn /\ x = p)
    <3>1. status[x] = "resumed" /\ save'[x] = save[x] /\ save[x] \in Cort
      <4>1. status[x] = "resumed"
        BY <2>1, <2>3, <1>6
      <4>2. save'[x] = save[x]
        BY <2>1, <2>3, <1>4 DEF TypeOK
      <4>3. save[x] \in Cort
        BY <4>2 DEF TypeOK
      <4> QED
        BY <4>1, <4>2, <4>3
    <3> DEFINE q == save[x]
    <3>2. status[q] = "awaiting" /\ wait_count[q] > 0 /\ q # c
      BY <3>1, <1>3 DEF SavedParentWaits, Running
    <3>3. CASE linked /\ q = p
      <4>1. x \in Kids(p)
        BY <3>1, <3>3 DEF Reports, Kids
      <4>2. ~goesOn
        BY <4>1, <2>1, <1>11
      <4>3. wait_count'[p] = left /\ left > 0 /\ status'[p] = "awaiting"
        BY <4>2, <3>3, <1>4, <1>5, <1>6 DEF TypeOK
      <4> QED
        BY <4>3, <3>1, <3>3
    <3>4. CASE ~(linked /\ q = p)
      <4>1. wait_count'[q] = wait_count[q] /\ status'[q] = status[q]
        BY <3>1, <3>2, <3>4, <1>4, <1>6 DEF TypeOK
      <4> QED
        BY <4>1, <3>1, <3>2
    <3> QED
      BY <3>3, <3>4
  <2> QED
    BY <2>2, <2>3
<1>23. CountsLive'
  <2> SUFFICES ASSUME NEW x \in Cort
               PROVE  /\ status'[x] \notin Running => count'[x] = 0
                      /\ status'[x] = "awaiting" <=> wait_count'[x] # 0
    BY DEF CountsLive
  <2>1. /\ status[x] \notin Running => count[x] = 0
        /\ status[x] = "awaiting" <=> wait_count[x] # 0
    BY DEF CountsLive
  <2>2. CASE x = c
    BY <2>2, <1>3, <1>4, <1>5 DEF TypeOK
  <2>3. CASE goesOn /\ x = p
    BY <2>3, <1>4, <1>5, <1>6 DEF TypeOK, Running
  <2>4. CASE x # c /\ ~(goesOn /\ x = p)
    BY <2>1, <2>4, <1>4, <1>5, <1>6 DEF TypeOK
  <2> QED
    BY <2>2, <2>3, <2>4
<1>24. Reports'
  <2>1. ASSUME NEW i \in DOMAIN stack',
               status'[stack'[i]] = "starting", save'[stack'[i]] # NoCort
        PROVE  i > 1 /\ stack'[i - 1] = save'[stack'[i]]
    <3>1. i \in 1 .. n - 1
      BY <2>1, <1>6, <1>15, <1>16
    <3>2. /\ i \in DOMAIN stack /\ stack'[i] = stack[i] /\ stack[i] \in Cort
          /\ stack[i] # c /\ ~(goesOn /\ stack[i] = p)
      BY <3>1, <1>1, <1>2, <1>12, <1>13, <1>14, <1>15
    <3>3. status[stack[i]] = "starting" /\ save[stack[i]] = save'[stack[i]]
      BY <2>1, <3>2, <1>4, <1>6 DEF TypeOK
    <3>4. i > 1 /\ stack[i - 1] = save[stack[i]]
      BY <2>1, <3>2, <3>3 DEF Reports
    <3>5. i - 1 \in 1 .. n - 1
      <4>1. n \in Nat
        BY <1>1
      <4> QED
        BY <4>1, <3>1, <3>4
    <3> QED
      BY <3>2, <3>3, <3>4, <3>5, <1>15
  <2>2. ASSUME NEW x \in Cort
        PROVE  /\ status'[x] = "resumed" => save'[x] = parent'[x]
               /\ status'[x] = "starting" /\ save'[x] = NoCort => parent'[x] = NoCort
               /\ status'[x] = "idle" => parent'[x] = NoCort
    <3>1. CASE x = c
      BY <3>1, <1>6
    <3>2. CASE x # c /\ goesOn /\ x = p
      BY <3>2, <1>4, <1>5, <1>6 DEF TypeOK
    <3>3. CASE x # c /\ ~(goesOn /\ x = p)
      <4>1. /\ status[x] = "resumed" => save[x] = parent[x]
            /\ status[x] = "starting" /\ save[x] = NoCort => parent[x] = NoCort
            /\ status[x] = "idle" => parent[x] = NoCort
        BY DEF Reports
      <4> QED
        BY <3>3, <4>1, <1>4, <1>6 DEF TypeOK
    <3> QED
      BY <3>1, <3>2, <3>3
  <2> QED
    BY <2>1, <2>2 DEF Reports
<1>25. Apart'
  <2>1. \A x, y \in Cort : Awaits(x, y)' => Awaits(x, y)
    <3>1. \A x \in Cort : Kids(x)' \subseteq Kids(x)
      BY <1>7
    <3> QED
      BY <3>1 DEF Awaits
  <2>2. ASSUME NEW i \in DOMAIN stack', NEW j \in DOMAIN stack', i < j
        PROVE  (~Awaits(stack[i], stack[j]))'
    <3>1. i \in 1 .. n - 1 /\ i \in DOMAIN stack /\ stack'[i] = stack[i]
      BY <2>2, <1>1, <1>12, <1>15, <1>16
    <3>2. PICK x \in Cort, y \in Cort : x = stack[i] /\ y = stack'[j]
      BY <3>1, <1>2, <1>1, <1>5, <1>12, <1>15, <1>16
    <3>3. ~Awaits(x, y)
      <4>1. CASE goesOn /\ j = n
        BY <4>1, <3>1, <3>2, <1>15, <1>17
      <4>2. CASE j \in 1 .. n - 1
        <5>1. j \in DOMAIN stack /\ stack'[j] = stack[j]
          BY <4>2, <1>1, <1>12, <1>15
        <5> QED
          BY <5>1, <3>1, <3>2, <2>2 DEF Apart
      <4> QED
        BY <4>1, <4>2, <1>16
    <3>4. ~Awaits(x, y)'
      BY <3>3, <2>1
    <3> QED
      BY <3>1, <3>2, <3>4
  <2> QED
    BY <2>2 DEF Apart
<1> QED
  BY <1>19, <1>20, <1>21, <1>22, <1>23, <1>24, <1>25

LEMMA FinishKeeps ==
  ASSUME IInv, Finish
  PROVE  IInv'
<1>1. /\ stack # << >> /\ count[Top] = 0 /\ Top \in Cort
      /\ parent' = parent /\ fuel' \in [Cort -> Nat]
      /\ parent \in [Cort -> Cort \union {NoCort}]
      /\ save[Top] \in Cort \union {NoCort}
  BY NoKids DEF Finish, IInv, TypeOK
<1>2. PICK end \in {"finished", "deleted"} : ReturnZero(Top, end)
  BY DEF Finish
<1> QED
  BY <1>1, <1>2, ReturnZeroKeeps

LEMMA ExitKeeps ==
  ASSUME IInv, Exit
  PROVE  IInv'
<1>1. /\ stack # << >> /\ count[Top] = 0 /\ Top \in Cort
      /\ save[Top] \in Cort \union {NoCort}
      /\ fuel' \in [Cort -> Nat]
  BY NoKids, StatementFuel DEF Exit, Statement, IInv, TypeOK
<1>2. /\ parent' \in [Cort -> Cort \union {NoCort}]
      /\ \A x \in Cort : x # Top => parent'[x] = parent[x]
  BY <1>1 DEF Exit, IInv, TypeOK
<1>3. ReturnZero(Top, "finished")
  BY DEF Exit
<1> QED
  BY <1>1, <1>2, <1>3, ReturnZeroKeeps

(* What only changes then, or nothing, keeps the invariant.                 *)
LEMMA SameKeeps ==
  ASSUME IInv, UNCHANGED <<parent, wait_count, status, stack, save, count, fuel>>,
         then' \in [Cort -> BOOLEAN]
  PROVE  IInv'
<1>1. TypeOK'
  BY DEF IInv, TypeOK
<1>2. \A c \in Cort : Kids(c)' = Kids(c)
  BY DEF Kids
<1>3. \A x, y \in Cort : Awaits(x, y)' <=> Awaits(x, y)
  BY <1>2 DEF Awaits
<1>4. NoReentry' /\ SavedParentWaits' /\ CountsLive' /\ Reports'
  BY DEF IInv, NoReentry, SavedParentWaits, CountsLive, Reports
<1>5. WaitCountExact'
  BY <1>2 DEF IInv, WaitCountExact
<1>6. Apart'
  <2>1. ASSUME NEW i \in DOMAIN stack', NEW j \in DOMAIN stack', i < j
        PROVE  (~Awaits(stack[i], stack[j]))'
    <3>1. PICK x \in Cort, y \in Cort : x = stack[i] /\ y = stack[j]
      BY ElementOfSeq, LenProperties DEF IInv, TypeOK
    <3>2. ~Awaits(x, y)
      BY <2>1, <3>1 DEF IInv, Apart
    <3> QED
      BY <3>1, <3>2, <1>3
  <2> QED
    BY <2>1 DEF Apart
<1> QED
  BY <1>1, <1>4, <1>5, <1>6 DEF IInv

LEMMA CallThenKeeps ==
  ASSUME IInv, CallThen
  PROVE  IInv'
<1>1. then' \in [Cort -> BOOLEAN]
  BY DEF CallThen, IInv, TypeOK
<1> QED
  BY <1>1, SameKeeps DEF CallThen

LEMMA ResumeKeeps ==
  ASSUME IInv, NEW c \in Cort, Resume(c)
  PROVE  IInv'
<1> USE DEF IInv
<1> DEFINE n == Len(stack)
<1>1. /\ stack' \in Seq(Cort) /\ n \in Nat
      /\ DOMAIN stack = 1 .. n /\ DOMAIN stack' = 1 .. n + 1
      /\ stack'[n + 1] = c
      /\ \A i \in 1 .. n : stack'[i] = stack[i] /\ stack[i] \in Cort
  <2>1. stack \in Seq(Cort)
    BY DEF TypeOK
  <2> QED
    BY <2>1, StackPush, ElementOfSeq DEF Resume, CallResume
<1> HIDE DEF n
<1>2. \A i \in DOMAIN stack : ~Awaits(stack[i], c)
  BY DEF Resume
<1>3. /\ status[c] = "yielded" /\ status'[c] = "resumed"
      /\ \A x \in Cort : x # c => status'[x] = status[x] /\ save'[x] = save[x]
      /\ save'[c] = parent[c]
      /\ UNCHANGED <<parent, wait_count, then, count, fuel>>
  BY DEF Resume, CallResume, TypeOK
<1>4. \A i \in 1 .. n : stack[i] # c
  BY <1>1, <1>3 DEF NoReentry, Running
<1>5. \A x \in Cort : Kids(x)' = Kids(x)
  BY <1>3 DEF Kids, Suspended
<1>6. \A i \in 1 .. n + 1 : i \in 1 .. n \/ i = n + 1
  BY <1>1
<1>7. TypeOK'
  BY <1>1 DEF TypeOK, Resume, CallResume, Status, Running
<1>8. NoReentry'
  <2>1. ASSUME NEW i \in DOMAIN stack', NEW j \in DOMAIN stack', stack'[i] = stack'[j]
        PROVE  i = j
    BY <2>1, <1>1, <1>4, <1>6 DEF NoReentry
  <2>2. ASSUME NEW x \in Cort
        PROVE  status'[x] \in Running <=> \E i \in DOMAIN stack' : stack'[i] = x
    <3>1. status[x] \in Running <=> \E i \in 1 .. n : stack[i] = x
      BY <1>1 DEF NoReentry
    <3>2. \A i \in 1 .. n : i \in 1 .. n + 1
      BY <1>1
    <3>3. n + 1 \in 1 .. n + 1
      BY <1>1
    <3> QED
      BY <3>1, <3>2, <3>3, <1>1, <1>3, <1>6 DEF Running
  <2> QED
    BY <2>1, <2>2 DEF NoReentry
<1>9. WaitCountExact'
  BY <1>3, <1>5 DEF WaitCountExact
<1>10. SavedParentWaits'
  <2>1. parent[c] # NoCort =>
          /\ parent[c] \in Cort /\ parent[c] # c
          /\ status[parent[c]] = "awaiting" /\ wait_count[parent[c]] > 0
    BY <1>2, <1>3, ParentAwaiting DEF Suspended
  <2>2. ASSUME NEW x \in Cort, status'[x] = "resumed", save'[x] # NoCort
        PROVE  status'[save'[x]] = "awaiting" /\ wait_count'[save'[x]] > 0
    <3>1. CASE x = c
      BY <2>1, <2>2, <3>1, <1>3
    <3>2. CASE x # c
      <4>1. status[x] = "resumed" /\ save'[x] = save[x] /\ save[x] \in Cort
        BY <2>2, <3>2, <1>3 DEF TypeOK
      <4>2. status[save[x]] = "awaiting" /\ wait_count[save[x]] > 0 /\ save[x] # c
        BY <2>2, <4>1, <1>3 DEF SavedParentWaits
      <4> QED
        BY <4>1, <4>2, <1>3
    <3> QED
      BY <3>1, <3>2
  <2> QED
    BY <2>2 DEF SavedParentWaits
<1>11. CountsLive'
  BY <1>3 DEF CountsLive, Running
<1>12. Reports'
  <2>1. ASSUME NEW i \in DOMAIN stack',
               status'[stack'[i]] = "starting", save'[stack'[i]] # NoCort
        PROVE  i > 1 /\ stack'[i - 1] = save'[stack'[i]]
    <3>1. /\ i \in 1 .. n /\ i \in DOMAIN stack /\ stack'[i] = stack[i]
          /\ stack[i] # c /\ stack[i] \in Cort
      BY <2>1, <1>1, <1>3, <1>4, <1>6
    <3>2. i > 1 /\ stack[i - 1] = save[stack[i]] /\ save'[stack[i]] = save[stack[i]]
      BY <2>1, <3>1, <1>3 DEF Reports
    <3>3. i - 1 \in 1 .. n
      <4>1. n \in Nat
        BY <1>1
      <4> QED
        BY <4>1, <3>1, <3>2
    <3> QED
      BY <3>1, <3>2, <3>3, <1>1
  <2>2. ASSUME NEW x \in Cort
        PROVE  /\ status'[x] = "resumed" => save'[x] = parent'[x]
               /\ status'[x] = "starting" /\ save'[x] = NoCort => parent'[x] = NoCort
               /\ status'[x] = "idle" => parent'[x] = NoCort
    <3>1. CASE x = c
      BY <3>1, <1>3
    <3>2. CASE x # c
      BY <3>2, <1>3 DEF Reports
    <3> QED
      BY <3>1, <3>2
  <2> QED
    BY <2>1, <2>2 DEF Reports
<1>13. Apart'
  <2>1. \A x, y \in Cort : Awaits(x, y)' <=> Awaits(x, y)
    BY <1>5 DEF Awaits
  <2>2. ASSUME NEW i \in DOMAIN stack', NEW j \in DOMAIN stack', i < j
        PROVE  (~Awaits(stack[i], stack[j]))'
    <3>1. i \in 1 .. n
      <4>1. n \in Nat
        BY <1>1
      <4> QED
        BY <4>1, <2>2, <1>1
    <3>2. PICK x \in Cort, y \in Cort : x = stack'[i] /\ y = stack'[j]
      BY <2>2, <1>1, <1>6
    <3>3. ~Awaits(x, y)
      <4>1. CASE j = n + 1
        BY <4>1, <3>1, <3>2, <1>1, <1>2
      <4>2. CASE j \in 1 .. n
        BY <4>2, <3>1, <3>2, <2>2, <1>1 DEF Apart
      <4> QED
        BY <4>1, <4>2, <1>1, <1>6
    <3> QED
      BY <3>2, <3>3, <2>1
  <2> QED
    BY <2>2 DEF Apart
<1> QED
  BY <1>7, <1>8, <1>9, <1>10, <1>11, <1>12, <1>13

------------------------------------------------------------------------------
(* The theorems.                                                            *)

(* Every step of Spec keeps the inductive invariant.                        *)
LEMMA NextKeeps == IInv /\ [Next]_vars => IInv'
<1> SUFFICES ASSUME IInv, [Next]_vars PROVE IInv'
  OBVIOUS
<1>1. ASSUME NEW d \in Cort, MainStart(d) PROVE IInv'
  BY <1>1, MainStartKeeps
<1>2. ASSUME NEW d \in Cort, StartDetached(d) PROVE IInv'
  BY <1>2, StartDetachedKeeps
<1>3. ASSUME NEW d \in Cort, AwaitStart(d) PROVE IInv'
  BY <1>3, AwaitStartKeeps
<1>4. ASSUME EndAwait PROVE IInv'
  BY <1>4, EndAwaitKeeps
<1>5. ASSUME Yield PROVE IInv'
  BY <1>5, YieldKeeps
<1>6. ASSUME NEW D \in SUBSET Detached, Until(D) PROVE IInv'
  BY <1>6, UntilKeeps
<1>7. ASSUME Finish PROVE IInv'
  BY <1>7, FinishKeeps
<1>8. ASSUME CallThen PROVE IInv'
  BY <1>8, CallThenKeeps
<1>9. ASSUME Exit PROVE IInv'
  BY <1>9, ExitKeeps
<1>10. ASSUME NEW c \in Cort, Resume(c) PROVE IInv'
  BY <1>10, ResumeKeeps
<1>11. ASSUME UNCHANGED vars PROVE IInv'
  <2>1. then' \in [Cort -> BOOLEAN]
    BY <1>11 DEF vars, IInv, TypeOK
  <2> QED
    BY <2>1, <1>11, SameKeeps DEF vars
<1> QED
  BY <1>1, <1>2, <1>3, <1>4, <1>5, <1>6, <1>7, <1>8, <1>9, <1>10, <1>11 DEF Next

(* The inductive invariant holds in every reachable state.                  *)
THEOREM Invariance == Spec => []IInv
<1>1. Init => IInv
  BY InitInv
<1>2. IInv /\ [Next]_vars => IInv'
  BY NextKeeps
<1> QED
  BY <1>1, <1>2, PTL DEF Spec

(* Every variable keeps its type: wait counts stay in the range of size_t.  *)
THEOREM TypeCorrect == Spec => []TypeOK
<1>1. IInv => TypeOK
  BY DEF IInv
<1> QED
  BY <1>1, Invariance, PTL

(* No wakeup is lost and none comes early: the wait count of a coroutine,   *)
(* with the count of the await statement it is in, is the number of         *)
(* unfinished coroutines it awaits.                                         *)
THEOREM WaitCountsExact == Spec => []WaitCountExact
<1>1. IInv => WaitCountExact
  BY DEF IInv
<1> QED
  BY <1>1, Invariance, PTL

(* A body is never entered while it runs.                                   *)
THEOREM NeverReentered == Spec => []NoReentry
<1>1. IInv => NoReentry
  BY DEF IInv
<1> QED
  BY <1>1, Invariance, PTL

(* The parent pointer resume() saved still names a waiting coroutine when   *)
(* it is decremented.                                                       *)
THEOREM SavedParentsWait == Spec => []SavedParentWaits
<1>1. IInv => SavedParentWaits
  BY DEF IInv
<1> QED
  BY <1>1, Invariance, PTL

(* Under the discipline no wakeup is lost: a coroutine that returned from   *)
(* an await statement awaits one that has not finished.                     *)
THEOREM NoWakeupLost == Spec => []NoLostWakeup
<1>1. IInv => NoLostWakeup
  <2> SUFFICES ASSUME IInv, NEW c \in Cort, status[c] = "awaiting"
               PROVE  Kids(c) # {}
    BY DEF NoLostWakeup
  <2>1. wait_count[c] # 0 /\ count[c] = 0
    BY DEF IInv, CountsLive, Running
  <2>2. wait_count[c] \in Nat
    BY DEF IInv, TypeOK
  <2>3. Cardinality(Kids(c)) = wait_count[c] + 0
    BY <2>1 DEF IInv, WaitCountExact
  <2> QED
    BY <2>1, <2>2, <2>3, FS_EmptySet
<1> QED
  BY <1>1, Invariance, PTL

(* A step resumes an awaiting coroutine only when the last one it awaits    *)
(* has finished.                                                            *)
LEMMA ResumedStep ==
  ASSUME IInv, [Next]_vars, NEW c \in Cort,
         status[c] = "awaiting", status'[c] = "resumed"
  PROVE  Kids(c)' = {}
<1>1. IInv'
  BY NextKeeps
<1>3. count'[c] = 0
  <2>1. count[c] = 0
    BY DEF IInv, CountsLive, Running
  <2>2. ASSUME NEW how \in Suspended, NEW w, NEW D, stack # << >>,
               ReturnThis(Top, how, w, D)
        PROVE  FALSE
    <3>1. status'[c] \in {how, status[c]}
      BY <2>2 DEF ReturnThis, IInv, TypeOK
    <3> QED
      BY <3>1 DEF Suspended
  <2>3. ~EndAwait /\ ~Yield /\ \A D \in SUBSET Detached : ~Until(D)
    BY <2>2 DEF EndAwait, Yield, Until, Statement, Suspended
  <2>4. count' = count
    BY <2>3 DEF Next, vars, MainStart, StartDetached, AwaitStart, CallStart,
                Finish, Exit, ReturnZero, CallThen, Resume, CallResume
  <2> QED
    BY <2>1, <2>4
<1>4. wait_count'[c] = 0
  BY <1>1 DEF IInv, CountsLive
<1>5. Cardinality(Kids(c)') = 0 + 0
  BY <1>1, <1>3, <1>4 DEF IInv, WaitCountExact
<1>6. IsFiniteSet(Kids(c)')
  <2>1. Kids(c)' \subseteq Cort
    BY DEF Kids
  <2> QED
    BY <2>1, CortAssumption, FS_Subset
<1> QED
  BY <1>5, <1>6, FS_EmptySet

THEOREM ResumedOnlyWhenDone == Spec => ResumedWhenAllDone
<1>1. IInv /\ [Next]_vars =>
        [\A c \in Cort :
           status[c] = "awaiting" /\ status'[c] = "resumed" => Kids(c)' = {}]_vars
  BY ResumedStep
<1> QED
  BY <1>1, Invariance, PTL DEF Spec, ResumedWhenAllDone
=============================================================================
