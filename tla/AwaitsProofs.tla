---------------------------- MODULE AwaitsProofs -----------------------------
(***************************************************************************)
(* Whatever runs inside the helpers of statements that await any n         *)
(* coroutines, and inside the loops of a shared future: who waits is       *)
(* resumed by its count alone, a helper by the leaves it has left, and     *)
(* the future outlives its loops.                                          *)
(***************************************************************************)
EXTENDS Awaits, FiniteSetTheorems, SequenceTheorems, TLAPS

LEMMA Kinds ==
  /\ Awaiter \subseteq Waiter /\ Helper \subseteq Waiter /\ Future \in Waiter
  /\ \A w \in Waiter : w \in Awaiter \/ w \in Helper \/ w = Future
  /\ Future \notin Awaiter /\ Future \notin Helper /\ Awaiter \cap Helper = {}
  /\ NoCort \notin Waiter /\ NoCort \notin Leaf /\ Leaf \cap Waiter = {}
  /\ NoCort \notin Awaiter /\ NoCort \notin Helper /\ NoCort # Future
  BY AwaitsAssumption DEF AwaitsAssumption, Waiter

LEMMA Numbers ==
  /\ IsFiniteSet(Leaf) /\ Cardinality(Leaf) \in Nat
  /\ IsFiniteSet(Awaiter \X (1 .. Statements))
  /\ SizeMod \in Nat /\ Decrements \in Nat /\ Decrements + 1 < SizeMod
  /\ Cardinality(Leaf) + 1 < SizeMod
  /\ Decrements >= 2 * Cardinality(Leaf) + Cardinality(Awaiter \X (1 .. Statements))
<1>1. IsFiniteSet(Leaf) /\ Cardinality(Leaf) \in Nat
  BY AwaitsAssumption, FS_CardinalityType DEF AwaitsAssumption
<1>2. IsFiniteSet(1 .. Statements)
  BY AwaitsAssumption, FS_Interval DEF AwaitsAssumption
<1>3. /\ IsFiniteSet(Awaiter \X (1 .. Statements))
      /\ Cardinality(Awaiter \X (1 .. Statements)) \in Nat
  BY <1>2, AwaitsAssumption, FS_Product, FS_CardinalityType DEF AwaitsAssumption
<1> QED
  BY <1>1, <1>3, AwaitsAssumption DEF AwaitsAssumption, Decrements

LEMMA DecrIs ==
  ASSUME NEW n \in 0 .. SizeMod - 1
  PROVE  Decr(n) = IF n = 0 THEN SizeMod - 1 ELSE n - 1
<1>1. SizeMod \in Nat /\ SizeMod > 1
  BY Numbers
<1>2. ASSUME NEW i \in 0 .. SizeMod - 1 PROVE i % SizeMod = i
  BY <1>1
<1>3. CASE n # 0
  BY <1>1, <1>2, <1>3 DEF Decr
<1>4. CASE n = 0
  BY <1>1, <1>4 DEF Decr
<1> QED
  BY <1>3, <1>4

------------------------------------------------------------------------------
(* Stacks.                                                                 *)

LEMMA Pushed ==
  ASSUME NEW S, NEW s \in Seq(S), NEW x \in S
  PROVE  /\ Append(s, x) \in Seq(S) /\ Append(s, x) # << >>
         /\ Len(s) \in Nat /\ Len(Append(s, x)) = Len(s) + 1
         /\ \A i \in 1 .. Len(s) : Append(s, x)[i] = s[i]
         /\ Append(s, x)[Len(s) + 1] = x
         /\ Last(Append(s, x)) = x
<1>1. /\ Append(s, x) \in Seq(S)
      /\ Len(s) \in Nat /\ Len(Append(s, x)) = Len(s) + 1
      /\ \A i \in 1 .. Len(s) : Append(s, x)[i] = s[i]
      /\ Append(s, x)[Len(s) + 1] = x
  OBVIOUS
<1>2. Append(s, x) # << >>
  BY <1>1
<1> QED
  BY <1>1, <1>2 DEF Last

LEMMA Popped ==
  ASSUME NEW S, NEW s \in Seq(S), s # << >>
  PROVE  /\ Len(s) \in Nat /\ Len(s) > 0
         /\ Last(s) \in S /\ Last(s) = s[Len(s)]
         /\ Front(s) \in Seq(S)
         /\ Len(Front(s)) = Len(s) - 1
         /\ \A i \in 1 .. Len(s) - 1 : Front(s)[i] = s[i]
<1>1. Len(s) \in Nat /\ Len(s) > 0
  BY EmptySeq
<1>2. Last(s) \in S /\ Last(s) = s[Len(s)]
  BY <1>1 DEF Last
<1>3. /\ Front(s) \in Seq(S)
      /\ Len(Front(s)) = Len(s) - 1
      /\ \A i \in 1 .. Len(s) - 1 : Front(s)[i] = s[i]
  <2> DEFINE n == Len(s) - 1
             f == SubSeq(s, 1, n)
  <2>1. n \in Nat /\ Front(s) = f
    BY <1>1 DEF Front
  <2>2. \A i \in 1 .. n : s[i] \in S
    BY <1>1
  <2> HIDE DEF n
  <2>3. /\ f \in Seq(S)
        /\ Len(f) = IF 1 <= n THEN n - 1 + 1 ELSE 0
        /\ \A i \in 1 .. n - 1 + 1 : f[i] = s[1 + i - 1]
    BY <2>1, <2>2, SubSeqProperties
  <2> HIDE DEF f
  <2>4. Len(f) = n /\ \A i \in 1 .. n : f[i] = s[i]
    BY <2>1, <2>3
  <2> QED
    BY <2>1, <2>3, <2>4 DEF n
<1> QED
  BY <1>1, <1>2, <1>3

LEMMA SomeIndices ==
  ASSUME NEW n \in Nat, NEW S \in SUBSET (1 .. n)
  PROVE  IsFiniteSet(S) /\ Cardinality(S) \in Nat
<1>1. IsFiniteSet(1 .. n)
  BY FS_Interval
<1>2. IsFiniteSet(S)
  BY <1>1, FS_Subset
<1> QED
  BY <1>2, FS_CardinalityType

(* What runs above a stack s was called by its top.                        *)
Calls(s) == s # << >> => Last(s).who \in Awaiter \/ Last(s).at \in {"resuming", "check"}

(* The frames of s2 are those of s and f above.                            *)
LEMMA Push ==
  ASSUME NEW s \in Seq(Frames), StackOK(s), Calls(s),
         NEW f \in Frames, f.at = "wake", ~f.ref, f.who = Future \/ ~On(f.who, s),
         NEW s2, s2 = Append(s, f)
  PROVE  /\ s2 \in Seq(Frames) /\ StackOK(s2) /\ s2 # << >> /\ Last(s2) = f
         /\ \A w \in Waiter : On(w, s2) <=> On(w, s) \/ w = f.who
         /\ \A w \in Waiter : Resuming(w, s2) <=> Resuming(w, s)
         /\ FutureRuns(s) \in Nat
         /\ FutureRuns(s2) = FutureRuns(s) + IF f.who = Future THEN 1 ELSE 0
<1>1. /\ s2 \in Seq(Frames) /\ s2 # << >> /\ Last(s2) = f
      /\ Len(s) \in Nat /\ Len(s2) = Len(s) + 1
      /\ \A i \in 1 .. Len(s) : s2[i] = s[i]
      /\ s2[Len(s) + 1] = f
  BY Pushed
<1>2. \A i \in 1 .. Len(s2) : i \in 1 .. Len(s) \/ i = Len(s) + 1
  BY <1>1
<1>3. \A i \in 1 .. Len(s) : i \in 1 .. Len(s2) /\ s[i] \in Frames
  BY <1>1
<1>4. Len(s) + 1 \in 1 .. Len(s2)
  BY <1>1
<1>5. \A w : On(w, s2) <=> On(w, s) \/ w = f.who
  BY <1>1, <1>2, <1>3, <1>4 DEF On
<1>6. \A w : Resuming(w, s2) <=> Resuming(w, s)
  BY <1>1, <1>2, <1>3, <1>4 DEF Resuming
<1>7. \A i, j \in 1 .. Len(s2) : s2[i].who = s2[j].who => i = j \/ s2[i].who = Future
  <2>1. f.who = Future \/ \A i \in 1 .. Len(s) : s2[i].who # f.who
    BY <1>1 DEF On
  <2>2. \A i, j \in 1 .. Len(s) : s2[i].who = s2[j].who => i = j \/ s2[i].who = Future
    BY <1>1 DEF StackOK
  <2> QED
    BY <1>1, <1>2, <2>1, <2>2
<1>8. ASSUME NEW i \in 1 .. Len(s2)
      PROVE  /\ s2[i].at \in Places(s2[i].who)
             /\ s2[i].ref => s2[i].at \in {"parents", "check"}
             /\ i = Len(s2) \/ s2[i].who \in Awaiter \/ s2[i].at \in {"resuming", "check"}
  <2>1. CASE i = Len(s) + 1
    BY <1>1, <2>1 DEF Places
  <2>2. CASE i \in 1 .. Len(s)
    <3>1. CASE i = Len(s)
      <4>1. s # << >>
        BY <2>2, <3>1
      <4>2. Last(s) = s[i]
        BY <3>1, <4>1, Popped
      <4>3. s2[i] = s[i] /\ s[i].at \in Places(s[i].who)
            /\ (s[i].ref => s[i].at \in {"parents", "check"})
        BY <1>1, <2>2 DEF StackOK
      <4> QED
        BY <4>1, <4>2, <4>3 DEF Calls
    <3> QED
      BY <1>1, <2>2, <3>1 DEF StackOK
  <2> QED
    BY <1>2, <2>1, <2>2
<1>9. /\ FutureRuns(s) \in Nat
      /\ FutureRuns(s2) = FutureRuns(s) + IF f.who = Future THEN 1 ELSE 0
  <2> DEFINE A == {i \in 1 .. Len(s) : s[i].who = Future}
             B == {i \in 1 .. Len(s2) : s2[i].who = Future}
  <2>0. A \in SUBSET (1 .. Len(s)) /\ Len(s) + 1 \notin A
    BY <1>1
  <2>2. B = IF f.who = Future THEN A \union {Len(s) + 1} ELSE A
    BY <1>1, <1>2, <1>3, <1>4
  <2>4. FutureRuns(s) = Cardinality(A) /\ FutureRuns(s2) = Cardinality(B)
    BY DEF FutureRuns
  <2> HIDE DEF A, B
  <2>1. IsFiniteSet(A) /\ Cardinality(A) \in Nat
    BY <1>1, <2>0, SomeIndices
  <2>3. Cardinality(A \union {Len(s) + 1}) = Cardinality(A) + 1
    BY <2>0, <2>1, FS_AddElement
  <2> QED
    BY <2>1, <2>2, <2>3, <2>4
<1>10. StackOK(s2)
  BY <1>7, <1>8 DEF StackOK
<1> QED
  BY <1>1, <1>5, <1>6, <1>9, <1>10

(* The frames of s2 are those of s without the top.                        *)
LEMMA Pop ==
  ASSUME NEW s \in Seq(Frames), StackOK(s), s # << >>, NEW s2, s2 = Front(s)
  PROVE  /\ s2 \in Seq(Frames) /\ StackOK(s2) /\ Calls(s2) /\ Last(s) \in Frames
         /\ \A w \in Waiter : w # Future => (On(w, s2) <=> On(w, s) /\ w # Last(s).who)
         /\ \A w \in Waiter : w # Future => (Resuming(w, s2) <=> Resuming(w, s) /\ w # Last(s).who)
         /\ On(Last(s).who, s) /\ (On(Future, s2) => On(Future, s))
         /\ FutureRuns(s2) \in Nat
         /\ FutureRuns(s) = FutureRuns(s2) + IF Last(s).who = Future THEN 1 ELSE 0
<1> DEFINE n == Len(s)
<1>1. /\ n \in Nat /\ n > 0 /\ Last(s) \in Frames /\ Last(s) = s[n]
      /\ s2 \in Seq(Frames) /\ Len(s2) = n - 1
      /\ \A i \in 1 .. n - 1 : s2[i] = s[i]
  BY Popped
<1> HIDE DEF n
<1>2. /\ \A i \in 1 .. n : i \in 1 .. n - 1 \/ i = n
      /\ \A i \in 1 .. n - 1 : i \in 1 .. n /\ i # n
      /\ n \in 1 .. n /\ n = Len(s)
  BY <1>1 DEF n
<1>3. /\ \A i, j \in 1 .. n : s[i].who = s[j].who => i = j \/ s[i].who = Future
      /\ \A i \in 1 .. n :
           /\ s[i].at \in Places(s[i].who)
           /\ s[i].ref => s[i].at \in {"parents", "check"}
           /\ i = n \/ s[i].who \in Awaiter \/ s[i].at \in {"resuming", "check"}
  BY <1>2 DEF StackOK
<1>4. ASSUME NEW w \in Waiter, w # Future
      PROVE  /\ On(w, s2) <=> On(w, s) /\ w # Last(s).who
             /\ Resuming(w, s2) <=> Resuming(w, s) /\ w # Last(s).who
  <2>1. /\ On(w, s) <=> \E i \in 1 .. n : s[i].who = w
        /\ On(w, s2) <=> \E i \in 1 .. n - 1 : s[i].who = w
        /\ Resuming(w, s) <=> \E i \in 1 .. n : s[i].who = w /\ s[i].at = "resuming"
        /\ Resuming(w, s2) <=> \E i \in 1 .. n - 1 : s[i].who = w /\ s[i].at = "resuming"
    BY <1>1, <1>2 DEF On, Resuming
  <2>2. \A i \in 1 .. n - 1 : s2[i] = s[i] /\ i \in 1 .. n /\ i # n
    BY <1>1, <1>2
  <2>3. Last(s) = s[n] /\ n \in 1 .. n /\ \A i \in 1 .. n : i \in 1 .. n - 1 \/ i = n
    BY <1>1, <1>2
  <2>4. ASSUME Last(s).who = w PROVE \A i \in 1 .. n - 1 : s[i].who # w
    BY <2>2, <2>3, <2>4, <1>3, <1>4
  <2>5. On(w, s2) <=> On(w, s) /\ w # Last(s).who
    BY ONLY <2>1, <2>2, <2>3, <2>4
  <2>6. Resuming(w, s2) <=> Resuming(w, s) /\ w # Last(s).who
    BY ONLY <2>1, <2>2, <2>3, <2>4
  <2> QED
    BY <2>5, <2>6
<1>5. On(Last(s).who, s) /\ (On(Future, s2) => On(Future, s))
  BY <1>1, <1>2 DEF On
<1>6. /\ FutureRuns(s2) \in Nat
      /\ FutureRuns(s) = FutureRuns(s2) + IF Last(s).who = Future THEN 1 ELSE 0
  <2> DEFINE A == {i \in 1 .. n - 1 : s2[i].who = Future}
             B == {i \in 1 .. n : s[i].who = Future}
  <2>0. A \in SUBSET (1 .. n - 1) /\ n \notin A /\ n - 1 \in Nat
    BY <1>1
  <2>2. B = IF Last(s).who = Future THEN A \union {n} ELSE A
    BY <1>1, <1>2
  <2>4. FutureRuns(s2) = Cardinality(A) /\ FutureRuns(s) = Cardinality(B)
    BY <1>1, <1>2 DEF FutureRuns
  <2> HIDE DEF A, B
  <2>1. IsFiniteSet(A) /\ Cardinality(A) \in Nat
    BY <2>0, SomeIndices
  <2>3. Cardinality(A \union {n}) = Cardinality(A) + 1
    BY <2>0, <2>1, FS_AddElement
  <2> QED
    BY <2>1, <2>2, <2>3, <2>4
<1>7. StackOK(s2)
  <2>1. /\ \A i, j \in 1 .. n - 1 : s2[i].who = s2[j].who => i = j \/ s2[i].who = Future
        /\ \A i \in 1 .. n - 1 :
             /\ s2[i].at \in Places(s2[i].who)
             /\ s2[i].ref => s2[i].at \in {"parents", "check"}
             /\ s2[i].who \in Awaiter \/ s2[i].at \in {"resuming", "check"}
    <3>1. \A i \in 1 .. n - 1 : s2[i] = s[i] /\ i \in 1 .. n /\ i # n
      BY <1>1, <1>2
    <3> QED
      BY ONLY <3>1, <1>3
  <2> QED
    BY <1>1, <2>1 DEF StackOK
<1>8. Calls(s2)
  <2> SUFFICES ASSUME s2 # << >> PROVE Last(s2).who \in Awaiter \/ Last(s2).at \in {"resuming", "check"}
    BY DEF Calls
  <2>0. Last(s2) = s2[Len(s2)] /\ Len(s2) > 0
    BY <1>1, Popped
  <2>1. n - 1 \in 1 .. n - 1 /\ Last(s2) = s2[n - 1]
    BY <1>1, <2>0
  <2> QED
    BY <1>1, <1>2, <1>3, <2>1
<1> QED
  BY <1>1, <1>4, <1>5, <1>6, <1>7, <1>8

(* The top of s goes on to a place of its body.                            *)
LEMMA Stay ==
  ASSUME NEW s \in Seq(Frames), StackOK(s), s # << >>,
         NEW f \in Frames, f.who = Last(s).who, f.at \in Places(f.who),
         f.ref => f.at \in {"parents", "check"},
         NEW s2, s2 = Append(Front(s), f)
  PROVE  /\ s2 \in Seq(Frames) /\ StackOK(s2) /\ s2 # << >> /\ Last(s2) = f
         /\ \A w \in Waiter : On(w, s2) <=> On(w, s)
         /\ \A w \in Waiter : w # Future =>
              (Resuming(w, s2) <=> IF w = f.who THEN f.at = "resuming" ELSE Resuming(w, s))
         /\ FutureRuns(s2) = FutureRuns(s) /\ FutureRuns(s) \in Nat
<1> DEFINE n == Len(s)
<1>1. /\ n \in Nat /\ n > 0 /\ Last(s) \in Frames /\ Last(s) = s[n]
      /\ Front(s) \in Seq(Frames) /\ Len(Front(s)) = n - 1
      /\ \A i \in 1 .. n - 1 : Front(s)[i] = s[i]
  BY Popped
<1>2. /\ s2 \in Seq(Frames) /\ s2 # << >> /\ Last(s2) = f
      /\ Len(s2) = Len(Front(s)) + 1
      /\ \A i \in 1 .. Len(Front(s)) : s2[i] = Front(s)[i]
      /\ s2[Len(Front(s)) + 1] = f
  BY <1>1, Pushed
<1> HIDE DEF n
<1>3. Len(s2) = n /\ s2[n] = f /\ \A i \in 1 .. n - 1 : s2[i] = s[i]
  BY <1>1, <1>2
<1>4. /\ \A i \in 1 .. n : i \in 1 .. n - 1 \/ i = n
      /\ \A i \in 1 .. n - 1 : i \in 1 .. n /\ i # n
      /\ n \in 1 .. n /\ n = Len(s)
  BY <1>1 DEF n
<1>5. \A i \in 1 .. n : s2[i].who = s[i].who
  BY <1>1, <1>3, <1>4
<1>6. /\ \A i, j \in 1 .. n : s[i].who = s[j].who => i = j \/ s[i].who = Future
      /\ \A i \in 1 .. n :
           /\ s[i].at \in Places(s[i].who)
           /\ s[i].ref => s[i].at \in {"parents", "check"}
           /\ i = n \/ s[i].who \in Awaiter \/ s[i].at \in {"resuming", "check"}
  BY <1>4 DEF StackOK
<1>7. StackOK(s2)
  <2>1. \A i, j \in 1 .. n : s2[i].who = s2[j].who => i = j \/ s2[i].who = Future
    BY ONLY <1>5, <1>6
  <2>2. ASSUME NEW i \in 1 .. n
        PROVE  /\ s2[i].at \in Places(s2[i].who)
               /\ s2[i].ref => s2[i].at \in {"parents", "check"}
               /\ i = n \/ s2[i].who \in Awaiter \/ s2[i].at \in {"resuming", "check"}
    <3>1. CASE i = n
      BY <3>1, <1>3
    <3>2. CASE i # n
      <4>1. s2[i] = s[i]
        BY <3>2, <1>3, <1>4
      <4> QED
        BY <3>2, <4>1, <1>6
    <3> QED
      BY <3>1, <3>2
  <2> QED
    BY <1>3, <2>1, <2>2 DEF StackOK
<1>8. \A w : On(w, s2) <=> On(w, s)
  BY <1>3, <1>4, <1>5 DEF On
<1>9. ASSUME NEW w \in Waiter, w # Future
      PROVE  Resuming(w, s2) <=> IF w = f.who THEN f.at = "resuming" ELSE Resuming(w, s)
  <2>1. /\ Resuming(w, s) <=> \E i \in 1 .. n : s[i].who = w /\ s[i].at = "resuming"
        /\ Resuming(w, s2) <=> \E i \in 1 .. n : s2[i].who = w /\ s2[i].at = "resuming"
    BY <1>3, <1>4 DEF Resuming
  <2>2. f.who = s[n].who
    BY <1>1
  <2> QED
    BY ONLY <1>3, <1>4, <1>6, <1>9, <2>1, <2>2
<1>10. FutureRuns(s2) = FutureRuns(s) /\ FutureRuns(s) \in Nat
  <2> DEFINE A == {i \in 1 .. n : s[i].who = Future}
             B == {i \in 1 .. n : s2[i].who = Future}
  <2>1. A \in SUBSET (1 .. n) /\ A = B
    BY <1>5
  <2>2. FutureRuns(s) = Cardinality(A) /\ FutureRuns(s2) = Cardinality(B)
    BY <1>3, <1>4 DEF FutureRuns
  <2> HIDE DEF A, B
  <2>3. Cardinality(A) \in Nat
    BY <1>1, <2>1, SomeIndices
  <2> QED
    BY <2>1, <2>2, <2>3
<1> QED
  BY <1>2, <1>7, <1>8, <1>9, <1>10

(* What runs above a future's run was called from its check.               *)
Quiet(s) == s # << >> /\ Last(s).who = Future => Last(s).at = "check"

LEMMA CallsQuiet ==
  ASSUME NEW s \in Seq(Frames), StackOK(s), Calls(s)
  PROVE  Quiet(s)
<1> SUFFICES ASSUME s # << >>, Last(s).who = Future PROVE Last(s).at = "check"
  BY DEF Quiet
<1>0. Len(s) \in Nat /\ Len(s) > 0 /\ Last(s) = s[Len(s)]
  BY Popped
<1>1. Len(s) \in 1 .. Len(s) /\ Last(s) = s[Len(s)]
  BY <1>0
<1>2. Last(s).at \in Places(Future) /\ Last(s).at \in {"resuming", "check"}
  BY <1>1, Kinds DEF StackOK, Calls
<1> QED
  BY <1>2, Kinds DEF Places

(* Only helpers resume their parents.                                      *)
LEMMA HelpersResume ==
  ASSUME NEW s, StackOK(s), NEW w, Resuming(w, s)
  PROVE  w \notin Awaiter /\ w # Future /\ On(w, s)
<1>1. PICK i \in 1 .. Len(s) : s[i].who = w /\ s[i].at = "resuming"
  BY DEF Resuming
<1>2. s[i].at \in Places(w)
  BY <1>1 DEF StackOK
<1> QED
  BY <1>1, <1>2 DEF Places, On

(* A helper that is on the stack and does not resume its parent is on top. *)
LEMMA OnTop ==
  ASSUME NEW s \in Seq(Frames), StackOK(s), NEW h \in Helper,
         On(h, s), ~Resuming(h, s)
  PROVE  s # << >> /\ Last(s).who = h
<1>1. PICK i \in 1 .. Len(s) : s[i].who = h
  BY DEF On
<1>2. s[i].at # "resuming" /\ s[i].at \in Places(h)
  BY <1>1 DEF Resuming, StackOK
<1>3. s[i].at # "check" /\ h \notin Awaiter
  BY <1>2, Kinds DEF Places
<1>4. i = Len(s)
  BY <1>1, <1>2, <1>3 DEF StackOK
<1> QED
  BY <1>1, <1>4, Popped DEF Last

(* try_resume() wakes a waiter that waits for one.                         *)
LEMMA TryWakes ==
  ASSUME wait_count \in [Waiter -> 0 .. SizeMod - 1],
         \A v \in Waiter : parent[v] \in Awaiter \union {NoCort},
         NEW s \in Seq(Frames), StackOK(s), Calls(s),
         NEW w \in Waiter, wait_count[w] = 1 => w = Future \/ ~On(w, s),
         TryResume(w, s)
  PROVE  /\ wait_count' \in [Waiter -> 0 .. SizeMod - 1]
         /\ \A v \in Waiter : v # w => wait_count'[v] = wait_count[v]
         /\ wait_count'[w] = IF wait_count[w] = 0 THEN SizeMod - 1 ELSE wait_count[w] - 1
         /\ stack' \in Seq(Frames) /\ StackOK(stack')
         /\ \A v \in Waiter : On(v, stack') <=> On(v, s) \/ (v = w /\ wait_count[w] = 1)
         /\ \A v \in Waiter : Resuming(v, stack') <=> Resuming(v, s)
         /\ FutureRuns(s) \in Nat
         /\ FutureRuns(stack') =
              FutureRuns(s) + IF w = Future /\ wait_count[w] = 1 THEN 1 ELSE 0
         /\ wait_count[w] = 1 => stack' = Append(s, Frame(w))
         /\ wait_count[w] # 1 => stack' = s
         /\ Quiet(stack') \/ (w = Future /\ wait_count'[w] = 0)
<1>1. SizeMod \in Nat /\ SizeMod > 1
  BY Numbers
<1>2. /\ wait_count[w] \in 0 .. SizeMod - 1
      /\ Decr(wait_count[w]) = IF wait_count[w] = 0 THEN SizeMod - 1 ELSE wait_count[w] - 1
  BY DecrIs
<1>3. Decr(wait_count[w]) \in 0 .. SizeMod - 1 /\ (Decr(wait_count[w]) = 0 <=> wait_count[w] = 1)
  BY <1>1, <1>2
<1>4. /\ wait_count' = [wait_count EXCEPT ![w] = Decr(wait_count[w])]
      /\ stack' = IF wait_count[w] = 1 THEN Append(s, Frame(w)) ELSE s
  BY <1>3 DEF TryResume
<1>5. /\ wait_count' \in [Waiter -> 0 .. SizeMod - 1]
      /\ \A v \in Waiter : v # w => wait_count'[v] = wait_count[v]
      /\ wait_count'[w] = IF wait_count[w] = 0 THEN SizeMod - 1 ELSE wait_count[w] - 1
  BY <1>2, <1>3, <1>4
<1>6. CASE wait_count[w] = 1
  <2> DEFINE f == Frame(w)
  <2>1. f \in Frames /\ f.at = "wake" /\ ~f.ref /\ f.who = w
    BY DEF Frame, Frames
  <2>2. stack' = Append(s, f)
    BY <1>4, <1>6
  <2> HIDE DEF f
  <2>3. f.who = Future \/ ~On(f.who, s)
    BY <1>6, <2>1
  <2>4. /\ stack' \in Seq(Frames) /\ StackOK(stack') /\ stack' # << >> /\ Last(stack') = f
        /\ \A v \in Waiter : On(v, stack') <=> On(v, s) \/ v = w
        /\ \A v \in Waiter : Resuming(v, stack') <=> Resuming(v, s)
        /\ FutureRuns(s) \in Nat
        /\ FutureRuns(stack') = FutureRuns(s) + IF w = Future THEN 1 ELSE 0
    BY <2>1, <2>2, <2>3, Push
  <2>5. Quiet(stack') \/ (w = Future /\ wait_count'[w] = 0)
    BY <1>5, <1>6, <2>1, <2>4 DEF Quiet
  <2> QED
    BY <1>5, <1>6, <2>2, <2>4, <2>5 DEF f
<1>7. CASE wait_count[w] # 1
  <2>1. stack' = s
    BY <1>4, <1>7
  <2>2. Quiet(s)
    BY CallsQuiet
  <2>3. FutureRuns(s) \in Nat
    <3> DEFINE A == {i \in 1 .. Len(s) : s[i].who = Future}
    <3>1. A \in SUBSET (1 .. Len(s)) /\ Len(s) \in Nat
      OBVIOUS
    <3>2. Cardinality(A) \in Nat
      BY <3>1, SomeIndices
    <3> QED
      BY <3>2 DEF FutureRuns
  <2> QED
    BY <1>5, <1>7, <2>1, <2>2, <2>3
<1> QED
  BY <1>6, <1>7

------------------------------------------------------------------------------
(* What can still be taken from the counts.                                *)

Open == {l \in Leaf : leaf[l] # "done"}
Due == FutureRuns(stack) + Entries + Cardinality(Units)
LeavesGoOn == \A l \in Leaf : leaf[l] = "done" => leaf'[l] = "done"

LEMMA RunsCounted ==
  ASSUME NEW s \in Seq(Frames)
  PROVE  FutureRuns(s) \in Nat
<1> DEFINE A == {i \in 1 .. Len(s) : s[i].who = Future}
<1>1. A \in SUBSET (1 .. Len(s)) /\ Len(s) \in Nat
  OBVIOUS
<1>2. Cardinality(A) \in Nat
  BY <1>1, SomeIndices
<1> QED
  BY <1>2 DEF FutureRuns

LEMMA UnitsCounted ==
  ASSUME NEW U \in SUBSET (Awaiter \X (1 .. Statements))
  PROVE  IsFiniteSet(U) /\ Cardinality(U) \in Nat
           /\ Cardinality(U) <= Cardinality(Awaiter \X (1 .. Statements))
  BY Numbers, FS_Subset, FS_CardinalityType

LEMMA SomeLeaves ==
  ASSUME NEW S \in SUBSET Leaf, NEW T \in SUBSET S
  PROVE  /\ IsFiniteSet(S) /\ IsFiniteSet(T)
         /\ Cardinality(S) \in Nat /\ Cardinality(T) \in Nat
         /\ Cardinality(T) <= Cardinality(S) /\ Cardinality(S) <= Cardinality(Leaf)
         /\ Cardinality(S) = 0 <=> S = {}
<1>1. IsFiniteSet(S) /\ Cardinality(S) <= Cardinality(Leaf)
  BY Numbers, FS_Subset
<1>2. IsFiniteSet(T) /\ Cardinality(T) <= Cardinality(S)
  BY <1>1, FS_Subset
<1> QED
  BY <1>1, <1>2, FS_CardinalityType, FS_EmptySet

LEMMA DueNumber ==
  /\ TypeOK => Due \in Nat /\ Cardinality(Open) \in Nat /\ Remaining \in Nat
               /\ Remaining = 2 * Cardinality(Open) + Due
  /\ TypeOK' => Due' \in Nat /\ Cardinality(Open)' \in Nat /\ Remaining' \in Nat
               /\ Remaining' = 2 * Cardinality(Open)' + Due'
<1>1. ASSUME TypeOK
      PROVE  Due \in Nat /\ Cardinality(Open) \in Nat /\ Remaining \in Nat
               /\ Remaining = 2 * Cardinality(Open) + Due
  <2>1. FutureRuns(stack) \in Nat
    BY <1>1, RunsCounted DEF TypeOK
  <2>2. Cardinality(Units) \in Nat
    BY UnitsCounted DEF Units
  <2>3. Cardinality(Open) \in Nat
    BY SomeLeaves DEF Open
  <2>4. Entries \in Nat
    BY <1>1 DEF TypeOK, Entries
  <2>5. Due \in Nat
    BY <2>1, <2>2, <2>4 DEF Due
  <2>6. Remaining = 2 * Cardinality(Open) + Due
    BY <2>1, <2>2, <2>3, <2>4 DEF Remaining, Due, Open
  <2> QED
    BY <2>3, <2>5, <2>6
<1>2. ASSUME TypeOK'
      PROVE  Due' \in Nat /\ Cardinality(Open)' \in Nat /\ Remaining' \in Nat
               /\ Remaining' = 2 * Cardinality(Open)' + Due'
  <2>1. FutureRuns(stack') \in Nat
    BY <1>2, RunsCounted DEF TypeOK
  <2>2. Cardinality(Units') \in Nat
    BY UnitsCounted DEF Units
  <2>3. Cardinality(Open') \in Nat
    BY SomeLeaves DEF Open
  <2>4. Entries' \in Nat
    BY <1>2 DEF TypeOK, Entries
  <2>5. Due' \in Nat
    BY <2>1, <2>2, <2>4 DEF Due
  <2>6. Remaining' = 2 * Cardinality(Open') + Due'
    BY <2>1, <2>2, <2>3, <2>4 DEF Remaining, Due, Open
  <2> QED
    BY <2>3, <2>5, <2>6
<1> QED
  BY <1>1, <1>2

LEMMA RemainingIs ==
  ASSUME TypeOK, TypeOK', LeavesGoOn
  PROVE  /\ Remaining \in Nat /\ Remaining' \in Nat /\ Due \in Nat /\ Due' \in Nat
         /\ Remaining' + Due <= Remaining + Due'
<1>1. Open' \subseteq Open
  BY DEF Open, LeavesGoOn
<1>2. Open \in SUBSET Leaf
  BY DEF Open
<1>3. Cardinality(Open') <= Cardinality(Open)
  BY <1>1, <1>2, SomeLeaves
<1> QED
  BY <1>3, DueNumber

LEMMA RemainingLess ==
  ASSUME TypeOK, TypeOK', NEW l \in Leaf, leaf[l] = "waiting",
         leaf' = [leaf EXCEPT ![l] = "done"]
  PROVE  /\ Remaining \in Nat /\ Remaining' \in Nat /\ Due \in Nat /\ Due' \in Nat
         /\ Remaining' + 2 + Due = Remaining + Due'
<1>0. Open' \in SUBSET Leaf /\ l \in Open
  BY DEF Open
<1>1. Open' = Open \ {l}
  BY DEF Open, TypeOK
<1>2. Open \in SUBSET Leaf
  BY DEF Open
<1>3. IsFiniteSet(Open)
  BY <1>2, SomeLeaves
<1>4. Cardinality(Open') = Cardinality(Open) - 1
  BY <1>0, <1>1, <1>3, FS_RemoveElement
<1> QED
  BY <1>4, DueNumber

LEMMA UnitsSpent ==
  ASSUME TypeOK, NEW p \in Awaiter, left[p] > 0, left' = [left EXCEPT ![p] = @ - 1]
  PROVE  Cardinality(Units') = Cardinality(Units) - 1
<1> DEFINE U == Units
           V == Units'
           x == <<p, left[p]>>
<1>1. left[p] \in 1 .. Statements /\ Statements \in Nat
  BY AwaitsAssumption DEF TypeOK, AwaitsAssumption
<1>2. x \in U /\ V = U \ {x}
  <2>1. x \in Awaiter \X (1 .. Statements) /\ x[1] = p /\ x[2] = left[p]
    BY <1>1
  <2>2. x \in U
    BY <2>1, <1>1 DEF Units
  <2>3. ASSUME NEW u \in Awaiter \X (1 .. Statements)
        PROVE  u[2] <= left'[u[1]] <=> u[2] <= left[u[1]] /\ u # x
    <3>1. u[1] \in Awaiter /\ u[2] \in 1 .. Statements /\ u = <<u[1], u[2]>>
      OBVIOUS
    <3>2. CASE u[1] # p
      BY <3>1, <3>2 DEF TypeOK
    <3>3. CASE u[1] = p
      <4>1. left'[p] = left[p] - 1
        BY DEF TypeOK
      <4>2. u # x <=> u[2] # left[p]
        BY <3>1, <3>3
      <4> QED
        BY <1>1, <3>1, <3>3, <4>1, <4>2
    <3> QED
      BY <3>2, <3>3
  <2>4. V = {u \in Awaiter \X (1 .. Statements) : u[2] <= left'[u[1]]}
    BY DEF Units
  <2>5. U = {u \in Awaiter \X (1 .. Statements) : u[2] <= left[u[1]]}
    BY DEF Units
  <2> HIDE DEF U, V, x
  <2> QED
    BY <2>2, <2>3, <2>4, <2>5
<1>3. U \in SUBSET (Awaiter \X (1 .. Statements))
  BY DEF Units
<1> HIDE DEF U, V, x
<1>4. IsFiniteSet(U)
  BY <1>3, UnitsCounted
<1>5. Cardinality(V) = Cardinality(U) - 1
  BY <1>2, <1>4, FS_RemoveElement
<1> QED
  BY <1>5 DEF U, V

------------------------------------------------------------------------------
(* What a step leaves as it was.                                           *)

LeavesSame(w) ==
  \A l \in Leaf :
    /\ parent'[l] = w <=> parent[l] = w
    /\ parent[l] = w => leaf'[l] = leaf[l] /\ (l \in slips' <=> l \in slips)
Unmoved(p) ==
  \/ pc'[p] = pc[p] /\ (On(p, stack') <=> On(p, stack))
  \/ ~Asleep(p) /\ ~Asleep(p)'
HelperStays(h) ==
  /\ phase'[h] = phase[h] /\ wait_count'[h] = wait_count[h]
  /\ rest'[h] = rest[h] /\ parent'[h] = parent[h]
  /\ On(h, stack') <=> On(h, stack)
  /\ Resuming(h, stack') <=> Resuming(h, stack)

LEMMA SameLeaves ==
  ASSUME NEW w, LeavesSame(w)
  PROVE  /\ Kids(w)' = Kids(w) /\ Slipped(w)' = Slipped(w) /\ Counted(w)' = Counted(w)
         /\ {l \in Leaf : parent'[l] = w} = {l \in Leaf : parent[l] = w}
<1>1. Kids(w)' = Kids(w)
  BY DEF Kids, LeavesSame
<1>2. Slipped(w)' = Slipped(w)
  BY DEF Slipped, LeavesSame
<1> QED
  BY <1>1, <1>2 DEF Counted, LeavesSame

LEMMA WastedNumber ==
  ASSUME TypeOK, NEW p \in Awaiter
  PROVE  Wasted(p) \in Nat /\ wait_count[p] \in 0 .. SizeMod - 1
<1>1. wait_count[p] \in 0 .. SizeMod - 1
  BY Kinds DEF TypeOK
<1>2. SizeMod \in Nat
  BY Numbers
<1> QED
  BY <1>1, <1>2 DEF Wasted

LEMMA BodyKept ==
  ASSUME TypeOK, TypeOK', NEW p \in Awaiter, BodyOK(p), Unmoved(p),
         wait_count'[p] = wait_count[p], Remaining' <= Remaining,
         Remaining \in Nat, Remaining' \in Nat
  PROVE  BodyOK(p)'
<1>1. Asleep(p)' <=> Asleep(p)
  BY DEF Unmoved, Asleep
<1>2. Wasted(p)' = Wasted(p)
  BY DEF Wasted
<1>3. Wasted(p) \in Nat
  BY WastedNumber
<1> QED
  BY <1>1, <1>2, <1>3, Numbers DEF BodyOK

(* A decrement wakes who sleeps, and is wasted on any other.               *)
LEMMA BodyDrops ==
  ASSUME TypeOK, TypeOK', NEW p \in Awaiter, BodyOK(p), pc'[p] = pc[p],
         wait_count'[p] = (IF wait_count[p] = 0 THEN SizeMod - 1 ELSE wait_count[p] - 1),
         On(p, stack') <=> On(p, stack) \/ wait_count[p] = 1,
         Remaining' < Remaining, Remaining \in Nat, Remaining' \in Nat
  PROVE  BodyOK(p)'
<1>1. wait_count[p] \in 0 .. SizeMod - 1 
  BY WastedNumber
<1>2. Wasted(p) + Remaining <= Decrements /\ (wait_count[p] = 1 <=> Asleep(p))
  BY DEF BodyOK
<1>3. ~Asleep(p)'
  BY <1>2 DEF Asleep
<1>4. wait_count'[p] # 1
  <2>1. CASE wait_count[p] = 2
    <3>1. Wasted(p) = SizeMod - 2
      BY <2>1 DEF Wasted
    <3>2. Remaining >= 1
      OBVIOUS
    <3> QED
      BY <1>2, <3>1, <3>2, Numbers
  <2>2. CASE wait_count[p] = 0
    <3>1. Decrements >= 1
      <4>1. Wasted(p) = 0
        BY <2>2 DEF Wasted
      <4> QED
        BY <1>2, <4>1, Numbers
    <3> QED
      BY <2>2, <3>1, Numbers
  <2> QED
    BY <1>1, <2>1, <2>2, Numbers
<1>5. Wasted(p)' <= Wasted(p) + 1 /\ Wasted(p)' \in Nat /\ Wasted(p) \in Nat
  BY <1>1, Numbers DEF Wasted
<1> QED
  BY <1>2, <1>3, <1>4, <1>5, Numbers DEF BodyOK

LEMMA BodyWaits ==
  ASSUME TypeOK, TypeOK', NEW p \in Awaiter, BodyOK(p), Asleep(p)', wait_count'[p] = 1,
         Remaining' <= Remaining, Remaining \in Nat, Remaining' \in Nat
  PROVE  BodyOK(p)'
<1>1. Wasted(p)' <= 0 /\ Wasted(p)' \in Nat
  BY DEF Wasted
<1>2. Wasted(p) \in Nat
  BY WastedNumber
<1>3. Wasted(p) + Remaining <= Decrements
  BY DEF BodyOK
<1>4. Wasted(p)' + Remaining' <= Decrements
  BY <1>1, <1>2, <1>3, Numbers
<1> QED
  BY <1>4 DEF BodyOK

LEMMA HelperKept ==
  ASSUME NEW h \in Helper, HelperOK(h), LeavesSame(h), HelperStays(h)
  PROVE  HelperOK(h)'
<1>1. /\ Kids(h)' = Kids(h) /\ Slipped(h)' = Slipped(h) /\ Counted(h)' = Counted(h)
      /\ \A l \in Leaf : parent'[l] = h <=> parent[l] = h
  BY SameLeaves DEF LeavesSame
<1>2. /\ phase'[h] = phase[h] /\ wait_count'[h] = wait_count[h]
      /\ rest'[h] = rest[h] /\ parent'[h] = parent[h]
      /\ On(h, stack') <=> On(h, stack)
      /\ Resuming(h, stack') <=> Resuming(h, stack)
  BY DEF HelperStays
<1>3. /\ phase[h] = "none" => ~On(h, stack) /\ \A l \in Leaf : parent[l] # h
      /\ phase[h] = "first" /\ ~Resuming(h, stack) =>
           /\ wait_count[h] + rest[h] = Cardinality(Kids(h)) /\ Slipped(h) = {}
           /\ On(h, stack) <=> wait_count[h] = 0
           /\ parent[h] = NoCort => rest[h] = 0
      /\ phase[h] = "first" /\ Resuming(h, stack) =>
           /\ rest[h] = Cardinality(Counted(h))
           /\ wait_count[h] + Cardinality(Slipped(h)) \in {0, SizeMod}
      /\ phase[h] = "rest" =>
           /\ wait_count[h] = Cardinality(Counted(h))
           /\ On(h, stack) <=> wait_count[h] = 0
           /\ ~Resuming(h, stack)
      /\ phase[h] = "deleted" => ~On(h, stack) /\ Kids(h) = {}
  BY DEF HelperOK
<1> QED
  BY <1>1, <1>2, <1>3 DEF HelperOK

LEMMA ArmedKept ==
  ASSUME NEW h \in Helper, ArmedOK(h), LeavesSame(h), HelperStays(h),
         Armed(h) => /\ pc'[parent[h]] = pc[parent[h]] /\ call'[parent[h]] = call[parent[h]]
                     /\ ~On(parent[h], stack')
  PROVE  ArmedOK(h)'
<1> SUFFICES ASSUME Armed(h)' PROVE ArmedOK(h)'
  BY DEF ArmedOK
<1>0. PICK p : p = parent[h]
  OBVIOUS
<1>1. /\ phase'[h] = phase[h] /\ wait_count'[h] = wait_count[h] /\ parent'[h] = p
      /\ Resuming(h, stack') <=> Resuming(h, stack)
  BY <1>0 DEF HelperStays
<1>2. Armed(h)
  BY <1>0, <1>1 DEF Armed
<1>3. /\ pc[p] = "any" /\ ~On(p, stack)
      /\ call[p].args = {l \in Leaf : parent[l] = h} /\ call[p].args # {}
      /\ wait_count[h] + Cardinality(Done(p)) = call[p].need
  BY <1>0, <1>2 DEF ArmedOK
<1>4. pc'[p] = pc[p] /\ call'[p] = call[p] /\ ~On(p, stack')
  BY <1>0, <1>2
<1>5. {l \in Leaf : parent'[l] = h} = {l \in Leaf : parent[l] = h}
  BY SameLeaves
<1>6. \A l \in call[p].args : leaf'[l] = leaf[l]
  BY <1>3 DEF LeavesSame
<1>7. Done(p)' = Done(p)
  BY <1>4, <1>6 DEF Done
<1>8. /\ pc'[p] = "any" /\ ~On(p, stack')
      /\ call'[p].args = {l \in Leaf : parent'[l] = h} /\ call'[p].args # {}
      /\ wait_count'[h] + Cardinality(Done(p)') = call'[p].need
  BY <1>1, <1>3, <1>4, <1>5, <1>7
<1> QED
  BY <1>1, <1>8 DEF ArmedOK

LEMMA AnyKept ==
  ASSUME TypeOK, NEW p \in Awaiter, AnyOK(p), LeavesGoOn,
         pc'[p] = "any" => /\ pc[p] = "any" /\ call'[p] = call[p]
                           /\ On(p, stack') <=> On(p, stack),
         \A h \in Helper : Armed(h) /\ parent[h] = p => Armed(h)' /\ parent'[h] = p
  PROVE  AnyOK(p)'
<1> SUFFICES ASSUME pc'[p] = "any" PROVE AnyOK(p)'
  BY DEF AnyOK
<1>1. pc[p] = "any" /\ call'[p] = call[p] /\ (On(p, stack') <=> On(p, stack))
  OBVIOUS
<1>2. CASE On(p, stack)
  <2>1. Cardinality(Done(p)) >= call[p].need /\ call[p].need \in Nat
    BY <1>1, <1>2 DEF AnyOK, TypeOK
  <2>2. Done(p) \subseteq Done(p)' /\ Done(p)' \in SUBSET Leaf
    BY <1>1 DEF Done, LeavesGoOn, TypeOK
  <2>3. /\ Cardinality(Done(p)) <= Cardinality(Done(p)')
        /\ Cardinality(Done(p)) \in Nat /\ Cardinality(Done(p)') \in Nat
    BY <2>2, SomeLeaves
  <2>4. Cardinality(Done(p)') >= call'[p].need
    BY <1>1, <2>1, <2>3
  <2> QED
    BY <1>1, <1>2, <2>4 DEF AnyOK
<1>3. CASE ~On(p, stack)
  <2>1. PICK h \in Helper : Armed(h) /\ parent[h] = p
    BY <1>1, <1>3 DEF AnyOK
  <2>2. Armed(h)' /\ parent'[h] = p
    BY <2>1
  <2> QED
    BY <1>1, <1>3, <2>2 DEF AnyOK
<1> QED
  BY <1>2, <1>3

LEMMA KnownKept ==
  ASSUME NEW p \in Awaiter, KnownOK(p), slips \subseteq slips', Unmoved(p), LeavesSame(p),
         Known(p)' = Known(p)
  PROVE  KnownOK(p)'
<1> SUFFICES ASSUME p \notin slips' PROVE KnownOK(p)'
  BY DEF KnownOK
<1>1. /\ Known(p) = IF pc[p] = "future" /\ ~On(p, stack) THEN 1 ELSE 0
      /\ \A l, m \in Kids(p) : pc[p] = "leaf" /\ ~On(p, stack) /\ l = m
  BY DEF KnownOK
<1>2. Kids(p)' = Kids(p)
  BY SameLeaves
<1>3. CASE pc'[p] = pc[p] /\ (On(p, stack') <=> On(p, stack))
  BY <1>1, <1>2, <1>3 DEF KnownOK
<1>4. CASE ~Asleep(p) /\ ~Asleep(p)'
  <2>1. ~(pc[p] = "future" /\ ~On(p, stack)) /\ ~(pc[p] = "leaf" /\ ~On(p, stack))
        /\ ~(pc'[p] = "future" /\ ~On(p, stack'))
    BY <1>4 DEF Asleep
  <2> QED
    BY <1>1, <1>2, <2>1 DEF KnownOK
<1> QED
  BY <1>3, <1>4 DEF Unmoved

LEMMA CountKept ==
  ASSUME FutureCount, wait_count'[Future] = wait_count[Future], LeavesSame(Future),
         Quiet(stack')
  PROVE  FutureCount'
<1>1. Kids(Future)' = Kids(Future)
  BY SameLeaves
<1> QED
  BY <1>1 DEF FutureCount, Quiet, Runs, Top

(* No body but the one that is resumed notices.                            *)
LEMMA BodiesKept ==
  ASSUME AwaitInv, TypeOK', LeavesGoOn, Remaining' <= Remaining, pc' = pc, call' = call,
         \A p \in Awaiter : /\ wait_count'[p] = wait_count[p] /\ LeavesSame(p)
                            /\ On(p, stack') <=> On(p, stack)
                            /\ Known(p)' = Known(p),
         slips \subseteq slips',
         \A h \in Helper : Armed(h) => Armed(h)' /\ parent'[h] = parent[h]
  PROVE  /\ \A p \in Awaiter : BodyOK(p)' /\ AnyOK(p)' /\ KnownOK(p)'
         /\ StackOK(stack') => StackInv'
<1>1. TypeOK /\ Remaining \in Nat /\ Remaining' \in Nat
  BY DueNumber DEF AwaitInv
<1>2. ASSUME NEW p \in Awaiter PROVE BodyOK(p)' /\ AnyOK(p)' /\ KnownOK(p)'
  <2>1. BodyOK(p) /\ AnyOK(p) /\ KnownOK(p)
    BY DEF AwaitInv
  <2>2. Unmoved(p)
    BY DEF Unmoved
  <2>3. BodyOK(p)'
    BY <1>1, <2>1, <2>2, BodyKept
  <2>4. AnyOK(p)'
    BY <1>1, <2>1, AnyKept
  <2>5. KnownOK(p)'
    BY <2>1, <2>2, KnownKept
  <2> QED
    BY <2>3, <2>4, <2>5
<1>3. StackOK(stack') => StackInv'
  BY DEF AwaitInv, StackInv
<1> QED
  BY <1>2, <1>3

LEMMA HelpersKept ==
  ASSUME AwaitInv, pc' = pc, call' = call,
         \A p \in Awaiter : pc[p] = "any" /\ ~On(p, stack) => ~On(p, stack'),
         NEW S \in SUBSET Helper,
         \A h \in S : LeavesSame(h) /\ HelperStays(h)
  PROVE  \A h \in S : HelperOK(h)' /\ ArmedOK(h)'
<1> SUFFICES ASSUME NEW h \in S PROVE HelperOK(h)' /\ ArmedOK(h)'
  OBVIOUS
<1>1. HelperOK(h) /\ ArmedOK(h) /\ TypeOK
  BY DEF AwaitInv
<1>2. HelperOK(h)'
  BY <1>1, HelperKept
<1>3. ASSUME Armed(h)
      PROVE  pc'[parent[h]] = pc[parent[h]] /\ call'[parent[h]] = call[parent[h]]
             /\ ~On(parent[h], stack')
  <2>1. parent[h] \in Awaiter
    BY <1>1, <1>3, Kinds DEF TypeOK, Armed
  <2>2. pc[parent[h]] = "any" /\ ~On(parent[h], stack)
    BY <1>1, <1>3 DEF ArmedOK
  <2> QED
    BY <2>1, <2>2
<1>4. ArmedOK(h)'
  BY <1>1, <1>3, ArmedKept
<1> QED
  BY <1>2, <1>4

(* A body is woken, or its count is decremented for nothing.               *)
LEMMA AwaiterWoken ==
  ASSUME AwaitInv, TypeOK', LeavesGoOn, Remaining' < Remaining, pc' = pc, call' = call,
         NEW w \in Awaiter,
         wait_count'[w] = (IF wait_count[w] = 0 THEN SizeMod - 1 ELSE wait_count[w] - 1),
         \A v \in Waiter : v # w => wait_count'[v] = wait_count[v],
         \A v \in Waiter : v # Future =>
            /\ On(v, stack') <=> On(v, stack) \/ (v = w /\ wait_count[w] = 1)
            /\ Resuming(v, stack') <=> Resuming(v, stack),
         StackOK(stack'),
         \A h \in Helper : /\ phase'[h] = phase[h] /\ rest'[h] = rest[h]
                           /\ parent'[h] = parent[h] /\ LeavesSame(h)
  PROVE  /\ \A p \in Awaiter : BodyOK(p)' /\ AnyOK(p)'
         /\ \A h \in Helper : HelperOK(h)' /\ ArmedOK(h)'
         /\ StackInv'
         /\ \A p \in Awaiter : p # w => Unmoved(p)
<1>1. TypeOK /\ Remaining \in Nat /\ Remaining' \in Nat
  BY DueNumber DEF AwaitInv
<1>2. wait_count[w] = 1 <=> Asleep(w)
  BY DEF AwaitInv, BodyOK
<1>3. ASSUME NEW h \in Helper PROVE HelperStays(h)
  <2>1. h \in Waiter /\ h # w /\ h # Future
    BY Kinds
  <2> QED
    BY <2>1 DEF HelperStays
<1>4. ASSUME NEW p \in Awaiter
      PROVE  /\ On(p, stack') <=> On(p, stack) \/ (p = w /\ wait_count[w] = 1)
             /\ p # w => wait_count'[p] = wait_count[p]
  <2>1. p \in Waiter /\ p # Future
    BY Kinds
  <2> QED
    BY <2>1
<1>5. ASSUME NEW p \in Awaiter, pc[p] = "any" PROVE On(p, stack') <=> On(p, stack)
  BY <1>2, <1>4, <1>5 DEF Asleep
<1>6. \A h \in Helper : HelperOK(h)' /\ ArmedOK(h)'
  <2>1. \A p \in Awaiter : pc[p] = "any" /\ ~On(p, stack) => ~On(p, stack')
    BY <1>5
  <2> QED
    BY <1>3, <2>1, HelpersKept
<1>7. ASSUME NEW h \in Helper, Armed(h) PROVE Armed(h)' /\ parent'[h] = parent[h]
  BY <1>3, <1>7 DEF Armed, HelperStays
<1>8. ASSUME NEW p \in Awaiter PROVE AnyOK(p)'
  <2>1. AnyOK(p)
    BY DEF AwaitInv
  <2>2. \A h \in Helper : Armed(h) /\ parent[h] = p => Armed(h)' /\ parent'[h] = p
    BY <1>7
  <2>3. pc'[p] = "any" => /\ pc[p] = "any" /\ call'[p] = call[p]
                          /\ On(p, stack') <=> On(p, stack)
    BY <1>5
  <2> QED
    BY <1>1, <2>1, <2>2, <2>3, AnyKept
<1>9. ASSUME NEW p \in Awaiter, p # w PROVE Unmoved(p)
  BY <1>4, <1>9 DEF Unmoved
<1>10. ASSUME NEW p \in Awaiter PROVE BodyOK(p)'
  <2>1. BodyOK(p)
    BY DEF AwaitInv
  <2>2. CASE p = w
    <3>1. On(p, stack') <=> On(p, stack) \/ wait_count[p] = 1
      BY <1>4, <2>2
    <3> QED
      BY <1>1, <2>1, <2>2, <3>1, BodyDrops
  <2>3. CASE p # w
    <3>1. wait_count'[p] = wait_count[p] /\ Unmoved(p) /\ Remaining' <= Remaining
      BY <1>1, <1>4, <1>9, <2>3
    <3> QED
      BY <1>1, <2>1, <3>1, BodyKept
  <2> QED
    BY <2>2, <2>3
<1>11. ASSUME NEW p \in Awaiter
       PROVE  IF On(p, stack') THEN pc'[p] \notin {"new", "done"} ELSE pc'[p] # "on"
  <2>1. IF On(p, stack) THEN pc[p] \notin {"new", "done"} ELSE pc[p] # "on"
    BY DEF AwaitInv, StackInv
  <2> QED
    BY <1>2, <1>4, <2>1 DEF Asleep
<1>12. StackInv'
  BY <1>11 DEF StackInv
<1> QED
  BY <1>6, <1>8, <1>9, <1>10, <1>12

------------------------------------------------------------------------------
(* References.                                                             *)

NoRefs(s) == \A i \in 1 .. Len(s) : ~s[i].ref
AllHeld(s) ==
  \A i \in 1 .. Len(s) : s[i].who = Future /\ s[i].at # "wake" => s[i].ref

LEMMA AllRunsHeld ==
  ASSUME NEW s, AllHeld(s), NEW h
  PROVE  RunsHeld(s, h)
  BY DEF AllHeld, RunsHeld

LEMMA HeldBelow ==
  ASSUME NEW s \in Seq(Frames), NEW h, RunsHeld(s, h),
         s # << >> => Last(s).who # Future
  PROVE  AllHeld(s)
<1> SUFFICES ASSUME NEW i \in 1 .. Len(s), s[i].who = Future, s[i].at # "wake"
             PROVE  s[i].ref
  BY DEF AllHeld
<1>1. CASE i = Len(s)
  <2>1. s # << >> /\ Last(s) = s[i]
    BY <1>1, Popped DEF Last
  <2> QED
    BY <2>1
<1> QED
  BY <1>1 DEF RunsHeld

LEMMA PushRefs ==
  ASSUME NEW s \in Seq(Frames), NEW f \in Frames, f.at = "wake", ~f.ref,
         NEW s2, s2 = Append(s, f)
  PROVE  (NoRefs(s) => NoRefs(s2)) /\ (AllHeld(s) => AllHeld(s2))
<1>1. /\ Len(s) \in Nat /\ Len(s2) = Len(s) + 1
      /\ \A i \in 1 .. Len(s) : s2[i] = s[i]
      /\ s2[Len(s) + 1] = f
  BY Pushed
<1>2. \A i \in 1 .. Len(s2) : i \in 1 .. Len(s) \/ i = Len(s) + 1
  BY <1>1
<1>3. NoRefs(s) => NoRefs(s2)
  BY <1>1, <1>2 DEF NoRefs
<1>4. AllHeld(s) => AllHeld(s2)
  BY <1>1, <1>2 DEF AllHeld
<1> QED
  BY <1>3, <1>4

LEMMA PopRefs ==
  ASSUME NEW s \in Seq(Frames), s # << >>, NEW s2, s2 = Front(s)
  PROVE  /\ NoRefs(s) => NoRefs(s2)
         /\ \A h : RunsHeld(s, h) => AllHeld(s2)
<1>1. /\ Len(s) \in Nat /\ Len(s2) = Len(s) - 1
      /\ \A i \in 1 .. Len(s) - 1 : s2[i] = s[i]
  BY Popped
<1>2. \A i \in 1 .. Len(s2) : i \in 1 .. Len(s) /\ i # Len(s) /\ s2[i] = s[i]
  BY <1>1
<1>3. NoRefs(s) => NoRefs(s2)
  BY <1>2 DEF NoRefs
<1>4. \A h : RunsHeld(s, h) => AllHeld(s2)
  BY <1>2 DEF AllHeld, RunsHeld
<1> QED
  BY <1>3, <1>4

LEMMA TopRefs ==
  ASSUME NEW s \in Seq(Frames), s # << >>, NEW f \in Frames,
         NEW s2, s2 = Append(Front(s), f)
  PROVE  /\ NoRefs(s) /\ ~f.ref => NoRefs(s2)
         /\ \A h : RunsHeld(s, h) /\ (f.ref \/ h = {}) => RunsHeld(s2, h)
         /\ \A h : RunsHeld(s, h) /\ (f.ref \/ f.who # Future) => AllHeld(s2)
<1>1. /\ Len(s) \in Nat /\ Len(s) > 0 /\ Front(s) \in Seq(Frames)
      /\ Len(Front(s)) = Len(s) - 1
      /\ \A i \in 1 .. Len(s) - 1 : Front(s)[i] = s[i]
  BY Popped
<1>2. /\ Len(s2) = Len(Front(s)) + 1
      /\ \A i \in 1 .. Len(Front(s)) : s2[i] = Front(s)[i]
      /\ s2[Len(Front(s)) + 1] = f
  BY <1>1, Pushed
<1>3. /\ Len(s2) = Len(s) /\ s2[Len(s)] = f
      /\ \A i \in 1 .. Len(s) : i # Len(s) => s2[i] = s[i]
  BY <1>1, <1>2
<1>4. NoRefs(s) /\ ~f.ref => NoRefs(s2)
  BY <1>3 DEF NoRefs
<1>5. \A h : RunsHeld(s, h) /\ (f.ref \/ h = {}) => RunsHeld(s2, h)
  BY <1>3 DEF RunsHeld
<1>6. \A h : RunsHeld(s, h) /\ (f.ref \/ f.who # Future) => AllHeld(s2)
  BY <1>3 DEF RunsHeld, AllHeld
<1> QED
  BY <1>4, <1>5, <1>6

LEMMA HoldsKept ==
  ASSUME HoldsOK, counted' = counted, holds' = holds, Listed' \subseteq Listed,
         FutureLives' <=> FutureLives,
         \A p \in Awaiter \ holds : /\ pc'[p] = "future" => pc[p] = "future"
                                    /\ pc[p] = "done" => pc'[p] = "done",
         NoRefs(stack) => NoRefs(stack'),
         counted => RunsHeld(stack', holds),
         ~FutureLives => Kids(Future)' = {} /\ ~On(Future, stack')
  PROVE  HoldsOK'
<1>1. /\ ~counted => holds = {} /\ FutureLives /\ NoRefs(stack)
      /\ counted => \A p \in Awaiter \ holds : pc[p] # "future" /\ (p \in Listed => pc[p] = "done")
      /\ ~FutureLives => holds = {}
  BY DEF HoldsOK, NoRefs
<1>2. ~counted' => holds' = {} /\ FutureLives' /\ \A i \in 1 .. Len(stack') : ~stack'[i].ref
  BY <1>1 DEF NoRefs
<1>3. counted' => /\ \A p \in Awaiter \ holds' :
                        pc'[p] # "future" /\ (p \in Listed' => pc'[p] = "done")
                  /\ RunsHeld(stack', holds')
  BY <1>1
<1>4. ~FutureLives' => holds' = {} /\ Kids(Future)' = {} /\ ~On(Future, stack')
  BY <1>1
<1> QED
  BY <1>2, <1>3, <1>4 DEF HoldsOK

------------------------------------------------------------------------------
(* A leaf finishes.                                                        *)

LEMMA LeafFinishes ==
  ASSUME AwaitInv, NEW l \in Leaf, leaf[l] = "waiting", parent' = parent,
         leaf' = [leaf EXCEPT ![l] = "done"], slips' = slips \union Missed(l)
  PROVE  /\ \A w : parent[l] # w => LeavesSame(w)
         /\ l \in Kids(parent[l]) /\ Kids(parent[l])' = Kids(parent[l]) \ {l}
         /\ l \notin Slipped(parent[l])
         /\ Slipped(parent[l])' = IF Resuming(parent[l], stack)
                                    THEN Slipped(parent[l]) \union {l} ELSE Slipped(parent[l])
         /\ LeavesGoOn /\ LeavesOK' /\ slips \subseteq slips'
         /\ Remaining' + 2 + Due = Remaining + Due' \/ ~TypeOK'
<1>1. TypeOK /\ LeavesOK
  BY DEF AwaitInv
<1>2. /\ leaf'[l] = "done" /\ \A m \in Leaf : m # l => leaf'[m] = leaf[m]
      /\ \A m \in Leaf : m \in slips' <=> m \in slips \/ (m = l /\ Resuming(parent[l], stack))
      /\ slips \subseteq slips'
  BY <1>1 DEF TypeOK, Missed
<1>3. \A m \in Leaf \cap slips : leaf[m] = "done"
  BY <1>1 DEF LeavesOK
<1>4. \A w : parent[l] # w => LeavesSame(w)
  BY <1>2 DEF LeavesSame
<1>5. l \in Kids(parent[l]) /\ Kids(parent[l])' = Kids(parent[l]) \ {l}
  BY <1>2 DEF Kids
<1>6. l \notin slips
  BY <1>3
<1>7. l \notin Slipped(parent[l])
  BY <1>6 DEF Slipped
<1>8. Slipped(parent[l])' = IF Resuming(parent[l], stack)
                              THEN Slipped(parent[l]) \union {l} ELSE Slipped(parent[l])
  <2>1. Slipped(parent[l])' = {m \in Leaf : m \in slips' /\ parent[m] = parent[l]}
    BY DEF Slipped
  <2>2. Slipped(parent[l]) = {m \in Leaf : m \in slips /\ parent[m] = parent[l]}
    BY DEF Slipped
  <2> QED
    BY <1>2, <2>1, <2>2
<1>9. LeavesGoOn /\ LeavesOK'
  BY <1>1, <1>2 DEF LeavesGoOn, LeavesOK
<1> QED
  BY <1>1, <1>2, <1>4, <1>5, <1>7, <1>8, <1>9, RemainingLess

(* The leaves of a waiter fit in its count.                                *)
LEMMA FewLeaves ==
  ASSUME NEW w
  PROVE  /\ IsFiniteSet(Kids(w)) /\ Cardinality(Kids(w)) \in Nat
         /\ IsFiniteSet(Slipped(w)) /\ Cardinality(Slipped(w)) \in Nat
         /\ IsFiniteSet(Counted(w)) /\ Cardinality(Counted(w)) \in Nat
         /\ Cardinality(Kids(w)) + 1 < SizeMod
         /\ Cardinality(Slipped(w)) + 1 < SizeMod
         /\ Cardinality(Counted(w)) + 1 < SizeMod
         /\ Cardinality(Kids(w)) = 0 <=> Kids(w) = {}
         /\ Cardinality(Counted(w)) = 0 <=> Counted(w) = {}
<1>1. /\ Kids(w) \in SUBSET Leaf /\ Slipped(w) \in SUBSET Leaf
      /\ Counted(w) \in SUBSET Leaf
  BY DEF Kids, Slipped, Counted
<1>2. \A S \in SUBSET Leaf : /\ IsFiniteSet(S) /\ Cardinality(S) \in Nat
                             /\ Cardinality(S) <= Cardinality(Leaf)
                             /\ Cardinality(S) = 0 <=> S = {}
  BY SomeLeaves
<1> HIDE DEF Kids, Slipped, Counted
<1>3. Cardinality(Leaf) + 1 < SizeMod /\ Cardinality(Leaf) \in Nat /\ SizeMod \in Nat
  BY Numbers
<1> QED
  BY <1>1, <1>2, <1>3

(* A helper that a leaf finishes into is not on the stack, unless it       *)
(* resumes its parent and its count is below zero.                         *)
LEMMA HelperAwake ==
  ASSUME AwaitInv, InBody, NEW h \in Helper, Kids(h) # {}
  PROVE  /\ phase[h] \in {"first", "rest"}
         /\ wait_count[h] = 1 => ~On(h, stack)
         /\ ~Resuming(h, stack) => wait_count[h] # 0 /\ ~On(h, stack)
<1>1. HelperOK(h) /\ TypeOK /\ StackOK(stack)
  BY DEF AwaitInv, StackInv
<1>2. phase[h] \in {"first", "rest"}
  BY <1>1 DEF HelperOK, Kids, TypeOK
<1>3. ~Resuming(h, stack) => ~On(h, stack)
  <2> SUFFICES ASSUME ~Resuming(h, stack), On(h, stack) PROVE FALSE
    OBVIOUS
  <2>1. stack # << >> /\ Last(stack).who = h
    BY <1>1, OnTop DEF TypeOK
  <2> QED
    BY <2>1, Kinds DEF InBody, Top
<1>4. ~Resuming(h, stack) => wait_count[h] # 0
  BY <1>1, <1>2, <1>3 DEF HelperOK
<1>5. Resuming(h, stack) => wait_count[h] # 1
  <2> SUFFICES ASSUME Resuming(h, stack), wait_count[h] = 1 PROVE FALSE
    OBVIOUS
  <2>1. phase[h] = "first"
    BY <1>1, <1>2 DEF HelperOK
  <2>2. wait_count[h] + Cardinality(Slipped(h)) \in {0, SizeMod}
    BY <1>1, <2>1 DEF HelperOK
  <2> QED
    BY <2>2, FewLeaves
<1> QED
  BY <1>2, <1>3, <1>4, <1>5

(* A leaf finishes into its helper.                                        *)
LEMMA HelperDrops ==
  ASSUME AwaitInv, TypeOK', InBody, NEW l \in Leaf, leaf[l] = "waiting", parent' = parent,
         leaf' = [leaf EXCEPT ![l] = "done"], slips' = slips \union Missed(l),
         pc' = pc, call' = call, phase' = phase, rest' = rest,
         NEW h \in Helper, parent[l] = h,
         wait_count'[h] = (IF wait_count[h] = 0 THEN SizeMod - 1 ELSE wait_count[h] - 1),
         On(h, stack') <=> On(h, stack) \/ wait_count[h] = 1,
         Resuming(h, stack') <=> Resuming(h, stack),
         \A p \in Awaiter : On(p, stack') <=> On(p, stack)
  PROVE  HelperOK(h)' /\ ArmedOK(h)'
<1>1. /\ HelperOK(h) /\ ArmedOK(h) /\ TypeOK
      /\ wait_count[h] \in 0 .. SizeMod - 1 /\ rest[h] \in 0 .. SizeMod - 1
  BY Kinds DEF AwaitInv, TypeOK
<1>2. /\ l \in Kids(h) /\ Kids(h)' = Kids(h) \ {l}
      /\ l \notin Slipped(h)
      /\ Slipped(h)' = IF Resuming(h, stack) THEN Slipped(h) \union {l} ELSE Slipped(h)
  BY LeafFinishes
<1>3. /\ phase[h] \in {"first", "rest"}
      /\ wait_count[h] = 1 => ~On(h, stack)
      /\ ~Resuming(h, stack) => wait_count[h] # 0 /\ ~On(h, stack)
  BY <1>2, HelperAwake
<1>4. /\ IsFiniteSet(Kids(h)) /\ Cardinality(Kids(h)) \in Nat
      /\ IsFiniteSet(Slipped(h)) /\ Cardinality(Slipped(h)) \in Nat
      /\ Cardinality(Slipped(h)) + 1 < SizeMod /\ SizeMod \in Nat
      /\ IsFiniteSet(Counted(h))
  BY FewLeaves, Numbers
<1>5. CASE ~Resuming(h, stack)
  <2>1. /\ wait_count[h] # 0 /\ ~On(h, stack) /\ Slipped(h)' = Slipped(h)
        /\ wait_count'[h] = wait_count[h] - 1 /\ ~Resuming(h, stack')
    BY <1>2, <1>3, <1>5
  <2>2. On(h, stack') <=> wait_count'[h] = 0
    BY <1>1, <2>1
  <2>3. Cardinality(Kids(h)') = Cardinality(Kids(h)) - 1
    <3>1. Cardinality(Kids(h) \ {l}) = Cardinality(Kids(h)) - 1
      BY ONLY <1>2, <1>4, FS_RemoveElement
    <3> QED
      BY ONLY <1>2, <3>1
  <2>4. CASE phase[h] = "first"
    <3>1. /\ wait_count[h] + rest[h] = Cardinality(Kids(h)) /\ Slipped(h) = {}
          /\ parent[h] = NoCort => rest[h] = 0
      BY <1>1, <1>5, <2>4 DEF HelperOK
    <3>2. wait_count'[h] + rest'[h] = Cardinality(Kids(h)')
      BY <1>1, <1>4, <2>1, <2>3, <3>1
    <3>3. HelperOK(h)'
      BY <2>1, <2>2, <2>4, <3>1, <3>2 DEF HelperOK
    <3>4. ASSUME Armed(h)' PROVE ArmedOK(h)'
      <4>0. PICK p : p = parent[h]
        OBVIOUS
      <4>1. Armed(h) /\ p \in Awaiter
        BY <1>1, <2>1, <3>4, <4>0, Kinds DEF Armed, TypeOK
      <4>2. /\ pc[p] = "any" /\ ~On(p, stack)
            /\ call[p].args = {m \in Leaf : parent[m] = h} /\ call[p].args # {}
            /\ wait_count[h] + Cardinality(Done(p)) = call[p].need
        BY <1>1, <4>0, <4>1 DEF ArmedOK
      <4>3. /\ l \in call[p].args /\ l \notin Done(p) /\ Done(p)' = Done(p) \union {l}
        BY <1>1, <4>2 DEF Done, TypeOK
      <4>4. Done(p) \in SUBSET Leaf
        BY <4>2 DEF Done
      <4>5. IsFiniteSet(Done(p)) /\ Cardinality(Done(p)) \in Nat
        BY <4>4, SomeLeaves
      <4>6. Cardinality(Done(p) \union {l}) = Cardinality(Done(p)) + 1
        BY ONLY <4>3, <4>5, FS_AddElement
      <4>7. call'[p].need = call[p].need
        OBVIOUS
      <4>8. wait_count'[h] + Cardinality(Done(p)') = call'[p].need
        BY <1>1, <2>1, <4>2, <4>3, <4>5, <4>6, <4>7
      <4> QED
        BY <4>0, <4>1, <4>2, <4>8 DEF ArmedOK
    <3> QED
      BY <3>3, <3>4 DEF ArmedOK
  <2>5. CASE phase[h] = "rest"
    <3>1. wait_count[h] = Cardinality(Counted(h))
      BY <1>1, <2>5 DEF HelperOK
    <3>2. l \in Counted(h) /\ Counted(h)' = Counted(h) \ {l}
      BY <1>2, <2>1 DEF Counted
    <3>3. wait_count'[h] = Cardinality(Counted(h)')
      BY <1>4, <2>1, <3>1, <3>2, FS_RemoveElement
    <3>4. HelperOK(h)'
      BY <2>1, <2>2, <2>5, <3>3 DEF HelperOK
    <3> QED
      BY <2>5, <3>4 DEF ArmedOK, Armed
  <2> QED
    BY <1>3, <2>4, <2>5
<1>6. CASE Resuming(h, stack)
  <2>1. phase[h] = "first"
    BY <1>1, <1>3, <1>6 DEF HelperOK
  <2>2. /\ rest[h] = Cardinality(Counted(h))
        /\ wait_count[h] + Cardinality(Slipped(h)) \in {0, SizeMod}
    BY <1>1, <1>6, <2>1 DEF HelperOK
  <2>a. Slipped(h)' = Slipped(h) \union {l}
    BY <1>2, <1>6
  <2>3. Counted(h)' = Counted(h)
    <3>1. Kids(h)' \union Slipped(h)' = Kids(h) \union Slipped(h)
      BY <1>2, <2>a
    <3> QED
      BY <3>1 DEF Counted
  <2>4. Cardinality(Slipped(h)') = Cardinality(Slipped(h)) + 1
    <3>1. l \notin Slipped(h) /\ IsFiniteSet(Slipped(h))
      BY <1>2, <1>4
    <3>2. Cardinality(Slipped(h) \union {l}) = Cardinality(Slipped(h)) + 1
      BY ONLY <3>1, FS_AddElement
    <3> QED
      BY ONLY <2>a, <3>2
  <2>5. wait_count'[h] + Cardinality(Slipped(h)') = SizeMod
    BY <1>1, <1>4, <2>2, <2>4
  <2>6. HelperOK(h)'
    BY <1>6, <2>1, <2>2, <2>3, <2>5 DEF HelperOK
  <2> QED
    BY <1>6, <2>6 DEF ArmedOK, Armed
<1> QED
  BY <1>5, <1>6

(* Due' is due what Due is, but for the runs of the future.                *)
LEMMA SameDue ==
  ASSUME parent'[Future] = parent[Future], parent_list' = parent_list, left' = left,
         TypeOK, TypeOK'
  PROVE  /\ Due' + FutureRuns(stack) = Due + FutureRuns(stack')
         /\ FutureRuns(stack) \in Nat /\ FutureRuns(stack') \in Nat
         /\ Entries' = Entries
<1>1. Entries' = Entries /\ Entries \in Nat
  BY DEF Entries, TypeOK
<1>2. Units' = Units
  BY DEF Units
<1>3. Cardinality(Units) \in Nat
  BY UnitsCounted DEF Units
<1>4. FutureRuns(stack) \in Nat /\ FutureRuns(stack') \in Nat
  BY RunsCounted DEF TypeOK
<1> QED
  BY <1>1, <1>2, <1>3, <1>4 DEF Due

LEMMA SameKnown ==
  ASSUME parent'[Future] = parent[Future], parent_list' = parent_list
  PROVE  Listed' = Listed /\ \A p : Known(p)' = Known(p)
<1>1. Listed' = Listed
  BY DEF Listed
<1>2. \A p : Known(p)' = Known(p)
  BY DEF Known
<1> QED
  BY <1>1, <1>2

(* A leaf finishes into w, who is woken or not.                            *)
LEMMA LeafWakes ==
  ASSUME AwaitInv, NEW l \in Leaf, LeafDone(l), parent[l] # NoCort
  PROVE  AwaitInv'
<1>0. PICK w \in Waiter : w = parent[l]
  BY DEF AwaitInv, TypeOK
<1>1. /\ InBody /\ leaf[l] = "waiting" /\ leaf' = [leaf EXCEPT ![l] = "done"]
      /\ slips' = slips \union Missed(l) /\ TryResume(w, stack)
      /\ parent' = parent /\ rest' = rest /\ phase' = phase
      /\ counted' = counted /\ parent_list' = parent_list /\ holds' = holds
      /\ pc' = pc /\ call' = call /\ left' = left
  BY <1>0 DEF LeafDone, future, bodies
<1>2. /\ TypeOK /\ StackOK(stack) /\ stack \in Seq(Frames)
      /\ \A v \in Waiter : parent[v] \in Awaiter \union {NoCort}
      /\ wait_count \in [Waiter -> 0 .. SizeMod - 1]
  BY DEF AwaitInv, TypeOK, StackInv
<1>3. /\ \A v : w # v => LeavesSame(v)
      /\ l \in Kids(w) /\ Kids(w)' = Kids(w) \ {l}
      /\ LeavesGoOn /\ LeavesOK' /\ slips \subseteq slips'
      /\ Remaining' + 2 + Due = Remaining + Due' \/ ~TypeOK'
  <2>1. Kids(parent[l]) = Kids(w)
    BY <1>0
  <2> QED
    BY <1>0, <1>1, LeafFinishes
<1>4. Calls(stack)
  BY <1>1 DEF Calls, InBody, Top
<1>5. wait_count[w] = 1 => w = Future \/ ~On(w, stack)
  <2>1. CASE w \in Awaiter
    BY <2>1 DEF AwaitInv, BodyOK, Asleep
  <2>2. CASE w \in Helper
    BY <1>1, <1>3, <2>2, HelperAwake
  <2> QED
    BY <2>1, <2>2, Kinds
<1>6. /\ wait_count' \in [Waiter -> 0 .. SizeMod - 1]
      /\ \A v \in Waiter : v # w => wait_count'[v] = wait_count[v]
      /\ wait_count'[w] = IF wait_count[w] = 0 THEN SizeMod - 1 ELSE wait_count[w] - 1
      /\ stack' \in Seq(Frames) /\ StackOK(stack')
      /\ \A v \in Waiter : On(v, stack') <=> On(v, stack) \/ (v = w /\ wait_count[w] = 1)
      /\ \A v \in Waiter : Resuming(v, stack') <=> Resuming(v, stack)
      /\ FutureRuns(stack) \in Nat
      /\ FutureRuns(stack') =
           FutureRuns(stack) + IF w = Future /\ wait_count[w] = 1 THEN 1 ELSE 0
      /\ wait_count[w] = 1 => stack' = Append(stack, Frame(w))
      /\ wait_count[w] # 1 => stack' = stack
      /\ Quiet(stack') \/ (w = Future /\ wait_count'[w] = 0)
  BY <1>1, <1>2, <1>4, <1>5, TryWakes
<1>7. TypeOK'
  <2>1. slips' \subseteq Leaf \union Awaiter
    BY <1>1, <1>2 DEF TypeOK, Missed
  <2>2. leaf' \in [Leaf -> {"idle", "waiting", "done"}]
    BY <1>1, <1>2 DEF TypeOK
  <2> QED
    BY <1>1, <1>2, <1>6, <2>1, <2>2 DEF TypeOK
<1>8. Remaining' < Remaining /\ Remaining \in Nat /\ Remaining' \in Nat
  <2> DEFINE r == Remaining
             r1 == Remaining'
             q == Due
             q1 == Due'
             m == FutureRuns(stack)
             m1 == FutureRuns(stack')
  <2>1. q1 + m = q + m1
    BY <1>1, <1>2, <1>7, SameDue
  <2>2. q \in Nat /\ q1 \in Nat /\ r \in Nat /\ r1 \in Nat
    BY <1>2, <1>7, DueNumber
  <2>3. r1 + 2 + q = r + q1
    BY <1>3, <1>7
  <2>4. m \in Nat /\ (m1 = m \/ m1 = m + 1)
    BY <1>6
  <2> HIDE DEF r, r1, q, q1, m, m1
  <2>5. r1 < r
    BY ONLY <2>1, <2>2, <2>3, <2>4
  <2> QED
    BY <2>2, <2>5 DEF r, r1
<1>9. Listed' = Listed /\ \A p : Known(p)' = Known(p)
  BY <1>1, SameKnown
<1>10. HoldsOK'
  <2>1. HoldsOK
    BY DEF AwaitInv
  <2>2. Frame(w) \in Frames /\ Frame(w).at = "wake" /\ ~Frame(w).ref
    BY <1>2 DEF Frame, Frames
  <2>3. NoRefs(stack) => NoRefs(stack')
    BY <1>2, <1>6, <2>2, PushRefs
  <2>4. counted => RunsHeld(stack', holds)
    <3> SUFFICES ASSUME counted PROVE RunsHeld(stack', holds)
      OBVIOUS
    <3>1. RunsHeld(stack, holds)
      BY <2>1 DEF HoldsOK
    <3>2. stack # << >> => Last(stack).who # Future
      BY <1>1, Kinds DEF InBody, Top
    <3>3. AllHeld(stack)
      BY <1>2, <3>1, <3>2, HeldBelow
    <3>4. AllHeld(stack')
      BY <1>2, <1>6, <2>2, <3>3, PushRefs
    <3> QED
      BY <3>4, AllRunsHeld
  <2>5. ~FutureLives => Kids(Future)' = {} /\ ~On(Future, stack')
    <3> SUFFICES ASSUME ~FutureLives PROVE Kids(Future)' = {} /\ ~On(Future, stack')
      OBVIOUS
    <3>1. Kids(Future) = {} /\ ~On(Future, stack)
      BY <2>1 DEF HoldsOK
    <3>2. w # Future
      BY <1>3, <3>1
    <3>3. Kids(Future)' = Kids(Future)
      BY <1>3, <3>2, SameLeaves
    <3> QED
      BY <1>6, <3>1, <3>2, <3>3, Kinds
  <2>6. FutureLives' <=> FutureLives
    BY <1>1 DEF FutureLives
  <2> QED
    BY <1>1, <1>9, <2>1, <2>3, <2>4, <2>5, <2>6, HoldsKept
<1>11. ASSUME w # Future PROVE FutureCount'
  BY <1>3, <1>6, <1>11, CountKept, Kinds DEF AwaitInv
<1>12. CASE w \in Awaiter
  <2>1. /\ \A p \in Awaiter : BodyOK(p)' /\ AnyOK(p)'
        /\ \A h \in Helper : HelperOK(h)' /\ ArmedOK(h)'
        /\ StackInv'
        /\ \A p \in Awaiter : p # w => Unmoved(p)
    <3>1. \A h \in Helper : LeavesSame(h)
      BY <1>3, <1>12, Kinds
    <3> QED
      BY <1>1, <1>3, <1>6, <1>7, <1>8, <1>12, <3>1, AwaiterWoken
  <2>2. ASSUME NEW p \in Awaiter PROVE KnownOK(p)'
    <3>1. KnownOK(p)
      BY DEF AwaitInv
    <3>2. CASE p # w
      BY <1>3, <1>9, <2>1, <3>1, <3>2, KnownKept
    <3>3. CASE p = w
      <4> SUFFICES ASSUME p \notin slips' PROVE KnownOK(p)'
        BY DEF KnownOK
      <4>1. p \notin slips
        BY <1>3
      <4>2. /\ Known(p) = IF pc[p] = "future" /\ ~On(p, stack) THEN 1 ELSE 0
            /\ \A k, m \in Kids(p) : pc[p] = "leaf" /\ ~On(p, stack) /\ k = m
        BY <3>1, <4>1 DEF KnownOK
      <4>3. pc[p] = "leaf" /\ ~On(p, stack) /\ Kids(p)' = {}
        BY <1>3, <3>3, <4>2
      <4>4. Known(p)' = 0
        BY <1>9, <4>2, <4>3
      <4> QED
        BY <1>1, <4>3, <4>4 DEF KnownOK
    <3> QED
      BY <3>2, <3>3
  <2>3. FutureCount'
    BY <1>11, <1>12, Kinds
  <2> QED
    BY <1>3, <1>7, <1>10, <2>1, <2>2, <2>3 DEF AwaitInv
<1>13. CASE w \notin Awaiter
  <2>1. ASSUME NEW p \in Awaiter
        PROVE  /\ wait_count'[p] = wait_count[p] /\ LeavesSame(p)
               /\ On(p, stack') <=> On(p, stack)
               /\ Known(p)' = Known(p)
    BY <1>3, <1>6, <1>9, <1>13, Kinds
  <2>2. ASSUME NEW h \in Helper, Armed(h) PROVE Armed(h)' /\ parent'[h] = parent[h]
    BY <1>1, <1>6, <2>2, Kinds DEF Armed
  <2>3. /\ \A p \in Awaiter : BodyOK(p)' /\ AnyOK(p)' /\ KnownOK(p)'
        /\ StackOK(stack') => StackInv'
    BY <1>1, <1>3, <1>7, <1>8, <2>1, <2>2, BodiesKept
  <2>4. ASSUME NEW h \in Helper PROVE HelperOK(h)' /\ ArmedOK(h)'
    <3>1. h \in Waiter
      BY Kinds
    <3>2. CASE h = w
      <4>1. On(h, stack') <=> On(h, stack) \/ wait_count[h] = 1
        BY <1>6, <3>1, <3>2
      <4>2. /\ Resuming(h, stack') <=> Resuming(h, stack)
            /\ wait_count'[h] = IF wait_count[h] = 0 THEN SizeMod - 1 ELSE wait_count[h] - 1
        BY <1>6, <3>1, <3>2
      <4>3. parent[l] = h
        BY <1>0, <3>2
      <4> QED
        BY <1>1, <1>7, <2>1, <4>1, <4>2, <4>3, HelperDrops
    <3>3. CASE h # w
      <4>1. LeavesSame(h) /\ HelperStays(h)
        BY <1>1, <1>3, <1>6, <3>1, <3>3 DEF HelperStays
      <4>2. \A p \in Awaiter : pc[p] = "any" /\ ~On(p, stack) => ~On(p, stack')
        BY <2>1
      <4>3. \A g \in {h} : HelperOK(g)' /\ ArmedOK(g)'
        BY <1>1, <4>1, <4>2, HelpersKept
      <4> QED
        BY <4>3
    <3> QED
      BY <3>2, <3>3
  <2>5. FutureCount'
    <3>1. CASE w = Future
      <4>1. wait_count[Future] = Cardinality(Kids(Future))
        BY DEF AwaitInv, FutureCount
      <4>2. /\ IsFiniteSet(Kids(Future)) /\ Cardinality(Kids(Future)) \in Nat
            /\ Cardinality(Kids(Future)) # 0
        BY <1>3, <3>1, FewLeaves
      <4>3. Cardinality(Kids(Future)') = Cardinality(Kids(Future)) - 1
        BY <1>3, <3>1, <4>2, FS_RemoveElement
      <4>4. wait_count'[Future] = Cardinality(Kids(Future)')
        BY <1>6, <3>1, <4>1, <4>2, <4>3
      <4> QED
        BY <1>6, <3>1, <4>4 DEF FutureCount, Quiet, Runs, Top
    <3> QED
      BY <1>11, <3>1
  <2> QED
    BY <1>3, <1>6, <1>7, <1>10, <2>3, <2>4, <2>5 DEF AwaitInv
<1> QED
  BY <1>12, <1>13

(* A leaf of nobody, or one that becomes the future's.                     *)
LEMMA LooseLeaf ==
  ASSUME AwaitInv, TypeOK', LeavesGoOn, slips \subseteq slips',
         stack' = stack, pc' = pc, call' = call, phase' = phase, rest' = rest,
         parent_list' = parent_list, left' = left, counted' = counted, holds' = holds,
         \A w \in Waiter : parent'[w] = parent[w],
         \A w \in Awaiter \union Helper : LeavesSame(w) /\ wait_count'[w] = wait_count[w],
         LeavesOK', FutureCount', ~FutureLives => Kids(Future)' = Kids(Future)
  PROVE  AwaitInv'
<1>1. TypeOK /\ HoldsOK /\ StackOK(stack)
  BY DEF AwaitInv, StackInv
<1>2. Listed' = Listed /\ \A p : Known(p)' = Known(p)
  BY SameKnown, Kinds
<1>3. Remaining' <= Remaining
  <2>1. Remaining \in Nat /\ Remaining' \in Nat /\ Due \in Nat /\ Due' \in Nat
        /\ Remaining' + Due <= Remaining + Due'
    BY <1>1, RemainingIs
  <2>2. /\ Due' + FutureRuns(stack) = Due + FutureRuns(stack')
        /\ FutureRuns(stack) \in Nat /\ FutureRuns(stack') \in Nat
    BY <1>1, Kinds, SameDue
  <2>3. FutureRuns(stack') = FutureRuns(stack)
    OBVIOUS
  <2> QED
    BY <2>1, <2>2, <2>3
<1>4. ASSUME NEW h \in Helper PROVE HelperStays(h)
  BY Kinds DEF HelperStays
<1>5. ASSUME NEW h \in Helper, Armed(h) PROVE Armed(h)' /\ parent'[h] = parent[h]
  BY <1>5, Kinds DEF Armed
<1>6. /\ \A p \in Awaiter : BodyOK(p)' /\ AnyOK(p)' /\ KnownOK(p)'
      /\ StackOK(stack') => StackInv'
  BY <1>2, <1>3, <1>5, BodiesKept
<1>7. \A h \in Helper : HelperOK(h)' /\ ArmedOK(h)'
  BY <1>4, HelpersKept
<1>8. HoldsOK'
  <2>1. counted => RunsHeld(stack', holds)
    BY <1>1 DEF HoldsOK
  <2>2. FutureLives' <=> FutureLives
    BY DEF FutureLives
  <2>3. ~FutureLives => Kids(Future)' = {} /\ ~On(Future, stack')
    BY <1>1 DEF HoldsOK
  <2>4. NoRefs(stack) => NoRefs(stack')
    OBVIOUS
  <2> QED
    BY <1>1, <1>2, <2>1, <2>2, <2>3, <2>4, HoldsKept
<1> QED
  BY <1>1, <1>6, <1>7, <1>8 DEF AwaitInv

LEMMA LeafDoneKeeps ==
  ASSUME AwaitInv, NEW l \in Leaf, LeafDone(l)
  PROVE  AwaitInv'
<1>1. CASE parent[l] # NoCort
  BY <1>1, LeafWakes
<1>2. CASE parent[l] = NoCort
  <2>1. /\ InBody /\ leaf[l] = "waiting" /\ leaf' = [leaf EXCEPT ![l] = "done"]
        /\ slips' = slips \union Missed(l) /\ stack' = stack /\ wait_count' = wait_count
        /\ parent' = parent /\ rest' = rest /\ phase' = phase
        /\ counted' = counted /\ parent_list' = parent_list /\ holds' = holds
        /\ pc' = pc /\ call' = call /\ left' = left
    BY <1>2 DEF LeafDone, future, bodies
  <2>2. TypeOK /\ FutureCount /\ StackOK(stack)
    BY DEF AwaitInv, StackInv
  <2>3. /\ \A w : w # NoCort => LeavesSame(w)
        /\ LeavesGoOn /\ LeavesOK' /\ slips \subseteq slips'
    BY <1>2, <2>1, LeafFinishes
  <2>4. TypeOK'
    <3>1. slips' \subseteq Leaf \union Awaiter
      BY <2>1, <2>2 DEF TypeOK, Missed
    <3>2. leaf' \in [Leaf -> {"idle", "waiting", "done"}]
      BY <2>1, <2>2 DEF TypeOK
    <3> QED
      BY <2>1, <2>2, <3>1, <3>2 DEF TypeOK
  <2>5. Quiet(stack')
    BY <2>1, Kinds DEF InBody, Top, Quiet
  <2>6. LeavesSame(Future)
    BY <2>3, Kinds
  <2>7. FutureCount'
    BY <2>1, <2>2, <2>5, <2>6, CountKept
  <2>8. Kids(Future)' = Kids(Future)
    BY <2>6, SameLeaves
  <2>9. \A w \in Awaiter \union Helper : LeavesSame(w)
    BY <2>3, Kinds
  <2> QED
    BY <2>1, <2>3, <2>4, <2>7, <2>8, <2>9, LooseLeaf
<1> QED
  BY <1>1, <1>2

LEMMA LeafStartsKeeps ==
  ASSUME AwaitInv, NEW l \in Leaf, LeafStarts(l)
  PROVE  AwaitInv'
<1>1. /\ stack = << >> /\ leaf[l] = "idle" /\ leaf' = [leaf EXCEPT ![l] = "waiting"]
      /\ slips' = slips /\ stack' = stack /\ wait_count' = wait_count
      /\ parent' = parent /\ rest' = rest /\ phase' = phase
      /\ counted' = counted /\ parent_list' = parent_list /\ holds' = holds
      /\ pc' = pc /\ call' = call /\ left' = left
  BY DEF LeafStarts, future, bodies, stand
<1>2. TypeOK /\ FutureCount /\ LeavesOK
  BY DEF AwaitInv
<1>3. parent[l] = NoCort
  BY <1>1, <1>2 DEF LeavesOK
<1>4. leaf'[l] = "waiting" /\ \A m \in Leaf : m # l => leaf'[m] = leaf[m]
  BY <1>1, <1>2 DEF TypeOK
<1>5. \A w : w # NoCort => LeavesSame(w)
  BY <1>1, <1>3, <1>4 DEF LeavesSame
<1>6. LeavesOK' /\ LeavesGoOn
  BY <1>1, <1>2, <1>4 DEF LeavesOK, LeavesGoOn
<1>7. TypeOK'
  BY <1>1, <1>2 DEF TypeOK
<1>8. LeavesSame(Future) /\ \A w \in Awaiter \union Helper : LeavesSame(w)
  BY <1>5, Kinds
<1>9. Quiet(stack')
  BY <1>1 DEF Quiet
<1>10. FutureCount'
  BY <1>1, <1>2, <1>8, <1>9, CountKept
<1>11. Kids(Future)' = Kids(Future)
  BY <1>8, SameLeaves
<1> QED
  BY <1>1, <1>6, <1>7, <1>8, <1>10, <1>11, LooseLeaf

LEMMA FutureAwaitsKeeps ==
  ASSUME AwaitInv, NEW l \in Leaf, FutureAwaits(l)
  PROVE  AwaitInv'
<1>1. /\ InBody /\ FutureLives
      /\ leaf[l] = "idle" /\ leaf' = [leaf EXCEPT ![l] = "waiting"]
      /\ parent' = [parent EXCEPT ![l] = Future]
      /\ wait_count' = [wait_count EXCEPT ![Future] = (wait_count[Future] + 1) % SizeMod]
      /\ slips' = slips /\ stack' = stack /\ rest' = rest /\ phase' = phase
      /\ counted' = counted /\ parent_list' = parent_list /\ holds' = holds
      /\ pc' = pc /\ call' = call /\ left' = left
  BY DEF FutureAwaits, future, bodies, stand
<1>2. TypeOK /\ FutureCount /\ LeavesOK
  BY DEF AwaitInv
<1>3. parent[l] = NoCort
  BY <1>1, <1>2 DEF LeavesOK
<1>4. /\ leaf'[l] = "waiting" /\ \A m \in Leaf : m # l => leaf'[m] = leaf[m]
      /\ parent'[l] = Future
      /\ \A c \in Leaf \union Waiter : c # l => parent'[c] = parent[c]
  BY <1>1, <1>2 DEF TypeOK
<1>5. \A w : w # NoCort /\ w # Future => LeavesSame(w)
  BY <1>1, <1>3, <1>4 DEF LeavesSame
<1>6. LeavesOK' /\ LeavesGoOn
  BY <1>1, <1>2, <1>4 DEF LeavesOK, LeavesGoOn
<1>7. l \notin Kids(Future) /\ Kids(Future)' = Kids(Future) \union {l}
  BY <1>1, <1>3, <1>4, Kinds DEF Kids
<1>8. wait_count[Future] = Cardinality(Kids(Future))
  BY <1>2 DEF FutureCount
<1>9. /\ IsFiniteSet(Kids(Future)) /\ Cardinality(Kids(Future)) \in Nat
      /\ Cardinality(Kids(Future)) + 1 < SizeMod /\ SizeMod \in Nat
  BY FewLeaves, Numbers
<1>10. (wait_count[Future] + 1) % SizeMod = wait_count[Future] + 1
  BY <1>8, <1>9
<1>11. /\ wait_count'[Future] = wait_count[Future] + 1
       /\ \A w \in Waiter : w # Future => wait_count'[w] = wait_count[w]
       /\ wait_count' \in [Waiter -> 0 .. SizeMod - 1]
  BY <1>1, <1>2, <1>8, <1>9, <1>10, Kinds DEF TypeOK
<1>12. Cardinality(Kids(Future)') = Cardinality(Kids(Future)) + 1
  BY <1>7, <1>9, FS_AddElement
<1>13. FutureCount'
  <2>1. wait_count'[Future] = Cardinality(Kids(Future)')
    BY <1>8, <1>11, <1>12
  <2> QED
    BY <1>1, <2>1, Kinds DEF FutureCount, Runs, Top, InBody
<1>14. \A w \in Waiter : parent'[w] = parent[w]
  BY <1>4, Kinds
<1>15. TypeOK'
  <2>1. /\ parent' \in [Leaf \union Waiter -> Waiter \union {NoCort}]
        /\ leaf' \in [Leaf -> {"idle", "waiting", "done"}]
    BY <1>1, <1>2, Kinds DEF TypeOK
  <2> QED
    BY <1>1, <1>2, <1>11, <1>14, <2>1 DEF TypeOK
<1>16. \A w \in Awaiter \union Helper : LeavesSame(w) /\ wait_count'[w] = wait_count[w]
  BY <1>5, <1>11, Kinds
<1> QED
  BY <1>1, <1>6, <1>13, <1>14, <1>15, <1>16, LooseLeaf

------------------------------------------------------------------------------
(* The runs of the future.                                                 *)

LEMMA FutureTop ==
  ASSUME AwaitInv, Runs(Future)
  PROVE  /\ stack # << >> /\ Top = Last(stack) /\ Top \in Frames /\ Top.who = Future
         /\ stack \in Seq(Frames) /\ StackOK(stack) /\ On(Future, stack) /\ FutureLives
         /\ Top.ref => Top.at \in {"parents", "check"}
         /\ Top.at # "check" => wait_count[Future] = 0 /\ Kids(Future) = {}
<1>1. stack # << >> /\ Top = Last(stack) /\ Top.who = Future
  BY DEF Runs, Top
<1>2. stack \in Seq(Frames) /\ StackOK(stack) /\ HoldsOK /\ FutureCount
  BY DEF AwaitInv, TypeOK, StackInv
<1>3. Len(stack) \in Nat /\ Len(stack) > 0 /\ Last(stack) = stack[Len(stack)]
      /\ Last(stack) \in Frames
  BY <1>1, <1>2, Popped
<1>4. On(Future, stack) /\ (Top.ref => Top.at \in {"parents", "check"})
  BY <1>1, <1>2, <1>3 DEF On, StackOK
<1>5. FutureLives
  BY <1>2, <1>4 DEF HoldsOK
<1>6. Top.at # "check" => wait_count[Future] = 0 /\ Cardinality(Kids(Future)) = 0
  BY <1>2 DEF FutureCount
<1>7. Cardinality(Kids(Future)) = 0 <=> Kids(Future) = {}
  BY FewLeaves
<1> QED
  BY <1>1, <1>2, <1>3, <1>4, <1>5, <1>6, <1>7

(* A run goes on, or is over, and resumes nobody.                          *)
LEMMA FutureMoves ==
  ASSUME AwaitInv, TypeOK', StackOK(stack'),
         \A w \in Waiter : w # Future => /\ On(w, stack') <=> On(w, stack)
                                         /\ Resuming(w, stack') <=> Resuming(w, stack),
         FutureRuns(stack') <= FutureRuns(stack),
         leaf' = leaf, parent' = parent, rest' = rest, slips' = slips, parent_list' = parent_list,
         pc' = pc, call' = call, left' = left,
         \A w \in Waiter : wait_count'[w] = wait_count[w],
         \A h \in Helper : phase'[h] = phase[h],
         Quiet(stack') \/ wait_count[Future] = 0, HoldsOK'
  PROVE  AwaitInv'
<1>1. TypeOK /\ FutureCount /\ LeavesOK
  BY DEF AwaitInv
<1>2. LeavesGoOn /\ \A w : LeavesSame(w)
  BY DEF LeavesGoOn, LeavesSame
<1>3. \A p : Known(p)' = Known(p)
  BY SameKnown
<1>4. Remaining' <= Remaining
  <2>1. Remaining \in Nat /\ Remaining' \in Nat /\ Due \in Nat /\ Due' \in Nat
        /\ Remaining' + Due <= Remaining + Due'
    BY <1>1, <1>2, RemainingIs
  <2>2. /\ Due' + FutureRuns(stack) = Due + FutureRuns(stack')
        /\ FutureRuns(stack) \in Nat /\ FutureRuns(stack') \in Nat
    BY <1>1, SameDue
  <2>3. FutureRuns(stack') <= FutureRuns(stack)
    OBVIOUS
  <2>4. Due' <= Due
    BY <2>1, <2>2, <2>3
  <2>5. \A a, b, c, d \in Nat : a + c <= b + d /\ d <= c => a <= b
    OBVIOUS
  <2> QED
    BY ONLY <2>1, <2>4, <2>5, Zenon
<1>5. ASSUME NEW h \in Helper PROVE HelperStays(h)
  BY Kinds DEF HelperStays
<1>6. ASSUME NEW h \in Helper, Armed(h) PROVE Armed(h)' /\ parent'[h] = parent[h]
  BY <1>6, Kinds DEF Armed
<1>7. ASSUME NEW p \in Awaiter
      PROVE  wait_count'[p] = wait_count[p] /\ (On(p, stack') <=> On(p, stack))
  BY Kinds
<1>8. /\ \A p \in Awaiter : BodyOK(p)' /\ AnyOK(p)' /\ KnownOK(p)'
      /\ StackOK(stack') => StackInv'
  BY <1>2, <1>3, <1>4, <1>6, <1>7, BodiesKept
<1>9. \A h \in Helper : HelperOK(h)' /\ ArmedOK(h)'
  BY <1>2, <1>5, <1>7, HelpersKept
<1>10. FutureCount'
  <2>1. Kids(Future)' = Kids(Future)
    BY <1>2, SameLeaves
  <2> QED
    BY <1>1, <2>1, Kinds DEF FutureCount, Quiet, Runs, Top
<1>11. LeavesOK'
  BY <1>1 DEF LeavesOK
<1> QED
  BY <1>8, <1>9, <1>10, <1>11 DEF AwaitInv

(* The run on top is over.                                                 *)
LEMMA FutureLeaves ==
  ASSUME AwaitInv, Runs(Future), NEW s, s = Below
  PROVE  /\ s \in Seq(Frames) /\ StackOK(s) /\ Calls(s) /\ Quiet(s)
         /\ \A w \in Waiter : w # Future => /\ On(w, s) <=> On(w, stack)
                                            /\ Resuming(w, s) <=> Resuming(w, stack)
         /\ FutureRuns(stack) = FutureRuns(s) + 1 /\ FutureRuns(s) \in Nat
         /\ NoRefs(stack) => NoRefs(s)
         /\ counted => AllHeld(s)
<1>1. /\ stack # << >> /\ Top = Last(stack) /\ Top.who = Future
      /\ stack \in Seq(Frames) /\ StackOK(stack)
  BY FutureTop
<1>2. s = Front(stack)
  BY DEF Below
<1>3. /\ s \in Seq(Frames) /\ StackOK(s) /\ Calls(s)
      /\ \A w \in Waiter : w # Future => /\ On(w, s) <=> On(w, stack)
                                         /\ Resuming(w, s) <=> Resuming(w, stack)
      /\ FutureRuns(stack) = FutureRuns(s) + 1 /\ FutureRuns(s) \in Nat
  BY <1>1, <1>2, Pop
<1>4. Quiet(s)
  BY <1>3, CallsQuiet
<1>5. counted => RunsHeld(stack, holds)
  BY DEF AwaitInv, HoldsOK
<1>6. (NoRefs(stack) => NoRefs(s)) /\ (counted => AllHeld(s))
  BY <1>1, <1>2, <1>5, PopRefs
<1> QED
  BY <1>3, <1>4, <1>6

(* The run on top goes on to a place of its body.                          *)
LEMMA FutureStays ==
  ASSUME AwaitInv, Runs(Future), NEW at \in {"parents", "check"}, NEW ref \in BOOLEAN,
         (ref = Top.ref /\ Top.at # "wake") \/ (Top.at = "wake" /\ ref = OwnRef),
         NEW s, s = Append(Below, [Top EXCEPT !.at = at, !.ref = ref])
  PROVE  /\ s \in Seq(Frames) /\ StackOK(s) /\ s # << >>
         /\ Last(s).who = Future /\ Last(s).at = at /\ Last(s).ref = ref
         /\ \A w \in Waiter : /\ On(w, s) <=> On(w, stack)
                              /\ w # Future => (Resuming(w, s) <=> Resuming(w, stack))
         /\ FutureRuns(s) = FutureRuns(stack) /\ FutureRuns(stack) \in Nat
         /\ ~counted => NoRefs(s)
         /\ counted => RunsHeld(s, holds) /\ (ref => AllHeld(s)) /\ (~ref => holds = {})
<1>1. /\ stack # << >> /\ Top = Last(stack) /\ Top \in Frames /\ Top.who = Future
      /\ stack \in Seq(Frames) /\ StackOK(stack)
  BY FutureTop
<1> DEFINE f == [Top EXCEPT !.at = at, !.ref = ref]
<1>2. f \in Frames /\ f.who = Future /\ f.at = at /\ f.ref = ref
  BY <1>1 DEF Frames
<1>3. s = Append(Front(stack), f)
  BY DEF Below
<1> HIDE DEF f
<1>4. f.at \in Places(f.who) /\ (f.ref => f.at \in {"parents", "check"})
      /\ f.who = Last(stack).who
  BY <1>1, <1>2, Kinds DEF Places
<1>5. /\ s \in Seq(Frames) /\ StackOK(s) /\ s # << >> /\ Last(s) = f
      /\ \A w \in Waiter : On(w, s) <=> On(w, stack)
      /\ \A w \in Waiter : w # Future =>
           (Resuming(w, s) <=> IF w = f.who THEN f.at = "resuming" ELSE Resuming(w, stack))
      /\ FutureRuns(s) = FutureRuns(stack) /\ FutureRuns(stack) \in Nat
  BY <1>1, <1>2, <1>3, <1>4, Stay
<1>6. /\ NoRefs(stack) /\ ~f.ref => NoRefs(s)
      /\ \A h : RunsHeld(stack, h) /\ (f.ref \/ h = {}) => RunsHeld(s, h)
      /\ \A h : RunsHeld(stack, h) /\ (f.ref \/ f.who # Future) => AllHeld(s)
  BY <1>1, <1>2, <1>3, TopRefs
<1>7. HoldsOK
  BY DEF AwaitInv
<1>8. Len(stack) \in 1 .. Len(stack) /\ Last(stack) = stack[Len(stack)]
  <2>1. Len(stack) \in Nat /\ Len(stack) > 0 /\ Last(stack) = stack[Len(stack)]
    BY <1>1, Popped
  <2> QED
    BY <2>1
<1>9. ~counted => NoRefs(s)
  <2> SUFFICES ASSUME ~counted PROVE NoRefs(s)
    OBVIOUS
  <2>1. NoRefs(stack) /\ holds = {}
    BY <1>7 DEF HoldsOK, NoRefs
  <2>2. ~Top.ref
    BY <1>1, <1>8, <2>1 DEF NoRefs
  <2>3. ~f.ref
    BY <1>2, <2>1, <2>2 DEF OwnRef
  <2> QED
    BY <1>6, <2>1, <2>3
<1>10. counted => RunsHeld(s, holds) /\ (ref => AllHeld(s)) /\ (~ref => holds = {})
  <2> SUFFICES ASSUME counted
               PROVE  RunsHeld(s, holds) /\ (ref => AllHeld(s)) /\ (~ref => holds = {})
    OBVIOUS
  <2>1. RunsHeld(stack, holds)
    BY <1>7 DEF HoldsOK
  <2>2. ~ref => holds = {}
    <3> SUFFICES ASSUME ~ref PROVE holds = {}
      OBVIOUS
    <3>1. CASE Top.at = "wake" /\ ref = OwnRef
      BY <3>1 DEF OwnRef
    <3>2. CASE ref = Top.ref /\ Top.at # "wake"
      BY <1>1, <1>8, <2>1, <3>2 DEF RunsHeld
    <3> QED
      BY <3>1, <3>2
  <2> QED
    BY <1>2, <1>6, <2>1, <2>2
<1> QED
  BY <1>2, <1>5, <1>9, <1>10, Kinds

LEMMA FutureWakesKeeps ==
  ASSUME AwaitInv, FutureWakes
  PROVE  AwaitInv'
<1>1. /\ Runs(Future) /\ Top.at = "wake"
      /\ leaf' = leaf /\ parent' = parent /\ rest' = rest /\ slips' = slips /\ phase' = phase
      /\ parent_list' = parent_list /\ counted' = counted /\ holds' = holds
      /\ pc' = pc /\ call' = call /\ left' = left
  BY DEF FutureWakes, future, bodies, stand
<1>2. TypeOK /\ HoldsOK /\ wait_count[Future] = 0 /\ FutureLives
  BY <1>1, FutureTop DEF AwaitInv
<1>3. FutureLives' /\ FutureLives /\ Listed' = Listed
  BY <1>1, <1>2 DEF FutureLives, Listed
<1>4. CASE phase[Future] = "first"
  <2> DEFINE f == [Top EXCEPT !.at = "parents", !.ref = OwnRef]
  <2>1. /\ wait_count' = [wait_count EXCEPT ![Future] = 0]
        /\ stack' = Append(Below, f)
    BY <1>4 DEF FutureWakes
  <2> HIDE DEF f
  <2>2. wait_count' \in [Waiter -> 0 .. SizeMod - 1] /\ \A w \in Waiter : wait_count'[w] = wait_count[w]
    BY <1>2, <2>1, Kinds, Numbers DEF TypeOK
  <2>3. OwnRef \in BOOLEAN
    BY DEF OwnRef
  <2>4. /\ stack' \in Seq(Frames) /\ StackOK(stack')
        /\ \A w \in Waiter : /\ On(w, stack') <=> On(w, stack)
                             /\ w # Future => (Resuming(w, stack') <=> Resuming(w, stack))
        /\ FutureRuns(stack') = FutureRuns(stack) /\ FutureRuns(stack) \in Nat
        /\ ~counted => NoRefs(stack')
        /\ counted => RunsHeld(stack', holds)
    BY <1>1, <2>1, <2>3, FutureStays DEF f
  <2>5. TypeOK'
    BY <1>1, <1>2, <2>2, <2>4 DEF TypeOK
  <2>7. HoldsOK'
    BY <1>1, <1>2, <1>3, <2>4 DEF HoldsOK, NoRefs
  <2>8. FutureRuns(stack') <= FutureRuns(stack)
    BY <2>4
  <2> QED
    BY <1>1, <1>2, <2>2, <2>4, <2>5, <2>7, <2>8, FutureMoves
<1>5. CASE phase[Future] = "none"
  <2>1. stack' = Below /\ wait_count' = wait_count
    BY <1>5 DEF FutureWakes
  <2>2. /\ stack' \in Seq(Frames) /\ StackOK(stack') /\ Quiet(stack')
        /\ \A w \in Waiter : w # Future => /\ On(w, stack') <=> On(w, stack)
                                           /\ Resuming(w, stack') <=> Resuming(w, stack)
        /\ FutureRuns(stack) = FutureRuns(stack') + 1 /\ FutureRuns(stack') \in Nat
        /\ NoRefs(stack) => NoRefs(stack')
        /\ counted => AllHeld(stack')
    BY <1>1, <2>1, FutureLeaves
  <2>3. TypeOK'
    BY <1>1, <1>2, <2>1, <2>2 DEF TypeOK
  <2>4. counted => RunsHeld(stack', holds)
    BY <2>2, AllRunsHeld
  <2>5. HoldsOK'
    BY <1>1, <1>2, <1>3, <2>2, <2>4, HoldsKept
  <2>6. FutureRuns(stack') <= FutureRuns(stack)
    BY <2>2
  <2> QED
    BY <1>1, <2>1, <2>2, <2>3, <2>5, <2>6, FutureMoves
<1> QED
  BY <1>4, <1>5 DEF FutureWakes

LEMMA FutureChecksKeeps ==
  ASSUME AwaitInv, FutureChecks
  PROVE  AwaitInv'
<1>1. /\ Runs(Future) /\ Top.at = "check"
      /\ stack' = IF wait_count[Future] # 0 THEN Below ELSE TopAt("parents")
      /\ leaf' = leaf /\ parent' = parent /\ rest' = rest /\ slips' = slips /\ phase' = phase
      /\ parent_list' = parent_list /\ counted' = counted /\ holds' = holds
      /\ pc' = pc /\ call' = call /\ left' = left /\ wait_count' = wait_count
  BY DEF FutureChecks, future, bodies, stand
<1>2. TypeOK /\ HoldsOK /\ FutureLives /\ Top \in Frames
  BY <1>1, FutureTop DEF AwaitInv
<1>3. FutureLives' /\ FutureLives /\ Listed' = Listed
  BY <1>1, <1>2 DEF FutureLives, Listed
<1>4. CASE wait_count[Future] = 0
  <2> DEFINE f == [Top EXCEPT !.at = "parents", !.ref = Top.ref]
  <2>1. stack' = Append(Below, f)
    <3>1. f = [Top EXCEPT !.at = "parents"]
      BY <1>2 DEF Frames
    <3> QED
      BY <1>1, <1>4, <3>1 DEF TopAt
  <2> HIDE DEF f
  <2>2. Top.ref \in BOOLEAN /\ Top.at # "wake"
    BY <1>1, <1>2 DEF Frames
  <2>3. /\ stack' \in Seq(Frames) /\ StackOK(stack')
        /\ \A w \in Waiter : /\ On(w, stack') <=> On(w, stack)
                             /\ w # Future => (Resuming(w, stack') <=> Resuming(w, stack))
        /\ FutureRuns(stack') = FutureRuns(stack) /\ FutureRuns(stack) \in Nat
        /\ ~counted => NoRefs(stack')
        /\ counted => RunsHeld(stack', holds)
    BY <1>1, <2>1, <2>2, FutureStays DEF f
  <2>5. TypeOK'
    BY <1>1, <1>2, <2>3 DEF TypeOK
  <2>7. HoldsOK'
    BY <1>1, <1>2, <1>3, <2>3 DEF HoldsOK, NoRefs
  <2>8. FutureRuns(stack') <= FutureRuns(stack)
    BY <2>3
  <2> QED
    BY <1>1, <1>4, <2>3, <2>5, <2>7, <2>8, FutureMoves
<1>5. CASE wait_count[Future] # 0
  <2>1. stack' = Below
    BY <1>1, <1>5
  <2>2. /\ stack' \in Seq(Frames) /\ StackOK(stack') /\ Quiet(stack')
        /\ \A w \in Waiter : w # Future => /\ On(w, stack') <=> On(w, stack)
                                           /\ Resuming(w, stack') <=> Resuming(w, stack)
        /\ FutureRuns(stack) = FutureRuns(stack') + 1 /\ FutureRuns(stack') \in Nat
        /\ NoRefs(stack) => NoRefs(stack')
        /\ counted => AllHeld(stack')
    BY <1>1, <2>1, FutureLeaves
  <2>3. TypeOK'
    BY <1>1, <1>2, <2>2 DEF TypeOK
  <2>4. counted => RunsHeld(stack', holds)
    BY <2>2, AllRunsHeld
  <2>5. HoldsOK'
    BY <1>1, <1>2, <1>3, <2>2, <2>4, HoldsKept
  <2>6. FutureRuns(stack') <= FutureRuns(stack)
    BY <2>2
  <2> QED
    BY <1>1, <2>2, <2>3, <2>5, <2>6, FutureMoves
<1> QED
  BY <1>4, <1>5

(* The future resumes q, the next that it knows.                           *)
LEMMA FutureResumes ==
  ASSUME AwaitInv, Runs(Future), Top.at = "parents",
         NEW q \in Awaiter, TryResume(q, TopAt("check")), q \in Listed,
         leaf' = leaf, rest' = rest, phase' = phase, slips' = slips,
         counted' = counted, holds' = holds, pc' = pc, call' = call, left' = left,
         parent' \in [Leaf \union Waiter -> Waiter \union {NoCort}],
         parent'[Future] \in Awaiter \union {NoCort},
         \A c \in Leaf \union Waiter : c # Future => parent'[c] = parent[c],
         parent_list' \in Seq(Awaiter), Listed' \subseteq Listed,
         Entries' + 1 = Entries, Known(q) \in Nat, Known(q)' \in Nat, Known(q)' + 1 = Known(q),
         \A p \in Awaiter : p # q => Known(p)' = Known(p)
  PROVE  AwaitInv'
<1>1. /\ TypeOK /\ HoldsOK /\ FutureLives /\ FutureCount /\ LeavesOK
      /\ Top \in Frames /\ wait_count[Future] = 0
      /\ \A v \in Waiter : parent[v] \in Awaiter \union {NoCort}
      /\ wait_count \in [Waiter -> 0 .. SizeMod - 1]
  BY FutureTop DEF AwaitInv, TypeOK
<1>2. PICK s : s = TopAt("check")
  OBVIOUS
<1> DEFINE f == [Top EXCEPT !.at = "check", !.ref = Top.ref]
<1>3. s = Append(Below, f)
  <2>1. f = [Top EXCEPT !.at = "check"]
    BY <1>1 DEF Frames
  <2> QED
    BY <1>2, <2>1 DEF TopAt
<1> HIDE DEF f
<1>4. Top.ref \in BOOLEAN /\ Top.at # "wake"
  BY <1>1 DEF Frames
<1>5. /\ s \in Seq(Frames) /\ StackOK(s) /\ s # << >>
      /\ Last(s).who = Future /\ Last(s).at = "check"
      /\ \A w \in Waiter : /\ On(w, s) <=> On(w, stack)
                           /\ w # Future => (Resuming(w, s) <=> Resuming(w, stack))
      /\ FutureRuns(s) = FutureRuns(stack) /\ FutureRuns(stack) \in Nat
      /\ ~counted => NoRefs(s)
      /\ counted => RunsHeld(s, holds) /\ (Top.ref => AllHeld(s)) /\ (~Top.ref => holds = {})
  BY <1>3, <1>4, FutureStays DEF f
<1>6. Calls(s)
  BY <1>5 DEF Calls
<1>7. q \in Waiter /\ q # Future
  BY Kinds
<1>8. wait_count[q] = 1 <=> Asleep(q)
  BY DEF AwaitInv, BodyOK
<1>9. wait_count[q] = 1 => q = Future \/ ~On(q, s)
  BY <1>5, <1>7, <1>8 DEF Asleep
<1>10. TryResume(q, s)
  BY <1>2
<1>11. /\ wait_count' \in [Waiter -> 0 .. SizeMod - 1]
       /\ \A v \in Waiter : v # q => wait_count'[v] = wait_count[v]
       /\ wait_count'[q] = IF wait_count[q] = 0 THEN SizeMod - 1 ELSE wait_count[q] - 1
       /\ stack' \in Seq(Frames) /\ StackOK(stack')
       /\ \A v \in Waiter : On(v, stack') <=> On(v, s) \/ (v = q /\ wait_count[q] = 1)
       /\ \A v \in Waiter : Resuming(v, stack') <=> Resuming(v, s)
       /\ FutureRuns(stack') =
            FutureRuns(s) + IF q = Future /\ wait_count[q] = 1 THEN 1 ELSE 0
       /\ wait_count[q] = 1 => stack' = Append(s, Frame(q))
       /\ wait_count[q] # 1 => stack' = s
       /\ Quiet(stack') \/ (q = Future /\ wait_count'[q] = 0)
  BY ONLY <1>1, <1>5, <1>6, <1>7, <1>9, <1>10, TryWakes
<1>12. TypeOK'
  <2>1. \A w \in Waiter : parent'[w] \in Awaiter \union {NoCort}
    BY <1>1, Kinds
  <2> QED
    BY <1>1, <1>11, <2>1 DEF TypeOK
<1>13. LeavesGoOn /\ \A w : LeavesSame(w)
  BY Kinds DEF LeavesGoOn, LeavesSame
<1>14. Remaining' < Remaining
  <2>1. Remaining \in Nat /\ Remaining' \in Nat /\ Due \in Nat /\ Due' \in Nat
        /\ Remaining' + Due <= Remaining + Due'
    BY <1>1, <1>12, <1>13, RemainingIs
  <2>2. Units' = Units /\ Cardinality(Units) \in Nat
    BY UnitsCounted DEF Units
  <2>3. FutureRuns(stack') = FutureRuns(stack)
    BY <1>5, <1>7, <1>11
  <2>4. Entries \in Nat /\ Entries' \in Nat
    BY <1>1, <1>12 DEF Entries, TypeOK
  <2>5. Due' + 1 = Due
    <3>1. PICK b : b = Entries'
      OBVIOUS
    <3>2. PICK d : d = Due'
      OBVIOUS
    <3>3. b \in Nat /\ b + 1 = Entries
      BY <2>4, <3>1
    <3>4. d = FutureRuns(stack) + b + Cardinality(Units)
      BY <2>2, <2>3, <3>1, <3>2 DEF Due
    <3>5. d + 1 = FutureRuns(stack) + Entries + Cardinality(Units)
      <4>1. FutureRuns(stack) \in Nat /\ Cardinality(Units) \in Nat /\ Entries \in Nat
        BY <1>5, <2>2, <2>4
      <4> QED
        BY ONLY <3>3, <3>4, <4>1
    <3> QED
      BY <3>2, <3>5 DEF Due
  <2>6. \A a, b, c, d \in Nat : a + c <= b + d /\ d + 1 = c => a < b
    OBVIOUS
  <2> QED
    BY ONLY <2>1, <2>5, <2>6, Zenon
<1>15. /\ \A p \in Awaiter : BodyOK(p)' /\ AnyOK(p)'
       /\ \A h \in Helper : HelperOK(h)' /\ ArmedOK(h)'
       /\ StackInv'
       /\ \A p \in Awaiter : p # q => Unmoved(p)
  <2>1. \A v \in Waiter : v # Future =>
          /\ On(v, stack') <=> On(v, stack) \/ (v = q /\ wait_count[q] = 1)
          /\ Resuming(v, stack') <=> Resuming(v, stack)
    BY <1>5, <1>11
  <2>2. \A h \in Helper : /\ phase'[h] = phase[h] /\ rest'[h] = rest[h]
                          /\ parent'[h] = parent[h] /\ LeavesSame(h)
    BY <1>13, Kinds
  <2> QED
    BY <1>11, <1>12, <1>13, <1>14, <2>1, <2>2, AwaiterWoken
<1>16. ASSUME NEW p \in Awaiter PROVE KnownOK(p)'
  <2>1. KnownOK(p)
    BY DEF AwaitInv
  <2>2. CASE p # q
    BY <1>13, <1>15, <2>1, <2>2, KnownKept
  <2>3. CASE p = q
    <3> SUFFICES ASSUME p \notin slips' PROVE KnownOK(p)'
      BY DEF KnownOK
    <3>1. /\ Known(p) = IF pc[p] = "future" /\ ~On(p, stack) THEN 1 ELSE 0
          /\ \A k, m \in Kids(p) : pc[p] = "leaf" /\ ~On(p, stack) /\ k = m
      BY <2>1 DEF KnownOK
    <3>2. pc[p] = "future" /\ ~On(p, stack) /\ Known(p)' = 0
      <4>1. Known(p) # 0
        BY <2>3
      <4>2. pc[p] = "future" /\ ~On(p, stack) /\ Known(p) = 1
        BY <3>1, <4>1
      <4> QED
        BY <2>3, <4>2
    <3>3. On(p, stack')
      BY <1>7, <1>8, <1>11, <2>3, <3>2 DEF Asleep
    <3>4. Kids(p)' = {}
      <4>1. Kids(p)' = Kids(p)
        BY <1>13, SameLeaves
      <4> QED
        BY <3>1, <3>2, <4>1
    <3> QED
      BY <3>2, <3>3, <3>4 DEF KnownOK
  <2> QED
    BY <2>2, <2>3
<1>17. FutureCount'
  <2>1. wait_count'[Future] = wait_count[Future] /\ Quiet(stack')
    BY <1>7, <1>11, Kinds
  <2> QED
    BY <1>1, <1>13, <2>1, CountKept
<1>18. LeavesOK'
  BY <1>1, Kinds DEF LeavesOK
<1>19. HoldsOK'
  <2>1. Frame(q) \in Frames /\ Frame(q).at = "wake" /\ ~Frame(q).ref
    BY <1>1, <1>7 DEF Frame, Frames
  <2>2. NoRefs(s) => NoRefs(stack')
    BY <1>5, <1>11, <2>1, PushRefs
  <2>3. counted => RunsHeld(stack', holds)
    <3> SUFFICES ASSUME counted PROVE RunsHeld(stack', holds)
      OBVIOUS
    <3>1. CASE Top.ref
      <4>1. AllHeld(stack')
        BY <1>5, <1>11, <2>1, <3>1, PushRefs
      <4> QED
        BY <4>1, AllRunsHeld
    <3>2. CASE ~Top.ref
      <4>1. holds = {} /\ RunsHeld(s, holds)
        BY <1>5, <3>2
      <4>2. pc[q] = "done"
        BY <1>1, <4>1 DEF HoldsOK
      <4>3. stack' = s
        BY <1>8, <1>11, <4>2 DEF Asleep
      <4> QED
        BY <4>1, <4>3
    <3> QED
      BY <3>1, <3>2
  <2>4. FutureLives' /\ FutureLives
    BY <1>1 DEF FutureLives
  <2>5. ~counted => NoRefs(stack')
    BY <1>5, <2>2
  <2> QED
    BY <1>1, <2>3, <2>4, <2>5 DEF HoldsOK, NoRefs
<1> QED
  BY <1>12, <1>15, <1>16, <1>17, <1>18, <1>19 DEF AwaitInv

(* How often p is in a list.                                               *)
Times(list, p) == Cardinality({i \in DOMAIN list : list[i] = p})

LEMMA KnownIs ==
  ASSUME TypeOK, NEW p
  PROVE  /\ Times(parent_list, p) \in Nat
         /\ Known(p) = Times(parent_list, p) + IF parent[Future] = p THEN 1 ELSE 0
         /\ Known(p)' = Times(parent_list', p) + IF parent'[Future] = p THEN 1 ELSE 0
<1> DEFINE A == {i \in DOMAIN parent_list : parent_list[i] = p}
<1>1. Len(parent_list) \in Nat /\ A \in SUBSET (1 .. Len(parent_list))
  BY DEF TypeOK
<1>2. Cardinality(A) \in Nat
  BY <1>1, SomeIndices
<1> QED
  BY <1>2 DEF Known, Times

LEMMA TimesAppended ==
  ASSUME NEW list \in Seq(Awaiter), NEW q \in Awaiter, NEW p
  PROVE  Times(Append(list, q), p) = Times(list, p) + IF p = q THEN 1 ELSE 0
<1> DEFINE n == Len(list)
           m == Append(list, q)
           A == {i \in 1 .. n : list[i] = p}
           B == {i \in 1 .. n + 1 : m[i] = p}
<1>1. /\ n \in Nat /\ Len(m) = n + 1 /\ m[n + 1] = q
      /\ DOMAIN list = 1 .. n /\ DOMAIN m = 1 .. n + 1
      /\ \A i \in 1 .. n : m[i] = list[i]
  OBVIOUS
<1>2. Times(list, p) = Cardinality(A) /\ Times(m, p) = Cardinality(B)
  BY <1>1 DEF Times
<1> HIDE DEF n, m
<1>3. A \in SUBSET (1 .. n) /\ n + 1 \notin A
  BY <1>1
<1>4. B = IF p = q THEN A \union {n + 1} ELSE A
  <2>1. \A i \in 1 .. n + 1 : i \in 1 .. n \/ i = n + 1
    BY <1>1
  <2>2. \A i \in 1 .. n : i \in 1 .. n + 1
    BY <1>1
  <2>3. n + 1 \in 1 .. n + 1
    BY <1>1
  <2> QED
    BY <1>1, <2>1, <2>2, <2>3
<1> HIDE DEF A, B
<1>5. IsFiniteSet(A) /\ Cardinality(A) \in Nat
  BY <1>1, <1>3, SomeIndices
<1>6. Cardinality(A \union {n + 1}) = Cardinality(A) + 1
  BY <1>3, <1>5, FS_AddElement
<1> QED
  BY <1>2, <1>4, <1>5, <1>6 DEF m

LEMMA TimesFront ==
  ASSUME NEW list \in Seq(Awaiter), list # << >>, NEW p
  PROVE  Times(Front(list), p) + (IF p = Last(list) THEN 1 ELSE 0) = Times(list, p)
<1>1. /\ Front(list) \in Seq(Awaiter) /\ Last(list) \in Awaiter
      /\ Len(list) \in Nat /\ Len(list) > 0 /\ Last(list) = list[Len(list)]
      /\ Len(Front(list)) = Len(list) - 1
      /\ \A i \in 1 .. Len(list) - 1 : Front(list)[i] = list[i]
  BY Popped
<1> DEFINE g == Front(list)
           m == Append(g, Last(list))
<1>2. /\ m \in Seq(Awaiter) /\ Len(m) = Len(g) + 1
      /\ \A i \in 1 .. Len(g) : m[i] = g[i]
      /\ m[Len(g) + 1] = Last(list)
  BY <1>1, Pushed
<1> HIDE DEF m, g
<1>3. Len(g) = Len(list) - 1 /\ \A i \in 1 .. Len(list) - 1 : g[i] = list[i]
  BY <1>1 DEF g
<1>4. Len(m) = Len(list) /\ m[Len(list)] = list[Len(list)]
  BY <1>1, <1>2, <1>3
<1>5. \A i \in 1 .. Len(list) : m[i] = list[i]
  BY <1>1, <1>2, <1>3, <1>4
<1>6. m = list
  BY <1>2, <1>4, <1>5, SeqEqual
<1>7. Times(m, p) = Times(g, p) + IF p = Last(list) THEN 1 ELSE 0
  BY <1>1, TimesAppended DEF m, g
<1> QED
  BY <1>6, <1>7 DEF g

LEMMA FutureResumesParentKeeps ==
  ASSUME AwaitInv, FutureResumesParent
  PROVE  AwaitInv'
<1>1. PICK q : q = parent[Future]
  OBVIOUS
<1>2. /\ Runs(Future) /\ Top.at = "parents" /\ q # NoCort
      /\ parent' = [parent EXCEPT ![Future] = NoCort]
      /\ TryResume(q, TopAt("check"))
      /\ leaf' = leaf /\ rest' = rest /\ slips' = slips /\ phase' = phase
      /\ parent_list' = parent_list /\ counted' = counted /\ holds' = holds
      /\ pc' = pc /\ call' = call /\ left' = left
  BY <1>1 DEF FutureResumesParent, future, bodies, stand
<1>3. TypeOK /\ q \in Awaiter
  BY <1>1, <1>2, Kinds DEF AwaitInv, TypeOK
<1>4. /\ parent' \in [Leaf \union Waiter -> Waiter \union {NoCort}]
      /\ parent'[Future] = NoCort
      /\ \A c \in Leaf \union Waiter : c # Future => parent'[c] = parent[c]
  BY <1>2, <1>3, Kinds DEF TypeOK
<1>5. q \in Listed /\ Listed' \subseteq Listed
  BY <1>1, <1>2, <1>4 DEF Listed
<1>6. Entries' + 1 = Entries
  BY <1>1, <1>2, <1>3, <1>4 DEF Entries, TypeOK
<1>7. \A p : /\ Times(parent_list, p) \in Nat
             /\ Known(p) = Times(parent_list, p) + IF q = p THEN 1 ELSE 0
             /\ Known(p)' = Times(parent_list, p) + IF NoCort = p THEN 1 ELSE 0
  BY <1>1, <1>2, <1>3, <1>4, KnownIs
<1>8. Known(q) = Times(parent_list, q) + 1 /\ Known(q)' = Times(parent_list, q)
  BY <1>2, <1>7
<1>9. Known(q) \in Nat /\ Known(q)' \in Nat /\ Known(q)' + 1 = Known(q)
  BY <1>7, <1>8
<1>10. \A p \in Awaiter : p # q => Known(p)' = Known(p)
  BY <1>7, Kinds
<1>11. parent_list' \in Seq(Awaiter) /\ parent'[Future] \in Awaiter \union {NoCort}
  BY <1>2, <1>3, <1>4 DEF TypeOK
<1> QED
  BY <1>2, <1>3, <1>4, <1>5, <1>6, <1>9, <1>10, <1>11, FutureResumes

LEMMA FutureResumesListedKeeps ==
  ASSUME AwaitInv, FutureResumesListed
  PROVE  AwaitInv'
<1>1. PICK q : q = Last(parent_list)
  OBVIOUS
<1>2. /\ Runs(Future) /\ Top.at = "parents" /\ parent[Future] = NoCort
      /\ parent_list # << >> /\ parent_list' = Front(parent_list)
      /\ TryResume(q, TopAt("check"))
      /\ leaf' = leaf /\ rest' = rest /\ slips' = slips /\ phase' = phase
      /\ parent' = parent /\ counted' = counted /\ holds' = holds
      /\ pc' = pc /\ call' = call /\ left' = left
  BY <1>1 DEF FutureResumesListed, bodies, stand
<1>3. TypeOK /\ parent_list \in Seq(Awaiter)
  BY DEF AwaitInv, TypeOK
<1>4. /\ q \in Awaiter /\ parent_list' \in Seq(Awaiter)
      /\ Len(parent_list) \in Nat /\ Len(parent_list) > 0 /\ q = parent_list[Len(parent_list)]
      /\ Len(parent_list') = Len(parent_list) - 1
      /\ \A i \in 1 .. Len(parent_list) - 1 : parent_list'[i] = parent_list[i]
  BY <1>1, <1>2, <1>3, Popped
<1>5. q \in Listed /\ Listed' \subseteq Listed
  <2>1. ToSet(parent_list') \subseteq ToSet(parent_list) /\ q \in ToSet(parent_list)
    <3>1. /\ ToSet(parent_list') = {parent_list'[i] : i \in 1 .. Len(parent_list) - 1}
          /\ ToSet(parent_list) = {parent_list[i] : i \in 1 .. Len(parent_list)}
      BY <1>3, <1>4 DEF ToSet
    <3> QED
      BY <1>4, <3>1
  <2> QED
    BY <1>2, <2>1 DEF Listed
<1>6. Entries' + 1 = Entries
  BY <1>2, <1>4 DEF Entries
<1>7. \A p : /\ Times(parent_list, p) \in Nat
             /\ Known(p) = Times(parent_list, p) + IF NoCort = p THEN 1 ELSE 0
             /\ Known(p)' = Times(parent_list', p) + IF NoCort = p THEN 1 ELSE 0
  BY <1>2, <1>3, KnownIs
<1>8. \A p : Times(parent_list', p) + (IF p = q THEN 1 ELSE 0) = Times(parent_list, p)
  BY <1>1, <1>2, <1>3, TimesFront
<1>9. \A p : Times(parent_list', p) \in Nat
  <2> SUFFICES ASSUME NEW p PROVE Times(parent_list', p) \in Nat
    OBVIOUS
  <2> DEFINE A == {i \in DOMAIN parent_list' : parent_list'[i] = p}
  <2>1. Len(parent_list') \in Nat /\ A \in SUBSET (1 .. Len(parent_list'))
    BY <1>4
  <2>2. Cardinality(A) \in Nat
    BY <2>1, SomeIndices
  <2> QED
    BY <2>2 DEF Times
<1>10. Known(q) \in Nat /\ Known(q)' \in Nat /\ Known(q)' + 1 = Known(q)
  <2>1. q # NoCort
    BY <1>4, Kinds
  <2>2. Known(q) = Times(parent_list, q)
    BY <1>7, <2>1
  <2>3. Known(q)' = Times(parent_list', q)
    BY <1>7, <1>9, <2>1
  <2>4. Times(parent_list', q) + 1 = Times(parent_list, q)
    BY <1>8
  <2> QED
    BY <1>7, <1>9, <2>2, <2>3, <2>4
<1>11. ASSUME NEW p \in Awaiter, p # q PROVE Known(p)' = Known(p)
  <2>1. Times(parent_list', p) = Times(parent_list, p)
    BY <1>8, <1>9, <1>11
  <2> QED
    BY <1>7, <2>1
<1>12. /\ parent' \in [Leaf \union Waiter -> Waiter \union {NoCort}]
       /\ parent'[Future] \in Awaiter \union {NoCort}
       /\ \A c \in Leaf \union Waiter : c # Future => parent'[c] = parent[c]
  BY <1>2, <1>3 DEF TypeOK
<1> QED
  BY <1>2, <1>4, <1>5, <1>6, <1>10, <1>11, <1>12, FutureResumes

(* The last reference is one.                                              *)
LEMMA OneRef ==
  ASSUME NEW s \in Seq(Frames), NEW h \in SUBSET Awaiter, RefCount(h, s) = 1
  PROVE  /\ \A p \in h : h = {p} /\ NoRefs(s)
         /\ \A i \in 1 .. Len(s) : s[i].ref =>
              h = {} /\ \A j \in 1 .. Len(s) : s[j].ref => j = i
<1> DEFINE R == {i \in 1 .. Len(s) : s[i].ref}
<1>1. R \in SUBSET (1 .. Len(s)) /\ Len(s) \in Nat
  OBVIOUS
<1>2. IsFiniteSet(R) /\ Cardinality(R) \in Nat
  BY <1>1, SomeIndices
<1>3. IsFiniteSet(h) /\ Cardinality(h) \in Nat
  BY AwaitsAssumption, FS_Subset, FS_CardinalityType DEF AwaitsAssumption
<1>4. Cardinality(h) + Cardinality(R) = 1
  BY DEF RefCount
<1> HIDE DEF R
<1>5. (Cardinality(h) = 0 <=> h = {}) /\ (Cardinality(R) = 0 <=> R = {})
  BY <1>2, <1>3, FS_EmptySet
<1>6. ASSUME NEW p \in h PROVE h = {p} /\ R = {}
  <2>1. Cardinality(h) # 0
    BY <1>5
  <2>2. Cardinality(h) = 1 /\ Cardinality(R) = 0
    BY <1>2, <1>3, <1>4, <2>1
  <2>3. \E x : h = {x}
    BY <1>3, <2>2, FS_Singleton
  <2> QED
    BY <1>5, <2>2, <2>3
<1>7. ASSUME NEW i \in R PROVE h = {} /\ R = {i}
  <2>1. Cardinality(R) # 0
    BY <1>5
  <2>2. Cardinality(R) = 1 /\ Cardinality(h) = 0
    BY <1>2, <1>3, <1>4, <2>1
  <2>3. \E x : R = {x}
    BY <1>2, <2>2, FS_Singleton
  <2> QED
    BY <1>5, <2>2, <2>3
<1>8. \A p \in h : h = {p} /\ NoRefs(s)
  BY <1>6 DEF R, NoRefs
<1>9. ASSUME NEW i \in 1 .. Len(s), s[i].ref
      PROVE  h = {} /\ \A j \in 1 .. Len(s) : s[j].ref => j = i
  <2>1. i \in R
    BY <1>9 DEF R
  <2>2. h = {} /\ R = {i}
    BY <1>7, <2>1
  <2> QED
    BY <2>2 DEF R
<1> QED
  BY <1>8, <1>9

(* No run without a reference has others above it.                         *)
LEMMA NoRunBelow ==
  ASSUME NEW s \in Seq(Frames), StackOK(s), s # << >>, NEW b, b = Front(s),
         NoRefs(b), AllHeld(b)
  PROVE  ~On(Future, b)
<1> SUFFICES ASSUME NEW i \in 1 .. Len(b), b[i].who = Future PROVE FALSE
  BY DEF On
<1>1. /\ Len(s) \in Nat /\ Len(b) = Len(s) - 1
      /\ \A j \in 1 .. Len(s) - 1 : b[j] = s[j]
  BY Popped
<1>2. i \in 1 .. Len(s) /\ i # Len(s) /\ b[i] = s[i]
  BY <1>1
<1>3. s[i].at \in Places(Future) /\ (Future \in Awaiter \/ s[i].at \in {"resuming", "check"})
  BY <1>2 DEF StackOK
<1>4. s[i].at # "wake"
  BY <1>3, Kinds
<1> QED
  BY <1>2, <1>4 DEF NoRefs, AllHeld

LEMMA FutureEndsHolds ==
  ASSUME AwaitInv, Runs(Future), Top.at = "parents",
         phase' = (IF LastRef(Top) THEN [phase EXCEPT ![Future] = "deleted"] ELSE phase),
         leaf' = leaf, parent' = parent, parent_list' = parent_list,
         counted' = counted, holds' = holds, pc' = pc,
         stack' = Below \/ \E q \in Awaiter : stack' = Append(Below, Frame(q))
  PROVE  HoldsOK'
<1>1. PICK s : s = Below
  OBVIOUS
<1>2. /\ s \in Seq(Frames) /\ StackOK(s)
      /\ NoRefs(stack) => NoRefs(s)
      /\ counted => AllHeld(s)
  BY <1>1, FutureLeaves
<1>3. /\ TypeOK /\ HoldsOK /\ FutureLives /\ Kids(Future) = {}
      /\ stack # << >> /\ Top = Last(stack) /\ stack \in Seq(Frames) /\ StackOK(stack)
  BY FutureTop DEF AwaitInv
<1>4. stack' = s \/ \E f \in Frames : f.at = "wake" /\ ~f.ref /\ f.who # Future
                                     /\ stack' = Append(s, f)
  <2>1. ASSUME NEW q \in Awaiter
        PROVE  Frame(q) \in Frames /\ Frame(q).at = "wake" /\ ~Frame(q).ref /\ Frame(q).who # Future
    BY <1>3, Kinds DEF Frame, Frames, TypeOK
  <2> QED
    BY <1>1, <2>1
<1>5. (NoRefs(s) => NoRefs(stack')) /\ (AllHeld(s) => AllHeld(stack'))
  BY <1>2, <1>4, PushRefs
<1>6. ~counted => NoRefs(stack) /\ holds = {}
  BY <1>3 DEF HoldsOK, NoRefs
<1>7. counted => RunsHeld(stack', holds)
  BY <1>2, <1>5, AllRunsHeld
<1>8. Listed' = Listed /\ Kids(Future)' = Kids(Future)
  BY DEF Listed, Kids
<1>9. CASE ~LastRef(Top)
  <2>1. FutureLives' /\ FutureLives
    BY <1>3, <1>9 DEF FutureLives
  <2> QED
    BY <1>2, <1>3, <1>5, <1>7, <1>8, <2>1, HoldsKept
<1>10. CASE LastRef(Top)
  <2>1. Top.ref /\ RefCount(holds, stack) = 1
    BY <1>10 DEF LastRef
  <2>2. Len(stack) \in Nat /\ Len(stack) > 0 /\ Last(stack) = stack[Len(stack)]
    BY <1>3, Popped
  <2>3. Len(stack) \in 1 .. Len(stack) /\ stack[Len(stack)].ref
    BY <1>3, <2>1, <2>2
  <2>4. counted
    BY <1>6, <2>3 DEF NoRefs
  <2>5. holds \in SUBSET Awaiter
    BY <1>3 DEF TypeOK
  <2>6. holds = {} /\ \A j \in 1 .. Len(stack) : stack[j].ref => j = Len(stack)
    BY <1>3, <2>1, <2>3, <2>5, OneRef
  <2>7. NoRefs(s)
    <3>1. /\ Len(s) = Len(stack) - 1
          /\ \A i \in 1 .. Len(stack) - 1 : s[i] = stack[i]
      BY <1>1, <1>3, Popped DEF Below
    <3> QED
      BY <2>2, <2>6, <3>1 DEF NoRefs
  <2>8. ~On(Future, s)
    BY <1>1, <1>2, <1>3, <2>4, <2>7, NoRunBelow DEF Below
  <2>9. ~On(Future, stack')
    <3>1. CASE stack' = s
      BY <2>8, <3>1
    <3>2. ASSUME NEW f \in Frames, f.who # Future, stack' = Append(s, f)
          PROVE  ~On(Future, stack')
      <4>1. /\ Len(s) \in Nat /\ Len(stack') = Len(s) + 1
            /\ \A i \in 1 .. Len(s) : stack'[i] = s[i]
            /\ stack'[Len(s) + 1] = f
        BY <1>2, <3>2, Pushed
      <4>2. \A i \in 1 .. Len(stack') : i \in 1 .. Len(s) \/ i = Len(s) + 1
        BY <4>1
      <4> QED
        BY <2>8, <3>2, <4>1, <4>2 DEF On
    <3> QED
      BY <1>4, <3>1, <3>2
  <2>10. \A p \in Awaiter \ holds : pc[p] # "future" /\ (p \in Listed => pc[p] = "done")
    BY <1>3, <2>4 DEF HoldsOK
  <2> QED
    BY <1>3, <1>7, <1>8, <2>4, <2>6, <2>9, <2>10 DEF HoldsOK
<1> QED
  BY <1>9, <1>10

LEMMA FutureEndsKeeps ==
  ASSUME AwaitInv, FutureEnds
  PROVE  AwaitInv'
<1>1. PICK q : q = Top.saved
  OBVIOUS
<1>2. PICK s : s = Below
  OBVIOUS
<1>3. /\ Runs(Future) /\ Top.at = "parents"
      /\ phase' = IF LastRef(Top) THEN [phase EXCEPT ![Future] = "deleted"] ELSE phase
      /\ slips' = slips \union OnceMore(q)
      /\ q = NoCort => stack' = s /\ wait_count' = wait_count
      /\ q # NoCort => TryResume(q, s)
      /\ leaf' = leaf /\ rest' = rest /\ parent' = parent
      /\ parent_list' = parent_list /\ counted' = counted /\ holds' = holds
      /\ pc' = pc /\ call' = call /\ left' = left
  BY <1>1, <1>2 DEF FutureEnds, future, bodies
<1>4. /\ s \in Seq(Frames) /\ StackOK(s) /\ Calls(s) /\ Quiet(s)
      /\ \A w \in Waiter : w # Future => /\ On(w, s) <=> On(w, stack)
                                         /\ Resuming(w, s) <=> Resuming(w, stack)
      /\ FutureRuns(stack) = FutureRuns(s) + 1 /\ FutureRuns(s) \in Nat
  BY <1>2, <1>3, FutureLeaves
<1>5. /\ TypeOK /\ LeavesOK /\ FutureCount
      /\ Top \in Frames /\ wait_count[Future] = 0
      /\ \A v \in Waiter : parent[v] \in Awaiter \union {NoCort}
      /\ wait_count \in [Waiter -> 0 .. SizeMod - 1]
  BY <1>3, FutureTop DEF AwaitInv, TypeOK
<1>6. q \in Awaiter \union {NoCort}
  BY <1>1, <1>5 DEF Frames
<1>7. phase' \in [Helper \union {Future} -> {"none", "first", "rest", "deleted"}]
      /\ \A h \in Helper : phase'[h] = phase[h]
  BY <1>3, <1>5, Kinds DEF TypeOK
<1>8. slips \subseteq slips' /\ slips' \subseteq Leaf \union Awaiter
      /\ \A l \in Leaf : l \in slips' <=> l \in slips
  BY <1>3, <1>5, <1>6, Kinds DEF OnceMore, TypeOK
<1>9. CASE q = NoCort
  <2>1. slips' = slips /\ stack' = s /\ wait_count' = wait_count
    BY <1>3, <1>9 DEF OnceMore
  <2>2. TypeOK'
    BY <1>3, <1>4, <1>5, <1>7, <2>1 DEF TypeOK
  <2>3. HoldsOK'
    BY <1>2, <1>3, <2>1, FutureEndsHolds
  <2>4. FutureRuns(stack') <= FutureRuns(stack)
    BY <1>4, <2>1
  <2> QED
    BY <1>3, <1>4, <1>7, <2>1, <2>2, <2>3, <2>4, FutureMoves
<1>10. CASE q # NoCort
  <2>1. q \in Awaiter /\ q \in Waiter /\ q # Future
    BY <1>6, <1>10, Kinds
  <2>2. wait_count[q] = 1 <=> Asleep(q)
    BY <2>1 DEF AwaitInv, BodyOK
  <2>3. wait_count[q] = 1 => q = Future \/ ~On(q, s)
    BY <1>4, <2>1, <2>2 DEF Asleep
  <2>4. TryResume(q, s)
    BY <1>3, <1>10
  <2>5. /\ wait_count' \in [Waiter -> 0 .. SizeMod - 1]
        /\ \A v \in Waiter : v # q => wait_count'[v] = wait_count[v]
        /\ wait_count'[q] = IF wait_count[q] = 0 THEN SizeMod - 1 ELSE wait_count[q] - 1
        /\ stack' \in Seq(Frames) /\ StackOK(stack')
        /\ \A v \in Waiter : On(v, stack') <=> On(v, s) \/ (v = q /\ wait_count[q] = 1)
        /\ \A v \in Waiter : Resuming(v, stack') <=> Resuming(v, s)
        /\ FutureRuns(stack') =
             FutureRuns(s) + IF q = Future /\ wait_count[q] = 1 THEN 1 ELSE 0
        /\ wait_count[q] = 1 => stack' = Append(s, Frame(q))
        /\ wait_count[q] # 1 => stack' = s
        /\ Quiet(stack') \/ (q = Future /\ wait_count'[q] = 0)
    BY ONLY <1>4, <1>5, <2>1, <2>3, <2>4, TryWakes
  <2>6. TypeOK'
    BY <1>3, <1>5, <1>7, <1>8, <2>5 DEF TypeOK
  <2>7. LeavesGoOn /\ \A w : LeavesSame(w)
    BY <1>3, <1>8 DEF LeavesGoOn, LeavesSame
  <2>8. Listed' = Listed /\ \A p : Known(p)' = Known(p)
    BY <1>3, SameKnown
  <2>9. Remaining' < Remaining
    <3>1. Remaining \in Nat /\ Remaining' \in Nat /\ Due \in Nat /\ Due' \in Nat
          /\ Remaining' + Due <= Remaining + Due'
      BY <1>5, <2>6, <2>7, RemainingIs
    <3>2. /\ Due' + FutureRuns(stack) = Due + FutureRuns(stack')
          /\ FutureRuns(stack) \in Nat /\ FutureRuns(stack') \in Nat
      BY <1>3, <1>5, <2>6, SameDue
    <3>3. FutureRuns(stack') + 1 = FutureRuns(stack)
      BY <1>4, <2>1, <2>5
    <3>4. \A a, b, c, d, e, f \in Nat :
             a + c <= b + d /\ d + e = c + f /\ f + 1 = e => a < b
      OBVIOUS
    <3> QED
      BY ONLY <3>1, <3>2, <3>3, <3>4, Zenon
  <2>10. /\ \A p \in Awaiter : BodyOK(p)' /\ AnyOK(p)'
         /\ \A h \in Helper : HelperOK(h)' /\ ArmedOK(h)'
         /\ StackInv'
         /\ \A p \in Awaiter : p # q => Unmoved(p)
    <3>1. \A v \in Waiter : v # Future =>
            /\ On(v, stack') <=> On(v, stack) \/ (v = q /\ wait_count[q] = 1)
            /\ Resuming(v, stack') <=> Resuming(v, stack)
      BY <1>4, <2>5
    <3>2. \A h \in Helper : /\ phase'[h] = phase[h] /\ rest'[h] = rest[h]
                            /\ parent'[h] = parent[h] /\ LeavesSame(h)
      BY <1>3, <1>7, <2>7
    <3> QED
      BY <1>3, <2>1, <2>5, <2>6, <2>7, <2>9, <3>1, <3>2, AwaiterWoken
  <2>11. ASSUME NEW p \in Awaiter PROVE KnownOK(p)'
    <3>1. KnownOK(p)
      BY DEF AwaitInv
    <3>2. CASE p # q
      BY <1>8, <2>7, <2>8, <2>10, <3>1, <3>2, KnownKept
    <3>3. CASE p = q /\ wait_count[q] = 1
      <4>1. Decr(wait_count[q]) = 0
        BY <1>5, <2>1, <3>3, DecrIs
      <4>2. q \in slips'
        BY <1>3, <1>10, <4>1 DEF OnceMore
      <4> QED
        BY <3>3, <4>2 DEF KnownOK
    <3>4. CASE p = q /\ wait_count[q] # 1
      <4>1. Unmoved(p)
        BY <1>3, <1>4, <2>1, <2>5, <3>4 DEF Unmoved
      <4> QED
        BY <1>8, <2>7, <2>8, <3>1, <4>1, KnownKept
    <3> QED
      BY <3>2, <3>3, <3>4
  <2>12. FutureCount'
    <3>1. wait_count'[Future] = wait_count[Future] /\ Quiet(stack')
      BY <2>1, <2>5, Kinds
    <3> QED
      BY <1>5, <2>7, <3>1, CountKept
  <2>13. LeavesOK'
    BY <1>3, <1>5, <1>8 DEF LeavesOK
  <2>14. HoldsOK'
    <3>1. stack' = Below \/ \E r \in Awaiter : stack' = Append(Below, Frame(r))
      BY <1>2, <2>1, <2>5
    <3> QED
      BY <1>3, <3>1, FutureEndsHolds
  <2> QED
    BY <2>6, <2>10, <2>11, <2>12, <2>13, <2>14 DEF AwaitInv
<1> QED
  BY <1>9, <1>10

------------------------------------------------------------------------------
(* The helpers.                                                            *)

LEMMA HelperTop ==
  ASSUME AwaitInv, NEW h \in Helper, Runs(h)
  PROVE  /\ stack # << >> /\ Top = Last(stack) /\ Top \in Frames /\ Top.who = h
         /\ stack \in Seq(Frames) /\ StackOK(stack) /\ On(h, stack) /\ ~Top.ref
         /\ Resuming(h, stack) <=> Top.at = "resuming"
         /\ counted => AllHeld(stack)
<1>1. stack # << >> /\ Top = Last(stack) /\ Top.who = h
  BY DEF Runs, Top
<1>2. stack \in Seq(Frames) /\ StackOK(stack) /\ HoldsOK
  BY DEF AwaitInv, TypeOK, StackInv
<1>3. Len(stack) \in Nat /\ Len(stack) > 0 /\ Last(stack) = stack[Len(stack)]
      /\ Last(stack) \in Frames
  BY <1>1, <1>2, Popped
<1>4. Len(stack) \in 1 .. Len(stack)
  BY <1>3
<1>5. On(h, stack)
  BY <1>1, <1>3, <1>4 DEF On
<1>6. Top.at \in Places(h) /\ (Top.ref => Top.at \in {"parents", "check"})
  BY <1>1, <1>2, <1>3, <1>4 DEF StackOK
<1>7. ~Top.ref
  BY <1>6, Kinds DEF Places
<1>8. Resuming(h, stack) <=> Top.at = "resuming"
  <2>1. \A i \in 1 .. Len(stack) : stack[i].who = h => i = Len(stack)
    BY <1>1, <1>2, <1>3, <1>4, Kinds DEF StackOK
  <2> QED
    BY <1>1, <1>3, <1>4, <2>1 DEF Resuming
<1>9. counted => AllHeld(stack)
  <2> SUFFICES ASSUME counted PROVE AllHeld(stack)
    OBVIOUS
  <2>1. RunsHeld(stack, holds)
    BY <1>2 DEF HoldsOK
  <2> QED
    BY <1>1, <1>2, <2>1, HeldBelow, Kinds
<1> QED
  BY <1>1, <1>2, <1>3, <1>5, <1>7, <1>8, <1>9

LEMMA HelperPops ==
  ASSUME AwaitInv, NEW h \in Helper, Runs(h), NEW s, s = Below
  PROVE  /\ s \in Seq(Frames) /\ StackOK(s) /\ Quiet(s)
         /\ \A w \in Waiter : w # Future /\ w # h =>
              /\ On(w, s) <=> On(w, stack)
              /\ Resuming(w, s) <=> Resuming(w, stack)
         /\ ~On(h, s) /\ ~Resuming(h, s) /\ (On(Future, s) => On(Future, stack))
         /\ FutureRuns(stack) = FutureRuns(s)
         /\ NoRefs(stack) => NoRefs(s)
         /\ counted => AllHeld(s)
<1>1. /\ stack # << >> /\ Top = Last(stack) /\ Top.who = h
      /\ stack \in Seq(Frames) /\ StackOK(stack) /\ (counted => AllHeld(stack))
  BY HelperTop
<1>2. s = Front(stack)
  BY DEF Below
<1>3. h \in Waiter /\ h # Future
  BY Kinds
<1>4. /\ s \in Seq(Frames) /\ StackOK(s) /\ Calls(s)
      /\ \A w \in Waiter : w # Future => (On(w, s) <=> On(w, stack) /\ w # h)
      /\ \A w \in Waiter : w # Future => (Resuming(w, s) <=> Resuming(w, stack) /\ w # h)
      /\ (On(Future, s) => On(Future, stack))
      /\ FutureRuns(s) \in Nat
      /\ FutureRuns(stack) = FutureRuns(s) + IF h = Future THEN 1 ELSE 0
  BY <1>1, <1>2, Pop
<1>5. Quiet(s)
  BY <1>4, CallsQuiet
<1>6. NoRefs(stack) => NoRefs(s)
  BY <1>1, <1>2, PopRefs
<1>7. counted => AllHeld(s)
  BY <1>1, <1>2, PopRefs, AllRunsHeld
<1>8. FutureRuns(stack) = FutureRuns(s)
  BY <1>3, <1>4
<1> QED
  BY <1>3, <1>4, <1>5, <1>6, <1>7, <1>8

LEMMA HelperLeaves ==
  ASSUME AwaitInv, NEW h \in Helper, Runs(h), stack' = Below,
         leaf' = leaf, parent' = parent, rest' = rest, slips' = slips, parent_list' = parent_list,
         counted' = counted, holds' = holds, pc' = pc, call' = call, left' = left,
         wait_count' \in [Waiter -> 0 .. SizeMod - 1],
         \A w \in Waiter : w # h => wait_count'[w] = wait_count[w],
         phase' \in [Helper \union {Future} -> {"none", "first", "rest", "deleted"}],
         \A g \in Helper \union {Future} : g # h => phase'[g] = phase[g],
         ~Armed(h), phase'[h] # "first", HelperOK(h)'
  PROVE  AwaitInv'
<1>1. /\ stack' \in Seq(Frames) /\ StackOK(stack') /\ Quiet(stack')
      /\ \A w \in Waiter : w # Future /\ w # h =>
           /\ On(w, stack') <=> On(w, stack)
           /\ Resuming(w, stack') <=> Resuming(w, stack)
      /\ ~On(h, stack') /\ (On(Future, stack') => On(Future, stack))
      /\ FutureRuns(stack) = FutureRuns(stack')
      /\ NoRefs(stack) => NoRefs(stack')
      /\ counted => AllHeld(stack')
  BY HelperPops
<1>2. TypeOK /\ FutureCount /\ LeavesOK /\ HoldsOK
  BY DEF AwaitInv
<1>3. TypeOK'
  BY <1>1, <1>2 DEF TypeOK
<1>4. LeavesGoOn /\ \A w : LeavesSame(w)
  BY DEF LeavesGoOn, LeavesSame
<1>5. Listed' = Listed /\ \A p : Known(p)' = Known(p)
  BY SameKnown
<1>6. Remaining' <= Remaining
  <2>1. Remaining \in Nat /\ Remaining' \in Nat /\ Due \in Nat /\ Due' \in Nat
        /\ Remaining' + Due <= Remaining + Due'
    BY <1>2, <1>3, <1>4, RemainingIs
  <2>2. /\ Due' + FutureRuns(stack) = Due + FutureRuns(stack')
        /\ FutureRuns(stack) \in Nat /\ FutureRuns(stack') \in Nat
    BY <1>2, <1>3, SameDue
  <2>3. \A a, b, c, d, e \in Nat : a + c <= b + d /\ d + e = c + e => a <= b
    OBVIOUS
  <2>4. FutureRuns(stack) = FutureRuns(stack')
    BY <1>1
  <2>5. Due' + FutureRuns(stack) = Due + FutureRuns(stack)
    BY ONLY <2>2, <2>4, Zenon
  <2> QED
    BY ONLY <2>1, <2>2, <2>3, <2>5, Zenon
<1>7. ASSUME NEW p \in Awaiter
      PROVE  wait_count'[p] = wait_count[p] /\ (On(p, stack') <=> On(p, stack))
  <2>1. p \in Waiter /\ p # Future /\ p # h
    BY Kinds
  <2> QED
    BY <1>1, <2>1
<1>8. ASSUME NEW g \in Helper, g # h PROVE HelperStays(g)
  <2>1. g \in Waiter /\ g # Future
    BY Kinds
  <2> QED
    BY <1>1, <1>8, <2>1 DEF HelperStays
<1>9. ASSUME NEW g \in Helper, Armed(g) PROVE Armed(g)' /\ parent'[g] = parent[g]
  <2>1. g # h
    BY <1>9
  <2> QED
    BY <1>8, <1>9, <2>1 DEF Armed, HelperStays
<1>10. /\ \A p \in Awaiter : BodyOK(p)' /\ AnyOK(p)' /\ KnownOK(p)'
       /\ StackInv'
  <2>1. \A p \in Awaiter : /\ wait_count'[p] = wait_count[p] /\ LeavesSame(p)
                           /\ On(p, stack') <=> On(p, stack)
                           /\ Known(p)' = Known(p)
    BY <1>4, <1>5, <1>7
  <2> QED
    BY <1>1, <1>3, <1>4, <1>6, <1>9, <2>1, BodiesKept
<1>11. \A g \in Helper : HelperOK(g)' /\ ArmedOK(g)'
  <2>1. \A g \in Helper \ {h} : HelperOK(g)' /\ ArmedOK(g)'
    BY <1>4, <1>7, <1>8, HelpersKept
  <2>2. ArmedOK(h)'
    BY DEF ArmedOK, Armed
  <2> QED
    BY <2>1, <2>2
<1>12. FutureCount'
  <2>1. wait_count'[Future] = wait_count[Future]
    BY Kinds
  <2> QED
    BY <1>1, <1>2, <1>4, <2>1, CountKept
<1>13. LeavesOK'
  BY <1>2 DEF LeavesOK
<1>14. HoldsOK'
  <2>1. counted => RunsHeld(stack', holds)
    BY <1>1, AllRunsHeld
  <2>2. FutureLives' <=> FutureLives
    BY Kinds DEF FutureLives
  <2>3. ~FutureLives => Kids(Future)' = {} /\ ~On(Future, stack')
    <3>1. Kids(Future)' = Kids(Future)
      BY <1>4, SameLeaves
    <3> QED
      BY <1>1, <1>2, <3>1 DEF HoldsOK
  <2> QED
    BY <1>1, <1>2, <1>5, <2>1, <2>2, <2>3, HoldsKept
<1> QED
  BY <1>3, <1>10, <1>11, <1>12, <1>13, <1>14 DEF AwaitInv

LEMMA HelperEndsKeeps ==
  ASSUME AwaitInv, NEW h \in Helper, HelperEnds(h)
  PROVE  AwaitInv'
<1>1. /\ Runs(h) /\ phase[h] = "rest" /\ stack' = Below
      /\ phase' = [phase EXCEPT ![h] = "deleted"]
      /\ leaf' = leaf /\ parent' = parent /\ rest' = rest /\ slips' = slips
      /\ wait_count' = wait_count
      /\ parent_list' = parent_list /\ counted' = counted /\ holds' = holds
      /\ pc' = pc /\ call' = call /\ left' = left
  BY DEF HelperEnds, Delete, future, bodies
<1>2. TypeOK /\ HelperOK(h) /\ On(h, stack)
  BY <1>1, HelperTop DEF AwaitInv
<1>3. wait_count[h] = 0 /\ wait_count[h] = Cardinality(Counted(h))
  BY <1>1, <1>2 DEF HelperOK
<1>4. Kids(h) = {}
  BY <1>3, FewLeaves DEF Counted
<1>5. ~On(h, stack') /\ Kids(h)' = {}
  <2>1. Kids(h)' = Kids(h)
    BY <1>1 DEF Kids
  <2> QED
    BY <1>1, <1>4, <2>1, HelperPops
<1>6. /\ phase' \in [Helper \union {Future} -> {"none", "first", "rest", "deleted"}]
      /\ \A g \in Helper \union {Future} : g # h => phase'[g] = phase[g]
      /\ phase'[h] = "deleted"
  BY <1>1, <1>2 DEF TypeOK
<1>7. HelperOK(h)'
  BY <1>5, <1>6 DEF HelperOK
<1>8. ~Armed(h)
  BY <1>1 DEF Armed
<1>9. wait_count' \in [Waiter -> 0 .. SizeMod - 1]
  BY <1>1, <1>2 DEF TypeOK
<1> QED
  BY <1>1, <1>6, <1>7, <1>8, <1>9, HelperLeaves

LEMMA HelperGoesOnKeeps ==
  ASSUME AwaitInv, NEW h \in Helper, HelperGoesOn(h)
  PROVE  AwaitInv'
<1>1. /\ Runs(h) /\ Top.at = "resuming" /\ stack' = Below
      /\ wait_count' = [wait_count EXCEPT ![h] = rest[h]]
      /\ phase' = [phase EXCEPT ![h] = IF rest[h] # 0 THEN "rest" ELSE "deleted"]
      /\ leaf' = leaf /\ parent' = parent /\ rest' = rest /\ slips' = slips
      /\ parent_list' = parent_list /\ counted' = counted /\ holds' = holds
      /\ pc' = pc /\ call' = call /\ left' = left
  BY DEF HelperGoesOn, CountOfRest, Delete, future, bodies
<1>2. TypeOK /\ HelperOK(h) /\ On(h, stack) /\ Resuming(h, stack)
  BY <1>1, HelperTop DEF AwaitInv
<1>3. phase[h] = "first"
  BY <1>2 DEF HelperOK, TypeOK
<1>4. rest[h] = Cardinality(Counted(h))
  BY <1>2, <1>3 DEF HelperOK
<1>5. ~On(h, stack') /\ ~Resuming(h, stack')
  BY <1>1, HelperPops
<1>6. Kids(h)' = Kids(h) /\ Counted(h)' = Counted(h)
  BY <1>1 DEF Kids, Counted, Slipped
<1>7. h \in Waiter
  BY Kinds
<1>8. /\ phase' \in [Helper \union {Future} -> {"none", "first", "rest", "deleted"}]
      /\ \A g \in Helper \union {Future} : g # h => phase'[g] = phase[g]
      /\ phase'[h] = IF rest[h] # 0 THEN "rest" ELSE "deleted"
      /\ wait_count' \in [Waiter -> 0 .. SizeMod - 1] /\ wait_count'[h] = rest[h]
      /\ \A w \in Waiter : w # h => wait_count'[w] = wait_count[w]
  BY <1>1, <1>2, <1>7 DEF TypeOK
<1>9. HelperOK(h)'
  <2>1. CASE rest[h] # 0
    BY <1>4, <1>5, <1>6, <1>8, <2>1 DEF HelperOK
  <2>2. CASE rest[h] = 0
    <3>1. Kids(h) = {}
      BY <1>4, <2>2, FewLeaves DEF Counted
    <3> QED
      BY <1>5, <1>6, <1>8, <2>2, <3>1 DEF HelperOK
  <2> QED
    BY <2>1, <2>2
<1>10. ~Armed(h)
  BY <1>2 DEF Armed
<1>11. phase'[h] # "first"
  BY <1>8
<1> QED
  BY <1>1, <1>8, <1>9, <1>10, <1>11, HelperLeaves

(* The helper resumes the coroutine that its statement made wait.          *)
LEMMA HelperResumes ==
  ASSUME AwaitInv, NEW h \in Helper, HelperWakes(h), parent[h] # NoCort
  PROVE  AwaitInv'
<1>1. PICK p : p = parent[h]
  OBVIOUS
<1>2. /\ Runs(h) /\ Top.at = "wake" /\ phase[h] = "first" /\ phase' = phase
      /\ stack' = Append(TopAt("resuming"), Frame(p))
      /\ leaf' = leaf /\ parent' = parent /\ rest' = rest /\ slips' = slips
      /\ wait_count' = wait_count
      /\ parent_list' = parent_list /\ counted' = counted /\ holds' = holds
      /\ pc' = pc /\ call' = call /\ left' = left
  BY <1>1 DEF HelperWakes, future, bodies
<1>3. /\ TypeOK /\ HelperOK(h) /\ ArmedOK(h) /\ HoldsOK /\ FutureCount /\ LeavesOK
      /\ h \in Waiter /\ h # Future
  BY Kinds DEF AwaitInv
<1>4. /\ stack # << >> /\ Top = Last(stack) /\ Top \in Frames /\ Top.who = h
      /\ stack \in Seq(Frames) /\ StackOK(stack) /\ On(h, stack) /\ ~Resuming(h, stack)
      /\ ~Top.ref /\ (counted => AllHeld(stack))
  BY <1>2, HelperTop
<1>5. Armed(h) /\ p \in Awaiter /\ p \in Waiter /\ p # Future
  BY <1>1, <1>2, <1>3, <1>4, Kinds DEF Armed, TypeOK
<1>6. /\ pc[p] = "any" /\ ~On(p, stack)
      /\ call[p].args = {l \in Leaf : parent[l] = h} /\ call[p].args # {}
      /\ wait_count[h] + Cardinality(Done(p)) = call[p].need
  BY <1>1, <1>3, <1>5 DEF ArmedOK
<1>7. /\ wait_count[h] + rest[h] = Cardinality(Kids(h)) /\ Slipped(h) = {}
      /\ wait_count[h] = 0
  BY <1>2, <1>3, <1>4 DEF HelperOK
<1>8. PICK s : s = TopAt("resuming")
  OBVIOUS
<1> DEFINE f == [Top EXCEPT !.at = "resuming"]
           g == Frame(p)
<1>9. f \in Frames /\ f.who = h /\ f.at = "resuming" /\ ~f.ref
  BY <1>4 DEF Frames
<1>10. s = Append(Front(stack), f)
  BY <1>8 DEF TopAt, Below
<1>11. g \in Frames /\ g.who = p /\ g.at = "wake" /\ ~g.ref
  BY <1>3, <1>5 DEF Frame, Frames, TypeOK
<1>12. stack' = Append(s, g)
  BY <1>2, <1>8
<1> HIDE DEF f, g
<1>13. /\ s \in Seq(Frames) /\ StackOK(s) /\ s # << >> /\ Last(s) = f
       /\ \A w \in Waiter : On(w, s) <=> On(w, stack)
       /\ \A w \in Waiter : w # Future =>
            (Resuming(w, s) <=> IF w = f.who THEN f.at = "resuming" ELSE Resuming(w, stack))
       /\ FutureRuns(s) = FutureRuns(stack) /\ FutureRuns(stack) \in Nat
  <2>1. f.at \in Places(f.who) /\ (f.ref => f.at \in {"parents", "check"}) /\ f.who = Last(stack).who
    BY <1>4, <1>9, Kinds DEF Places
  <2> QED
    BY <1>4, <1>9, <1>10, <2>1, Stay
<1>14. Calls(s)
  BY <1>9, <1>13 DEF Calls
<1>15. /\ stack' \in Seq(Frames) /\ StackOK(stack') /\ stack' # << >> /\ Last(stack') = g
       /\ \A w \in Waiter : On(w, stack') <=> On(w, s) \/ w = p
       /\ \A w \in Waiter : Resuming(w, stack') <=> Resuming(w, s)
       /\ FutureRuns(stack') = FutureRuns(s)
  <2>1. ~On(g.who, s)
    BY <1>5, <1>6, <1>11, <1>13
  <2>2. /\ stack' \in Seq(Frames) /\ StackOK(stack') /\ stack' # << >> /\ Last(stack') = g
        /\ \A w \in Waiter : On(w, stack') <=> On(w, s) \/ w = g.who
        /\ \A w \in Waiter : Resuming(w, stack') <=> Resuming(w, s)
        /\ FutureRuns(s) \in Nat
        /\ FutureRuns(stack') = FutureRuns(s) + IF g.who = Future THEN 1 ELSE 0
    BY <1>11, <1>12, <1>13, <1>14, <2>1, Push
  <2> QED
    BY <1>5, <1>11, <2>2
<1>16. /\ \A w \in Waiter : On(w, stack') <=> On(w, stack) \/ w = p
       /\ \A w \in Waiter : w # Future /\ w # h => (Resuming(w, stack') <=> Resuming(w, stack))
       /\ Resuming(h, stack')
  BY <1>3, <1>9, <1>13, <1>15
<1>17. TypeOK'
  BY <1>2, <1>3, <1>15 DEF TypeOK
<1>18. LeavesGoOn /\ \A w : LeavesSame(w)
  BY <1>2 DEF LeavesGoOn, LeavesSame
<1>19. Listed' = Listed /\ \A q : Known(q)' = Known(q)
  BY <1>2, SameKnown
<1>20. Remaining' <= Remaining /\ Remaining \in Nat /\ Remaining' \in Nat
  <2>1. Remaining \in Nat /\ Remaining' \in Nat /\ Due \in Nat /\ Due' \in Nat
        /\ Remaining' + Due <= Remaining + Due'
    BY <1>3, <1>17, <1>18, RemainingIs
  <2>2. Units' = Units /\ Entries' = Entries /\ FutureRuns(stack') = FutureRuns(stack)
    BY <1>2, <1>13, <1>15 DEF Units, Entries
  <2>3. Due' = Due
    BY <2>2 DEF Due
  <2>4. \A a, b, c \in Nat : a + c <= b + c => a <= b
    OBVIOUS
  <2>5. Remaining' + Due <= Remaining + Due
    BY ONLY <2>1, <2>3, Zenon
  <2> QED
    BY ONLY <2>1, <2>4, <2>5, Zenon
<1>21. ASSUME NEW q \in Awaiter PROVE Unmoved(q)
  <2>1. CASE q = p
    BY <1>2, <1>6, <2>1 DEF Unmoved, Asleep
  <2>2. CASE q # p
    BY <1>2, <1>16, <2>2, Kinds DEF Unmoved
  <2> QED
    BY <2>1, <2>2
<1>22. ASSUME NEW q \in Awaiter PROVE BodyOK(q)' /\ KnownOK(q)'
  <2>1. BodyOK(q) /\ KnownOK(q)
    BY DEF AwaitInv
  <2>2. BodyOK(q)'
    BY <1>2, <1>3, <1>17, <1>20, <1>21, <2>1, BodyKept
  <2>3. KnownOK(q)'
    BY <1>2, <1>18, <1>19, <1>21, <2>1, KnownKept
  <2> QED
    BY <2>2, <2>3
<1>23. ASSUME NEW k \in Helper, k # h, Armed(k)
       PROVE  Armed(k)' /\ parent[k] # p /\ parent[k] \in Awaiter
  <2>1. k \in Waiter /\ k # Future
    BY Kinds
  <2>2. Armed(k)' /\ parent[k] \in Awaiter
    BY <1>2, <1>3, <1>16, <1>23, <2>1 DEF Armed, TypeOK
  <2>3. ASSUME parent[k] = p PROVE FALSE
    <3>1. ArmedOK(k)
      BY DEF AwaitInv
    <3>2. call[p].args = {l \in Leaf : parent[l] = k}
      BY <1>23, <2>3, <3>1 DEF ArmedOK
    <3> QED
      BY <1>6, <1>23, <3>2
  <2> QED
    BY <2>2, <2>3
<1>24. ASSUME NEW q \in Awaiter PROVE AnyOK(q)'
  <2>1. AnyOK(q)
    BY DEF AwaitInv
  <2>2. CASE q = p
    <3>1. Done(q)' = Done(q) /\ On(q, stack')
      BY <1>2, <1>5, <1>16, <2>2 DEF Done
    <3>2. Done(q) \in SUBSET Leaf
      BY <1>6, <2>2 DEF Done
    <3>3. Cardinality(Done(q)) \in Nat
      BY <3>2, SomeLeaves
    <3>4. Cardinality(Done(q)') >= call'[q].need
      BY <1>2, <1>6, <1>7, <2>2, <3>1, <3>3
    <3> QED
      BY <3>1, <3>4 DEF AnyOK
  <2>3. CASE q # p
    <3>1. \A k \in Helper : Armed(k) /\ parent[k] = q => Armed(k)' /\ parent'[k] = q
      BY <1>1, <1>2, <1>23, <2>3
    <3>2. On(q, stack') <=> On(q, stack)
      BY <1>16, <2>3, Kinds
    <3> QED
      BY <1>2, <1>3, <1>18, <2>1, <3>1, <3>2, AnyKept
  <2> QED
    BY <2>2, <2>3
<1>25. StackInv'
  <2>1. ASSUME NEW q \in Awaiter
        PROVE  IF On(q, stack') THEN pc'[q] \notin {"new", "done"} ELSE pc'[q] # "on"
    <3>1. IF On(q, stack) THEN pc[q] \notin {"new", "done"} ELSE pc[q] # "on"
      BY DEF AwaitInv, StackInv
    <3>2. On(q, stack') <=> On(q, stack) \/ q = p
      BY <1>16, Kinds
    <3> QED
      BY <1>2, <1>6, <3>1, <3>2
  <2> QED
    BY <1>15, <2>1 DEF StackInv
<1>26. ASSUME NEW k \in Helper PROVE HelperOK(k)' /\ ArmedOK(k)'
  <2>1. CASE k = h
    <3>1. Counted(h)' = Kids(h) /\ Slipped(h)' = {}
      BY <1>7, <1>18, SameLeaves DEF Counted
    <3>2. rest'[h] = Cardinality(Counted(h)')
      BY <1>2, <1>3, <1>7, <3>1 DEF TypeOK
    <3>3. wait_count'[h] + Cardinality(Slipped(h)') \in {0, SizeMod}
      BY <1>2, <1>7, <3>1, FS_EmptySet
    <3>4. HelperOK(h)'
      BY <1>2, <1>16, <3>2, <3>3 DEF HelperOK
    <3>5. ArmedOK(h)'
      BY <1>16 DEF ArmedOK, Armed
    <3> QED
      BY <2>1, <3>4, <3>5
  <2>2. CASE k # h
    <3>1. HelperOK(k) /\ ArmedOK(k) /\ LeavesSame(k)
      BY <1>18 DEF AwaitInv
    <3>2. k \in Waiter /\ k # Future /\ k # p
      BY <1>5, Kinds
    <3>3. HelperStays(k)
      BY <1>2, <1>16, <2>2, <3>2 DEF HelperStays
    <3>4. Armed(k) => /\ pc'[parent[k]] = pc[parent[k]] /\ call'[parent[k]] = call[parent[k]]
                      /\ ~On(parent[k], stack')
      <4> SUFFICES ASSUME Armed(k)
                   PROVE  /\ pc'[parent[k]] = pc[parent[k]] /\ call'[parent[k]] = call[parent[k]]
                          /\ ~On(parent[k], stack')
        OBVIOUS
      <4>1. parent[k] # p /\ parent[k] \in Waiter
        BY <1>23, <2>2, Kinds
      <4>2. ~On(parent[k], stack)
        BY <3>1 DEF ArmedOK
      <4> QED
        BY <1>2, <1>16, <4>1, <4>2
    <3> QED
      BY <3>1, <3>3, <3>4, HelperKept, ArmedKept
  <2> QED
    BY <2>1, <2>2
<1>27. FutureCount'
  <2>1. Quiet(stack')
    BY <1>5, <1>11, <1>15 DEF Quiet
  <2> QED
    BY <1>2, <1>3, <1>18, <2>1, CountKept
<1>28. LeavesOK'
  BY <1>2, <1>3 DEF LeavesOK
<1>29. HoldsOK'
  <2>1. NoRefs(stack) => NoRefs(stack')
    <3>1. NoRefs(stack) => NoRefs(s)
      BY <1>4, <1>9, <1>10, TopRefs
    <3>2. NoRefs(s) => NoRefs(stack')
      BY <1>11, <1>12, <1>13, PushRefs
    <3> QED
      BY <3>1, <3>2
  <2>2. counted => RunsHeld(stack', holds)
    <3> SUFFICES ASSUME counted PROVE RunsHeld(stack', holds)
      OBVIOUS
    <3>1. RunsHeld(stack, holds)
      BY <1>3 DEF HoldsOK
    <3>2. AllHeld(s)
      BY <1>3, <1>4, <1>9, <1>10, <3>1, TopRefs
    <3>3. AllHeld(stack')
      BY <1>11, <1>12, <1>13, <3>2, PushRefs
    <3> QED
      BY <3>3, AllRunsHeld
  <2>3. FutureLives' <=> FutureLives
    BY <1>2 DEF FutureLives
  <2>4. ~FutureLives => Kids(Future)' = {} /\ ~On(Future, stack')
    <3>1. Kids(Future)' = Kids(Future)
      BY <1>18, SameLeaves
    <3> QED
      BY <1>3, <1>5, <1>16, <3>1, Kinds DEF HoldsOK
  <2> QED
    BY <1>2, <1>3, <1>19, <2>1, <2>2, <2>3, <2>4, HoldsKept
<1> QED
  BY <1>17, <1>22, <1>24, <1>25, <1>26, <1>27, <1>28, <1>29 DEF AwaitInv

LEMMA HelperWakesKeeps ==
  ASSUME AwaitInv, NEW h \in Helper, HelperWakes(h)
  PROVE  AwaitInv'
<1>1. CASE parent[h] # NoCort
  BY <1>1, HelperResumes
<1>2. CASE parent[h] = NoCort
  <2>1. /\ Runs(h) /\ Top.at = "wake" /\ phase[h] = "first" /\ stack' = Below
        /\ phase' = [phase EXCEPT ![h] = "deleted"]
        /\ leaf' = leaf /\ parent' = parent /\ rest' = rest /\ slips' = slips
        /\ wait_count' = wait_count
        /\ parent_list' = parent_list /\ counted' = counted /\ holds' = holds
        /\ pc' = pc /\ call' = call /\ left' = left
    BY <1>2 DEF HelperWakes, Delete, future, bodies
  <2>2. TypeOK /\ HelperOK(h) /\ On(h, stack) /\ ~Resuming(h, stack)
    BY <2>1, HelperTop DEF AwaitInv
  <2>3. /\ wait_count[h] + rest[h] = Cardinality(Kids(h))
        /\ wait_count[h] = 0 /\ rest[h] = 0
    BY <1>2, <2>1, <2>2 DEF HelperOK
  <2>4. Kids(h) = {}
    BY <2>3, FewLeaves
  <2>5. ~On(h, stack') /\ Kids(h)' = {}
    <3>1. Kids(h)' = Kids(h)
      BY <2>1 DEF Kids
    <3> QED
      BY <2>1, <2>4, <3>1, HelperPops
  <2>6. /\ phase' \in [Helper \union {Future} -> {"none", "first", "rest", "deleted"}]
        /\ \A g \in Helper \union {Future} : g # h => phase'[g] = phase[g]
        /\ phase'[h] = "deleted"
    BY <2>1, <2>2 DEF TypeOK
  <2>7. HelperOK(h)'
    BY <2>5, <2>6 DEF HelperOK
  <2>8. ~Armed(h)
    BY <1>2 DEF Armed
  <2>9. wait_count' \in [Waiter -> 0 .. SizeMod - 1]
    BY <2>1, <2>2 DEF TypeOK
  <2> QED
    BY <2>1, <2>6, <2>7, <2>8, <2>9, HelperLeaves
<1> QED
  BY <1>1, <1>2

------------------------------------------------------------------------------
(* The bodies.                                                             *)

LEMMA BodyTop ==
  ASSUME AwaitInv, NEW p \in Awaiter, Runs(p)
  PROVE  /\ stack # << >> /\ Top = Last(stack) /\ Top \in Frames /\ Top.who = p
         /\ stack \in Seq(Frames) /\ StackOK(stack) /\ Calls(stack) /\ On(p, stack)
         /\ pc[p] \notin {"new", "done"} /\ wait_count[p] # 1
         /\ p \notin slips => Known(p) = 0 /\ Kids(p) = {}
         /\ \A h \in Helper : Armed(h) => parent[h] # p
         /\ counted => AllHeld(stack)
<1>1. stack # << >> /\ Top = Last(stack) /\ Top.who = p
  BY DEF Runs, Top
<1>2. /\ stack \in Seq(Frames) /\ StackOK(stack) /\ HoldsOK /\ StackInv
      /\ BodyOK(p) /\ KnownOK(p)
  BY DEF AwaitInv, TypeOK, StackInv
<1>3. Len(stack) \in Nat /\ Len(stack) > 0 /\ Last(stack) = stack[Len(stack)]
      /\ Last(stack) \in Frames
  BY <1>1, <1>2, Popped
<1>4. On(p, stack)
  BY <1>1, <1>3 DEF On
<1>5. Calls(stack)
  BY <1>1 DEF Calls
<1>6. pc[p] \notin {"new", "done"} /\ wait_count[p] # 1
  BY <1>2, <1>4 DEF StackInv, BodyOK, Asleep
<1>7. p \notin slips => Known(p) = 0 /\ Kids(p) = {}
  BY <1>2, <1>4 DEF KnownOK
<1>8. ASSUME NEW h \in Helper, Armed(h) PROVE parent[h] # p
  <2>1. ArmedOK(h)
    BY DEF AwaitInv
  <2> QED
    BY <1>4, <1>8, <2>1 DEF ArmedOK
<1>9. counted => AllHeld(stack)
  <2> SUFFICES ASSUME counted PROVE AllHeld(stack)
    OBVIOUS
  <2>1. RunsHeld(stack, holds)
    BY <1>2 DEF HoldsOK
  <2> QED
    BY <1>1, <1>2, <2>1, HeldBelow, Kinds
<1> QED
  BY <1>1, <1>2, <1>3, <1>4, <1>5, <1>6, <1>7, <1>8, <1>9

(* The body goes on, or suspends.                                          *)
LEMMA BodyStack ==
  ASSUME AwaitInv, NEW p \in Awaiter, Runs(p), stack' = stack \/ stack' = Below
  PROVE  /\ stack' \in Seq(Frames) /\ StackOK(stack') /\ Quiet(stack')
         /\ \A w \in Waiter : w # Future /\ w # p =>
              /\ On(w, stack') <=> On(w, stack)
              /\ Resuming(w, stack') <=> Resuming(w, stack)
         /\ stack' = stack => On(p, stack')
         /\ stack' = Below => ~On(p, stack')
         /\ On(Future, stack') => On(Future, stack)
         /\ FutureRuns(stack') = FutureRuns(stack)
         /\ NoRefs(stack) => NoRefs(stack')
         /\ counted => AllHeld(stack')
<1>1. /\ stack # << >> /\ Top = Last(stack) /\ Top.who = p
      /\ stack \in Seq(Frames) /\ StackOK(stack) /\ Calls(stack) /\ On(p, stack)
      /\ counted => AllHeld(stack)
  BY BodyTop
<1>2. p \in Waiter /\ p # Future
  BY Kinds
<1>3. PICK s : s = Front(stack)
  OBVIOUS
<1>4. /\ s \in Seq(Frames) /\ StackOK(s) /\ Calls(s)
      /\ \A w \in Waiter : w # Future => (On(w, s) <=> On(w, stack) /\ w # p)
      /\ \A w \in Waiter : w # Future => (Resuming(w, s) <=> Resuming(w, stack) /\ w # p)
      /\ (On(Future, s) => On(Future, stack))
      /\ FutureRuns(s) \in Nat
      /\ FutureRuns(stack) = FutureRuns(s) + IF p = Future THEN 1 ELSE 0
  BY <1>1, <1>3, Pop
<1>5. Quiet(s) /\ Quiet(stack)
  BY <1>1, <1>4, CallsQuiet
<1>6. (NoRefs(stack) => NoRefs(s)) /\ (counted => AllHeld(s))
  BY <1>1, <1>3, PopRefs, AllRunsHeld
<1>7. FutureRuns(stack) = FutureRuns(s) /\ ~On(p, s)
  BY <1>2, <1>4
<1>8. stack' = stack \/ stack' = s
  BY <1>3 DEF Below
<1>9. stack' = Below => stack' = s
  BY <1>3 DEF Below
<1> QED
  BY <1>1, <1>2, <1>4, <1>5, <1>6, <1>7, <1>8, <1>9

(* A statement of p is one less to go, which pays for an entry.            *)
LEMMA StatementPaid ==
  ASSUME AwaitInv, TypeOK', LeavesGoOn, NEW p \in Awaiter, Runs(p),
         stack' = stack \/ stack' = Below,
         \/ left' = left /\ Entries' = Entries
         \/ left[p] > 0 /\ left' = [left EXCEPT ![p] = @ - 1] /\ Entries' <= Entries + 1
  PROVE  Remaining' <= Remaining /\ Remaining \in Nat /\ Remaining' \in Nat
<1>1. TypeOK
  BY DEF AwaitInv
<1>2. Remaining \in Nat /\ Remaining' \in Nat /\ Due \in Nat /\ Due' \in Nat
      /\ Remaining' + Due <= Remaining + Due'
  BY <1>1, RemainingIs
<1>3. FutureRuns(stack') = FutureRuns(stack) /\ FutureRuns(stack) \in Nat
  BY <1>1, BodyStack, RunsCounted DEF TypeOK
<1>4. PICK r : r = Remaining'
  OBVIOUS
<1>5. PICK d : d = Due'
  OBVIOUS
<1>6. PICK e : e = Entries'
  OBVIOUS
<1>7. PICK c : c = Cardinality(Units')
  OBVIOUS
<1>8. /\ Entries \in Nat /\ e \in Nat
      /\ Cardinality(Units) \in Nat /\ c \in Nat
  <2>1. Entries \in Nat /\ Entries' \in Nat
    BY <1>1 DEF Entries, TypeOK
  <2>2. Cardinality(Units) \in Nat /\ Cardinality(Units') \in Nat
    BY UnitsCounted DEF Units
  <2> QED
    BY <1>6, <1>7, <2>1, <2>2
<1>9. e + c <= Entries + Cardinality(Units)
  <2>1. CASE left' = left /\ Entries' = Entries
    <3>1. Units' = Units
      BY <2>1 DEF Units
    <3> QED
      BY <1>6, <1>7, <1>8, <2>1, <3>1
  <2>2. CASE left[p] > 0 /\ left' = [left EXCEPT ![p] = @ - 1] /\ Entries' <= Entries + 1
    <3>1. Cardinality(Units') = Cardinality(Units) - 1
      BY <1>1, <2>2, UnitsSpent
    <3>2. c = Cardinality(Units) - 1 /\ e <= Entries + 1
      BY <1>6, <1>7, <2>2, <3>1
    <3> QED
      BY ONLY <1>8, <3>2
  <2> QED
    BY <2>1, <2>2
<1>10. d = FutureRuns(stack) + e + c
  BY <1>3, <1>5, <1>6, <1>7 DEF Due
<1>11. Due = FutureRuns(stack) + Entries + Cardinality(Units)
  BY DEF Due
<1>12. FutureRuns(stack) \in Nat
  BY <1>3
<1>13. d <= Due
  BY ONLY <1>8, <1>9, <1>10, <1>11, <1>12
<1>14. r \in Nat /\ d \in Nat /\ Remaining \in Nat /\ Due \in Nat /\ r + Due <= Remaining + d
  BY <1>2, <1>4, <1>5
<1>15. r <= Remaining
  BY ONLY <1>13, <1>14
<1> QED
  BY <1>2, <1>4, <1>15

(* What a body does to the others: nothing, but that a helper may be new.  *)
LEMMA BodyActs ==
  ASSUME AwaitInv, TypeOK', LeavesGoOn, NEW p \in Awaiter, Runs(p),
         stack' = stack \/ stack' = Below, Remaining' <= Remaining,
         slips \subseteq slips',
         \A q \in Awaiter \ {p} : /\ pc'[q] = pc[q] /\ call'[q] = call[q]
                                  /\ wait_count'[q] = wait_count[q]
                                  /\ LeavesSame(q) /\ Known(q)' = Known(q),
         stack' = stack => pc'[p] = "on",
         stack' = Below => pc'[p] # "on",
         NEW S \in SUBSET Helper, \A h \in Helper \ S : phase[h] = "none",
         \A h \in S : /\ phase'[h] = phase[h] /\ wait_count'[h] = wait_count[h]
                      /\ rest'[h] = rest[h] /\ parent'[h] = parent[h] /\ LeavesSame(h)
  PROVE  /\ StackInv'
         /\ \A q \in Awaiter \ {p} : BodyOK(q)' /\ AnyOK(q)' /\ KnownOK(q)'
         /\ \A h \in S : HelperOK(h)' /\ ArmedOK(h)'
         /\ pc'[p] # "any" => AnyOK(p)'
<1>1. TypeOK /\ Remaining \in Nat /\ Remaining' \in Nat
  BY DueNumber DEF AwaitInv
<1>2. /\ StackOK(stack')
      /\ \A w \in Waiter : w # Future /\ w # p =>
           /\ On(w, stack') <=> On(w, stack)
           /\ Resuming(w, stack') <=> Resuming(w, stack)
      /\ stack' = stack => On(p, stack')
      /\ stack' = Below => ~On(p, stack')
  BY BodyStack
<1>3. ASSUME NEW q \in Awaiter \ {p}
      PROVE  Unmoved(q) /\ (On(q, stack') <=> On(q, stack))
  <2>1. q \in Waiter /\ q # Future /\ q # p
    BY Kinds
  <2> QED
    BY <1>2, <2>1 DEF Unmoved
<1>4. ASSUME NEW h \in S PROVE HelperStays(h)
  <2>1. h \in Waiter /\ h # Future /\ h # p
    BY Kinds
  <2> QED
    BY <1>2, <2>1 DEF HelperStays
<1>5. ASSUME NEW h \in Helper, Armed(h)
      PROVE  h \in S /\ Armed(h)' /\ parent'[h] = parent[h] /\ parent[h] # p
  <2>1. h \in S
    BY <1>5 DEF Armed
  <2>2. Armed(h)' /\ parent'[h] = parent[h]
    BY <1>4, <1>5, <2>1 DEF Armed, HelperStays
  <2> QED
    BY <1>5, <2>1, <2>2, BodyTop
<1>6. ASSUME NEW q \in Awaiter \ {p} PROVE BodyOK(q)' /\ AnyOK(q)' /\ KnownOK(q)'
  <2>1. BodyOK(q) /\ AnyOK(q) /\ KnownOK(q) /\ Unmoved(q) /\ (On(q, stack') <=> On(q, stack))
    BY <1>3 DEF AwaitInv
  <2>2. BodyOK(q)'
    BY <1>1, <2>1, BodyKept
  <2>3. AnyOK(q)'
    <3>1. \A h \in Helper : Armed(h) /\ parent[h] = q => Armed(h)' /\ parent'[h] = q
      BY <1>5
    <3> QED
      BY <1>1, <2>1, <3>1, AnyKept
  <2>4. KnownOK(q)'
    BY <2>1, KnownKept
  <2> QED
    BY <2>2, <2>3, <2>4
<1>7. ASSUME NEW h \in S PROVE HelperOK(h)' /\ ArmedOK(h)'
  <2>1. HelperOK(h) /\ ArmedOK(h) /\ h \in Helper
    BY DEF AwaitInv
  <2>2. Armed(h) => /\ pc'[parent[h]] = pc[parent[h]] /\ call'[parent[h]] = call[parent[h]]
                    /\ ~On(parent[h], stack')
    <3> SUFFICES ASSUME Armed(h)
                 PROVE  /\ pc'[parent[h]] = pc[parent[h]] /\ call'[parent[h]] = call[parent[h]]
                        /\ ~On(parent[h], stack')
      OBVIOUS
    <3>1. ~On(parent[h], stack)
      BY <2>1 DEF ArmedOK
    <3>2. parent[h] \in Awaiter \ {p}
      BY <1>1, <1>5, <2>1, Kinds DEF Armed, TypeOK
    <3> QED
      BY <1>3, <3>1, <3>2
  <2> QED
    BY <1>4, <2>1, <2>2, HelperKept, ArmedKept
<1>8. StackInv'
  <2>1. ASSUME NEW q \in Awaiter
        PROVE  IF On(q, stack') THEN pc'[q] \notin {"new", "done"} ELSE pc'[q] # "on"
    <3>1. CASE q = p
      BY <1>2, <3>1
    <3>2. CASE q # p
      <4>1. IF On(q, stack) THEN pc[q] \notin {"new", "done"} ELSE pc[q] # "on"
        BY DEF AwaitInv, StackInv
      <4> QED
        BY <1>3, <3>2, <4>1
    <3> QED
      BY <3>1, <3>2
  <2> QED
    BY <1>2, <2>1 DEF StackInv
<1>9. pc'[p] # "any" => AnyOK(p)'
  BY DEF AnyOK
<1> QED
  BY <1>6, <1>7, <1>8, <1>9

LEMMA BodyHolds ==
  ASSUME AwaitInv, NEW p \in Awaiter, Runs(p), stack' = stack \/ stack' = Below,
         \A q \in Awaiter \ {p} : pc'[q] = pc[q], pc'[p] # "future",
         parent'[Future] = parent[Future], parent_list' = parent_list,
         phase'[Future] = phase[Future], counted' = counted, holds' = holds,
         LeavesSame(Future)
  PROVE  HoldsOK'
<1>1. HoldsOK
  BY DEF AwaitInv
<1>2. /\ On(Future, stack') => On(Future, stack)
      /\ NoRefs(stack) => NoRefs(stack')
      /\ counted => AllHeld(stack')
  BY BodyStack
<1>3. Listed' = Listed
  BY SameKnown
<1>4. counted => RunsHeld(stack', holds)
  BY <1>2, AllRunsHeld
<1>5. \A q \in Awaiter \ holds : /\ pc'[q] = "future" => pc[q] = "future"
                                 /\ pc[q] = "done" => pc'[q] = "done"
  BY BodyTop
<1>6. FutureLives' <=> FutureLives
  BY DEF FutureLives
<1>7. ~FutureLives => Kids(Future)' = {} /\ ~On(Future, stack')
  BY <1>1, <1>2, SameLeaves DEF HoldsOK
<1> QED
  BY <1>1, <1>2, <1>3, <1>4, <1>5, <1>6, <1>7, HoldsKept

LEMMA StartKeeps ==
  ASSUME AwaitInv, NEW p \in Awaiter, Start(p)
  PROVE  AwaitInv'
<1>1. /\ stack = << >> /\ pc[p] = "new" /\ pc' = [pc EXCEPT ![p] = "on"]
      /\ stack' = <<Frame(p)>>
      /\ leaf' = leaf /\ parent' = parent /\ rest' = rest /\ slips' = slips
      /\ wait_count' = wait_count /\ phase' = phase
      /\ parent_list' = parent_list /\ counted' = counted /\ holds' = holds
      /\ call' = call /\ left' = left
  BY DEF Start, future, stand
<1>2. /\ TypeOK /\ HoldsOK /\ FutureCount /\ LeavesOK /\ StackInv
      /\ stack \in Seq(Frames) /\ StackOK(stack)
      /\ p \in Waiter /\ p # Future
  BY Kinds DEF AwaitInv, TypeOK, StackInv
<1>3. \A w : ~On(w, stack) /\ ~Resuming(w, stack)
  BY <1>1 DEF On, Resuming
<1> DEFINE g == Frame(p)
<1>4. g \in Frames /\ g.who = p /\ g.at = "wake" /\ ~g.ref
  BY <1>2 DEF Frame, Frames, TypeOK
<1>5. stack' = Append(stack, g)
  BY <1>1
<1> HIDE DEF g
<1>6. /\ stack' \in Seq(Frames) /\ StackOK(stack') /\ stack' # << >> /\ Last(stack') = g
      /\ \A w \in Waiter : On(w, stack') <=> w = p
      /\ \A w \in Waiter : ~Resuming(w, stack')
      /\ FutureRuns(stack') = FutureRuns(stack) /\ FutureRuns(stack) \in Nat
  <2>1. Calls(stack)
    BY <1>1 DEF Calls
  <2>2. /\ stack' \in Seq(Frames) /\ StackOK(stack') /\ stack' # << >> /\ Last(stack') = g
        /\ \A w \in Waiter : On(w, stack') <=> On(w, stack) \/ w = g.who
        /\ \A w \in Waiter : Resuming(w, stack') <=> Resuming(w, stack)
        /\ FutureRuns(stack) \in Nat
        /\ FutureRuns(stack') = FutureRuns(stack) + IF g.who = Future THEN 1 ELSE 0
    BY <1>2, <1>3, <1>4, <1>5, <2>1, Push
  <2> QED
    BY <1>2, <1>3, <1>4, <2>2
<1>7. TypeOK'
  BY <1>1, <1>2, <1>6 DEF TypeOK
<1>8. LeavesGoOn /\ \A w : LeavesSame(w)
  BY <1>1 DEF LeavesGoOn, LeavesSame
<1>9. Listed' = Listed /\ \A q : Known(q)' = Known(q)
  BY <1>1, SameKnown
<1>10. Remaining' <= Remaining /\ Remaining \in Nat /\ Remaining' \in Nat
  <2>1. Remaining \in Nat /\ Remaining' \in Nat /\ Due \in Nat /\ Due' \in Nat
        /\ Remaining' + Due <= Remaining + Due'
    BY <1>2, <1>7, <1>8, RemainingIs
  <2>2. Units' = Units /\ Entries' = Entries /\ FutureRuns(stack') = FutureRuns(stack)
    BY <1>1, <1>6 DEF Units, Entries
  <2>3. Due' = Due
    BY <2>2 DEF Due
  <2>4. \A a, b, c \in Nat : a + c <= b + c => a <= b
    OBVIOUS
  <2>5. Remaining' + Due <= Remaining + Due
    BY ONLY <2>1, <2>3, Zenon
  <2> QED
    BY ONLY <2>1, <2>4, <2>5, Zenon
<1>11. pc'[p] = "on" /\ \A q \in Awaiter : q # p => pc'[q] = pc[q]
  BY <1>1, <1>2 DEF TypeOK
<1>12. ASSUME NEW q \in Awaiter PROVE Unmoved(q) /\ (q # p => (On(q, stack') <=> On(q, stack)))
  <2>1. CASE q = p
    BY <1>1, <1>11, <2>1 DEF Unmoved, Asleep
  <2>2. CASE q # p
    BY <1>3, <1>6, <1>11, <2>2, Kinds DEF Unmoved
  <2> QED
    BY <2>1, <2>2
<1>13. ASSUME NEW h \in Helper PROVE HelperStays(h)
  <2>1. h \in Waiter /\ h # p
    BY Kinds
  <2> QED
    BY <1>1, <1>3, <1>6, <2>1 DEF HelperStays
<1>14. ASSUME NEW h \in Helper, Armed(h)
       PROVE  Armed(h)' /\ parent'[h] = parent[h] /\ parent[h] # p
              /\ parent[h] \in Awaiter
  <2>1. Armed(h)' /\ parent'[h] = parent[h] /\ parent[h] \in Awaiter
    BY <1>2, <1>13, <1>14, Kinds DEF Armed, HelperStays, TypeOK
  <2>2. pc[parent[h]] = "any"
    BY <1>14 DEF AwaitInv, ArmedOK
  <2> QED
    BY <1>1, <2>1, <2>2
<1>15. ASSUME NEW q \in Awaiter PROVE BodyOK(q)' /\ AnyOK(q)' /\ KnownOK(q)'
  <2>1. BodyOK(q) /\ AnyOK(q) /\ KnownOK(q)
    BY DEF AwaitInv
  <2>2. BodyOK(q)'
    BY <1>1, <1>2, <1>7, <1>10, <1>12, <2>1, BodyKept
  <2>3. KnownOK(q)'
    BY <1>1, <1>8, <1>9, <1>12, <2>1, KnownKept
  <2>4. AnyOK(q)'
    <3>1. \A h \in Helper : Armed(h) /\ parent[h] = q => Armed(h)' /\ parent'[h] = q
      BY <1>14
    <3>2. pc'[q] = "any" => /\ pc[q] = "any" /\ call'[q] = call[q]
                            /\ On(q, stack') <=> On(q, stack)
      BY <1>1, <1>11, <1>12
    <3> QED
      BY <1>2, <1>8, <2>1, <3>1, <3>2, AnyKept
  <2> QED
    BY <2>2, <2>3, <2>4
<1>16. ASSUME NEW h \in Helper PROVE HelperOK(h)' /\ ArmedOK(h)'
  <2>1. HelperOK(h) /\ ArmedOK(h) /\ LeavesSame(h) /\ HelperStays(h)
    BY <1>8, <1>13 DEF AwaitInv
  <2>2. Armed(h) => /\ pc'[parent[h]] = pc[parent[h]] /\ call'[parent[h]] = call[parent[h]]
                    /\ ~On(parent[h], stack')
    BY <1>1, <1>6, <1>11, <1>14, Kinds
  <2> QED
    BY <2>1, <2>2, HelperKept, ArmedKept
<1>17. StackInv'
  <2>1. ASSUME NEW q \in Awaiter
        PROVE  IF On(q, stack') THEN pc'[q] \notin {"new", "done"} ELSE pc'[q] # "on"
    BY <1>2, <1>3, <1>6, <1>11, Kinds DEF StackInv
  <2> QED
    BY <1>6, <2>1 DEF StackInv
<1>18. FutureCount'
  <2>1. Quiet(stack')
    BY <1>2, <1>4, <1>6 DEF Quiet
  <2> QED
    BY <1>1, <1>2, <1>8, <2>1, CountKept
<1>19. LeavesOK'
  BY <1>1, <1>2 DEF LeavesOK
<1>20. HoldsOK'
  <2>1. (NoRefs(stack) => NoRefs(stack')) /\ (AllHeld(stack) => AllHeld(stack'))
    BY <1>2, <1>4, <1>5, PushRefs
  <2>2. AllHeld(stack)
    BY <1>1 DEF AllHeld
  <2>3. counted => RunsHeld(stack', holds)
    BY <2>1, <2>2, AllRunsHeld
  <2>4. FutureLives' <=> FutureLives
    BY <1>1 DEF FutureLives
  <2>5. ~FutureLives => Kids(Future)' = {} /\ ~On(Future, stack')
    <3>1. Kids(Future)' = Kids(Future)
      BY <1>8, SameLeaves
    <3> QED
      BY <1>2, <1>6, <3>1, Kinds DEF HoldsOK
  <2>6. \A q \in Awaiter \ holds : /\ pc'[q] = "future" => pc[q] = "future"
                                   /\ pc[q] = "done" => pc'[q] = "done"
    BY <1>1, <1>11
  <2> QED
    BY <1>1, <1>2, <1>9, <2>1, <2>3, <2>4, <2>5, <2>6, HoldsKept
<1> QED
  BY <1>7, <1>15, <1>16, <1>17, <1>18, <1>19, <1>20 DEF AwaitInv

LEMMA LeftType ==
  ASSUME TypeOK, NEW p \in Awaiter, left[p] > 0, left' = [left EXCEPT ![p] = @ - 1]
  PROVE  left' \in [Awaiter -> 0 .. Statements]
<1>1. left[p] \in 0 .. Statements /\ Statements \in Nat
  BY AwaitsAssumption DEF TypeOK, AwaitsAssumption
<1>2. left[p] - 1 \in 0 .. Statements
  BY <1>1
<1> QED
  BY <1>2 DEF TypeOK

LEMMA AwaitLeafKeeps ==
  ASSUME AwaitInv, NEW p \in Awaiter, NEW l \in Leaf, AwaitLeaf(p, l)
  PROVE  AwaitInv'
<1>1. /\ Runs(p) /\ left[p] > 0 /\ left' = [left EXCEPT ![p] = @ - 1]
      /\ leaf[l] = "idle" /\ leaf' = [leaf EXCEPT ![l] = "waiting"]
      /\ parent' = [parent EXCEPT ![l] = p]
      /\ wait_count' = [wait_count EXCEPT ![p] = 1]
      /\ pc' = [pc EXCEPT ![p] = "leaf"] /\ stack' = Below
      /\ rest' = rest /\ slips' = slips /\ phase' = phase
      /\ parent_list' = parent_list /\ counted' = counted /\ holds' = holds /\ call' = call
  BY DEF AwaitLeaf, Statement, future, stand
<1>2. /\ TypeOK /\ FutureCount /\ LeavesOK /\ BodyOK(p)
      /\ p \in Waiter /\ p # Future /\ l # NoCort /\ l \notin Waiter
  BY Kinds DEF AwaitInv
<1>3. parent[l] = NoCort
  BY <1>1, <1>2 DEF LeavesOK
<1>4. /\ leaf'[l] = "waiting" /\ \A m \in Leaf : m # l => leaf'[m] = leaf[m]
      /\ parent'[l] = p
      /\ \A c \in Leaf \union Waiter : c # l => parent'[c] = parent[c]
      /\ wait_count'[p] = 1 /\ \A w \in Waiter : w # p => wait_count'[w] = wait_count[w]
      /\ pc'[p] = "leaf" /\ \A q \in Awaiter : q # p => pc'[q] = pc[q]
  BY <1>1, <1>2 DEF TypeOK
<1>5. \A w : w # NoCort /\ w # p => LeavesSame(w)
  BY <1>1, <1>3, <1>4 DEF LeavesSame
<1>6. LeavesGoOn /\ LeavesOK'
  BY <1>1, <1>2, <1>4 DEF LeavesGoOn, LeavesOK
<1>7. /\ stack' \in Seq(Frames) /\ Quiet(stack') /\ ~On(p, stack')
  BY <1>1, BodyStack
<1>8. TypeOK'
  <2>1. left' \in [Awaiter -> 0 .. Statements]
    BY <1>1, <1>2, LeftType
  <2>2. \A w \in Waiter : parent'[w] \in Awaiter \union {NoCort}
    BY <1>2, <1>4 DEF TypeOK
  <2>3. /\ parent' \in [Leaf \union Waiter -> Waiter \union {NoCort}]
        /\ wait_count' \in [Waiter -> 0 .. SizeMod - 1]
        /\ pc' \in [Awaiter -> {"new", "any", "future", "leaf", "on", "done"}]
        /\ leaf' \in [Leaf -> {"idle", "waiting", "done"}]
    BY <1>1, <1>2, Numbers DEF TypeOK
  <2> QED
    BY <1>1, <1>2, <1>7, <2>1, <2>2, <2>3 DEF TypeOK
<1>9. parent'[Future] = parent[Future] /\ Entries' = Entries
      /\ \A q : Known(q)' = Known(q)
  <2>1. parent'[Future] = parent[Future]
    BY <1>2, <1>4, Kinds
  <2> QED
    BY <1>1, <2>1, SameKnown DEF Entries
<1>10. Remaining' <= Remaining /\ Remaining \in Nat /\ Remaining' \in Nat
  <2>1. Entries \in Nat
    BY <1>2 DEF TypeOK, Entries
  <2>2. Entries' <= Entries + 1
    BY <1>9, <2>1
  <2> QED
    BY <1>1, <1>6, <1>8, <2>2, StatementPaid
<1>11. /\ \A q \in Awaiter \ {p} : /\ pc'[q] = pc[q] /\ call'[q] = call[q]
                                   /\ wait_count'[q] = wait_count[q]
                                   /\ LeavesSame(q) /\ Known(q)' = Known(q)
       /\ \A h \in Helper : /\ phase'[h] = phase[h] /\ wait_count'[h] = wait_count[h]
                            /\ rest'[h] = rest[h] /\ parent'[h] = parent[h] /\ LeavesSame(h)
  BY <1>1, <1>2, <1>4, <1>5, <1>9, Kinds
<1>12. /\ StackInv'
       /\ \A q \in Awaiter \ {p} : BodyOK(q)' /\ AnyOK(q)' /\ KnownOK(q)'
       /\ \A h \in Helper : HelperOK(h)' /\ ArmedOK(h)'
       /\ pc'[p] # "any" => AnyOK(p)'
  <2>1. stack' # stack
    BY <1>1, <1>7, BodyTop
  <2>2. pc'[p] # "on" /\ slips \subseteq slips'
    BY <1>1, <1>4
  <2> QED
    BY <1>1, <1>6, <1>8, <1>10, <1>11, <2>1, <2>2, BodyActs
<1>13. BodyOK(p)'
  <2>1. Asleep(p)'
    BY <1>4, <1>7 DEF Asleep
  <2> QED
    BY <1>2, <1>4, <1>8, <1>10, <2>1, BodyWaits
<1>14. KnownOK(p)'
  <2> SUFFICES ASSUME p \notin slips' PROVE KnownOK(p)'
    BY DEF KnownOK
  <2>1. Known(p) = 0 /\ Kids(p) = {}
    BY <1>1, BodyTop
  <2>2. Kids(p)' = {l}
    BY <1>4, <2>1 DEF Kids
  <2>3. Known(p)' = 0
    BY <1>9, <2>1
  <2> QED
    BY <1>4, <1>7, <2>2, <2>3 DEF KnownOK
<1>15. LeavesSame(Future)
  BY <1>2, <1>5, Kinds
<1>16. FutureCount'
  BY <1>2, <1>4, <1>7, <1>15, CountKept, Kinds
<1>17. HoldsOK'
  BY <1>1, <1>4, <1>9, <1>15, BodyHolds
<1> QED
  BY <1>4, <1>6, <1>8, <1>12, <1>13, <1>14, <1>16, <1>17 DEF AwaitInv

LEMMA AwaitFutureKeeps ==
  ASSUME AwaitInv, NEW p \in Awaiter, AwaitFuture(p)
  PROVE  AwaitInv'
<1>1. /\ Runs(p) /\ left[p] > 0 /\ left' = [left EXCEPT ![p] = @ - 1] /\ FutureLives
      /\ counted' = counted /\ leaf' = leaf /\ rest' = rest /\ slips' = slips /\ call' = call
  BY DEF AwaitFuture, Statement
<1>2. /\ TypeOK /\ FutureCount /\ LeavesOK /\ BodyOK(p) /\ KnownOK(p) /\ HoldsOK
      /\ p \in Waiter /\ p # Future /\ p \notin Leaf /\ Future \notin Leaf
  BY Kinds DEF AwaitInv
<1>3. left' \in [Awaiter -> 0 .. Statements]
  BY <1>1, <1>2, LeftType
<1>4. CASE /\ pc' = [pc EXCEPT ![p] = "on"] /\ stack' = stack
           /\ parent' = parent /\ parent_list' = parent_list /\ holds' = holds
           /\ phase' = phase /\ wait_count' = wait_count
  <2>1. pc'[p] = "on" /\ \A q \in Awaiter : q # p => pc'[q] = pc[q]
    BY <1>2, <1>4 DEF TypeOK
  <2>2. LeavesGoOn /\ \A w : LeavesSame(w)
    BY <1>1, <1>4 DEF LeavesGoOn, LeavesSame
  <2>3. TypeOK'
    BY <1>1, <1>2, <1>3, <1>4 DEF TypeOK
  <2>4. Entries' = Entries /\ \A q : Known(q)' = Known(q)
    BY <1>4, SameKnown DEF Entries
  <2>5. Remaining' <= Remaining /\ Remaining \in Nat /\ Remaining' \in Nat
    <3>1. Entries \in Nat
      BY <1>2 DEF TypeOK, Entries
    <3>2. Entries' <= Entries + 1
      BY <2>4, <3>1
    <3> QED
      BY <1>1, <1>4, <2>2, <2>3, <3>2, StatementPaid
  <2>6. /\ \A q \in Awaiter \ {p} : /\ pc'[q] = pc[q] /\ call'[q] = call[q]
                                    /\ wait_count'[q] = wait_count[q]
                                    /\ LeavesSame(q) /\ Known(q)' = Known(q)
        /\ \A h \in Helper : /\ phase'[h] = phase[h] /\ wait_count'[h] = wait_count[h]
                             /\ rest'[h] = rest[h] /\ parent'[h] = parent[h] /\ LeavesSame(h)
    BY <1>1, <1>4, <2>1, <2>2, <2>4
  <2>7. On(p, stack) /\ On(p, stack') /\ stack' # Below
    BY <1>1, <1>4, BodyTop, BodyStack
  <2>8. /\ StackInv'
        /\ \A q \in Awaiter \ {p} : BodyOK(q)' /\ AnyOK(q)' /\ KnownOK(q)'
        /\ \A h \in Helper : HelperOK(h)' /\ ArmedOK(h)'
        /\ pc'[p] # "any" => AnyOK(p)'
    <3>1. slips \subseteq slips'
      BY <1>1
    <3> QED
      BY <1>1, <1>4, <2>1, <2>2, <2>3, <2>5, <2>6, <2>7, <3>1, BodyActs
  <2>9. Unmoved(p)
    BY <2>7 DEF Unmoved, Asleep
  <2>10. BodyOK(p)' /\ KnownOK(p)'
    BY <1>1, <1>2, <1>4, <2>2, <2>3, <2>4, <2>5, <2>9, BodyKept, KnownKept
  <2>11. FutureCount'
    <3>1. Quiet(stack')
      BY <1>1, <1>4, BodyStack
    <3> QED
      BY <1>2, <1>4, <2>2, <3>1, CountKept
  <2>12. HoldsOK'
    BY <1>1, <1>4, <2>1, <2>2, BodyHolds
  <2>13. LeavesOK'
    BY <1>1, <1>2, <1>4 DEF LeavesOK
  <2> QED
    BY <2>1, <2>3, <2>8, <2>10, <2>11, <2>12, <2>13 DEF AwaitInv
<1>5. CASE /\ wait_count[Future] # 0
           /\ parent_list' = AddParent(parent_list, parent[Future])
           /\ parent' = [parent EXCEPT ![Future] = p]
           /\ phase' = [phase EXCEPT ![Future] = "first"]
           /\ holds' = (IF counted THEN holds \union {p} ELSE holds)
           /\ wait_count' = [wait_count EXCEPT ![p] = 1]
           /\ pc' = [pc EXCEPT ![p] = "future"] /\ stack' = Below
  <2>1. /\ parent'[Future] = p
        /\ \A c \in Leaf \union Waiter : c # Future => parent'[c] = parent[c]
        /\ wait_count'[p] = 1 /\ \A w \in Waiter : w # p => wait_count'[w] = wait_count[w]
        /\ pc'[p] = "future" /\ \A q \in Awaiter : q # p => pc'[q] = pc[q]
        /\ phase'[Future] = "first" /\ \A h \in Helper : phase'[h] = phase[h]
    BY <1>2, <1>5, Kinds DEF TypeOK
  <2>2. LeavesGoOn /\ \A w : LeavesSame(w)
    BY <1>1, <1>2, <2>1 DEF LeavesGoOn, LeavesSame
  <2>3. /\ stack' \in Seq(Frames) /\ Quiet(stack') /\ ~On(p, stack')
        /\ NoRefs(stack) => NoRefs(stack')
        /\ counted => AllHeld(stack')
    BY <1>1, <1>5, BodyStack
  <2>4. PICK r : r = parent[Future]
    OBVIOUS
  <2>5. r \in Awaiter \union {NoCort} /\ parent_list \in Seq(Awaiter)
    BY <1>2, <2>4, Kinds DEF TypeOK
  <2>6. parent_list' = IF r = NoCort THEN parent_list ELSE Append(parent_list, r)
    BY <1>5, <2>4 DEF AddParent
  <2>7. /\ parent_list' \in Seq(Awaiter) /\ Len(parent_list) \in Nat
        /\ Len(parent_list') = Len(parent_list) + IF r = NoCort THEN 0 ELSE 1
    BY <2>5, <2>6
  <2>8. TypeOK'
    <3>1. \A w \in Waiter : parent'[w] \in Awaiter \union {NoCort}
      BY <1>2, <2>1 DEF TypeOK
    <3>a. 1 \in 0 .. SizeMod - 1
      BY Numbers
    <3>b. p \in Awaiter /\ Awaiter \subseteq Waiter
      BY Kinds
    <3>c. holds' \subseteq Awaiter
      BY <1>2, <1>5, <3>b DEF TypeOK
    <3>d. parent' \in [Leaf \union Waiter -> Waiter \union {NoCort}]
      BY <1>2, <1>5, <3>b DEF TypeOK
    <3>e. wait_count' \in [Waiter -> 0 .. SizeMod - 1]
      BY <1>2, <1>5, <3>a, <3>b DEF TypeOK
    <3>f. /\ pc' \in [Awaiter -> {"new", "any", "future", "leaf", "on", "done"}]
          /\ phase' \in [Helper \union {Future} -> {"none", "first", "rest", "deleted"}]
      BY <1>2, <1>5 DEF TypeOK
    <3>2. /\ parent' \in [Leaf \union Waiter -> Waiter \union {NoCort}]
          /\ wait_count' \in [Waiter -> 0 .. SizeMod - 1]
          /\ pc' \in [Awaiter -> {"new", "any", "future", "leaf", "on", "done"}]
          /\ phase' \in [Helper \union {Future} -> {"none", "first", "rest", "deleted"}]
          /\ holds' \subseteq Awaiter
      BY <3>c, <3>d, <3>e, <3>f
    <3> QED
      BY <1>1, <1>2, <1>3, <2>3, <2>7, <3>1, <3>2 DEF TypeOK
  <2>9. Entries' <= Entries + 1 /\ Entries \in Nat
    <3>1. p # NoCort
      BY <1>2, Kinds
    <3>2. Entries' = Len(parent_list') + 1
      BY <2>1, <3>1 DEF Entries
    <3>3. Entries = Len(parent_list) + IF r = NoCort THEN 0 ELSE 1
      BY <2>4 DEF Entries
    <3> QED
      BY <2>7, <3>2, <3>3
  <2>10. Remaining' <= Remaining /\ Remaining \in Nat /\ Remaining' \in Nat
    BY <1>1, <1>5, <2>2, <2>8, <2>9, StatementPaid
  <2>11. \A q \in Awaiter : Known(q)' = Known(q) + IF q = p THEN 1 ELSE 0
    <3>1. ASSUME NEW q \in Awaiter
          PROVE  Known(q)' = Known(q) + IF q = p THEN 1 ELSE 0
      <4>1. /\ Times(parent_list, q) \in Nat
            /\ Known(q) = Times(parent_list, q) + IF r = q THEN 1 ELSE 0
            /\ Known(q)' = Times(parent_list', q) + IF p = q THEN 1 ELSE 0
        BY <1>2, <2>1, <2>4, KnownIs
      <4>2. Times(parent_list', q) = Times(parent_list, q) + IF r = q THEN 1 ELSE 0
        <5>1. CASE r = NoCort
          BY <2>6, <4>1, <5>1, Kinds
        <5>2. CASE r # NoCort
          BY <2>5, <2>6, <5>2, TimesAppended
        <5> QED
          BY <5>1, <5>2
      <4> QED
        BY <4>1, <4>2
    <3> QED
      BY <3>1
  <2>12. ASSUME NEW q \in Awaiter, q # p PROVE Known(q)' = Known(q)
    <3>1. Known(q) \in Nat
      BY <1>2, KnownIs
    <3> QED
      BY <2>11, <2>12, <3>1
  <2>13. /\ \A q \in Awaiter \ {p} : /\ pc'[q] = pc[q] /\ call'[q] = call[q]
                                     /\ wait_count'[q] = wait_count[q]
                                     /\ LeavesSame(q) /\ Known(q)' = Known(q)
         /\ \A h \in Helper : /\ phase'[h] = phase[h] /\ wait_count'[h] = wait_count[h]
                              /\ rest'[h] = rest[h] /\ parent'[h] = parent[h] /\ LeavesSame(h)
    BY <1>1, <2>1, <2>2, <2>12, Kinds
  <2>14. /\ StackInv'
         /\ \A q \in Awaiter \ {p} : BodyOK(q)' /\ AnyOK(q)' /\ KnownOK(q)'
         /\ \A h \in Helper : HelperOK(h)' /\ ArmedOK(h)'
         /\ pc'[p] # "any" => AnyOK(p)'
    <3>1. stack' # stack
      BY <1>1, <2>3, BodyTop
    <3>2. pc'[p] # "on" /\ slips \subseteq slips'
      BY <1>1, <2>1
    <3> QED
      BY <1>1, <1>5, <2>2, <2>8, <2>10, <2>13, <3>1, <3>2, BodyActs
  <2>15. BodyOK(p)'
    <3>1. Asleep(p)'
      BY <2>1, <2>3 DEF Asleep
    <3> QED
      BY <1>2, <2>1, <2>8, <2>10, <3>1, BodyWaits
  <2>16. KnownOK(p)'
    <3> SUFFICES ASSUME p \notin slips' PROVE KnownOK(p)'
      BY DEF KnownOK
    <3>1. Known(p) = 0 /\ Kids(p) = {}
      BY <1>1, BodyTop
    <3>2. Kids(p)' = {} /\ Known(p)' = 1
      BY <2>2, <2>11, <3>1, SameLeaves
    <3> QED
      BY <2>1, <2>3, <3>2 DEF KnownOK
  <2>17. FutureCount'
    BY <1>2, <2>1, <2>2, <2>3, CountKept, Kinds
  <2>18. LeavesOK'
    BY <1>1, <1>2, <2>1 DEF LeavesOK
  <2>19. HoldsOK'
    <3>1. FutureLives'
      BY <2>1 DEF FutureLives
    <3>2. counted => RunsHeld(stack', holds')
      BY <2>3, AllRunsHeld
    <3>3. ~counted => holds' = {} /\ NoRefs(stack')
      BY <1>2, <1>5, <2>3 DEF HoldsOK, NoRefs
    <3>4. ASSUME counted, NEW q \in Awaiter \ holds'
          PROVE  pc'[q] # "future" /\ (q \in Listed' => pc'[q] = "done")
      <4>1. q # p /\ q \notin holds
        BY <1>5, <3>4
      <4>2. pc[q] # "future" /\ (q \in Listed => pc[q] = "done") /\ pc'[q] = pc[q]
        BY <1>2, <2>1, <3>4, <4>1 DEF HoldsOK
      <4>3. q \in Listed' => q \in Listed
        <5>1. ToSet(parent_list') \subseteq ToSet(parent_list) \union ({r} \ {NoCort})
          <6>1. CASE r = NoCort
            BY <2>6, <6>1
          <6>2. CASE r # NoCort
            <7>1. /\ Len(parent_list') = Len(parent_list) + 1
                  /\ \A i \in 1 .. Len(parent_list) : parent_list'[i] = parent_list[i]
                  /\ parent_list'[Len(parent_list) + 1] = r
              BY <2>5, <2>6, <6>2, Pushed
            <7>2. \A i \in 1 .. Len(parent_list') : i \in 1 .. Len(parent_list)
                                                    \/ i = Len(parent_list) + 1
              BY <2>7, <7>1
            <7>3. /\ ToSet(parent_list') = {parent_list'[i] : i \in 1 .. Len(parent_list')}
                  /\ ToSet(parent_list) = {parent_list[i] : i \in 1 .. Len(parent_list)}
              BY <2>5, <2>7 DEF ToSet
            <7> QED
              BY <6>2, <7>1, <7>2, <7>3
          <6> QED
            BY <6>1, <6>2
        <5> QED
          BY <2>1, <2>4, <4>1, <5>1 DEF Listed
      <4> QED
        BY <4>2, <4>3
    <3> QED
      BY <1>1, <3>1, <3>2, <3>3, <3>4 DEF HoldsOK, NoRefs
  <2> QED
    BY <2>1, <2>8, <2>14, <2>15, <2>16, <2>17, <2>18, <2>19 DEF AwaitInv
<1> QED
  BY <1>4, <1>5 DEF AwaitFuture

LEMMA FinishHolds ==
  ASSUME AwaitInv, NEW p \in Awaiter, Runs(p), p \in holds,
         wait_count[Future] # 0 => Cardinality(holds) > 1,
         holds' = holds \ {p},
         phase' = (IF RefCount(holds, stack) = 1
                     THEN [phase EXCEPT ![Future] = "deleted"] ELSE phase),
         pc' = [pc EXCEPT ![p] = "done"], stack' = Below, counted' = counted,
         leaf' = leaf, parent' = parent, parent_list' = parent_list, slips' = slips
  PROVE  HoldsOK'
<1>1. TypeOK /\ HoldsOK /\ FutureCount
  BY DEF AwaitInv
<1>2. counted /\ FutureLives
  BY <1>1 DEF HoldsOK
<1>3. AllHeld(stack') /\ (NoRefs(stack) => NoRefs(stack'))
  BY <1>2, BodyStack
<1>4. Kids(Future)' = Kids(Future) /\ Listed' = Listed
  BY DEF Kids, Listed
<1>5. RunsHeld(stack', holds')
  BY <1>3, AllRunsHeld
<1>6. ASSUME NEW q \in Awaiter \ holds'
      PROVE  pc'[q] # "future" /\ (q \in Listed' => pc'[q] = "done")
  <2>1. CASE q = p
    BY <1>1, <2>1 DEF TypeOK
  <2>2. CASE q # p
    BY <1>1, <1>2, <1>4, <1>6, <2>2 DEF TypeOK, HoldsOK
  <2> QED
    BY <2>1, <2>2
<1>7. ASSUME ~FutureLives'
      PROVE  holds' = {} /\ Kids(Future)' = {} /\ ~On(Future, stack')
  <2>1. RefCount(holds, stack) = 1
    BY <1>2, <1>7 DEF FutureLives
  <2>2. holds = {p} /\ NoRefs(stack)
    <3>1. stack \in Seq(Frames) /\ holds \in SUBSET Awaiter
      BY <1>1 DEF TypeOK
    <3> QED
      BY <2>1, <3>1, OneRef
  <2>3. wait_count[Future] = 0
    <3>1. Cardinality(holds) = 1
      BY <2>2, FS_Singleton
    <3> QED
      BY <3>1
  <2>4. Kids(Future) = {}
    BY <1>1, <2>3, FewLeaves DEF FutureCount
  <2>5. ~On(Future, stack')
    <3>1. stack \in Seq(Frames) /\ StackOK(stack) /\ stack # << >>
      BY BodyTop
    <3>2. stack' = Front(stack)
      BY DEF Below
    <3>3. NoRefs(stack') /\ AllHeld(stack')
      BY <1>3, <2>2
    <3> QED
      BY <3>1, <3>2, <3>3, NoRunBelow
  <2> QED
    BY <1>4, <2>2, <2>4, <2>5
<1> QED
  BY <1>2, <1>5, <1>6, <1>7 DEF HoldsOK

LEMMA FinishKeeps ==
  ASSUME AwaitInv, NEW p \in Awaiter, Finish(p)
  PROVE  AwaitInv'
<1>1. /\ Runs(p) /\ pc' = [pc EXCEPT ![p] = "done"] /\ stack' = Below
      /\ counted' = counted /\ leaf' = leaf /\ parent' = parent /\ wait_count' = wait_count
      /\ rest' = rest /\ slips' = slips /\ call' = call /\ parent_list' = parent_list
      /\ left' = left
  BY DEF Finish
<1>2. /\ TypeOK /\ FutureCount /\ LeavesOK /\ BodyOK(p) /\ KnownOK(p)
      /\ p \in Waiter /\ p # Future
  BY Kinds DEF AwaitInv
<1>3. /\ pc'[p] = "done" /\ \A q \in Awaiter : q # p => pc'[q] = pc[q]
      /\ LeavesGoOn /\ \A w : LeavesSame(w)
  BY <1>1, <1>2 DEF TypeOK, LeavesGoOn, LeavesSame
<1>4. /\ \A h \in Helper : phase'[h] = phase[h]
      /\ phase' \in [Helper \union {Future} -> {"none", "first", "rest", "deleted"}]
      /\ holds' \subseteq Awaiter
  <2>1. phase' = phase \/ phase' = [phase EXCEPT ![Future] = "deleted"]
    BY DEF Finish
  <2>2. holds' \subseteq holds
    BY DEF Finish
  <2> QED
    BY <1>2, <2>1, <2>2, Kinds DEF TypeOK
<1>5. /\ stack' \in Seq(Frames) /\ Quiet(stack') /\ ~On(p, stack') /\ On(p, stack)
      /\ stack # << >>
  BY <1>1, BodyStack, BodyTop
<1>6. TypeOK'
  BY <1>1, <1>2, <1>4, <1>5 DEF TypeOK
<1>7. Entries' = Entries /\ \A q : Known(q)' = Known(q)
  BY <1>1, SameKnown DEF Entries
<1>8. Remaining' <= Remaining /\ Remaining \in Nat /\ Remaining' \in Nat
  BY <1>1, <1>3, <1>6, <1>7, StatementPaid
<1>9. /\ \A q \in Awaiter \ {p} : /\ pc'[q] = pc[q] /\ call'[q] = call[q]
                                  /\ wait_count'[q] = wait_count[q]
                                  /\ LeavesSame(q) /\ Known(q)' = Known(q)
      /\ \A h \in Helper : /\ phase'[h] = phase[h] /\ wait_count'[h] = wait_count[h]
                           /\ rest'[h] = rest[h] /\ parent'[h] = parent[h] /\ LeavesSame(h)
  BY <1>1, <1>3, <1>4, <1>7
<1>10. /\ StackInv'
       /\ \A q \in Awaiter \ {p} : BodyOK(q)' /\ AnyOK(q)' /\ KnownOK(q)'
       /\ \A h \in Helper : HelperOK(h)' /\ ArmedOK(h)'
       /\ pc'[p] # "any" => AnyOK(p)'
  <2>1. stack' # stack /\ pc'[p] # "on" /\ slips \subseteq slips'
    BY <1>1, <1>3, <1>5
  <2> QED
    BY <1>1, <1>3, <1>6, <1>8, <1>9, <2>1, BodyActs
<1>11. Unmoved(p)
  BY <1>3, <1>5 DEF Unmoved, Asleep
<1>12. BodyOK(p)' /\ KnownOK(p)'
  BY <1>1, <1>2, <1>3, <1>6, <1>7, <1>8, <1>11, BodyKept, KnownKept
<1>13. FutureCount'
  BY <1>1, <1>2, <1>3, <1>5, CountKept
<1>14. LeavesOK'
  BY <1>1, <1>2 DEF LeavesOK
<1>15. HoldsOK'
  <2>1. CASE /\ p \in holds
             /\ wait_count[Future] # 0 => Cardinality(holds) > 1
             /\ holds' = holds \ {p}
             /\ phase' = IF RefCount(holds, stack) = 1
                           THEN [phase EXCEPT ![Future] = "deleted"] ELSE phase
    BY <1>1, <2>1, FinishHolds
  <2>2. CASE holds' = holds /\ phase' = phase
    BY <1>1, <1>3, <2>2, BodyHolds
  <2> QED
    BY <2>1, <2>2 DEF Finish
<1> QED
  BY <1>3, <1>6, <1>10, <1>12, <1>13, <1>14, <1>15 DEF AwaitInv

------------------------------------------------------------------------------
(* Statements of the any kind.                                             *)

(* The leaves of W are waiting for h now, some that were idle are done.    *)
AnyLeaves(W, h) ==
  /\ \A l \in W : leaf'[l] = "waiting" /\ leaf[l] # "done" /\ parent[l] = NoCort
  /\ \A l \in Leaf \ W : leaf'[l] = leaf[l] \/ (leaf[l] = "idle" /\ leaf'[l] = "done")
  /\ \A l \in Leaf : parent'[l] = IF l \in W THEN h ELSE parent[l]

LEMMA AnyStarts ==
  ASSUME TypeOK, LeavesOK, slips' = slips, NEW W \in SUBSET Leaf, NEW h, AnyLeaves(W, h)
  PROVE  /\ LeavesGoOn /\ LeavesOK'
         /\ \A w : w # NoCort /\ (w # h \/ W = {}) => LeavesSame(w)
<1>1. LeavesGoOn
  BY DEF LeavesGoOn, AnyLeaves
<1>2. LeavesOK'
  <2>1. ASSUME NEW l \in Leaf, leaf'[l] = "idle" PROVE parent'[l] = NoCort
    BY <2>1 DEF LeavesOK, AnyLeaves
  <2>2. ASSUME NEW l \in Leaf \cap slips' PROVE leaf'[l] = "done"
    BY <1>1, <2>2 DEF LeavesOK, LeavesGoOn
  <2> QED
    BY <2>1, <2>2 DEF LeavesOK
<1>3. ASSUME NEW w, w # NoCort, w # h \/ W = {} PROVE LeavesSame(w)
  <2>1. ASSUME NEW l \in Leaf
        PROVE  /\ parent'[l] = w <=> parent[l] = w
               /\ parent[l] = w => leaf'[l] = leaf[l]
    <3>1. CASE l \in W
      BY <1>3, <2>1, <3>1 DEF AnyLeaves
    <3>2. CASE l \notin W
      BY <1>3, <2>1, <3>2 DEF AnyLeaves, LeavesOK
    <3> QED
      BY <3>1, <3>2
  <2> QED
    BY <2>1 DEF LeavesSame
<1> QED
  BY <1>1, <1>2, <1>3

LEMMA AnyActs ==
  ASSUME AwaitInv, TypeOK', NEW p \in Awaiter, Statement(p), LeavesGoOn,
         slips' = slips, counted' = counted, parent_list' = parent_list, holds' = holds,
         parent'[Future] = parent[Future], phase'[Future] = phase[Future],
         \A w \in Awaiter \union {Future} : wait_count'[w] = wait_count[w] /\ LeavesSame(w),
         \A q \in Awaiter \ {p} : pc'[q] = pc[q] /\ call'[q] = call[q],
         \/ stack' = stack /\ pc'[p] = "on"
         \/ stack' = Below /\ pc'[p] = "any",
         NEW S \in SUBSET Helper, \A h \in Helper \ S : phase[h] = "none",
         \A h \in S : /\ phase'[h] = phase[h] /\ wait_count'[h] = wait_count[h]
                      /\ rest'[h] = rest[h] /\ parent'[h] = parent[h] /\ LeavesSame(h)
  PROVE  /\ StackInv' /\ FutureCount' /\ HoldsOK'
         /\ \A q \in Awaiter : BodyOK(q)' /\ KnownOK(q)'
         /\ \A q \in Awaiter : q # p \/ pc'[q] # "any" => AnyOK(q)'
         /\ \A h \in S : HelperOK(h)' /\ ArmedOK(h)'
<1>1. /\ TypeOK /\ FutureCount /\ BodyOK(p) /\ KnownOK(p)
      /\ Runs(p) /\ left[p] > 0 /\ left' = [left EXCEPT ![p] = @ - 1]
  BY DEF AwaitInv, Statement
<1>2. Entries' = Entries /\ \A q : Known(q)' = Known(q)
  BY SameKnown DEF Entries
<1>3. Remaining' <= Remaining /\ Remaining \in Nat /\ Remaining' \in Nat
  <2>1. Entries \in Nat
    BY <1>1 DEF TypeOK, Entries
  <2>2. Entries' <= Entries + 1
    BY <1>2, <2>1
  <2> QED
    BY <1>1, <2>2, StatementPaid
<1>4. /\ stack' \in Seq(Frames) /\ Quiet(stack')
      /\ stack' = stack => On(p, stack')
      /\ stack' = Below => ~On(p, stack')
      /\ On(p, stack)
  BY <1>1, BodyStack, BodyTop
<1>5. Unmoved(p)
  BY <1>4 DEF Unmoved, Asleep
<1>6. \A q \in Awaiter \ {p} : /\ pc'[q] = pc[q] /\ call'[q] = call[q]
                               /\ wait_count'[q] = wait_count[q]
                               /\ LeavesSame(q) /\ Known(q)' = Known(q)
  BY <1>2
<1>7. /\ StackInv'
      /\ \A q \in Awaiter \ {p} : BodyOK(q)' /\ AnyOK(q)' /\ KnownOK(q)'
      /\ \A h \in S : HelperOK(h)' /\ ArmedOK(h)'
      /\ pc'[p] # "any" => AnyOK(p)'
  <2>1. stack' = stack => pc'[p] = "on"
    BY <1>4
  <2>2. stack' = Below => pc'[p] # "on"
    BY <1>4
  <2>3. (stack' = stack \/ stack' = Below) /\ slips \subseteq slips'
    OBVIOUS
  <2> QED
    BY <1>1, <1>3, <1>6, <2>1, <2>2, <2>3, BodyActs
<1>8. BodyOK(p)' /\ KnownOK(p)'
  <2>1. wait_count'[p] = wait_count[p] /\ LeavesSame(p) /\ slips \subseteq slips'
    OBVIOUS
  <2> QED
    BY <1>1, <1>2, <1>3, <1>5, <2>1, BodyKept, KnownKept
<1>9. FutureCount'
  BY <1>1, <1>4, CountKept
<1>10. HoldsOK'
  <2>1. pc'[p] # "future" /\ LeavesSame(Future) /\ (stack' = stack \/ stack' = Below)
    OBVIOUS
  <2> QED
    BY <1>1, <1>6, <2>1, BodyHolds
<1> QED
  BY <1>7, <1>8, <1>9, <1>10

(* Enough have finished and none waits: the body goes on.                  *)
LEMMA AnyGoesOn ==
  ASSUME AwaitInv, NEW p \in Awaiter, Statement(p),
         leaf' \in [Leaf -> {"idle", "waiting", "done"}], AnyLeaves({}, Future),
         parent' = parent, wait_count' = wait_count, rest' = rest, phase' = phase,
         slips' = slips, counted' = counted, parent_list' = parent_list, holds' = holds,
         pc' = [pc EXCEPT ![p] = "on"], call' = call, stack' = stack
  PROVE  AwaitInv'
<1>1. TypeOK /\ LeavesOK
  BY DEF AwaitInv
<1>2. LeavesGoOn /\ LeavesOK' /\ \A w : w # NoCort => LeavesSame(w)
  BY <1>1, AnyStarts
<1>3. left' \in [Awaiter -> 0 .. Statements]
  BY <1>1, LeftType DEF Statement
<1>4. TypeOK'
  BY <1>1, <1>3 DEF TypeOK
<1>5. pc'[p] = "on" /\ \A q \in Awaiter \ {p} : pc'[q] = pc[q] /\ call'[q] = call[q]
  BY <1>1 DEF TypeOK
<1>6. \A w \in Awaiter \union {Future} : wait_count'[w] = wait_count[w] /\ LeavesSame(w)
  BY <1>2, Kinds
<1>7. \A h \in Helper : /\ phase'[h] = phase[h] /\ wait_count'[h] = wait_count[h]
                        /\ rest'[h] = rest[h] /\ parent'[h] = parent[h] /\ LeavesSame(h)
  BY <1>2, Kinds
<1>8. parent'[Future] = parent[Future] /\ phase'[Future] = phase[Future]
  OBVIOUS
<1>9. /\ StackInv' /\ FutureCount' /\ HoldsOK'
      /\ \A q \in Awaiter : BodyOK(q)' /\ KnownOK(q)'
      /\ \A q \in Awaiter : q # p \/ pc'[q] # "any" => AnyOK(q)'
      /\ \A h \in Helper : HelperOK(h)' /\ ArmedOK(h)'
  BY <1>2, <1>4, <1>5, <1>6, <1>7, <1>8, AnyActs
<1>10. \A q \in Awaiter : AnyOK(q)'
  BY <1>5, <1>9
<1> QED
  BY <1>2, <1>4, <1>9, <1>10 DEF AwaitInv

(* A new helper, in front of the leaves of W.                              *)
Made(h, W, first, q) ==
  /\ phase[h] = "none" /\ phase'[h] = "first"
  /\ ~On(h, stack) /\ \A l \in Leaf : parent[l] # h
  /\ wait_count'[h] = first /\ rest'[h] = Cardinality(W) - first
  /\ parent'[h] = q /\ \A l \in Leaf : parent'[l] = IF l \in W THEN h ELSE parent[l]
  /\ \A w \in Waiter : w # h => /\ parent'[w] = parent[w]
                                /\ wait_count'[w] = wait_count[w]
  /\ \A g \in Helper \union {Future} : g # h => phase'[g] = phase[g]
  /\ \A g \in Helper : g # h => rest'[g] = rest[g]
  /\ parent' \in [Leaf \union Waiter -> Waiter \union {NoCort}]
  /\ \A w \in Waiter : parent'[w] \in Awaiter \union {NoCort}
  /\ wait_count' \in [Waiter -> 0 .. SizeMod - 1]
  /\ rest' \in [Helper -> 0 .. SizeMod - 1]
  /\ phase' \in [Helper \union {Future} -> {"none", "first", "rest", "deleted"}]
  /\ Cardinality(W) \in Nat /\ (W # {} => Cardinality(W) > 0)

LEMMA HelperMade ==
  ASSUME TypeOK, NEW h \in Helper, HelperOK(h), NEW W \in SUBSET Leaf,
         NEW first \in Nat, first <= Cardinality(W), NEW q \in Awaiter \union {NoCort},
         NewHelper(h, W, first, Cardinality(W), q)
  PROVE  Made(h, W, first, q)
<1>1. h \in Waiter /\ h \notin Leaf /\ h # Future /\ Awaiter \subseteq Waiter
      /\ Leaf \cap Waiter = {}
  BY Kinds
<1>2. /\ phase[h] = "none" /\ phase' = [phase EXCEPT ![h] = "first"]
      /\ wait_count' = [wait_count EXCEPT ![h] = first]
      /\ rest' = [rest EXCEPT ![h] = (Cardinality(W) - first) % SizeMod]
      /\ parent' = [c \in DOMAIN parent |-> IF c = h THEN q
                                            ELSE IF c \in W THEN h ELSE parent[c]]
  BY DEF NewHelper, Rest
<1>3. /\ Cardinality(W) \in Nat /\ Cardinality(W) + 1 < SizeMod /\ SizeMod \in Nat
      /\ (W # {} => Cardinality(W) > 0)
  <2>1. Cardinality(W) \in Nat /\ Cardinality(W) <= Cardinality(Leaf)
        /\ (Cardinality(W) = 0 <=> W = {})
    BY SomeLeaves
  <2> QED
    BY <2>1, Numbers
<1>4. first \in 0 .. SizeMod - 1
  BY <1>3
<1>5. PICK n : n = Cardinality(W) - first
  OBVIOUS
<1>6. n \in 0 .. SizeMod - 1 /\ n % SizeMod = n
  BY <1>3, <1>5
<1>7. rest' = [rest EXCEPT ![h] = n]
  BY <1>2, <1>5, <1>6
<1>8. /\ rest'[h] = n /\ rest' \in [Helper -> 0 .. SizeMod - 1]
      /\ \A g \in Helper : g # h => rest'[g] = rest[g]
  BY <1>6, <1>7 DEF TypeOK
<1>9. /\ wait_count'[h] = first /\ wait_count' \in [Waiter -> 0 .. SizeMod - 1]
      /\ \A w \in Waiter : w # h => wait_count'[w] = wait_count[w]
  BY <1>1, <1>2, <1>4 DEF TypeOK
<1>10. /\ phase'[h] = "first"
       /\ \A g \in Helper \union {Future} : g # h => phase'[g] = phase[g]
       /\ phase' \in [Helper \union {Future} -> {"none", "first", "rest", "deleted"}]
  BY <1>2 DEF TypeOK
<1>11. parent' = [c \in Leaf \union Waiter |-> IF c = h THEN q
                                               ELSE IF c \in W THEN h ELSE parent[c]]
  BY <1>2 DEF TypeOK
<1>12. /\ parent'[h] = q /\ \A l \in Leaf : parent'[l] = IF l \in W THEN h ELSE parent[l]
       /\ \A w \in Waiter : w # h => parent'[w] = parent[w]
  BY <1>1, <1>11
<1>13. parent' \in [Leaf \union Waiter -> Waiter \union {NoCort}]
  BY <1>1, <1>11 DEF TypeOK
<1>14. \A w \in Waiter : parent'[w] \in Awaiter \union {NoCort}
  BY <1>12 DEF TypeOK
<1>15. ~On(h, stack) /\ \A l \in Leaf : parent[l] # h
  BY <1>2 DEF HelperOK
<1> QED
  BY <1>2, <1>3, <1>5, <1>8, <1>9, <1>10, <1>12, <1>13, <1>14, <1>15 DEF Made

(* A helper is made: for the body, or with nobody to resume.               *)
LEMMA AnyWaits ==
  ASSUME AwaitInv, NEW p \in Awaiter, Statement(p), NEW W \in SUBSET Leaf, W # {},
         NEW h \in Helper, NEW first \in Nat, first > 0, first <= Cardinality(W),
         NEW q, NewHelper(h, W, first, Cardinality(W), q),
         leaf' \in [Leaf -> {"idle", "waiting", "done"}],
         \A l \in W : leaf'[l] = "waiting" /\ leaf[l] # "done" /\ parent[l] = NoCort,
         \A l \in Leaf \ W : leaf'[l] = leaf[l] \/ (leaf[l] = "idle" /\ leaf'[l] = "done"),
         slips' = slips, counted' = counted, parent_list' = parent_list, holds' = holds,
         \/ /\ q = NoCort /\ first = Cardinality(W)
            /\ pc' = [pc EXCEPT ![p] = "on"] /\ call' = call /\ stack' = stack
         \/ /\ q = p
            /\ pc' = [pc EXCEPT ![p] = "any"] /\ stack' = Below
            /\ call' = [call EXCEPT ![p] = [args |-> W, need |-> first]]
  PROVE  AwaitInv'
<1>1. TypeOK /\ LeavesOK /\ HelperOK(h) /\ StackOK(stack)
  BY DEF AwaitInv, StackInv
<1>2. q \in Awaiter \union {NoCort}
  OBVIOUS
<1>3. /\ NewHelper(h, W, first, Cardinality(W), q)
      /\ W \in SUBSET Leaf /\ h \in Helper /\ first \in Nat /\ first <= Cardinality(W)
  OBVIOUS
<1>4. Made(h, W, first, q)
  BY ONLY <1>1, <1>2, <1>3, HelperMade
<1>5. /\ phase[h] = "none" /\ phase'[h] = "first"
      /\ ~On(h, stack) /\ \A l \in Leaf : parent[l] # h
      /\ wait_count'[h] = first /\ rest'[h] = Cardinality(W) - first
      /\ parent'[h] = q /\ \A l \in Leaf : parent'[l] = IF l \in W THEN h ELSE parent[l]
      /\ \A w \in Waiter : w # h => /\ parent'[w] = parent[w]
                                    /\ wait_count'[w] = wait_count[w]
      /\ \A g \in Helper \union {Future} : g # h => phase'[g] = phase[g]
      /\ \A g \in Helper : g # h => rest'[g] = rest[g]
      /\ parent' \in [Leaf \union Waiter -> Waiter \union {NoCort}]
      /\ \A w \in Waiter : parent'[w] \in Awaiter \union {NoCort}
      /\ wait_count' \in [Waiter -> 0 .. SizeMod - 1]
      /\ rest' \in [Helper -> 0 .. SizeMod - 1]
      /\ phase' \in [Helper \union {Future} -> {"none", "first", "rest", "deleted"}]
      /\ Cardinality(W) \in Nat
  BY <1>4 DEF Made
<1>6. AnyLeaves(W, h)
  BY <1>5 DEF AnyLeaves
<1>7. LeavesGoOn /\ LeavesOK' /\ \A w : w # NoCort /\ w # h => LeavesSame(w)
  BY <1>1, <1>6, AnyStarts
<1>8. h \in Waiter /\ h # NoCort /\ h # Future /\ h \notin Awaiter /\ NoCort \notin Awaiter
      /\ Future \in Waiter /\ NoCort # Future /\ Awaiter \subseteq Waiter
      /\ Helper \subseteq Waiter /\ NoCort \notin Helper /\ p # Future
  BY Kinds
<1>9. Runs(p) /\ stack # << >> /\ left' \in [Awaiter -> 0 .. Statements]
  BY <1>1, LeftType DEF Statement, Runs
<1>10. /\ stack' \in Seq(Frames) /\ StackOK(stack')
       /\ On(h, stack') <=> On(h, stack)
       /\ stack' = Below => ~On(p, stack')
  <2>1. AwaitInv /\ p \in Awaiter /\ (stack' = stack \/ stack' = Below)
    OBVIOUS
  <2>2. /\ stack' \in Seq(Frames) /\ StackOK(stack')
        /\ \A w \in Waiter : w # Future /\ w # p => (On(w, stack') <=> On(w, stack))
        /\ stack' = Below => ~On(p, stack')
    BY ONLY <1>9, <2>1, BodyStack
  <2> QED
    BY <1>8, <2>2
<1>11. ~On(h, stack') /\ ~Resuming(h, stack')
  BY <1>5, <1>10, HelpersResume
<1>12. TypeOK'
  <2>1. pc' \in [Awaiter -> {"new", "any", "future", "leaf", "on", "done"}]
    <3>1. pc' = [pc EXCEPT ![p] = "on"] \/ pc' = [pc EXCEPT ![p] = "any"]
      OBVIOUS
    <3> QED
      BY <1>1, <3>1 DEF TypeOK
  <2>2. call' \in [Awaiter -> [args : SUBSET Leaf, need : Nat]]
    <3>1. PICK c \in [args : SUBSET Leaf, need : Nat] : c = [args |-> W, need |-> first]
      OBVIOUS
    <3>2. call' = call \/ call' = [call EXCEPT ![p] = c]
      BY <3>1
    <3>3. call \in [Awaiter -> [args : SUBSET Leaf, need : Nat]]
      BY <1>1 DEF TypeOK
    <3> QED
      BY ONLY <3>2, <3>3
  <2>3. left' \in [Awaiter -> 0 .. Statements] /\ stack' \in Seq(Frames)
    BY <1>9, <1>10
  <2>4. /\ counted' \in BOOLEAN /\ parent_list' \in Seq(Awaiter)
        /\ holds' \subseteq Awaiter /\ slips' \subseteq Leaf \union Awaiter
    BY <1>1 DEF TypeOK
  <2> QED
    BY <1>5, <2>1, <2>2, <2>3, <2>4 DEF TypeOK
<1>13. \A r \in Awaiter \ {p} : pc'[r] = pc[r] /\ call'[r] = call[r]
  BY <1>1 DEF TypeOK
<1>14. \/ stack' = stack /\ pc'[p] = "on"
       \/ stack' = Below /\ pc'[p] = "any"
  BY <1>1 DEF TypeOK
<1>15. \A w \in Awaiter \union {Future} : wait_count'[w] = wait_count[w] /\ LeavesSame(w)
  BY <1>5, <1>7, <1>8
<1>16. \A g \in Helper \ {h} : /\ phase'[g] = phase[g] /\ wait_count'[g] = wait_count[g]
                               /\ rest'[g] = rest[g] /\ parent'[g] = parent[g] /\ LeavesSame(g)
  BY <1>5, <1>7, <1>8
<1>17. /\ StackInv' /\ FutureCount' /\ HoldsOK'
       /\ \A r \in Awaiter : BodyOK(r)' /\ KnownOK(r)'
       /\ \A r \in Awaiter : r # p \/ pc'[r] # "any" => AnyOK(r)'
       /\ \A g \in Helper \ {h} : HelperOK(g)' /\ ArmedOK(g)'
  <2>1. parent'[Future] = parent[Future] /\ phase'[Future] = phase[Future]
    BY <1>5, <1>8
  <2>2. \A g \in Helper \ (Helper \ {h}) : phase[g] = "none"
    BY <1>5
  <2>3. Helper \ {h} \in SUBSET Helper
    OBVIOUS
  <2> QED
    BY <1>7, <1>12, <1>13, <1>14, <1>15, <1>16, <2>1, <2>2, <2>3, AnyActs
<1>18. {l \in Leaf : parent'[l] = h} = W
  BY <1>5
<1>19. Kids(h)' = W
  BY <1>18 DEF Kids
<1>20. Slipped(h)' = {}
  <2>1. \A l \in W : l \notin slips'
    BY <1>1 DEF LeavesOK
  <2> QED
    BY <1>18, <2>1 DEF Slipped
<1>21. HelperOK(h)'
  <2>1. wait_count'[h] + rest'[h] = Cardinality(W) /\ wait_count'[h] # 0
    BY <1>5
  <2>2. parent'[h] = NoCort => rest'[h] = 0
    BY <1>5, <1>8
  <2> QED
    BY <1>5, <1>11, <1>19, <1>20, <2>1, <2>2 DEF HelperOK
<1>22. q = p => /\ pc'[p] = "any" /\ call'[p].args = W /\ call'[p].need = first
                /\ ~On(p, stack')
  <2> SUFFICES ASSUME q = p
               PROVE  /\ pc'[p] = "any" /\ ~On(p, stack')
                      /\ call'[p].args = W /\ call'[p].need = first
    OBVIOUS
  <2>1. /\ pc' = [pc EXCEPT ![p] = "any"] /\ stack' = Below
        /\ call' = [call EXCEPT ![p] = [args |-> W, need |-> first]]
    BY <1>8
  <2>2. pc'[p] = "any" /\ call'[p] = [args |-> W, need |-> first]
    BY ONLY <1>1, <1>8, <2>1 DEF TypeOK
  <2> QED
    BY <1>10, <2>1, <2>2
<1>23. ArmedOK(h)'
  <2> SUFFICES ASSUME Armed(h)' PROVE ArmedOK(h)'
    BY DEF ArmedOK
  <2>1. q = p
    BY <1>5 DEF Armed
  <2>2. Done(p)' = {}
    BY <1>22, <2>1 DEF Done
  <2>3. Cardinality(Done(p)') = 0
    BY <2>2, FS_EmptySet
  <2>4. wait_count'[h] + Cardinality(Done(p)') = call'[p].need
    BY <1>5, <1>22, <2>1, <2>3
  <2> QED
    BY <1>5, <1>18, <1>22, <2>1, <2>4 DEF ArmedOK
<1>24. AnyOK(p)'
  <2> SUFFICES ASSUME pc'[p] = "any" PROVE AnyOK(p)'
    BY DEF AnyOK
  <2>1. q = p
    BY <1>1 DEF TypeOK
  <2>2. Armed(h)' /\ parent'[h] = p
    BY <1>5, <1>8, <1>11, <2>1 DEF Armed
  <2> QED
    BY <1>22, <2>1, <2>2 DEF AnyOK
<1> QED
  BY <1>7, <1>12, <1>17, <1>21, <1>23, <1>24 DEF AwaitInv

LEMMA AnyEither ==
  ASSUME AwaitInv, NEW p \in Awaiter, Statement(p), NEW W \in SUBSET Leaf,
         leaf' \in [Leaf -> {"idle", "waiting", "done"}],
         \A l \in W : leaf'[l] = "waiting" /\ leaf[l] # "done" /\ parent[l] = NoCort,
         \A l \in Leaf \ W : leaf'[l] = leaf[l] \/ (leaf[l] = "idle" /\ leaf'[l] = "done"),
         slips' = slips, counted' = counted, parent_list' = parent_list, holds' = holds,
         Enough(p, W) \/ \E n \in 1 .. Cardinality(W) : WaitsFor(p, W, n)
  PROVE  AwaitInv'
<1>1. Cardinality(W) \in Nat /\ (Cardinality(W) = 0 <=> W = {})
  BY SomeLeaves
<1>2. CASE Enough(p, W)
  <2>1. pc' = [pc EXCEPT ![p] = "on"] /\ call' = call /\ stack' = stack
    BY <1>2 DEF Enough
  <2>2. CASE /\ W = {} /\ parent' = parent /\ wait_count' = wait_count
             /\ rest' = rest /\ phase' = phase
    <3>1. AnyLeaves({}, Future)
      BY <2>2 DEF AnyLeaves
    <3> QED
      BY <2>1, <2>2, <3>1, AnyGoesOn
  <2>3. CASE /\ W # {}
             /\ \E h \in Helper : NewHelper(h, W, Cardinality(W), Cardinality(W), NoCort)
    <3>1. PICK h \in Helper : NewHelper(h, W, Cardinality(W), Cardinality(W), NoCort)
      BY <2>3
    <3>2. PICK first \in Nat : first = Cardinality(W)
      BY <1>1
    <3>3. NewHelper(h, W, first, Cardinality(W), NoCort)
      BY <3>1, <3>2
    <3>4. W # {} /\ first > 0 /\ first <= Cardinality(W)
      BY <1>1, <2>3, <3>2
    <3> QED
      BY <2>1, <3>2, <3>3, <3>4, AnyWaits
  <2> QED
    BY <1>2, <2>2, <2>3 DEF Enough
<1>3. CASE \E n \in 1 .. Cardinality(W) : WaitsFor(p, W, n)
  <2>1. PICK n \in 1 .. Cardinality(W) : WaitsFor(p, W, n)
    BY <1>3
  <2>2. /\ pc' = [pc EXCEPT ![p] = "any"] /\ stack' = Below
        /\ call' = [call EXCEPT ![p] = [args |-> W, need |-> n]]
    BY <2>1 DEF WaitsFor
  <2>3. PICK h \in Helper : NewHelper(h, W, n, Cardinality(W), p)
    BY <2>1 DEF WaitsFor, ToGo
  <2>4. W # {} /\ n \in Nat /\ n > 0 /\ n <= Cardinality(W)
    BY <1>1
  <2> QED
    BY <2>2, <2>3, <2>4, AnyWaits
<1> QED
  BY <1>2, <1>3

LEMMA StartAnyKeeps ==
  ASSUME AwaitInv, NEW p \in Awaiter, NEW every \in BOOLEAN, StartAny(p, every)
  PROVE  AwaitInv'
<1>1. TypeOK /\ LeavesOK
  BY DEF AwaitInv
<1>2. /\ Statement(p)
      /\ slips' = slips /\ counted' = counted /\ parent_list' = parent_list /\ holds' = holds
  BY DEF StartAny, future
<1>3. PICK W \in SUBSET {l \in Leaf : leaf[l] = "idle"} :
        \E atOnce \in SUBSET ({l \in Leaf : leaf[l] = "idle"} \ W) :
          /\ leaf' = [l \in Leaf |-> IF l \in W THEN "waiting"
                                     ELSE IF l \in atOnce THEN "done" ELSE leaf[l]]
          /\ \/ atOnce # {} /\ Enough(p, W)
             \/ \E n \in 1 .. Cardinality(W) :
                  WaitsFor(p, W, IF every THEN Cardinality(W) ELSE n)
  BY DEF StartAny
<1>4. PICK atOnce \in SUBSET ({l \in Leaf : leaf[l] = "idle"} \ W) :
        /\ leaf' = [l \in Leaf |-> IF l \in W THEN "waiting"
                                   ELSE IF l \in atOnce THEN "done" ELSE leaf[l]]
        /\ \/ atOnce # {} /\ Enough(p, W)
           \/ \E n \in 1 .. Cardinality(W) :
                WaitsFor(p, W, IF every THEN Cardinality(W) ELSE n)
  BY <1>3
<1>5. W \in SUBSET Leaf
  OBVIOUS
<1>6. leaf' \in [Leaf -> {"idle", "waiting", "done"}]
  BY <1>1, <1>4 DEF TypeOK
<1>7. \A l \in W : leaf'[l] = "waiting" /\ leaf[l] # "done" /\ parent[l] = NoCort
  BY <1>1, <1>4 DEF LeavesOK
<1>8. \A l \in Leaf \ W : leaf'[l] = leaf[l] \/ (leaf[l] = "idle" /\ leaf'[l] = "done")
  BY <1>4
<1>9. Cardinality(W) \in Nat
  BY <1>5, SomeLeaves
<1>10. Enough(p, W) \/ \E n \in 1 .. Cardinality(W) : WaitsFor(p, W, n)
  <2>1. ASSUME NEW n \in 1 .. Cardinality(W)
        PROVE  (IF every THEN Cardinality(W) ELSE n) \in 1 .. Cardinality(W)
    BY <1>9
  <2> QED
    BY <1>4, <2>1
<1> QED
  BY <1>2, <1>5, <1>6, <1>7, <1>8, <1>10, AnyEither

LEMMA UntilAnyKeeps ==
  ASSUME AwaitInv, NEW p \in Awaiter, UntilAny(p)
  PROVE  AwaitInv'
<1>1. TypeOK
  BY DEF AwaitInv
<1>2. /\ Statement(p) /\ leaf' = leaf
      /\ slips' = slips /\ counted' = counted /\ parent_list' = parent_list /\ holds' = holds
  BY DEF UntilAny, future
<1>3. PICK W \in SUBSET {l \in Leaf : leaf[l] = "waiting" /\ parent[l] = NoCort} :
        Enough(p, W) \/ \E n \in 1 .. Cardinality(W) : WaitsFor(p, W, n)
  BY DEF UntilAny
<1>4. /\ W \in SUBSET Leaf
      /\ \A l \in W : leaf'[l] = "waiting" /\ leaf[l] # "done" /\ parent[l] = NoCort
      /\ \A l \in Leaf \ W : leaf'[l] = leaf[l] \/ (leaf[l] = "idle" /\ leaf'[l] = "done")
  BY <1>2
<1>5. leaf' \in [Leaf -> {"idle", "waiting", "done"}]
  BY <1>1, <1>2 DEF TypeOK
<1> QED
  BY <1>2, <1>3, <1>4, <1>5, AnyEither

------------------------------------------------------------------------------
(* The invariant.                                                          *)

LEMMA InitInv ==
  ASSUME Init
  PROVE  AwaitInv
<1>1. TypeOK
  <2>1. 0 \in 0 .. SizeMod - 1 /\ Statements \in 0 .. Statements /\ 0 \in Nat
    BY AwaitsAssumption, Numbers DEF AwaitsAssumption
  <2>2. Leaf \cap Waiter = {}
    BY Kinds
  <2>3. call \in [Awaiter -> [args : SUBSET Leaf, need : Nat]]
    BY DEF Init, NoCall
  <2> QED
    BY <2>1, <2>2, <2>3 DEF Init, TypeOK
<1>2. /\ stack = << >> /\ Len(stack) = 0 /\ parent_list = << >> /\ Len(parent_list) = 0
      /\ \A w : ~On(w, stack) /\ ~Resuming(w, stack)
  BY DEF Init, On, Resuming
<1>3. /\ \A l \in Leaf : leaf[l] = "idle" /\ parent[l] = NoCort
      /\ \A w \in Waiter : parent[w] = NoCort /\ wait_count[w] = 0
      /\ \A h \in Helper \union {Future} : phase[h] = "none"
      /\ \A p \in Awaiter : pc[p] = "new"
      /\ holds = {} /\ slips = {}
  BY DEF Init
<1>4. \A w : Kids(w) = {}
  BY <1>3 DEF Kids
<1>5. StackInv
  BY <1>2, <1>3 DEF StackInv, StackOK
<1>6. LeavesOK
  BY <1>3 DEF LeavesOK
<1>7. FutureCount
  <2>1. Cardinality(Kids(Future)) = 0
    BY <1>4, FS_EmptySet
  <2> QED
    BY <1>2, <1>3, <2>1, Kinds DEF FutureCount, Runs
<1>8. HoldsOK
  <2>1. Listed = {}
    BY <1>2, <1>3, Kinds DEF Listed, ToSet
  <2>2. FutureLives
    BY <1>3 DEF FutureLives
  <2> QED
    BY <1>2, <1>3, <2>1, <2>2 DEF HoldsOK, RunsHeld
<1>9. Remaining <= Decrements
  <2>1. FutureRuns(stack) = 0
    <3>1. {i \in 1 .. Len(stack) : stack[i].who = Future} = {}
      BY <1>2
    <3> QED
      BY <3>1, FS_EmptySet DEF FutureRuns
  <2>2. Entries = 0
    BY <1>2, <1>3, Kinds DEF Entries
  <2>3. Units \in SUBSET (Awaiter \X (1 .. Statements))
    BY DEF Units
  <2>4. /\ Cardinality(Units) <= Cardinality(Awaiter \X (1 .. Statements))
        /\ Cardinality(Units) \in Nat /\ Cardinality(Awaiter \X (1 .. Statements)) \in Nat
    BY <2>3, Numbers, UnitsCounted, FS_CardinalityType
  <2>5. /\ Cardinality({l \in Leaf : leaf[l] # "done"}) <= Cardinality(Leaf)
        /\ Cardinality({l \in Leaf : leaf[l] # "done"}) \in Nat
    BY Numbers, SomeLeaves
  <2>6. Remaining = 2 * Cardinality({l \in Leaf : leaf[l] # "done"}) + Cardinality(Units)
    BY <2>1, <2>2, <2>4, <2>5 DEF Remaining
  <2> QED
    BY <2>4, <2>5, <2>6, Numbers
<1>10. ASSUME NEW p \in Awaiter PROVE BodyOK(p) /\ AnyOK(p) /\ KnownOK(p)
  <2>1. p \in Waiter /\ p # NoCort /\ Future \in Waiter
    BY Kinds
  <2>2. wait_count[p] = 0 /\ ~Asleep(p) /\ Wasted(p) = 0
    BY <1>3, <2>1 DEF Asleep, Wasted
  <2>3. BodyOK(p)
    <3>1. Remaining \in Nat
      BY <1>1, DueNumber
    <3> QED
      BY <1>9, <2>2, <3>1 DEF BodyOK
  <2>4. Known(p) = 0
    <3>1. {i \in DOMAIN parent_list : parent_list[i] = p} = {}
      BY <1>2
    <3> QED
      BY <1>3, <2>1, <3>1, FS_EmptySet DEF Known
  <2> QED
    BY <1>3, <1>4, <2>3, <2>4 DEF AnyOK, KnownOK
<1>11. ASSUME NEW h \in Helper PROVE HelperOK(h) /\ ArmedOK(h)
  <2>1. h # NoCort
    BY Kinds
  <2> QED
    BY <1>2, <1>3, <2>1 DEF HelperOK, ArmedOK, Armed
<1> QED
  BY <1>1, <1>5, <1>6, <1>7, <1>8, <1>10, <1>11 DEF AwaitInv

LEMMA StutterKeeps ==
  ASSUME AwaitInv, UNCHANGED vars
  PROVE  AwaitInv'
<1>1. /\ counted' = counted /\ leaf' = leaf /\ parent' = parent /\ wait_count' = wait_count
      /\ rest' = rest /\ phase' = phase /\ pc' = pc /\ call' = call
      /\ parent_list' = parent_list /\ holds' = holds /\ stack' = stack
      /\ slips' = slips /\ left' = left
  BY DEF vars
<1>2. TypeOK /\ StackInv /\ LeavesOK /\ FutureCount /\ HoldsOK
  BY DEF AwaitInv
<1>3. TypeOK' /\ LeavesOK'
  BY <1>1, <1>2 DEF TypeOK, LeavesOK
<1>4. StackInv'
  BY <1>1, <1>2 DEF StackInv
<1>5. LeavesGoOn /\ \A w : LeavesSame(w)
  BY <1>1 DEF LeavesGoOn, LeavesSame
<1>6. FutureCount'
  BY <1>1, <1>2, <1>5, SameLeaves DEF FutureCount, Runs, Top
<1>7. HoldsOK'
  <2>1. Listed' = Listed /\ Kids(Future)' = Kids(Future) /\ (FutureLives' <=> FutureLives)
    BY <1>1 DEF Listed, Kids, FutureLives
  <2> QED
    BY <1>1, <1>2, <2>1 DEF HoldsOK
<1>8. Remaining' = Remaining /\ \A p : Known(p)' = Known(p)
  BY <1>1 DEF Remaining, Entries, Units, Known
<1>9. ASSUME NEW p \in Awaiter PROVE BodyOK(p)' /\ AnyOK(p)' /\ KnownOK(p)'
  <2>1. BodyOK(p) /\ AnyOK(p) /\ KnownOK(p)
    BY DEF AwaitInv
  <2>2. BodyOK(p)'
    BY <1>1, <1>8, <2>1 DEF BodyOK, Asleep, Wasted
  <2>3. AnyOK(p)'
    BY <1>1, <2>1 DEF AnyOK, Done, Armed
  <2>4. KnownOK(p)'
    BY <1>1, <1>5, <1>8, <2>1, SameLeaves DEF KnownOK
  <2> QED
    BY <2>2, <2>3, <2>4
<1>10. ASSUME NEW h \in Helper PROVE HelperOK(h)' /\ ArmedOK(h)'
  <2>1. HelperOK(h) /\ ArmedOK(h)
    BY DEF AwaitInv
  <2>2. HelperStays(h)
    BY <1>1 DEF HelperStays
  <2>3. HelperOK(h)'
    BY <1>5, <2>1, <2>2, HelperKept
  <2>4. Armed(h) => ~On(parent[h], stack')
    BY <1>1, <2>1 DEF ArmedOK
  <2>5. ArmedOK(h)'
    BY <1>1, <1>5, <2>1, <2>2, <2>4, ArmedKept
  <2> QED
    BY <2>3, <2>5
<1> QED
  BY <1>3, <1>4, <1>6, <1>7, <1>9, <1>10 DEF AwaitInv

LEMMA NextKeeps ==
  ASSUME AwaitInv, [Next]_vars
  PROVE  AwaitInv'
<1>1. ASSUME NEW l \in Leaf, LeafDone(l) PROVE AwaitInv'
  BY <1>1, LeafDoneKeeps
<1>2. ASSUME NEW l \in Leaf, LeafStarts(l) PROVE AwaitInv'
  BY <1>2, LeafStartsKeeps
<1>3. ASSUME NEW l \in Leaf, FutureAwaits(l) PROVE AwaitInv'
  BY <1>3, FutureAwaitsKeeps
<1>4. ASSUME NEW p \in Awaiter, Start(p) PROVE AwaitInv'
  BY <1>4, StartKeeps
<1>5. ASSUME NEW p \in Awaiter, AwaitAny(p) PROVE AwaitInv'
  BY <1>5, StartAnyKeeps DEF AwaitAny
<1>6. ASSUME NEW p \in Awaiter, AwaitRangeAny(p) PROVE AwaitInv'
  BY <1>6, StartAnyKeeps DEF AwaitRangeAny
<1>7. ASSUME NEW p \in Awaiter, UntilAny(p) PROVE AwaitInv'
  BY <1>7, UntilAnyKeeps
<1>8. ASSUME NEW p \in Awaiter, AwaitFuture(p) PROVE AwaitInv'
  BY <1>8, AwaitFutureKeeps
<1>9. ASSUME NEW p \in Awaiter, NEW l \in Leaf, AwaitLeaf(p, l) PROVE AwaitInv'
  BY <1>9, AwaitLeafKeeps
<1>10. ASSUME NEW p \in Awaiter, Finish(p) PROVE AwaitInv'
  BY <1>10, FinishKeeps
<1>11. ASSUME NEW h \in Helper, HelperWakes(h) PROVE AwaitInv'
  BY <1>11, HelperWakesKeeps
<1>12. ASSUME NEW h \in Helper, HelperGoesOn(h) PROVE AwaitInv'
  BY <1>12, HelperGoesOnKeeps
<1>13. ASSUME NEW h \in Helper, HelperEnds(h) PROVE AwaitInv'
  BY <1>13, HelperEndsKeeps
<1>14. CASE FutureWakes
  BY <1>14, FutureWakesKeeps
<1>15. CASE FutureResumesParent
  BY <1>15, FutureResumesParentKeeps
<1>16. CASE FutureResumesListed
  BY <1>16, FutureResumesListedKeeps
<1>17. CASE FutureChecks
  BY <1>17, FutureChecksKeeps
<1>18. CASE FutureEnds
  BY <1>18, FutureEndsKeeps
<1>19. CASE UNCHANGED vars
  BY <1>19, StutterKeeps
<1> QED
  BY <1>1, <1>2, <1>3, <1>4, <1>5, <1>6, <1>7, <1>8, <1>9, <1>10, <1>11, <1>12, <1>13,
     <1>14, <1>15, <1>16, <1>17, <1>18, <1>19 DEF Next

LEMMA AnyIsExact ==
  ASSUME AwaitInv
  PROVE  AnyExact
<1>1. TypeOK /\ StackOK(stack)
  BY DEF AwaitInv, StackInv
<1>2. ASSUME NEW p \in Awaiter, pc[p] = "any", Runs(p)
      PROVE  Cardinality(Done(p)) >= call[p].need
  BY <1>2, BodyTop DEF AwaitInv, AnyOK
<1>3. ASSUME NEW p \in Awaiter, pc[p] = "any", stack = << >>
      PROVE  Cardinality(Done(p)) < call[p].need
  <2>1. \A w : ~On(w, stack) /\ ~Resuming(w, stack)
    BY <1>3 DEF On, Resuming
  <2>2. PICK h \in Helper : Armed(h) /\ parent[h] = p
    BY <1>3, <2>1 DEF AwaitInv, AnyOK
  <2>3. wait_count[h] + Cardinality(Done(p)) = call[p].need
    BY <2>2 DEF AwaitInv, ArmedOK
  <2>4. wait_count[h] # 0
    BY <2>1, <2>2 DEF AwaitInv, HelperOK, Armed
  <2>5. wait_count[h] \in Nat
    BY <1>1, Kinds DEF TypeOK
  <2>6. Cardinality(Done(p)) \in Nat
    <3>1. Done(p) \in SUBSET Leaf
      BY <1>1 DEF TypeOK, Done
    <3> QED
      BY <3>1, SomeLeaves
  <2> QED
    BY <2>3, <2>4, <2>5, <2>6
<1> QED
  BY <1>2, <1>3 DEF AnyExact

LEMMA HelpersLeave ==
  ASSUME AwaitInv
  PROVE  HelperLeavesWithLast
<1>1. \A h \in Helper : HelperOK(h)
  BY DEF AwaitInv
<1>2. \A h \in Helper : phase[h] = "deleted" => Kids(h) = {}
  BY <1>1 DEF HelperOK
<1>3. ASSUME NEW h \in Helper, stack = << >>, phase[h] \in {"first", "rest"}
      PROVE  Kids(h) # {} \/ \E l \in slips : parent[l] = h
  <2>1. ~On(h, stack) /\ ~Resuming(h, stack)
    BY <1>3 DEF On, Resuming
  <2>2. wait_count[h] # 0 /\ wait_count[h] \in Nat /\ rest[h] \in Nat
    BY <1>1, <1>3, <2>1, Kinds DEF AwaitInv, TypeOK, HelperOK
  <2>3. CASE phase[h] = "first"
    BY <1>1, <2>1, <2>2, <2>3, FewLeaves DEF HelperOK
  <2>4. CASE phase[h] = "rest"
    <3>1. Counted(h) # {}
      BY <1>1, <2>2, <2>4, FewLeaves DEF HelperOK
    <3> QED
      BY <3>1 DEF Counted, Slipped
  <2> QED
    BY <1>3, <2>3, <2>4
<1> QED
  BY <1>2, <1>3 DEF HelperLeavesWithLast

LEMMA FutureOutlives ==
  ASSUME AwaitInv
  PROVE  FutureOutlivesRuns
<1> SUFFICES ASSUME ~FutureLives
             PROVE  /\ \A i \in DOMAIN stack : stack[i].who # Future
                    /\ \A p \in Awaiter : pc[p] # "future"
  BY DEF FutureOutlivesRuns
<1>1. TypeOK /\ HoldsOK
  BY DEF AwaitInv
<1>2. counted /\ holds = {} /\ ~On(Future, stack)
  BY <1>1 DEF HoldsOK
<1>3. DOMAIN stack = 1 .. Len(stack)
  BY <1>1 DEF TypeOK
<1> QED
  BY <1>1, <1>2, <1>3 DEF HoldsOK, On

LEMMA FutureKnows ==
  ASSUME AwaitInv
  PROVE  FutureKnowsWaiters
<1>1. \A p \in Awaiter : KnownOK(p)
  BY DEF AwaitInv
<1>2. stack = << >> => \A p : ~On(p, stack)
  BY DEF On
<1> QED
  BY <1>1, <1>2 DEF FutureKnowsWaiters, KnownOK

(* The invariant: counts, activations and the leaves they are about agree, *)
(* whatever a resumed body does before its waker goes on.                  *)
THEOREM AwaitsHold == Spec => []AwaitInv
  BY InitInv, NextKeeps, PTL DEF Spec

(* Who waits in a statement that awaits any n is resumed with the n-th of  *)
(* them, not earlier and not later (cort_wait_n).                          *)
THEOREM AnyExactHolds == Spec => []AnyExact
  BY AwaitsHold, AnyIsExact, PTL

(* No leaf finishes into a deleted cort_wait_n, and none stays behind      *)
(* its leaves but where one finished while it resumed its parent.          *)
THEOREM HelperLeavesHolds == Spec => []HelperLeavesWithLast
  BY AwaitsHold, HelpersLeave, PTL

(* A counted future is not deleted under those that await it, or under its *)
(* own loops (cort_shared_future).                                         *)
THEOREM FutureOutlivesHolds == Spec => []FutureOutlivesRuns
  BY AwaitsHold, FutureOutlives, PTL

(* A coroutine that awaits the future is known to it once, whatever the    *)
(* order in which others join and are resumed.                             *)
THEOREM FutureKnowsHolds == Spec => []FutureKnowsWaiters
  BY AwaitsHold, FutureKnows, PTL
==============================================================================
