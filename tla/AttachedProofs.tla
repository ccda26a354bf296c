---------------------------- MODULE AttachedProofs ----------------------------
(***************************************************************************)
(* What a client shows: the counter of a writer queue is exact and         *)
(* bounded; the attached view is that of the last report; the dashboard's  *)
(* prompts offer what there is, its list is whole, its motions reach every *)
(* task, its windows hold what is selected, and a drag takes what it       *)
(* covers. For every value of the constants.                               *)
(***************************************************************************)
EXTENDS WriteQueue, Viewport, Prompts, SequenceTheorems, FiniteSetTheorems,
        FunctionTheorems, WellFoundedInduction, TLAPS

(***************************************************************************)
(* Every step of the three threads keeps the channel, the counter and the  *)
(* messages in hand well-typed.                                            *)
(***************************************************************************)
THEOREM QueueTypeCorrect == Spec => []TypeOK
<1>1. Init => TypeOK
  <2>1. <<>> \in Seq(0 .. MaxLen) /\ <<>> \in Seq(ReplyLen)
    BY EmptySeq
  <2>2. 0 \in 0 .. MaxLen
    BY WriteQueueAssumption
  <2>3. ASSUME Init PROVE TypeOK
    <3>1. pending \in Int /\ cmsg \in 0 .. MaxLen /\ rmsg \in 0 .. MaxLen /\ wmsg \in 0 .. MaxLen
      BY <2>2, <2>3 DEF Init
    <3>2. queue \in Seq(0 .. MaxLen) /\ replies \in Seq(ReplyLen)
      BY <2>1, <2>3, Zenon DEF Init
    <3> QED
      BY <2>3, <3>1, <3>2 DEF Init, TypeOK
  <2> QED
    BY <2>3
<1>2. TypeOK /\ [Next]_vars => TypeOK'
  <2> SUFFICES ASSUME TypeOK, [Next]_vars PROVE TypeOK'
    OBVIOUS
  <2> USE WriteQueueAssumption DEF TypeOK, coreVars, readerVars, workerVars
  <2>1. CASE CoreChecks
    BY <2>1 DEF CoreChecks
  <2>2. CASE Admitting
    <3>1. CASE CoreAdds
      BY <3>1 DEF CoreAdds
    <3>2. CASE CoreSends
      BY <3>2, AppendProperties DEF CoreSends
    <3> QED
      BY <2>2, <3>1, <3>2 DEF Admitting
  <2>3. CASE ForceKill
    BY <2>3 DEF ForceKill
  <2>4. CASE Reads
    <3>1. PICK n \in 1 .. MaxReplies : replies' \in [1 .. n -> ReplyLen]
      BY <2>4 DEF Reads
    <3>2. replies' \in Seq(ReplyLen)
      BY <3>1
    <3> QED
      BY <2>4, <3>2 DEF Reads
  <2>5. CASE Forwarding
    <3>1. CASE ReplyChecks
      <4>1. rmsg' \in ReplyLen /\ replies' \in Seq(ReplyLen)
        BY <3>1, HeadTailProperties DEF ReplyChecks
      <4>2. rmsg' \in 0 .. MaxLen
        BY <4>1
      <4> QED
        BY <3>1, <4>1, <4>2 DEF ReplyChecks
    <3>2. CASE ReplyDropped
      BY <3>2, HeadTailProperties DEF ReplyDropped
    <3>3. CASE ReplyAdds
      BY <3>3 DEF ReplyAdds
    <3>5. CASE ReplySends
      BY <3>5, AppendProperties DEF ReplySends
    <3>4. CASE Forwarded \/ ReaderEnds
      BY <3>4 DEF Forwarded, ReaderEnds
    <3> QED
      BY <2>5, <3>1, <3>2, <3>3, <3>4, <3>5 DEF Forwarding
  <2>6. CASE Draining
    <3>1. CASE Receives
      BY <3>1, HeadTailProperties DEF Receives
    <3>2. CASE WriteFails \/ WorkerEnds
      BY <3>2 DEF WriteFails, WorkerEnds
    <3>3. CASE Settles
      BY <3>3 DEF Settles
    <3> QED
      BY <2>6, <3>1, <3>2, <3>3 DEF Draining
  <2>7. CASE Writes
    BY <2>7 DEF Writes
  <2>8. CASE SlaveCloses
    BY <2>8 DEF SlaveCloses
  <2>9. CASE UNCHANGED vars
    BY <2>9 DEF vars
  <2> QED
    BY <2>1, <2>2, <2>3, <2>4, <2>5, <2>6, <2>7, <2>8, <2>9 DEF Next
<1> QED
  BY <1>1, <1>2, PTL DEF Spec

(***************************************************************************)
(* A second message on top of one that fits is at most one too many.       *)
(***************************************************************************)
LEMMA TwoMessages ==
  ASSUME NEW p \in Int, NEW m \in 0 .. MaxLen, NEW n \in 0 .. MaxLen, p + n <= MaxPending
  PROVE  p + m + n <= MaxPending + MaxLen
BY WriteQueueAssumption

(***************************************************************************)
(* What is counted, checked by the core or checked by the reader stays     *)
(* within one message of the cap: a check that passes sees everything but  *)
(* the other admitter's message, and an addition only moves a message from *)
(* checked to counted.                                                     *)
(***************************************************************************)
LEMMA AdmissionStep ==
  ASSUME TypeOK, AdmissionInv, [Next]_vars
  PROVE  AdmissionInv'
<1>a. /\ pending \in Int
      /\ cmsg \in 0 .. MaxLen
      /\ rmsg \in 0 .. MaxLen
      /\ wmsg \in 0 .. MaxLen
  BY DEF TypeOK
<1> USE <1>a, WriteQueueAssumption DEF AdmissionInv, InHand, coreVars, readerVars, workerVars
<1>1. CASE CoreChecks
  BY <1>1 DEF CoreChecks, Fits
<1>2. CASE Admitting
  BY <1>2 DEF Admitting, CoreAdds, CoreSends
<1>3. CASE ForceKill
  BY <1>3 DEF ForceKill
<1>4. CASE Reads
  BY <1>4 DEF Reads
<1>5. CASE Forwarding
  <2>1. CASE ReplyChecks
    <3>1. rmsg' \in ReplyLen
      BY <2>1, HeadTailProperties DEF ReplyChecks, TypeOK
    <3>2. rmsg' \in 0 .. MaxLen
      BY <3>1
    <3>3. pending' + rmsg' <= MaxPending /\ pending' \in Int
      BY <2>1 DEF ReplyChecks, Fits
    <3>4. InHand(cpc', cmsg', {"checked"}) \in 0 .. MaxLen
      BY <2>1 DEF ReplyChecks
    <3>5. InHand(rpc', rmsg', {"checked"}) = rmsg'
      BY <2>1 DEF ReplyChecks
    <3>6. pending' + InHand(cpc', cmsg', {"checked"}) + rmsg' <= MaxPending + MaxLen
      BY <3>2, <3>3, <3>4, TwoMessages
    <3> QED
      BY <3>5, <3>6
  <2>2. CASE ReplyDropped
    BY <2>2 DEF ReplyDropped
  <2>3. CASE ReplyAdds \/ ReplySends
    BY <2>3 DEF ReplyAdds, ReplySends
  <2>4. CASE Forwarded \/ ReaderEnds
    BY <2>4 DEF Forwarded, ReaderEnds
  <2> QED
    BY <1>5, <2>1, <2>2, <2>3, <2>4 DEF Forwarding
<1>6. CASE Draining
  BY <1>6 DEF Draining, Receives, WriteFails, Settles, WorkerEnds
<1>7. CASE Writes \/ SlaveCloses
  BY <1>7 DEF Writes, SlaveCloses
<1>8. CASE UNCHANGED vars
  BY <1>8 DEF vars
<1> QED
  BY <1>1, <1>2, <1>3, <1>4, <1>5, <1>6, <1>7, <1>8 DEF Next

(***************************************************************************)
(* The cap is exceeded by at most one message, as admit_write says of the  *)
(* race between its check and its addition.                                *)
(***************************************************************************)
THEOREM OvershootBounded == Spec => []OvershootOneMessage
<1>1. Init => AdmissionInv
  BY WriteQueueAssumption DEF Init, AdmissionInv, InHand
<1>2. TypeOK /\ AdmissionInv /\ [Next]_vars => AdmissionInv'
  BY AdmissionStep
<1>3. TypeOK /\ AdmissionInv => OvershootOneMessage
  BY WriteQueueAssumption DEF TypeOK, AdmissionInv, InHand, OvershootOneMessage
<1> QED
  BY <1>1, <1>2, <1>3, QueueTypeCorrect, PTL DEF Spec
-----------------------------------------------------------------------------
(* The bytes of a channel. Induction over its positions comes from the     *)
(* order of the naturals, which is well-founded.                           *)

LEMMA LeastNatural ==
  ASSUME NEW T, T \subseteq Nat, T # {}
  PROVE  \E x \in T : \A y \in T : x <= y
<1> DEFINE R == OpToRel(<, Nat)
<1>1. IsWellFoundedOn(R, Nat)
  BY NatLessThanWellFounded, Zenon
<1>2. ASSUME NEW x \in Nat, NEW y \in Nat, y < x PROVE <<y, x>> \in R
  BY <1>2, Zenon DEF OpToRel
<1> HIDE DEF R
<1>3. PICK x \in T : \A y \in T : ~ (<<y, x>> \in R)
  BY <1>1, WFMin, Zenon
<1>4. ASSUME NEW y \in T PROVE x <= y
  <2>1. x \in Nat /\ y \in Nat
    OBVIOUS
  <2>2. ~ (y < x)
    BY <2>1, <1>2, <1>3
  <2> QED
    BY <2>1, <2>2
<1> QED
  BY <1>4

LEMMA UpTo ==
  ASSUME NEW n \in Nat, NEW S, 0 \in S, \A i \in 1 .. n : i - 1 \in S => i \in S
  PROVE  \A i \in 0 .. n : i \in S
<1> DEFINE T == {i \in 0 .. n : i \notin S}
<1> SUFFICES ASSUME T # {} PROVE FALSE
  OBVIOUS
<1>1. T \subseteq Nat
  OBVIOUS
<1> HIDE DEF T
<1>2. PICK x \in T : \A y \in T : x <= y
  BY <1>1, LeastNatural
<1>3. x \in 0 .. n /\ x \notin S
  BY DEF T
<1>4. x \in 1 .. n /\ x - 1 \in 0 .. n /\ ~(x <= x - 1)
  BY <1>3
<1>5. x - 1 \notin T
  BY <1>2, <1>4
<1>6. x - 1 \in S
  BY <1>4, <1>5 DEF T
<1> QED
  BY <1>3, <1>4, <1>6

\* f adds up the first n elements of s.
Sums(f, s, n) == f = [i \in 0 .. n |-> IF i = 0 THEN 0 ELSE f[i - 1] + s[i]]

LEMMA SumsExist ==
  ASSUME NEW s \in Seq(Nat)
  PROVE  \E f : Sums(f, s, Len(s))
<1> DEFINE S == {n \in 0 .. Len(s) : \E f : Sums(f, s, n)}
<1>0. Len(s) \in Nat
  BY LenProperties
<1>1. 0 \in S
  <2>1. Sums([i \in 0 .. 0 |-> 0], s, 0)
    BY DEF Sums
  <2> QED
    BY <2>1, <1>0
<1>2. ASSUME NEW n \in 1 .. Len(s), n - 1 \in S PROVE n \in S
  <2>1. PICK f : Sums(f, s, n - 1)
    BY <1>2
  <2> DEFINE g == [i \in 0 .. n |-> IF i = n THEN f[n - 1] + s[n] ELSE f[i]]
  <2>2. ASSUME NEW i \in 0 .. n PROVE g[i] = IF i = 0 THEN 0 ELSE g[i - 1] + s[i]
    <3>1. CASE i = n
      BY <3>1, <1>0
    <3>2. CASE i # n
      <4>1. i \in 0 .. n - 1
        BY <3>2, <1>0
      <4>2. f[i] = IF i = 0 THEN 0 ELSE f[i - 1] + s[i]
        BY <2>1, <4>1 DEF Sums
      <4>3. i # 0 => i - 1 \in 0 .. n /\ i - 1 # n
        BY <4>1, <1>0
      <4> QED
        BY <4>2, <4>3, <3>2
    <3> QED
      BY <3>1, <3>2
  <2>3. Sums(g, s, n)
    BY <2>2 DEF Sums
  <2> HIDE DEF g
  <2> QED
    BY <2>3, <1>0
<1> HIDE DEF S
<1>3. Len(s) \in S
  <2>1. \A i \in 0 .. Len(s) : i \in S
    BY <1>0, <1>1, <1>2, UpTo
  <2> QED
    BY <2>1, <1>0
<1> QED
  BY <1>3 DEF S

LEMMA SumsAreNat ==
  ASSUME NEW s \in Seq(Nat), NEW f, Sums(f, s, Len(s))
  PROVE  \A i \in 0 .. Len(s) : f[i] \in Nat
<1> DEFINE S == {i \in 0 .. Len(s) : f[i] \in Nat}
<1>0. Len(s) \in Nat /\ \A i \in 1 .. Len(s) : s[i] \in Nat
  BY LenProperties, ElementOfSeq
<1>1. 0 \in S
  BY <1>0 DEF Sums
<1>2. ASSUME NEW i \in 1 .. Len(s), i - 1 \in S PROVE i \in S
  <2>1. f[i] = f[i - 1] + s[i]
    BY <1>0 DEF Sums
  <2> QED
    BY <1>0, <1>2, <2>1
<1> HIDE DEF S
<1>3. \A i \in 0 .. Len(s) : i \in S
  BY <1>0, <1>1, <1>2, UpTo
<1> QED
  BY <1>3 DEF S

LEMMA BytesSums ==
  ASSUME NEW s \in Seq(Nat)
  PROVE  \E f : Sums(f, s, Len(s)) /\ Bytes(s) = f[Len(s)]
<1> DEFINE h == CHOOSE f : Sums(f, s, Len(s))
<1>1. Sums(h, s, Len(s))
  BY SumsExist
<1>2. Bytes(s) = h[Len(s)]
  BY DEF Bytes, Sums
<1> QED
  BY <1>1, <1>2

\* A sum grows by what is appended, shrinks by what is taken, and is a natural number.
LEMMA BytesIsNat == ASSUME NEW s \in Seq(Nat) PROVE Bytes(s) \in Nat
<1>1. Len(s) \in 0 .. Len(s)
  BY LenProperties
<1> QED
  BY <1>1, BytesSums, SumsAreNat

LEMMA BytesAppend ==
  ASSUME NEW s \in Seq(Nat), NEW x \in Nat
  PROVE  Bytes(Append(s, x)) = Bytes(s) + x
<1> DEFINE t == Append(s, x)
<1>1. /\ t \in Seq(Nat) /\ Len(s) \in Nat /\ Len(t) = Len(s) + 1
      /\ \A i \in 1 .. Len(s) : t[i] = s[i]
      /\ t[Len(s) + 1] = x
  BY AppendProperties, LenProperties
<1> HIDE DEF t
<1>2. PICK f : Sums(f, s, Len(s)) /\ Bytes(s) = f[Len(s)]
  BY BytesSums
<1>3. PICK g : Sums(g, t, Len(t)) /\ Bytes(t) = g[Len(t)]
  BY <1>1, BytesSums
<1> DEFINE S == {i \in 0 .. Len(s) : g[i] = f[i]}
<1>4. 0 \in S
  BY <1>1, <1>2, <1>3 DEF Sums
<1>5. ASSUME NEW i \in 1 .. Len(s), i - 1 \in S PROVE i \in S
  <2>1. i \in 0 .. Len(t) /\ i \in 0 .. Len(s) /\ i # 0
    BY <1>1
  <2>2. f[i] = f[i - 1] + s[i] /\ g[i] = g[i - 1] + t[i]
    BY <2>1, <1>2, <1>3 DEF Sums
  <2> QED
    BY <2>1, <2>2, <1>1, <1>5
<1> HIDE DEF S
<1>6. Len(s) \in S
  <2>1. \A i \in 0 .. Len(s) : i \in S
    BY <1>1, <1>4, <1>5, UpTo
  <2> QED
    BY <2>1, <1>1
<1>7. g[Len(t)] = g[Len(t) - 1] + t[Len(t)]
  BY <1>1, <1>3 DEF Sums
<1> QED
  BY <1>1, <1>2, <1>3, <1>6, <1>7 DEF S, t

LEMMA BytesTail ==
  ASSUME NEW s \in Seq(Nat), s # <<>>
  PROVE  Bytes(s) = Head(s) + Bytes(Tail(s))
<1> DEFINE t == Tail(s)
<1>1. /\ t \in Seq(Nat) /\ Len(s) \in Nat \ {0} /\ Len(t) = Len(s) - 1
      /\ \A i \in 1 .. Len(t) : t[i] = s[i + 1]
      /\ Head(s) = s[1] /\ Head(s) \in Nat
  BY HeadTailProperties, LenProperties, EmptySeq
<1> HIDE DEF t
<1>2. PICK f : Sums(f, s, Len(s)) /\ Bytes(s) = f[Len(s)]
  BY BytesSums
<1>3. PICK g : Sums(g, t, Len(t)) /\ Bytes(t) = g[Len(t)]
  BY <1>1, BytesSums
<1>4. (\A i \in 0 .. Len(t) : g[i] \in Nat) /\ \A i \in 1 .. Len(t) : t[i] \in Nat
  BY <1>1, <1>3, SumsAreNat, ElementOfSeq
<1> DEFINE S == {i \in 0 .. Len(t) : f[i + 1] = Head(s) + g[i]}
<1>5. 0 \in S
  <2>1. f[0] = 0 /\ f[1] = f[0] + s[1] /\ g[0] = 0
    BY <1>1, <1>2, <1>3 DEF Sums
  <2> QED
    BY <2>1, <1>1
<1>6. ASSUME NEW i \in 1 .. Len(t), i - 1 \in S PROVE i \in S
  <2>1. i + 1 \in 0 .. Len(s) /\ i + 1 # 0 /\ (i + 1) - 1 = i /\ i \in 0 .. Len(t) /\ i # 0
        /\ (i - 1) + 1 = i /\ i - 1 \in 0 .. Len(t)
    BY <1>1
  <2>2. f[i + 1] = f[i] + s[i + 1] /\ g[i] = g[i - 1] + t[i]
    BY <2>1, <1>2, <1>3 DEF Sums
  <2>3. f[i] = Head(s) + g[i - 1]
    BY <1>6, <2>1
  <2>4. g[i - 1] \in Nat /\ t[i] \in Nat /\ t[i] = s[i + 1]
    BY <1>1, <1>4, <2>1
  <2> QED
    BY <2>1, <2>2, <2>3, <2>4, <1>1, SMTT(30)
<1> HIDE DEF S
<1>7. Len(t) \in S
  <2>1. Len(t) \in Nat
    BY <1>1
  <2>2. \A i \in 0 .. Len(t) : i \in S
    BY <2>1, <1>5, <1>6, UpTo
  <2> QED
    BY <2>1, <2>2
<1> QED
  BY <1>1, <1>2, <1>3, <1>7 DEF S, t
-----------------------------------------------------------------------------
LEMMA QueueIsNat == TypeOK => queue \in Seq(Nat)
<1> SUFFICES ASSUME TypeOK PROVE queue \in Seq(Nat)
  OBVIOUS
<1>1. Len(queue) \in Nat /\ queue \in [1 .. Len(queue) -> 0 .. MaxLen]
  BY LenProperties DEF TypeOK
<1>2. queue \in [1 .. Len(queue) -> Nat]
  BY <1>1, WriteQueueAssumption
<1> QED
  BY <1>1, <1>2, SeqDef

\* The counter is exact under every step. Only an addition and a subtraction move it;
\* a send and a receive move a message between the channel and a thread.
LEMMA ExactStep ==
  ASSUME TypeOK, PendingIsExact, [Next]_vars
  PROVE  PendingIsExact'
<1>a. /\ pending \in Int /\ cmsg \in Nat /\ rmsg \in Nat /\ wmsg \in Nat
      /\ queue \in Seq(Nat) /\ Bytes(queue) \in Nat
  BY QueueIsNat, BytesIsNat, WriteQueueAssumption DEF TypeOK
<1>b. pending = Bytes(queue) + Outside
  BY DEF PendingIsExact
<1> SUFFICES pending' = Bytes(queue') + Outside'
  BY DEF PendingIsExact
<1> USE DEF Outside, InHand, coreVars, readerVars, workerVars
<1>1. CASE CoreAdds
  BY <1>1, <1>a, <1>b, SMTT(30) DEF CoreAdds
<1>2. CASE ReplyAdds
  BY <1>2, <1>a, <1>b DEF ReplyAdds
<1>3. CASE Settles
  BY <1>3, <1>a, <1>b DEF Settles
<1>4. CASE CoreSends
  <2>1. Bytes(queue') = Bytes(queue) + cmsg
    BY <1>4, <1>a, BytesAppend DEF CoreSends
  <2> QED
    BY <1>4, <1>a, <1>b, <2>1 DEF CoreSends
<1>5. CASE ReplySends
  <2>1. Bytes(queue') = Bytes(queue) + rmsg
    BY <1>5, <1>a, BytesAppend DEF ReplySends
  <2> QED
    BY <1>5, <1>a, <1>b, <2>1 DEF ReplySends
<1>6. CASE Receives
  <2>1. Bytes(queue) = wmsg' + Bytes(queue') /\ wmsg' \in Nat /\ Bytes(queue') \in Nat
    BY <1>6, <1>a, BytesTail, BytesIsNat, HeadTailProperties DEF Receives
  <2> QED
    BY <1>6, <1>a, <1>b, <2>1, SMTT(30) DEF Receives
<1>7. ASSUME UNCHANGED <<pending, queue>>, UNCHANGED Outside PROVE pending' = Bytes(queue') + Outside'
  BY <1>7, <1>b
<1>8. CASE CoreChecks \/ ForceKill \/ Reads \/ ReplyChecks \/ ReplyDropped \/ Forwarded \/ ReaderEnds
  <2>1. UNCHANGED <<pending, queue, Outside>>
    BY <1>8 DEF CoreChecks, ForceKill, Reads, ReplyChecks, ReplyDropped, Forwarded, ReaderEnds
  <2> QED
    BY <1>7, <2>1
<1>9. CASE WriteFails \/ WorkerEnds \/ Writes \/ SlaveCloses \/ UNCHANGED vars
  <2>1. UNCHANGED <<pending, queue, Outside>>
    BY <1>9 DEF WriteFails, WorkerEnds, Writes, SlaveCloses, vars
  <2> QED
    BY <1>7, <2>1
<1> QED
  BY <1>1, <1>2, <1>3, <1>4, <1>5, <1>6, <1>8, <1>9 DEF Next, Admitting, Forwarding, Draining

(***************************************************************************)
(* The counter is what the channel and the hands of the threads hold, for  *)
(* channels of every length: drain_writes returns what admit_write took,   *)
(* in whichever order the separate steps of the three threads come.        *)
(***************************************************************************)
THEOREM CounterIsExact == Spec => []PendingIsExact
<1>1. Init => PendingIsExact
  <2> SUFFICES ASSUME Init PROVE PendingIsExact
    OBVIOUS
  <2>1. queue = <<>> /\ pending = 0 /\ Outside = 0
    BY DEF Init, Outside, InHand
  <2>2. <<>> \in Seq(Nat) /\ Len(<<>>) = 0
    BY EmptySeq
  <2>3. Bytes(queue) = 0
    <3>1. PICK f : Sums(f, <<>>, 0) /\ Bytes(<<>>) = f[0]
      BY <2>2, BytesSums
    <3> QED
      BY <2>1, <3>1 DEF Sums
  <2> QED
    BY <2>1, <2>3 DEF PendingIsExact
<1>2. TypeOK /\ PendingIsExact /\ [Next]_vars => PendingIsExact'
  BY ExactStep
<1> QED
  BY <1>1, <1>2, QueueTypeCorrect, PTL DEF Spec

(***************************************************************************)
(* The fetch_sub of drain_writes never wraps: what the worker returns was  *)
(* counted, and the counter never reads as a negative number.              *)
(***************************************************************************)
THEOREM CounterNeverWraps == Spec => [](pending \in Nat /\ (wpc = "settling" => wmsg <= pending))
<1>1. TypeOK /\ PendingIsExact => pending \in Nat /\ (wpc = "settling" => wmsg <= pending)
  <2> SUFFICES ASSUME TypeOK, PendingIsExact
               PROVE  pending \in Nat /\ (wpc = "settling" => wmsg <= pending)
    OBVIOUS
  <2>1. cmsg \in Nat /\ rmsg \in Nat /\ wmsg \in Nat /\ Bytes(queue) \in Nat
    BY QueueIsNat, BytesIsNat, WriteQueueAssumption DEF TypeOK
  <2>2. pending = Bytes(queue) + Outside
    BY DEF PendingIsExact
  <2> QED
    BY <2>1, <2>2 DEF Outside, InHand
<1> QED
  BY <1>1, CounterIsExact, QueueTypeCorrect, PTL

-----------------------------------------------------------------------------
(* The attached view (Viewport).                                           *)

\* A watch that the client may wish for is a command, and so is everything it sends.
LEMMA TellTyped ==
  /\ \A t \in Target : Tell("watch", t) \in Cmd
  /\ \A t \in Target : \A op \in {"up", "down", "live", "input"} : Tell(op, t) \in Cmd
BY DEF Tell, Cmd

\* The front of what is on the way.
LEMMA CmdsFront ==
  ASSUME ViewTypeOK, cmds # <<>>
  PROVE  /\ Head(cmds) \in Cmd /\ Head(cmds) = cmds[1]
         /\ Tail(cmds) \in Seq(Cmd) /\ Len(cmds) \in Nat \ {0}
         /\ DOMAIN cmds = 1 .. Len(cmds) /\ DOMAIN Tail(cmds) = 1 .. Len(cmds) - 1
         /\ \A i \in 1 .. Len(cmds) - 1 : Tail(cmds)[i] = cmds[i + 1]
BY HeadTailProperties, LenProperties, EmptySeq DEF ViewTypeOK

\* And its end.
LEMMA CmdsBehind ==
  ASSUME ViewTypeOK, NEW c \in Cmd
  PROVE  /\ Append(cmds, c) \in Seq(Cmd) /\ Len(cmds) \in Nat
         /\ DOMAIN cmds = 1 .. Len(cmds) /\ DOMAIN Append(cmds, c) = 1 .. Len(cmds) + 1
         /\ Append(cmds, c)[Len(cmds) + 1] = c
         /\ \A i \in 1 .. Len(cmds) : Append(cmds, c)[i] = cmds[i]
BY AppendProperties, LenProperties DEF ViewTypeOK

\* The same of the screens.
LEMMA EvsFront ==
  ASSUME ViewTypeOK, evs # <<>>
  PROVE  /\ Head(evs) \in Screen /\ Head(evs) = evs[1]
         /\ Tail(evs) \in Seq(Screen) /\ Len(evs) \in Nat \ {0} /\ Len(Tail(evs)) = Len(evs) - 1
         /\ \A i \in 1 .. Len(evs) - 1 : Tail(evs)[i] = evs[i + 1]
BY HeadTailProperties, LenProperties, EmptySeq DEF ViewTypeOK

LEMMA EvsBehind ==
  ASSUME ViewTypeOK, NEW s \in Screen
  PROVE  /\ Append(evs, s) \in Seq(Screen) /\ Append(evs, s) # <<>>
         /\ Append(evs, s)[Len(Append(evs, s))] = s
BY AppendProperties, LenProperties, EmptySeq DEF ViewTypeOK

\* What is sent leaves the link and the screens alone, and is behind everything else.
LEMMA Sent ==
  ASSUME ViewTypeOK, NEW c \in Cmd, Send(c)
  PROVE  /\ UNCHANGED <<link, evs>>
         /\ link = "up" => cmds' = Append(cmds, c)
         /\ link # "up" => cmds' = cmds
         /\ cmds' \in Seq(Cmd)
BY CmdsBehind DEF Send, wireVars, ViewTypeOK

\* Every step keeps both ends of the attached view well-typed.
LEMMA ViewTypeStep ==
  ASSUME ViewTypeOK, [ViewNext]_viewVars
  PROVE  ViewTypeOK'
<1> USE DEF clientVars, wireVars, coreViewVars
<1>1. ASSUME Key, focused' \in Target, viewScroll' \in BOOLEAN, selection' \in Target,
             link' = link, evs' = evs, cmds' \in Seq(Cmd)
      PROVE  ViewTypeOK'
  BY <1>1, SMTT(30) DEF Key, ViewTypeOK
<1>2. CASE BeginPass
  <2>1. CASE focused = watched
    BY <1>2, <2>1 DEF BeginPass, SetWatch, ViewTypeOK
  <2>2. CASE focused # watched
    <3>1. Tell("watch", focused) \in Cmd
      BY TellTyped DEF ViewTypeOK
    <3>2. /\ watched' = focused /\ selection' = NoTask
          /\ screen' = IF focused = NoTask THEN NoScreen ELSE screen
          /\ Send(Tell("watch", focused))
      BY <1>2, <2>2 DEF BeginPass, SetWatch
    <3>3. cmds' \in Seq(Cmd) /\ UNCHANGED <<link, evs>>
      BY <3>1, <3>2, Sent
    <3> QED
      BY <1>2, <3>2, <3>3 DEF BeginPass, ViewTypeOK, Target
  <2> QED
    BY <2>1, <2>2
<1>3. CASE OnScreen
  <2>1. screen' \in Screen /\ evs' \in Seq(Screen)
    BY <1>3, EvsFront DEF OnScreen
  <2>2. viewScroll' \in BOOLEAN /\ selection' \in Target
    BY <1>3 DEF OnScreen, ViewTypeOK, Target
  <2> QED
    BY <1>3, <2>1, <2>2 DEF OnScreen, ViewTypeOK
<1>4. CASE EndPass
  <2>1. banner' \in BOOLEAN /\ focused' \in Target /\ viewScroll' \in BOOLEAN
    BY <1>4 DEF EndPass, LeavesIfLost, ViewTypeOK, Target
  <2>2. captured' \in BOOLEAN /\ selection' \in Target /\ pc' = "keys"
    BY <1>4 DEF EndPass, Capture, ViewTypeOK, Target
  <2> QED
    BY <1>4, <2>1, <2>2 DEF EndPass, ViewTypeOK
<1>5. ASSUME NEW t \in Task, AttachTo(t) PROVE ViewTypeOK'
  BY <1>5, <1>1 DEF AttachTo, ViewTypeOK, Target
<1>6. CASE Detach
  BY <1>6, <1>1 DEF Detach, ViewTypeOK, Target
<1>7. ASSUME NEW op \in {"up", "down", "live", "input"}, Send(Tell(op, focused))
      PROVE  link' = link /\ evs' = evs /\ cmds' \in Seq(Cmd)
  BY <1>7, TellTyped, Sent DEF ViewTypeOK
<1>8. CASE ScrollUp \/ WheelEnters
  BY <1>8, <1>1, <1>7 DEF ScrollUp, WheelEnters, ViewTypeOK, Target
<1>9. CASE ScrollDown \/ ScrollEnds
  BY <1>9, <1>1, <1>7 DEF ScrollDown, ScrollEnds, ViewTypeOK, Target
<1>10. CASE OnPaste \/ Forward
  BY <1>10, <1>1, <1>7 DEF OnPaste, Forward, ViewTypeOK, Target
<1>11. CASE Resize \/ Press \/ Release
  BY <1>11, <1>1 DEF Resize, Press, Release, ViewTypeOK, Target
<1>12. CASE Report
  BY <1>12, <1>1, <1>7 DEF Report, ViewTypeOK, Target
<1>13. CASE Apply
  <2>1. cmds' \in Seq(Cmd) /\ Head(cmds) \in Cmd
    BY <1>13, CmdsFront DEF Apply
  <2>2. watch' \in Target /\ last' \in Screen \cup {NoScreen}
    BY <1>13, <2>1 DEF Apply, ApplyWatch, ApplyOther, ViewTypeOK, Cmd
  <2>3. back' \in [Task -> BOOLEAN]
    BY <1>13 DEF Apply, ApplyWatch, ApplyOther, Scrolled, ViewTypeOK
  <2> QED
    BY <1>13, <2>1, <2>2, <2>3 DEF Apply, ViewTypeOK
<1>14. CASE Tick
  <2>1. View(watch) \in Screen
    BY <1>14 DEF Tick, Due, View, Screen, Offset, ViewTypeOK, Target
  <2>2. evs' \in Seq(Screen) /\ last' \in Screen
    BY <1>14, <2>1, EvsBehind DEF Tick
  <2> QED
    BY <1>14, <2>2 DEF Tick, ViewTypeOK
<1>15. ASSUME NEW t \in Task, Output(t) PROVE ViewTypeOK'
  <2>1. kind' \in [Task -> Policies] /\ back' \in [Task -> BOOLEAN]
    BY <1>15, ViewportAssumption DEF Output, ViewTypeOK
  <2> QED
    BY <1>15, <2>1 DEF Output, ViewTypeOK
<1>16. CASE Lose
  <2>1. back' \in [Task -> BOOLEAN] /\ cmds' \in Seq(Cmd)
    BY <1>16, EmptySeq DEF Lose, ViewTypeOK
  <2> QED
    BY <1>16, <2>1 DEF Lose, ViewTypeOK, Target
<1>17. CASE Reconnect
  BY <1>17, EmptySeq DEF Reconnect, ViewTypeOK, Target
<1>18. CASE UNCHANGED viewVars
  BY <1>18 DEF viewVars, ViewTypeOK
<1> QED
  BY <1>2, <1>3, <1>4, <1>5, <1>6, <1>8, <1>9, <1>10, <1>11, <1>12, <1>13, <1>14, <1>15, <1>16, <1>17, <1>18
  DEF ViewNext, Pass, Keys, Mouse, Core

\* A command that is no watch changes nothing of what the core will watch.
LEMMA OtherIsSent ==
  ASSUME ViewTypeOK, WatchesDiffer, NEW c \in Cmd, c.op # "watch",
         cmds' = Append(cmds, c), watch' = watch
  PROVE  /\ WatchesDiffer' /\ (Quiet(0)' <=> Quiet(0))
         /\ \A t : WillWatch(t) => WillWatch(t)'
<1>n. PICK n \in Nat : n = Len(cmds)
  BY CmdsBehind, TellTyped
<1>1. /\ n \in Nat /\ DOMAIN cmds = 1 .. n /\ (DOMAIN cmds)' = 1 .. n + 1
      /\ cmds'[n + 1] = c /\ \A i \in 1 .. n : cmds'[i] = cmds[i]
  BY <1>n, CmdsBehind
<1>2. \A k : Watches(k)' <=> Watches(k)
  BY <1>1 DEF Watches
<1>3. \A k \in 0 .. n : Quiet(k) => Quiet(k)'
  BY <1>1 DEF Quiet
<1>4. Quiet(0)' => Quiet(0)
  BY <1>1 DEF Quiet
<1>5. WatchesDiffer'
  BY <1>1, <1>2 DEF WatchesDiffer, Watches
<1>6. ASSUME NEW t, WillWatch(t) PROVE WillWatch(t)'
  BY <1>6, <1>1, <1>3 DEF WillWatch
<1> QED
  BY <1>1, <1>3, <1>4, <1>5, <1>6

\* A watch of another task than the one that the core will watch is no repetition, and
\* is what it will watch from then on.
LEMMA WatchIsSent ==
  ASSUME ViewTypeOK, WatchesDiffer, NEW t \in Target, NEW u, WillWatch(u), t # u,
         cmds' = Append(cmds, Tell("watch", t)), watch' = watch
  PROVE  WatchesDiffer' /\ WillWatch(t)' /\ ~Quiet(0)'
<1>n. PICK n \in Nat : n = Len(cmds)
  BY CmdsBehind, TellTyped
<1>1. /\ n \in Nat /\ DOMAIN cmds = 1 .. n /\ (DOMAIN cmds)' = 1 .. n + 1
      /\ cmds'[n + 1] = Tell("watch", t) /\ \A i \in 1 .. n : cmds'[i] = cmds[i]
  BY <1>n, CmdsBehind, TellTyped
<1>2. Tell("watch", t).op = "watch" /\ Tell("watch", t).id = t
  BY DEF Tell
<1>3. /\ \A k \in 1 .. n : Watches(k)' <=> Watches(k)
      /\ Watches(n + 1)'
      /\ \A k : Watches(k)' => k \in 1 .. n + 1
  BY <1>1, <1>2 DEF Watches
<1>4. WillWatch(t)'
  BY <1>1 DEF WillWatch, Quiet
<1>5. ~Quiet(0)'
  BY <1>1, <1>2 DEF Quiet
<1>6. (\A j \in 1 .. n : ~Watches(j)) => t # watch
  BY <1>1 DEF WillWatch, Watches, Tell
<1>7. ASSUME NEW j \in 1 .. n, Watches(j), \A i \in j + 1 .. n : ~Watches(i)
      PROVE  cmds[j].id # t
  <2>1. ~Quiet(0)
    BY <1>1, <1>7 DEF Watches, Quiet
  <2>2. PICK k \in 1 .. n : cmds[k] = Tell("watch", u) /\ Quiet(k)
    BY <1>1, <2>1 DEF WillWatch
  <2>3. Watches(k) /\ cmds[k].id = u
    BY <1>1, <2>2 DEF Watches, Tell
  <2>4. ~(j > k)
    BY <1>1, <1>7, <2>2 DEF Watches, Quiet
  <2>5. j = k
    BY <1>7, <2>3, <2>4, <1>1
  <2> QED
    BY <2>3, <2>5
<1>8. ASSUME NEW k \in 1 .. n + 1, Watches(k)', \A j \in 1 .. k - 1 : ~Watches(j)'
      PROVE  cmds'[k].id # watch
  <2>1. CASE k = n + 1
    BY <1>1, <1>2, <1>3, <1>6, <1>8, <2>1
  <2>2. CASE k # n + 1
    BY <1>1, <1>3, <1>8, <2>2 DEF WatchesDiffer
  <2> QED
    BY <2>1, <2>2
<1>9. ASSUME NEW j \in 1 .. n + 1, NEW k \in 1 .. n + 1, j < k, Watches(j)', Watches(k)',
             \A i \in j + 1 .. k - 1 : ~Watches(i)'
      PROVE  cmds'[j].id # cmds'[k].id
  <2>1. CASE k = n + 1
    BY <1>1, <1>2, <1>3, <1>7, <1>9, <2>1
  <2>2. CASE k # n + 1
    BY <1>1, <1>3, <1>9, <2>2 DEF WatchesDiffer
  <2> QED
    BY <2>1, <2>2
<1>10. WatchesDiffer'
  BY <1>1, <1>8, <1>9 DEF WatchesDiffer
<1> QED
  BY <1>4, <1>5, <1>10

\* The core reads the front of what is on the way.
LEMMA FrontIsRead ==
  ASSUME ViewTypeOK, WatchesDiffer, cmds # <<>>, cmds' = Tail(cmds),
         watch' = IF Head(cmds).op = "watch" THEN Head(cmds).id ELSE watch
  PROVE  /\ WatchesDiffer' /\ \A t : WillWatch(t) => WillWatch(t)'
         /\ Head(cmds).op = "watch" => Head(cmds).id # watch
         /\ Head(cmds).op # "watch" /\ ~Quiet(0) => ~Quiet(0)'
<1>n. PICK n \in Nat : n = Len(cmds)
  BY CmdsFront
<1>1. /\ n \in Nat \ {0} /\ DOMAIN cmds = 1 .. n /\ (DOMAIN cmds)' = 1 .. n - 1
      /\ Head(cmds) = cmds[1] /\ \A i \in 1 .. n - 1 : cmds'[i] = cmds[i + 1]
  BY <1>n, CmdsFront
<1>2. /\ \A k \in 1 .. n - 1 : Watches(k)' <=> Watches(k + 1)
      /\ \A k : Watches(k)' => k \in 1 .. n - 1
      /\ Watches(1) <=> Head(cmds).op = "watch"
  BY <1>1 DEF Watches
<1>3. Head(cmds).op = "watch" => Head(cmds).id # watch
  BY <1>1, <1>2 DEF WatchesDiffer
<1>4. \A k \in 1 .. n : Quiet(k) => Quiet(k - 1)'
  BY <1>1 DEF Quiet
<1>5. ASSUME NEW t, WillWatch(t) PROVE WillWatch(t)'
  <2>1. CASE watch = t /\ Quiet(0)
    <3>1. Head(cmds).op # "watch"
      BY <1>1, <2>1 DEF Quiet
    <3>2. Quiet(0)'
      BY <1>1, <2>1 DEF Quiet
    <3> QED
      BY <2>1, <3>1, <3>2 DEF WillWatch
  <2>2. ASSUME NEW k \in 1 .. n, cmds[k] = Tell("watch", t), Quiet(k) PROVE WillWatch(t)'
    <3>1. CASE k = 1
      BY <1>1, <1>4, <2>2, <3>1 DEF WillWatch, Tell
    <3>2. CASE k # 1
      <4>1. k - 1 \in 1 .. n - 1 /\ cmds'[k - 1] = Tell("watch", t)
        BY <1>1, <2>2, <3>2
      <4> QED
        BY <1>1, <1>4, <2>2, <4>1 DEF WillWatch
    <3> QED
      BY <3>1, <3>2
  <2> QED
    BY <1>1, <1>5, <2>1, <2>2 DEF WillWatch
<1>6. Head(cmds).op # "watch" /\ ~Quiet(0) => ~Quiet(0)'
  <2> SUFFICES ASSUME Head(cmds).op # "watch", NEW j \in 1 .. n, cmds[j].op = "watch"
               PROVE  ~Quiet(0)'
    BY <1>1 DEF Quiet
  <2>1. j - 1 \in 1 .. n - 1 /\ cmds'[j - 1] = cmds[j]
    BY <1>1
  <2>2. j - 1 \in (DOMAIN cmds)' /\ j - 1 > 0 /\ cmds'[j - 1].op = "watch"
    BY <1>1, <2>1
  <2> QED
    BY <2>2 DEF Quiet
<1>7. ASSUME NEW k \in 1 .. n - 1, Watches(k)', \A j \in 1 .. k - 1 : ~Watches(j)'
      PROVE  cmds'[k].id # watch'
  <2>1. Watches(k + 1) /\ \A j \in 2 .. k : ~Watches(j)
    <3>1. ASSUME NEW j \in 2 .. k PROVE ~Watches(j)
      <4>1. j - 1 \in 1 .. k - 1 /\ j - 1 \in 1 .. n - 1 /\ (j - 1) + 1 = j
        BY <1>1
      <4> QED
        BY <1>2, <1>7, <4>1
    <3> QED
      BY <1>2, <1>7, <3>1
  <2>2. cmds'[k] = cmds[k + 1] /\ k + 1 \in 1 .. n /\ 1 \in 1 .. n /\ 1 < k + 1
    BY <1>1
  <2>3. CASE Watches(1)
    <3>1. cmds[1].id # cmds[k + 1].id
      BY <1>1, <2>1, <2>2, <2>3 DEF WatchesDiffer
    <3> QED
      BY <1>1, <1>2, <2>2, <2>3, <3>1
  <2>4. CASE ~Watches(1)
    <3>1. \A j \in 1 .. k : ~Watches(j)
      BY <2>1, <2>4
    <3>2. cmds[k + 1].id # watch
      BY <1>1, <2>1, <2>2, <3>1 DEF WatchesDiffer
    <3> QED
      BY <1>2, <2>2, <2>4, <3>2
  <2> QED
    BY <2>3, <2>4
<1>8. ASSUME NEW j \in 1 .. n - 1, NEW k \in 1 .. n - 1, j < k, Watches(j)', Watches(k)',
             \A i \in j + 1 .. k - 1 : ~Watches(i)'
      PROVE  cmds'[j].id # cmds'[k].id
  <2>1. ASSUME NEW i \in (j + 1) + 1 .. (k + 1) - 1 PROVE ~Watches(i)
    <3>1. i - 1 \in j + 1 .. k - 1 /\ i - 1 \in 1 .. n - 1 /\ (i - 1) + 1 = i
      BY <1>1
    <3> QED
      BY <1>2, <1>8, <3>1
  <2>2. Watches(j + 1) /\ Watches(k + 1) /\ j + 1 < k + 1 /\ j + 1 \in 1 .. n /\ k + 1 \in 1 .. n
    BY <1>1, <1>2, <1>8
  <2>3. cmds[j + 1].id # cmds[k + 1].id
    BY <1>1, <2>1, <2>2 DEF WatchesDiffer
  <2> QED
    BY <1>1, <2>3
<1>9. (DOMAIN cmds)' = 1 .. n - 1
  BY <1>1
<1>a. \A k \in (DOMAIN cmds)' :
        Watches(k)' /\ (\A j \in 1 .. k - 1 : ~Watches(j)') => cmds'[k].id # watch'
  BY <1>9, <1>7
<1>b. \A j, k \in (DOMAIN cmds)' :
        j < k /\ Watches(j)' /\ Watches(k)' /\ (\A i \in j + 1 .. k - 1 : ~Watches(i)')
          => cmds'[j].id # cmds'[k].id
  BY <1>9, <1>8
<1>10. WatchesDiffer'
  BY <1>a, <1>b DEF WatchesDiffer
<1> QED
  BY <1>3, <1>5, <1>6, <1>10

\* What neither sends, reads nor watches keeps the two sides in agreement.
LEMMA SidesUntouched ==
  ASSUME ViewInv, UNCHANGED <<watched, screen, wireVars, coreViewVars>>,
         selection' # NoTask => captured'
  PROVE  ViewInv'
<1> USE DEF wireVars, coreViewVars, ViewInv
<1>1. WatchAgrees'
  BY DEF WatchAgrees, WillWatch, Quiet
<1>2. WatchesDiffer'
  BY DEF WatchesDiffer, Watches
<1>3. SentIsHeld'
  BY DEF SentIsHeld, Quiet
<1>4. LostIsOver' /\ DragIsCaptured'
  BY DEF LostIsOver, DragIsCaptured
<1> QED
  BY <1>1, <1>2, <1>3, <1>4

\* Nor does what a key or the mouse sends.
LEMMA OtherKeepsSides ==
  ASSUME ViewTypeOK, ViewInv, NEW op \in {"up", "down", "live", "input"}, Send(Tell(op, focused)),
         UNCHANGED <<watched, screen, coreViewVars>>, selection' # NoTask => captured'
  PROVE  ViewInv'
<1> USE DEF coreViewVars
<1>1. Tell(op, focused) \in Cmd /\ Tell(op, focused).op # "watch"
  BY TellTyped DEF ViewTypeOK, Tell
<1>2. CASE link # "up"
  BY <1>2, SidesUntouched DEF Send
<1>3. CASE link = "up"
  <2>1. cmds' = Append(cmds, Tell(op, focused)) /\ UNCHANGED <<link, evs>>
    BY <1>1, <1>3, Sent
  <2>2. /\ WatchesDiffer' /\ (Quiet(0)' <=> Quiet(0))
        /\ \A t : WillWatch(t) => WillWatch(t)'
    BY <1>1, <2>1, OtherIsSent DEF ViewInv
  <2>3. WatchAgrees'
    BY <1>3, <2>1, <2>2 DEF WatchAgrees, ViewInv
  <2>4. SentIsHeld'
    BY <1>3, <2>1, <2>2 DEF SentIsHeld, ViewInv
  <2>5. LostIsOver' /\ DragIsCaptured'
    BY <1>3, <2>1 DEF LostIsOver, DragIsCaptured
  <2> QED
    BY <2>2, <2>3, <2>4, <2>5 DEF ViewInv
<1> QED
  BY <1>2, <1>3

\* Every step keeps the agreement of the two sides.
LEMMA ViewStep ==
  ASSUME ViewTypeOK, ViewInv, [ViewNext]_viewVars
  PROVE  ViewInv'
<1> USE DEF clientVars, wireVars, coreViewVars
<1>1. CASE BeginPass
  <2>1. CASE focused = watched
    BY <1>1, <2>1, SidesUntouched DEF BeginPass, SetWatch, ViewInv, DragIsCaptured
  <2>2. CASE focused # watched
    <3>1. /\ watched' = focused /\ selection' = NoTask
          /\ screen' = IF focused = NoTask THEN NoScreen ELSE screen
          /\ Send(Tell("watch", focused))
          /\ UNCHANGED <<captured, watch, last, back, kind>>
      BY <1>1, <2>2 DEF BeginPass, SetWatch
    <3>2. Tell("watch", focused) \in Cmd /\ focused \in Target
      BY TellTyped DEF ViewTypeOK
    <3>3. CASE link # "up"
      <4>1. UNCHANGED <<link, cmds, evs>>
        BY <3>1, <3>3 DEF Send
      <4>2. link = "lost"
        BY <3>3 DEF ViewTypeOK
      <4>3. WatchesDiffer' /\ LostIsOver'
        BY <3>1, <4>1 DEF WatchesDiffer, Watches, LostIsOver, ViewInv
      <4>4. WatchAgrees' /\ SentIsHeld' /\ DragIsCaptured'
        BY <3>1, <4>1, <4>2 DEF WatchAgrees, SentIsHeld, DragIsCaptured
      <4> QED
        BY <4>3, <4>4 DEF ViewInv
    <3>4. CASE link = "up"
      <4>1. cmds' = Append(cmds, Tell("watch", focused)) /\ UNCHANGED <<link, evs>>
        BY <3>1, <3>2, <3>4, Sent
      <4>2. WillWatch(watched)
        BY <3>4 DEF ViewInv, WatchAgrees
      <4>3. PICK t \in Target : t = focused
        BY <3>2
      <4>4. WatchesDiffer' /\ WillWatch(t)' /\ ~Quiet(0)'
        BY <2>2, <3>1, <4>1, <4>2, <4>3, WatchIsSent DEF ViewInv
      <4>5. WatchAgrees'
        BY <3>1, <4>3, <4>4 DEF WatchAgrees
      <4>6. SentIsHeld'
        BY <3>1, <3>4, <4>1, <4>4 DEF SentIsHeld, ViewInv
      <4>7. LostIsOver' /\ DragIsCaptured'
        BY <3>1, <3>4, <4>1 DEF LostIsOver, DragIsCaptured
      <4> QED
        BY <4>4, <4>5, <4>6, <4>7 DEF ViewInv
    <3> QED
      BY <3>3, <3>4
  <2> QED
    BY <2>1, <2>2
<1>2. CASE OnScreen
  <2>1. /\ evs # <<>> /\ screen' = Head(evs) /\ evs' = Tail(evs)
        /\ UNCHANGED <<watched, captured, link, cmds, watch, last>>
    BY <1>2 DEF OnScreen
  <2>2. selection' \in {selection, NoTask}
    BY <1>2 DEF OnScreen
  <2>3. WatchAgrees' /\ WatchesDiffer' /\ LostIsOver'
    BY <2>1 DEF ViewInv, WatchAgrees, WillWatch, Quiet, WatchesDiffer, Watches, LostIsOver
  <2>4. SentIsHeld'
    <3>1. CASE Len(evs) = 1
      BY <2>1, <3>1, EvsFront, EmptySeq DEF SentIsHeld, ViewInv
    <3>2. CASE Len(evs) # 1
      <4>1. Len(Tail(evs)) \in 1 .. Len(evs) - 1 /\ Tail(evs)[Len(Tail(evs))] = evs[Len(evs)]
        BY <2>1, <3>2, EvsFront
      <4>2. evs' # <<>>
        BY <2>1, <4>1
      <4> QED
        BY <2>1, <4>1, <4>2 DEF SentIsHeld, ViewInv
    <3> QED
      BY <3>1, <3>2
  <2>5. DragIsCaptured'
    BY <2>1, <2>2 DEF DragIsCaptured, ViewInv
  <2> QED
    BY <2>3, <2>4, <2>5 DEF ViewInv
<1>3. CASE EndPass
  BY <1>3, SidesUntouched DEF EndPass
<1>4. ASSUME NEW t \in Task, AttachTo(t) PROVE ViewInv'
  BY <1>4, SidesUntouched DEF AttachTo, Key, ViewInv, DragIsCaptured
<1>5. CASE Detach \/ Resize \/ Release
  BY <1>5, SidesUntouched DEF Detach, Resize, Release, Key
<1>6. CASE ScrollUp \/ WheelEnters
  BY <1>6, OtherKeepsSides DEF ScrollUp, WheelEnters, Key
<1>7. CASE ScrollDown \/ ScrollEnds
  BY <1>7, OtherKeepsSides DEF ScrollDown, ScrollEnds, Key
<1>8. CASE OnPaste \/ Forward
  <2>1. selection' # NoTask => captured'
    BY <1>8 DEF OnPaste, Forward, Key, ViewInv, DragIsCaptured
  <2> QED
    BY <1>8, <2>1, OtherKeepsSides DEF OnPaste, Forward, Key
<1>9. CASE Press
  <2>1. selection' # NoTask => captured'
    BY <1>9 DEF Press, Key
  <2> QED
    BY <1>9, <2>1, SidesUntouched DEF Press, Key
<1>10. CASE Report
  <2>1. selection' # NoTask => captured'
    BY <1>10 DEF Report, Key, ViewInv, DragIsCaptured
  <2> QED
    BY <1>10, <2>1, OtherKeepsSides DEF Report, Key
<1>11. CASE Apply
  <2>1. /\ cmds # <<>> /\ cmds' = Tail(cmds)
        /\ UNCHANGED <<watched, screen, selection, captured, link, evs>>
    BY <1>11 DEF Apply
  <2>2. watch' = IF Head(cmds).op = "watch" THEN Head(cmds).id ELSE watch
    BY <1>11 DEF Apply, ApplyWatch, ApplyOther
  <2>3. /\ WatchesDiffer' /\ \A t : WillWatch(t) => WillWatch(t)'
        /\ Head(cmds).op = "watch" => Head(cmds).id # watch
        /\ Head(cmds).op # "watch" /\ ~Quiet(0) => ~Quiet(0)'
    BY <2>1, <2>2, FrontIsRead DEF ViewInv
  <2>4. link = "up"
    BY <2>1 DEF ViewInv, LostIsOver, ViewTypeOK
  <2>5. WatchAgrees'
    BY <2>1, <2>3 DEF ViewInv, WatchAgrees
  <2>6. SentIsHeld'
    <3>1. CASE Head(cmds).op = "watch"
      <4>1. last' = NoScreen
        BY <1>11, <2>3, <3>1 DEF Apply, ApplyWatch
      <4> QED
        BY <4>1 DEF SentIsHeld
    <3>2. CASE Head(cmds).op # "watch"
      <4>1. last' = last
        BY <1>11, <3>2 DEF Apply, ApplyOther
      <4> QED
        BY <2>1, <2>3, <3>2, <4>1 DEF SentIsHeld, ViewInv
    <3> QED
      BY <3>1, <3>2
  <2>7. LostIsOver' /\ DragIsCaptured'
    BY <2>1, <2>4 DEF ViewInv, LostIsOver, DragIsCaptured
  <2> QED
    BY <2>3, <2>5, <2>6, <2>7 DEF ViewInv
<1>12. CASE Tick
  <2>1. /\ link = "up" /\ evs' = Append(evs, View(watch)) /\ last' = View(watch)
        /\ UNCHANGED <<watched, screen, selection, captured, link, cmds, watch>>
    BY <1>12 DEF Tick
  <2>2. View(watch) \in Screen
    BY <1>12 DEF Tick, Due, View, Screen, Offset, ViewTypeOK, Target
  <2>3. SentIsHeld'
    BY <2>1, <2>2, EvsBehind DEF SentIsHeld
  <2>4. WatchAgrees' /\ WatchesDiffer'
    BY <2>1 DEF ViewInv, WatchAgrees, WillWatch, Quiet, WatchesDiffer, Watches
  <2>5. LostIsOver' /\ DragIsCaptured'
    BY <2>1 DEF ViewInv, LostIsOver, DragIsCaptured
  <2> QED
    BY <2>3, <2>4, <2>5 DEF ViewInv
<1>13. ASSUME NEW t \in Task, Output(t) PROVE ViewInv'
  <2>1. /\ last' \in {last, NoScreen}
        /\ UNCHANGED <<watched, screen, selection, captured, link, cmds, evs, watch>>
    BY <1>13 DEF Output
  <2>2. WatchAgrees' /\ WatchesDiffer'
    BY <2>1 DEF ViewInv, WatchAgrees, WillWatch, Quiet, WatchesDiffer, Watches
  <2>3. SentIsHeld'
    BY <2>1 DEF ViewInv, SentIsHeld, Quiet
  <2>4. LostIsOver' /\ DragIsCaptured'
    BY <2>1 DEF ViewInv, LostIsOver, DragIsCaptured
  <2> QED
    BY <2>2, <2>3, <2>4 DEF ViewInv
<1>14. CASE Lose
  <2>1. WatchAgrees' /\ SentIsHeld' /\ LostIsOver'
    BY <1>14 DEF Lose, WatchAgrees, SentIsHeld, LostIsOver
  <2>2. WatchesDiffer'
    BY <1>14 DEF Lose, WatchesDiffer, Watches
  <2>3. DragIsCaptured'
    BY <1>14 DEF Lose, DragIsCaptured, ViewInv
  <2> QED
    BY <2>1, <2>2, <2>3 DEF ViewInv
<1>15. CASE Reconnect
  <2>1. /\ cmds = <<>> /\ watch = NoTask /\ last = NoScreen /\ watched' = NoTask
        /\ UNCHANGED <<captured, selection, cmds, watch, last>>
    BY <1>15 DEF Reconnect, ViewInv, LostIsOver
  <2>2. WatchAgrees'
    BY <2>1 DEF WatchAgrees, WillWatch, Quiet
  <2>3. WatchesDiffer'
    BY <2>1 DEF WatchesDiffer, Watches
  <2>4. SentIsHeld' /\ LostIsOver' /\ DragIsCaptured'
    BY <2>1 DEF SentIsHeld, LostIsOver, DragIsCaptured, ViewInv
  <2> QED
    BY <2>2, <2>3, <2>4 DEF ViewInv
<1>16. CASE UNCHANGED viewVars
  BY <1>16, SidesUntouched DEF viewVars, ViewInv, DragIsCaptured
<1> QED
  BY <1>1, <1>2, <1>3, <1>4, <1>5, <1>6, <1>7, <1>8, <1>9, <1>10, <1>11, <1>12, <1>13, <1>14, <1>15, <1>16
  DEF ViewNext, Pass, Keys, Mouse, Core

\* The client's memory of its watch and the core's memory of the screen it sent stay in
\* step over attachments, detachments and connections.
THEOREM ViewHolds == ViewSpec => [](ViewTypeOK /\ ViewInv)
<1>1. ViewInit => ViewTypeOK
  BY EmptySeq DEF ViewInit, ViewTypeOK, Target, Policies
<1>2. ViewInit => ViewInv
  BY DEF ViewInit, ViewInv, WatchAgrees, WillWatch, Quiet, WatchesDiffer, Watches, SentIsHeld,
         LostIsOver, DragIsCaptured
<1>3. ViewTypeOK /\ ViewInv /\ [ViewNext]_viewVars => (ViewTypeOK /\ ViewInv)'
  BY ViewTypeStep, ViewStep
<1> QED
  BY <1>1, <1>2, <1>3, PTL DEF ViewSpec

\* Whatever the user, the children and the connection did, once nothing is on the way
\* and neither side has anything to say, an attached user looks at the task as it is;
\* and the client never believes to have asked for a watch that the core will not keep.
THEOREM UserSeesTheTask == ViewSpec => []ViewIsCurrent
<1>1. ViewTypeOK /\ ViewInv => ViewIsCurrent
  <2> SUFFICES ASSUME ViewTypeOK, ViewInv, Settled, Attached
               PROVE  screen = View(focused)
    BY DEF ViewIsCurrent, SettledIsCurrent, ViewInv
  <2>1. Quiet(0) /\ cmds = <<>> /\ evs = <<>> /\ link = "up"
    BY DEF Settled, Quiet
  <2>2. watch = focused
    BY <2>1 DEF ViewInv, WatchAgrees, WillWatch, Settled
  <2>3. last = View(focused)
    BY <2>2 DEF Settled, Due, Attached
  <2>4. last # NoScreen
    BY <2>2, <2>3, ViewportAssumption DEF View, NoScreen, Attached, ViewTypeOK, Target
  <2> QED
    BY <2>1, <2>3, <2>4 DEF ViewInv, SentIsHeld
<1> QED
  BY <1>1, ViewHolds, PTL

\* No drag outlives the mouse reports of the terminal that would end it, and none is
\* painted over a dashboard.
THEOREM DragsEnd == ViewSpec => DragWillEnd
<1>1. ViewInv /\ ViewInv' /\ [ViewNext]_viewVars
        => [selection' # NoTask => captured' /\ (EndPass => focused' # NoTask)]_viewVars
  <2> SUFFICES ASSUME ViewInv, ViewInv', selection' # NoTask
               PROVE  captured' /\ (EndPass => focused' # NoTask)
    OBVIOUS
  <2>1. captured'
    BY DEF ViewInv, DragIsCaptured
  <2>2. EndPass => focused' # NoTask
    BY <2>1 DEF EndPass, Capture
  <2> QED
    BY <2>1, <2>2
<1> QED
  BY <1>1, ViewHolds, PTL DEF ViewSpec, DragWillEnd

-----------------------------------------------------------------------------
(* Lists of keyed things, in the order of their keys.                      *)

\* Keys of one length are ordered as the first place that tells them apart.
LEMMA KeysDiffer ==
  ASSUME NEW L \in Nat, NEW a \in [1 .. L -> Nat], NEW b \in [1 .. L -> Nat], a # b
  PROVE  Precedes(a, b) \/ Precedes(b, a)
<1> DEFINE T == {n \in 1 .. L : a[n] # b[n]}
<1>1. T \subseteq Nat /\ T # {}
  OBVIOUS
<1> HIDE DEF T
<1>2. PICK n \in T : \A m \in T : n <= m
  BY <1>1, LeastNatural
<1>3. n \in 1 .. L /\ a[n] # b[n] /\ \A m \in 1 .. n - 1 : a[m] = b[m]
  BY <1>2 DEF T
<1>4. a[n] < b[n] \/ b[n] < a[n]
  BY <1>3
<1> QED
  BY <1>3, <1>4 DEF Precedes

\* Of two such keys one precedes the other, and none precedes itself.
LEMMA KeysOrdered ==
  ASSUME NEW L \in Nat, NEW a \in [1 .. L -> Nat], NEW b \in [1 .. L -> Nat]
  PROVE  ~(Precedes(a, b) /\ Precedes(b, a)) /\ ~Precedes(a, a)
<1>1. ASSUME Precedes(a, b), Precedes(b, a) PROVE FALSE
  <2>1. PICK n \in 1 .. L : a[n] < b[n] /\ \A m \in 1 .. n - 1 : a[m] = b[m]
    BY <1>1 DEF Precedes
  <2>2. PICK k \in 1 .. L : b[k] < a[k] /\ \A m \in 1 .. k - 1 : a[m] = b[m]
    BY <1>1 DEF Precedes
  <2>3. CASE n < k
    BY <2>1, <2>2, <2>3
  <2>4. CASE k < n
    BY <2>1, <2>2, <2>4
  <2>5. CASE n = k
    BY <2>1, <2>2, <2>5
  <2> QED
    BY <2>3, <2>4, <2>5
<1>2. ~Precedes(a, a)
  BY DEF Precedes
<1> QED
  BY <1>1, <1>2

\* What precedes what precedes a third precedes it.
LEMMA KeysTransitive ==
  ASSUME NEW L \in Nat, NEW a \in [1 .. L -> Nat], NEW b \in [1 .. L -> Nat], NEW c \in [1 .. L -> Nat],
         Precedes(a, b), Precedes(b, c)
  PROVE  Precedes(a, c)
<1>1. PICK n \in 1 .. L : a[n] < b[n] /\ \A m \in 1 .. n - 1 : a[m] = b[m]
  BY DEF Precedes
<1>2. PICK k \in 1 .. L : b[k] < c[k] /\ \A m \in 1 .. k - 1 : b[m] = c[m]
  BY DEF Precedes
<1>3. CASE n <= k
  <2>1. a[n] < c[n] /\ \A m \in 1 .. n - 1 : a[m] = c[m]
    BY <1>1, <1>2, <1>3
  <2> QED
    BY <2>1 DEF Precedes
<1>4. CASE k < n
  <2>1. a[k] < c[k] /\ \A m \in 1 .. k - 1 : a[m] = c[m]
    BY <1>1, <1>2, <1>4
  <2> QED
    BY <2>1 DEF Precedes
<1> QED
  BY <1>3, <1>4

\* What s must be to list the elements of S once each, in the order of their keys.
Ascends(s, S, key) ==
  /\ s \in [1 .. Cardinality(S) -> S]
  /\ \A n \in DOMAIN s : \A m \in 1 .. n - 1 : Precedes(key[s[m]], key[s[n]])

\* There is an ascending list of every finite set with distinct keys: the place of an
\* element is the number of those that do not come after it.
LEMMA OrderExists ==
  ASSUME NEW S, IsFiniteSet(S), NEW L \in Nat, NEW key,
         \A x \in S : key[x] \in [1 .. L -> Nat],
         \A x, y \in S : key[x] = key[y] => x = y
  PROVE  \E s : Ascends(s, S, key)
<1> DEFINE Upto(x) == {y \in S : y = x \/ Precedes(key[y], key[x])}
           N == Cardinality(S)
           rank == [x \in S |-> Cardinality(Upto(x))]
<1>1. N \in Nat
  BY FS_CardinalityType
<1>2. ASSUME NEW x \in S PROVE IsFiniteSet(Upto(x)) /\ rank[x] \in 1 .. N
  <2>1. Upto(x) \in SUBSET S /\ x \in Upto(x)
    OBVIOUS
  <2> HIDE DEF Upto
  <2>2. IsFiniteSet(Upto(x)) /\ Cardinality(Upto(x)) <= N
    BY <2>1, FS_Subset
  <2>3. Cardinality(Upto(x)) \in Nat
    BY <2>2, FS_CardinalityType
  <2>4. Cardinality(Upto(x)) # 0
    BY <2>1, <2>2, FS_EmptySet
  <2> QED
    BY <1>1, <2>2, <2>3, <2>4
<1>3. ASSUME NEW x \in S, NEW y \in S, Precedes(key[x], key[y]) PROVE rank[x] < rank[y]
  <2>1. Upto(x) \in SUBSET Upto(y)
    BY <1>3, KeysTransitive
  <2>2. y \in Upto(y) /\ y \notin Upto(x)
    BY <1>3, KeysOrdered
  <2> HIDE DEF Upto
  <2>3. Cardinality(Upto(x)) <= Cardinality(Upto(y)) /\ Cardinality(Upto(x)) # Cardinality(Upto(y))
    BY <1>2, <2>1, <2>2, FS_Subset
  <2>4. rank[x] = Cardinality(Upto(x)) /\ rank[y] = Cardinality(Upto(y)) /\ rank[x] \in Nat /\ rank[y] \in Nat
    BY <1>2
  <2> QED
    BY <2>3, <2>4
<1>4. ASSUME NEW x \in S, NEW y \in S, x # y PROVE Precedes(key[x], key[y]) \/ Precedes(key[y], key[x])
  BY <1>4, KeysDiffer
<1>5. rank \in [S -> 1 .. N]
  BY <1>2
<1> HIDE DEF rank
<1>6. rank \in Injection(S, 1 .. N)
  <2>1. ASSUME NEW x \in S, NEW y \in S, rank[x] = rank[y] PROVE x = y
    <3>1. rank[x] \in Nat /\ rank[y] \in Nat
      BY <1>5
    <3> QED
      BY <1>3, <1>4, <2>1, <3>1
  <2> QED
    BY <1>5, <2>1 DEF Injection, IsInjective
<1>7. IsFiniteSet(1 .. N) /\ Cardinality(1 .. N) = N
  BY <1>1, FS_Interval
<1>8. rank \in Surjection(S, 1 .. N)
  BY <1>6, <1>7, FS_Injection
<1>9. \A n \in 1 .. N : \E x \in S : rank[x] = n
  BY <1>8 DEF Surjection
<1> DEFINE s == [n \in 1 .. N |-> CHOOSE x \in S : rank[x] = n]
<1>10. \A n \in 1 .. N : s[n] \in S /\ rank[s[n]] = n
  BY <1>9
<1>11. s \in [1 .. N -> S]
  BY <1>10
<1> HIDE DEF s
<1>12. ASSUME NEW n \in 1 .. N, NEW m \in 1 .. n - 1 PROVE Precedes(key[s[m]], key[s[n]])
  <2>1. m \in 1 .. N /\ m < n
    BY <1>1, <1>12
  <2>2. rank[s[m]] = m /\ rank[s[n]] = n /\ s[m] \in S /\ s[n] \in S
    BY <1>10, <2>1
  <2>3. ~(n < m) /\ m # n
    BY <2>1, <1>1
  <2> QED
    BY <1>3, <1>4, <2>2, <2>3
<1>13. DOMAIN s = 1 .. N
  BY <1>11
<1> QED
  BY <1>11, <1>12, <1>13 DEF Ascends

\* The elements of S have keys of one length, and no two the same.
Keyed(S, key) ==
  /\ \E L \in Nat : \A x \in S : key[x] \in [1 .. L -> Nat]
  /\ \A x, y \in S : key[x] = key[y] => x = y

\* Ordered lists each element once, in the order of the keys.
LEMMA OrderedIs ==
  ASSUME NEW S, IsFiniteSet(S), NEW key, Keyed(S, key)
  PROVE  /\ Ascends(Ordered(S, key), S, key)
         /\ Cardinality(S) \in Nat
         /\ DOMAIN Ordered(S, key) = 1 .. Cardinality(S)
         /\ \A m, n \in 1 .. Cardinality(S) : Ordered(S, key)[m] = Ordered(S, key)[n] => m = n
         /\ {Ordered(S, key)[n] : n \in 1 .. Cardinality(S)} = S
<1> DEFINE s == Ordered(S, key)
           N == Cardinality(S)
<1>0. PICK L \in Nat : \A x \in S : key[x] \in [1 .. L -> Nat]
  BY DEF Keyed
<1>1. \E t \in [1 .. N -> S] : \A n \in DOMAIN t : \A m \in 1 .. n - 1 : Precedes(key[t[m]], key[t[n]])
  BY <1>0, OrderExists DEF Ascends, Keyed
<1>2. Ascends(s, S, key)
  BY <1>1 DEF Ordered, Ascends
<1>3. N \in Nat
  BY FS_CardinalityType
<1>4. s \in [1 .. N -> S] /\ DOMAIN s = 1 .. N
  BY <1>2 DEF Ascends
<1>5. ASSUME NEW m \in 1 .. N, NEW n \in 1 .. N, m < n PROVE s[m] # s[n]
  <2>1. Precedes(key[s[m]], key[s[n]])
    BY <1>2, <1>3, <1>4, <1>5 DEF Ascends
  <2>2. ~Precedes(key[s[m]], key[s[m]])
    BY <1>0, <1>4, KeysOrdered
  <2> QED
    BY <2>1, <2>2
<1> HIDE DEF s
<1>6. \A m, n \in 1 .. N : s[m] = s[n] => m = n
  BY <1>3, <1>5
<1>7. s \in Injection(1 .. N, S)
  BY <1>4, <1>6 DEF Injection, IsInjective
<1>8. s \in Surjection(1 .. N, S)
  BY <1>7, <1>3, FS_Injection, FS_Interval
<1>9. {s[n] : n \in 1 .. N} = S
  BY <1>8, <1>4 DEF Surjection
<1> QED
  BY <1>2, <1>3, <1>4, <1>6, <1>9 DEF s

\* The elements of a finite set of positions in order.
LEMMA PlacesIs ==
  ASSUME NEW P, IsFiniteSet(P), P \subseteq Nat
  PROVE  /\ Cardinality(P) \in Nat
         /\ Places(P) \in [1 .. Cardinality(P) -> P]
         /\ \A n \in 1 .. Cardinality(P) : \A m \in 1 .. n - 1 : Places(P)[m] < Places(P)[n]
         /\ {Places(P)[n] : n \in 1 .. Cardinality(P)} = P
<1> DEFINE key == [x \in P |-> <<x>>]
           N == Cardinality(P)
           Lists1 == [1 .. N -> P]
           s == Ordered(P, key)
<1>1. \A x \in P : key[x] \in [1 .. 1 -> Nat]
  OBVIOUS
<1>2. \A x, y \in P : key[x] = key[y] => x = y
  OBVIOUS
<1>a. 1 \in Nat /\ Keyed(P, key)
  BY <1>1, <1>2 DEF Keyed
<1>3. ASSUME NEW x \in P, NEW y \in P PROVE Precedes(key[x], key[y]) <=> x < y
  <2>1. key[x] = <<x>> /\ key[y] = <<y>>
    OBVIOUS
  <2>2. DOMAIN <<x>> = {1} /\ <<x>>[1] = x /\ <<y>>[1] = y /\ 1 .. 1 - 1 = {}
    OBVIOUS
  <2> HIDE DEF key
  <2> QED
    BY <2>1, <2>2 DEF Precedes
<1> HIDE DEF key
<1>4. Ascends(s, P, key) /\ N \in Nat
  BY <1>a, OrderedIs
<1>5. s \in Lists1
  BY <1>4 DEF Ascends
<1>6. ASSUME NEW t \in Lists1
      PROVE  Ascends(t, P, key) <=> \A n \in DOMAIN t : \A m \in 1 .. n - 1 : t[m] < t[n]
  <2>1. DOMAIN t = 1 .. N /\ \A n \in 1 .. N : t[n] \in P
    OBVIOUS
  <2>2. \A n \in 1 .. N : \A m \in 1 .. n - 1 : m \in 1 .. N
    BY <1>4
  <2> QED
    BY <2>1, <2>2, <1>3 DEF Ascends
<1> DEFINE q == Places(P)
<1>7. q \in Lists1 /\ \A n \in DOMAIN q : \A m \in 1 .. n - 1 : q[m] < q[n]
  <2>1. \E t \in Lists1 : \A n \in DOMAIN t : \A m \in 1 .. n - 1 : t[m] < t[n]
    BY <1>4, <1>5, <1>6
  <2> QED
    BY <2>1 DEF Places
<1> HIDE DEF q, s
<1>8. DOMAIN q = 1 .. N
  BY <1>7
<1>9. ASSUME NEW m \in 1 .. N, NEW n \in 1 .. N, q[m] = q[n] PROVE m = n
  <2>1. q[m] \in Nat /\ q[n] \in Nat
    BY <1>7
  <2>2. ~(q[m] < q[n]) /\ ~(q[n] < q[m])
    BY <1>9, <2>1
  <2> QED
    BY <1>4, <1>7, <1>8, <2>2
<1>10. q \in Injection(1 .. N, P)
  BY <1>7, <1>9 DEF Injection, IsInjective
<1>11. q \in Surjection(1 .. N, P)
  BY <1>10, <1>4, FS_Injection, FS_Interval
<1>12. {q[n] : n \in 1 .. N} = P
  BY <1>11, <1>7 DEF Surjection
<1> QED
  BY <1>4, <1>7, <1>8, <1>12 DEF q

\* A part of a sequence is a sequence.
LEMMA OnlyIsSeq ==
  ASSUME NEW S, NEW s \in Seq(S), NEW P, P \subseteq DOMAIN s
  PROVE  Only(s, P) \in Seq(S)
<1>1. Len(s) \in Nat /\ DOMAIN s = 1 .. Len(s)
  BY LenProperties
<1>2. IsFiniteSet(P) /\ P \subseteq Nat
  <2>1. IsFiniteSet(1 .. Len(s)) /\ P \in SUBSET (1 .. Len(s))
    BY <1>1, FS_Interval
  <2>2. IsFiniteSet(P)
    BY <2>1, FS_Subset
  <2> QED
    BY <2>1, <2>2
<1> DEFINE at == Places(P)
           N == Cardinality(P)
<1>3. N \in Nat /\ at \in [1 .. N -> P]
  BY <1>2, PlacesIs
<1> HIDE DEF at, N
<1>4. DOMAIN at = 1 .. N /\ \A n \in 1 .. N : s[at[n]] \in S
  BY <1>1, <1>3
<1>5. [n \in DOMAIN at |-> s[at[n]]] \in [1 .. N -> S]
  BY <1>4
<1>6. Only(s, P) = [n \in DOMAIN at |-> s[at[n]]]
  BY DEF Only, at
<1> QED
  BY <1>3, <1>5, <1>6

\* A snapshot is a sequence with finitely many positions.
LEMMA SnapshotIs ==
  ASSUME NEW views, Snapshot(views)
  PROVE  Len(views) \in Nat /\ DOMAIN views = 1 .. Len(views) /\ IsFiniteSet(DOMAIN views)
BY LenProperties, FS_Interval DEF Snapshot

\* A collation key is a pair of numbers, and tells labels apart.
LEMMA CollationIs ==
  /\ \A c : Collation(c) \in Nat \X Nat /\ Collation(c) \in Seq(Nat) /\ Len(Collation(c)) = 2
  /\ \A c, d \in Labels : Collation(c) = Collation(d) => c = d
<1>1. ASSUME NEW c PROVE Collation(c) \in Nat \X Nat
  BY ListingAssumption DEF Collation
<1>2. ASSUME NEW c \in Labels, NEW d \in Labels, Collation(c) = Collation(d) PROVE c = d
  BY <1>2, ListingAssumption DEF Collation
<1>3. ASSUME NEW p \in Nat \X Nat PROVE p \in Seq(Nat) /\ Len(p) = 2
  <2>1. PICK x \in Nat, y \in Nat : p = <<x, y>>
    OBVIOUS
  <2> QED
    BY <2>1
<1> QED
  BY <1>1, <1>2, <1>3

\* The collations of labels are such keys.
LEMMA CollationsIs ==
  ASSUME NEW S, S \subseteq Labels
  PROVE  Keyed(S, Collations)
<1>1. \A c \in S : Collations[c] = Collation(c)
  BY DEF Collations
<1>2. \A p \in Nat \X Nat : p \in [1 .. 2 -> Nat]
  OBVIOUS
<1>3. 2 \in Nat /\ \A c \in S : Collations[c] \in [1 .. 2 -> Nat]
  BY <1>1, <1>2, CollationIs
<1>4. \A c, d \in S : Collations[c] = Collations[d] => c = d
  BY <1>1, CollationIs
<1> QED
  BY <1>3, <1>4 DEF Keyed

\* The key of a view: rank and label of its section, then its place there, its ID at last.
LEMMA SortKeyIs ==
  ASSUME NEW mode, NEW v, v.id \in Nat
  PROVE  LET k == SortKey(mode, v)
             s == Section(mode, v)
         IN  /\ s.rank \in Nat
             /\ k \in [1 .. 7 -> Nat]
             /\ k[1] = s.rank /\ k[2] = Collation(s.label)[1] /\ k[3] = Collation(s.label)[2]
             /\ k[4] = RowRank(v) /\ k[5] = Collation(v.cwd)[1] /\ k[6] = Collation(v.cwd)[2]
             /\ k[7] = v.id
<1> DEFINE s == Section(mode, v)
           c == Collation(s.label)
           d == Collation(v.cwd)
           r == <<s.rank>>
           w == <<RowRank(v)>>
           i == <<v.id>>
<1>1. s.rank \in Nat
  BY DEF Section, StateRank
<1>2. RowRank(v) \in Nat
  BY DEF RowRank
<1>3. /\ r \in Seq(Nat) /\ Len(r) = 1 /\ r[1] = s.rank
      /\ w \in Seq(Nat) /\ Len(w) = 1 /\ w[1] = RowRank(v)
      /\ i \in Seq(Nat) /\ Len(i) = 1 /\ i[1] = v.id
  BY <1>1, <1>2
<1>4. c \in Seq(Nat) /\ Len(c) = 2 /\ d \in Seq(Nat) /\ Len(d) = 2
  BY CollationIs
<1>5. SortKey(mode, v) = (((r \o c) \o w) \o d) \o i
  BY DEF SortKey
<1> HIDE DEF s, c, d, r, w, i
<1> DEFINE k3 == r \o c
           k4 == k3 \o w
           k6 == k4 \o d
           k7 == k6 \o i
<1>6. /\ k3 \in Seq(Nat) /\ Len(k3) = 3
      /\ \A n \in 1 .. 3 : k3[n] = IF n <= 1 THEN r[n] ELSE c[n - 1]
  <2>1. r \in Seq(Nat) /\ c \in Seq(Nat) /\ Len(r) = 1 /\ Len(c) = 2
    BY <1>3, <1>4
  <2>2. /\ k3 \in Seq(Nat) /\ Len(k3) = Len(r) + Len(c)
        /\ \A n \in 1 .. Len(r) + Len(c) : k3[n] = IF n <= Len(r) THEN r[n] ELSE c[n - Len(r)]
    BY <2>1, ConcatProperties
  <2> HIDE DEF k3
  <2> QED
    BY <2>1, <2>2
<1> HIDE DEF k3
<1>7. /\ k4 \in Seq(Nat) /\ Len(k4) = 4
      /\ \A n \in 1 .. 4 : k4[n] = IF n <= 3 THEN k3[n] ELSE w[n - 3]
  <2>1. k3 \in Seq(Nat) /\ w \in Seq(Nat) /\ Len(k3) = 3 /\ Len(w) = 1
    BY <1>3, <1>4, <1>6
  <2>2. /\ k4 \in Seq(Nat) /\ Len(k4) = Len(k3) + Len(w)
        /\ \A n \in 1 .. Len(k3) + Len(w) : k4[n] = IF n <= Len(k3) THEN k3[n] ELSE w[n - Len(k3)]
    BY <2>1, ConcatProperties
  <2> HIDE DEF k4
  <2> QED
    BY <2>1, <2>2
<1> HIDE DEF k4
<1>8. /\ k6 \in Seq(Nat) /\ Len(k6) = 6
      /\ \A n \in 1 .. 6 : k6[n] = IF n <= 4 THEN k4[n] ELSE d[n - 4]
  <2>1. k4 \in Seq(Nat) /\ d \in Seq(Nat) /\ Len(k4) = 4 /\ Len(d) = 2
    BY <1>3, <1>4, <1>7
  <2>2. /\ k6 \in Seq(Nat) /\ Len(k6) = Len(k4) + Len(d)
        /\ \A n \in 1 .. Len(k4) + Len(d) : k6[n] = IF n <= Len(k4) THEN k4[n] ELSE d[n - Len(k4)]
    BY <2>1, ConcatProperties
  <2> HIDE DEF k6
  <2> QED
    BY <2>1, <2>2
<1> HIDE DEF k6
<1>9. /\ k7 \in Seq(Nat) /\ Len(k7) = 7
      /\ \A n \in 1 .. 7 : k7[n] = IF n <= 6 THEN k6[n] ELSE i[n - 6]
  <2>1. k6 \in Seq(Nat) /\ i \in Seq(Nat) /\ Len(k6) = 6 /\ Len(i) = 1
    BY <1>3, <1>4, <1>8
  <2>2. /\ k7 \in Seq(Nat) /\ Len(k7) = Len(k6) + Len(i)
        /\ \A n \in 1 .. Len(k6) + Len(i) : k7[n] = IF n <= Len(k6) THEN k6[n] ELSE i[n - Len(k6)]
    BY <2>1, ConcatProperties
  <2> HIDE DEF k7
  <2> QED
    BY <2>1, <2>2
<1> HIDE DEF k7
<1>10. k7 \in [1 .. 7 -> Nat]
  <2>1. Len(k7) = 7
    BY <1>9
  <2> QED
    BY <1>9, <2>1, LenProperties
<1>11. SortKey(mode, v) = k7
  BY <1>5 DEF k7, k6, k4, k3
<1>12. /\ k3[1] = r[1] /\ k3[2] = c[1] /\ k3[3] = c[2]
  BY <1>6
<1>13. k4[1] = r[1] /\ k4[2] = c[1] /\ k4[3] = c[2] /\ k4[4] = w[1]
  BY <1>7, <1>12
<1>14. k6[1] = r[1] /\ k6[2] = c[1] /\ k6[3] = c[2] /\ k6[4] = w[1] /\ k6[5] = d[1] /\ k6[6] = d[2]
  BY <1>8, <1>13
<1>15. /\ k7[1] = r[1] /\ k7[2] = c[1] /\ k7[3] = c[2] /\ k7[4] = w[1] /\ k7[5] = d[1] /\ k7[6] = d[2]
       /\ k7[7] = i[1]
  BY <1>9, <1>14
<1>16. r[1] = s.rank /\ w[1] = RowRank(v) /\ i[1] = v.id
  BY <1>3
<1>17. s.rank \in Nat
  BY <1>1 DEF s
<1> HIDE DEF r, w, i
<1> QED
  BY <1>10, <1>11, <1>15, <1>16, <1>17 DEF s, c, d

\* The sort keys of a snapshot are such keys.
LEMMA SortKeysAre ==
  ASSUME NEW mode, NEW views, Snapshot(views), NEW T, T \subseteq DOMAIN views
  PROVE  Keyed(T, SortKeys(mode, views))
<1>1. ASSUME NEW i \in T
      PROVE  SortKeys(mode, views)[i] \in [1 .. 7 -> Nat] /\ SortKeys(mode, views)[i][7] = views[i].id
  <2>1. SortKeys(mode, views)[i] = SortKey(mode, views[i]) /\ views[i].id \in Nat
    BY DEF SortKeys, Snapshot
  <2> QED
    BY <2>1, SortKeyIs
<1>2. \A i, j \in T : SortKeys(mode, views)[i] = SortKeys(mode, views)[j] => i = j
  BY <1>1 DEF Snapshot
<1> DEFINE key == SortKeys(mode, views)
<1>3. 7 \in Nat /\ \A i \in T : key[i] \in [1 .. 7 -> Nat]
  BY <1>1
<1> HIDE DEF key
<1>4. \E L \in Nat : \A i \in T : key[i] \in [1 .. L -> Nat]
  BY <1>3
<1> QED
  BY <1>2, <1>4 DEF Keyed, key

-----------------------------------------------------------------------------
(* Sequences and finite sets.                                              *)

IsSeq(s) == s \in Seq({s[n] : n \in DOMAIN s})

\* A sequence is one over what it holds, and has a length.
LEMMA SeqsAre ==
  ASSUME NEW S, NEW s \in Seq(S)
  PROVE  IsSeq(s) /\ (s # <<>> => Len(s) \in Nat \ {0})
<1>1. Len(s) \in Nat /\ DOMAIN s = 1 .. Len(s) /\ s \in [1 .. Len(s) -> {s[n] : n \in DOMAIN s}]
  BY LenProperties
<1>2. s \in Seq({s[n] : n \in DOMAIN s})
  BY <1>1
<1>3. s # <<>> => Len(s) # 0
  BY <1>1, EmptySeq
<1> QED
  BY <1>1, <1>2, <1>3 DEF IsSeq

\* What follows from being a sequence at all.
LEMMA SeqLength ==
  ASSUME NEW s, IsSeq(s)
  PROVE  Len(s) \in Nat /\ DOMAIN s = 1 .. Len(s) /\ (s # <<>> <=> Len(s) # 0)
<1>1. Len(s) \in Nat /\ DOMAIN s = 1 .. Len(s)
  BY LenProperties DEF IsSeq
<1>2. s # <<>> => Len(s) # 0
  BY EmptySeq DEF IsSeq
<1>3. Len(<<>>) = 0
  BY EmptySeq
<1> QED
  BY <1>1, <1>2, <1>3

\* A function on the first numbers is a sequence.
LEMMA FunSeq ==
  ASSUME NEW n \in Nat, NEW f, f = [i \in 1 .. n |-> f[i]]
  PROVE  IsSeq(f) /\ Len(f) = n
<1> DEFINE S == {f[i] : i \in 1 .. n}
<1>1. f \in [1 .. n -> S]
  OBVIOUS
<1>2. f \in Seq(S)
  BY <1>1
<1>3. DOMAIN f = 1 .. n
  BY <1>1
<1>4. Len(f) = n
  <2>1. Len(f) \in Nat /\ DOMAIN f = 1 .. Len(f)
    BY <1>2, LenProperties
  <2>2. 1 .. Len(f) = 1 .. n
    BY <1>3, <2>1
  <2> HIDE DEF S
  <2> QED
    BY <2>1, <2>2
<1> QED
  BY <1>2, <1>4, SeqsAre

\* A function takes finitely many arguments to finitely many values.
LEMMA ImageFinite ==
  ASSUME NEW S, IsFiniteSet(S), NEW f, DOMAIN f = S
  PROVE  IsFiniteSet({f[x] : x \in S})
<1> DEFINE T == {f[x] : x \in S}
           g == [x \in S |-> f[x]]
<1>1. g \in Surjection(S, T)
  BY DEF Surjection
<1> HIDE DEF T
<1> QED
  BY <1>1, FS_Surjection DEF T

\* A finite set of numbers has a greatest.
LEMMA GreatestNatural ==
  ASSUME NEW T, T \subseteq Nat, T # {}, IsFiniteSet(T)
  PROVE  \E x \in T : \A y \in T : y <= x
<1> DEFINE N == Cardinality(T)
           q == Places(T)
<1>1. /\ N \in Nat
      /\ q \in [1 .. N -> T]
      /\ \A n \in 1 .. N : \A m \in 1 .. n - 1 : q[m] < q[n]
      /\ {q[n] : n \in 1 .. N} = T
  BY PlacesIs
<1>2. N # 0
  BY FS_EmptySet
<1> HIDE DEF q, N
<1>3. N \in 1 .. N
  BY <1>1, <1>2
<1>4. ASSUME NEW y \in T PROVE y <= q[N]
  <2>1. PICK n \in 1 .. N : q[n] = y
    BY <1>1
  <2>2. n = N \/ n \in 1 .. N - 1
    BY <1>1
  <2>3. q[N] \in Nat /\ y \in Nat
    BY <1>1, <1>3
  <2> QED
    BY <1>1, <1>3, <2>1, <2>2, <2>3
<1>5. q[N] \in T
  BY <1>1, <1>3
<1> QED
  BY <1>4, <1>5

\* The pickers offer sequences.
LEMMA AgentsAreSeq ==
  ASSUME NEW list, IsSeq(list), NEW text
  PROVE  IsSeq(AgentCandidates(list, text))
<1> DEFINE P == {n \in DOMAIN list : list[n] \in Within[text]}
<1>1. P \subseteq DOMAIN list
  OBVIOUS
<1> HIDE DEF P
<1>2. Only(list, P) \in Seq({list[n] : n \in DOMAIN list})
  BY <1>1, OnlyIsSeq DEF IsSeq
<1> QED
  BY <1>2, SeqsAre DEF AgentCandidates, P

\* The groups that begin as what was typed are finitely many labels.
LEMMA GroupNames ==
  ASSUME NEW views, Snapshot(views), NEW typed \in Typed
  PROVE  LET names == (UNION {views[i].group : i \in DOMAIN views}) \cap Begins[typed]
         IN  IsFiniteSet(names) /\ names \subseteq Labels
<1> DEFINE f == [i \in DOMAIN views |-> views[i].group]
           G == {f[i] : i \in DOMAIN views}
<1>1. IsFiniteSet(DOMAIN views)
  BY SnapshotIs
<1>2. IsFiniteSet(G)
  BY <1>1, ImageFinite
<1>3. \A g \in G : IsFiniteSet(g) /\ g \subseteq Labels
  <2>1. ASSUME NEW i \in DOMAIN views PROVE IsFiniteSet(views[i].group) /\ views[i].group \subseteq Labels
    <3>1. views[i].group \in {{}} \cup {{g} : g \in Labels}
      BY DEF Snapshot
    <3> QED
      BY <3>1, FS_EmptySet, FS_Singleton
  <2> QED
    BY <2>1
<1>4. IsFiniteSet(UNION G)
  BY <1>2, <1>3, FS_UNION
<1>5. G = {views[i].group : i \in DOMAIN views}
  OBVIOUS
<1> HIDE DEF G, f
<1> DEFINE U == UNION G
<1> HIDE DEF U
<1>6. IsFiniteSet(U \cap Begins[typed])
  BY <1>4, FS_Intersection, Zenon DEF U
<1>7. U \subseteq Labels
  BY <1>3 DEF U
<1>8. U = UNION {views[i].group : i \in DOMAIN views}
  BY <1>5 DEF U
<1> DEFINE names == (UNION {views[i].group : i \in DOMAIN views}) \cap Begins[typed]
<1>9. names = U \cap Begins[typed]
  BY DEF U, G, f
<1> HIDE DEF names
<1>10. IsFiniteSet(names) /\ names \subseteq Labels
  BY <1>6, <1>7, <1>9
<1> QED
  BY <1>10 DEF names

\* What the group picker offers, under no group: one row for each name.
GroupRows(cands, names) ==
  /\ IsSeq(cands) /\ Cardinality(names) \in Nat /\ Len(cands) = Cardinality(names) + 1
  /\ cands[1] = {}
  /\ \A n \in 2 .. Len(cands) : cands[n] = {Ordered(names, Collations)[n - 1]}

\* The group picker offers no group, then each of those once.
LEMMA GroupsAreSeq ==
  ASSUME NEW views, Snapshot(views), NEW typed \in Typed
  PROVE  GroupRows(GroupCandidates(views, typed), (UNION {views[i].group : i \in DOMAIN views}) \cap Begins[typed])
<1> DEFINE names == (UNION {views[i].group : i \in DOMAIN views}) \cap Begins[typed]
           s == Ordered(names, Collations)
           N == Cardinality(names)
           f == [n \in DOMAIN s |-> {s[n]}]
           S == {{x} : x \in names} \cup {{}}
           cands == GroupCandidates(views, typed)
<1>1. IsFiniteSet(names) /\ names \subseteq Labels
  BY GroupNames
<1> HIDE DEF names
<1>2. Ascends(s, names, Collations) /\ N \in Nat /\ DOMAIN s = 1 .. N
  BY <1>1, CollationsIs, OrderedIs
<1>3. s \in [1 .. N -> names]
  BY <1>2 DEF Ascends
<1> HIDE DEF s, N
<1>4. f \in [1 .. N -> S]
  BY <1>2, <1>3
<1>5. f \in Seq(S) /\ Len(f) = N
  BY <1>2, <1>4, FunSeq
<1>6. <<{}>> \in Seq(S) /\ Len(<<{}>>) = 1 /\ <<{}>>[1] = {}
  OBVIOUS
<1>7. cands = <<{}>> \o f
  BY DEF GroupCandidates, s, names
<1>8. \A n \in 1 .. N : f[n] = {s[n]}
  BY <1>2
<1> HIDE DEF S, cands, f
<1>9. /\ cands \in Seq(S) /\ Len(cands) = Len(<<{}>>) + Len(f)
      /\ \A n \in 1 .. Len(<<{}>>) + Len(f) : cands[n] = IF n <= Len(<<{}>>) THEN <<{}>>[n] ELSE f[n - Len(<<{}>>)]
  BY <1>5, <1>6, <1>7, ConcatProperties
<1>10. /\ Len(cands) = 1 + N /\ cands[1] = {}
       /\ \A n \in 2 .. 1 + N : cands[n] = f[n - 1]
  BY <1>2, <1>5, <1>6, <1>9
<1>11. \A n \in 2 .. 1 + N : cands[n] = {s[n - 1]}
  BY <1>2, <1>8, <1>10
<1>12. IsSeq(cands) /\ Len(cands) = N + 1
  BY <1>2, <1>9, <1>10, SeqsAre
<1>13. \A n \in 2 .. Len(cands) : cands[n] = {s[n - 1]}
  BY <1>2, <1>11, <1>12
<1> HIDE DEF cands
<1>14. N \in Nat /\ cands[1] = {}
  BY <1>2, <1>10
<1> QED
  BY <1>12, <1>13, <1>14 DEF names, s, N, cands, GroupRows

\* What the search finds is a sequence.
LEMMA FoundAreSeq ==
  ASSUME NEW l, Snapshot(l.views), NEW text
  PROVE  IsSeq(FindCandidates(l, text))
<1> DEFINE T == {i \in DOMAIN l.views : TaskMatches(l.views[i], text)}
           s == Ordered(T, SortKeys(l.mode, l.views))
<1>1. IsFiniteSet(T) /\ T \subseteq DOMAIN l.views
  <2>1. IsFiniteSet(DOMAIN l.views) /\ T \in SUBSET DOMAIN l.views
    BY SnapshotIs
  <2> QED
    BY <2>1, FS_Subset
<1> HIDE DEF T
<1>2. Cardinality(T) \in Nat /\ DOMAIN s = 1 .. Cardinality(T)
  BY <1>1, SortKeysAre, OrderedIs
<1>3. FindCandidates(l, text) = [n \in DOMAIN s |-> l.views[s[n]].id]
  BY DEF FindCandidates, s, T
<1> HIDE DEF s
<1>4. FindCandidates(l, text) = [n \in 1 .. Cardinality(T) |-> FindCandidates(l, text)[n]]
  BY <1>2, <1>3
<1> QED
  BY <1>2, <1>4, FunSeq

-----------------------------------------------------------------------------
(* The prompts: what they offer, and where their cursors are.              *)

\* Of every directory of a task there is a newest one, and no two have the same.
LEMMA InUseDirsAre ==
  ASSUME NEW views, Snapshot(views), NEW X
  PROVE  \E N \in Nat : /\ InUseDirs(views, X) = [n \in 1 .. N |-> InUseDirs(views, X)[n]]
                        /\ \A n \in 1 .. N : InUseDirs(views, X)[n] \in Labels \cap X
                        /\ \A m, n \in 1 .. N : InUseDirs(views, X)[m] = InUseDirs(views, X)[n] => m = n
<1> DEFINE D == DOMAIN views
           dirs == {views[i].cwd : i \in D} \cap X
           N == Cardinality(dirs)
           lastOf(d) == {i \in D : views[i].cwd = d /\ \A j \in D : views[j].cwd = d => views[j].id <= views[i].id}
           newest(d) == The({views[i].id : i \in lastOf(d)})
           key == [d \in dirs |-> <<newest(d)>>]
           o == Ordered(dirs, key)
           q == InUseDirs(views, X)
<1>1. IsFiniteSet(D) /\ \A i \in D : views[i].id \in Nat /\ views[i].cwd \in Labels
  BY SnapshotIs DEF Snapshot
<1>2. IsFiniteSet(dirs)
  <2> DEFINE f == [i \in D |-> views[i].cwd]
             F == {f[i] : i \in D}
  <2>1. IsFiniteSet(F)
    BY <1>1, ImageFinite
  <2>2. F = {views[i].cwd : i \in D}
    OBVIOUS
  <2>3. dirs = F \cap X
    BY <2>2
  <2> HIDE DEF F, f, D
  <2> QED
    BY <2>1, <2>3, FS_Intersection
<1>3. ASSUME NEW d \in dirs PROVE \E i \in D : views[i].cwd = d /\ newest(d) = views[i].id
  <2> DEFINE own == {i \in D : views[i].cwd = d}
             f == [i \in own |-> views[i].id]
             T == {f[i] : i \in own}
  <2>1. IsFiniteSet(own)
    <3>1. own \in SUBSET D
      OBVIOUS
    <3> HIDE DEF own
    <3> QED
      BY <1>1, <3>1, FS_Subset
  <2>2. IsFiniteSet(T)
    <3>1. DOMAIN f = own
      OBVIOUS
    <3> HIDE DEF own, f
    <3> QED
      BY <2>1, <3>1, ImageFinite
  <2>3. T \subseteq Nat /\ T # {}
    BY <1>1
  <2>4. PICK x \in T : \A y \in T : y <= x
    BY <2>2, <2>3, GreatestNatural
  <2>5. PICK i \in own : x = views[i].id
    BY DEF T
  <2>6. \A j \in D : views[j].cwd = d => views[j].id <= views[i].id
    BY <2>4, <2>5
  <2>7. i \in lastOf(d)
    BY <2>5, <2>6
  <2>8. {views[k].id : k \in lastOf(d)} # {}
    BY <2>7
  <2>9. newest(d) \in {views[k].id : k \in lastOf(d)}
    BY <2>8 DEF The
  <2> QED
    BY <2>9
<1>4. \A d \in dirs : key[d] \in [1 .. 1 -> Nat]
  <2>1. ASSUME NEW d \in dirs PROVE key[d] \in [1 .. 1 -> Nat]
    <3>1. newest(d) \in Nat
      BY <1>1, <1>3
    <3> HIDE DEF newest, dirs
    <3>2. key[d] = <<newest(d)>>
      OBVIOUS
    <3> QED
      BY <3>1, <3>2
  <2> QED
    BY <2>1
<1>5. ASSUME NEW d \in dirs, NEW e \in dirs, key[d] = key[e] PROVE d = e
  <2>1. newest(d) = newest(e)
    <3> HIDE DEF newest, dirs
    <3>1. key[d] = <<newest(d)>> /\ key[e] = <<newest(e)>>
      OBVIOUS
    <3>2. <<newest(d)>>[1] = newest(d) /\ <<newest(e)>>[1] = newest(e)
      OBVIOUS
    <3> HIDE DEF key
    <3> QED
      BY <1>5, <3>1, <3>2
  <2> HIDE DEF newest
  <2>2. PICK i \in D : views[i].cwd = d /\ newest(d) = views[i].id
    BY <1>3
  <2>3. PICK j \in D : views[j].cwd = e /\ newest(e) = views[j].id
    BY <1>3
  <2>4. i = j
    BY <2>1, <2>2, <2>3 DEF Snapshot
  <2> QED
    BY <2>2, <2>3, <2>4
<1>6. dirs \subseteq Labels
  BY <1>1
<1>7. q = [n \in DOMAIN o |-> o[N + 1 - n]]
  BY DEF InUseDirs
<1> HIDE DEF key, dirs, q
<1>8. /\ N \in Nat /\ DOMAIN o = 1 .. N
      /\ \A m, n \in 1 .. N : o[m] = o[n] => m = n
      /\ {o[n] : n \in 1 .. N} = dirs
  <2>1. \E L \in Nat : \A d \in dirs : key[d] \in [1 .. L -> Nat]
    <3>1. 1 \in Nat
      OBVIOUS
    <3> QED
      BY <1>4, <3>1
  <2>2. Keyed(dirs, key)
    BY <1>5, <2>1 DEF Keyed
  <2> QED
    BY <1>2, <2>2, OrderedIs
<1> HIDE DEF o, N
<1>9. DOMAIN q = 1 .. N /\ \A n \in 1 .. N : q[n] = o[N + 1 - n] /\ N + 1 - n \in 1 .. N
  BY <1>7, <1>8
<1>10. q = [n \in 1 .. N |-> q[n]]
  BY <1>7, <1>8
<1>11. ASSUME NEW m \in 1 .. N, NEW n \in 1 .. N, q[m] = q[n] PROVE m = n
  <2>1. N + 1 - m = N + 1 - n
    BY <1>8, <1>9, <1>11
  <2> QED
    BY <1>8, <2>1
<1>12. \A n \in 1 .. N : q[n] \in dirs
  BY <1>8, <1>9
<1>13. dirs \subseteq Labels \cap X
  BY <1>6 DEF dirs
<1>14. \A n \in 1 .. N : q[n] \in Labels \cap X
  BY <1>12, <1>13
<1> QED
  BY <1>8, <1>10, <1>11, <1>14 DEF q

\* What is typed for a directory.
DirInput(in) == in.dir \in {{}} \cup {{l} : l \in Labels} /\ in.text \in Typed

\* The directories that are offered beside those below are labels, each once.
LEMMA JumpsAre ==
  ASSUME NEW views, Snapshot(views), NEW in, DirInput(in)
  PROVE  LET q == Jumps(views, in)
         IN  \E J \in Nat : /\ q = [n \in 1 .. J |-> q[n]]
                            /\ \A n \in 1 .. J : q[n] \in Labels /\ q[n] # Resolved(in)
                            /\ \A m, n \in 1 .. J : q[m] = q[n] => m = n
<1> DEFINE q == Jumps(views, in)
           X == Within[in.text] \ {Resolved(in)}
<1>1. CASE in.dir # {}
  <2>1. q = <<>> /\ 0 \in Nat
    BY <1>1 DEF Jumps
  <2>2. <<>> = [n \in 1 .. 0 |-> q[n]]
    OBVIOUS
  <2>3. 1 .. 0 = {}
    OBVIOUS
  <2> HIDE DEF q
  <2> QED
    BY <2>1, <2>2, <2>3 DEF q
<1>2. CASE in.dir = {}
  <2>1. q = InUseDirs(views, X)
    BY <1>2 DEF Jumps
  <2>2. \A x \in X : x # Resolved(in)
    OBVIOUS
  <2> HIDE DEF X
  <2>3. PICK N \in Nat : /\ InUseDirs(views, X) = [n \in 1 .. N |-> InUseDirs(views, X)[n]]
                         /\ \A n \in 1 .. N : InUseDirs(views, X)[n] \in Labels \cap X
                         /\ \A m, n \in 1 .. N : InUseDirs(views, X)[m] = InUseDirs(views, X)[n] => m = n
    BY InUseDirsAre
  <2> HIDE DEF q
  <2>4. /\ q = [n \in 1 .. N |-> q[n]]
        /\ \A n \in 1 .. N : q[n] \in Labels /\ q[n] # Resolved(in)
        /\ \A m, n \in 1 .. N : q[m] = q[n] => m = n
    BY <2>1, <2>2, <2>3
  <2> QED
    BY <2>4 DEF q
<1> QED
  BY <1>1, <1>2

\* What is typed for a directory resolves to one.
LEMMA ResolvedIs ==
  ASSUME NEW in, DirInput(in)
  PROVE  Resolved(in) \in Labels
<1>1. CASE in.dir = {}
  BY <1>1, ListingAssumption DEF Resolved
<1>2. CASE in.dir # {}
  <2>1. PICK l \in Labels : in.dir = {l}
    BY <1>2 DEF DirInput
  <2>2. The({l}) = l
    BY DEF The
  <2> QED
    BY <1>2, <2>1, <2>2 DEF Resolved
<1> QED
  BY <1>1, <1>2

\* Rows of one kind for directories ds.
LEMMA DirRowsAre ==
  ASSUME NEW knd, NEW N \in Nat, NEW ds, ds = [n \in 1 .. N |-> ds[n]],
         NEW S, \A n \in 1 .. N : DirRow(knd, ds[n]) \in S
  PROVE  /\ DirRows(knd, ds) \in Seq(S) /\ Len(DirRows(knd, ds)) = N
         /\ \A n \in 1 .. N : DirRows(knd, ds)[n] = DirRow(knd, ds[n])
<1> DEFINE q == DirRows(knd, ds)
<1>1. DOMAIN ds = 1 .. N
  OBVIOUS
<1>2. q = [n \in 1 .. N |-> DirRow(knd, ds[n])]
  BY <1>1 DEF DirRows
<1>3. \A n \in 1 .. N : q[n] = DirRow(knd, ds[n]) /\ q[n] \in S
  BY <1>2
<1>4. q = [n \in 1 .. N |-> q[n]]
  BY <1>2
<1> HIDE DEF q
<1>5. q \in [1 .. N -> S]
  BY <1>3, <1>4
<1>6. q \in Seq(S) /\ Len(q) = N
  BY <1>4, <1>5, FunSeq
<1> QED
  BY <1>3, <1>6 DEF q

\* The rows of the picker: what is typed, then the jumps, then the rest.
LEMMA DirCandidatesAre ==
  ASSUME NEW views, Snapshot(views), NEW in, DirInput(in)
  PROVE  LET rows == DirCandidates(views, in)
         IN  /\ IsSeq(rows) /\ rows # <<>>
             /\ rows[1] = DirRow("use", Resolved(in))
             /\ \A n \in DOMAIN rows : rows[n].dir \in Labels
             /\ \A m, n \in DOMAIN rows : rows[m].dir = rows[n].dir => m = n
             /\ \A d \in (Below[Resolved(in)] \cap Begins[in.text]) \ Hidden : \E n \in DOMAIN rows : rows[n].dir = d
<1> DEFINE here == Resolved(in)
           jumps == Jumps(views, in)
           intos == {d \in ListDirs(here, in.text) : \A n \in DOMAIN jumps : jumps[n] # d}
           o == Ordered(intos, Collations)
           rows == DirCandidates(views, in)
           K == Cardinality(intos)
           B == {DirRow(k, d) : k \in {"use", "jump", "into"}, d \in Labels}
           r1 == <<DirRow("use", here)>>
           r2 == DirRows("jump", jumps)
           r3 == DirRows("into", o)
<1>1. here \in Labels
  BY ResolvedIs
<1>2. PICK J \in Nat : /\ jumps = [n \in 1 .. J |-> jumps[n]]
                       /\ \A n \in 1 .. J : jumps[n] \in Labels /\ jumps[n] # here
                       /\ \A m, n \in 1 .. J : jumps[m] = jumps[n] => m = n
  BY JumpsAre
<1>3. DOMAIN jumps = 1 .. J
  BY <1>2
<1>4. /\ intos \subseteq Below[here] /\ IsFiniteSet(intos) /\ intos \subseteq Labels /\ here \notin intos
      /\ \A d \in intos : \A n \in 1 .. J : jumps[n] # d
  <2>1. Below[here] \subseteq Labels /\ IsFiniteSet(Below[here]) /\ here \notin Below[here]
    BY <1>1, PromptsAssumption
  <2>2. intos \subseteq Below[here]
    BY DEF ListDirs
  <2>3. \A d \in intos : \A n \in 1 .. J : jumps[n] # d
    BY <1>3
  <2> HIDE DEF intos
  <2>4. intos \in SUBSET Below[here]
    BY <2>2
  <2>5. IsFiniteSet(intos)
    BY <2>1, <2>4, FS_Subset
  <2> QED
    BY <2>1, <2>2, <2>3, <2>5
<1>5. ASSUME NEW d \in (Below[here] \cap Begins[in.text]) \ Hidden
      PROVE  d \in intos \/ \E n \in 1 .. J : jumps[n] = d
  BY <1>3 DEF ListDirs
<1>6. rows = r1 \o r2 \o r3
  BY DEF DirCandidates
<1> HIDE DEF here, jumps, intos, rows
<1>7. /\ Ascends(o, intos, Collations) /\ K \in Nat /\ DOMAIN o = 1 .. K
      /\ \A m, n \in 1 .. K : o[m] = o[n] => m = n
      /\ {o[n] : n \in 1 .. K} = intos
  BY <1>4, CollationsIs, OrderedIs
<1>8. o = [n \in 1 .. K |-> o[n]]
  BY <1>7 DEF Ascends
<1> HIDE DEF o, K
<1>9. \A n \in 1 .. K : o[n] \in intos
  BY <1>7
<1>10. r1 \in Seq(B) /\ Len(r1) = 1 /\ r1[1] = DirRow("use", here)
  BY <1>1
<1>11. r2 \in Seq(B) /\ Len(r2) = J /\ \A n \in 1 .. J : r2[n] = DirRow("jump", jumps[n])
  <2>1. \A n \in 1 .. J : DirRow("jump", jumps[n]) \in B
    BY <1>2
  <2>2. jumps = [n \in 1 .. J |-> jumps[n]]
    BY <1>2
  <2> HIDE DEF B
  <2> QED
    BY <2>1, <2>2, DirRowsAre
<1>12. r3 \in Seq(B) /\ Len(r3) = K /\ \A n \in 1 .. K : r3[n] = DirRow("into", o[n])
  <2>1. \A n \in 1 .. K : DirRow("into", o[n]) \in B
    BY <1>4, <1>9
  <2>2. K \in Nat /\ o = [n \in 1 .. K |-> o[n]]
    BY <1>7, <1>8
  <2> HIDE DEF B
  <2> QED
    BY <2>1, <2>2, DirRowsAre
<1> HIDE DEF B, r1, r2, r3
<1> DEFINE r12 == r1 \o r2
<1>13. /\ r12 \in Seq(B) /\ Len(r12) = 1 + J
       /\ \A n \in 1 .. 1 + J : r12[n] = IF n <= 1 THEN r1[n] ELSE r2[n - 1]
  <2>1. /\ r12 \in Seq(B) /\ Len(r12) = Len(r1) + Len(r2)
        /\ \A n \in 1 .. Len(r1) + Len(r2) : r12[n] = IF n <= Len(r1) THEN r1[n] ELSE r2[n - Len(r1)]
    BY <1>10, <1>11, ConcatProperties
  <2> HIDE DEF r12
  <2> QED
    BY <1>10, <1>11, <2>1
<1>14. rows = r12 \o r3
  BY <1>6
<1> HIDE DEF r12
<1>15. /\ rows \in Seq(B) /\ Len(rows) = 1 + J + K
       /\ \A n \in 1 .. 1 + J + K : rows[n] = IF n <= 1 + J THEN r12[n] ELSE r3[n - (1 + J)]
  <2>1. /\ rows \in Seq(B) /\ Len(rows) = Len(r12) + Len(r3)
        /\ \A n \in 1 .. Len(r12) + Len(r3) : rows[n] = IF n <= Len(r12) THEN r12[n] ELSE r3[n - Len(r12)]
    BY <1>12, <1>13, <1>14, ConcatProperties
  <2> QED
    BY <1>12, <1>13, <2>1
<1>16. DOMAIN rows = 1 .. 1 + J + K
  BY <1>15, LenProperties
<1>17. rows[1] = DirRow("use", here)
  <2>1. 1 \in 1 .. 1 + J + K /\ 1 \in 1 .. 1 + J /\ 1 <= 1 + J
    BY <1>2, <1>7
  <2> QED
    BY <1>10, <1>13, <1>15, <2>1
<1>18. ASSUME NEW k \in 2 .. 1 + J PROVE k \in 1 .. 1 + J + K /\ rows[k] = DirRow("jump", jumps[k - 1])
  <2>1. k \in 1 .. 1 + J + K /\ k \in 1 .. 1 + J /\ k <= 1 + J /\ ~(k <= 1) /\ k - 1 \in 1 .. J
    BY <1>2, <1>7
  <2>2. rows[k] = r12[k] /\ r12[k] = r2[k - 1]
    BY <1>13, <1>15, <2>1
  <2> QED
    BY <1>11, <2>1, <2>2
<1>19. ASSUME NEW k \in 2 + J .. 1 + J + K
       PROVE  k \in 1 .. 1 + J + K /\ rows[k] = DirRow("into", o[k - (1 + J)])
  <2>1. k \in 1 .. 1 + J + K /\ ~(k <= 1 + J) /\ k - (1 + J) \in 1 .. K
    BY <1>2, <1>7
  <2>2. rows[k] = r3[k - (1 + J)]
    BY <1>15, <2>1
  <2> QED
    BY <1>12, <2>1, <2>2
<1> DEFINE dirAt(n) == IF n = 1 THEN here ELSE IF n <= 1 + J THEN jumps[n - 1] ELSE o[n - (1 + J)]
<1>20. ASSUME NEW n \in 1 .. 1 + J + K PROVE rows[n].dir = dirAt(n)
  <2>1. CASE n = 1
    BY <1>17, <2>1 DEF DirRow
  <2>2. CASE n # 1 /\ n <= 1 + J
    <3>1. n \in 2 .. 1 + J
      BY <1>2, <1>7, <2>2
    <3>2. rows[n] = DirRow("jump", jumps[n - 1])
      BY <1>18, <3>1
    <3> QED
      BY <2>2, <3>2 DEF DirRow
  <2>3. CASE n # 1 /\ ~(n <= 1 + J)
    <3>1. n \in 2 + J .. 1 + J + K
      BY <1>2, <1>7, <2>3
    <3>2. rows[n] = DirRow("into", o[n - (1 + J)])
      BY <1>19, <3>1
    <3> QED
      BY <2>3, <3>2 DEF DirRow
  <2> QED
    BY <2>1, <2>2, <2>3
<1>21. ASSUME NEW n \in 1 .. 1 + J + K
       PROVE  \/ n = 1
              \/ n # 1 /\ n <= 1 + J /\ n - 1 \in 1 .. J
              \/ n # 1 /\ ~(n <= 1 + J) /\ n - (1 + J) \in 1 .. K
  BY <1>2, <1>7
<1>22. ASSUME NEW n \in 1 .. 1 + J + K PROVE rows[n].dir \in Labels
  BY <1>1, <1>2, <1>4, <1>9, <1>20, <1>21
<1>23. ASSUME NEW m \in 1 .. 1 + J + K, NEW n \in 1 .. 1 + J + K, dirAt(m) = dirAt(n) PROVE m = n
  <2>1. \A j \in 1 .. J : jumps[j] # here
    BY <1>2
  <2>2. \A k \in 1 .. K : o[k] # here
    BY <1>4, <1>9
  <2>3. \A j \in 1 .. J, k \in 1 .. K : o[k] # jumps[j]
    BY <1>4, <1>9
  <2>4. CASE m = 1
    BY <1>21, <1>23, <2>1, <2>2, <2>4
  <2>5. CASE m # 1 /\ m <= 1 + J /\ m - 1 \in 1 .. J
    <3>1. CASE n # 1 /\ n <= 1 + J /\ n - 1 \in 1 .. J
      <4>1. m - 1 = n - 1
        BY <1>2, <1>23, <2>5, <3>1
      <4> QED
        BY <4>1
    <3> QED
      BY <1>21, <1>23, <2>1, <2>3, <2>5, <3>1
  <2>6. CASE m # 1 /\ ~(m <= 1 + J) /\ m - (1 + J) \in 1 .. K
    <3>1. CASE n # 1 /\ ~(n <= 1 + J) /\ n - (1 + J) \in 1 .. K
      <4>1. m - (1 + J) = n - (1 + J)
        BY <1>7, <1>23, <2>6, <3>1
      <4> QED
        BY <1>2, <4>1
    <3> QED
      BY <1>21, <1>23, <2>2, <2>3, <2>6, <3>1
  <2> QED
    BY <1>21, <2>4, <2>5, <2>6
<1>24. ASSUME NEW d \in (Below[here] \cap Begins[in.text]) \ Hidden PROVE \E n \in 1 .. 1 + J + K : rows[n].dir = d
  <2>1. CASE d \in intos
    <3>1. PICK k \in 1 .. K : o[k] = d
      BY <1>7, <2>1
    <3> DEFINE n == k + (1 + J)
    <3>2. n \in 2 + J .. 1 + J + K /\ n - (1 + J) = k
      BY <1>2, <1>7
    <3> HIDE DEF n
    <3>3. n \in 1 .. 1 + J + K /\ rows[n] = DirRow("into", o[n - (1 + J)])
      BY <1>19, <3>2
    <3>4. rows[n] = DirRow("into", d)
      BY <3>1, <3>2, <3>3
    <3> QED
      BY <3>3, <3>4 DEF DirRow
  <2>2. CASE \E n \in 1 .. J : jumps[n] = d
    <3>1. PICK k \in 1 .. J : jumps[k] = d
      BY <2>2
    <3> DEFINE n == k + 1
    <3>2. n \in 2 .. 1 + J /\ n - 1 = k
      BY <1>2
    <3> HIDE DEF n
    <3>3. n \in 1 .. 1 + J + K /\ rows[n] = DirRow("jump", jumps[n - 1])
      BY <1>18, <3>2
    <3>4. rows[n] = DirRow("jump", d)
      BY <3>1, <3>2, <3>3
    <3> QED
      BY <3>3, <3>4 DEF DirRow
  <2> QED
    BY <1>5, <2>1, <2>2
<1>25. IsSeq(rows) /\ rows # <<>>
  <2>1. IsSeq(rows)
    BY <1>15, SeqsAre
  <2>2. Len(rows) # 0
    BY <1>2, <1>7, <1>15
  <2> QED
    BY <2>1, <2>2, SeqLength
<1>26. \A m, n \in DOMAIN rows : rows[m].dir = rows[n].dir => m = n
  BY <1>16, <1>20, <1>23
<1> QED
  BY <1>16, <1>17, <1>22, <1>24, <1>25, <1>26 DEF here, rows

\* A list with a cursor: the cursor is on a row, if there are any.
Placed(rows, at) == IsSeq(rows) /\ at \in Nat /\ (rows # <<>> => at + 1 \in DOMAIN rows)

\* A cursor at the top of no rows is where it may be.
LEMMA EmptyPlaced == Placed(<<>>, 0)
<1>1. <<>> \in Seq({})
  BY EmptySeq
<1>2. IsSeq(<<>>)
  BY <1>1, SeqsAre
<1> QED
  BY <1>2 DEF Placed

\* So is one at the first row, or at the row that is preselected.
LEMMA FirstPlaced ==
  ASSUME NEW rows, IsSeq(rows)
  PROVE  Placed(rows, 0) /\ \A b \in BOOLEAN : Placed(rows, PreselectedRow(b, Len(rows)))
<1>1. Len(rows) \in Nat /\ DOMAIN rows = 1 .. Len(rows) /\ (rows # <<>> <=> Len(rows) # 0)
  BY SeqLength
<1>2. Placed(rows, 0)
  BY <1>1 DEF Placed
<1>3. ASSUME NEW b \in BOOLEAN PROVE Placed(rows, PreselectedRow(b, Len(rows)))
  BY <1>1 DEF Placed, PreselectedRow
<1> QED
  BY <1>2, <1>3

\* A step up or down stays on the rows.
LEMMA StepsPlaced ==
  ASSUME NEW rows, NEW at, Placed(rows, at)
  PROVE  Placed(rows, StepUp(at)) /\ Placed(rows, StepDown(at, Len(rows)))
<1>1. Len(rows) \in Nat /\ DOMAIN rows = 1 .. Len(rows) /\ (rows # <<>> <=> Len(rows) # 0)
  BY SeqLength DEF Placed
<1>2. Placed(rows, StepUp(at))
  BY <1>1 DEF Placed, StepUp
<1>3. Placed(rows, StepDown(at, Len(rows)))
  BY <1>1 DEF Placed, StepDown, Least
<1> QED
  BY <1>2, <1>3

\* So does a cursor clamped to new rows.
LEMMA ClampPlaced ==
  ASSUME NEW rows, IsSeq(rows), NEW at \in Nat
  PROVE  Placed(rows, Least(at, IF rows = <<>> THEN 0 ELSE Len(rows) - 1))
<1>1. Len(rows) \in Nat /\ DOMAIN rows = 1 .. Len(rows) /\ (rows # <<>> <=> Len(rows) # 0)
  BY SeqLength
<1> QED
  BY <1>1 DEF Placed, Least

\* The directories' rows are those of the text.
DirsFit(rows, in) ==
  /\ rows[1] = DirRow("use", Resolved(in))
  /\ \A m, n \in DOMAIN rows : rows[m].dir = rows[n].dir => m = n
  /\ \A d \in (Below[Resolved(in)] \cap Begins[in.text]) \ Hidden : \E n \in DOMAIN rows : rows[n].dir = d

Named(rows) == \A n \in DOMAIN rows : rows[n].dir \in Labels

TypedInputs == [dir : {{}} \cup {{l} : l \in Labels}, text : Typed]

\* What each picker offers for what is typed.
LEMMA OfferedIs ==
  ASSUME NEW p \in Pickers, NEW list, IsSeq(list), NEW l, Snapshot(l.views), NEW in \in TypedInputs
  PROVE  LET rows == Offered(p, list, l, in)
         IN  /\ IsSeq(rows)
             /\ p = "agents" => rows = AgentCandidates(list, in.text)
             /\ p = "dir" => DirsFit(rows, in) /\ Named(rows)
<1>1. DirInput(in) /\ in.text \in Typed
  BY DEF DirInput, TypedInputs
<1>2. CASE p = "agents"
  BY <1>2, AgentsAreSeq DEF Offered
<1>3. CASE p = "group"
  BY <1>1, <1>3, GroupsAreSeq DEF Offered, GroupRows
<1>4. CASE p = "find"
  BY <1>4, FoundAreSeq DEF Offered
<1>5. CASE p = "dir"
  BY <1>1, <1>5, DirCandidatesAre DEF Offered, DirsFit, Named
<1> QED
  BY <1>2, <1>3, <1>4, <1>5 DEF Pickers

\* What the lists are, one by one.
ListsOK(o, c, q) ==
  /\ q \in [Pickers -> TypedInputs]
  /\ o = [l \in Rows |-> o[l]] /\ c = [l \in Rows |-> c[l]]
  /\ \A l \in Rows : Placed(o[l], c[l])
  /\ Named(o["dir"])

\* No rows name nothing.
LEMMA EmptyNamed == Named(<<>>)
  BY DEF Named

\* A refresh offers what there is for what is typed, and leaves the lists alone.
LEMMA RefreshKeeps ==
  ASSUME NEW p \in Pickers, NEW in \in TypedInputs,
         ListsOK(offer, cursor, query), IsSeq(agents), Snapshot(fleet.views),
         Refresh(p, in)
  PROVE  /\ ListsOK(offer', cursor', query')
         /\ query'[p] = in
         /\ \A l \in Rows \ Pickers : offer'[l] = offer[l]
         /\ p = "agents" => offer'["agents"] = AgentCandidates(agents, in.text)
         /\ p = "dir" => DirsFit(offer'["dir"], in)
<1>1. PICK rows : /\ rows = Offered(p, agents, fleet, in)
                  /\ query' = [l \in DOMAIN query |-> IF l = p THEN in ELSE IF l \in Pickers THEN NoInput ELSE query[l]]
                  /\ offer' = [l \in DOMAIN offer |-> IF l = p THEN rows ELSE IF l \in Pickers THEN <<>> ELSE offer[l]]
                  /\ cursor' = [l \in DOMAIN cursor |-> IF l = p THEN FirstRow(p, in, rows)
                                                        ELSE IF l \in Pickers THEN 0 ELSE cursor[l]]
  BY DEF Refresh
<1>2. DOMAIN query = Pickers /\ DOMAIN offer = Rows /\ DOMAIN cursor = Rows
  BY DEF ListsOK
<1>3. /\ IsSeq(rows)
      /\ p = "agents" => rows = AgentCandidates(agents, in.text)
      /\ p = "dir" => DirsFit(rows, in) /\ Named(rows)
  BY <1>1, OfferedIs
<1>4. Pickers \subseteq Rows /\ "dir" \in Pickers /\ "agents" \in Pickers
  BY DEF Pickers, Rows
<1>5. Placed(rows, FirstRow(p, in, rows))
  BY <1>3, FirstPlaced DEF FirstRow
<1>6. NoInput \in TypedInputs
  BY ListingAssumption DEF NoInput, Input, TypedInputs
<1>7. query' \in [Pickers -> TypedInputs]
  BY <1>1, <1>2, <1>6
<1>8. \A l \in Rows : Placed(offer'[l], cursor'[l])
  <2>1. ASSUME NEW l \in Rows PROVE Placed(offer'[l], cursor'[l])
    <3>1. CASE l = p
      BY <1>1, <1>2, <1>5, <3>1
    <3>2. CASE l # p /\ l \in Pickers
      BY <1>1, <1>2, <3>2, EmptyPlaced
    <3>3. CASE l \notin Pickers
      BY <1>1, <1>2, <3>3 DEF ListsOK
    <3> QED
      BY <3>1, <3>2, <3>3
  <2> QED
    BY <2>1
<1>9. Named(offer'["dir"])
  <2>1. CASE p = "dir"
    BY <1>1, <1>2, <1>3, <1>4, <2>1
  <2>2. CASE p # "dir"
    BY <1>1, <1>2, <1>4, <2>2, EmptyNamed
  <2> QED
    BY <2>1, <2>2
<1>10. offer' = [l \in Rows |-> offer'[l]] /\ cursor' = [l \in Rows |-> cursor'[l]]
  BY <1>1, <1>2
<1>11. offer'[p] = rows /\ query'[p] = in /\ \A l \in Rows \ Pickers : offer'[l] = offer[l]
  BY <1>1, <1>2, <1>4
<1> QED
  BY <1>3, <1>7, <1>8, <1>9, <1>10, <1>11 DEF ListsOK

\* What closes a prompt leaves the other lists as they are.
LEMMA CloseKeeps ==
  ASSUME ListsOK(offer, cursor, query), CloseClears
  PROVE  ListsOK(offer', cursor', query') /\ prompt' = "none"
<1> USE DEF CloseClears
<1>1. NoInput \in TypedInputs
  BY ListingAssumption DEF NoInput, Input, TypedInputs
<1>2. query' \in [Pickers -> TypedInputs]
  BY <1>1
<1>3. ASSUME NEW l \in Rows PROVE Placed(offer'[l], cursor'[l])
  <2>1. CASE l \in Pickers
    BY <2>1, EmptyPlaced
  <2>2. CASE l \notin Pickers
    BY <2>2 DEF ListsOK
  <2> QED
    BY <2>1, <2>2
<1>4. offer'["dir"] = <<>>
  BY DEF Pickers, Rows
<1>5. Named(offer'["dir"])
  BY <1>4, EmptyNamed
<1>6. offer' = [l \in Rows |-> offer'[l]] /\ cursor' = [l \in Rows |-> cursor'[l]]
  OBVIOUS
<1>7. prompt' = "none"
  OBVIOUS
<1> QED
  BY <1>2, <1>3, <1>5, <1>6, <1>7 DEF ListsOK

\* The invariant, with its parts named.
Kept ==
  /\ prompt \in {"none", "spawn", "sessions", "dir", "group", "find"}
  /\ page \in [{"spawn", "sessions"} -> BOOLEAN]
  /\ IsSeq(agents)
  /\ DOMAIN fleet = {"mode", "views"} /\ Snapshot(fleet.views)
  /\ ListsOK(offer, cursor, query)
  /\ PagesLedTo
  /\ prompt = "dir" => DirsFit(offer["dir"], query["dir"])

\* The inductive invariant is the type invariant and the invariant, regrouped.
LEMMA KeptIs == Kept <=> PromptTypeOK /\ PromptInv
<1>1. "dir" \in Rows
  BY DEF Rows, Pickers
<1>2. DirsOfferedOnce <=> (prompt = "dir" => DirsFit(offer["dir"], query["dir"]))
  BY DEF DirsOfferedOnce, DirsFit
<1>3. ASSUME offer = [l \in Rows |-> offer[l]]
      PROVE  ListsOK(offer, cursor, query) <=>
               /\ query \in [Pickers -> [dir : {{}} \cup {{l} : l \in Labels}, text : Typed]]
               /\ cursor \in [Rows -> Nat]
               /\ \A l \in Rows : offer[l] \in Seq({offer[l][n] : n \in DOMAIN offer[l]})
               /\ \A n \in DOMAIN offer["dir"] : offer["dir"][n].dir \in Labels
               /\ \A l \in Rows : offer[l] # <<>> => HasRow(l)
  <2>1. cursor \in [Rows -> Nat] <=> cursor = [l \in Rows |-> cursor[l]] /\ \A l \in Rows : cursor[l] \in Nat
    OBVIOUS
  <2>2. (\A l \in Rows : Placed(offer[l], cursor[l]))
          <=> /\ \A l \in Rows : cursor[l] \in Nat
              /\ \A l \in Rows : offer[l] \in Seq({offer[l][n] : n \in DOMAIN offer[l]})
              /\ \A l \in Rows : offer[l] # <<>> => HasRow(l)
    BY DEF Placed, IsSeq, HasRow
  <2>3. Named(offer["dir"]) <=> \A n \in DOMAIN offer["dir"] : offer["dir"][n].dir \in Labels
    BY DEF Named
  <2>4. query \in [Pickers -> TypedInputs] <=> query \in [Pickers -> [dir : {{}} \cup {{l} : l \in Labels}, text : Typed]]
    BY DEF TypedInputs
  <2> QED
    BY <1>3, <2>1, <2>2, <2>3, <2>4, Zenon DEF ListsOK
<1>4. IsSeq(agents) <=> agents \in Seq({agents[n] : n \in DOMAIN agents})
  BY DEF IsSeq
<1>5. Kept => offer = [l \in Rows |-> offer[l]]
  BY DEF Kept, ListsOK
<1>6. PromptTypeOK => offer = [l \in Rows |-> offer[l]]
  BY DEF PromptTypeOK
<1>7. ASSUME offer = [l \in Rows |-> offer[l]] PROVE Kept <=> PromptTypeOK /\ PromptInv
  BY <1>2, <1>3, <1>4, <1>7, Zenon DEF Kept, PromptTypeOK, PromptInv
<1> QED
  BY <1>5, <1>6, <1>7

\* What is typed is an input.
LEMMA InputIs ==
  ASSUME NEW d \in {{}} \cup {{l} : l \in Labels}, NEW t \in Typed
  PROVE  Input(d, t) \in TypedInputs /\ Input(d, t).text = t
BY DEF Input, TypedInputs

\* So is nothing.
LEMMA NoInputIs == NoInput \in TypedInputs
BY ListingAssumption DEF NoInput, Input, TypedInputs

\* The steps, one lemma for each: opening the prompt for a new task,
LEMMA OpenSpawnKeeps ==
  ASSUME Kept, OpenSpawn, UNCHANGED <<agents, fleet, greeted>>
  PROVE  Kept'
<1>1. /\ ListsOK(offer', cursor', query')
      /\ query'["agents"] = NoInput
      /\ offer'["agents"] = AgentCandidates(agents, NoInput.text)
  <2>1. "agents" \in Pickers
    BY DEF Pickers
  <2>2. Refresh("agents", NoInput) /\ ListsOK(offer, cursor, query) /\ IsSeq(agents) /\ Snapshot(fleet.views)
    BY DEF OpenSpawn, Kept
  <2> QED
    BY <2>1, <2>2, NoInputIs, RefreshKeeps
<1>2. prompt' = "spawn" /\ page' \in [{"spawn", "sessions"} -> BOOLEAN] /\ ~page'["spawn"]
  BY DEF OpenSpawn, Kept
<1>3. PagesLedTo'
  BY <1>1, <1>2 DEF PagesLedTo
<1> QED
  BY <1>1, <1>2, <1>3 DEF Kept

\* opening a prompt with a list,
LEMMA OpenKeeps ==
  ASSUME Kept, Open
  PROVE  Kept'
<1>1. CASE OpenSpawn
  BY <1>1, OpenSpawnKeeps DEF Open, Unheard
<1>2. ASSUME NEW p \in {"dir", "group", "find"}, prompt' = p, Refresh(p, NoInput), UNCHANGED page
      PROVE  Kept'
  <2>1. /\ ListsOK(offer', cursor', query')
        /\ query'[p] = NoInput
        /\ p = "dir" => DirsFit(offer'["dir"], NoInput)
    <3>1. p \in Pickers
      BY DEF Pickers
    <3>2. ListsOK(offer, cursor, query) /\ IsSeq(agents) /\ Snapshot(fleet.views)
      BY DEF Kept
    <3> QED
      BY <1>2, <3>1, <3>2, NoInputIs, RefreshKeeps
  <2>2. UNCHANGED <<agents, fleet>>
    BY DEF Open, Unheard
  <2>3. PagesLedTo'
    BY <1>2 DEF PagesLedTo
  <2> QED
    BY <1>2, <2>1, <2>2, <2>3 DEF Kept
<1> QED
  BY <1>1, <1>2 DEF Open

\* opening the list of sessions,
LEMMA OpenSessionsKeeps ==
  ASSUME Kept, OpenSessions
  PROVE  Kept'
<1> USE DEF OpenSessions, Unheard
<1>1. ListsOK(offer, cursor, query) /\ page \in [{"spawn", "sessions"} -> BOOLEAN]
  BY DEF Kept
<1>2. "dir" \in Rows /\ "dir" # "saved" /\ "dir" # "recovery"
  BY DEF Rows, Pickers
<1>3. DOMAIN offer = Rows /\ DOMAIN cursor = Rows
  BY <1>1 DEF ListsOK
<1>4. ASSUME NEW l \in Rows PROVE Placed(offer'[l], cursor'[l])
  <2>1. CASE l \in {"saved", "recovery"}
    BY <1>3, <2>1, EmptyPlaced
  <2>2. CASE l \notin {"saved", "recovery"}
    BY <1>1, <1>3, <2>2 DEF ListsOK
  <2> QED
    BY <2>1, <2>2
<1>5. offer'["dir"] = offer["dir"]
  BY <1>2, <1>3
<1>6. offer' = [l \in Rows |-> offer'[l]] /\ cursor' = [l \in Rows |-> cursor'[l]]
  BY <1>3
<1>7. ListsOK(offer', cursor', query')
  BY <1>1, <1>4, <1>5, <1>6 DEF ListsOK
<1>8. prompt' = "sessions" /\ page' \in [{"spawn", "sessions"} -> BOOLEAN] /\ ~page'["sessions"]
  BY <1>1
<1>9. PagesLedTo'
  BY <1>8 DEF PagesLedTo
<1> QED
  BY <1>7, <1>8, <1>9 DEF Kept

\* (what the prompt that is open has)
LEMMA PickerIs == Picker \subseteq Pickers /\ List \subseteq Rows /\ ("dir" \in Picker => prompt = "dir")
                  /\ (prompt = "spawn" /\ Picker # {} => Picker = {"agents"})
                  /\ (prompt # "spawn" => Picker \subseteq {prompt})
BY DEF Picker, List, Pickers, Rows

\* typing,
LEMMA TypeKeeps ==
  ASSUME Kept, Type
  PROVE  Kept'
<1>1. PICK p \in Picker, t \in Typed, d \in {{}} \cup {{l} : l \in Labels} : Refresh(p, Input(d, t))
  BY DEF Type
<1>2. UNCHANGED <<agents, fleet, prompt, page>>
  BY DEF Type, Unheard
<1>3. p \in Pickers
  BY PickerIs
<1> DEFINE in == Input(d, t)
<1>4. in \in TypedInputs
  BY InputIs
<1> HIDE DEF in
<1>5. /\ ListsOK(offer', cursor', query')
      /\ query'[p] = in
      /\ \A l \in Rows \ Pickers : offer'[l] = offer[l]
      /\ p = "agents" => offer'["agents"] = AgentCandidates(agents, in.text)
      /\ p = "dir" => DirsFit(offer'["dir"], in)
  <2>1. ListsOK(offer, cursor, query) /\ IsSeq(agents) /\ Snapshot(fleet.views) /\ Refresh(p, in)
    BY <1>1 DEF Kept, in
  <2> QED
    BY <1>3, <1>4, <2>1, RefreshKeeps
<1>6. "recovery" \in Rows \ Pickers
  BY DEF Rows, Pickers
<1>7. prompt = "spawn" => p = "agents"
  BY PickerIs
<1>8. prompt = "dir" => p = "dir"
  BY PickerIs
<1>9. PagesLedTo'
  BY <1>2, <1>5, <1>6, <1>7 DEF PagesLedTo, Kept
<1> QED
  BY <1>2, <1>5, <1>8, <1>9 DEF Kept

\* moving the cursor,
LEMMA MoveKeeps ==
  ASSUME Kept, Move
  PROVE  Kept'
<1>a. PICK l \in List : \E to \in {StepUp(cursor[l]), StepDown(cursor[l], Len(offer[l]))} :
        cursor' = [cursor EXCEPT ![l] = to]
  BY DEF Move
<1>1. PICK to \in {StepUp(cursor[l]), StepDown(cursor[l], Len(offer[l]))} :
        cursor' = [cursor EXCEPT ![l] = to]
  BY <1>a
<1>2. UNCHANGED <<agents, fleet, prompt, page, query, offer>>
  BY DEF Move, Unheard
<1>3. ListsOK(offer, cursor, query) /\ l \in Rows
  BY PickerIs DEF Kept
<1>4. Placed(offer[l], to)
  BY <1>3, StepsPlaced DEF ListsOK
<1>5. ListsOK(offer', cursor', query')
  <2>1. \A k \in Rows : Placed(offer'[k], cursor'[k])
    BY <1>1, <1>2, <1>3, <1>4 DEF ListsOK
  <2>2. cursor' = [k \in Rows |-> cursor'[k]]
    BY <1>1, <1>3 DEF ListsOK
  <2> QED
    BY <1>2, <1>3, <2>1, <2>2 DEF ListsOK
<1>6. PagesLedTo'
  BY <1>2 DEF PagesLedTo, Kept
<1> QED
  BY <1>2, <1>5, <1>6 DEF Kept

\* turning the page,
LEMMA TurnKeeps ==
  ASSUME Kept, Turn
  PROVE  Kept'
<1>1. UNCHANGED <<agents, fleet, prompt, query, offer, cursor>> /\ page' = [page EXCEPT ![prompt] = ~@]
  BY DEF Turn, Unheard
<1>2. \/ prompt = "spawn" /\ agents # <<>>
      \/ prompt = "sessions" /\ offer["recovery"] # <<>>
  BY DEF Turn
<1>3. page' \in [{"spawn", "sessions"} -> BOOLEAN]
  BY <1>1 DEF Kept
<1>4. PagesLedTo'
  BY <1>1, <1>2 DEF PagesLedTo, Kept
<1> QED
  BY <1>1, <1>3, <1>4 DEF Kept

\* closing the prompt,
LEMMA CloseStays ==
  ASSUME Kept, CloseClears, UNCHANGED <<agents, page>>, DOMAIN fleet' = {"mode", "views"}, Snapshot(fleet'.views)
  PROVE  Kept'
<1>1. ListsOK(offer', cursor', query') /\ prompt' = "none"
  BY CloseKeeps DEF Kept
<1>2. PagesLedTo'
  BY <1>1 DEF PagesLedTo
<1> QED
  BY <1>1, <1>2 DEF Kept

\* picking a directory,
LEMMA PickDirKeeps ==
  ASSUME Kept, PickDir
  PROVE  Kept'
<1>1. UNCHANGED <<agents, fleet, greeted>>
  BY DEF PickDir, Unheard
<1>2. CASE OpenSpawn
  BY <1>1, <1>2, OpenSpawnKeeps
<1>3. CASE Descend(Row("dir").dir)
  <2> DEFINE d == Row("dir").dir
             in == Input({d}, "")
  <2>1. d \in Labels
    BY DEF PickDir, HasRow, Row, Kept, ListsOK, Named
  <2>2. in \in TypedInputs
    <3> HIDE DEF d
    <3>1. {d} \in {{}} \cup {{l} : l \in Labels} /\ "" \in Typed
      BY <2>1, ListingAssumption
    <3> QED
      BY <3>1, InputIs
  <2>3. Refresh("dir", in) /\ UNCHANGED <<prompt, page>>
    BY <1>3 DEF Descend
  <2> HIDE DEF in, d
  <2>4. /\ ListsOK(offer', cursor', query')
        /\ query'["dir"] = in
        /\ DirsFit(offer'["dir"], in)
    <3>1. ListsOK(offer, cursor, query) /\ IsSeq(agents) /\ Snapshot(fleet.views) /\ "dir" \in Pickers
      BY DEF Kept, Pickers
    <3> QED
      BY <2>2, <2>3, <3>1, RefreshKeeps
  <2>5. prompt = "dir"
    BY DEF PickDir
  <2>6. PagesLedTo'
    BY <2>3, <2>5 DEF PagesLedTo
  <2> QED
    BY <1>1, <2>3, <2>4, <2>6 DEF Kept
<1> QED
  BY <1>2, <1>3 DEF PickDir

\* an answer with agents,
LEMMA AgentsArriveKeeps ==
  ASSUME Kept, AgentsArrive
  PROVE  Kept'
<1>1. PICK a \in AgentLists :
        /\ agents' = a
        /\ IF prompt = "spawn"
             THEN /\ offer' = [offer EXCEPT !["agents"] = AgentCandidates(a, query["agents"].text)]
                  /\ cursor' = [cursor EXCEPT !["agents"] = 0]
                  /\ page' = [page EXCEPT !["spawn"] = @ /\ a # <<>>]
             ELSE UNCHANGED <<offer, cursor, page>>
  BY DEF AgentsArrive
<1>2. UNCHANGED <<prompt, fleet, query>>
  BY DEF AgentsArrive
<1>3. IsSeq(a)
  BY PromptsAssumption DEF IsSeq
<1>4. CASE prompt # "spawn"
  <2>1. PagesLedTo'
    BY <1>1, <1>2, <1>4 DEF PagesLedTo, Kept
  <2> QED
    BY <1>1, <1>2, <1>3, <1>4, <2>1 DEF Kept
<1>5. CASE prompt = "spawn"
  <2> DEFINE cands == AgentCandidates(a, query["agents"].text)
  <2>1. Placed(cands, 0)
    BY <1>3, AgentsAreSeq, FirstPlaced
  <2> HIDE DEF cands
  <2>2. offer' = [offer EXCEPT !["agents"] = cands] /\ cursor' = [cursor EXCEPT !["agents"] = 0]
    BY <1>1, <1>5 DEF cands
  <2>3. DOMAIN offer = Rows /\ DOMAIN cursor = Rows /\ "agents" \in Rows /\ "dir" \in Rows
    BY DEF Kept, ListsOK, Rows, Pickers
  <2>4. \A l \in Rows : Placed(offer'[l], cursor'[l])
    BY <2>1, <2>2, <2>3 DEF Kept, ListsOK
  <2>5. offer'["dir"] = offer["dir"] /\ offer'["agents"] = cands
    BY <2>2, <2>3
  <2>6. offer' = [l \in Rows |-> offer'[l]] /\ cursor' = [l \in Rows |-> cursor'[l]]
    BY <2>2, <2>3
  <2>7. ListsOK(offer', cursor', query')
    BY <1>2, <2>4, <2>5, <2>6 DEF ListsOK, Kept
  <2>8. page' \in [{"spawn", "sessions"} -> BOOLEAN] /\ (page'["spawn"] => a # <<>>)
    BY <1>1, <1>5 DEF Kept
  <2>9. PagesLedTo'
    BY <1>1, <1>2, <1>5, <2>5, <2>8 DEF PagesLedTo, cands
  <2> QED
    BY <1>1, <1>2, <1>3, <1>5, <2>7, <2>8, <2>9 DEF Kept
<1> QED
  BY <1>4, <1>5

\* a snapshot,
LEMMA TasksArriveKeeps ==
  ASSUME Kept, TasksArrive
  PROVE  Kept'
<1>1. UNCHANGED <<prompt, page, agents, query, offer, cursor>>
  BY DEF TasksArrive
<1>2. DOMAIN fleet' = {"mode", "views"} /\ Snapshot(fleet'.views)
  BY PromptsAssumption DEF TasksArrive
<1>3. PagesLedTo'
  BY <1>1 DEF PagesLedTo, Kept
<1> QED
  BY <1>1, <1>2, <1>3 DEF Kept

\* and an answer with sessions.
LEMMA SessionsArriveKeeps ==
  ASSUME Kept, SessionsArrive
  PROVE  Kept'
<1> DEFINE clamped(l, rows) == Least(cursor[l], IF rows = <<>> THEN 0 ELSE Len(rows) - 1)
<1>1. PICK s \in SessionLists :
        /\ offer' = [offer EXCEPT !["saved"] = s[1], !["recovery"] = s[2]]
        /\ cursor' = [cursor EXCEPT !["saved"] = clamped("saved", s[1]), !["recovery"] = clamped("recovery", s[2])]
        /\ page' = [page EXCEPT !["sessions"] = @ /\ s[2] # <<>>]
  BY DEF SessionsArrive
<1>2. UNCHANGED <<prompt, agents, fleet, query>>
  BY DEF SessionsArrive, Unheard
<1>3. IsSeq(s[1]) /\ IsSeq(s[2])
  <2>1. 1 \in 1 .. 2 /\ 2 \in 1 .. 2
    OBVIOUS
  <2>2. \A p \in 1 .. 2 : s[p] \in Seq({s[p][n] : n \in DOMAIN s[p]})
    BY PromptsAssumption
  <2> QED
    BY <2>1, <2>2, Zenon DEF IsSeq
<1>4. DOMAIN offer = Rows /\ DOMAIN cursor = Rows /\ {"saved", "recovery", "dir", "agents"} \subseteq Rows
  BY DEF Kept, ListsOK, Rows, Pickers
<1>5. cursor["saved"] \in Nat /\ cursor["recovery"] \in Nat
  BY <1>4 DEF Kept, ListsOK, Placed
<1>6. Placed(s[1], clamped("saved", s[1])) /\ Placed(s[2], clamped("recovery", s[2]))
  BY <1>3, <1>5, ClampPlaced
<1> HIDE DEF clamped
<1>7. ASSUME NEW l \in Rows PROVE Placed(offer'[l], cursor'[l])
  <2>1. CASE l = "saved"
    BY <1>1, <1>4, <1>6, <2>1
  <2>2. CASE l = "recovery"
    BY <1>1, <1>4, <1>6, <2>2
  <2>3. CASE l \notin {"saved", "recovery"}
    BY <1>1, <1>4, <2>3 DEF Kept, ListsOK
  <2> QED
    BY <2>1, <2>2, <2>3
<1>8. offer'["dir"] = offer["dir"] /\ offer'["agents"] = offer["agents"] /\ offer'["recovery"] = s[2]
  BY <1>1, <1>4
<1>9. offer' = [l \in Rows |-> offer'[l]] /\ cursor' = [l \in Rows |-> cursor'[l]]
  BY <1>1, <1>4
<1>10. ListsOK(offer', cursor', query')
  BY <1>2, <1>7, <1>8, <1>9 DEF ListsOK, Kept
<1>11. /\ page' \in [{"spawn", "sessions"} -> BOOLEAN] /\ (page'["sessions"] => s[2] # <<>>)
       /\ page'["spawn"] = page["spawn"]
  BY <1>1 DEF Kept
<1>12. PagesLedTo'
  BY <1>2, <1>8, <1>11 DEF PagesLedTo, Kept
<1> QED
  BY <1>2, <1>8, <1>10, <1>11, <1>12 DEF Kept

\* No views are a snapshot.
LEMMA EmptySnapshot == Snapshot(<<>>)
<1>1. <<>> \in Seq({<<>>[i] : i \in DOMAIN <<>>}) /\ DOMAIN <<>> = {}
  BY EmptySeq
<1> QED
  BY <1>1 DEF Snapshot

\* Every step keeps the inductive invariant.
LEMMA PromptStep ==
  ASSUME Kept, [PromptNext]_promptVars
  PROVE  Kept'
<1>1. CASE Open
  BY <1>1, OpenKeeps
<1>2. CASE OpenSessions
  BY <1>2, OpenSessionsKeeps
<1>3. CASE Type
  BY <1>3, TypeKeeps
<1>4. CASE Move
  BY <1>4, MoveKeeps
<1>5. CASE Turn
  BY <1>5, TurnKeeps
<1>6. CASE Escape \/ Enter
  <2>1. CloseClears /\ UNCHANGED <<agents, page, fleet>>
    BY <1>6 DEF Escape, Enter, Unheard
  <2>2. DOMAIN fleet' = {"mode", "views"} /\ Snapshot(fleet'.views)
    BY <2>1 DEF Kept
  <2> QED
    BY <2>1, <2>2, CloseStays
<1>7. CASE PickDir
  BY <1>7, PickDirKeeps
<1>8. CASE AgentsArrive
  BY <1>8, AgentsArriveKeeps
<1>9. CASE TasksArrive
  BY <1>9, TasksArriveKeeps
<1>10. CASE SessionsArrive
  BY <1>10, SessionsArriveKeeps
<1>11. CASE Reconnected
  <2>1. CloseClears /\ UNCHANGED <<agents, page>> /\ fleet' = [fleet EXCEPT !.views = <<>>]
    BY <1>11 DEF Reconnected
  <2>2. DOMAIN fleet' = {"mode", "views"} /\ fleet'.views = <<>>
    BY <2>1 DEF Kept
  <2>3. Snapshot(fleet'.views)
    BY <2>2, EmptySnapshot
  <2> QED
    BY <2>1, <2>2, <2>3, CloseStays
<1>12. CASE UNCHANGED promptVars
  <2>1. UNCHANGED <<prompt, page, agents, fleet, query, offer, cursor>>
    BY <1>12 DEF promptVars
  <2>2. PagesLedTo'
    BY <2>1 DEF PagesLedTo, Kept
  <2> QED
    BY <2>1, <2>2 DEF Kept
<1> QED
  BY <1>1, <1>2, <1>3, <1>4, <1>5, <1>6, <1>7, <1>8, <1>9, <1>10, <1>11, <1>12 DEF PromptNext, PromptKeys

\* The prompts start with it.
LEMMA PromptStart ==
  ASSUME PromptInit
  PROVE  Kept
<1> USE DEF PromptInit
<1>1. IsSeq(agents)
  <2>1. <<>> \in Seq({})
    BY EmptySeq
  <2> QED
    BY <2>1, SeqsAre
<1>2. DOMAIN fleet = {"mode", "views"} /\ Snapshot(fleet.views)
  BY EmptySnapshot
<1>3. ListsOK(offer, cursor, query)
  <2>1. "dir" \in Rows
    BY DEF Rows, Pickers
  <2> QED
    BY <2>1, NoInputIs, EmptyPlaced, EmptyNamed DEF ListsOK
<1>4. PagesLedTo
  BY DEF PagesLedTo
<1> QED
  BY <1>1, <1>2, <1>3, <1>4 DEF Kept

\* What holds of the prompts at any time.
THEOREM PromptsCorrect == PromptSpec => [](PromptTypeOK /\ PromptInv)
<1>1. PromptInit => Kept
  BY PromptStart
<1>2. Kept /\ [PromptNext]_promptVars => Kept'
  BY PromptStep
<1>3. Kept => PromptTypeOK /\ PromptInv
  BY KeptIs
<1> QED
  BY <1>1, <1>2, <1>3, PTL DEF PromptSpec

\* The prompts hold.
THEOREM PromptsOfferWhatThereIs == PromptSpec => []PromptsHold
<1>1. PromptTypeOK /\ PromptInv => PromptsHold
  <2>1. List \subseteq Rows
    BY PickerIs
  <2> QED
    BY <2>1 DEF PromptInv, PromptsHold, CursorOnRow
<1> QED
  BY <1>1, PromptsCorrect, PTL

-----------------------------------------------------------------------------
(* The list: the order of the views and the sections it falls into.        *)

\* The order of the views is a permutation of their positions.
LEMMA SortedIs ==
  ASSUME NEW mode, NEW views, Snapshot(views)
  PROVE  /\ Len(views) \in Nat /\ DOMAIN views = 1 .. Len(views)
         /\ Ascends(Sorted(mode, views), DOMAIN views, SortKeys(mode, views))
         /\ Sorted(mode, views) \in Seq(DOMAIN views) /\ Len(Sorted(mode, views)) = Len(views)
         /\ DOMAIN Sorted(mode, views) = 1 .. Len(views)
         /\ \A m, n \in 1 .. Len(views) : Sorted(mode, views)[m] = Sorted(mode, views)[n] => m = n
         /\ {Sorted(mode, views)[n] : n \in 1 .. Len(views)} = DOMAIN views
<1> DEFINE N == Len(views)
           D == DOMAIN views
           key == SortKeys(mode, views)
           s == Ordered(D, key)
<1>1. N \in Nat /\ D = 1 .. N /\ IsFiniteSet(D)
  BY SnapshotIs
<1>2. Keyed(D, key)
  BY SortKeysAre
<1>3. Cardinality(D) = N
  <2>1. N \in Int /\ N - 1 + 1 = N
    BY <1>1
  <2>2. Cardinality(1 .. N) = N
    <3> HIDE DEF N
    <3> QED
      BY <1>1, <2>1, FS_Interval
  <2> QED
    BY <1>1, <2>2
<1>f. IsFiniteSet(D)
  BY <1>1
<1> HIDE DEF D, key, N
<1>4. /\ Ascends(s, D, key)
      /\ DOMAIN s = 1 .. N
      /\ \A m, n \in 1 .. N : s[m] = s[n] => m = n
      /\ {s[n] : n \in 1 .. N} = D
  <2>1. /\ Ascends(s, D, key)
        /\ DOMAIN s = 1 .. Cardinality(D)
        /\ \A m, n \in 1 .. Cardinality(D) : s[m] = s[n] => m = n
        /\ {s[n] : n \in 1 .. Cardinality(D)} = D
    BY <1>f, <1>2, OrderedIs
  <2> QED
    BY <1>3, <2>1
<1>5. s \in [1 .. N -> D]
  BY <1>3, <1>4 DEF Ascends
<1> HIDE DEF s
<1>6. s \in Seq(D) /\ Len(s) = N
  BY <1>1, <1>5, FunSeq
<1>7. Sorted(mode, views) = s
  BY DEF Sorted, s, D, key
<1> QED
  BY <1>1, <1>4, <1>6, <1>7 DEF D, key, N

\* What Flat computes, for any f that adds one part after the other.
LEMMA FlatIs ==
  ASSUME NEW parts, Len(parts) \in Nat,
         NEW f, f = [k \in 0 .. Len(parts) |-> IF k = 0 THEN <<>> ELSE f[k - 1] \o parts[k]]
  PROVE  Flat(parts) = f[Len(parts)]
<1> DEFINE N == Len(parts)
           Adds(g) == g = [k \in 0 .. N |-> IF k = 0 THEN <<>> ELSE g[k - 1] \o parts[k]]
           u == CHOOSE g : Adds(g)
<1>1. Adds(u)
  <2>1. Adds(f)
    OBVIOUS
  <2> HIDE DEF Adds
  <2> QED
    BY <2>1
<1>2. Flat(parts) = u[N]
  BY DEF Flat
<1> HIDE DEF u
<1> DEFINE S == {k \in 0 .. N : u[k] = f[k]}
<1>3. 0 \in S
  <2>1. 0 \in 0 .. N
    OBVIOUS
  <2>2. u[0] = <<>> /\ f[0] = <<>>
    BY <1>1, <2>1
  <2> QED
    BY <2>1, <2>2
<1>4. ASSUME NEW k \in 1 .. N, k - 1 \in S PROVE k \in S
  <2>1. k \in 0 .. N /\ k # 0
    OBVIOUS
  <2>2. u[k] = u[k - 1] \o parts[k] /\ f[k] = f[k - 1] \o parts[k]
    BY <1>1, <2>1
  <2> QED
    BY <1>4, <2>1, <2>2
<1> HIDE DEF S
<1>5. \A k \in 0 .. N : k \in S
  BY <1>3, <1>4, UpTo
<1>6. N \in S
  BY <1>5
<1> QED
  BY <1>2, <1>6 DEF S

\* Where the parts of a sequence begin, the end included.
Heads(order, labels) == {n \in DOMAIN order : n = 1 \/ labels[order[n - 1]] # labels[order[n]]}
Ends(order, labels)  == Places(Heads(order, labels) \cup {Len(order) + 1})

\* K parts, that begin in H, of a sequence of length L.
Parted(e, H, L, K) ==
  /\ Len(e) = K + 1 /\ Len(e) - 1 = K /\ e \in [1 .. K + 1 -> 1 .. L + 1]
  /\ e[1] = 1 /\ e[K + 1] = L + 1
  /\ \A m, n \in 1 .. K + 1 : m < n => e[m] < e[n]
  /\ \A k \in 1 .. K : e[k] \in H
  /\ \A n \in H : \E k \in 1 .. K : e[k] = n

\* The places where the label changes part the sequence.
LEMMA EndsAre ==
  ASSUME NEW D, NEW order \in Seq(D), NEW labels
  PROVE  \E K \in Nat : Parted(Ends(order, labels), Heads(order, labels), Len(order), K)
<1> DEFINE L == Len(order)
           H == Heads(order, labels)
           P == H \cup {L + 1}
           e == Places(P)
           M == Cardinality(P)
<1>1. L \in Nat /\ DOMAIN order = 1 .. L
  BY LenProperties
<1>2. H \subseteq 1 .. L /\ P \subseteq 1 .. L + 1
  BY <1>1 DEF Heads
<1>3. IsFiniteSet(P) /\ P \subseteq Nat
  <2>1. IsFiniteSet(1 .. L + 1) /\ P \in SUBSET (1 .. L + 1)
    BY <1>1, <1>2, FS_Interval
  <2>2. IsFiniteSet(P)
    BY <2>1, FS_Subset
  <2> QED
    BY <1>1, <1>2, <2>2
<1>4. L + 1 \in P /\ (L # 0 => 1 \in H) /\ (L = 0 => H = {})
  BY <1>1, <1>2 DEF Heads
<1>5. L + 1 \notin H
  BY <1>1, <1>2
<1>a. \A x \in P : x \in H \/ x = L + 1
  OBVIOUS
<1>b. \A x \in H : x \in P
  OBVIOUS
<1> HIDE DEF P, H, L
<1>6. /\ M \in Nat /\ e \in [1 .. M -> P]
      /\ \A n \in 1 .. M : \A m \in 1 .. n - 1 : e[m] < e[n]
      /\ {e[n] : n \in 1 .. M} = P
  BY <1>3, PlacesIs
<1>7. M # 0
  BY <1>3, <1>4, FS_EmptySet
<1> HIDE DEF e, M
<1> DEFINE K == M - 1
<1>8. K \in Nat /\ M = K + 1
  BY <1>6, <1>7
<1>9. ASSUME NEW m \in 1 .. M, NEW n \in 1 .. M, m < n PROVE e[m] < e[n]
  BY <1>6, <1>9
<1>10. \A n \in 1 .. M : e[n] \in 1 .. L + 1
  BY <1>2, <1>6
<1>11. e[M] = L + 1
  <2>1. PICK n \in 1 .. M : e[n] = L + 1
    BY <1>4, <1>6
  <2>2. CASE n < M
    <3>1. M \in 1 .. M /\ e[M] \in 1 .. L + 1
      BY <1>6, <1>7, <1>10
    <3>2. e[n] < e[M]
      BY <1>9, <2>2, <3>1
    <3> QED
      BY <1>1, <2>1, <3>1, <3>2 DEF L
  <2> QED
    BY <1>6, <2>1, <2>2
<1>12. ASSUME NEW k \in 1 .. K PROVE e[k] \in H
  <2>1. k \in 1 .. M /\ M \in 1 .. M /\ k < M
    BY <1>8
  <2>2. e[k] \in P /\ e[k] < e[M]
    BY <1>6, <1>9, <2>1
  <2>3. e[k] # L + 1
    <3>1. L + 1 \in Int
      BY <1>1 DEF L
    <3> QED
      BY <1>11, <2>2, <3>1
  <2> QED
    BY <1>a, <2>2, <2>3
<1>13. ASSUME NEW n \in H PROVE \E k \in 1 .. K : e[k] = n
  <2>1. PICK k \in 1 .. M : e[k] = n
    BY <1>6, <1>b
  <2>2. k # M
    BY <1>5, <1>11, <2>1
  <2>3. k \in 1 .. K
    BY <1>8, <2>2
  <2> QED
    BY <2>1, <2>3
<1>14. e[1] = 1
  <2>1. 1 \in P
    <3>1. CASE L = 0
      <4>1. L + 1 = 1
        BY <3>1
      <4> QED
        BY <1>4, <4>1
    <3>2. CASE L # 0
      BY <1>4, <1>b, <3>2
    <3> QED
      BY <3>1, <3>2
  <2>2. PICK n \in 1 .. M : e[n] = 1
    BY <1>6, <2>1
  <2>3. CASE 1 < n
    <3>1. 1 \in 1 .. M /\ e[1] \in 1 .. L + 1
      BY <1>6, <1>7, <1>10
    <3>2. e[1] < e[n]
      BY <1>9, <2>3, <3>1
    <3> QED
      BY <2>2, <3>1, <3>2
  <2> QED
    BY <2>2, <2>3
<1>15. Len(e) = M
  <2>1. e = [n \in 1 .. M |-> e[n]]
    BY <1>6
  <2> QED
    BY <1>6, <2>1, FunSeq
<1>16. e \in [1 .. K + 1 -> 1 .. L + 1]
  BY <1>6, <1>8, <1>10
<1>17. e = Ends(order, labels) /\ H = Heads(order, labels) /\ L = Len(order)
  BY DEF Ends, e, P, H, L
<1>18. \A m, n \in 1 .. K + 1 : m < n => e[m] < e[n]
  BY <1>8, <1>9
<1>19. Len(e) = K + 1 /\ Len(e) - 1 = K /\ e[K + 1] = L + 1
  BY <1>8, <1>11, <1>15
<1> HIDE DEF K
<1>20. Parted(e, H, L, K)
  BY <1>12, <1>13, <1>14, <1>16, <1>18, <1>19 DEF Parted
<1> QED
  BY <1>8, <1>17, <1>20

\* What comes between two keys that begin alike begins like them.
LEMMA Between ==
  ASSUME NEW L \in Nat, NEW p \in 1 .. L,
         NEW a \in [1 .. L -> Nat], NEW b \in [1 .. L -> Nat], NEW c \in [1 .. L -> Nat],
         \A m \in 1 .. p : a[m] = c[m], Precedes(a, b), Precedes(b, c)
  PROVE  \A m \in 1 .. p : a[m] = b[m]
<1>1. PICK n \in 1 .. L : a[n] < b[n] /\ \A m \in 1 .. n - 1 : a[m] = b[m]
  BY DEF Precedes
<1>2. PICK k \in 1 .. L : b[k] < c[k] /\ \A m \in 1 .. k - 1 : b[m] = c[m]
  BY DEF Precedes
<1>3. ASSUME n <= p PROVE FALSE
  <2>1. a[n] = c[n]
    BY <1>3
  <2>2. CASE k < n
    BY <1>1, <1>2, <1>3, <2>2
  <2>3. CASE k = n
    BY <1>1, <1>2, <2>1, <2>3
  <2>4. CASE n < k
    BY <1>1, <1>2, <2>1, <2>4
  <2> QED
    BY <2>2, <2>3, <2>4
<1> QED
  BY <1>1, <1>3

\* Two views have one label just when their keys have one rank and one collation.
LEMMA SameLabel ==
  ASSUME NEW mode \in {"State", "Dir", "Custom"}, NEW views, Snapshot(views),
         NEW i \in DOMAIN views, NEW j \in DOMAIN views
  PROVE  Section(mode, views[i]).label = Section(mode, views[j]).label
           <=> \A m \in 1 .. 3 : SortKeys(mode, views)[i][m] = SortKeys(mode, views)[j][m]
<1> DEFINE s(k) == Section(mode, views[k])
           key(k) == SortKeys(mode, views)[k]
           Alike == s(i).rank = s(j).rank /\ Collation(s(i).label) = Collation(s(j).label)
<1>1. ASSUME NEW k \in DOMAIN views
      PROVE  /\ key(k)[1] = s(k).rank
             /\ key(k)[2] = Collation(s(k).label)[1] /\ key(k)[3] = Collation(s(k).label)[2]
  <2>1. SortKeys(mode, views)[k] = SortKey(mode, views[k]) /\ views[k].id \in Nat
    BY DEF SortKeys, Snapshot
  <2> QED
    BY <2>1, SortKeyIs
<1>2. (\A m \in 1 .. 3 : key(i)[m] = key(j)[m]) <=> Alike
  <2>1. \A p, q \in Nat \X Nat : p = q <=> p[1] = q[1] /\ p[2] = q[2]
    OBVIOUS
  <2>2. Collation(s(i).label) = Collation(s(j).label)
          <=> /\ Collation(s(i).label)[1] = Collation(s(j).label)[1]
              /\ Collation(s(i).label)[2] = Collation(s(j).label)[2]
    BY <2>1, CollationIs
  <2>3. (\A m \in 1 .. 3 : key(i)[m] = key(j)[m])
          <=> key(i)[1] = key(j)[1] /\ key(i)[2] = key(j)[2] /\ key(i)[3] = key(j)[3]
    <3> HIDE DEF key
    <3>1. \A m \in 1 .. 3 : m = 1 \/ m = 2 \/ m = 3
      OBVIOUS
    <3> QED
      BY <3>1
  <2> QED
    BY <1>1, <2>2, <2>3
<1>3. CASE mode = "State"
  <2>1. \A k \in DOMAIN views : s(k).label = StateLabel(views[k]) /\ s(k).rank = StateRank(views[k])
    BY <1>3 DEF Section
  <2>2. \A k \in DOMAIN views : StateRank(views[k]) \in 0 .. 3
    BY DEF StateRank
  <2>3. StateLabel(views[i]) = StateLabel(views[j]) <=> StateRank(views[i]) = StateRank(views[j])
    <3> DEFINE names == <<"In use", "Running", "Idle", "Completed">>
    <3>1. \A m, n \in 1 .. 4 : names[m] = names[n] => m = n
      <4>1. names[1] = "In use" /\ names[2] = "Running" /\ names[3] = "Idle" /\ names[4] = "Completed"
        OBVIOUS
      <4> HIDE DEF names
      <4>2. \A m \in 1 .. 4 : m = 1 \/ m = 2 \/ m = 3 \/ m = 4
        OBVIOUS
      <4> QED
        BY <4>1, <4>2
    <3>2. \A k \in DOMAIN views : StateLabel(views[k]) = names[StateRank(views[k]) + 1]
      BY DEF StateLabel
    <3> HIDE DEF names
    <3> QED
      BY <2>2, <3>1, <3>2
  <2> QED
    BY <1>2, <2>1, <2>3
<1>4. CASE mode = "Dir"
  <2>1. \A k \in DOMAIN views : /\ s(k).label = views[k].cwd /\ views[k].cwd \in Labels
                                /\ s(k).rank = IF views[k].cwd = Home THEN 0 ELSE 1
    BY <1>4 DEF Section, Snapshot
  <2> QED
    BY <1>2, <2>1, CollationIs
<1>5. CASE mode = "Custom"
  <2>1. ASSUME NEW k \in DOMAIN views
        PROVE  \/ s(k).label = Unassigned /\ s(k).rank = 1
               \/ s(k).label \in Labels /\ s(k).rank = 0
    <3>1. views[k].group \in {{}} \cup {{g} : g \in Labels}
      BY DEF Snapshot
    <3>2. s(k) = [rank |-> IF views[k].group = {} THEN 1 ELSE 0,
                  label |-> IF views[k].group = {} THEN Unassigned ELSE CHOOSE g \in views[k].group : TRUE]
      BY <1>5 DEF Section
    <3>3. CASE views[k].group = {}
      BY <3>2, <3>3
    <3>4. CASE views[k].group # {}
      <4>1. (CHOOSE g \in views[k].group : TRUE) \in views[k].group
        BY <3>4
      <4>2. views[k].group \subseteq Labels
        BY <3>1
      <4> QED
        BY <3>2, <3>4, <4>1, <4>2
    <3> QED
      BY <3>3, <3>4
  <2>2. Unassigned \notin Labels
    BY ListingAssumption
  <2> QED
    BY <1>2, <2>1, <2>2, CollationIs
<1> QED
  BY <1>3, <1>4, <1>5

\* The parts of a sequence between increasing places, one after the other, are the sequence.
LEMMA PartsAreWhole ==
  ASSUME NEW S, NEW order \in Seq(S), NEW K \in Nat, NEW e \in [1 .. K + 1 -> 1 .. Len(order) + 1],
         e[1] = 1, e[K + 1] = Len(order) + 1, \A m, n \in 1 .. K + 1 : m < n => e[m] < e[n]
  PROVE  Flat([k \in 1 .. K |-> SubSeq(order, e[k], e[k + 1] - 1)]) = order
<1> DEFINE parts == [k \in 1 .. K |-> SubSeq(order, e[k], e[k + 1] - 1)]
           f == [k \in 0 .. K |-> SubSeq(order, 1, e[k + 1] - 1)]
           L == Len(order)
<1>1. L \in Nat
  BY LenProperties
<1>2. Len(parts) = K
  <2>1. parts = [k \in 1 .. K |-> parts[k]]
    OBVIOUS
  <2> HIDE DEF parts
  <2> QED
    BY <2>1, FunSeq
<1>3. ASSUME NEW k \in 0 .. K
      PROVE  f[k] = IF k = 0 THEN <<>> ELSE f[k - 1] \o parts[k]
  <2>1. CASE k = 0
    <3>1. f[0] = SubSeq(order, 1, 0)
      BY <2>1
    <3>2. SubSeq(order, 1, 0) = <<>>
      BY <1>1, SubSeqEmpty
    <3> QED
      BY <2>1, <3>1, <3>2
  <2>2. CASE k # 0
    <3>1. k \in 1 .. K /\ k \in 1 .. K + 1 /\ k + 1 \in 1 .. K + 1 /\ k - 1 \in 0 .. K /\ (k - 1) + 1 = k
      BY <2>2
    <3>2. e[k] \in 1 .. L + 1 /\ e[k + 1] \in 1 .. L + 1 /\ e[k] < e[k + 1]
      BY <3>1
    <3> DEFINE x == e[k] - 1
               y == e[k + 1] - 1
    <3>3. 1 \in 1 .. L + 1 /\ x \in 1 - 1 .. L /\ y \in x .. L /\ x + 1 = e[k]
      BY <1>1, <3>2
    <3> HIDE DEF L
    <3>4. SubSeq(order, 1, x) \o SubSeq(order, x + 1, y) = SubSeq(order, 1, y)
      <4> HIDE DEF x, y
      <4> QED
        BY <3>3, ConcatAdjacentSubSeq DEF L
    <3>5. f[k] = SubSeq(order, 1, y) /\ f[k - 1] = SubSeq(order, 1, x) /\ parts[k] = SubSeq(order, x + 1, y)
      BY <3>1, <3>3
    <3> QED
      BY <2>2, <3>4, <3>5
  <2> QED
    BY <2>1, <2>2
<1>4. f = [k \in 0 .. Len(parts) |-> IF k = 0 THEN <<>> ELSE f[k - 1] \o parts[k]]
  <2>1. f = [k \in 0 .. K |-> f[k]]
    OBVIOUS
  <2> HIDE DEF f, parts
  <2> QED
    BY <1>2, <1>3, <2>1
<1>5. f[K] = order
  <2>1. f[K] = SubSeq(order, 1, e[K + 1] - 1) /\ e[K + 1] - 1 = L
    BY <1>1
  <2> QED
    BY <2>1, SubSeqFull
<1> HIDE DEF f, parts
<1>6. Flat(parts) = f[Len(parts)]
  BY <1>2, <1>4, FlatIs
<1> QED
  BY <1>2, <1>5, <1>6 DEF parts

\* The labels of the views, by position.
LabelsOf(mode, views) == [i \in DOMAIN views |-> Section(mode, views[i]).label]

\* The K sections begin at the places e of the order, and each has its own label.
Sectioned(mode, views, K, e) ==
  LET order == Sorted(mode, views)
      labels == LabelsOf(mode, views)
  IN  /\ e \in [1 .. K + 1 -> 1 .. Len(order) + 1]
      /\ e[1] = 1 /\ e[K + 1] = Len(order) + 1
      /\ \A m, n \in 1 .. K + 1 : m < n => e[m] < e[n]
      /\ Sections(mode, views) =
           [k \in 1 .. K |-> [label |-> labels[order[e[k]]],
                              tasks |-> SubSeq(order, e[k], e[k + 1] - 1)]]
      /\ \A k \in 1 .. K : \A n \in e[k] .. e[k + 1] - 1 :
           n \in DOMAIN order /\ labels[order[n]] = labels[order[e[k]]]
      /\ \A j, k \in 1 .. K : labels[order[e[j]]] = labels[order[e[k]]] => j = k

\* The sections are the parts of the order; no two have one label.
LEMMA SectionsAre ==
  ASSUME NEW mode \in {"State", "Dir", "Custom"}, NEW views, Snapshot(views)
  PROVE  \E K \in Nat : \E e : Sectioned(mode, views, K, e)
<1> DEFINE order == Sorted(mode, views)
           labels == LabelsOf(mode, views)
           key == SortKeys(mode, views)
           D == DOMAIN views
           L == Len(order)
           e == Ends(order, labels)
           H == Heads(order, labels)
<1>1. order \in Seq(D) /\ Ascends(order, D, key) /\ L \in Nat /\ DOMAIN order = 1 .. L
  BY SortedIs
<1>2. \A i, j \in D : labels[i] = labels[j] <=> \A m \in 1 .. 3 : key[i][m] = key[j][m]
  BY SameLabel DEF LabelsOf
<1>3. \A i \in D : key[i] \in [1 .. 7 -> Nat]
  <2>1. ASSUME NEW i \in D PROVE key[i] \in [1 .. 7 -> Nat]
    <3>1. SortKeys(mode, views)[i] = SortKey(mode, views[i]) /\ views[i].id \in Nat
      BY DEF SortKeys, Snapshot
    <3> QED
      BY <3>1, SortKeyIs
  <2> QED
    BY <2>1
<1>4. Sections(mode, views) = Grouped(order, labels)
  BY DEF Sections, LabelsOf
<1> HIDE DEF order, labels, key, D
<1>5. \A n \in 1 .. L : order[n] \in D
  BY <1>1
<1>6. \A m, n \in 1 .. L : m < n => Precedes(key[order[m]], key[order[n]])
  BY <1>1 DEF Ascends
\* Between two views with one label are views with that label.
<1>7. ASSUME NEW m \in 1 .. L, NEW q \in 1 .. L, NEW n \in 1 .. L, m < n, n < q,
             labels[order[m]] = labels[order[q]]
      PROVE  labels[order[n]] = labels[order[m]]
  <2> DEFINE a == key[order[m]]
             b == key[order[n]]
             c == key[order[q]]
  <2>1. a \in [1 .. 7 -> Nat] /\ b \in [1 .. 7 -> Nat] /\ c \in [1 .. 7 -> Nat]
    BY <1>3, <1>5
  <2>2. Precedes(a, b) /\ Precedes(b, c)
    BY <1>6, <1>7
  <2>3. \A k \in 1 .. 3 : a[k] = c[k]
    BY <1>2, <1>5, <1>7
  <2>4. 7 \in Nat /\ 3 \in 1 .. 7
    OBVIOUS
  <2>5. \A k \in 1 .. 3 : a[k] = b[k]
    <3> HIDE DEF a, b, c
    <3> QED
      BY <2>1, <2>2, <2>3, <2>4, Between
  <2> QED
    BY <1>2, <1>5, <2>5
<1>p. PICK K \in Nat : Parted(e, H, L, K)
  BY <1>1, EndsAre
<1>8. /\ Len(e) = K + 1 /\ Len(e) - 1 = K /\ e \in [1 .. K + 1 -> 1 .. L + 1]
      /\ e[1] = 1 /\ e[K + 1] = L + 1
      /\ \A m, n \in 1 .. K + 1 : m < n => e[m] < e[n]
      /\ \A k \in 1 .. K : e[k] \in H
      /\ \A n \in H : \E k \in 1 .. K : e[k] = n
  BY <1>p DEF Parted
<1>9. Grouped(order, labels) = [k \in 1 .. K |-> [label |-> labels[order[e[k]]],
                                                  tasks |-> SubSeq(order, e[k], e[k + 1] - 1)]]
  <2>1. Grouped(order, labels) = [k \in 1 .. Len(e) - 1 |-> [label |-> labels[order[e[k]]],
                                                  tasks |-> SubSeq(order, e[k], e[k + 1] - 1)]]
    BY DEF Grouped, Ends, Heads
  <2> HIDE DEF e
  <2> QED
    BY <1>8, <2>1
<1>h. \A n \in 1 .. L : n \in H <=> (n = 1 \/ labels[order[n - 1]] # labels[order[n]])
  BY <1>1 DEF Heads
<1>s. H \subseteq 1 .. L
  BY <1>1 DEF Heads
<1> HIDE DEF e, H
<1>10. ASSUME NEW j \in 1 .. K, NEW k \in 1 .. K, j < k, labels[order[e[j]]] = labels[order[e[k]]] PROVE FALSE
  <2>1. e[j] \in 1 .. L /\ e[k] \in 1 .. L /\ e[j] < e[k] /\ e[k] \in H
    BY <1>8, <1>10, <1>s
  <2>2. e[k] - 1 \in 1 .. L /\ e[j] <= e[k] - 1 /\ e[k] # 1 /\ e[k] - 1 < e[k]
    BY <2>1
  <2>3. labels[order[e[k] - 1]] = labels[order[e[j]]]
    <3>1. CASE e[j] = e[k] - 1
      BY <3>1
    <3>2. CASE e[j] # e[k] - 1
      <4>1. e[j] < e[k] - 1
        BY <2>1, <2>2, <3>2
      <4> QED
        BY <1>7, <1>10, <2>1, <2>2, <4>1
    <3> QED
      BY <3>1, <3>2
  <2> QED
    BY <1>h, <1>10, <2>1, <2>2, <2>3
<1>11. \A j, k \in 1 .. K : labels[order[e[j]]] = labels[order[e[k]]] => j = k
  BY <1>8, <1>10
\* No part begins within another.
<1>12. ASSUME NEW k \in 1 .. K, NEW d \in Nat, e[k] + d <= e[k + 1] - 1
       PROVE  e[k] + d \in 1 .. L /\ labels[order[e[k] + d]] = labels[order[e[k]]]
  <2> DEFINE S == {c \in 0 .. d : labels[order[e[k] + c]] = labels[order[e[k]]]}
  <2>1. k \in 1 .. K + 1 /\ k + 1 \in 1 .. K + 1 /\ e[k] \in 1 .. L /\ e[k + 1] \in 1 .. L + 1
    BY <1>8, <1>s
  <2>2. 0 \in S
    BY <2>1
  <2>3. ASSUME NEW c \in 1 .. d, c - 1 \in S PROVE c \in S
    <3>1. e[k] + c \in 1 .. L /\ e[k] < e[k] + c /\ e[k] + c < e[k + 1] /\ (e[k] + c) - 1 = e[k] + (c - 1)
      <4> DEFINE x == e[k]
                 y == e[k + 1]
      <4>1. x \in 1 .. L /\ y \in 1 .. L + 1 /\ x + d <= y - 1
        BY <1>12, <2>1
      <4> HIDE DEF x, y
      <4>2. x + c \in 1 .. L /\ x < x + c /\ x + c < y /\ (x + c) - 1 = x + (c - 1)
        BY <1>1, <4>1
      <4> QED
        BY <4>2 DEF x, y
    <3>2. e[k] + c \notin H
      <4> SUFFICES ASSUME e[k] + c \in H PROVE FALSE
        OBVIOUS
      <4>1. PICK i \in 1 .. K : e[i] = e[k] + c
        BY <1>8
      <4>2. i \in 1 .. K + 1 /\ (i = k \/ i < k \/ i = k + 1 \/ k + 1 < i)
        BY <1>8
      <4>3. i < k => e[i] < e[k]
        BY <1>8, <2>1, <4>2
      <4>4. k + 1 < i => e[k + 1] < e[i]
        BY <1>8, <2>1, <4>2
      <4> QED
        BY <2>1, <3>1, <4>1, <4>2, <4>3, <4>4
    <3>3. e[k] + c # 1
      BY <2>1, <3>1
    <3>4. labels[order[(e[k] + c) - 1]] = labels[order[e[k] + c]]
      BY <1>h, <3>1, <3>2, <3>3
    <3> QED
      BY <2>3, <3>1, <3>4
  <2> HIDE DEF S
  <2>4. d \in S
    <3>1. \A c \in 0 .. d : c \in S
      BY <2>2, <2>3, UpTo
    <3> QED
      BY <3>1
  <2> QED
    BY <1>1, <1>12, <2>1, <2>4 DEF S
<1>13. ASSUME NEW k \in 1 .. K, NEW n \in e[k] .. e[k + 1] - 1
       PROVE  n \in DOMAIN order /\ labels[order[n]] = labels[order[e[k]]]
  <2>1. k \in 1 .. K + 1 /\ k + 1 \in 1 .. K + 1 /\ e[k] \in 1 .. L /\ e[k + 1] \in 1 .. L + 1
    BY <1>8, <1>s
  <2> DEFINE d == n - e[k]
  <2>2. d \in Nat /\ e[k] + d = n /\ e[k] + d <= e[k + 1] - 1
    BY <2>1
  <2> HIDE DEF d
  <2>3. e[k] + d \in 1 .. L /\ labels[order[e[k] + d]] = labels[order[e[k]]]
    BY <1>12, <2>2
  <2> QED
    BY <1>1, <2>2, <2>3
<1>14. Sectioned(mode, views, K, e)
  BY <1>4, <1>8, <1>9, <1>11, <1>13 DEF Sectioned, order, labels
<1> QED
  BY <1>14

\* Flattened, the sections are the order again.
LEMMA DisplayIs ==
  ASSUME NEW mode \in {"State", "Dir", "Custom"}, NEW views, Snapshot(views)
  PROVE  DisplayOrder(Sections(mode, views)) = Sorted(mode, views)
<1> DEFINE order == Sorted(mode, views)
           ss == Sections(mode, views)
<1>0. PICK K \in Nat : \E e : Sectioned(mode, views, K, e)
  BY SectionsAre
<1>1. PICK e : Sectioned(mode, views, K, e)
  BY <1>0
<1>2. /\ e \in [1 .. K + 1 -> 1 .. Len(order) + 1]
      /\ e[1] = 1 /\ e[K + 1] = Len(order) + 1
      /\ \A m, n \in 1 .. K + 1 : m < n => e[m] < e[n]
  BY <1>1 DEF Sectioned
<1>3. DOMAIN ss = 1 .. K /\ \A k \in 1 .. K : ss[k].tasks = SubSeq(order, e[k], e[k + 1] - 1)
  BY <1>1 DEF Sectioned
<1>4. order \in Seq(DOMAIN views)
  BY SortedIs
<1> HIDE DEF ss, order
<1>5. [k \in DOMAIN ss |-> ss[k].tasks] = [k \in 1 .. K |-> SubSeq(order, e[k], e[k + 1] - 1)]
  BY <1>3
<1>6. Flat([k \in 1 .. K |-> SubSeq(order, e[k], e[k + 1] - 1)]) = order
  BY <1>2, <1>4, PartsAreWhole
<1> QED
  BY <1>5, <1>6 DEF DisplayOrder, ss, order

\* No two sections have one label.
LEMMA LabelsDiffer ==
  ASSUME NEW mode \in {"State", "Dir", "Custom"}, NEW views, Snapshot(views),
         NEW j \in DOMAIN Sections(mode, views), NEW k \in DOMAIN Sections(mode, views),
         Sections(mode, views)[j].label = Sections(mode, views)[k].label
  PROVE  j = k
<1> DEFINE ss == Sections(mode, views)
           order == Sorted(mode, views)
           labels == LabelsOf(mode, views)
<1>0. PICK K \in Nat : \E e : Sectioned(mode, views, K, e)
  BY SectionsAre
<1>1. PICK e : Sectioned(mode, views, K, e)
  BY <1>0
<1>2. DOMAIN ss = 1 .. K /\ \A i \in 1 .. K : ss[i].label = labels[order[e[i]]]
  BY <1>1 DEF Sectioned
<1>3. \A m, n \in 1 .. K : labels[order[e[m]]] = labels[order[e[n]]] => m = n
  BY <1>1 DEF Sectioned
<1> HIDE DEF order, labels
<1>4. j \in 1 .. K /\ k \in 1 .. K /\ labels[order[e[j]]] = labels[order[e[k]]]
  BY <1>2
<1> QED
  BY <1>3, <1>4

\* The views once the idle ones among them wake.
Awake(views) ==
  [i \in DOMAIN views |-> IF views[i].life = "idle" THEN [views[i] EXCEPT !.life = "active"] ELSE views[i]]

\* Waking changes no section of a list that is not grouped by state.
LEMMA AwakeKeeps ==
  ASSUME NEW mode \in {"Dir", "Custom"}, NEW views, Snapshot(views)
  PROVE  Sections(mode, Awake(views)) = Sections(mode, views)
<1> DEFINE woken == Awake(views)
<1>1. DOMAIN woken = DOMAIN views
  BY DEF Awake
<1>2. ASSUME NEW i \in DOMAIN views
      PROVE  /\ woken[i].id = views[i].id /\ woken[i].tagged = views[i].tagged
             /\ woken[i].cwd = views[i].cwd /\ woken[i].group = views[i].group
             /\ Finished(woken[i]) = Finished(views[i])
  <2>1. {"id", "tagged", "life", "cwd", "group"} \subseteq DOMAIN views[i]
    BY DEF Snapshot
  <2>2. woken[i] = IF views[i].life = "idle" THEN [views[i] EXCEPT !.life = "active"] ELSE views[i]
    BY DEF Awake
  <2>3. CASE views[i].life = "idle"
    <3>1. woken[i] = [views[i] EXCEPT !.life = "active"] /\ woken[i].life = "active"
      BY <2>1, <2>2, <2>3
    <3>2. Finished(woken[i]) = FALSE /\ Finished(views[i]) = FALSE
      BY <2>3, <3>1 DEF Finished
    <3> QED
      BY <2>1, <3>1, <3>2
  <2>4. CASE views[i].life # "idle"
    BY <2>2, <2>4
  <2> QED
    BY <2>3, <2>4
<1> HIDE DEF woken
<1>3. ASSUME NEW i \in DOMAIN views
      PROVE  /\ Section(mode, woken[i]) = Section(mode, views[i])
             /\ SortKey(mode, woken[i]) = SortKey(mode, views[i])
  <2>1. Section(mode, woken[i]) = Section(mode, views[i])
    BY <1>2 DEF Section
  <2>2. RowRank(woken[i]) = RowRank(views[i])
    BY <1>2 DEF RowRank
  <2> QED
    BY <1>2, <2>1, <2>2 DEF SortKey
<1>4. SortKeys(mode, woken) = SortKeys(mode, views)
  BY <1>1, <1>3 DEF SortKeys
<1>5. Sorted(mode, woken) = Sorted(mode, views)
  BY <1>1, <1>4 DEF Sorted
<1>6. [i \in DOMAIN woken |-> Section(mode, woken[i]).label] = [i \in DOMAIN views |-> Section(mode, views[i]).label]
  BY <1>1, <1>3
<1> QED
  BY <1>5, <1>6 DEF Sections, woken

(***************************************************************************)
(* A dashboard lists every task exactly once, under headers no two of      *)
(* which are the same, and no task changes its place by falling idle or    *)
(* waking, unless the list is grouped by state: for every order of labels  *)
(* and all snapshots.                                                      *)
(***************************************************************************)
THEOREM ListsAreWhole == ListWhole
<1> SUFFICES ASSUME NEW l \in Lists
             PROVE  LET ss == Sections(l.mode, l.views)
                        order == DisplayOrder(ss)
                        awake == [i \in DOMAIN l.views |->
                                    IF l.views[i].life = "idle"
                                    THEN [l.views[i] EXCEPT !.life = "active"] ELSE l.views[i]]
                    IN  /\ DOMAIN order = DOMAIN l.views
                        /\ {order[n] : n \in DOMAIN order} = DOMAIN l.views
                        /\ \A j, k \in DOMAIN ss : ss[j].label = ss[k].label => j = k
                        /\ l.mode # "State" => DisplayOrder(Sections(l.mode, awake)) = order
  BY DEF ListWhole
<1>1. l.mode \in {"State", "Dir", "Custom"} /\ Snapshot(l.views)
  BY ListingAssumption
<1> DEFINE order == DisplayOrder(Sections(l.mode, l.views))
<1>2. DOMAIN order = DOMAIN l.views /\ {order[n] : n \in DOMAIN order} = DOMAIN l.views
  <2>1. order = Sorted(l.mode, l.views)
    BY <1>1, DisplayIs
  <2> HIDE DEF order
  <2> DEFINE s == Sorted(l.mode, l.views)
  <2>2. DOMAIN s = 1 .. Len(l.views) /\ DOMAIN l.views = 1 .. Len(l.views)
        /\ {s[n] : n \in 1 .. Len(l.views)} = DOMAIN l.views
    BY <1>1, SortedIs, ZenonT(40)
  <2> QED
    BY <2>1, <2>2
<1>3. \A j, k \in DOMAIN Sections(l.mode, l.views) :
         Sections(l.mode, l.views)[j].label = Sections(l.mode, l.views)[k].label => j = k
  BY <1>1, LabelsDiffer
<1>4. l.mode # "State" => DisplayOrder(Sections(l.mode, Awake(l.views))) = order
  BY <1>1, AwakeKeeps
<1> QED
  BY <1>2, <1>3, <1>4 DEF Awake

-----------------------------------------------------------------------------
(* The motions over the list.                                              *)

\* g follows f from s.
Follows(g, f, s, n) == g = [k \in 0 .. n |-> IF k = 0 THEN s ELSE f[g[k - 1]]]

\* What Walk computes, for any g that follows f from s.
LEMMA WalkIs ==
  ASSUME NEW f, NEW s, NEW n \in Nat, NEW g, Follows(g, f, s, n)
  PROVE  Walk(f, s, n) = {g[k] : k \in 1 .. n}
<1> DEFINE u == CHOOSE h : Follows(h, f, s, n)
<1>1. Follows(u, f, s, n)
  OBVIOUS
<1>2. Walk(f, s, n) = {u[k] : k \in 1 .. n}
  BY DEF Walk, Follows
<1> HIDE DEF u
<1> DEFINE S == {k \in 0 .. n : u[k] = g[k]}
<1>3. 0 \in S
  <2>1. 0 \in 0 .. n
    OBVIOUS
  <2>2. u[0] = s /\ g[0] = s
    BY <1>1, <2>1 DEF Follows
  <2> QED
    BY <2>1, <2>2
<1>4. ASSUME NEW k \in 1 .. n, k - 1 \in S PROVE k \in S
  <2>1. k \in 0 .. n /\ k # 0
    OBVIOUS
  <2>2. u[k] = f[u[k - 1]] /\ g[k] = f[g[k - 1]]
    BY <1>1, <2>1 DEF Follows
  <2> QED
    BY <1>4, <2>1, <2>2
<1> HIDE DEF S
<1>5. \A k \in 0 .. n : k \in S
  BY <1>3, <1>4, UpTo
<1>6. \A k \in 1 .. n : u[k] = g[k]
  BY <1>5 DEF S
<1> QED
  BY <1>2, <1>6

\* Remainders up to twice the divisor, and of the next number.
LEMMA Remainders ==
  ASSUME NEW n \in Nat \ {0}, NEW x \in Nat
  PROVE  /\ x % n \in 0 .. n - 1
         /\ x < n => x % n = x
         /\ n <= x /\ x < 2 * n => x % n = x - n
         /\ (x + 1) % n = IF x % n = n - 1 THEN 0 ELSE (x % n) + 1
<1> DEFINE d == x \div n
           r == x % n
<1>1. /\ d \in Nat /\ r \in 0 .. n - 1 /\ x = n * d + r
      /\ x < n => r = x
      /\ n <= x /\ x < 2 * n => r = x - n
  OBVIOUS
<1>2. ASSUME NEW c \in Nat, NEW q \in 0 .. n - 1 PROVE (n * c + q) % n = q
  OBVIOUS
<1> HIDE DEF d, r
<1>3. CASE r = n - 1
  <2>1. x + 1 = n * (d + 1) + 0 /\ d + 1 \in Nat /\ 0 \in 0 .. n - 1
    BY <1>1, <1>3
  <2>2. (n * (d + 1) + 0) % n = 0
    BY <1>2, <2>1
  <2> QED
    BY <1>1, <1>3, <2>1, <2>2 DEF r
<1>4. CASE r # n - 1
  <2>1. x + 1 = n * d + (r + 1) /\ r + 1 \in 0 .. n - 1
    BY <1>1, <1>4
  <2>2. (n * d + (r + 1)) % n = r + 1
    BY <1>1, <1>2, <2>1
  <2> QED
    BY <1>1, <1>4, <2>1, <2>2 DEF r
<1> QED
  BY <1>3, <1>4

\* f goes around C, one place at a time.
Circles(f, C, N) == \A q \in 0 .. N - 1 : f[C[q]] = C[IF q = N - 1 THEN 0 ELSE q + 1]

Places0(C, N)      == {C[q] : q \in 0 .. N - 1}
Enters(f, s, C, N) == \E q \in 0 .. N - 1 : f[s] = C[q]

\* What goes around a cycle and enters it with its first step sees it all.
LEMMA CycleIsWalked ==
  ASSUME NEW N \in Nat \ {0}, NEW n \in Nat, N <= n, NEW f, NEW C, Circles(f, C, N),
         NEW s, Enters(f, s, C, N)
  PROVE  Walk(f, s, n) = Places0(C, N)
<1>0. PICK q0 \in 0 .. N - 1 : f[s] = C[q0]
  BY DEF Enters
<1> DEFINE g == [k \in 0 .. n |-> IF k = 0 THEN s ELSE C[(q0 + (k - 1)) % N]]
<1>1. ASSUME NEW k \in 0 .. n PROVE g[k] = IF k = 0 THEN s ELSE f[g[k - 1]]
  <2>1. CASE k = 0
    BY <2>1
  <2>2. CASE k = 1
    <3>1. g[1] = C[(q0 + (1 - 1)) % N] /\ g[0] = s
      BY <2>2
    <3>2. q0 + (1 - 1) = q0 /\ q0 % N = q0
      BY <1>0, Remainders
    <3> QED
      BY <1>0, <2>2, <3>1, <3>2
  <2>3. CASE k > 1
    <3> DEFINE x == q0 + (k - 2)
    <3>1. x \in Nat /\ q0 + (k - 1) = x + 1 /\ q0 + ((k - 1) - 1) = x /\ k - 1 \in 0 .. n /\ k - 1 # 0 /\ k # 0
      BY <1>0, <2>3
    <3>2. g[k] = C[(x + 1) % N] /\ g[k - 1] = C[x % N]
      BY <3>1
    <3> HIDE DEF x, g
    <3>3. x % N \in 0 .. N - 1 /\ (x + 1) % N = IF x % N = N - 1 THEN 0 ELSE (x % N) + 1
      BY <3>1, Remainders
    <3>4. f[C[x % N]] = C[(x + 1) % N]
      BY <3>3 DEF Circles
    <3> QED
      BY <3>1, <3>2, <3>4
  <2> QED
    BY <2>1, <2>2, <2>3
<1>2. Follows(g, f, s, n)
  <2>1. g = [k \in 0 .. n |-> g[k]]
    OBVIOUS
  <2> HIDE DEF g
  <2> QED
    BY <1>1, <2>1 DEF Follows
<1>3. \A k \in 1 .. n : g[k] = C[(q0 + (k - 1)) % N] /\ q0 + (k - 1) \in Nat
  BY <1>0
<1> HIDE DEF g
<1>4. Walk(f, s, n) = {g[k] : k \in 1 .. n}
  BY <1>2, WalkIs
<1>5. \A k \in 1 .. n : g[k] \in {C[q] : q \in 0 .. N - 1}
  BY <1>3, Remainders
<1>6. ASSUME NEW q \in 0 .. N - 1 PROVE \E k \in 1 .. n : g[k] = C[q]
  <2>1. CASE q >= q0
    <3> DEFINE k == (q - q0) + 1
    <3>1. k \in 1 .. n /\ q0 + (k - 1) = q /\ q \in Nat /\ q < N
      BY <1>0, <2>1
    <3> HIDE DEF k
    <3>2. q % N = q
      BY <3>1, Remainders
    <3> QED
      BY <1>3, <3>1, <3>2
  <2>2. CASE q < q0
    <3> DEFINE k == (q - q0) + N + 1
    <3>1. k \in 1 .. n /\ q0 + (k - 1) = q + N /\ q + N \in Nat /\ N <= q + N /\ q + N < 2 * N
      BY <1>0, <2>2
    <3> HIDE DEF k
    <3>2. (q + N) % N = q
      <4>1. (q + N) % N = (q + N) - N
        BY <3>1, Remainders
      <4> QED
        BY <4>1
    <3> QED
      BY <1>3, <3>1, <3>2
  <2> QED
    BY <2>1, <2>2
<1> QED
  BY <1>4, <1>5, <1>6 DEF Places0

\* An order lists each position of the views once.
Permutes(order, views) ==
  /\ Len(order) = Len(views) /\ DOMAIN order = 1 .. Len(views)
  /\ \A n \in 1 .. Len(views) : order[n] \in DOMAIN views
  /\ \A m, n \in 1 .. Len(views) : order[m] = order[n] => m = n
  /\ {order[n] : n \in 1 .. Len(views)} = DOMAIN views

\* The order that is displayed is one of all the views.
LEMMA DisplayPermutes ==
  ASSUME NEW mode \in {"State", "Dir", "Custom"}, NEW views, Snapshot(views)
  PROVE  Permutes(DisplayOrder(Sections(mode, views)), views)
<1> DEFINE s == Sorted(mode, views)
<1>1. /\ s \in Seq(DOMAIN views) /\ Len(s) = Len(views) /\ Len(views) \in Nat
      /\ DOMAIN s = 1 .. Len(views)
      /\ \A m, n \in 1 .. Len(views) : s[m] = s[n] => m = n
      /\ {s[n] : n \in 1 .. Len(views)} = DOMAIN views
  BY SortedIs
<1>2. DisplayOrder(Sections(mode, views)) = s
  BY DisplayIs
<1> HIDE DEF s
<1>3. \A n \in 1 .. Len(views) : s[n] \in DOMAIN views
  BY <1>1
<1>4. Permutes(s, views)
  BY <1>1, <1>3 DEF Permutes
<1> QED
  BY <1>2, <1>4

Singles(views) == {{x} : x \in Ids(views)}
Sels(views)    == Singles(views) \cup {{}, {0}}

\* The selection of what is at place q of the order, from zero.
At(order, views, q) == {views[order[q + 1]].id}

\* Each task is the selection at one place of the order, and at one alone.
LEMMA AtIs ==
  ASSUME NEW views, Snapshot(views), NEW order, Permutes(order, views)
  PROVE  /\ \A q \in 0 .. Len(views) - 1 : /\ Pos(order, views, At(order, views, q)) = {q + 1}
                                           /\ At(order, views, q) \in Singles(views)
         /\ {At(order, views, q) : q \in 0 .. Len(views) - 1} = Singles(views)
         /\ \A s \in Singles(views) : \E q \in 0 .. Len(views) - 1 : s = At(order, views, q)
         /\ \A s \in Sels(views) : s \in Singles(views) \/ Pos(order, views, s) = {}
<1> DEFINE n == Len(views)
<1>1. n \in Nat /\ DOMAIN views = 1 .. n
  BY SnapshotIs
<1>2. ASSUME NEW q \in 0 .. n - 1
      PROVE  /\ Pos(order, views, At(order, views, q)) = {q + 1}
             /\ At(order, views, q) \in Singles(views)
  <2>1. q + 1 \in 1 .. n
    BY <1>1
  <2>2. \A k \in 1 .. n : views[order[k]].id = views[order[q + 1]].id => k = q + 1
    BY <2>1 DEF Snapshot, Permutes
  <2>3. Pos(order, views, At(order, views, q)) = {q + 1}
    BY <2>1, <2>2 DEF Pos, At, Permutes
  <2>4. order[q + 1] \in DOMAIN views
    BY <2>1 DEF Permutes
  <2> QED
    BY <2>3, <2>4 DEF Singles, Ids, At
<1>3. ASSUME NEW s \in Singles(views) PROVE \E q \in 0 .. n - 1 : s = At(order, views, q)
  <2>1. PICK i \in DOMAIN views : s = {views[i].id}
    BY DEF Singles, Ids
  <2>2. PICK k \in 1 .. n : order[k] = i
    BY DEF Permutes
  <2>3. k - 1 \in 0 .. n - 1 /\ (k - 1) + 1 = k
    BY <1>1
  <2> QED
    BY <2>1, <2>2, <2>3 DEF At
<1>4. ASSUME NEW s \in Sels(views), s \notin Singles(views) PROVE Pos(order, views, s) = {}
  <2>1. s = {} \/ s = {0}
    BY <1>4 DEF Sels
  <2>2. \A k \in DOMAIN order : views[order[k]].id # 0
    BY DEF Snapshot, Permutes
  <2> QED
    BY <2>1, <2>2 DEF Pos
<1> QED
  BY <1>2, <1>3, <1>4

\* A step down or up goes to the place after or before, around the ends.
LEMMA SelectWrapIs ==
  ASSUME NEW views, Snapshot(views), NEW order, Permutes(order, views), Len(views) # 0,
         NEW forward \in BOOLEAN
  PROVE  LET n == Len(views)
             step == IF forward THEN 1 ELSE n - 1
         IN  /\ \A q \in 0 .. n - 1 : SelectWrap(order, views, At(order, views, q), forward)
                                        = At(order, views, (q + step) % n)
             /\ \A s : Pos(order, views, s) = {} =>
                    SelectWrap(order, views, s, forward) = At(order, views, (0 + step) % n)
<1> DEFINE n == Len(views)
           step == IF forward THEN 1 ELSE n - 1
<1>1. n \in Nat \ {0} /\ Len(order) = n
  BY SnapshotIs DEF Permutes
<1>2. order # <<>>
  BY <1>1, EmptySeq
<1>3. \A s : SelectWrap(order, views, s, forward) =
               At(order, views, ((IF Pos(order, views, s) = {} THEN 0 ELSE The(Pos(order, views, s)) - 1) + step) % n)
  BY <1>1, <1>2 DEF SelectWrap, At
<1>4. \A q \in 0 .. n - 1 : Pos(order, views, At(order, views, q)) = {q + 1}
  BY AtIs
<1>5. ASSUME NEW q \in 0 .. n - 1
      PROVE  (IF Pos(order, views, At(order, views, q)) = {} THEN 0
              ELSE The(Pos(order, views, At(order, views, q))) - 1) = q
  <2>1. The({q + 1}) = q + 1
    BY DEF The
  <2>2. (q + 1) - 1 = q
    BY <1>1
  <2> QED
    BY <1>4, <2>1, <2>2
<1>6. \A q \in 0 .. n - 1 : SelectWrap(order, views, At(order, views, q), forward) = At(order, views, (q + step) % n)
  BY <1>3, <1>5
<1>7. \A s : Pos(order, views, s) = {} => SelectWrap(order, views, s, forward) = At(order, views, (0 + step) % n)
  BY <1>3
<1> QED
  BY <1>6, <1>7

\* One step forward and one back around n places.
LEMMA RoundTrip ==
  ASSUME NEW n \in Nat \ {0}, NEW q \in 0 .. n - 1
  PROVE  /\ (q + 1) % n = IF q = n - 1 THEN 0 ELSE q + 1
         /\ (q + (n - 1)) % n = IF q = 0 THEN n - 1 ELSE q - 1
<1>1. q % n = q
  BY Remainders
<1>2. (q + 1) % n = IF q = n - 1 THEN 0 ELSE q + 1
  <2>1. q \in Nat
    OBVIOUS
  <2>2. (q + 1) % n = IF q % n = n - 1 THEN 0 ELSE (q % n) + 1
    BY <2>1, Remainders
  <2> QED
    BY <1>1, <2>2
<1>3. CASE q = 0
  <2>1. q + (n - 1) = n - 1 /\ n - 1 \in Nat /\ n - 1 < n
    BY <1>3
  <2>2. (n - 1) % n = n - 1
    BY <2>1, Remainders
  <2> QED
    BY <1>2, <1>3, <2>1, <2>2
<1>4. CASE q # 0
  <2> DEFINE x == q + (n - 1)
  <2>1. x \in Nat /\ n <= x /\ x < 2 * n /\ x - n = q - 1
    BY <1>4
  <2> HIDE DEF x
  <2>2. x % n = x - n
    BY <2>1, Remainders
  <2> QED
    BY <1>2, <1>4, <2>1, <2>2 DEF x
<1> QED
  BY <1>3, <1>4

\* f goes step places on around the n places of C.
Turns(f, C, n, step) == \A q \in 0 .. n - 1 : f[C[q]] = C[(q + step) % n]

\* Steps in one direction around n places visit all of them.
LEMMA AroundIsWalked ==
  ASSUME NEW n \in Nat \ {0}, NEW m \in Nat, n <= m, NEW f, NEW C,
         NEW step \in {1, n - 1}, Turns(f, C, n, step),
         NEW s, Enters(f, s, C, n)
  PROVE  Walk(f, s, m) = Places0(C, n)
<1>1. CASE step = 1
  <2>1. Circles(f, C, n)
    BY <1>1, RoundTrip DEF Circles, Turns
  <2> QED
    BY <2>1, CycleIsWalked
<1>2. CASE step = n - 1
  <2> DEFINE B == [q \in 0 .. n - 1 |-> C[n - 1 - q]]
  <2>1. \A q \in 0 .. n - 1 : n - 1 - q \in 0 .. n - 1 /\ n - 1 - (n - 1 - q) = q
    OBVIOUS
  <2>2. \A q \in 0 .. n - 1 : f[C[q]] = C[IF q = 0 THEN n - 1 ELSE q - 1]
    BY <1>2, RoundTrip DEF Turns
  <2>3. ASSUME NEW q \in 0 .. n - 1 PROVE f[B[q]] = B[IF q = n - 1 THEN 0 ELSE q + 1]
    <3>1. f[C[n - 1 - q]] = C[IF n - 1 - q = 0 THEN n - 1 ELSE (n - 1 - q) - 1]
      BY <2>1, <2>2
    <3>2. CASE q = n - 1
      <4>1. n - 1 - q = 0 /\ B[q] = C[n - 1 - q] /\ B[0] = C[n - 1 - 0] /\ n - 1 - 0 = n - 1
        BY <3>2
      <4> QED
        BY <3>1, <3>2, <4>1
    <3>3. CASE q # n - 1
      <4>1. n - 1 - q # 0 /\ q + 1 \in 0 .. n - 1 /\ (n - 1 - q) - 1 = n - 1 - (q + 1)
        BY <3>3
      <4>2. B[q] = C[n - 1 - q] /\ B[q + 1] = C[n - 1 - (q + 1)]
        BY <4>1
      <4> HIDE DEF B
      <4> QED
        BY <3>1, <3>3, <4>1, <4>2
    <3> QED
      BY <3>2, <3>3
  <2>4. Circles(f, B, n)
    BY <2>3 DEF Circles
  <2>a. \A q \in 0 .. n - 1 : B[q] = C[n - 1 - q] /\ C[q] = B[n - 1 - q]
    BY <2>1
  <2> HIDE DEF B
  <2>5. Enters(f, s, B, n)
    BY <2>1, <2>a DEF Enters
  <2>6. Places0(B, n) = Places0(C, n)
    BY <2>1, <2>a DEF Places0
  <2>7. Walk(f, s, m) = Places0(B, n)
    BY <2>4, <2>5, CycleIsWalked
  <2> QED
    BY <2>6, <2>7
<1> QED
  BY <1>1, <1>2

\* Up and down pass every task, whatever was selected.
LEMMA WrapReaches ==
  ASSUME NEW views, Snapshot(views), NEW order, Permutes(order, views), Len(views) # 0,
         NEW forward \in BOOLEAN, NEW s \in Sels(views)
  PROVE  Walk([t \in Sels(views) |-> SelectWrap(order, views, t, forward)], s, Len(views)) = Singles(views)
<1> DEFINE n == Len(views)
           step == IF forward THEN 1 ELSE n - 1
           f == [t \in Sels(views) |-> SelectWrap(order, views, t, forward)]
           C == [q \in 0 .. n - 1 |-> At(order, views, q)]
<1>1. n \in Nat \ {0}
  BY SnapshotIs
<1>2. \A q \in 0 .. n - 1 : (q + step) % n \in 0 .. n - 1
  <2>1. \A q \in 0 .. n - 1 : q + step \in Nat
    BY <1>1
  <2> HIDE DEF n, step
  <2> QED
    BY <1>1, <2>1, Remainders
<1>3. Singles(views) \subseteq Sels(views)
  BY DEF Sels
<1>4. ASSUME NEW q \in 0 .. n - 1
      PROVE  /\ At(order, views, q) \in Sels(views)
             /\ f[At(order, views, q)] = At(order, views, (q + step) % n)
  <2>1. At(order, views, q) \in Sels(views)
    BY <1>3, AtIs
  <2>2. SelectWrap(order, views, At(order, views, q), forward) = At(order, views, (q + step) % n)
    BY SelectWrapIs
  <2> QED
    BY <2>1, <2>2
<1>5. \A q \in 0 .. n - 1 : f[C[q]] = C[(q + step) % n]
  <2>1. \A q \in 0 .. n - 1 : C[q] = At(order, views, q)
    OBVIOUS
  <2> HIDE DEF C, f, n
  <2> QED
    BY <1>2, <1>4, <2>1
<1>6. Enters(f, s, C, n)
  <2> SUFFICES \E q0 \in 0 .. n - 1 : f[s] = C[q0]
    BY DEF Enters
  <2>1. CASE s \in Singles(views)
    <3>1. PICK q \in 0 .. n - 1 : s = At(order, views, q)
      BY <2>1, AtIs
    <3> QED
      BY <1>2, <1>4, <3>1
  <2>2. CASE s \notin Singles(views)
    <3>1. Pos(order, views, s) = {}
      BY <2>2, AtIs
    <3>2. SelectWrap(order, views, s, forward) = At(order, views, (0 + step) % n)
      BY <3>1, SelectWrapIs
    <3>3. 0 \in 0 .. n - 1
      BY <1>1
    <3>4. (0 + step) % n \in 0 .. n - 1
      BY <1>2, <3>3
    <3> QED
      BY <3>2, <3>4
  <2> QED
    BY <2>1, <2>2
<1>7. Places0(C, n) = Singles(views)
  <2>1. \A q \in 0 .. n - 1 : C[q] = At(order, views, q)
    OBVIOUS
  <2>2. {At(order, views, q) : q \in 0 .. n - 1} = Singles(views)
    BY AtIs
  <2> HIDE DEF C
  <2> QED
    BY <2>1, <2>2 DEF Places0
<1>8. n <= n
  BY <1>1
<1> HIDE DEF C, f
<1>9. Walk(f, s, n) = Places0(C, n)
  <2> HIDE DEF n
  <2>1. step \in {1, n - 1} /\ Turns(f, C, n, step) /\ n \in Nat
    BY <1>1, <1>5 DEF Turns
  <2> HIDE DEF step
  <2> QED
    BY <1>1, <1>6, <1>8, <2>1, AroundIsWalked
<1> QED
  BY <1>7, <1>9 DEF f

MovedDown(order, views, s) == SelectWrap(order, views, s, TRUE)
MovedUp(order, views, s)   == SelectWrap(order, views, s, FALSE)

\* Up undoes down, and down undoes up.
LEMMA WrapReturns ==
  ASSUME NEW views, Snapshot(views), NEW order, Permutes(order, views), NEW s \in Singles(views)
  PROVE  /\ MovedDown(order, views, s) \in Sels(views) /\ MovedUp(order, views, s) \in Sels(views)
         /\ MovedUp(order, views, MovedDown(order, views, s)) = s
         /\ MovedDown(order, views, MovedUp(order, views, s)) = s
<1> DEFINE n == Len(views)
<1>1. PICK q \in 0 .. n - 1 : s = At(order, views, q)
  BY AtIs
<1>2. n \in Nat \ {0} /\ Len(views) # 0
  BY <1>1, SnapshotIs
<1>3. \A p \in 0 .. n - 1 : /\ SelectWrap(order, views, At(order, views, p), TRUE) = At(order, views, (p + 1) % n)
                            /\ SelectWrap(order, views, At(order, views, p), FALSE) = At(order, views, (p + (n - 1)) % n)
  BY <1>2, SelectWrapIs
<1>4. \A p \in 0 .. n - 1 : /\ (p + 1) % n = IF p = n - 1 THEN 0 ELSE p + 1
                            /\ (p + (n - 1)) % n = IF p = 0 THEN n - 1 ELSE p - 1
  BY <1>2, RoundTrip
<1>5. \A p \in 0 .. n - 1 : At(order, views, p) \in Sels(views)
  BY AtIs DEF Sels
<1> DEFINE d == IF q = n - 1 THEN 0 ELSE q + 1
           u == IF q = 0 THEN n - 1 ELSE q - 1
<1>6. /\ d \in 0 .. n - 1 /\ u \in 0 .. n - 1
      /\ (IF d = 0 THEN n - 1 ELSE d - 1) = q /\ (IF u = n - 1 THEN 0 ELSE u + 1) = q
  BY <1>2
<1>7. /\ SelectWrap(order, views, s, TRUE) = At(order, views, d)
      /\ SelectWrap(order, views, s, FALSE) = At(order, views, u)
  BY <1>1, <1>3, <1>4
<1>8. /\ SelectWrap(order, views, At(order, views, d), FALSE) = At(order, views, q)
      /\ SelectWrap(order, views, At(order, views, u), TRUE) = At(order, views, q)
  <2> HIDE DEF d, u, n
  <2>1. (d + (n - 1)) % n = q /\ (u + 1) % n = q
    BY <1>4, <1>6
  <2> QED
    BY <1>3, <1>6, <2>1
<1> QED
  BY <1>1, <1>5, <1>6, <1>7, <1>8 DEF MovedDown, MovedUp

\* K sections, at least one task in each: the tasks of the views, each in one section only.
Divided(ss, views, K) ==
  /\ DOMAIN ss = 1 .. K /\ Len(ss) = K /\ (K = 0 <=> ss = <<>>)
  /\ \A k \in 1 .. K : 1 \in DOMAIN ss[k].tasks /\ \A m \in DOMAIN ss[k].tasks : ss[k].tasks[m] \in DOMAIN views
  /\ \A j, k \in 1 .. K : \A m \in DOMAIN ss[j].tasks : ss[j].tasks[m] = ss[k].tasks[1] => j = k
  /\ K <= Len(views) /\ (Len(views) # 0 => K # 0)

\* The sections divide the tasks: each task is in one, and each has a first.
LEMMA SectionsDivide ==
  ASSUME NEW mode \in {"State", "Dir", "Custom"}, NEW views, Snapshot(views)
  PROVE  \E K \in Nat : Divided(Sections(mode, views), views, K)
<1> DEFINE order == Sorted(mode, views)
           ss == Sections(mode, views)
           L == Len(order)
           D == DOMAIN views
<1>0. PICK K \in Nat : \E e : Sectioned(mode, views, K, e)
  BY SectionsAre
<1>1. PICK e : Sectioned(mode, views, K, e)
  BY <1>0
<1>2. /\ e \in [1 .. K + 1 -> 1 .. L + 1]
      /\ e[1] = 1 /\ e[K + 1] = L + 1
      /\ \A m, n \in 1 .. K + 1 : m < n => e[m] < e[n]
  BY <1>1 DEF Sectioned
<1>3. /\ ss = [k \in 1 .. K |-> ss[k]]
      /\ \A k \in 1 .. K : ss[k].tasks = SubSeq(order, e[k], e[k + 1] - 1)
  BY <1>1 DEF Sectioned
<1>4. /\ order \in Seq(D) /\ L = Len(views) /\ L \in Nat /\ DOMAIN order = 1 .. L
      /\ \A m, n \in 1 .. L : order[m] = order[n] => m = n
      /\ \A n \in 1 .. L : order[n] \in D
  <2>1. /\ order \in Seq(D) /\ L = Len(views) /\ Len(views) \in Nat /\ DOMAIN order = 1 .. Len(views)
        /\ \A m, n \in 1 .. Len(views) : order[m] = order[n] => m = n
    BY SortedIs
  <2> HIDE DEF order, D
  <2> QED
    BY <2>1
<1> HIDE DEF order, ss, L, D
<1>5. DOMAIN ss = 1 .. K /\ Len(ss) = K /\ IsSeq(ss)
  BY <1>3, FunSeq
<1>6. K = 0 <=> ss = <<>>
  BY <1>5, SeqLength
<1>7. ASSUME NEW k \in 1 .. K
      PROVE  /\ DOMAIN ss[k].tasks = 1 .. (e[k + 1] - e[k]) /\ e[k] < e[k + 1]
             /\ e[k] \in 1 .. L /\ e[k + 1] \in 1 .. L + 1
             /\ \A m \in 1 .. (e[k + 1] - e[k]) : /\ e[k] + (m - 1) \in 1 .. L
                                                  /\ ss[k].tasks[m] = order[e[k] + (m - 1)]
  <2>1. k \in 1 .. K + 1 /\ k + 1 \in 1 .. K + 1 /\ k < k + 1
    OBVIOUS
  <2> DEFINE x == e[k]
             y == e[k + 1] - 1
  <2>2. x \in 1 .. L + 1 /\ e[k + 1] \in 1 .. L + 1 /\ x < e[k + 1]
    BY <1>2, <2>1
  <2>3. x \in Int /\ y \in Int /\ x <= y /\ x \in 1 .. L /\ y \in 1 .. L /\ (y - x) + 1 = e[k + 1] - x
    BY <1>4, <2>2
  <2> HIDE DEF x, y
  <2>4. \A i \in x .. y : order[i] \in D
    BY <1>4, <2>3
  <2>5. /\ SubSeq(order, x, y) \in Seq(D)
        /\ Len(SubSeq(order, x, y)) = (y - x) + 1
        /\ \A i \in 1 .. (y - x) + 1 : SubSeq(order, x, y)[i] = order[(x + i) - 1]
    BY <2>3, <2>4, SubSeqProperties
  <2>6. ss[k].tasks = SubSeq(order, x, y)
    BY <1>3 DEF x, y
  <2>7. DOMAIN SubSeq(order, x, y) = 1 .. ((y - x) + 1)
    BY <2>5, LenProperties
  <2>8. \A m \in 1 .. ((y - x) + 1) : (x + m) - 1 = x + (m - 1) /\ x + (m - 1) \in 1 .. L
    BY <1>4, <2>3
  <2> QED
    BY <2>2, <2>3, <2>5, <2>6, <2>7, <2>8 DEF x
<1>8. ASSUME NEW k \in 1 .. K PROVE 1 \in DOMAIN ss[k].tasks /\ ss[k].tasks[1] = order[e[k]]
  <2>1. 1 \in 1 .. (e[k + 1] - e[k]) /\ e[k] + (1 - 1) = e[k]
    BY <1>4, <1>7
  <2> QED
    BY <1>7, <2>1
<1>9. ASSUME NEW j \in 1 .. K, NEW k \in 1 .. K, NEW m \in DOMAIN ss[j].tasks, ss[j].tasks[m] = ss[k].tasks[1]
      PROVE  j = k
  <2>1. m \in 1 .. (e[j + 1] - e[j]) /\ order[e[j] + (m - 1)] = order[e[k]] /\ e[j] + (m - 1) \in 1 .. L /\ e[k] \in 1 .. L
    BY <1>7, <1>8, <1>9
  <2>2. e[j] + (m - 1) = e[k] /\ e[j] \in Nat /\ e[j + 1] \in Nat
    BY <1>4, <1>7, <2>1
  <2>3. e[j] <= e[k] /\ e[k] < e[j + 1]
    BY <2>1, <2>2
  <2>4. j \in 1 .. K + 1 /\ k \in 1 .. K + 1 /\ j + 1 \in 1 .. K + 1 /\ (j < k => j + 1 = k \/ j + 1 < k)
    OBVIOUS
  <2>5. e[k] \in Nat /\ e[j + 1] \in Nat
    BY <1>7
  <2>6. CASE j < k
    BY <1>2, <2>3, <2>4, <2>5, <2>6
  <2>7. CASE k < j
    BY <1>2, <2>2, <2>3, <2>4, <2>5, <2>7
  <2> QED
    BY <2>6, <2>7
<1>10. K <= L
  <2> DEFINE S == {k \in 0 .. K : k + 1 <= e[k + 1]}
  <2>1. 0 \in S
    BY <1>2
  <2>2. ASSUME NEW k \in 1 .. K, k - 1 \in S PROVE k \in S
    <3>1. k \in 1 .. K + 1 /\ k + 1 \in 1 .. K + 1 /\ k < k + 1 /\ (k - 1) + 1 = k
      OBVIOUS
    <3>2. e[k] < e[k + 1] /\ e[k] \in Int /\ e[k + 1] \in Int
      BY <1>2, <3>1
    <3>3. k <= e[k]
      BY <2>2, <3>1
    <3> QED
      BY <3>2, <3>3
  <2> HIDE DEF S
  <2>3. \A k \in 0 .. K : k \in S
    BY <2>1, <2>2, UpTo
  <2>4. K + 1 <= e[K + 1]
    BY <2>3 DEF S
  <2> QED
    BY <1>2, <1>4, <2>4
<1>11. L # 0 => K # 0
  BY <1>2, <1>4
<1>12. \A k \in 1 .. K : \A m \in DOMAIN ss[k].tasks : ss[k].tasks[m] \in D
  BY <1>4, <1>7, ZenonT(40)
<1>13. /\ \A k \in 1 .. K : 1 \in DOMAIN ss[k].tasks /\ \A m \in DOMAIN ss[k].tasks : ss[k].tasks[m] \in D
       /\ \A j, k \in 1 .. K : \A m \in DOMAIN ss[j].tasks : ss[j].tasks[m] = ss[k].tasks[1] => j = k
  BY <1>8, <1>9, <1>12
<1>14. Divided(ss, views, K)
  BY <1>4, <1>5, <1>6, <1>10, <1>11, <1>13 DEF Divided, D
<1> QED
  BY <1>14 DEF ss

\* The selection of the first task of section q, from zero.
HeadAt(ss, views, q) == {views[ss[q + 1].tasks[1]].id}

\* A step between sections goes to the first task of the next or the one before.
LEMMA SectionWrapIs ==
  ASSUME NEW views, Snapshot(views), NEW ss, NEW K \in Nat \ {0}, Divided(ss, views, K), NEW forward \in BOOLEAN
  PROVE  /\ \A q \in 0 .. K - 1 : SelectSectionWrap(ss, views, HeadAt(ss, views, q), forward)
                                    = HeadAt(ss, views, (q + (IF forward THEN 1 ELSE K - 1)) % K)
         /\ \A s : \E p \in 0 .. K - 1 : SelectSectionWrap(ss, views, s, forward) = HeadAt(ss, views, p)
         /\ \A q \in 0 .. K - 1 : HeadAt(ss, views, q) \in Singles(views)
<1> DEFINE step == IF forward THEN 1 ELSE K - 1
           Cur(s) == {k \in DOMAIN ss : \E m \in DOMAIN ss[k].tasks : views[ss[k].tasks[m]].id \in s}
           target(s) == IF Cur(s) = {} THEN (IF forward THEN 0 ELSE K - 1) ELSE (The(Cur(s)) - 1 + step) % K
<1>1. \A s : SelectSectionWrap(ss, views, s, forward) = HeadAt(ss, views, target(s))
  BY DEF SelectSectionWrap, HeadAt, Divided
<1>2. ASSUME NEW q \in 0 .. K - 1 PROVE Cur(HeadAt(ss, views, q)) = {q + 1}
  <2>1. q + 1 \in 1 .. K
    OBVIOUS
  <2>2. q + 1 \in Cur(HeadAt(ss, views, q))
    BY <2>1 DEF Divided, HeadAt
  <2>3. ASSUME NEW k \in 1 .. K, NEW m \in DOMAIN ss[k].tasks, views[ss[k].tasks[m]].id = views[ss[q + 1].tasks[1]].id
        PROVE  k = q + 1
    <3>1. ss[k].tasks[m] \in DOMAIN views /\ ss[q + 1].tasks[1] \in DOMAIN views
      BY <2>1 DEF Divided
    <3>2. ss[k].tasks[m] = ss[q + 1].tasks[1]
      BY <2>3, <3>1 DEF Snapshot
    <3> QED
      BY <2>1, <3>2 DEF Divided
  <2> QED
    BY <2>2, <2>3 DEF Divided, HeadAt
<1>3. ASSUME NEW q \in 0 .. K - 1 PROVE target(HeadAt(ss, views, q)) = (q + step) % K
  <2>1. The({q + 1}) = q + 1 /\ {q + 1} # {}
    BY DEF The
  <2>2. target(HeadAt(ss, views, q)) = ((q + 1) - 1 + step) % K
    BY <1>2, <2>1
  <2>3. (q + 1) - 1 = q
    OBVIOUS
  <2> QED
    BY <2>2, <2>3
<1>4. ASSUME NEW s PROVE target(s) \in 0 .. K - 1
  <2>1. CASE Cur(s) = {}
    BY <2>1
  <2>2. CASE Cur(s) # {}
    <3>1. The(Cur(s)) \in Cur(s) /\ Cur(s) \subseteq 1 .. K
      BY <2>2 DEF The, Divided
    <3>2. The(Cur(s)) \in 1 .. K
      BY <3>1
    <3> HIDE DEF Cur
    <3>3. The(Cur(s)) - 1 + step \in Nat
      BY <3>2
    <3> HIDE DEF step
    <3>4. (The(Cur(s)) - 1 + step) % K \in 0 .. K - 1
      BY <3>3, Remainders
    <3> QED
      BY <2>2, <3>4
  <2> QED
    BY <2>1, <2>2
<1>5. \A q \in 0 .. K - 1 : HeadAt(ss, views, q) \in Singles(views)
  <2>1. ASSUME NEW q \in 0 .. K - 1 PROVE HeadAt(ss, views, q) \in Singles(views)
    <3>1. q + 1 \in 1 .. K
      OBVIOUS
    <3>2. ss[q + 1].tasks[1] \in DOMAIN views
      BY <3>1 DEF Divided
    <3> QED
      BY <3>2 DEF HeadAt, Singles, Ids
  <2> QED
    BY <2>1
<1> HIDE DEF target
<1> QED
  BY <1>1, <1>3, <1>4, <1>5

HeadsOf(ss, views) == {views[ss[k].tasks[1]].id : k \in DOMAIN ss}
OneEach(S)         == {{x} : x \in S}

\* The motions between sections pass the first task of each.
LEMMA SectionsReached ==
  ASSUME NEW views, Snapshot(views), NEW ss, NEW K \in Nat \ {0}, Divided(ss, views, K),
         NEW forward \in BOOLEAN, NEW s \in Sels(views)
  PROVE  Walk([t \in Sels(views) |-> SelectSectionWrap(ss, views, t, forward)], s, Len(views))
           = OneEach(HeadsOf(ss, views))
<1> DEFINE n == Len(views)
           step == IF forward THEN 1 ELSE K - 1
           f == [t \in Sels(views) |-> SelectSectionWrap(ss, views, t, forward)]
           C == [q \in 0 .. K - 1 |-> HeadAt(ss, views, q)]
<1>1. n \in Nat /\ K <= n
  BY SnapshotIs DEF Divided
<1>2. /\ \A q \in 0 .. K - 1 : SelectSectionWrap(ss, views, HeadAt(ss, views, q), forward)
                                 = HeadAt(ss, views, (q + step) % K)
      /\ \E p \in 0 .. K - 1 : SelectSectionWrap(ss, views, s, forward) = HeadAt(ss, views, p)
      /\ \A q \in 0 .. K - 1 : HeadAt(ss, views, q) \in Sels(views)
  BY SectionWrapIs DEF Sels
<1>3. \A q \in 0 .. K - 1 : (q + step) % K \in 0 .. K - 1
  <2>1. \A q \in 0 .. K - 1 : q + step \in Nat
    OBVIOUS
  <2> HIDE DEF step
  <2> QED
    BY <2>1, Remainders
<1>4. step \in {1, K - 1}
  OBVIOUS
<1> HIDE DEF step
<1>5. \A q \in 0 .. K - 1 : C[q] = HeadAt(ss, views, q)
  OBVIOUS
<1>6. \A t \in Sels(views) : f[t] = SelectSectionWrap(ss, views, t, forward)
  OBVIOUS
<1> HIDE DEF C, n, f
<1>7. Turns(f, C, K, step)
  BY <1>2, <1>3, <1>5, <1>6 DEF Turns
<1>8. Enters(f, s, C, K)
  BY <1>2, <1>5, <1>6 DEF Enters
<1>9. Walk(f, s, n) = Places0(C, K)
  BY <1>1, <1>4, <1>7, <1>8, AroundIsWalked
<1>10. Places0(C, K) = {{x} : x \in {views[ss[k].tasks[1]].id : k \in DOMAIN ss}}
  <2>1. DOMAIN ss = 1 .. K
    BY DEF Divided
  <2> DEFINE g == [k \in 1 .. K |-> {views[ss[k].tasks[1]].id}]
  <2>2. ASSUME NEW q \in 0 .. K - 1 PROVE \E k \in 1 .. K : C[q] = g[k]
    <3>1. q + 1 \in 1 .. K
      OBVIOUS
    <3> QED
      BY <1>5, <3>1 DEF HeadAt
  <2>3. ASSUME NEW k \in 1 .. K PROVE \E q \in 0 .. K - 1 : C[q] = g[k]
    <3>1. k - 1 \in 0 .. K - 1 /\ (k - 1) + 1 = k
      OBVIOUS
    <3> QED
      BY <1>5, <3>1 DEF HeadAt
  <2>4. {{x} : x \in {views[ss[k].tasks[1]].id : k \in DOMAIN ss}} = {g[k] : k \in 1 .. K}
    BY <2>1
  <2> HIDE DEF g
  <2>5. Places0(C, K) = {g[k] : k \in 1 .. K}
    BY <2>2, <2>3 DEF Places0
  <2> QED
    BY <2>4, <2>5
<1> QED
  BY <1>9, <1>10 DEF f, n, OneEach, HeadsOf

\* The place in the order, from one, that SelectNextTagged looks at after off others.
Ahead(n, start, off) == ((start + off) % n) + 1

\* The walk over the tagged tasks passes each.
LEMMA TaggedReached ==
  ASSUME NEW views, Snapshot(views), NEW order, Permutes(order, views),
         NEW s \in Sels(views),
         {i \in DOMAIN views : views[i].tagged} # {}
  PROVE  Walk([t \in Sels(views) |-> SelectNextTagged(order, views, t)], s, Len(views))
           = {{x} : x \in {views[i].id : i \in {j \in DOMAIN views : views[j].tagged}}}
<1> DEFINE n == Len(views)
           T == {k \in 1 .. n : views[order[k]].tagged}
           N == Cardinality(T)
           p == Places(T)
           f == [t \in Sels(views) |-> SelectNextTagged(order, views, t)]
           C == [q \in 0 .. N - 1 |-> {views[order[p[q + 1]]].id}]
           Start(t) == IF Pos(order, views, t) = {} THEN 0 ELSE The(Pos(order, views, t))
           Found(t) == {off \in 0 .. n - 1 : views[order[Ahead(n, Start(t), off)]].tagged}
<1>1. n \in Nat /\ Len(order) = n /\ DOMAIN views = 1 .. n /\ DOMAIN order = 1 .. n
  BY SnapshotIs DEF Permutes
<1>2. /\ \A k \in 1 .. n : order[k] \in DOMAIN views
      /\ \A i \in DOMAIN views : \E k \in 1 .. n : order[k] = i
  BY DEF Permutes
<1>3. T # {} /\ n # 0
  <2>1. PICK i \in DOMAIN views : views[i].tagged
    OBVIOUS
  <2>2. PICK k \in 1 .. n : order[k] = i
    BY <1>2, <2>1
  <2> QED
    BY <1>1, <2>1, <2>2
<1>4. IsFiniteSet(T) /\ N <= n /\ T \subseteq Nat
  <2>1. IsFiniteSet(1 .. n) /\ T \in SUBSET (1 .. n)
    BY <1>1, FS_Interval
  <2>2. Cardinality(1 .. n) = n
    <3> HIDE DEF n
    <3>1. 1 \in Int /\ n \in Int /\ ~(1 > n) /\ (n - 1) + 1 = n
      BY <1>1, <1>3
    <3> QED
      BY <3>1, FS_Interval
  <2> HIDE DEF T, n
  <2>3. IsFiniteSet(T) /\ Cardinality(T) <= n
    BY <2>1, <2>2, FS_Subset
  <2>4. T \subseteq Nat
    BY <2>1
  <2> QED
    BY <2>3, <2>4
<1>5. /\ N \in Nat /\ p \in [1 .. N -> T]
      /\ \A k \in 1 .. N : \A m \in 1 .. k - 1 : p[m] < p[k]
      /\ {p[k] : k \in 1 .. N} = T
  <2> HIDE DEF T
  <2> QED
    BY <1>4, PlacesIs
<1>6. N # 0
  BY <1>3, <1>5
<1>7. \A t : SelectNextTagged(order, views, t)
               = IF Found(t) = {} THEN t
                 ELSE {views[order[Ahead(n, Start(t), CHOOSE off \in Found(t) : \A o \in Found(t) : off <= o)]].id}
  BY <1>1 DEF SelectNextTagged, Ahead
\* From any place, something tagged is found, and it is the nearest.
<1>8. ASSUME NEW t, Start(t) \in 0 .. n
      PROVE  \E off \in Found(t) : /\ \A o \in Found(t) : off <= o
                                   /\ SelectNextTagged(order, views, t) = {views[order[Ahead(n, Start(t), off)]].id}
  <2>1. Found(t) # {}
    <3>1. PICK k \in 1 .. n : k \in T
      BY <1>3
    <3>2. CASE Start(t) < k
      <4> DEFINE off == (k - 1) - Start(t)
      <4>1. off \in 0 .. n - 1 /\ Start(t) + off = k - 1 /\ k - 1 \in Nat /\ k - 1 < n /\ (k - 1) + 1 = k
        BY <1>1, <1>8, <3>2
      <4>2. (k - 1) % n = k - 1
        BY <1>1, <1>3, <4>1, Remainders
      <4>3. Ahead(n, Start(t), off) = k
        BY <4>1, <4>2 DEF Ahead
      <4>4. off \in Found(t)
        BY <3>1, <4>1, <4>3
      <4> QED
        BY <4>4
    <3>3. CASE ~(Start(t) < k)
      <4> DEFINE off == n + (k - 1) - Start(t)
      <4>1. /\ off \in 0 .. n - 1 /\ Start(t) + off = n + (k - 1)
            /\ n + (k - 1) \in Nat /\ n <= n + (k - 1) /\ n + (k - 1) < 2 * n /\ ((n + (k - 1)) - n) + 1 = k
        BY <1>1, <1>8, <3>3
      <4>2. (n + (k - 1)) % n = (n + (k - 1)) - n
        BY <1>1, <1>3, <4>1, Remainders
      <4>3. Ahead(n, Start(t), off) = k
        BY <4>1, <4>2 DEF Ahead
      <4>4. off \in Found(t)
        BY <3>1, <4>1, <4>3
      <4> QED
        BY <4>4
    <3> QED
      BY <3>2, <3>3
  <2>2. Found(t) \subseteq Nat
    BY <1>1
  <2> HIDE DEF Found, Start
  <2>3. \E off \in Found(t) : \A o \in Found(t) : off <= o
    BY <2>1, <2>2, LeastNatural
  <2> DEFINE best == CHOOSE off \in Found(t) : \A o \in Found(t) : off <= o
  <2>4. best \in Found(t) /\ \A o \in Found(t) : best <= o
    BY <2>3
  <2>5. SelectNextTagged(order, views, t) = {views[order[Ahead(n, Start(t), best)]].id}
    BY <1>7, <2>1
  <2> HIDE DEF best
  <2> QED
    BY <2>4, <2>5
<1>9. ASSUME NEW start \in 0 .. n, NEW off \in 0 .. n - 1
      PROVE  /\ Ahead(n, start, off) = IF start + off < n THEN start + off + 1 ELSE start + off + 1 - n
             /\ Ahead(n, start, off) \in 1 .. n
  <2>1. start + off \in Nat /\ start + off < 2 * n
    BY <1>1, <1>3
  <2>2. (start + off) % n = IF start + off < n THEN start + off ELSE (start + off) - n
    <3> DEFINE x == start + off
    <3> HIDE DEF x
    <3>1. x \in Nat /\ x < 2 * n
      BY <2>1 DEF x
    <3>2. n \in Nat \ {0}
      BY <1>1, <1>3
    <3>3. x % n = IF x < n THEN x ELSE x - n
      <4> HIDE DEF n
      <4>1. x < n => x % n = x
        BY <3>1, <3>2, Remainders
      <4>2. n <= x /\ x < 2 * n => x % n = x - n
        BY <3>1, <3>2, Remainders
      <4>3. x < n \/ n <= x
        BY <3>1, <3>2
      <4> QED
        BY <3>1, <4>1, <4>2, <4>3
    <3> QED
      BY <3>2 DEF x
  <2> QED
    BY <1>1, <2>1, <2>2 DEF Ahead
<1>10. \A k \in 1 .. N : p[k] \in 1 .. n /\ views[order[p[k]]].tagged
  BY <1>5
<1>11. \A k \in 1 .. n : views[order[k]].tagged => \E m \in 1 .. N : p[m] = k
  <2>1. \A k \in T : \E m \in 1 .. N : p[m] = k
    <3> HIDE DEF T, p, N
    <3> QED
      BY <1>5
  <2>2. \A k \in 1 .. n : views[order[k]].tagged => k \in T
    OBVIOUS
  <2> QED
    BY <2>1, <2>2
<1>12. \A q \in 0 .. N - 1 : C[q] = {views[order[p[q + 1]]].id}
  OBVIOUS
<1> HIDE DEF T, p, N, C
<1>13. ASSUME NEW q \in 0 .. N - 1
       PROVE  Start(C[q]) = p[q + 1] /\ C[q] \in Sels(views)
  <2> DEFINE k == p[q + 1]
  <2>1. q + 1 \in 1 .. N
    BY <1>5
  <2>2. k \in 1 .. n /\ k - 1 \in 0 .. n - 1 /\ (k - 1) + 1 = k
    BY <1>1, <1>10, <2>1
  <2>3. C[q] = At(order, views, k - 1)
    BY <1>12, <2>2 DEF At
  <2> HIDE DEF k, n
  <2>4. Pos(order, views, C[q]) = {k} /\ C[q] \in Sels(views)
    BY <2>2, <2>3, AtIs DEF Sels, n
  <2>5. The({k}) = k
    BY DEF The
  <2> QED
    BY <2>4, <2>5 DEF k
<1>14. Start(s) \in 0 .. n
  <2>1. CASE s \in Singles(views)
    <3>1. PICK q \in 0 .. n - 1 : s = At(order, views, q)
      BY <2>1, AtIs
    <3>2. Pos(order, views, s) = {q + 1}
      BY <3>1, AtIs
    <3>3. The({q + 1}) = q + 1 /\ q + 1 \in 0 .. n
      BY <1>1 DEF The
    <3> QED
      BY <3>2, <3>3
  <2>2. CASE s \notin Singles(views)
    <3>1. Pos(order, views, s) = {}
      BY <2>2, AtIs
    <3> QED
      BY <1>1, <3>1
  <2> QED
    BY <2>1, <2>2
<1>15. \A t : \A off \in Found(t) : off \in 0 .. n - 1 /\ views[order[Ahead(n, Start(t), off)]].tagged
  OBVIOUS
<1>16. \A t : \A off \in 0 .. n - 1 : views[order[Ahead(n, Start(t), off)]].tagged => off \in Found(t)
  OBVIOUS
<1>17. \A t \in Sels(views) : f[t] = SelectNextTagged(order, views, t)
  OBVIOUS
<1> HIDE DEF f, Found, Start, n
\* The walk enters the cycle of the tagged tasks.
<1>18. Enters(f, s, C, N)
  <2>1. PICK off \in Found(s) : f[s] = {views[order[Ahead(n, Start(s), off)]].id}
    BY <1>8, <1>14, <1>17
  <2>2. off \in 0 .. n - 1 /\ views[order[Ahead(n, Start(s), off)]].tagged
    BY <1>15
  <2>3. PICK m \in 1 .. N : p[m] = Ahead(n, Start(s), off)
    BY <1>9, <1>11, <1>14, <2>2
  <2>4. m - 1 \in 0 .. N - 1 /\ (m - 1) + 1 = m
    BY <1>5
  <2> QED
    BY <1>12, <2>1, <2>3, <2>4 DEF Enters
\* From one tagged task it goes to the next, and from the last to the first.
<1>19. ASSUME NEW q \in 0 .. N - 1 PROVE f[C[q]] = C[IF q = N - 1 THEN 0 ELSE q + 1]
  <2> DEFINE succ == IF q = N - 1 THEN 0 ELSE q + 1
             start == p[q + 1]
             goal == p[succ + 1]
             dist == IF start < goal THEN goal - start - 1 ELSE goal - start - 1 + n
  <2>1. succ \in 0 .. N - 1 /\ succ + 1 \in 1 .. N /\ q + 1 \in 1 .. N
    BY <1>5, <1>6
  <2>2. start \in 1 .. n /\ goal \in 1 .. n /\ views[order[goal]].tagged
    BY <1>10, <2>1
  <2>3. IF q = N - 1 THEN goal <= start ELSE start < goal
    <3>1. CASE q = N - 1
      <4>1. succ + 1 = 1 /\ q + 1 = N /\ (N = 1 \/ 1 \in 1 .. N - 1)
        BY <1>5, <1>6, <3>1
      <4>2. goal = p[1] /\ start = p[N]
        BY <4>1
      <4>3. N = 1 \/ p[1] < p[N]
        BY <1>5, <1>6, <4>1
      <4> QED
        BY <1>1, <2>2, <3>1, <4>2, <4>3
    <3>2. CASE q # N - 1
      <4>1. succ + 1 = (q + 1) + 1 /\ q + 1 \in 1 .. (succ + 1) - 1
        BY <1>5, <3>2
      <4> HIDE DEF succ
      <4>2. p[q + 1] < p[succ + 1]
        BY <1>5, <2>1, <4>1
      <4> QED
        BY <3>2, <4>2
    <3> QED
      BY <3>1, <3>2
  <2>4. \A k \in 1 .. n : views[order[k]].tagged =>
          IF q = N - 1 THEN goal <= k /\ k <= start ELSE k <= start \/ goal <= k
    <3>1. SUFFICES ASSUME NEW m \in 1 .. N
                   PROVE  IF q = N - 1 THEN goal <= p[m] /\ p[m] <= start ELSE p[m] <= start \/ goal <= p[m]
      BY <1>11
    <3>2. \A i, j \in 1 .. N : i <= j => p[i] <= p[j] /\ p[i] \in Nat /\ p[j] \in Nat
      <4>1. ASSUME NEW i \in 1 .. N, NEW j \in 1 .. N, i <= j PROVE p[i] <= p[j] /\ p[i] \in Nat /\ p[j] \in Nat
        <5>1. p[i] \in Nat /\ p[j] \in Nat
          BY <1>1, <1>10
        <5>2. i = j \/ i \in 1 .. j - 1
          BY <1>5, <4>1
        <5> QED
          BY <1>5, <5>1, <5>2
      <4> QED
        BY <4>1
    <3>3. CASE q = N - 1
      <4>1. succ + 1 = 1 /\ q + 1 = N /\ 1 <= m /\ m <= N /\ 1 \in 1 .. N /\ N \in 1 .. N
        BY <1>5, <1>6, <3>3
      <4> QED
        BY <3>2, <3>3, <4>1
    <3>4. CASE q # N - 1
      <4>1. succ + 1 = q + 2 /\ (m <= q + 1 \/ q + 2 <= m)
        BY <1>5, <3>4
      <4> QED
        BY <2>1, <3>2, <3>4, <4>1
    <3> QED
      BY <3>3, <3>4
  <2>5. Start(C[q]) = start /\ C[q] \in Sels(views) /\ start \in 0 .. n
    BY <1>1, <1>13, <2>2
  <2>6. C[succ] = {views[order[goal]].id}
    BY <1>12, <2>1
  <2> HIDE DEF start, goal, succ
  <2>7. dist \in 0 .. n - 1 /\ Ahead(n, start, dist) = goal
    <3>1. dist \in 0 .. n - 1
      BY <1>1, <2>2
    <3>2. IF start < goal THEN start + dist < n /\ start + dist + 1 = goal
                          ELSE ~(start + dist < n) /\ start + dist + 1 - n = goal
      BY <1>1, <2>2
    <3> HIDE DEF dist
    <3> QED
      BY <1>9, <2>5, <3>1, <3>2
  <2>8. dist \in Found(C[q])
    BY <1>16, <2>2, <2>5, <2>7
  <2>9. PICK off \in Found(C[q]) : /\ \A o \in Found(C[q]) : off <= o
                                   /\ SelectNextTagged(order, views, C[q]) = {views[order[Ahead(n, start, off)]].id}
    BY <1>8, <2>5
  <2>10. off \in 0 .. n - 1 /\ off <= dist /\ views[order[Ahead(n, start, off)]].tagged
    BY <1>15, <2>5, <2>8, <2>9
  <2>11. off = dist
    <3> DEFINE x == Ahead(n, start, off)
    <3>1. x = (IF start + off < n THEN start + off + 1 ELSE start + off + 1 - n) /\ x \in 1 .. n
      BY <1>9, <2>5, <2>10
    <3>2. IF q = N - 1 THEN goal <= x /\ x <= start ELSE x <= start \/ goal <= x
      BY <2>4, <2>10, <3>1
    <3> HIDE DEF x
    <3>3. CASE q = N - 1
      <4>1. goal <= start /\ goal <= x /\ x <= start
        BY <2>3, <3>2, <3>3
      <4> QED
        BY <1>1, <2>2, <2>10, <3>1, <4>1
    <3>4. CASE q # N - 1
      <4>1. start < goal /\ (x <= start \/ goal <= x)
        BY <2>3, <3>2, <3>4
      <4> QED
        BY <1>1, <2>2, <2>10, <3>1, <4>1
    <3> QED
      BY <3>3, <3>4
  <2>12. f[C[q]] = {views[order[goal]].id}
    BY <1>17, <2>5, <2>7, <2>9, <2>11
  <2> QED
    BY <2>6, <2>12 DEF succ
<1>20. Circles(f, C, N)
  BY <1>19 DEF Circles
<1>21. Walk(f, s, n) = Places0(C, N)
  BY <1>1, <1>4, <1>5, <1>6, <1>18, <1>20, CycleIsWalked
<1>22. Places0(C, N) = {{x} : x \in {views[i].id : i \in {j \in DOMAIN views : views[j].tagged}}}
  <2>1. ASSUME NEW q \in 0 .. N - 1 PROVE \E i \in DOMAIN views : views[i].tagged /\ C[q] = {views[i].id}
    <3>1. q + 1 \in 1 .. N
      BY <1>5
    <3>2. p[q + 1] \in 1 .. n /\ views[order[p[q + 1]]].tagged
      BY <1>10, <3>1
    <3> QED
      BY <1>2, <1>12, <3>2
  <2>2. ASSUME NEW i \in DOMAIN views, views[i].tagged PROVE \E q \in 0 .. N - 1 : C[q] = {views[i].id}
    <3>1. PICK k \in 1 .. n : order[k] = i
      BY <1>2
    <3>2. PICK m \in 1 .. N : p[m] = k
      BY <1>11, <2>2, <3>1
    <3>3. m - 1 \in 0 .. N - 1 /\ (m - 1) + 1 = m
      BY <1>5
    <3> QED
      BY <1>12, <3>1, <3>2, <3>3
  <2>3. {{x} : x \in {views[i].id : i \in {j \in DOMAIN views : views[j].tagged}}}
          = {{views[i].id} : i \in {j \in DOMAIN views : views[j].tagged}}
    OBVIOUS
  <2> QED
    BY <2>1, <2>2, <2>3 DEF Places0
<1> QED
  BY <1>21, <1>22 DEF f, n

\* A selection that is gone falls back to a task that is there.
LEMMA ResolveIs ==
  ASSUME NEW views, Snapshot(views), NEW order, Permutes(order, views), NEW s \in Sels(views)
  PROVE  /\ IF Ids(views) = {} THEN ResolveSelection(order, views, s) = {}
            ELSE ResolveSelection(order, views, s) \in Singles(views)
         /\ s \in Singles(views) => ResolveSelection(order, views, s) = s
<1>1. Len(views) \in Nat /\ DOMAIN views = 1 .. Len(views) /\ IsSeq(views)
  BY SnapshotIs DEF Snapshot, IsSeq
<1>2. views = <<>> <=> Len(views) = 0
  BY <1>1, SeqLength
<1>3. Ids(views) = {} <=> Len(views) = 0
  <2>1. CASE Len(views) = 0
    BY <1>1, <2>1 DEF Ids
  <2>2. CASE Len(views) # 0
    <3>1. 1 \in DOMAIN views
      BY <1>1, <2>2
    <3> QED
      BY <2>2, <3>1 DEF Ids
  <2> QED
    BY <2>1, <2>2
<1>4. CASE s \in Singles(views)
  <2>1. PICK x \in Ids(views) : s = {x}
    BY <1>4 DEF Singles
  <2>2. s \cap Ids(views) # {}
    BY <2>1
  <2> QED
    BY <1>4, <2>1, <2>2 DEF ResolveSelection
<1>5. CASE s \notin Singles(views)
  <2>1. s = {} \/ s = {0}
    BY <1>5 DEF Sels
  <2>2. 0 \notin Ids(views)
    BY DEF Ids, Snapshot
  <2>3. s \cap Ids(views) = {}
    BY <2>1, <2>2
  <2>4. ResolveSelection(order, views, s) = IF views = <<>> THEN {} ELSE {views[order[1]].id}
    BY <2>3 DEF ResolveSelection
  <2>5. CASE Len(views) = 0
    BY <1>2, <1>3, <1>5, <2>4, <2>5
  <2>6. CASE Len(views) # 0
    <3>1. 1 \in 1 .. Len(views)
      BY <1>1, <2>6
    <3>2. order[1] \in DOMAIN views
      BY <3>1 DEF Permutes
    <3>3. {views[order[1]].id} \in Singles(views)
      BY <3>2 DEF Singles, Ids
    <3> QED
      BY <1>2, <1>3, <1>5, <2>4, <2>6, <3>3
  <2> QED
    BY <2>5, <2>6
<1> QED
  BY <1>4, <1>5

(***************************************************************************)
(* The selection always resolves to a task that is there, up undoes down,  *)
(* and each motion, repeated, reaches every task, section or tagged task:  *)
(* for all snapshots, however they are grouped.                            *)
(***************************************************************************)
THEOREM MotionsReachAll == MotionsReach
<1> SUFFICES ASSUME NEW l \in Lists, NEW s \in Sels(l.views)
    PROVE
      LET n == Len(l.views)
          ids == Ids(l.views)
          ss == Sections(l.mode, l.views)
          order == DisplayOrder(ss)
          tagged == {l.views[i].id : i \in {i \in DOMAIN l.views : l.views[i].tagged}}
          heads == {l.views[ss[k].tasks[1]].id : k \in DOMAIN ss}
          sels == Sels(l.views)
          down == [t \in sels |-> SelectWrap(order, l.views, t, TRUE)]
          up   == [t \in sels |-> SelectWrap(order, l.views, t, FALSE)]
          next == [t \in sels |-> SelectSectionWrap(ss, l.views, t, TRUE)]
          prev == [t \in sels |-> SelectSectionWrap(ss, l.views, t, FALSE)]
          tag  == [t \in sels |-> SelectNextTagged(order, l.views, t)]
          r == ResolveSelection(order, l.views, s)
      IN  /\ IF ids = {} THEN r = {} ELSE r \in Singles(l.views)
          /\ s \in Singles(l.views) => r = s /\ up[down[s]] = s /\ down[up[s]] = s
          /\ n > 0 => /\ Walk(down, s, n) = Singles(l.views) /\ Walk(up, s, n) = Singles(l.views)
                      /\ Walk(next, s, n) = {{x} : x \in heads} /\ Walk(prev, s, n) = {{x} : x \in heads}
          /\ IF tagged = {} THEN tag[s] = s ELSE Walk(tag, s, n) = {{x} : x \in tagged}
  BY DEF MotionsReach, Sels, Singles
<1> DEFINE views == l.views
           n == Len(views)
           ss == Sections(l.mode, views)
           order == DisplayOrder(ss)
           tagged == {views[i].id : i \in {i \in DOMAIN views : views[i].tagged}}
           heads == {views[ss[k].tasks[1]].id : k \in DOMAIN ss}
           sels == Sels(views)
           down == [t \in sels |-> SelectWrap(order, views, t, TRUE)]
           up   == [t \in sels |-> SelectWrap(order, views, t, FALSE)]
           next == [t \in sels |-> SelectSectionWrap(ss, views, t, TRUE)]
           prev == [t \in sels |-> SelectSectionWrap(ss, views, t, FALSE)]
           tag  == [t \in sels |-> SelectNextTagged(order, views, t)]
           r == ResolveSelection(order, views, s)
<1>1. l.mode \in {"State", "Dir", "Custom"} /\ Snapshot(views)
  BY ListingAssumption
<1>2. Permutes(order, views)
  BY <1>1, DisplayPermutes
<1>3. PICK K \in Nat : Divided(ss, views, K)
  BY <1>1, SectionsDivide
<1>4. n \in Nat
  BY <1>1, SnapshotIs
<1>5. s \in sels
  OBVIOUS
<1> HIDE DEF ss, order, views
<1>6. /\ IF Ids(views) = {} THEN r = {} ELSE r \in Singles(views)
      /\ s \in Singles(views) => r = s
  BY <1>1, <1>2, <1>5, ResolveIs
<1>7. ASSUME s \in Singles(views) PROVE up[down[s]] = s /\ down[up[s]] = s
  <2>1. /\ MovedDown(order, views, s) \in sels /\ MovedUp(order, views, s) \in sels
        /\ MovedUp(order, views, MovedDown(order, views, s)) = s
        /\ MovedDown(order, views, MovedUp(order, views, s)) = s
    BY <1>1, <1>2, <1>7, WrapReturns
  <2>2. \A t \in sels : down[t] = MovedDown(order, views, t) /\ up[t] = MovedUp(order, views, t)
    BY DEF MovedDown, MovedUp
  <2> HIDE DEF down, up
  <2> QED
    BY <1>5, <2>1, <2>2
<1>8. ASSUME n > 0
      PROVE  /\ Walk(down, s, n) = Singles(views) /\ Walk(up, s, n) = Singles(views)
             /\ Walk(next, s, n) = {{x} : x \in heads} /\ Walk(prev, s, n) = {{x} : x \in heads}
  <2>1. n # 0 /\ K \in Nat \ {0}
    BY <1>3, <1>4, <1>8 DEF Divided
  <2>2. Walk(down, s, n) = Singles(views) /\ Walk(up, s, n) = Singles(views)
    BY <1>1, <1>2, <1>5, <2>1, WrapReaches
  <2>3. Walk(next, s, n) = OneEach(HeadsOf(ss, views)) /\ Walk(prev, s, n) = OneEach(HeadsOf(ss, views))
    BY <1>1, <1>3, <1>5, <2>1, SectionsReached
  <2>4. OneEach(HeadsOf(ss, views)) = {{x} : x \in heads}
    BY DEF OneEach, HeadsOf
  <2> QED
    BY <2>2, <2>3, <2>4
<1>9. ASSUME tagged # {} PROVE Walk(tag, s, n) = {{x} : x \in tagged}
  <2>1. {i \in DOMAIN views : views[i].tagged} # {}
    BY <1>9
  <2> QED
    BY <1>1, <1>2, <1>5, <2>1, TaggedReached, ZenonT(40)
<1>10. ASSUME tagged = {} PROVE tag[s] = s
  <2> DEFINE start == IF Pos(order, views, s) = {} THEN 0 ELSE The(Pos(order, views, s))
             at(off) == order[((start + off) % Len(order)) + 1]
             found == {off \in 0 .. Len(order) - 1 : views[at(off)].tagged}
  <2>1. \A i \in DOMAIN views : ~views[i].tagged
    BY <1>10
  <2>2. Len(order) = n /\ \A k \in 1 .. n : order[k] \in DOMAIN views
    BY <1>2 DEF Permutes
  <2>3. start \in 0 .. n
    <3>1. Pos(order, views, s) \subseteq 1 .. n
      BY <1>2 DEF Pos, Permutes
    <3>2. Pos(order, views, s) # {} => The(Pos(order, views, s)) \in Pos(order, views, s)
      BY DEF The
    <3> QED
      BY <1>4, <3>1, <3>2
  <2> HIDE DEF start
  <2>4. ASSUME NEW off \in 0 .. n - 1 PROVE ~views[at(off)].tagged
    <3>1. n \in Nat \ {0} /\ start + off \in Nat
      BY <1>4, <2>3
    <3>2. (start + off) % n \in 0 .. n - 1
      <4> HIDE DEF n
      <4> QED
        BY <3>1, Remainders
    <3>3. ((start + off) % n) + 1 \in 1 .. n
      BY <1>4, <3>2
    <3> QED
      BY <2>1, <2>2, <3>3
  <2>5. found = {}
    BY <2>2, <2>4
  <2>6. SelectNextTagged(order, views, s) = s
    BY <2>5 DEF SelectNextTagged, start
  <2> QED
    BY <1>5, <2>6
<1> QED
  BY <1>6, <1>7, <1>8, <1>9, <1>10 DEF ss, order, views

-----------------------------------------------------------------------------
(* The group picker.                                                       *)

\* The rows that going down passes from the first.
Descent(d, len) == d = [k \in 0 .. len |-> IF k = 0 THEN 0 ELSE StepDown(d[k - 1], len)]

\* Steps down from the top pass every row and stay on the last.
LEMMA DescentIs ==
  ASSUME NEW len \in Nat \ {0}
  PROVE  LET downs == CHOOSE d : Descent(d, len)
         IN  {downs[k] : k \in 0 .. len} = 0 .. len - 1
<1> DEFINE u == CHOOSE d : Descent(d, len)
           g == [k \in 0 .. len |-> IF k < len THEN k ELSE len - 1]
<1>1. ASSUME NEW k \in 0 .. len PROVE g[k] = IF k = 0 THEN 0 ELSE StepDown(g[k - 1], len)
  <2>1. CASE k = 0
    BY <2>1
  <2>2. CASE k # 0
    <3>1. k - 1 \in 0 .. len /\ k - 1 < len /\ (k - 1) + 1 = k
      BY <2>2
    <3>2. g[k - 1] = k - 1
      BY <3>1
    <3>3. StepDown(k - 1, len) = IF k < len - 1 THEN k ELSE len - 1
      BY <3>1 DEF StepDown, Least
    <3>4. g[k] = IF k < len - 1 THEN k ELSE len - 1
      OBVIOUS
    <3> HIDE DEF g
    <3> QED
      BY <2>2, <3>2, <3>3, <3>4
  <2> QED
    BY <2>1, <2>2
<1>2. Descent(g, len)
  <2>1. g = [k \in 0 .. len |-> g[k]]
    OBVIOUS
  <2> HIDE DEF g
  <2> QED
    BY <1>1, <2>1 DEF Descent
<1>3. Descent(u, len)
  BY <1>2
<1> HIDE DEF u
<1>g. \A k \in 0 .. len : g[k] = IF k < len THEN k ELSE len - 1
  OBVIOUS
<1> HIDE DEF g
<1> DEFINE S == {k \in 0 .. len : u[k] = g[k]}
<1>4. 0 \in S
  <2>1. 0 \in 0 .. len
    OBVIOUS
  <2>2. u[0] = 0 /\ g[0] = 0
    BY <1>2, <1>3, <2>1 DEF Descent
  <2> QED
    BY <2>1, <2>2
<1>5. ASSUME NEW k \in 1 .. len, k - 1 \in S PROVE k \in S
  <2>1. k \in 0 .. len /\ k # 0
    OBVIOUS
  <2>2. u[k] = StepDown(u[k - 1], len) /\ g[k] = StepDown(g[k - 1], len)
    BY <1>2, <1>3, <2>1 DEF Descent
  <2> QED
    BY <1>5, <2>1, <2>2
<1> HIDE DEF S
<1>6. \A k \in 0 .. len : k \in S
  BY <1>4, <1>5, UpTo
<1>7. \A k \in 0 .. len : u[k] = IF k < len THEN k ELSE len - 1
  BY <1>6, <1>g DEF S
<1>8. {u[k] : k \in 0 .. len} = 0 .. len - 1
  BY <1>7
<1> QED
  BY <1>8 DEF u

(***************************************************************************)
(* The group picker's cursor stays on its rows and reaches each of them,   *)
(* no row is offered twice, and what is preselected for a text is what the *)
(* text means: for all snapshots and everything that may be typed.         *)
(***************************************************************************)
THEOREM PickersHold == PickerHolds
<1> SUFFICES ASSUME NEW l \in Lists, l.mode = "Custom", NEW typed \in Typed
    PROVE
      LET cands == GroupCandidates(l.views, typed)
          groups == UNION {l.views[i].group : i \in DOMAIN l.views}
          first == PreselectedRow(typed = "", Len(cands))
          downs[k \in 0 .. Len(cands)] == IF k = 0 THEN 0 ELSE StepDown(downs[k - 1], Len(cands))
      IN  /\ {downs[k] : k \in 0 .. Len(cands)} = 0 .. Len(cands) - 1
          /\ \A k \in 1 .. Len(cands) : StepUp(k - 1) \in 0 .. Len(cands) - 1
          /\ \A j, k \in DOMAIN cands : cands[j] = cands[k] => j = k
          /\ IF typed = "" THEN PickedGroup(cands, typed, first) = {}
             ELSE IF groups \cap Begins[typed] = {} THEN PickedGroup(cands, typed, first) = {typed}
             ELSE \E g \in groups \cap Begins[typed] : PickedGroup(cands, typed, first) = {g}
  BY DEF PickerHolds
<1> DEFINE views == l.views
           groups == UNION {views[i].group : i \in DOMAIN views}
           names == groups \cap Begins[typed]
           cands == GroupCandidates(views, typed)
           s == Ordered(names, Collations)
           N == Cardinality(names)
           first == PreselectedRow(typed = "", Len(cands))
<1>1. Snapshot(views)
  BY ListingAssumption
<1>2. IsFiniteSet(names) /\ names \subseteq Labels
  BY <1>1, GroupNames
<1>3. /\ IsSeq(cands) /\ N \in Nat /\ Len(cands) = N + 1 /\ cands[1] = {}
      /\ \A n \in 2 .. Len(cands) : cands[n] = {s[n - 1]}
  <2>1. GroupRows(cands, names)
    BY <1>1, GroupsAreSeq
  <2> HIDE DEF cands, names
  <2> QED
    BY <2>1 DEF GroupRows
<1> HIDE DEF cands, names, groups, views
<1>4. Keyed(names, Collations)
  BY <1>2, CollationsIs
<1>5. /\ Ascends(s, names, Collations)
      /\ \A m, n \in 1 .. N : s[m] = s[n] => m = n
  BY <1>2, <1>4, OrderedIs
<1>6. s \in [1 .. N -> names]
  BY <1>5 DEF Ascends
<1>7. N = 0 <=> names = {}
  BY <1>2, FS_EmptySet
<1> HIDE DEF s, N
<1>8. DOMAIN cands = 1 .. N + 1
  BY <1>3, SeqLength
<1>9. ASSUME NEW j \in DOMAIN cands, NEW k \in DOMAIN cands, cands[j] = cands[k] PROVE j = k
  <2>1. \A n \in 1 .. N + 1 : n = 1 \/ (n \in 2 .. N + 1 /\ n - 1 \in 1 .. N)
    BY <1>3
  <2>2. \A n \in 2 .. N + 1 : cands[n] = {s[n - 1]} /\ cands[n] # cands[1]
    BY <1>3
  <2>3. CASE j # 1 /\ k # 1
    <3>1. j - 1 \in 1 .. N /\ k - 1 \in 1 .. N /\ s[j - 1] = s[k - 1]
      BY <1>8, <1>9, <2>1, <2>2, <2>3
    <3>2. j - 1 = k - 1
      BY <1>5, <3>1
    <3> QED
      BY <1>3, <1>8, <3>2
  <2>4. CASE j = 1 \/ k = 1
    BY <1>8, <1>9, <2>1, <2>2, <2>4
  <2> QED
    BY <2>3, <2>4
<1>a. N + 1 >= 2 <=> names # {}
  BY <1>3, <1>7
<1>d. GroupIsNew(cands, typed) <=> typed # "" /\ names = {}
  <2>1. Len(cands) < 2 <=> names = {}
    BY <1>3, <1>7
  <2> HIDE DEF cands, names
  <2> QED
    BY <2>1 DEF GroupIsNew
<1>b. \A row : PickedGroup(cands, typed, row) =
        IF GroupIsNew(cands, typed) THEN {typed} ELSE IF row + 1 \in 1 .. N + 1 THEN cands[row + 1] ELSE {}
  BY <1>8 DEF PickedGroup
<1>c. first = IF typed # "" /\ names # {} THEN 1 ELSE 0
  BY <1>3, <1>a DEF PreselectedRow
<1> HIDE DEF first
<1>e. 0 + 1 = 1 /\ 1 \in 1 .. N + 1 /\ 1 + 1 = 2 /\ (N # 0 => 2 \in 1 .. N + 1 /\ 2 \in 2 .. N + 1 /\ 2 - 1 = 1 /\ 1 \in 1 .. N)
  BY <1>3
<1>10. ASSUME typed = "" PROVE PickedGroup(cands, typed, first) = {}
  <2>1. first = 0 /\ ~GroupIsNew(cands, typed)
    BY <1>10, <1>c, <1>d
  <2>2. PickedGroup(cands, typed, 0) = cands[1]
    BY <1>b, <1>e, <2>1
  <2> QED
    BY <1>3, <2>1, <2>2
<1>11. ASSUME typed # "", names = {} PROVE PickedGroup(cands, typed, first) = {typed}
  BY <1>11, <1>b, <1>d
<1>12. ASSUME typed # "", names # {} PROVE \E g \in names : PickedGroup(cands, typed, first) = {g}
  <2>1. first = 1 /\ ~GroupIsNew(cands, typed) /\ N # 0
    BY <1>7, <1>12, <1>c, <1>d
  <2>2. cands[2] = {s[1]} /\ s[1] \in names
    BY <1>3, <1>6, <1>e, <2>1
  <2>3. PickedGroup(cands, typed, 1) = cands[2]
    BY <1>b, <1>e, <2>1
  <2> QED
    BY <2>1, <2>2, <2>3
<1> DEFINE downs == CHOOSE d : Descent(d, Len(cands))
<1>13. {downs[k] : k \in 0 .. Len(cands)} = 0 .. Len(cands) - 1
  <2>1. Len(cands) \in Nat \ {0}
    BY <1>3
  <2> QED
    BY <2>1, DescentIs
<1>14. downs = CHOOSE d : d = [k \in 0 .. Len(cands) |-> IF k = 0 THEN 0 ELSE StepDown(d[k - 1], Len(cands))]
  BY DEF Descent
<1> HIDE DEF downs
<1>15. \A k \in 1 .. Len(cands) : StepUp(k - 1) \in 0 .. Len(cands) - 1
  BY <1>3 DEF StepUp
<1>16. IF typed = "" THEN PickedGroup(cands, typed, first) = {}
       ELSE IF names = {} THEN PickedGroup(cands, typed, first) = {typed}
       ELSE \E g \in names : PickedGroup(cands, typed, first) = {g}
  BY <1>10, <1>11, <1>12
<1> HIDE DEF first
<1> QED
  BY <1>9, <1>13, <1>14, <1>15, <1>16 DEF cands, names, groups, views, first

-----------------------------------------------------------------------------
(* Windows of lists and screens, and the widths of texts.                  *)

\* f counts the columns of the first glyphs of a line, up to n of them.
Counts(f, line, n) == f[0] = 0 /\ \A k \in 1 .. n : f[k] = f[k - 1] + Width[line[k]]

\* Whatever counts so is what Columns counts.
LEMMA ColumnsIs ==
  ASSUME NEW line, NEW n \in Nat, NEW f, Counts(f, line, n), NEW m \in 0 .. n
  PROVE  Columns(line, m) = f[m]
<1> DEFINE Adds(g) == g = [k \in 0 .. m |-> IF k = 0 THEN 0 ELSE g[k - 1] + Width[line[k]]]
           u == CHOOSE g : Adds(g)
           h == [k \in 0 .. m |-> f[k]]
<1>1. ASSUME NEW k \in 0 .. m PROVE h[k] = IF k = 0 THEN 0 ELSE h[k - 1] + Width[line[k]]
  <2>1. k # 0 => k \in 1 .. n /\ k - 1 \in 0 .. m
    OBVIOUS
  <2> QED
    BY <2>1 DEF Counts
<1>2. Adds(h)
  <2>1. h = [k \in 0 .. m |-> h[k]]
    OBVIOUS
  <2> HIDE DEF h
  <2> QED
    BY <1>1, <2>1
<1>3. Adds(u)
  <2> HIDE DEF Adds
  <2> QED
    BY <1>2
<1>4. Columns(line, m) = u[m]
  BY DEF Columns
<1> HIDE DEF u
<1> DEFINE S == {k \in 0 .. m : u[k] = f[k]}
<1>5. m \in Nat
  OBVIOUS
<1>6. 0 \in S
  BY <1>3 DEF Counts
<1>7. ASSUME NEW k \in 1 .. m, k - 1 \in S PROVE k \in S
  <2>1. k \in 0 .. m /\ k # 0 /\ k \in 1 .. n
    OBVIOUS
  <2>2. u[k] = u[k - 1] + Width[line[k]]
    BY <1>3, <2>1
  <2>3. f[k] = f[k - 1] + Width[line[k]]
    BY <2>1 DEF Counts
  <2> QED
    BY <1>7, <2>1, <2>2, <2>3
<1> HIDE DEF S
<1>8. \A k \in 0 .. m : k \in S
  BY <1>5, <1>6, <1>7, UpTo
<1>9. m \in S
  BY <1>5, <1>8
<1> QED
  BY <1>4, <1>9 DEF S

\* Each glyph adds its width to those before it.
LEMMA ColumnsAdd ==
  ASSUME NEW line, NEW n \in Nat, \A k \in 1 .. n : Width[line[k]] \in Nat
  PROVE  /\ Columns(line, 0) = 0
         /\ \A k \in 0 .. n : Columns(line, k) \in Nat
         /\ \A k \in 1 .. n : Columns(line, k) = Columns(line, k - 1) + Width[line[k]]
<1> DEFINE s == [k \in 1 .. n |-> Width[line[k]]]
<1>1. s \in Seq(Nat) /\ Len(s) = n /\ \A k \in 1 .. n : s[k] = Width[line[k]]
  <2>1. s \in [1 .. n -> Nat] /\ s = [k \in 1 .. n |-> s[k]]
    OBVIOUS
  <2>2. s \in Seq(Nat)
    BY <2>1
  <2> HIDE DEF s
  <2>3. Len(s) = n
    BY <2>1, FunSeq
  <2> QED
    BY <2>2, <2>3 DEF s
<1> HIDE DEF s
<1>2. PICK f : Sums(f, s, Len(s))
  BY <1>1, SumsExist
<1>3. \A k \in 0 .. n : f[k] \in Nat
  BY <1>1, <1>2, SumsAreNat
<1>4. Counts(f, line, n)
  <2>1. f = [k \in 0 .. n |-> IF k = 0 THEN 0 ELSE f[k - 1] + s[k]]
    BY <1>1, <1>2 DEF Sums
  <2>2. \A k \in 0 .. n : f[k] = IF k = 0 THEN 0 ELSE f[k - 1] + s[k]
    BY <2>1
  <2>3. 0 \in 0 .. n /\ \A k \in 1 .. n : k \in 0 .. n /\ k # 0
    OBVIOUS
  <2> QED
    BY <1>1, <2>2, <2>3 DEF Counts
<1>5. \A k \in 0 .. n : Columns(line, k) = f[k]
  BY <1>4, ColumnsIs
<1>6. 0 \in 0 .. n /\ \A k \in 1 .. n : k \in 0 .. n /\ k - 1 \in 0 .. n
  OBVIOUS
<1> QED
  BY <1>3, <1>4, <1>5, <1>6 DEF Counts

\* What two lines have in common counts alike.
LEMMA SameColumns ==
  ASSUME NEW line, NEW p, NEW n \in Nat, \A k \in 1 .. n : Width[line[k]] \in Nat /\ p[k] = line[k]
  PROVE  Columns(p, n) = Columns(line, n)
<1> DEFINE f == [k \in 0 .. n |-> Columns(line, k)]
<1>1. /\ Columns(line, 0) = 0
      /\ \A k \in 1 .. n : Columns(line, k) = Columns(line, k - 1) + Width[line[k]]
  BY ColumnsAdd
<1>2. \A k \in 0 .. n : f[k] = Columns(line, k)
  OBVIOUS
<1>3. 0 \in 0 .. n /\ n \in 0 .. n /\ \A k \in 1 .. n : k \in 0 .. n /\ k - 1 \in 0 .. n
  OBVIOUS
<1> HIDE DEF f
<1>4. Counts(f, p, n)
  BY <1>1, <1>2, <1>3 DEF Counts
<1>5. Columns(p, n) = f[n]
  BY <1>3, <1>4, ColumnsIs
<1> QED
  BY <1>2, <1>3, <1>5

\* More glyphs have no fewer columns.
LEMMA ColumnsGrow ==
  ASSUME NEW line, NEW n \in Nat, \A k \in 1 .. n : Width[line[k]] \in Nat,
         NEW j \in 0 .. n, NEW k \in 0 .. n, j <= k
  PROVE  Columns(line, j) <= Columns(line, k)
<1> DEFINE S == {d \in 0 .. k - j : Columns(line, j) <= Columns(line, j + d)}
<1>1. /\ \A i \in 0 .. n : Columns(line, i) \in Nat
      /\ \A i \in 1 .. n : Columns(line, i) = Columns(line, i - 1) + Width[line[i]]
  BY ColumnsAdd
<1>2. k - j \in Nat
  OBVIOUS
<1>3. 0 \in S
  <2>1. 0 \in 0 .. k - j /\ j + 0 = j
    OBVIOUS
  <2> QED
    BY <1>1, <2>1
<1>4. ASSUME NEW d \in 1 .. k - j, d - 1 \in S PROVE d \in S
  <2> DEFINE i == j + d
  <2>1. i \in 1 .. n /\ i - 1 = j + (d - 1) /\ i - 1 \in 0 .. n /\ d \in 0 .. k - j
    OBVIOUS
  <2>2. Columns(line, j) <= Columns(line, j + (d - 1))
    BY <1>4
  <2> HIDE DEF i
  <2>3. Columns(line, j) <= Columns(line, i)
    BY <1>1, <2>1, <2>2
  <2> QED
    BY <2>1, <2>3 DEF i
<1> HIDE DEF S
<1>5. \A d \in 0 .. k - j : d \in S
  BY <1>2, <1>3, <1>4, UpTo
<1>6. k - j \in S /\ j + (k - j) = k
  BY <1>2, <1>5
<1> QED
  BY <1>6 DEF S

\* A window of a list has as many rows as fit, all of them there, the selected one among them.
LEMMA ScrollWindowIs ==
  ASSUME NEW total \in Nat, NEW max \in Nat, NEW sel \in 0 .. total - 1
  PROVE  LET w == ScrollWindow(sel, total, max)
         IN  /\ w[1] \in Nat /\ w[2] = Least(total, max) /\ w[1] + w[2] <= total
             /\ max > 0 => w[1] <= sel /\ sel < w[1] + w[2]
<1>1. CASE max = 0
  <2>1. ScrollWindow(sel, total, max) = <<0, 0>> /\ Least(total, max) = 0
    BY <1>1 DEF ScrollWindow, Least
  <2> QED
    BY <1>1, <2>1
<1>2. CASE max # 0
  <2> DEFINE count == Least(total, max)
             from == IF sel >= count THEN sel + 1 - count ELSE 0
  <2>1. count \in 1 .. total
    BY <1>2 DEF Least
  <2>2. total # 0
    OBVIOUS
  <2> HIDE DEF count, from
  <2>3. from = IF sel >= count THEN sel + 1 - count ELSE 0
    BY DEF from
  <2>4. ScrollWindow(sel, total, max) = IF total = 0 \/ max = 0 THEN <<0, 0>> ELSE <<from, count>>
    BY DEF ScrollWindow, from, count
  <2>5. ScrollWindow(sel, total, max) = <<from, count>>
    BY <1>2, <2>2, <2>4
  <2>6. from \in Nat /\ from + count <= total /\ from <= sel /\ sel < from + count
    BY <2>1, <2>3
  <2>7. /\ ScrollWindow(sel, total, max)[1] = from /\ ScrollWindow(sel, total, max)[2] = count
    BY <2>5
  <2> QED
    BY <2>6, <2>7 DEF count
<1> QED
  BY <1>1, <1>2

\* A line is a sequence of glyphs.
Line(line) == line \in Seq(DOMAIN Width)

\* A line has a length, and its glyphs have widths.
LEMMA LineIs ==
  ASSUME NEW line, Line(line)
  PROVE  /\ Len(line) \in Nat /\ DOMAIN line = 1 .. Len(line)
         /\ \A k \in 1 .. Len(line) : line[k] \in DOMAIN Width /\ Width[line[k]] \in Nat
BY LenProperties, ElementOfSeq, ListingAssumption DEF Line

\* What truncate leaves: the line, or what of it leaves room for the ellipsis.
LEMMA TruncateIs ==
  ASSUME NEW line, Line(line), NEW max \in Nat \ {0}
  PROVE  /\ Columns(line, Len(line)) <= max => Truncate(line, max) = line
         /\ ~(Columns(line, Len(line)) <= max) =>
              \E k \in 0 .. Len(line) : /\ Columns(line, k) <= max - 1
                                        /\ Truncate(line, max) = Append(SubSeq(line, 1, k), Ellipsis)
<1> DEFINE N == Len(line)
           fits == {n \in 0 .. N : Columns(line, n) <= max - 1}
<1>1. N \in Nat /\ \A k \in 1 .. N : Width[line[k]] \in Nat
  BY LineIs
<1>2. Columns(line, 0) = 0 /\ \A k \in 0 .. N : Columns(line, k) \in Nat
  BY <1>1, ColumnsAdd
<1>3. 0 \in fits /\ fits \subseteq 0 .. N
  BY <1>1, <1>2
<1>4. IsFiniteSet(fits) /\ fits \subseteq Nat /\ fits # {}
  <2>1. IsFiniteSet(0 .. N) /\ fits \in SUBSET (0 .. N)
    BY <1>1, <1>3, FS_Interval
  <2> HIDE DEF fits
  <2>2. IsFiniteSet(fits)
    BY <2>1, FS_Subset
  <2>3. fits \subseteq Nat /\ fits # {}
    BY <1>1, <1>3
  <2> QED
    BY <2>2, <2>3
<1>5. \A n \in fits : n \in 0 .. N /\ Columns(line, n) <= max - 1
  OBVIOUS
<1>6. Truncate(line, max) = IF Columns(line, Len(line)) <= max THEN line
                            ELSE Append(SubSeq(line, 1, CHOOSE n \in fits : \A m \in fits : m <= n), Ellipsis)
  BY DEF Truncate
<1> HIDE DEF fits
<1> DEFINE best == CHOOSE n \in fits : \A m \in fits : m <= n
<1>7. best \in fits
  BY <1>4, GreatestNatural
<1> HIDE DEF best
<1> QED
  BY <1>5, <1>6, <1>7 DEF best

\* A line followed by blanks.
LEMMA BlanksCount ==
  ASSUME NEW N \in Nat, NEW m \in Nat, NEW t, NEW p,
         \A k \in 1 .. N : Width[t[k]] \in Nat /\ p[k] = t[k],
         \A k \in N + 1 .. N + m : p[k] = Blank
  PROVE  Columns(p, N + m) = Columns(t, N) + m
<1> DEFINE S == {d \in 0 .. m : Columns(p, N + d) = Columns(t, N) + d}
<1>2. Columns(p, N) = Columns(t, N) /\ Columns(t, N) \in Nat
  <2>1. \A k \in 0 .. N : Columns(t, k) \in Nat
    BY ColumnsAdd
  <2>2. Columns(p, N) = Columns(t, N)
    BY SameColumns
  <2> QED
    BY <2>1, <2>2
<1>3. Width[Blank] = 1
  BY ListingAssumption
<1>4. \A k \in 1 .. N + m : Width[p[k]] \in Nat
  <2>1. \A k \in 1 .. N + m : k \in 1 .. N \/ k \in N + 1 .. N + m
    OBVIOUS
  <2> QED
    BY <1>3, <2>1
<1>5. N + m \in Nat
  OBVIOUS
<1>6. \A k \in 1 .. N + m : Columns(p, k) = Columns(p, k - 1) + Width[p[k]]
  BY <1>4, <1>5, ColumnsAdd
<1>7. 0 \in S
  <2>1. N + 0 = N /\ 0 \in 0 .. m
    OBVIOUS
  <2>2. Columns(t, N) + 0 = Columns(t, N)
    BY <1>2
  <2> QED
    BY <1>2, <2>1, <2>2
<1>8. ASSUME NEW d \in 1 .. m, d - 1 \in S PROVE d \in S
  <2>1. N + d \in 1 .. N + m /\ N + d \in N + 1 .. N + m /\ (N + d) - 1 = N + (d - 1) /\ d \in 0 .. m
    OBVIOUS
  <2>2. Columns(p, N + (d - 1)) = Columns(t, N) + (d - 1)
    BY <1>8
  <2>3. Columns(p, N + d) = Columns(p, (N + d) - 1) + 1
    <3>1. p[N + d] = Blank
      BY <2>1
    <3> QED
      BY <1>3, <1>6, <2>1, <3>1
  <2>4. Columns(p, N + d) = (Columns(t, N) + (d - 1)) + 1
    BY <2>1, <2>2, <2>3
  <2>5. Columns(p, N + d) = Columns(t, N) + d
    BY <1>2, <2>4
  <2> QED
    BY <2>1, <2>5
<1> HIDE DEF S
<1>9. \A d \in 0 .. m : d \in S
  BY <1>7, <1>8, UpTo
<1>10. m \in S
  BY <1>9
<1> QED
  BY <1>10 DEF S

\* A padded line is what truncate leaves, and as many blanks as there are columns left.
LEMMA PadIs ==
  ASSUME NEW line, Line(line), NEW n \in Nat
  PROVE  LET t == Truncate(line, n)
         IN  /\ Line(t) /\ Columns(t, Len(t)) \in 0 .. n
             /\ IsSeq(Pad(line, n)) /\ Len(t) <= Len(Pad(line, n))
             /\ \A k \in 1 .. Len(t) : Pad(line, n)[k] = t[k]
             /\ Columns(Pad(line, n), Len(Pad(line, n))) = n
<1> DEFINE t == Truncate(line, n)
           c == Columns(t, Len(t))
           m == n - c
           b == [k \in 1 .. m |-> Blank]
           p == Pad(line, n)
           W == DOMAIN Width
<1>1. Len(line) \in Nat /\ \A k \in 1 .. Len(line) : line[k] \in W /\ Width[line[k]] \in Nat
  BY LineIs
<1>2. \A k \in 0 .. Len(line) : Columns(line, k) \in Nat
  BY <1>1, ColumnsAdd
<1>3. Blank \in W /\ Ellipsis \in W /\ Width[Ellipsis] = 1
  BY ListingAssumption
<1>4. Line(t) /\ c \in 0 .. n
  <2>1. CASE n = 0
    <3>1. t = <<>>
      BY <2>1 DEF Truncate
    <3>2. Line(<<>>) /\ Len(<<>>) = 0
      BY DEF Line
    <3>3. Columns(<<>>, 0) = 0
      BY ColumnsAdd
    <3> HIDE DEF t
    <3> QED
      BY <2>1, <3>1, <3>2, <3>3
  <2>2. CASE n # 0 /\ Columns(line, Len(line)) <= n
    <3>1. t = line
      BY <2>2, TruncateIs
    <3>2. Columns(line, Len(line)) \in 0 .. n
      BY <1>1, <1>2, <2>2
    <3> HIDE DEF t
    <3> QED
      BY <3>1, <3>2
  <2>3. CASE n # 0 /\ ~(Columns(line, Len(line)) <= n)
    <3>1. PICK k \in 0 .. Len(line) : Columns(line, k) <= n - 1 /\ t = Append(SubSeq(line, 1, k), Ellipsis)
      BY <2>3, TruncateIs
    <3> DEFINE s == SubSeq(line, 1, k)
    <3>2. s \in Seq(W) /\ Len(s) = k /\ \A i \in 1 .. k : s[i] = line[i]
      <4>1. 1 \in Int /\ k \in Int /\ \A i \in 1 .. k : line[i] \in W
        BY <1>1
      <4>2. /\ SubSeq(line, 1, k) \in Seq(W)
            /\ Len(SubSeq(line, 1, k)) = IF 1 <= k THEN (k - 1) + 1 ELSE 0
            /\ \A i \in 1 .. (k - 1) + 1 : SubSeq(line, 1, k)[i] = line[(1 + i) - 1]
        BY <4>1, SubSeqProperties
      <4>3. (k - 1) + 1 = k /\ \A i \in 1 .. k : (1 + i) - 1 = i
        BY <1>1
      <4>4. Len(SubSeq(line, 1, k)) = k
        BY <1>1, <4>2, <4>3
      <4> QED
        BY <4>2, <4>3, <4>4
    <3> HIDE DEF s, t
    <3>3. t \in Seq(W) /\ Len(t) = k + 1 /\ t[k + 1] = Ellipsis /\ \A i \in 1 .. k : t[i] = line[i]
      <4>1. /\ Append(s, Ellipsis) \in Seq(W) /\ Len(Append(s, Ellipsis)) = Len(s) + 1
            /\ \A i \in 1 .. Len(s) : Append(s, Ellipsis)[i] = s[i]
            /\ Append(s, Ellipsis)[Len(s) + 1] = Ellipsis
        BY <1>3, <3>2, AppendProperties
      <4>2. t = Append(s, Ellipsis)
        BY <3>1 DEF s
      <4> QED
        BY <3>2, <4>1, <4>2
    <3>4. Columns(t, k) = Columns(line, k)
      BY <1>1, <3>3, SameColumns
    <3>5. \A i \in 1 .. k + 1 : Width[t[i]] \in Nat
      BY <1>1, <1>3, <3>3
    <3>6. k + 1 \in Nat /\ k + 1 \in 1 .. k + 1 /\ (k + 1) - 1 = k /\ k \in 0 .. Len(line)
      BY <1>1
    <3>7. Columns(t, k + 1) = Columns(t, k) + 1
      <4>1. Columns(t, k + 1) = Columns(t, (k + 1) - 1) + Width[t[k + 1]]
        BY <3>5, <3>6, ColumnsAdd
      <4> QED
        BY <1>3, <3>3, <3>6, <4>1
    <3>8. Columns(t, k + 1) \in 0 .. n
      BY <1>2, <3>1, <3>4, <3>6, <3>7
    <3> QED
      BY <3>3, <3>8 DEF Line
  <2> QED
    BY <2>1, <2>2, <2>3
<1> HIDE DEF t, c
<1>5. m \in Nat /\ c + m = n
  BY <1>4
<1> HIDE DEF m
<1>6. b \in Seq(W) /\ Len(b) = m /\ \A k \in 1 .. m : b[k] = Blank
  <2>1. b \in [1 .. m -> W] /\ b = [k \in 1 .. m |-> b[k]] /\ \A k \in 1 .. m : b[k] = Blank
    BY <1>3
  <2> HIDE DEF b
  <2>2. Len(b) = m
    BY <1>5, <2>1, FunSeq
  <2> QED
    BY <1>5, <2>1, <2>2
<1>7. p = t \o b
  BY DEF Pad, t, b, m, c
<1> HIDE DEF b, p
<1>8. t \in Seq(W) /\ Len(t) \in Nat
  BY <1>4, LineIs DEF Line
<1>9. /\ p \in Seq(W) /\ Len(p) = Len(t) + Len(b)
      /\ \A k \in 1 .. Len(t) + Len(b) : p[k] = IF k <= Len(t) THEN t[k] ELSE b[k - Len(t)]
  BY <1>6, <1>7, <1>8, ConcatProperties
<1>10. /\ Len(p) = Len(t) + m /\ \A k \in 1 .. Len(t) : p[k] = t[k]
       /\ \A k \in Len(t) + 1 .. Len(t) + m : p[k] = Blank
  BY <1>5, <1>6, <1>8, <1>9
<1>11. Columns(p, Len(p)) = c + m
  <2>1. Line(t) /\ \A k \in 1 .. Len(t) : Width[t[k]] \in Nat
    BY <1>4, LineIs
  <2>2. Columns(p, Len(t) + m) = Columns(t, Len(t)) + m
    <3>1. \A k \in 1 .. Len(t) : Width[t[k]] \in Nat /\ p[k] = t[k]
      BY <1>10, <2>1
    <3>2. Len(t) \in Nat /\ m \in Nat /\ \A k \in Len(t) + 1 .. Len(t) + m : p[k] = Blank
      BY <1>5, <1>8, <1>10
    <3> QED
      BY ONLY <3>1, <3>2, BlanksCount
  <2> QED
    BY <1>10, <2>2 DEF c
<1>12. IsSeq(p)
  BY <1>9, SeqsAre
<1>13. Len(t) <= Len(p)
  BY <1>5, <1>8, <1>10
<1> QED
  BY <1>4, <1>5, <1>10, <1>11, <1>12, <1>13 DEF t, p, c

\* The part is in s after o elements, and n is a place within it.
Covers(s, part, o, n) ==
  /\ o + Len(part) <= Len(s) /\ n - o \in 1 .. Len(part)
  /\ \A i \in 1 .. Len(part) : s[o + i] = part[i]

\* The parts up to the k-th, one after the other.
Gathers(f, parts, S, k) ==
  /\ f \in [0 .. k -> Seq(S)] /\ f[0] = <<>>
  /\ \A j \in 1 .. k : f[j] = f[j - 1] \o parts[j]

\* Parts can be put one after the other.
LEMMA GathersExists ==
  ASSUME NEW S, NEW parts, NEW K \in Nat, \A k \in 1 .. K : parts[k] \in Seq(S)
  PROVE  \E f : Gathers(f, parts, S, K)
<1> DEFINE T == {k \in 0 .. K : \E f : Gathers(f, parts, S, k)}
<1>1. 0 \in T
  <2> DEFINE f == [j \in 0 .. 0 |-> <<>>]
  <2>1. <<>> \in Seq(S) /\ 0 \in 0 .. 0 /\ 0 \in 0 .. K
    BY EmptySeq
  <2>2. f \in [0 .. 0 -> Seq(S)] /\ f[0] = <<>> /\ \A j \in 1 .. 0 : FALSE
    BY <2>1
  <2> HIDE DEF f
  <2>3. Gathers(f, parts, S, 0)
    BY <2>2 DEF Gathers
  <2> QED
    BY <2>1, <2>3
<1>2. ASSUME NEW k \in 1 .. K, k - 1 \in T PROVE k \in T
  <2>1. PICK g : Gathers(g, parts, S, k - 1)
    BY <1>2
  <2>2. g \in [0 .. k - 1 -> Seq(S)] /\ g[0] = <<>> /\ \A j \in 1 .. k - 1 : g[j] = g[j - 1] \o parts[j]
    BY <2>1 DEF Gathers
  <2> DEFINE f == [j \in 0 .. k |-> IF j = k THEN g[k - 1] \o parts[k] ELSE g[j]]
  <2>3. k - 1 \in 0 .. k - 1 /\ k \in 0 .. K /\ 0 \in 0 .. k /\ k # 0
    OBVIOUS
  <2>4. g[k - 1] \o parts[k] \in Seq(S)
    BY <2>2, <2>3, ConcatProperties
  <2>5. \A j \in 0 .. k : j = k \/ j \in 0 .. k - 1
    OBVIOUS
  <2>6. f \in [0 .. k -> Seq(S)]
    BY <2>2, <2>4, <2>5
  <2>7. f[0] = <<>>
    BY <2>2, <2>3
  <2>8. ASSUME NEW j \in 1 .. k PROVE f[j] = f[j - 1] \o parts[j]
    <3>1. j \in 0 .. k /\ j - 1 \in 0 .. k /\ j - 1 # k /\ (j = k \/ j \in 1 .. k - 1)
      OBVIOUS
    <3>2. f[j - 1] = g[j - 1] /\ f[j] = IF j = k THEN g[k - 1] \o parts[k] ELSE g[j]
      BY <3>1
    <3> HIDE DEF f
    <3>3. CASE j = k
      BY <3>2, <3>3
    <3>4. CASE j # k
      BY <2>2, <3>1, <3>2, <3>4
    <3> QED
      BY <3>3, <3>4
  <2> HIDE DEF f
  <2>9. Gathers(f, parts, S, k)
    BY <2>6, <2>7, <2>8 DEF Gathers
  <2> QED
    BY <2>3, <2>9
<1> HIDE DEF T
<1>3. \A k \in 0 .. K : k \in T
  BY <1>1, <1>2, UpTo
<1>4. K \in T
  BY <1>3
<1> QED
  BY <1>4 DEF T

\* Flattened, the parts are there, each of them whole, and nothing else is.
LEMMA FlatHas ==
  ASSUME NEW S, NEW parts, NEW K \in Nat, Len(parts) = K, \A k \in 1 .. K : parts[k] \in Seq(S)
  PROVE  /\ Flat(parts) \in Seq(S)
         /\ \A n \in 1 .. Len(Flat(parts)) :
              \E p \in 1 .. K, o \in Nat : Covers(Flat(parts), parts[p], o, n)
<1>1. PICK f : Gathers(f, parts, S, K)
  BY GathersExists
<1>2. f \in [0 .. K -> Seq(S)] /\ f[0] = <<>> /\ \A j \in 1 .. K : f[j] = f[j - 1] \o parts[j]
  BY <1>1 DEF Gathers
<1>3. Flat(parts) = f[K]
  <2>1. f = [k \in 0 .. K |-> f[k]]
    BY <1>2
  <2>2. ASSUME NEW k \in 0 .. K PROVE f[k] = IF k = 0 THEN <<>> ELSE f[k - 1] \o parts[k]
    <3>1. k = 0 \/ k \in 1 .. K
      OBVIOUS
    <3> QED
      BY <1>2, <3>1
  <2>3. f = [k \in 0 .. Len(parts) |-> IF k = 0 THEN <<>> ELSE f[k - 1] \o parts[k]]
    BY <2>1, <2>2
  <2>4. Flat(parts) = f[Len(parts)]
    BY <2>3, FlatIs
  <2> QED
    BY <2>4
<1> DEFINE Whole(k) == \A n \in 1 .. Len(f[k]) : \E p \in 1 .. K, o \in Nat : Covers(f[k], parts[p], o, n)
           T == {k \in 0 .. K : Whole(k)}
<1>4. 0 \in T
  <2>1. Len(f[0]) = 0 /\ 0 \in 0 .. K
    BY <1>2, EmptySeq
  <2>2. \A n \in 1 .. 0 : FALSE
    OBVIOUS
  <2>3. Whole(0)
    BY <2>1, <2>2
  <2> QED
    BY <2>1, <2>3
<1>5. ASSUME NEW k \in 1 .. K, k - 1 \in T PROVE k \in T
  <2> DEFINE a == f[k - 1]
             b == parts[k]
             c == f[k]
  <2>1. k \in 0 .. K /\ k - 1 \in 0 .. K
    OBVIOUS
  <2>2. a \in Seq(S) /\ b \in Seq(S) /\ c = a \o b
    BY <1>2, <2>1
  <2>3. Whole(k - 1)
    BY <1>5
  <2>4. \A n \in 1 .. Len(a) : \E p \in 1 .. K, o \in Nat : Covers(a, parts[p], o, n)
    BY <2>3
  <2> HIDE DEF a, b, c, Whole
  <2>5. Len(a) \in Nat /\ Len(b) \in Nat
    BY <2>2, LenProperties
  <2>6. /\ Len(c) = Len(a) + Len(b)
        /\ \A i \in 1 .. Len(a) + Len(b) : c[i] = IF i <= Len(a) THEN a[i] ELSE b[i - Len(a)]
    BY <2>2, ConcatProperties
  <2>7. ASSUME NEW n \in 1 .. Len(c) PROVE \E p \in 1 .. K, o \in Nat : Covers(c, parts[p], o, n)
    <3>1. CASE n <= Len(a)
      <4>1. n \in 1 .. Len(a)
        BY <2>5, <2>6, <3>1
      <4>2. PICK p \in 1 .. K, o \in Nat : Covers(a, parts[p], o, n)
        BY <2>4, <4>1
      <4>3. Len(parts[p]) \in Nat
        BY LenProperties
      <4>4. /\ o + Len(parts[p]) <= Len(a) /\ n - o \in 1 .. Len(parts[p])
            /\ \A i \in 1 .. Len(parts[p]) : a[o + i] = parts[p][i]
        BY <4>2 DEF Covers
      <4>5. \A i \in 1 .. Len(parts[p]) : o + i \in 1 .. Len(a) + Len(b) /\ o + i <= Len(a)
        BY <2>5, <4>3, <4>4
      <4>6. \A i \in 1 .. Len(parts[p]) : c[o + i] = parts[p][i]
        BY <2>6, <4>4, <4>5
      <4>7. o + Len(parts[p]) <= Len(c)
        BY <2>5, <2>6, <4>3, <4>4
      <4>8. Covers(c, parts[p], o, n)
        BY <4>4, <4>6, <4>7 DEF Covers
      <4> QED
        BY <4>8
    <3>2. CASE ~(n <= Len(a))
      <4>1. Len(a) + Len(b) <= Len(c) /\ n - Len(a) \in 1 .. Len(b)
        BY <2>5, <2>6, <3>2
      <4>2. \A i \in 1 .. Len(b) : Len(a) + i \in 1 .. Len(a) + Len(b) /\ ~(Len(a) + i <= Len(a))
                                    /\ (Len(a) + i) - Len(a) = i
        BY <2>5
      <4>3. \A i \in 1 .. Len(b) : c[Len(a) + i] = b[i]
        BY <2>6, <4>2
      <4>4. Covers(c, b, Len(a), n)
        BY <4>1, <4>3 DEF Covers
      <4>5. Covers(c, parts[k], Len(a), n)
        BY <4>4 DEF b
      <4> QED
        BY <2>5, <4>5
    <3> QED
      BY <3>1, <3>2
  <2>8. Whole(k)
    BY <2>7 DEF Whole, c
  <2> QED
    BY <2>1, <2>8
<1> HIDE DEF T
<1>6. \A k \in 0 .. K : k \in T
  BY <1>4, <1>5, UpTo
<1>7. K \in T /\ K \in 0 .. K
  BY <1>6
<1>8. Whole(K)
  BY <1>7 DEF T
<1> QED
  BY <1>2, <1>3, <1>7, <1>8

\* The rows of a section: its header, then its tasks.
SectionRows(s) ==
  <<[label |-> s.label, task |-> 0]>> \o [n \in DOMAIN s.tasks |-> [label |-> s.label, task |-> s.tasks[n]]]

\* Only the rows under the header are tasks, and all rows have its label.
LEMMA SectionRowsAre ==
  ASSUME NEW label, NEW tasks, IsSeq(tasks)
  PROVE  LET r == SectionRows([label |-> label, tasks |-> tasks])
         IN  /\ IsSeq(r) /\ Len(r) = Len(tasks) + 1
             /\ \A i \in 1 .. Len(r) : r[i].label = label
             /\ r[1].task = 0
             /\ \A i \in 1 .. Len(r) : r[i].task # 0 => i - 1 \in 1 .. Len(tasks) /\ r[i].task = tasks[i - 1]
<1> DEFINE N == Len(tasks)
           top == [label |-> label, task |-> 0]
           row(n) == [label |-> label, task |-> tasks[n]]
           a == <<top>>
           b == [n \in 1 .. N |-> row(n)]
           R == {top} \cup {row(n) : n \in 1 .. N}
           r == a \o b
<1>1. N \in Nat /\ DOMAIN tasks = 1 .. N
  BY SeqLength
<1>2. SectionRows([label |-> label, tasks |-> tasks]) = r
  BY <1>1 DEF SectionRows
<1> HIDE DEF N
<1>3. a \in Seq(R) /\ Len(a) = 1 /\ a[1] = top
  OBVIOUS
<1>4. b \in Seq(R) /\ Len(b) = N /\ \A n \in 1 .. N : b[n] = row(n)
  <2>1. b \in [1 .. N -> R] /\ b = [n \in 1 .. N |-> b[n]] /\ \A n \in 1 .. N : b[n] = row(n)
    OBVIOUS
  <2> HIDE DEF b, R
  <2>2. Len(b) = N
    BY <1>1, <2>1, FunSeq
  <2> QED
    BY <1>1, <2>1, <2>2
<1>l. top.label = label /\ top.task = 0 /\ \A n \in 1 .. N : row(n).label = label /\ row(n).task = tasks[n]
  OBVIOUS
<1> HIDE DEF a, b, R, r, top, row
<1>5. /\ r \in Seq(R) /\ Len(r) = Len(a) + Len(b)
      /\ \A i \in 1 .. Len(a) + Len(b) : r[i] = IF i <= Len(a) THEN a[i] ELSE b[i - Len(a)]
  BY <1>3, <1>4, ConcatProperties DEF r
<1>6. Len(r) = N + 1 /\ \A i \in 1 .. N + 1 : r[i] = IF i <= 1 THEN a[i] ELSE b[i - 1]
  BY <1>1, <1>3, <1>4, <1>5
<1>7. 1 \in 1 .. N + 1 /\ \A i \in 1 .. N + 1 : i = 1 \/ (~(i <= 1) /\ i - 1 \in 1 .. N)
  BY <1>1
<1>8. r[1] = top
  BY <1>3, <1>6, <1>7
<1>9. \A i \in 1 .. N + 1 : r[i] = top \/ (i - 1 \in 1 .. N /\ r[i] = row(i - 1))
  BY <1>4, <1>6, <1>7, <1>8
<1>10. \A i \in 1 .. N + 1 : /\ r[i].label = label
                             /\ r[i].task # 0 => i - 1 \in 1 .. N /\ r[i].task = tasks[i - 1]
  BY <1>9, <1>l
<1>11. IsSeq(r)
  BY <1>5, SeqsAre
<1> QED
  BY <1>2, <1>6, <1>8, <1>10, <1>11, <1>l DEF N

\* What the tasks of a section are, and the labels of the views among them.
LEMMA SectionTasks ==
  ASSUME NEW mode \in {"State", "Dir", "Custom"}, NEW views, Snapshot(views)
  PROVE  \E K \in Nat :
           /\ DOMAIN Sections(mode, views) = 1 .. K
           /\ \A k \in 1 .. K :
                /\ Sections(mode, views)[k] = [label |-> Sections(mode, views)[k].label,
                                               tasks |-> Sections(mode, views)[k].tasks]
                /\ IsSeq(Sections(mode, views)[k].tasks)
                /\ \A i \in 1 .. Len(Sections(mode, views)[k].tasks) :
                     Section(mode, views[Sections(mode, views)[k].tasks[i]]).label = Sections(mode, views)[k].label
<1> DEFINE order == Sorted(mode, views)
           labels == LabelsOf(mode, views)
           D == DOMAIN views
           L == Len(order)
           ss == Sections(mode, views)
<1>0. PICK K \in Nat : \E e : Sectioned(mode, views, K, e)
  BY SectionsAre
<1>1. PICK e : Sectioned(mode, views, K, e)
  BY <1>0
<1>2. /\ e \in [1 .. K + 1 -> 1 .. L + 1]
      /\ \A m, n \in 1 .. K + 1 : m < n => e[m] < e[n]
      /\ ss = [k \in 1 .. K |-> [label |-> labels[order[e[k]]], tasks |-> SubSeq(order, e[k], e[k + 1] - 1)]]
      /\ \A k \in 1 .. K : \A n \in e[k] .. e[k + 1] - 1 :
           n \in DOMAIN order /\ labels[order[n]] = labels[order[e[k]]]
  BY <1>1 DEF Sectioned
<1>3. order \in Seq(D) /\ L \in Nat /\ DOMAIN order = 1 .. L /\ \A n \in 1 .. L : order[n] \in D
  <2>1. order \in Seq(D)
    BY SortedIs
  <2> HIDE DEF order, D
  <2> QED
    BY <2>1, LenProperties, ElementOfSeq
<1>4. \A i \in D : labels[i] = Section(mode, views[i]).label
  BY DEF LabelsOf
<1> HIDE DEF order, labels, D, L, ss
<1>5. ASSUME NEW k \in 1 .. K
      PROVE  /\ ss[k] = [label |-> ss[k].label, tasks |-> ss[k].tasks]
             /\ IsSeq(ss[k].tasks)
             /\ \A i \in 1 .. Len(ss[k].tasks) : Section(mode, views[ss[k].tasks[i]]).label = ss[k].label
  <2> DEFINE x == e[k]
             y == e[k + 1] - 1
             t == SubSeq(order, x, y)
  <2>1. ss[k] = [label |-> labels[order[x]], tasks |-> t]
    BY <1>2
  <2>2. x \in 1 .. L + 1 /\ y \in 0 .. L /\ x <= y
    <3>1. k \in 1 .. K + 1 /\ k + 1 \in 1 .. K + 1 /\ k < k + 1
      OBVIOUS
    <3>2. e[k] \in 1 .. L + 1 /\ e[k + 1] \in 1 .. L + 1 /\ e[k] < e[k + 1]
      BY <1>2, <3>1
    <3> QED
      BY <1>3, <3>2
  <2>3. \A n \in x .. y : n \in 1 .. L /\ labels[order[n]] = labels[order[x]]
    BY <1>2, <1>3
  <2> HIDE DEF x, y
  <2>4. t \in Seq(D) /\ Len(t) = (y - x) + 1 /\ \A i \in 1 .. (y - x) + 1 : t[i] = order[(x + i) - 1]
    <3>1. x \in Int /\ y \in Int /\ \A n \in x .. y : order[n] \in D
      BY <1>3, <2>2, <2>3
    <3>2. /\ SubSeq(order, x, y) \in Seq(D)
          /\ Len(SubSeq(order, x, y)) = IF x <= y THEN (y - x) + 1 ELSE 0
          /\ \A i \in 1 .. (y - x) + 1 : SubSeq(order, x, y)[i] = order[(x + i) - 1]
      BY <3>1, SubSeqProperties
    <3> QED
      BY <2>2, <3>2
  <2> HIDE DEF t
  <2>5. ASSUME NEW i \in 1 .. Len(t) PROVE Section(mode, views[t[i]]).label = labels[order[x]]
    <3>1. (x + i) - 1 \in x .. y /\ i \in 1 .. (y - x) + 1
      BY <2>2, <2>4
    <3>2. t[i] = order[(x + i) - 1] /\ (x + i) - 1 \in 1 .. L /\ labels[order[(x + i) - 1]] = labels[order[x]]
      BY <2>3, <2>4, <3>1
    <3>3. t[i] \in D
      BY <1>3, <3>2
    <3> QED
      BY <1>4, <3>2, <3>3
  <2>6. IsSeq(t)
    BY <2>4, SeqsAre
  <2> QED
    BY <2>1, <2>5, <2>6
<1>6. DOMAIN ss = 1 .. K
  BY <1>2
<1> QED
  BY <1>5, <1>6 DEF ss

\* The label that a row of a task stands under is over it, with only rows of the task's section between.
Headed(mode, views, rows, n) ==
  \E m \in 1 .. n : /\ rows[m].task = 0
                    /\ \A k \in m .. n : rows[k].label = Section(mode, views[rows[n].task]).label

\* Every task of the list is under the header of its section.
LEMMA ListRowsAre ==
  ASSUME NEW mode \in {"State", "Dir", "Custom"}, NEW views, Snapshot(views)
  PROVE  /\ IsSeq(ListRows(Sections(mode, views)))
         /\ \A n \in 1 .. Len(ListRows(Sections(mode, views))) :
              ListRows(Sections(mode, views))[n].task # 0 => Headed(mode, views, ListRows(Sections(mode, views)), n)
<1> DEFINE ss == Sections(mode, views)
           parts == [k \in DOMAIN ss |-> SectionRows(ss[k])]
           rows == ListRows(ss)
           S == UNION {{parts[k][i] : i \in DOMAIN parts[k]} : k \in DOMAIN ss}
<1>1. PICK K \in Nat :
        /\ DOMAIN ss = 1 .. K
        /\ \A k \in 1 .. K :
             /\ ss[k] = [label |-> ss[k].label, tasks |-> ss[k].tasks]
             /\ IsSeq(ss[k].tasks)
             /\ \A i \in 1 .. Len(ss[k].tasks) : Section(mode, views[ss[k].tasks[i]]).label = ss[k].label
  BY SectionTasks
<1>2. rows = Flat(parts)
  BY DEF ListRows, SectionRows
<1> HIDE DEF rows, ss
<1>3. ASSUME NEW k \in 1 .. K
      PROVE  /\ IsSeq(parts[k]) /\ Len(parts[k]) = Len(ss[k].tasks) + 1
             /\ \A i \in 1 .. Len(parts[k]) : parts[k][i].label = ss[k].label
             /\ parts[k][1].task = 0
             /\ \A i \in 1 .. Len(parts[k]) : parts[k][i].task # 0 =>
                  i - 1 \in 1 .. Len(ss[k].tasks) /\ parts[k][i].task = ss[k].tasks[i - 1]
  <2> DEFINE tasks == ss[k].tasks
             label == ss[k].label
  <2>1. parts[k] = SectionRows([label |-> label, tasks |-> tasks]) /\ IsSeq(tasks)
    BY <1>1
  <2> HIDE DEF tasks, label, parts
  <2>2. /\ IsSeq(SectionRows([label |-> label, tasks |-> tasks]))
        /\ Len(SectionRows([label |-> label, tasks |-> tasks])) = Len(tasks) + 1
        /\ \A i \in 1 .. Len(SectionRows([label |-> label, tasks |-> tasks])) :
             SectionRows([label |-> label, tasks |-> tasks])[i].label = label
        /\ SectionRows([label |-> label, tasks |-> tasks])[1].task = 0
        /\ \A i \in 1 .. Len(SectionRows([label |-> label, tasks |-> tasks])) :
             SectionRows([label |-> label, tasks |-> tasks])[i].task # 0 =>
               /\ i - 1 \in 1 .. Len(tasks)
               /\ SectionRows([label |-> label, tasks |-> tasks])[i].task = tasks[i - 1]
    BY <2>1, SectionRowsAre
  <2>3. /\ IsSeq(parts[k]) /\ Len(parts[k]) = Len(tasks) + 1
        /\ \A i \in 1 .. Len(parts[k]) : parts[k][i].label = label
        /\ parts[k][1].task = 0
        /\ \A i \in 1 .. Len(parts[k]) : parts[k][i].task # 0 =>
             i - 1 \in 1 .. Len(tasks) /\ parts[k][i].task = tasks[i - 1]
    BY ONLY <2>1, <2>2
  <2> QED
    BY <2>3 DEF tasks, label
<1>4. Len(parts) = K
  <2>1. parts = [k \in 1 .. K |-> parts[k]]
    BY <1>1
  <2> HIDE DEF parts
  <2> QED
    BY <2>1, FunSeq
<1>5. ASSUME NEW k \in 1 .. K PROVE parts[k] \in Seq(S)
  <2>1. IsSeq(parts[k]) /\ k \in DOMAIN ss
    BY <1>1, <1>3
  <2>2. {parts[k][i] : i \in DOMAIN parts[k]} \subseteq S
    <3> HIDE DEF parts
    <3> QED
      BY <2>1
  <2> HIDE DEF parts, S
  <2>3. /\ Len(parts[k]) \in Nat /\ DOMAIN parts[k] = 1 .. Len(parts[k])
        /\ parts[k] \in [1 .. Len(parts[k]) -> {parts[k][i] : i \in DOMAIN parts[k]}]
    BY <2>1, LenProperties DEF IsSeq
  <2>4. parts[k] \in [1 .. Len(parts[k]) -> S]
    BY <2>2, <2>3
  <2> QED
    BY <2>3, <2>4
<1> HIDE DEF parts, S
<1>6. /\ rows \in Seq(S)
      /\ \A n \in 1 .. Len(rows) : \E p \in 1 .. K, o \in Nat : Covers(rows, parts[p], o, n)
  BY <1>2, <1>4, <1>5, FlatHas
<1>7. ASSUME NEW n \in 1 .. Len(rows), rows[n].task # 0 PROVE Headed(mode, views, rows, n)
  <2>1. PICK p \in 1 .. K, o \in Nat : Covers(rows, parts[p], o, n)
    BY <1>6
  <2> DEFINE N == Len(parts[p])
             label == ss[p].label
             tasks == ss[p].tasks
  <2>2. n - o \in 1 .. N /\ \A i \in 1 .. N : rows[o + i] = parts[p][i]
    BY <2>1 DEF Covers
  <2>3. /\ N = Len(tasks) + 1 /\ \A i \in 1 .. N : parts[p][i].label = label
        /\ parts[p][1].task = 0
        /\ \A i \in 1 .. N : parts[p][i].task # 0 => i - 1 \in 1 .. Len(tasks) /\ parts[p][i].task = tasks[i - 1]
    BY <1>3
  <2>4. \A i \in 1 .. Len(tasks) : Section(mode, views[tasks[i]]).label = label
    BY <1>1
  <2>5. Len(rows) \in Nat /\ n \in Nat /\ N \in Nat
    <3>1. Len(rows) \in Nat
      BY <1>6, LenProperties
    <3>2. N \in Nat
      BY <1>3, SeqLength
    <3> QED
      BY <3>1, <3>2
  <2> HIDE DEF N, label, tasks
  <2> DEFINE j == n - o
  <2>6. j \in 1 .. N /\ o + j = n /\ 1 \in 1 .. N
    BY <2>2, <2>5
  <2>7. \A k \in o + 1 .. n : k - o \in 1 .. N /\ o + (k - o) = k
    BY <2>5, <2>6
  <2>8. o + 1 \in 1 .. n
    BY <2>5, <2>6
  <2> HIDE DEF j
  <2>9. rows[n] = parts[p][j]
    BY <2>2, <2>6
  <2>10. rows[n].task = tasks[j - 1] /\ j - 1 \in 1 .. Len(tasks)
    BY <1>7, <2>3, <2>6, <2>9
  <2>11. Section(mode, views[rows[n].task]).label = label
    BY <2>4, <2>10
  <2>12. rows[o + 1].task = 0
    BY <2>2, <2>3, <2>6
  <2>13. ASSUME NEW k \in o + 1 .. n PROVE rows[k].label = label
    <3>1. k - o \in 1 .. N /\ o + (k - o) = k
      BY <2>7
    <3>2. rows[o + (k - o)] = parts[p][k - o]
      BY <2>2, <3>1
    <3>3. rows[k] = parts[p][k - o]
      BY <3>1, <3>2
    <3> QED
      BY <2>3, <3>1, <3>3
  <2> QED
    BY <2>8, <2>11, <2>12, <2>13 DEF Headed
<1>8. IsSeq(rows)
  BY <1>6, SeqsAre
<1> QED
  BY <1>7, <1>8 DEF rows, ss

\* A preview ends where the screen does, at its last row that is not blank.
LEMMA PeekWindowIs ==
  ASSUME NEW lines, IsSeq(lines), NEW height \in Nat, NEW alt \in BOOLEAN
  PROVE  LET w == PeekWindow(lines, height, alt)
             below == {i \in DOMAIN lines : lines[i] # <<>>}
         IN  /\ Len(w) <= height
             /\ alt => Len(w) = Least(height, Len(lines))
             /\ ~alt /\ height > 0 => (w = <<>> <=> below = {})
             /\ w # <<>> /\ ~alt => /\ w[Len(w)] # <<>>
                                   /\ \E i \in below : w[Len(w)] = lines[i] /\ \A j \in below : j <= i
<1> DEFINE full == {i \in DOMAIN lines : lines[i] # <<>>}
           L == Len(lines)
           top == CHOOSE i \in full : \A j \in full : j <= i
           end == IF alt THEN L ELSE IF full = {} THEN 0 ELSE top
           from == (IF end > height THEN end - height ELSE 0) + 1
           w == SubSeq(lines, from, end)
           E == {lines[i] : i \in DOMAIN lines}
<1>1. L \in Nat /\ DOMAIN lines = 1 .. L /\ lines \in Seq(E) /\ \A i \in 1 .. L : lines[i] \in E
  <2>1. L \in Nat /\ DOMAIN lines = 1 .. L
    BY SeqLength
  <2> QED
    BY <2>1 DEF IsSeq
<1>2. full \subseteq 1 .. L /\ \A i \in full : lines[i] # <<>>
  BY <1>1
<1>3. PeekWindow(lines, height, alt) = w
  BY DEF PeekWindow
<1> HIDE DEF full, L, E
<1>4. full # {} => top \in full /\ \A j \in full : j <= top
  <2>1. full \in SUBSET (1 .. L)
    BY <1>2
  <2>2. IsFiniteSet(1 .. L)
    BY <1>1, FS_Interval
  <2>3. IsFiniteSet(full)
    BY <2>1, <2>2, FS_Subset
  <2>4. full \subseteq Nat
    BY <1>1, <1>2
  <2> HIDE DEF top
  <2>5. full # {} => top \in full /\ \A j \in full : j <= top
    BY <2>3, <2>4, GreatestNatural DEF top
  <2> QED
    BY <2>5
<1> HIDE DEF top
<1>t. full # {} => top \in 1 .. L
  BY <1>2, <1>4
<1>5. end \in 0 .. L
  BY <1>1, <1>t
<1>6. /\ alt => end = L
      /\ ~alt => (end = 0 <=> full = {})
      /\ ~alt /\ full # {} => end = top
  BY <1>1, <1>t
<1> HIDE DEF end
<1>7. from \in 1 .. end + 1 /\ (end - from) + 1 = Least(end, height)
  BY <1>1, <1>5 DEF Least
<1>8. Least(end, height) <= height /\ Least(end, height) \in 0 .. end
      /\ (height > 0 => (Least(end, height) = 0 <=> end = 0))
      /\ Least(end, height) = Least(height, end)
  BY <1>1, <1>5 DEF Least
<1> HIDE DEF from
<1>9. /\ w \in Seq(E) /\ Len(w) = Least(end, height)
      /\ \A i \in 1 .. Len(w) : w[i] = lines[(from + i) - 1]
  <2>1. from \in Int /\ end \in Int /\ \A i \in from .. end : lines[i] \in E
    BY <1>1, <1>5, <1>7
  <2>2. /\ SubSeq(lines, from, end) \in Seq(E)
        /\ Len(SubSeq(lines, from, end)) = IF from <= end THEN (end - from) + 1 ELSE 0
        /\ \A i \in 1 .. (end - from) + 1 : SubSeq(lines, from, end)[i] = lines[(from + i) - 1]
    BY <2>1, SubSeqProperties
  <2>3. (IF from <= end THEN (end - from) + 1 ELSE 0) = (end - from) + 1
    BY <1>1, <1>5, <1>7
  <2>4. w \in Seq(E) /\ Len(w) = (end - from) + 1 /\ \A i \in 1 .. (end - from) + 1 : w[i] = lines[(from + i) - 1]
    BY <2>2, <2>3
  <2> HIDE DEF w
  <2> QED
    BY <1>7, <2>4
<1> HIDE DEF w
<1>10. Len(w) \in Nat /\ (w = <<>> <=> Len(w) = 0)
  BY <1>9, LenProperties, EmptySeq
<1>11. w # <<>> => w[Len(w)] = lines[end]
  <2> SUFFICES ASSUME w # <<>> PROVE w[Len(w)] = lines[end]
    OBVIOUS
  <2> DEFINE q == Len(w)
  <2>1. q \in 1 .. q /\ q = (end - from) + 1 /\ w[q] = lines[(from + q) - 1]
    BY <1>7, <1>9, <1>10
  <2> HIDE DEF q
  <2>2. (from + q) - 1 = end
    BY <1>1, <1>5, <1>7, <2>1
  <2> QED
    BY <2>1, <2>2 DEF q
<1>12. ~alt /\ w # <<>> => full # {}
  BY <1>5, <1>6, <1>8, <1>9, <1>10
<1>13. ~alt /\ w # <<>> => /\ w[Len(w)] # <<>>
                           /\ \E i \in full : w[Len(w)] = lines[i] /\ \A j \in full : j <= i
  BY <1>2, <1>4, <1>6, <1>11, <1>12
<1>14. Len(w) <= height /\ (alt => Len(w) = Least(height, L))
  BY <1>6, <1>8, <1>9
<1>15. ~alt /\ height > 0 => (w = <<>> <=> full = {})
  BY <1>6, <1>8, <1>9, <1>10
<1> QED
  BY <1>3, <1>13, <1>14, <1>15 DEF full, L

\* What a padded line keeps of the line.
LEMMA PadKeeps ==
  ASSUME NEW line, Line(line), NEW n \in Nat
  PROVE  LET p == Pad(line, n)
             kept == {k \in 0 .. Least(Len(p), Len(line)) : SubSeq(p, 1, k) = SubSeq(line, 1, k)}
         IN  /\ Columns(p, Len(p)) = n
             /\ Columns(line, Len(line)) <= n /\ n > 0 => Len(line) \in kept
             /\ n < Columns(line, Len(line)) /\ n > 0 =>
                  \E k \in kept : p[k + 1] = Ellipsis /\ Columns(line, k) < n
<1> DEFINE p == Pad(line, n)
           t == Truncate(line, n)
           L == Len(line)
           P == Len(p)
           W == DOMAIN Width
           kept == {k \in 0 .. Least(P, L) : SubSeq(p, 1, k) = SubSeq(line, 1, k)}
<1>1. /\ Line(t) /\ IsSeq(p) /\ Len(t) <= P /\ \A k \in 1 .. Len(t) : p[k] = t[k]
      /\ Columns(p, P) = n
  BY PadIs
<1>2. L \in Nat /\ P \in Nat /\ Len(t) \in Nat
  BY <1>1, LineIs, SeqLength
<1>3. \A k \in 0 .. L : Columns(line, k) \in Nat
  <2>1. \A k \in 1 .. L : Width[line[k]] \in Nat
    BY LineIs
  <2> QED
    BY <1>2, <2>1, ColumnsAdd
<1>4. ASSUME NEW k \in 0 .. L, k <= P, \A i \in 1 .. k : p[i] = line[i] PROVE k \in kept
  <2>1. k \in 0 .. Least(P, L)
    BY <1>2, <1>4 DEF Least
  <2>2. SubSeq(p, 1, k) = SubSeq(line, 1, k)
    <3> DEFINE S == {line[i] : i \in 1 .. k}
    <3>1. 1 \in Int /\ k \in Int /\ \A i \in 1 .. k : line[i] \in S /\ p[i] \in S
      BY <1>2, <1>4
    <3> DEFINE a == SubSeq(p, 1, k)
               b == SubSeq(line, 1, k)
    <3> HIDE DEF S, p
    <3>2. /\ a \in Seq(S) /\ Len(a) = (IF 1 <= k THEN (k - 1) + 1 ELSE 0)
          /\ \A i \in 1 .. (k - 1) + 1 : a[i] = p[(1 + i) - 1]
      BY <3>1, SubSeqProperties
    <3>3. /\ b \in Seq(S) /\ Len(b) = (IF 1 <= k THEN (k - 1) + 1 ELSE 0)
          /\ \A i \in 1 .. (k - 1) + 1 : b[i] = line[(1 + i) - 1]
      BY <3>1, SubSeqProperties
    <3>4. (k - 1) + 1 = k /\ (IF 1 <= k THEN (k - 1) + 1 ELSE 0) = k /\ \A i \in 1 .. k : (1 + i) - 1 = i
      BY <1>2
    <3> HIDE DEF a, b
    <3>5. Len(a) = k /\ Len(b) = k /\ \A i \in 1 .. k : a[i] = p[i] /\ b[i] = line[i]
      BY <3>2, <3>3, <3>4
    <3>6. DOMAIN a = 1 .. k /\ DOMAIN b = 1 .. k /\ a = [i \in 1 .. k |-> a[i]] /\ b = [i \in 1 .. k |-> b[i]]
      BY <3>2, <3>3, <3>5, LenProperties
    <3>7. \A i \in 1 .. k : a[i] = b[i]
      BY <1>4, <3>5
    <3> QED
      BY <3>6, <3>7 DEF a, b
  <2> QED
    BY <2>1, <2>2
<1> HIDE DEF kept, p, t, L, P
<1>5. ASSUME Columns(line, L) <= n, n > 0 PROVE L \in kept
  <2>1. t = line
    BY <1>5, TruncateIs DEF t, L
  <2>2. L \in 0 .. L /\ L <= P /\ \A i \in 1 .. L : p[i] = line[i]
    BY <1>1, <1>2, <2>1 DEF L
  <2> QED
    BY <1>4, <2>2
<1>6. ASSUME n < Columns(line, L), n > 0
      PROVE  \E k \in kept : p[k + 1] = Ellipsis /\ Columns(line, k) < n
  <2>1. ~(Columns(line, L) <= n)
    BY <1>2, <1>3, <1>6
  <2>2. PICK k \in 0 .. L : Columns(line, k) <= n - 1 /\ t = Append(SubSeq(line, 1, k), Ellipsis)
    BY <1>6, <2>1, TruncateIs DEF t, L
  <2>3. \A i \in 1 .. L : line[i] \in W
    BY LineIs DEF L
  <2> DEFINE s == SubSeq(line, 1, k)
  <2>4. s \in Seq(W) /\ Len(s) = k /\ \A i \in 1 .. k : s[i] = line[i]
    <3>1. 1 \in Int /\ k \in Int /\ \A i \in 1 .. k : line[i] \in W
      BY <1>2, <2>3
    <3>2. /\ SubSeq(line, 1, k) \in Seq(W)
          /\ Len(SubSeq(line, 1, k)) = IF 1 <= k THEN (k - 1) + 1 ELSE 0
          /\ \A i \in 1 .. (k - 1) + 1 : SubSeq(line, 1, k)[i] = line[(1 + i) - 1]
      BY <3>1, SubSeqProperties
    <3>3. (k - 1) + 1 = k /\ (IF 1 <= k THEN (k - 1) + 1 ELSE 0) = k /\ \A i \in 1 .. k : (1 + i) - 1 = i
      BY <1>2
    <3> QED
      BY <3>2, <3>3
  <2>5. t = Append(s, Ellipsis) /\ Ellipsis \in W
    BY <2>2, ListingAssumption
  <2> HIDE DEF s
  <2>6. Len(t) = k + 1 /\ t[k + 1] = Ellipsis /\ \A i \in 1 .. k : t[i] = line[i]
    <3>1. /\ Len(Append(s, Ellipsis)) = Len(s) + 1
          /\ \A i \in 1 .. Len(s) : Append(s, Ellipsis)[i] = s[i]
          /\ Append(s, Ellipsis)[Len(s) + 1] = Ellipsis
      BY <2>4, <2>5, AppendProperties
    <3> QED
      BY <2>4, <2>5, <3>1
  <2>7. k <= P /\ k + 1 \in 1 .. k + 1 /\ \A i \in 1 .. k : i \in 1 .. k + 1
    BY <1>1, <1>2, <2>6
  <2>8. p[k + 1] = Ellipsis /\ \A i \in 1 .. k : p[i] = line[i]
    BY <1>1, <2>6, <2>7
  <2>9. k \in kept
    BY <1>4, <2>7, <2>8
  <2>10. Columns(line, k) < n
    BY <1>3, <2>2
  <2> QED
    BY <2>8, <2>9, <2>10
<1> QED
  BY <1>1, <1>5, <1>6 DEF kept, p, L, P

(***************************************************************************)
(* The window of a list holds the selected task and every window is full;  *)
(* each task is under the header of its section; a preview ends where its  *)
(* screen does; a padded text is as wide as it was to be, and is whole or  *)
(* ends in an ellipsis: for all snapshots, screens, glyph widths and       *)
(* heights.                                                                *)
(***************************************************************************)
THEOREM WindowsFit == WindowsHold
<1>1. ASSUME NEW l \in Lists, NEW n \in DOMAIN ListRows(Sections(l.mode, l.views)),
             ListRows(Sections(l.mode, l.views))[n].task # 0, NEW max \in Sizes \ {0}
      PROVE  LET rows == ListRows(Sections(l.mode, l.views))
                 w == ScrollWindow(n - 1, Len(rows), max)
             IN  /\ \E m \in w[1] + 1 .. w[1] + w[2] : rows[m].task = rows[n].task
                 /\ \E m \in 1 .. n :
                      /\ rows[m].task = 0
                      /\ \A k \in m .. n : rows[k].label = Section(l.mode, l.views[rows[n].task]).label
  <2> DEFINE rows == ListRows(Sections(l.mode, l.views))
             w == ScrollWindow(n - 1, Len(rows), max)
  <2>1. l.mode \in {"State", "Dir", "Custom"} /\ Snapshot(l.views)
    BY ListingAssumption
  <2>2. IsSeq(rows) /\ \A i \in 1 .. Len(rows) : rows[i].task # 0 => Headed(l.mode, l.views, rows, i)
    BY <2>1, ListRowsAre
  <2>3. n \in DOMAIN rows /\ rows[n].task # 0 /\ max \in Nat /\ max > 0
    <3>1. max \in Nat /\ max # 0
      BY ListingAssumption
    <3>2. n \in DOMAIN rows /\ rows[n].task # 0
      BY <1>1
    <3> HIDE DEF rows
    <3> QED
      BY <3>1, <3>2
  <2> HIDE DEF rows
  <2>4. Len(rows) \in Nat /\ n \in 1 .. Len(rows)
    BY <2>2, <2>3, SeqLength
  <2>5. /\ w[1] \in Nat /\ w[1] + w[2] <= Len(rows) /\ w[2] = Least(Len(rows), max)
        /\ w[1] <= n - 1 /\ n - 1 < w[1] + w[2]
    <3> DEFINE sel == n - 1
    <3>1. sel \in 0 .. Len(rows) - 1
      BY <2>4
    <3> HIDE DEF sel
    <3>2. /\ ScrollWindow(sel, Len(rows), max)[1] \in Nat
          /\ ScrollWindow(sel, Len(rows), max)[1] + ScrollWindow(sel, Len(rows), max)[2] <= Len(rows)
          /\ ScrollWindow(sel, Len(rows), max)[2] = Least(Len(rows), max)
          /\ ScrollWindow(sel, Len(rows), max)[1] <= sel
          /\ sel < ScrollWindow(sel, Len(rows), max)[1] + ScrollWindow(sel, Len(rows), max)[2]
      BY <2>3, <2>4, <3>1, ScrollWindowIs
    <3> QED
      BY <3>2 DEF sel
  <2>6. w[2] \in Nat
    BY <2>3, <2>4, <2>5 DEF Least
  <2> HIDE DEF w
  <2>7. n \in w[1] + 1 .. w[1] + w[2]
    BY <2>4, <2>5, <2>6
  <2>8. Headed(l.mode, l.views, rows, n)
    BY <2>2, <2>3, <2>4
  <2> QED
    BY <2>7, <2>8 DEF Headed, w, rows
<1>2. ASSUME NEW lines \in Screens, NEW n \in Sizes, NEW i \in DOMAIN lines
      PROVE  LET p == Pad(lines[i], n)
                 kept == {k \in 0 .. Least(Len(p), Len(lines[i])) : SubSeq(p, 1, k) = SubSeq(lines[i], 1, k)}
             IN  /\ Columns(p, Len(p)) = n
                 /\ Columns(lines[i], Len(lines[i])) <= n /\ n > 0 => Len(lines[i]) \in kept
                 /\ n < Columns(lines[i], Len(lines[i])) /\ n > 0 =>
                      \E k \in kept : p[k + 1] = Ellipsis /\ Columns(lines[i], k) < n
  <2>1. Line(lines[i]) /\ n \in Nat
    <3>1. lines \in Seq(Seq(DOMAIN Width)) /\ n \in Nat
      BY ListingAssumption
    <3> QED
      BY <3>1, LenProperties, ElementOfSeq DEF Line
  <2> QED
    BY <2>1, PadKeeps
<1>3. ASSUME NEW total \in Sizes, NEW max \in Sizes, NEW sel \in 0 .. total - 1
      PROVE  LET w == ScrollWindow(sel, total, max)
             IN  /\ w[2] = Least(total, max) /\ w[1] + w[2] <= total
                 /\ max > 0 => w[1] <= sel /\ sel < w[1] + w[2]
  <2>1. total \in Nat /\ max \in Nat
    BY ListingAssumption
  <2> QED
    BY <2>1, ScrollWindowIs
<1>4. ASSUME NEW lines \in Screens, NEW height \in Sizes, NEW alt \in BOOLEAN
      PROVE  LET w == PeekWindow(lines, height, alt)
                 below == {i \in DOMAIN lines : lines[i] # <<>>}
             IN  /\ Len(w) <= height
                 /\ alt => Len(w) = Least(height, Len(lines))
                 /\ ~alt /\ height > 0 => (w = <<>> <=> below = {})
                 /\ w # <<>> /\ ~alt => /\ w[Len(w)] # <<>>
                                       /\ \E i \in below : w[Len(w)] = lines[i] /\ \A j \in below : j <= i
  <2>1. IsSeq(lines) /\ height \in Nat
    BY SeqsAre, ListingAssumption
  <2> QED
    BY <2>1, PeekWindowIs
<1> QED
  BY <1>1, <1>2, <1>3, <1>4 DEF WindowsHold

-----------------------------------------------------------------------------
(* The text of a drag.                                                     *)

\* Pairs of numbers are ordered as words are.
LEMMA PairsOrdered ==
  ASSUME NEW a \in Nat \X Nat, NEW b \in Nat \X Nat
  PROVE  Precedes(a, b) <=> a[1] < b[1] \/ (a[1] = b[1] /\ a[2] < b[2])
<1>1. DOMAIN a = 1 .. 2 /\ a[1] \in Nat /\ a[2] \in Nat /\ b[1] \in Nat /\ b[2] \in Nat
  OBVIOUS
<1>2. (\A m \in 1 .. 1 - 1 : a[m] = b[m]) /\ ((\A m \in 1 .. 2 - 1 : a[m] = b[m]) <=> a[1] = b[1])
  <2>1. (\A m \in 1 .. 1 - 1 : FALSE) /\ (\A m \in 1 .. 2 - 1 : m = 1) /\ 1 \in 1 .. 2 - 1
    OBVIOUS
  <2> QED
    BY <2>1
<1>3. \A n \in 1 .. 2 : n = 1 \/ n = 2
  OBVIOUS
<1>4. 1 \in 1 .. 2 /\ 2 \in 1 .. 2
  OBVIOUS
<1>5. Precedes(a, b) <=> \E n \in 1 .. 2 : a[n] < b[n] /\ \A m \in 1 .. n - 1 : a[m] = b[m]
  BY <1>1 DEF Precedes
<1>6. ASSUME Precedes(a, b) PROVE a[1] < b[1] \/ (a[1] = b[1] /\ a[2] < b[2])
  <2>1. PICK n \in 1 .. 2 : a[n] < b[n] /\ \A m \in 1 .. n - 1 : a[m] = b[m]
    BY <1>5, <1>6
  <2>2. CASE n = 1
    BY <2>1, <2>2
  <2>3. CASE n = 2
    BY <1>2, <2>1, <2>3
  <2> QED
    BY <1>3, <2>2, <2>3
<1>7. ASSUME a[1] < b[1] PROVE Precedes(a, b)
  BY <1>2, <1>4, <1>5, <1>7
<1>8. ASSUME a[1] = b[1], a[2] < b[2] PROVE Precedes(a, b)
  BY <1>2, <1>4, <1>5, <1>8
<1> QED
  BY <1>6, <1>7, <1>8

\* A cell within the rows there are.
Clamp(p, bottom) == <<Least(p[1], bottom), p[2]>>
Reaches(p, q) == p = q \/ Precedes(p, q)

\* The cells that a drag takes.
Among(a, h, x) == \/ Reaches(a, x) /\ Reaches(x, h)
                  \/ Reaches(h, x) /\ Reaches(x, a)

\* The ends of a drag in reading order, and what is between them, whichever came first.
Bounded(a, h, bottom, p, q) ==
  /\ Bounds([anchor |-> a, head |-> h], bottom) = <<p, q>>
  /\ Bounds([anchor |-> h, head |-> a], bottom) = <<p, q>>
  /\ p[1] = Least(Clamp(a, bottom)[1], Clamp(h, bottom)[1])
  /\ p[1] <= q[1] /\ q[1] <= bottom
  /\ q[1] = Clamp(a, bottom)[1] \/ q[1] = Clamp(h, bottom)[1]
  /\ Clamp(a, bottom)[1] <= q[1] /\ Clamp(h, bottom)[1] <= q[1]
  /\ p[1] = q[1] => p[2] <= q[2]
  /\ \A x \in Nat \X Nat : Among(Clamp(a, bottom), Clamp(h, bottom), x)
                             <=> /\ p[1] < x[1] \/ (p[1] = x[1] /\ p[2] <= x[2])
                                 /\ x[1] < q[1] \/ (x[1] = q[1] /\ x[2] <= q[2])

\* Every drag has such ends.
LEMMA BoundsIs ==
  ASSUME NEW a \in Nat \X Nat, NEW h \in Nat \X Nat, NEW bottom \in Nat
  PROVE  \E p \in Nat \X Nat, q \in Nat \X Nat : Bounded(a, h, bottom, p, q)
<1> DEFINE A == Clamp(a, bottom)
           H == Clamp(h, bottom)
           p == IF Precedes(H, A) THEN H ELSE A
           q == IF Precedes(H, A) THEN A ELSE H
<1>1. A \in Nat \X Nat /\ H \in Nat \X Nat /\ A[1] <= bottom /\ H[1] <= bottom
  BY DEF Clamp, Least
<1>2. Bounds([anchor |-> a, head |-> h], bottom) = IF Precedes(H, A) THEN <<H, A>> ELSE <<A, H>>
  BY DEF Bounds, Clamp
<1>3. Bounds([anchor |-> h, head |-> a], bottom) = IF Precedes(A, H) THEN <<A, H>> ELSE <<H, A>>
  BY DEF Bounds, Clamp
<1> HIDE DEF A, H
<1>4. /\ Precedes(H, A) <=> H[1] < A[1] \/ (H[1] = A[1] /\ H[2] < A[2])
      /\ Precedes(A, H) <=> A[1] < H[1] \/ (A[1] = H[1] /\ A[2] < H[2])
  BY <1>1, PairsOrdered
<1>5. \A x, y \in Nat \X Nat : x = y <=> x[1] = y[1] /\ x[2] = y[2]
  OBVIOUS
<1>6. \A x, y \in Nat \X Nat : Reaches(x, y) <=> x[1] < y[1] \/ (x[1] = y[1] /\ x[2] <= y[2])
  <2>1. ASSUME NEW x \in Nat \X Nat, NEW y \in Nat \X Nat
        PROVE  Reaches(x, y) <=> x[1] < y[1] \/ (x[1] = y[1] /\ x[2] <= y[2])
    <3>1. x[1] \in Nat /\ x[2] \in Nat /\ y[1] \in Nat /\ y[2] \in Nat
      OBVIOUS
    <3>2. Precedes(x, y) <=> x[1] < y[1] \/ (x[1] = y[1] /\ x[2] < y[2])
      BY PairsOrdered
    <3>3. Reaches(x, y) <=> (x[1] = y[1] /\ x[2] = y[2]) \/ Precedes(x, y)
      BY <1>5 DEF Reaches
    <3> QED
      BY <3>1, <3>2, <3>3
  <2> QED
    BY <2>1
<1>7. A[1] \in Nat /\ A[2] \in Nat /\ H[1] \in Nat /\ H[2] \in Nat
  BY <1>1
<1>8. p \in Nat \X Nat /\ q \in Nat \X Nat /\ ((p = H /\ q = A) \/ (p = A /\ q = H))
  BY <1>1
<1>9. p[1] < q[1] \/ (p[1] = q[1] /\ p[2] <= q[2])
  BY <1>4, <1>7
<1>10. Bounds([anchor |-> a, head |-> h], bottom) = <<p, q>>
  BY <1>2
<1>11. Bounds([anchor |-> h, head |-> a], bottom) = <<p, q>>
  <2>1. CASE A = H
    BY <1>3, <2>1
  <2>2. CASE A # H
    <3>1. Precedes(H, A) <=> ~Precedes(A, H)
      BY <1>1, <1>4, <1>5, <1>7, <2>2
    <3> QED
      BY <1>3, <3>1
  <2> QED
    BY <2>1, <2>2
<1> HIDE DEF p, q
<1>12. p[1] \in Nat /\ p[2] \in Nat /\ q[1] \in Nat /\ q[2] \in Nat
  BY <1>8
<1>13. /\ p[1] = Least(A[1], H[1]) /\ p[1] <= q[1] /\ q[1] <= bottom
       /\ (q[1] = A[1] \/ q[1] = H[1]) /\ A[1] <= q[1] /\ H[1] <= q[1]
       /\ p[1] = q[1] => p[2] <= q[2]
  BY <1>1, <1>7, <1>8, <1>9, <1>12 DEF Least
<1>14. ASSUME NEW x \in Nat \X Nat
       PROVE  (Reaches(A, x) /\ Reaches(x, H)) \/ (Reaches(H, x) /\ Reaches(x, A))
                <=> /\ p[1] < x[1] \/ (p[1] = x[1] /\ p[2] <= x[2])
                    /\ x[1] < q[1] \/ (x[1] = q[1] /\ x[2] <= q[2])
  <2>1. x[1] \in Nat /\ x[2] \in Nat
    OBVIOUS
  <2>2. (Reaches(A, x) /\ Reaches(x, H)) \/ (Reaches(H, x) /\ Reaches(x, A))
          <=> (Reaches(p, x) /\ Reaches(x, q)) \/ (Reaches(q, x) /\ Reaches(x, p))
    BY <1>8
  <2>3. /\ Reaches(p, x) <=> p[1] < x[1] \/ (p[1] = x[1] /\ p[2] <= x[2])
        /\ Reaches(x, q) <=> x[1] < q[1] \/ (x[1] = q[1] /\ x[2] <= q[2])
        /\ Reaches(q, x) <=> q[1] < x[1] \/ (q[1] = x[1] /\ q[2] <= x[2])
        /\ Reaches(x, p) <=> x[1] < p[1] \/ (x[1] = p[1] /\ x[2] <= p[2])
    BY <1>6, <1>8
  <2>4. Reaches(q, x) /\ Reaches(x, p) => Reaches(p, x) /\ Reaches(x, q)
    BY <1>9, <1>12, <2>1, <2>3
  <2> QED
    BY <2>2, <2>3, <2>4
<1>15. \A x \in Nat \X Nat : Among(A, H, x) <=> /\ p[1] < x[1] \/ (p[1] = x[1] /\ p[2] <= x[2])
                                                /\ x[1] < q[1] \/ (x[1] = q[1] /\ x[2] <= q[2])
  BY <1>14 DEF Among
<1>16. Bounded(a, h, bottom, p, q)
  BY <1>10, <1>11, <1>13, <1>15 DEF Bounded, A, H
<1> QED
  BY <1>8, <1>16

\* The glyph that a mark belongs to: the last one before it that has a width.
LEMMA BaseIs ==
  ASSUME NEW line, Line(line), NEW n \in 0 .. Len(line)
  PROVE  /\ Base(line, n) \in 0 .. n
         /\ Base(line, n) > 0 => Width[line[Base(line, n)]] > 0
<1> DEFINE T == {k \in 0 .. n : k = 0 \/ Width[line[k]] > 0}
           Basic(k) == (k = 0 \/ Width[line[k]] > 0) /\ \A j \in k + 1 .. n : Width[line[j]] = 0
<1>1. Len(line) \in Nat /\ \A k \in 1 .. Len(line) : Width[line[k]] \in Nat
  BY LineIs
<1>n. n \in Nat
  BY <1>1
<1>2. IsFiniteSet(T) /\ T \subseteq Nat /\ T # {}
  <2>1. T \in SUBSET (0 .. n) /\ 0 \in T
    BY <1>n
  <2> HIDE DEF T
  <2>2. IsFiniteSet(0 .. n)
    BY <1>n, FS_Interval
  <2>3. IsFiniteSet(T)
    BY <2>1, <2>2, FS_Subset
  <2> QED
    BY <1>n, <2>1, <2>3
<1>3. \A k \in 0 .. n : k \in T <=> k = 0 \/ Width[line[k]] > 0
  OBVIOUS
<1>s. T \subseteq 0 .. n
  OBVIOUS
<1> HIDE DEF T
<1>4. PICK x \in T : \A y \in T : y <= x
  BY <1>2, GreatestNatural
<1>5. x \in 0 .. n /\ (x = 0 \/ Width[line[x]] > 0)
  BY <1>3, <1>4, <1>s
<1>6. ASSUME NEW j \in x + 1 .. n PROVE Width[line[j]] = 0
  <2>1. j \in 0 .. n /\ j \in 1 .. Len(line) /\ ~(j <= x)
    BY <1>1, <1>5
  <2>2. j \notin T
    BY <1>4, <2>1
  <2>3. ~(Width[line[j]] > 0) /\ Width[line[j]] \in Nat
    BY <1>1, <1>3, <2>1, <2>2
  <2> QED
    BY <2>3
<1>7. Basic(x)
  BY <1>5, <1>6
<1>8. Base(line, n) = CHOOSE k \in 0 .. n : Basic(k)
  BY DEF Base
<1> HIDE DEF Basic
<1>9. Base(line, n) \in 0 .. n /\ Basic(Base(line, n))
  BY <1>5, <1>7, <1>8
<1> QED
  BY <1>9 DEF Basic

\* A glyph overlaps the cells of a row from one to before another just when it has a cell among them.
LEMMA OverlapsIs ==
  ASSUME NEW line, Line(line), NEW n \in 1 .. Len(line), NEW from \in Nat, NEW to \in Nat,
         from < to \/ Columns(line, Len(line)) < to
  PROVE  Overlaps(line, n, from, to)
           <=> /\ Base(line, n) > 0
               /\ \E c \in Columns(line, Base(line, n) - 1) .. Columns(line, Base(line, n)) - 1 : from <= c /\ c < to
<1> DEFINE k == Base(line, n)
           L == Len(line)
           x == Columns(line, k - 1)
           y == Columns(line, k)
           N == Columns(line, L)
<1>1. L \in Nat /\ \A i \in 1 .. L : Width[line[i]] \in Nat
  BY LineIs
<1>2. k \in 0 .. n /\ (k > 0 => Width[line[k]] > 0) /\ n \in 0 .. L
  <2>1. n \in 0 .. Len(line)
    BY <1>1
  <2> QED
    BY <2>1, BaseIs
<1>3. Overlaps(line, n, from, to) <=> k > 0 /\ x < to /\ y > from
  BY DEF Overlaps
<1> HIDE DEF k, L
<1>4. /\ \A i \in 0 .. L : Columns(line, i) \in Nat
      /\ \A i \in 1 .. L : Columns(line, i) = Columns(line, i - 1) + Width[line[i]]
  BY <1>1, ColumnsAdd
<1>5. ASSUME k > 0 PROVE x \in Nat /\ y \in Nat /\ N \in Nat /\ x < y /\ y <= N
  <2>1. k \in 1 .. L /\ k - 1 \in 0 .. L /\ k \in 0 .. L /\ L \in 0 .. L /\ k <= L
    BY <1>1, <1>2, <1>5
  <2>2. x \in Nat /\ y \in Nat /\ N \in Nat /\ y = x + Width[line[k]]
    BY <1>4, <2>1
  <2>3. Width[line[k]] > 0 /\ Width[line[k]] \in Nat
    BY <1>1, <1>2, <1>5, <2>1
  <2>4. y <= N
    BY <1>1, <2>1, ColumnsGrow
  <2> HIDE DEF x, y, N
  <2> QED
    BY <2>2, <2>3, <2>4
<1>6. from < to \/ N < to
  BY DEF L
<1> HIDE DEF x, y, N
<1>7. ASSUME k > 0 PROVE (x < to /\ y > from) <=> \E c \in x .. y - 1 : from <= c /\ c < to
  <2>1. x \in Nat /\ y \in Nat /\ N \in Nat /\ x < y /\ y <= N
    BY <1>5, <1>7
  <2>2. ASSUME x < to, y > from PROVE \E c \in x .. y - 1 : from <= c /\ c < to
    <3>1. CASE from <= x
      <4>1. x \in x .. y - 1 /\ from <= x /\ x < to
        BY <2>1, <2>2, <3>1
      <4> QED
        BY <4>1
    <3>2. CASE ~(from <= x)
      <4>1. from \in x .. y - 1 /\ from <= from /\ from < to
        BY <1>6, <2>1, <2>2, <3>2
      <4> QED
        BY <4>1
    <3> QED
      BY <3>1, <3>2
  <2>3. ASSUME NEW c \in x .. y - 1, from <= c, c < to PROVE x < to /\ y > from
    BY <2>1, <2>3
  <2> QED
    BY <2>2, <2>3
<1> QED
  BY <1>3, <1>7 DEF k, x, y

\* The glyphs of a row with a cell that the drag takes.
Covered(line, a, h, row, n) ==
  Base(line, n) > 0 /\ \E c \in Columns(line, Base(line, n) - 1) .. Columns(line, Base(line, n)) - 1 : Among(a, h, <<row, c>>)

Taken(line, a, h, row) == {n \in DOMAIN line : Covered(line, a, h, row, n)}

\* What a row gives up is what is covered there.
LEMMA RowSegmentIs ==
  ASSUME NEW a \in Nat \X Nat, NEW h \in Nat \X Nat, NEW bottom \in Nat, NEW line, Line(line),
         NEW p \in Nat \X Nat, NEW q \in Nat \X Nat, Bounded(a, h, bottom, p, q),
         NEW row \in p[1] .. q[1]
  PROVE  RowSegment([anchor |-> a, head |-> h], row, line, bottom)
           = TrimEnd(line, Taken(line, Clamp(a, bottom), Clamp(h, bottom), row))
<1> DEFINE sel == [anchor |-> a, head |-> h]
           N == Columns(line, Len(line))
           from == IF row = p[1] THEN p[2] ELSE 0
           to == IF row = q[1] THEN q[2] + 1 ELSE N + 1
           A == Clamp(a, bottom)
           H == Clamp(h, bottom)
<1>1. p[1] \in Nat /\ p[2] \in Nat /\ q[1] \in Nat /\ q[2] \in Nat /\ row \in Nat /\ p[1] <= row /\ row <= q[1]
  OBVIOUS
<1>2. Len(line) \in Nat /\ DOMAIN line = 1 .. Len(line) /\ \A k \in 1 .. Len(line) : Width[line[k]] \in Nat
  BY LineIs
<1>3. \A k \in 0 .. Len(line) : Columns(line, k) \in Nat
  BY <1>2, ColumnsAdd
<1>4. N \in Nat
  BY <1>2, <1>3
<1>5. RowSegment(sel, row, line, bottom) = TrimEnd(line, SegmentSpan(line, from, to))
  <2>1. Bounds(sel, bottom)[1] = p /\ Bounds(sel, bottom)[2] = q
    BY DEF Bounded
  <2>2. ~(row < p[1] \/ row > q[1])
    BY <1>1
  <2> HIDE DEF sel
  <2> QED
    BY <2>1, <2>2 DEF RowSegment
<1>6. \A x \in Nat \X Nat : Among(A, H, x)
           <=> /\ p[1] < x[1] \/ (p[1] = x[1] /\ p[2] <= x[2])
               /\ x[1] < q[1] \/ (x[1] = q[1] /\ x[2] <= q[2])
  BY DEF Bounded
<1>b. p[1] <= q[1] /\ (p[1] = q[1] => p[2] <= q[2])
  BY DEF Bounded
<1> HIDE DEF N, A, H
<1>7. from \in Nat /\ to \in Nat /\ (from < to \/ N < to)
  BY <1>1, <1>4, <1>b
<1>8. ASSUME NEW n \in 1 .. Len(line)
      PROVE  Overlaps(line, n, from, to) <=> Covered(line, A, H, row, n)
  <2> DEFINE k == Base(line, n)
             x == Columns(line, k - 1)
             y == Columns(line, k)
  <2>1. Overlaps(line, n, from, to) <=> k > 0 /\ \E c \in x .. y - 1 : from <= c /\ c < to
    <3> HIDE DEF from, to
    <3> QED
      BY <1>7, OverlapsIs DEF N
  <2>2. k \in 0 .. n /\ n \in 0 .. Len(line)
    <3>1. n \in 0 .. Len(line)
      BY <1>2
    <3> QED
      BY <3>1, BaseIs
  <2> HIDE DEF k
  <2>3. ASSUME k > 0, NEW c \in x .. y - 1 PROVE (from <= c /\ c < to) <=> Among(A, H, <<row, c>>)
    <3>1. k - 1 \in 0 .. Len(line) /\ k \in 0 .. Len(line) /\ Len(line) \in 0 .. Len(line) /\ k <= Len(line)
      BY <1>2, <2>2, <2>3
    <3>2. x \in Nat /\ y \in Nat
      BY <1>3, <3>1
    <3>3. y <= N
      BY <1>2, <3>1, ColumnsGrow DEF N
    <3> HIDE DEF x, y
    <3>4. c \in Nat /\ c < N + 1
      BY <1>4, <2>3, <3>2, <3>3
    <3>5. <<row, c>> \in Nat \X Nat /\ <<row, c>>[1] = row /\ <<row, c>>[2] = c
      BY <1>1, <3>4
    <3>6. Among(A, H, <<row, c>>) <=> /\ p[1] < row \/ (p[1] = row /\ p[2] <= c)
                                      /\ row < q[1] \/ (row = q[1] /\ c <= q[2])
      BY <1>6, <3>5
    <3>7. from <= c <=> p[1] < row \/ (p[1] = row /\ p[2] <= c)
      BY <1>1, <3>4
    <3>8. c < to <=> row < q[1] \/ (row = q[1] /\ c <= q[2])
      BY <1>1, <1>4, <3>4
    <3> QED
      BY <3>6, <3>7, <3>8
  <2> HIDE DEF from, to
  <2>4. Covered(line, A, H, row, n) <=> k > 0 /\ \E c \in x .. y - 1 : Among(A, H, <<row, c>>)
    BY DEF Covered, k
  <2> QED
    BY <2>1, <2>3, <2>4
<1> HIDE DEF from, to
<1>9. SegmentSpan(line, from, to) = {n \in DOMAIN line : Covered(line, A, H, row, n)}
  BY <1>2, <1>8 DEF SegmentSpan
<1> QED
  BY <1>5, <1>9 DEF Taken, A, H

\* Rows alone are ordered as numbers are.
LEMMA OnesOrdered ==
  ASSUME NEW x \in Nat, NEW y \in Nat
  PROVE  Reaches(<<x>>, <<y>>) <=> x <= y
<1>1. DOMAIN <<x>> = {1} /\ <<x>>[1] = x /\ <<y>>[1] = y
  OBVIOUS
<1>2. \A m \in 1 .. 1 - 1 : FALSE
  OBVIOUS
<1>3. Precedes(<<x>>, <<y>>) <=> x < y
  BY <1>1, <1>2 DEF Precedes
<1>4. <<x>> = <<y>> <=> x = y
  BY <1>1
<1> QED
  BY <1>3, <1>4 DEF Reaches

\* The rows that a drag touches.
Touched(rows, a, h) ==
  {row \in 0 .. Len(rows) - 1 : Reaches(<<Least(a[1], h[1])>>, <<row>>) /\ (row <= a[1] \/ row <= h[1])}

\* What a drag takes is what it covers, in either direction.
LEMMA ExtractIs ==
  ASSUME NEW rows, rows \in Seq(Seq(DOMAIN Width)), NEW a \in Nat \X Nat, NEW h \in Nat \X Nat
  PROVE  /\ Extract([anchor |-> a, head |-> h], rows) = Extract([anchor |-> h, head |-> a], rows)
         /\ rows # <<>> =>
              Extract([anchor |-> a, head |-> h], rows)
                = {<<row, TrimEnd(rows[row + 1], Taken(rows[row + 1], Clamp(a, Len(rows) - 1), Clamp(h, Len(rows) - 1), row))>> :
                     row \in Touched(rows, Clamp(a, Len(rows) - 1), Clamp(h, Len(rows) - 1))}
<1>1. CASE rows = <<>>
  BY <1>1 DEF Extract
<1>2. CASE rows # <<>>
  <2> DEFINE bottom == Len(rows) - 1
             sel == [anchor |-> a, head |-> h]
             swapped == [anchor |-> h, head |-> a]
             A == Clamp(a, bottom)
             H == Clamp(h, bottom)
             seg(s, row) == RowSegment(s, row, rows[row + 1], bottom)
  <2>1. Len(rows) \in Nat /\ Len(rows) # 0 /\ bottom \in Nat
    <3>1. Len(rows) \in Nat /\ Len(rows) # 0
      BY <1>2, LenProperties, EmptySeq
    <3> QED
      BY <3>1
  <2> HIDE DEF bottom
  <2>2. A \in Nat \X Nat /\ H \in Nat \X Nat /\ A[1] \in Nat /\ H[1] \in Nat
    BY <2>1 DEF Clamp, Least
  <2>3. PICK p \in Nat \X Nat, q \in Nat \X Nat : Bounded(a, h, bottom, p, q)
    BY <2>1, BoundsIs
  <2>4. /\ Bounds(sel, bottom) = <<p, q>> /\ Bounds(swapped, bottom) = <<p, q>>
        /\ p[1] = Least(A[1], H[1]) /\ p[1] <= q[1] /\ q[1] <= bottom
        /\ (q[1] = A[1] \/ q[1] = H[1]) /\ A[1] <= q[1] /\ H[1] <= q[1]
    BY <2>3 DEF Bounded
  <2>5. ASSUME NEW row \in p[1] .. q[1]
        PROVE  seg(sel, row) = TrimEnd(rows[row + 1], Taken(rows[row + 1], A, H, row))
    <3> DEFINE line == rows[row + 1]
    <3>1. row + 1 \in 1 .. Len(rows)
      BY <2>1, <2>4 DEF bottom
    <3>2. Line(line)
      BY <3>1, LenProperties, ElementOfSeq DEF Line
    <3> HIDE DEF line
    <3>3. RowSegment([anchor |-> a, head |-> h], row, line, bottom)
           = TrimEnd(line, Taken(line, Clamp(a, bottom), Clamp(h, bottom), row))
      BY <2>1, <2>3, <3>2, RowSegmentIs
    <3> QED
      BY <3>3 DEF line
  <2>6. Touched(rows, A, H) = p[1] .. q[1]
    <3>1. p[1] \in Nat /\ q[1] \in Nat /\ p[1] <= q[1] /\ q[1] <= bottom
      BY <2>4
    <3>2. p[1] = Least(A[1], H[1]) /\ (q[1] = A[1] \/ q[1] = H[1]) /\ A[1] <= q[1] /\ H[1] <= q[1]
      BY <2>4
    <3> HIDE DEF A, H
    <3>3. ASSUME NEW row \in 0 .. bottom
          PROVE  Reaches(<<Least(A[1], H[1])>>, <<row>>) /\ (row <= A[1] \/ row <= H[1]) <=> row \in p[1] .. q[1]
      <4>1. Reaches(<<p[1]>>, <<row>>) <=> p[1] <= row
        BY <2>1, <3>1, OnesOrdered
      <4>2. (row <= A[1] \/ row <= H[1]) <=> row <= q[1]
        BY <2>1, <2>2, <3>1, <3>2, SMTT(30)
      <4> QED
        BY <2>1, <3>1, <3>2, <4>1, <4>2
    <3>4. Touched(rows, A, H) = {row \in 0 .. bottom : Reaches(<<Least(A[1], H[1])>>, <<row>>) /\ (row <= A[1] \/ row <= H[1])}
      BY DEF Touched, bottom
    <3>5. p[1] .. q[1] \subseteq 0 .. bottom
      BY <2>1, <3>1
    <3> QED
      BY <3>3, <3>4, <3>5
  <2>7. Extract(sel, rows) = {<<row, seg(sel, row)>> : row \in p[1] .. q[1]}
    <3>1. Bounds(sel, Len(rows) - 1)[1] = p /\ Bounds(sel, Len(rows) - 1)[2] = q
      BY <2>4 DEF bottom
    <3> HIDE DEF sel
    <3> QED
      BY <1>2, <3>1 DEF Extract, bottom
  <2>8. Extract(swapped, rows) = {<<row, seg(swapped, row)>> : row \in p[1] .. q[1]}
    <3>1. Bounds(swapped, Len(rows) - 1)[1] = p /\ Bounds(swapped, Len(rows) - 1)[2] = q
      BY <2>4 DEF bottom
    <3> HIDE DEF swapped
    <3> QED
      BY <1>2, <3>1 DEF Extract, bottom
  <2>9. \A row : seg(swapped, row) = seg(sel, row)
    <3>1. Bounds(swapped, bottom) = Bounds(sel, bottom)
      BY <2>4
    <3> HIDE DEF sel, swapped
    <3> QED
      BY <3>1 DEF RowSegment
  <2>10. Extract(sel, rows) = Extract(swapped, rows)
    <3> HIDE DEF sel, swapped, seg
    <3> QED
      BY <2>7, <2>8, <2>9
  <2>11. Extract(sel, rows) = {<<row, TrimEnd(rows[row + 1], Taken(rows[row + 1], A, H, row))>> : row \in Touched(rows, A, H)}
    <3> HIDE DEF sel, seg, A, H
    <3> QED
      BY <2>5, <2>6, <2>7
  <2> QED
    BY <2>10, <2>11 DEF bottom
<1> QED
  BY <1>1, <1>2

(***************************************************************************)
(* A drag takes the same text in either direction: of each row it touches  *)
(* the glyphs that have a cell between its ends, without the blanks at the *)
(* end of the row; for all screens, glyph widths and cells.                *)
(***************************************************************************)
THEOREM DragsTakeWhatTheyCover == TextIsDragged
<1> SUFFICES ASSUME NEW rows \in Screens, NEW a \in Cells, NEW h \in Cells
             PROVE  LET sel == [anchor |-> a, head |-> h]
                        clamp(p) == <<Least(p[1], Len(rows) - 1), p[2]>>
                        Upto(p, q) == p = q \/ Precedes(p, q)
                        between(p) == \/ Upto(clamp(a), p) /\ Upto(p, clamp(h))
                                      \/ Upto(clamp(h), p) /\ Upto(p, clamp(a))
                        covered(row, n) == LET k == Base(rows[row + 1], n) IN
                          k > 0 /\ \E c \in Columns(rows[row + 1], k - 1) .. Columns(rows[row + 1], k) - 1 : between(<<row, c>>)
                        text(row) == {n \in DOMAIN rows[row + 1] : covered(row, n)}
                        touched == {row \in 0 .. Len(rows) - 1 : Upto(<<Least(clamp(a)[1], clamp(h)[1])>>, <<row>>)
                                                               /\ (row <= clamp(a)[1] \/ row <= clamp(h)[1])}
                    IN  /\ Extract(sel, rows) = Extract([anchor |-> h, head |-> a], rows)
                        /\ rows # <<>> => Extract(sel, rows) = {<<row, TrimEnd(rows[row + 1], text(row))>> : row \in touched}
  BY DEF TextIsDragged
<1>1. rows \in Seq(Seq(DOMAIN Width)) /\ a \in Nat \X Nat /\ h \in Nat \X Nat
  BY ListingAssumption
<1>2. /\ Extract([anchor |-> a, head |-> h], rows) = Extract([anchor |-> h, head |-> a], rows)
      /\ rows # <<>> =>
           Extract([anchor |-> a, head |-> h], rows)
             = {<<row, TrimEnd(rows[row + 1], Taken(rows[row + 1], Clamp(a, Len(rows) - 1), Clamp(h, Len(rows) - 1), row))>> :
                  row \in Touched(rows, Clamp(a, Len(rows) - 1), Clamp(h, Len(rows) - 1))}
  BY <1>1, ExtractIs
<1> QED
  BY <1>2 DEF Taken, Touched, Covered, Among, Reaches, Clamp

(***************************************************************************)
(* The pickers offer what there is, the dashboard lists each task once and *)
(* its motions reach it, what is drawn fits and a drag takes what it       *)
(* covers: at any time, for all that may arrive, be typed and be shown.    *)
(***************************************************************************)
THEOREM DashboardIsRight == PromptSpec => []DashboardHolds
<1>1. PromptsHold => DashboardHolds
  BY ListsAreWhole, MotionsReachAll, WindowsFit, PickersHold, DragsTakeWhatTheyCover DEF DashboardHolds
<1> QED
  BY <1>1, PromptsOfferWhatThereIs, PTL
=============================================================================
