-------------------------- MODULE SocketTransportProofs --------------------------
(***************************************************************************)
(* SocketTransport implements Link: whatever the threads, the daemon and   *)
(* the deadline do, commands arrive in the order in which they were sent.  *)
(* And what its frames carry is read as it was written (Wire).             *)
(***************************************************************************)
EXTENDS SocketTransport, SequenceTheorems, WellFoundedInduction, TLAPS

\* q is what s holds after its first k elements, or the beginning of it.
Follows(q, s, k) == \A i \in 1 .. Len(q) : q[i] = s[k + i]

LEMMA FollowsBothGrow ==
  ASSUME NEW S, NEW q \in Seq(S), NEW s \in Seq(S), NEW c \in S, NEW k \in Nat,
         k + Len(q) = Len(s), Follows(q, s, k)
  PROVE  Follows(Append(q, c), Append(s, c), k)
<1>1. /\ Len(q) \in Nat /\ Len(s) \in Nat /\ Len(Append(q, c)) = Len(q) + 1
      /\ \A i \in 1 .. Len(q) : Append(q, c)[i] = q[i]
      /\ Append(q, c)[Len(q) + 1] = c
      /\ \A i \in 1 .. Len(s) : Append(s, c)[i] = s[i]
      /\ Append(s, c)[Len(s) + 1] = c
  BY AppendProperties, LenProperties
<1>2. ASSUME NEW i \in 1 .. Len(q) + 1 PROVE Append(q, c)[i] = Append(s, c)[k + i]
  <2>1. CASE i = Len(q) + 1
    BY <2>1, <1>1
  <2>2. CASE i \in 1 .. Len(q)
    <3>1. k + i \in 1 .. Len(s)
      BY <2>2, <1>1
    <3>2. q[i] = s[k + i]
      BY <2>2 DEF Follows
    <3> QED
      BY <2>2, <3>1, <3>2, <1>1
  <2> QED
    BY <2>1, <2>2, <1>1
<1> QED
  BY <1>1, <1>2 DEF Follows

LEMMA FollowsLonger ==
  ASSUME NEW S, NEW q \in Seq(S), NEW s \in Seq(S), NEW c \in S, NEW k \in Nat,
         k + Len(q) <= Len(s), Follows(q, s, k)
  PROVE  Follows(q, Append(s, c), k)
<1>1. /\ Len(q) \in Nat /\ Len(s) \in Nat
      /\ \A i \in 1 .. Len(s) : Append(s, c)[i] = s[i]
  BY AppendProperties, LenProperties
<1>2. ASSUME NEW i \in 1 .. Len(q) PROVE q[i] = Append(s, c)[k + i]
  <2>1. k + i \in 1 .. Len(s)
    BY <1>1
  <2> QED
    BY <2>1, <1>1 DEF Follows
<1> QED
  BY <1>2 DEF Follows

LEMMA FollowsTail ==
  ASSUME NEW S, NEW q \in Seq(S), q # <<>>, NEW s, NEW k \in Nat, Follows(q, s, k)
  PROVE  Head(q) = s[k + 1] /\ Follows(Tail(q), s, k + 1)
<1>1. /\ Head(q) = q[1] /\ Len(q) \in Nat \ {0} /\ Len(Tail(q)) = Len(q) - 1
      /\ \A i \in 1 .. Len(Tail(q)) : Tail(q)[i] = q[i + 1]
  BY HeadTailProperties, EmptySeq, LenProperties
<1>2. Head(q) = s[k + 1]
  BY <1>1 DEF Follows
<1>3. ASSUME NEW i \in 1 .. Len(Tail(q)) PROVE Tail(q)[i] = s[(k + 1) + i]
  <2>1. i + 1 \in 1 .. Len(q) /\ k + (i + 1) = (k + 1) + i
    BY <1>1
  <2>2. q[i + 1] = s[k + (i + 1)]
    BY <2>1 DEF Follows
  <2> QED
    BY <2>1, <2>2, <1>1
<1> QED
  BY <1>2, <1>3 DEF Follows

LEMMA FollowsAppend ==
  ASSUME NEW S, NEW q \in Seq(S), NEW s, NEW k \in Nat, Follows(q, s, k),
         NEW c \in S, c = s[k + Len(q) + 1]
  PROVE  Follows(Append(q, c), s, k)
<1>1. /\ Len(q) \in Nat /\ Len(Append(q, c)) = Len(q) + 1
      /\ \A i \in 1 .. Len(q) : Append(q, c)[i] = q[i]
      /\ Append(q, c)[Len(q) + 1] = c
  BY AppendProperties, LenProperties
<1>2. ASSUME NEW i \in 1 .. Len(q) + 1 PROVE Append(q, c)[i] = s[k + i]
  <2>1. CASE i = Len(q) + 1
    <3>1. k + Len(q) + 1 = k + i
      BY <2>1, <1>1
    <3> QED
      BY <2>1, <3>1, <1>1
  <2>2. CASE i \in 1 .. Len(q)
    BY <2>2, <1>1 DEF Follows
  <2> QED
    BY <2>1, <2>2, <1>1
<1> QED
  BY <1>1, <1>2 DEF Follows

LEMMA FollowsEmpty ==
  ASSUME NEW s, NEW k \in Nat
  PROVE  Follows(<<>>, s, k)
  BY DEF Follows

-----------------------------------------------------------------------------
(* The invariant.                                                          *)

\* The frame in the writer's hand, and the commands ahead of it.
InHand == IF writer = "write" THEN 1 ELSE 0
Ahead == Len(got) + Len(out)

SeqsOK ==
  /\ queue \in Seq(Command) /\ out \in Seq(Command)
  /\ sent \in Seq(Command) /\ got \in Seq(Command)

\* What is on its way to a daemon that may still read it are the commands after
\* those it has read, and all of them while the writer lives.
Aligned ==
  peer # "closed" =>
    /\ Ahead + InHand + Len(queue) <= Len(sent)
    /\ writer # "ended" => Ahead + InHand + Len(queue) = Len(sent)
    /\ Follows(out, sent, Len(got))
    /\ writer = "write" => hand = sent[Ahead + 1]
    /\ Follows(queue, sent, Ahead + InHand)

OrderInv == SeqsOK /\ Aligned

LEMMA Lengths ==
  ASSUME SeqsOK
  PROVE  /\ Len(queue) \in Nat /\ Len(out) \in Nat /\ Len(sent) \in Nat /\ Len(got) \in Nat
         /\ Ahead \in Nat /\ InHand \in Nat
  BY LenProperties DEF SeqsOK, Ahead, InHand

LEMMA InitOrder == Init => OrderInv
<1> SUFFICES ASSUME Init PROVE OrderInv
  OBVIOUS
<1>1. /\ queue = <<>> /\ out = <<>> /\ sent = <<>> /\ got = <<>> /\ writer = "recv"
  BY DEF Init
<1>2. SeqsOK
  BY <1>1, EmptySeq DEF SeqsOK
<1>3. InHand = 0 /\ Ahead = 0
  BY <1>1, EmptySeq DEF InHand, Ahead
<1>4. Follows(out, sent, Len(got)) /\ Follows(queue, sent, Ahead + InHand)
  BY <1>1, <1>3, FollowsEmpty, EmptySeq
<1>5. Aligned
  BY <1>1, <1>3, <1>4, EmptySeq DEF Aligned
<1> QED
  BY <1>2, <1>5 DEF OrderInv

\* Sending is what the client's run and its quit have in common.
LEMMA SendOrder ==
  ASSUME OrderInv, NEW c \in Command, Sends(c), UNCHANGED <<writer, hand, out, peer, got>>
  PROVE  OrderInv'
<1>1. CASE UNCHANGED <<queue, sent>>
  BY <1>1 DEF OrderInv, SeqsOK, Aligned, Ahead, InHand
<1>2. CASE writer # "ended" /\ queue' = Append(queue, c) /\ sent' = Append(sent, c)
  <2>1. /\ SeqsOK' /\ Len(queue') = Len(queue) + 1 /\ Len(sent') = Len(sent) + 1
        /\ \A i \in 1 .. Len(sent) : sent'[i] = sent[i]
    BY <1>2, AppendProperties DEF OrderInv, SeqsOK
  <2>2. Ahead' = Ahead /\ InHand' = InHand
    BY DEF Ahead, InHand
  <2>3. ASSUME peer # "closed"
        PROVE  /\ Ahead + InHand + Len(queue') = Len(sent')
               /\ Follows(out, sent', Len(got))
               /\ writer = "write" => hand = sent'[Ahead + 1]
               /\ Follows(queue', sent', Ahead + InHand)
    <3>1. /\ Ahead + InHand + Len(queue) = Len(sent) /\ Follows(out, sent, Len(got))
          /\ writer = "write" => hand = sent[Ahead + 1]
          /\ Follows(queue, sent, Ahead + InHand)
      BY <1>2, <2>3 DEF OrderInv, Aligned
    <3>2. SeqsOK
      BY DEF OrderInv
    <3>3. Ahead + InHand + Len(queue') = Len(sent')
      BY <2>1, <3>1, <3>2, Lengths
    <3>4. Follows(out, sent', Len(got))
      <4>1. Len(got) + Len(out) <= Len(sent)
        BY <3>1, <3>2, Lengths DEF Ahead
      <4> QED
        BY <1>2, <3>1, <3>2, <4>1, Lengths, FollowsLonger DEF SeqsOK
    <3>5. writer = "write" => hand = sent'[Ahead + 1]
      <4> SUFFICES ASSUME writer = "write" PROVE hand = sent'[Ahead + 1]
        OBVIOUS
      <4>1. InHand = 1
        BY DEF InHand
      <4>2. Ahead + 1 \in 1 .. Len(sent)
        BY <3>1, <3>2, <4>1, Lengths
      <4> QED
        BY <2>1, <3>1, <4>2
    <3>6. Follows(queue', sent', Ahead + InHand)
      <4>1. Ahead + InHand \in Nat
        BY <3>2, Lengths
      <4> QED
        BY <1>2, <3>1, <3>2, <4>1, FollowsBothGrow DEF SeqsOK
    <3> QED
      BY <3>3, <3>4, <3>5, <3>6
  <2>4. Aligned'
    <3>1. Len(queue') \in Nat /\ Len(sent') \in Nat
      BY <2>1, LenProperties DEF SeqsOK
    <3> QED
      BY <2>2, <2>3, <3>1 DEF Aligned
  <2> QED
    BY <2>1, <2>4 DEF OrderInv
<1> QED
  BY <1>1, <1>2 DEF Sends

LEMMA WriterTakesOrder ==
  ASSUME OrderInv, WriterTakes PROVE OrderInv'
<1>1. /\ writer = "recv" /\ writer' = "write" /\ queue # <<>>
      /\ hand' = Head(queue) /\ queue' = Tail(queue)
      /\ UNCHANGED <<sent, got, out, peer>>
  BY DEF WriterTakes, daemonVars
<1>2. SeqsOK /\ SeqsOK' /\ Len(queue') = Len(queue) - 1
  BY <1>1, HeadTailProperties DEF OrderInv, SeqsOK
<1>3. InHand = 0 /\ InHand' = 1 /\ Ahead' = Ahead
  BY <1>1 DEF InHand, Ahead
<1>4. ASSUME peer # "closed"
      PROVE  /\ Ahead + 1 + Len(queue') = Len(sent)
             /\ Follows(out, sent, Len(got))
             /\ hand' = sent[Ahead + 1]
             /\ Follows(queue', sent, Ahead + 1)
  <2>1. /\ Ahead + Len(queue) = Len(sent) /\ Follows(out, sent, Len(got))
        /\ Follows(queue, sent, Ahead)
    <3>1. Ahead + InHand = Ahead
      BY <1>2, <1>3, Lengths
    <3> QED
      BY <1>1, <1>4, <3>1 DEF OrderInv, Aligned
  <2>2. hand' = sent[Ahead + 1] /\ Follows(queue', sent, Ahead + 1)
    BY <1>1, <1>2, <2>1, Lengths, FollowsTail DEF SeqsOK
  <2> QED
    BY <1>2, <2>1, <2>2, Lengths
<1>5. Aligned'
  <2>1. Len(queue') \in Nat /\ Len(sent) \in Nat
    BY <1>2, Lengths, LenProperties DEF SeqsOK
  <2> QED
    BY <1>1, <1>3, <1>4, <2>1 DEF Aligned
<1> QED
  BY <1>2, <1>5 DEF OrderInv

LEMMA WriterWritesOrder ==
  ASSUME OrderInv, WriterWrites PROVE OrderInv'
<1>1. /\ writer = "write" /\ writer' = "recv" /\ peer # "closed"
      /\ out' = Append(out, hand)
      /\ UNCHANGED <<sent, got, queue, peer>>
  BY DEF WriterWrites, queueVars, daemonVars
<1>2. SeqsOK /\ InHand = 1 /\ InHand' = 0
  BY <1>1 DEF OrderInv, InHand
<1>3. /\ Ahead + 1 + Len(queue) = Len(sent) /\ Follows(out, sent, Len(got))
      /\ hand = sent[Ahead + 1] /\ Follows(queue, sent, Ahead + 1)
  BY <1>1, <1>2 DEF OrderInv, Aligned
<1>4. hand \in Command
  <2>1. Ahead + 1 \in 1 .. Len(sent)
    BY <1>2, <1>3, Lengths
  <2> QED
    BY <1>2, <1>3, <2>1, ElementOfSeq DEF SeqsOK
<1>5. SeqsOK' /\ Len(out') = Len(out) + 1
  BY <1>1, <1>2, <1>4, AppendProperties DEF SeqsOK
<1>6. Follows(out', sent, Len(got))
  <2>1. hand = sent[Len(got) + Len(out) + 1]
    BY <1>3 DEF Ahead
  <2> QED
    BY <1>1, <1>2, <1>3, <1>4, <2>1, Lengths, FollowsAppend DEF SeqsOK
<1>7. Ahead' = Ahead + 1
  BY <1>1, <1>2, <1>5, Lengths DEF Ahead
<1>8. Ahead' + InHand' = Ahead + 1
  BY <1>2, <1>7, Lengths
<1>9. Aligned'
  BY <1>1, <1>2, <1>3, <1>6, <1>8, Lengths DEF Aligned
<1> QED
  BY <1>5, <1>9 DEF OrderInv

LEMMA WriterStopsOrder ==
  ASSUME OrderInv, WriterFails \/ WriterEnds PROVE OrderInv'
<1>1. /\ writer' = "ended" /\ (queue' = <<>> \/ queue' = queue)
      /\ UNCHANGED <<sent, got, out, peer>>
  BY DEF WriterFails, WriterEnds, queueVars, daemonVars
<1>2. SeqsOK /\ SeqsOK'
  BY <1>1, EmptySeq DEF OrderInv, SeqsOK
<1>3. queue' = <<>> /\ Len(queue') = 0
  BY <1>1, EmptySeq DEF WriterFails, WriterEnds, queueVars
<1>4. InHand' = 0 /\ Ahead' = Ahead
  BY <1>1 DEF InHand, Ahead
<1>5. ASSUME peer # "closed"
      PROVE  Ahead + 0 <= Len(sent) /\ Follows(out, sent, Len(got)) /\ Follows(queue', sent, Ahead)
  <2>1. Ahead + InHand + Len(queue) <= Len(sent) /\ Follows(out, sent, Len(got))
    BY <1>5 DEF OrderInv, Aligned
  <2>2. Follows(queue', sent, Ahead)
    BY <1>2, <1>3, Lengths, FollowsEmpty
  <2> QED
    BY <1>2, <2>1, <2>2, Lengths
<1>6. Ahead' + InHand' = Ahead /\ Ahead' + InHand' + Len(queue') = Ahead + 0
  BY <1>2, <1>3, <1>4, Lengths
<1>7. Aligned'
  BY <1>1, <1>5, <1>6 DEF Aligned
<1> QED
  BY <1>2, <1>7 DEF OrderInv

\* The command that the daemon reads next is the one after those it has read.
LEMMA NextInOrder ==
  ASSUME OrderInv, DaemonReads
  PROVE  Len(got) < Len(sent) /\ Head(out) = sent[Len(got) + 1]
<1>1. SeqsOK /\ peer # "closed" /\ out # <<>>
  BY DEF OrderInv, DaemonReads
<1>2. Len(out) \in Nat \ {0}
  BY <1>1, EmptySeq, LenProperties DEF SeqsOK
<1>3. Len(got) + Len(out) + InHand + Len(queue) <= Len(sent) /\ Follows(out, sent, Len(got))
  BY <1>1 DEF OrderInv, Aligned, Ahead
<1>4. Len(got) < Len(sent)
  BY <1>1, <1>2, <1>3, Lengths
<1>5. Head(out) = sent[Len(got) + 1]
  BY <1>1, <1>3, Lengths, FollowsTail DEF SeqsOK
<1> QED
  BY <1>4, <1>5

LEMMA DaemonReadsOrder ==
  ASSUME OrderInv, DaemonReads PROVE OrderInv'
<1>1. /\ peer # "closed" /\ out # <<>>
      /\ got' = Append(got, Head(out)) /\ out' = Tail(out)
      /\ UNCHANGED <<sent, queue, writer, hand>>
  BY DEF DaemonReads, queueVars, writerVars
<1>2. SeqsOK
  BY DEF OrderInv
<1>3. /\ Head(out) \in Command /\ Tail(out) \in Seq(Command) /\ Len(Tail(out)) = Len(out) - 1
  BY <1>1, <1>2, HeadTailProperties DEF SeqsOK
<1>4. SeqsOK' /\ Len(got') = Len(got) + 1
  BY <1>1, <1>2, <1>3, AppendProperties DEF SeqsOK
<1>5. Ahead' = Ahead /\ InHand' = InHand
  BY <1>1, <1>2, <1>3, <1>4, Lengths DEF Ahead, InHand
<1>6. Follows(out', sent, Len(got'))
  <2>1. Follows(out, sent, Len(got))
    BY <1>1 DEF OrderInv, Aligned
  <2> QED
    BY <1>1, <1>2, <1>4, <2>1, Lengths, FollowsTail DEF SeqsOK
<1>7. Aligned'
  BY <1>1, <1>5, <1>6 DEF OrderInv, Aligned
<1> QED
  BY <1>4, <1>7 DEF OrderInv

LEMMA DaemonClosesOrder ==
  ASSUME OrderInv, DaemonCloses PROVE OrderInv'
<1>1. peer' = "closed" /\ out' = <<>> /\ UNCHANGED <<sent, got, queue>>
  BY DEF DaemonCloses, queueVars
<1> QED
  BY <1>1, EmptySeq DEF OrderInv, SeqsOK, Aligned

LEMMA CommandsAreCommands ==
  ASSUME SeqsOK
  PROVE  Shutdown \in Command /\ (Len(sent) < MaxSent => Len(sent) + 1 \in Command)
  BY TransportAssumption, Lengths DEF Shutdown, Command

\* Every other step leaves commands, writer and daemon alone.
Rest ==
  \/ Poll \/ Wake \/ Dropped \/ Disconnect \/ QuitSeesEnd \/ QuitExpires
  \/ JoinReader \/ JoinWriter \/ Reader \/ DaemonSends

LEMMA RestOrder ==
  ASSUME OrderInv, Rest \/ UNCHANGED vars
  PROVE  OrderInv' /\ UNCHANGED <<sent, got>>
<1>1. UNCHANGED <<sent, got, queue, out, writer, hand, peer>>
  BY DEF Rest, vars, clientVars, queueVars, writerVars, readerVars, daemonVars, histVars,
         Poll, Wake, Dropped, Disconnect, QuitSeesEnd, QuitExpires, JoinReader, JoinWriter,
         Reader, ReaderReads, ReaderEnds, ReaderWakes, ReaderCloses, DaemonSends
<1> QED
  BY <1>1 DEF OrderInv, SeqsOK, Aligned, Ahead, InHand

LEMMA StepCases ==
  ASSUME [Next]_vars
  PROVE  \/ ClientSends \/ Quit
         \/ WriterTakes \/ WriterWrites \/ WriterFails \/ WriterEnds
         \/ DaemonReads \/ DaemonCloses
         \/ (Rest \/ UNCHANGED vars)
  BY DEF Next, Client, Leaves, Teardown, Writer, Daemon, Rest

LEMMA StepOrder ==
  ASSUME OrderInv, [Next]_vars PROVE OrderInv'
<1>1. CASE ClientSends
  <2>1. /\ Len(sent) + 1 \in Command /\ Sends(Len(sent) + 1)
        /\ UNCHANGED <<writer, hand, out, peer, got>>
    BY <1>1, CommandsAreCommands DEF OrderInv, ClientSends, writerVars, daemonVars
  <2> QED
    BY <2>1, SendOrder
<1>2. CASE Quit
  <2>1. /\ Shutdown \in Command /\ Sends(Shutdown)
        /\ UNCHANGED <<writer, hand, out, peer, got>>
    BY <1>2, CommandsAreCommands DEF OrderInv, Quit, writerVars, daemonVars
  <2> QED
    BY <2>1, SendOrder
<1> QED
  BY <1>1, <1>2, StepCases, WriterTakesOrder, WriterWritesOrder, WriterStopsOrder,
     DaemonReadsOrder, DaemonClosesOrder, RestOrder

\* What is between the client and the daemon is always, in order and without a
\* gap, the commands after those that the daemon has read.
THEOREM OrderKept == Spec => []OrderInv
<1>1. Init => OrderInv
  BY InitOrder
<1>2. OrderInv /\ [Next]_vars => OrderInv'
  BY StepOrder
<1> QED
  BY <1>1, <1>2, PTL DEF Spec

-----------------------------------------------------------------------------
(* The refinement. The flag dead is set once and never cleared.            *)

MarkOK == dead \in BOOLEAN

LinkStep == [L!Next]_<<sent, got, ~dead>>

LEMMA MarkKept ==
  ASSUME MarkOK, [Next]_vars
  PROVE  MarkOK' /\ (dead => dead')
<1>1. CASE ClientSends \/ Quit
  BY <1>1 DEF ClientSends, Quit, Sends, MarkOK
<1>2. CASE Poll
  BY <1>2 DEF Poll, MarkOK
<1>3. CASE UNCHANGED dead
  BY <1>3 DEF MarkOK
<1>4. ClientSends \/ Quit \/ Poll \/ UNCHANGED dead
  BY DEF Next, Client, Leaves, Teardown, Writer, Reader, Daemon, vars, clientVars,
         Wake, Dropped, Disconnect, QuitSeesEnd, QuitExpires, JoinReader, JoinWriter,
         WriterTakes, WriterEnds, WriterWrites, WriterFails,
         ReaderReads, ReaderEnds, ReaderWakes, ReaderCloses,
         DaemonReads, DaemonSends, DaemonCloses
<1> QED
  BY <1>1, <1>2, <1>3, <1>4

\* A step that moves no command changes the link at most by taking it down.
LEMMA QuietStep ==
  ASSUME MarkOK, MarkOK', dead => dead', UNCHANGED <<sent, got>>
  PROVE  LinkStep
<1>1. CASE dead' = dead
  BY <1>1 DEF LinkStep
<1>2. CASE ~dead /\ dead'
  BY <1>2 DEF LinkStep, L!Next, L!GoDown, MarkOK
<1> QED
  BY <1>1, <1>2 DEF MarkOK

LEMMA SendStep ==
  ASSUME MarkOK, MarkOK', dead => dead', NEW c \in Command, Sends(c), got' = got
  PROVE  LinkStep
<1>1. CASE sent' = sent
  BY <1>1, QuietStep
<1>2. CASE ~dead /\ dead' = dead /\ sent' = Append(sent, c)
  <2>1. L!Take(c)
    BY <1>2 DEF L!Take
  <2> QED
    BY <2>1 DEF LinkStep, L!Next
<1> QED
  BY <1>1, <1>2 DEF Sends

LEMMA ReadStep ==
  ASSUME OrderInv, DaemonReads
  PROVE  LinkStep
<1>1. Len(got) < Len(sent) /\ Head(out) = sent[Len(got) + 1]
  BY NextInOrder
<1>2. got' = Append(got, Head(out)) /\ sent' = sent /\ dead' = dead
  BY DEF DaemonReads, clientVars, queueVars
<1>3. L!Deliver
  BY <1>1, <1>2 DEF L!Deliver
<1> QED
  BY <1>3 DEF LinkStep, L!Next

LEMMA StepIsLinkStep ==
  ASSUME OrderInv, MarkOK, [Next]_vars
  PROVE  LinkStep
<1>1. MarkOK' /\ (dead => dead')
  BY MarkKept
<1>2. CASE ClientSends
  <2>1. Len(sent) + 1 \in Command /\ Sends(Len(sent) + 1) /\ got' = got
    BY <1>2, CommandsAreCommands DEF OrderInv, ClientSends, daemonVars
  <2> QED
    BY <1>1, <2>1, SendStep
<1>3. CASE Quit
  <2>1. Shutdown \in Command /\ Sends(Shutdown) /\ got' = got
    BY <1>3, CommandsAreCommands DEF OrderInv, Quit, daemonVars
  <2> QED
    BY <1>1, <2>1, SendStep
<1>4. CASE WriterTakes \/ WriterWrites \/ WriterFails \/ WriterEnds \/ DaemonCloses
  <2>1. UNCHANGED <<sent, got>>
    BY <1>4 DEF WriterTakes, WriterWrites, WriterFails, WriterEnds, DaemonCloses,
                queueVars, daemonVars
  <2> QED
    BY <1>1, <2>1, QuietStep
<1>5. CASE DaemonReads
  BY <1>5, ReadStep
<1>6. CASE Rest \/ UNCHANGED vars
  BY <1>1, <1>6, RestOrder, QuietStep
<1> QED
  BY <1>2, <1>3, <1>4, <1>5, <1>6, StepCases

\* Every behaviour of the socket is one of Link's: commands reach the daemon in the
\* order in which they were sent, without gaps or repetitions, and none is taken
\* once the transport is dead.
THEOREM SocketImplementsLink == Spec => InOrder
<1>1. Init => L!Init /\ MarkOK
  BY DEF Init, L!Init, MarkOK
<1>2. MarkOK /\ [Next]_vars => MarkOK'
  BY MarkKept
<1>3. OrderInv /\ MarkOK /\ [Next]_vars => LinkStep
  BY StepIsLinkStep
<1> QED
  BY <1>1, <1>2, <1>3, OrderKept, PTL DEF Spec, InOrder, L!Spec, LinkStep

-----------------------------------------------------------------------------
(* Why a quit is over.                                                     *)

Delivered == \E i \in DOMAIN got : got[i] = Shutdown

\* Who takes the socket down, who closes the daemon's end, and what ends the reader
\* thread that a quit waits for.
EndInv ==
  /\ dead \in BOOLEAN /\ down \in BOOLEAN /\ expired \in BOOLEAN /\ broken \in BOOLEAN
  /\ down => dead \/ expired \/ broken \/ intent = "disconnect"
  /\ peer = "stopping" => Delivered
  /\ peer = "closed" => broken \/ Delivered \/ down
  /\ reader \in {"last token", "closing", "ended"} => down \/ peer = "closed" \/ pc = "dropped"
  /\ pc \in {"join writer", "gone"} => reader = "ended"
  /\ intent # "stay" => pc \notin {"poll", "wait", "dropped"}

\* What the daemon has read it has read for good.
LEMMA DeliveredStays ==
  ASSUME SeqsOK, DaemonReads
  PROVE  (Delivered => Delivered') /\ (Head(out) = Shutdown => Delivered')
<1>1. got \in Seq(Command) /\ got' = Append(got, Head(out)) /\ Len(got) \in Nat
  BY LenProperties DEF SeqsOK, DaemonReads
<1>2. out # <<>> /\ out \in Seq(Command) /\ Head(out) \in Command
  BY HeadTailProperties DEF DaemonReads, SeqsOK
<1>3. /\ DOMAIN got = 1 .. Len(got) /\ DOMAIN got' = 1 .. Len(got) + 1
      /\ got'[Len(got) + 1] = Head(out) /\ \A i \in 1 .. Len(got) : got'[i] = got[i]
  BY <1>1, <1>2, AppendProperties, LenProperties
<1> QED
  BY <1>1, <1>3 DEF Delivered

LEMMA EndInit == Init => EndInv
BY DEF Init, EndInv

LEMMA EndStep ==
  ASSUME OrderInv, EndInv, [Next]_vars
  PROVE  EndInv'
<1> USE DEF clientVars, queueVars, writerVars, readerVars, daemonVars, histVars
<1>1. CASE ClientSends
  <2>1. /\ UNCHANGED <<pc, intent, peer, got, reader, expired, broken>>
        /\ dead => dead'
        /\ down => down'
        /\ down' => down \/ dead'
        /\ dead' \in BOOLEAN /\ down' \in BOOLEAN
    BY <1>1 DEF ClientSends, Sends, EndInv
  <2> QED
    BY <2>1 DEF EndInv, Delivered
<1>2. CASE Quit
  <2>1. /\ UNCHANGED <<peer, got, reader, expired, broken>> /\ pc = "poll" /\ pc' = "quit"
        /\ intent' = "quit"
    BY <1>2 DEF Quit
  <2>2. /\ dead => dead'
        /\ down => down'
        /\ down' => down \/ dead'
        /\ dead' \in BOOLEAN /\ down' \in BOOLEAN
    BY <1>2 DEF Quit, Sends, EndInv
  <2> QED
    BY <2>1, <2>2 DEF EndInv, Delivered
<1>3. CASE Poll \/ Wake
  <2>1. /\ UNCHANGED <<intent, down, peer, got, reader, expired, broken>>
        /\ dead => dead'
        /\ pc \in {"poll", "wait"} /\ pc' \in {"poll", "wait"} /\ dead' \in BOOLEAN
    BY <1>3 DEF Poll, Wake, EndInv
  <2> QED
    BY <2>1 DEF EndInv, Delivered
<1>4. CASE Dropped
  <2>1. /\ UNCHANGED <<intent, dead, down, peer, got, reader, expired, broken>>
        /\ pc = "poll" /\ pc' = "dropped"
    BY <1>4 DEF Dropped
  <2> QED
    BY <2>1 DEF EndInv, Delivered
<1>11. CASE Disconnect
  <2>1. /\ UNCHANGED <<dead, peer, got, reader, expired, broken>>
        /\ pc' = "join reader" /\ intent' = "disconnect" /\ down' = TRUE
    BY <1>11 DEF Disconnect
  <2> QED
    BY <2>1 DEF EndInv, Delivered
<1>5. CASE Teardown
  <2>1. /\ UNCHANGED <<intent, dead, peer, got, reader, broken>>
        /\ pc' \in {"join reader", "join writer", "gone"} /\ pc # "dropped"
        /\ pc' \in {"join writer", "gone"} => reader = "ended" \/ pc = "join writer"
        /\ UNCHANGED <<down, expired>> \/ (down' = TRUE /\ expired' = TRUE)
    BY <1>5 DEF Teardown, QuitSeesEnd, QuitExpires, JoinReader, JoinWriter
  <2>2. CASE UNCHANGED <<down, expired>>
    BY <2>1, <2>2 DEF EndInv, Delivered
  <2>3. CASE down' = TRUE /\ expired' = TRUE
    BY <2>1, <2>3 DEF EndInv, Delivered
  <2> QED
    BY <2>1, <2>2, <2>3
<1>6. CASE WriterTakes \/ WriterEnds \/ WriterWrites \/ DaemonSends \/ UNCHANGED vars
  <2>1. UNCHANGED <<pc, intent, dead, down, peer, got, reader, expired, broken>>
    BY <1>6 DEF WriterTakes, WriterEnds, WriterWrites, DaemonSends, vars
  <2> QED
    BY <2>1 DEF EndInv, Delivered
<1>7. CASE WriterFails
  <2>1. /\ UNCHANGED <<pc, intent, dead, peer, got, reader, expired>> /\ down'
        /\ broken' = (broken \/ ~down)
    BY <1>7 DEF WriterFails
  <2> QED
    BY <2>1 DEF EndInv, Delivered
<1>8. CASE Reader
  <2>1. /\ UNCHANGED <<pc, intent, dead, down, peer, got, expired, broken>>
        /\ reader # "ended"
        /\ reader' \in {"last token", "closing", "ended"}
             => \/ reader \in {"last token", "closing"}
                \/ down \/ peer = "closed" \/ pc = "dropped"
    BY <1>8 DEF Reader, ReaderReads, ReaderEnds, ReaderWakes, ReaderCloses
  <2> QED
    BY <2>1 DEF EndInv, Delivered
<1>9. CASE DaemonReads
  <2>1. /\ UNCHANGED <<pc, intent, dead, down, reader, expired, broken>> /\ peer = "up"
        /\ peer' = IF Head(out) = Shutdown THEN "stopping" ELSE "up"
    BY <1>9 DEF DaemonReads
  <2> QED
    BY <1>9, <2>1, DeliveredStays DEF OrderInv, EndInv
<1>10. CASE DaemonCloses
  <2>1. /\ UNCHANGED <<pc, intent, dead, down, reader, got, expired>> /\ peer' = "closed"
        /\ broken' = (broken \/ ~(peer = "stopping" \/ (down /\ out = <<>>)))
    BY <1>10 DEF DaemonCloses
  <2> QED
    BY <2>1 DEF EndInv, Delivered
<1> QED
  BY <1>1, <1>2, <1>3, <1>4, <1>5, <1>6, <1>7, <1>8, <1>9, <1>10, <1>11
     DEF Next, Client, Leaves, Writer, Daemon

(***************************************************************************)
(* A quit that has ended has stopped the daemon, unless the deadline       *)
(* passed, a write or the daemon failed, or the transport was dead         *)
(* (quit_within, and the threads it waits for).                            *)
(***************************************************************************)
THEOREM QuitStopsDaemon == Spec => []QuitStops
<1>1. OrderInv /\ EndInv /\ [Next]_vars => EndInv'
  BY EndStep
<1>2. EndInv => QuitStops
  BY DEF EndInv, QuitStops, Delivered
<1> QED
  BY <1>1, <1>2, EndInit, OrderKept, PTL DEF Spec

(***************************************************************************)
(* No wake-up is lost: an event decoded while the client waits has left a  *)
(* token, or its reader thread is about to (the order of poll and wait).   *)
(***************************************************************************)
THEOREM NoEventSleeps == Spec => []EventsWake
<1>1. Init => EventsWake
  BY DEF Init, EventsWake
<1>2. EventsWake /\ [Next]_vars => EventsWake'
  <2> SUFFICES ASSUME EventsWake, [Next]_vars PROVE EventsWake'
    OBVIOUS
  <2> USE DEF clientVars, queueVars, writerVars, readerVars, daemonVars, histVars, EventsWake
  <2>1. CASE ClientSends \/ Poll \/ Wake \/ Dropped \/ Disconnect \/ Quit
    BY <2>1 DEF ClientSends, Poll, Wake, Dropped, Disconnect, Quit
  <2>2. CASE Teardown
    BY <2>2 DEF Teardown, QuitSeesEnd, QuitExpires, JoinReader, JoinWriter
  <2>3. CASE Writer
    BY <2>3 DEF Writer, WriterTakes, WriterEnds, WriterWrites, WriterFails
  <2>4. CASE Reader
    BY <2>4 DEF Reader, ReaderReads, ReaderEnds, ReaderWakes, ReaderCloses
  <2>5. CASE Daemon
    BY <2>5 DEF Daemon, DaemonReads, DaemonSends, DaemonCloses
  <2>6. CASE UNCHANGED vars
    BY <2>6 DEF vars
  <2> QED
    BY <2>1, <2>2, <2>3, <2>4, <2>5, <2>6 DEF Next, Client, Leaves
<1> QED
  BY <1>1, <1>2, PTL DEF Spec

-----------------------------------------------------------------------------
(* Types, and with them the bounds of the queue and of the socket.         *)

\* The parts of TypeOK that are about the client, the threads and the frames; EndInv has
\* the flags.
ClientTypes ==
  /\ pc \in {"poll", "wait", "quit", "join reader", "join writer", "gone", "dropped"}
  /\ intent \in {"stay", "quit", "disconnect"} /\ token \in BOOLEAN /\ sender \in BOOLEAN

ThreadTypes ==
  /\ writer \in {"recv", "write", "ended"}
  /\ reader \in {"read", "token", "last token", "closing", "ended"}
  /\ peer \in {"up", "stopping", "closed"}

EventTypes == events \in Nat /\ inn \in Nat

Frames ==
  /\ queue \in Seq(Command) /\ Len(queue) <= SendQueue
  /\ out \in Seq(Command) /\ Len(out) <= Pipe
  /\ hand \in Command \cup {None} /\ (writer = "write" => hand \in Command)

LEMMA ClientTypesStep ==
  ASSUME ClientTypes, [Next]_vars
  PROVE  ClientTypes'
<1> USE DEF clientVars, queueVars, ClientTypes
<1>1. CASE ClientSends \/ Poll \/ Wake \/ Dropped \/ Leaves
  BY <1>1 DEF ClientSends, Poll, Wake, Dropped, Leaves, Disconnect, Quit
<1>2. CASE Teardown
  BY <1>2 DEF Teardown, QuitSeesEnd, QuitExpires, JoinReader, JoinWriter
<1>3. CASE Writer
  BY <1>3 DEF Writer, WriterTakes, WriterEnds, WriterWrites, WriterFails
<1>4. CASE Reader
  BY <1>4 DEF Reader, ReaderReads, ReaderEnds, ReaderWakes, ReaderCloses
<1>5. CASE Daemon
  BY <1>5 DEF Daemon, DaemonReads, DaemonSends, DaemonCloses
<1>6. CASE UNCHANGED vars
  BY <1>6 DEF vars
<1> QED
  BY <1>1, <1>2, <1>3, <1>4, <1>5, <1>6 DEF Next, Client

LEMMA ThreadTypesStep ==
  ASSUME ThreadTypes, [Next]_vars
  PROVE  ThreadTypes'
<1> USE DEF writerVars, readerVars, daemonVars, ThreadTypes
<1>1. CASE ClientSends \/ Poll \/ Wake \/ Dropped \/ Leaves
  BY <1>1 DEF ClientSends, Poll, Wake, Dropped, Leaves, Disconnect, Quit
<1>2. CASE Teardown
  BY <1>2 DEF Teardown, QuitSeesEnd, QuitExpires, JoinReader, JoinWriter
<1>3. CASE Writer
  BY <1>3 DEF Writer, WriterTakes, WriterEnds, WriterWrites, WriterFails
<1>4. CASE Reader
  BY <1>4 DEF Reader, ReaderReads, ReaderEnds, ReaderWakes, ReaderCloses
<1>5. CASE Daemon
  BY <1>5 DEF Daemon, DaemonReads, DaemonSends, DaemonCloses
<1>6. CASE UNCHANGED vars
  BY <1>6 DEF vars
<1> QED
  BY <1>1, <1>2, <1>3, <1>4, <1>5, <1>6 DEF Next, Client

LEMMA EventTypesStep ==
  ASSUME EventTypes, [Next]_vars
  PROVE  EventTypes'
<1> USE DEF readerVars
<1>1. events \in Nat /\ inn \in Nat
  BY DEF EventTypes
<1>2. CASE Client
  <2>1. inn' = inn /\ (events' = events \/ events' = 0)
    BY <1>2 DEF Client, ClientSends, Poll, Wake, Dropped, Leaves, Disconnect, Quit,
                Teardown, QuitSeesEnd, QuitExpires, JoinReader, JoinWriter
  <2> QED
    BY <1>1, <2>1 DEF EventTypes
<1>3. CASE Writer
  <2>1. UNCHANGED <<events, inn>>
    BY <1>3 DEF Writer, WriterTakes, WriterEnds, WriterWrites, WriterFails
  <2> QED
    BY <1>1, <2>1 DEF EventTypes
<1>4. CASE Reader
  <2>1. /\ events' = events \/ events' = events + 1
        /\ inn' = inn \/ (inn > 0 /\ inn' = inn - 1)
    BY <1>4 DEF Reader, ReaderReads, ReaderEnds, ReaderWakes, ReaderCloses
  <2> QED
    BY <1>1, <2>1 DEF EventTypes
<1>5. CASE Daemon
  <2>1. events' = events /\ (inn' = inn \/ inn' = inn + 1)
    BY <1>5 DEF Daemon, DaemonReads, DaemonSends, DaemonCloses
  <2> QED
    BY <1>1, <2>1 DEF EventTypes
<1>6. CASE UNCHANGED vars
  BY <1>1, <1>6 DEF vars, EventTypes
<1> QED
  BY <1>2, <1>3, <1>4, <1>5, <1>6 DEF Next

LEMMA FramesStep ==
  ASSUME SeqsOK, Frames, [Next]_vars
  PROVE  Frames'
<1>a. /\ Len(queue) \in Nat /\ Len(out) \in Nat /\ SendQueue \in Nat /\ Pipe \in Nat
      /\ <<>> \in Seq(Command) /\ Len(<<>>) = 0
  BY Lengths, TransportAssumption, EmptySeq
<1> USE DEF clientVars, queueVars, writerVars, readerVars, daemonVars, histVars
<1>1. CASE ClientSends \/ Quit
  <2>1. PICK c \in Command : Sends(c)
    BY <1>1, CommandsAreCommands DEF ClientSends, Quit
  <2>2. queue' \in Seq(Command) /\ Len(queue') <= SendQueue
    <3>1. CASE queue' = queue
      BY <3>1 DEF Frames
    <3>2. CASE queue' = Append(queue, c) /\ Len(queue) < SendQueue
      BY <3>2, <1>a, AppendProperties DEF SeqsOK
    <3> QED
      BY <2>1, <3>1, <3>2 DEF Sends
  <2>3. UNCHANGED <<writer, hand, out>>
    BY <1>1 DEF ClientSends, Quit
  <2> QED
    BY <2>2, <2>3 DEF Frames
<1>2. CASE WriterTakes
  <2>1. /\ Head(queue) \in Command /\ Tail(queue) \in Seq(Command)
        /\ Len(Tail(queue)) = Len(queue) - 1
    BY <1>2, HeadTailProperties DEF WriterTakes, SeqsOK
  <2> QED
    BY <1>2, <1>a, <2>1 DEF WriterTakes, Frames
<1>3. CASE WriterWrites
  <2>1. hand \in Command /\ out' = Append(out, hand) /\ Len(out) < Pipe
    BY <1>3 DEF WriterWrites, Frames
  <2>2. out' \in Seq(Command) /\ Len(out') <= Pipe
    BY <1>a, <2>1, AppendProperties DEF SeqsOK
  <2>3. writer' = "recv" /\ hand' = None /\ queue' = queue
    BY <1>3 DEF WriterWrites
  <2> QED
    BY <2>2, <2>3 DEF Frames
<1>4. CASE WriterFails \/ WriterEnds
  <2>1. writer' = "ended" /\ out' = out /\ hand' \in {hand, None}
    BY <1>4 DEF WriterFails, WriterEnds
  <2>2. queue' \in Seq(Command) /\ Len(queue') <= SendQueue
    <3>1. CASE WriterFails
      BY <1>a, <3>1 DEF WriterFails
    <3>2. CASE WriterEnds
      BY <3>2 DEF WriterEnds, Frames
    <3> QED
      BY <1>4, <3>1, <3>2
  <2> QED
    BY <2>1, <2>2 DEF Frames
<1>5. CASE DaemonReads
  <2>1. Tail(out) \in Seq(Command) /\ Len(Tail(out)) = Len(out) - 1
    BY <1>5, HeadTailProperties DEF DaemonReads, SeqsOK
  <2> QED
    BY <1>5, <1>a, <2>1 DEF DaemonReads, Frames
<1>6. CASE DaemonCloses
  BY <1>6, <1>a DEF DaemonCloses, Frames
<1>7. CASE Rest \/ UNCHANGED vars
  <2>1. UNCHANGED <<queue, out, writer, hand>>
    BY <1>7 DEF Rest, vars, Poll, Wake, Dropped, Disconnect, QuitSeesEnd, QuitExpires, JoinReader,
                JoinWriter, Reader, ReaderReads, ReaderEnds, ReaderWakes, ReaderCloses, DaemonSends
  <2> QED
    BY <2>1 DEF Frames
<1> QED
  BY <1>1, <1>2, <1>3, <1>4, <1>5, <1>6, <1>7, StepCases

(***************************************************************************)
(* Type correctness, and with it the bounds of the two buffers: the queue  *)
(* of the transport never holds more than SEND_QUEUE frames, and the       *)
(* writer's hand is a frame whenever it writes.                            *)
(***************************************************************************)
THEOREM TransportTypes == Spec => []TypeOK
<1>1. Init => ClientTypes /\ ThreadTypes /\ EventTypes /\ Frames
  <2>1. Init => ClientTypes
    BY DEF Init, ClientTypes
  <2>3. Init => ThreadTypes
    BY DEF Init, ThreadTypes
  <2>4. Init => EventTypes
    BY DEF Init, EventTypes
  <2>2. Init => Frames
    BY EmptySeq, TransportAssumption DEF Init, Frames
  <2> QED
    BY <2>1, <2>2, <2>3, <2>4
<1>2. OrderInv /\ ClientTypes /\ ThreadTypes /\ EventTypes /\ Frames /\ [Next]_vars
        => (ClientTypes /\ ThreadTypes /\ EventTypes /\ Frames)'
  BY ClientTypesStep, ThreadTypesStep, EventTypesStep, FramesStep DEF OrderInv
<1>3. OrderInv /\ EndInv /\ [Next]_vars => EndInv'
  BY EndStep
<1>4. OrderInv /\ EndInv /\ ClientTypes /\ ThreadTypes /\ EventTypes /\ Frames => TypeOK
  <2> SUFFICES ASSUME OrderInv, EndInv, ClientTypes, ThreadTypes, EventTypes, Frames PROVE TypeOK
    OBVIOUS
  <2>1. /\ dead \in BOOLEAN /\ down \in BOOLEAN /\ expired \in BOOLEAN /\ broken \in BOOLEAN
        /\ sent \in Seq(Command) /\ got \in Seq(Command)
    BY DEF OrderInv, SeqsOK, EndInv
  <2> QED
    BY <2>1, Zenon DEF ClientTypes, ThreadTypes, EventTypes, Frames, TypeOK
<1> QED
  BY <1>1, <1>2, <1>3, <1>4, EndInit, OrderKept, PTL DEF Spec

-----------------------------------------------------------------------------
(* What reads a message undoes what wrote it: the values, and each command. *)

\* The parts of a JSON value.
LEMMA Parts ==
  /\ \A s : Str(s).str = {s} /\ Str(s).num = {} /\ Str(s).flag = {} /\ Str(s).list = {} /\ ~IsNull(Str(s))
  /\ \A n : Num(n).str = {} /\ Num(n).num = {n} /\ Num(n).flag = {} /\ Num(n).list = {} /\ ~IsNull(Num(n))
  /\ \A b : Flag(b).str = {} /\ Flag(b).num = {} /\ Flag(b).flag = {b} /\ Flag(b).list = {} /\ ~IsNull(Flag(b))
  /\ \A l : List(l).str = {} /\ List(l).num = {} /\ List(l).flag = {} /\ List(l).list = {l} /\ ~IsNull(List(l))
  /\ Null.str = {} /\ Null.num = {} /\ Null.flag = {} /\ Null.list = {} /\ IsNull(Null)
BY DEF Str, Num, Flag, List, Null, Json, IsNull

\* Base64 text reads back as the bytes, an in-range number as itself.
LEMMA B64Read == ASSUME NEW x \in Octets PROVE FromB64(B64(x)) = {x}
BY Parts, WireAssumption DEF FromB64, B64

LEMMA NumRead == ASSUME NEW max \in Nat, NEW n \in 0 .. max PROVE NumOf(Num(n), max) = {n}
BY Parts DEF NumOf, NumFrom

LEMMA One == \A x : {{s} : s \in {x}} = {{x}}
OBVIOUS

\* The key of an optional field holds a value of it, or is missing.
LEMMA InsertGet ==
  ASSUME NEW fields, NEW k \in DOMAIN fields
  PROVE  IF fields[k] = {} THEN Get(InsertOpt(fields), k) = Null ELSE Get(InsertOpt(fields), k) \in fields[k]
BY DEF InsertOpt, Get

LEMMA JoinedGet ==
  ASSUME NEW o, NEW p
  PROVE  \A k : Get(Joined(o, p), k) = IF k \in DOMAIN o THEN o[k] ELSE Get(p, k)
BY DEF Joined, Get

\* An optional text, and an optional number, read back set or cleared as they were.
LEMMA OptRead ==
  ASSUME NEW S, NEW T \in Maybe(S), NEW v, IF T = {} THEN v = Null ELSE v \in Texts(T)
  PROVE OptStr(v) = {T}
<1>1. CASE T = {}
  BY <1>1, Parts DEF OptStr
<1>2. CASE T # {}
  <2>1. PICK x : T = {x}
    BY <1>2 DEF Maybe
  <2>2. v = Str(x)
    BY <2>1 DEF Texts
  <2> QED
    BY <2>1, <2>2, Parts, One DEF OptStr
<1> QED
  BY <1>1, <1>2

LEMMA MarkRead ==
  ASSUME NEW S, NEW T \in Maybe(S)
  PROVE OptNum(Json({}, T, {}, {})) = {T}
<1>1. CASE T = {}
  BY <1>1, Parts DEF OptNum, Null
<1>2. CASE T # {}
  <2>1. PICK x : T = {x}
    BY <1>2 DEF Maybe
  <2>2. Json({}, T, {}, {}) = Num(x)
    BY <2>1 DEF Num
  <2> QED
    BY <2>1, <2>2, Parts, One DEF OptNum
<1> QED
  BY <1>1, <1>2

\* The object of a command: its discriminant, its ID and its fields.
LEMMA CommandGet ==
  ASSUME NEW c
  PROVE  /\ Get(EncodeCommand(c), "t") = Str(c.t)
         /\ "id" \in DOMAIN c => Get(EncodeCommand(c), "id") = Num(c.id)
         /\ "id" \notin DOMAIN c => Get(EncodeCommand(c), "id") = Get(EncodeFields(c), "id")
         /\ \A k : k \notin {"t", "id"} => Get(EncodeCommand(c), k) = Get(EncodeFields(c), k)
BY DEF EncodeCommand, Joined, Get

\* The discriminant picks the decoder.
LEMMA KindRead ==
  ASSUME NEW o, NEW t, Get(o, "t") = Str(t)
  PROVE DecodeCommand(o) = DecodeAs(t, o)
BY Parts DEF DecodeCommand

\* One lemma per command: it is read as it was sent.
LEMMA SpawnRead ==
  ASSUME NEW c \in [t : {"spawn"}, command : Strings, cwd : Octets, group : Maybe(Strings)]
  PROVE DecodeCommand(EncodeCommand(c)) = {c}
<1> DEFINE f == Joined([command |-> Str(c.command), cwd |-> B64(c.cwd)], InsertOpt([group |-> Texts(c.group)]))
<1>1. EncodeFields(c) = f
  BY c.t = "spawn", Zenon DEF EncodeFields
<1>2. PICK o : o = EncodeCommand(c)
  OBVIOUS
<1>3. /\ Get(f, "command") = Str(c.command) /\ Get(f, "cwd") = B64(c.cwd)
      /\ IF c.group = {} THEN Get(f, "group") = Null ELSE Get(f, "group") \in Texts(c.group)
  <2> DEFINE p == [command |-> Str(c.command), cwd |-> B64(c.cwd)]
             q == [group |-> Texts(c.group)]
  <2>1. DOMAIN p = {"command", "cwd"} /\ p["command"] = Str(c.command) /\ p["cwd"] = B64(c.cwd)
    OBVIOUS
  <2>2. "group" \in DOMAIN q /\ q["group"] = Texts(c.group) /\ (c.group = {} <=> Texts(c.group) = {})
    BY DEF Texts
  <2>3. f = Joined(p, InsertOpt(q))
    OBVIOUS
  <2> HIDE DEF f, p, q
  <2> QED
    BY <2>1, <2>2, <2>3, InsertGet, JoinedGet
<1> HIDE DEF f
<1>4. /\ Get(o, "t") = Str("spawn") /\ Get(o, "command") = Str(c.command) /\ Get(o, "cwd") = B64(c.cwd)
      /\ IF c.group = {} THEN Get(o, "group") = Null ELSE Get(o, "group") \in Texts(c.group)
  BY <1>1, <1>2, <1>3, CommandGet
<1>5. Get(o, "command").str = {c.command} /\ FromB64(Get(o, "cwd")) = {c.cwd} /\ OptStr(Get(o, "group")) = {c.group}
  BY <1>4, Parts, B64Read, OptRead
<1>6. DecodeAs("spawn", o) = [t : {"spawn"}, command : {c.command}, cwd : {c.cwd}, group : {c.group}]
  BY <1>5, Zenon DEF DecodeAs
<1>7. [t : {"spawn"}, command : {c.command}, cwd : {c.cwd}, group : {c.group}] = {c}
  <2>1. c = [t |-> "spawn", command |-> c.command, cwd |-> c.cwd, group |-> c.group]
    OBVIOUS
  <2>2. ASSUME NEW d \in [t : {"spawn"}, command : {c.command}, cwd : {c.cwd}, group : {c.group}]
        PROVE  d = c
    BY <2>1
  <2>3. c \in [t : {"spawn"}, command : {c.command}, cwd : {c.cwd}, group : {c.group}]
    BY <2>1
  <2> QED
    BY <2>2, <2>3
<1> QED
  BY <1>2, <1>4, <1>6, <1>7, KindRead

\* The widths, and the IDs, are naturals.
LEMMA Widths == U8 \in Nat /\ U16 \in Nat /\ U32 \in Nat /\ U64 \in Nat /\ Ids \subseteq Nat
BY WireAssumption

\* The tags of a table tell its names apart, and those of the tables that share a key.
LEMMA TagsApart ==
  /\ \A x, y \in DOMAIN UnitKeyTag : UnitKeyTag[x] = UnitKeyTag[y] => x = y
  /\ \A x, y \in DOMAIN WheelTag : WheelTag[x] = WheelTag[y] => x = y
  /\ \A x, y \in DOMAIN PressTag : PressTag[x] = PressTag[y] => x = y
  /\ \A x, y \in DOMAIN ByTag : ByTag[x] = ByTag[y] => x = y
  /\ \A x, y \in DOMAIN ToTag : ToTag[x] = ToTag[y] => x = y
  /\ \A x, y \in DOMAIN ModKey : ModKey[x] = ModKey[y] => x = y
  /\ \A x \in DOMAIN WheelTag, y \in DOMAIN PressTag : WheelTag[x] # PressTag[y]
  /\ \A x \in DOMAIN ByTag, y \in DOMAIN ToTag : ByTag[x] # ToTag[y]
  /\ \A x \in DOMAIN UnitKeyTag : UnitKeyTag[x] # "ch" /\ UnitKeyTag[x] # "f"
BY DEF UnitKeyTag, WheelTag, PressTag, ByTag, ToTag, ModKey

\* A tag is read as its name in its own table, and as none in another.
LEMMA TagRead ==
  ASSUME NEW table, \A x, y \in DOMAIN table : table[x] = table[y] => x = y, NEW x \in DOMAIN table
  PROVE  Tagged(table, Str(table[x])) = {x}
BY Parts DEF Tagged

LEMMA OtherTag ==
  ASSUME NEW table, NEW s, \A x \in DOMAIN table : table[x] # s
  PROVE  Tagged(table, Str(s)) = {}
BY Parts DEF Tagged

\* The commands whose fields are always there.
LEMMA IdRead ==
  ASSUME NEW c \in [t : {"kill", "remove", "restart"}, id : Ids]
  PROVE  DecodeCommand(EncodeCommand(c)) = {c}
<1>1. PICK o : o = EncodeCommand(c)
  OBVIOUS
<1>2. Get(o, "t") = Str(c.t) /\ Get(o, "id") = Num(c.id)
  BY <1>1, CommandGet
<1>3. Get(o, "id").num = {c.id}
  BY <1>2, Parts
<1>4. DecodeAs(c.t, o) = [t : {c.t}, id : {c.id}]
  BY c.t \in {"kill", "remove", "restart"}, <1>3, Zenon DEF DecodeAs
<1>5. [t : {c.t}, id : {c.id}] = {c}
  <2>1. c = [t |-> c.t, id |-> c.id]
    OBVIOUS
  <2>2. ASSUME NEW d \in [t : {c.t}, id : {c.id}] PROVE d = c
    BY <2>1
  <2>3. c \in [t : {c.t}, id : {c.id}]
    BY <2>1
  <2> QED
    BY <2>2, <2>3
<1> QED
  BY <1>1, <1>2, <1>4, <1>5, KindRead

LEMMA TagCommandRead ==
  ASSUME NEW c \in [t : {"tag"}, id : Ids, on : BOOLEAN]
  PROVE  DecodeCommand(EncodeCommand(c)) = {c}
<1>1. PICK o : o = EncodeCommand(c)
  OBVIOUS
<1>2. Get(o, "t") = Str("tag") /\ Get(o, "id") = Num(c.id) /\ Get(o, "on") = Flag(c.on)
  <2>1. EncodeFields(c) = [on |-> Flag(c.on)]
    BY c.t = "tag", Zenon DEF EncodeFields
  <2> QED
    BY <1>1, <2>1, CommandGet DEF Get
<1>3. Get(o, "id").num = {c.id} /\ Get(o, "on").flag = {c.on}
  BY <1>2, Parts
<1>4. DecodeAs("tag", o) = [t : {"tag"}, id : {c.id}, on : {c.on}]
  BY <1>3, Zenon DEF DecodeAs
<1>5. [t : {"tag"}, id : {c.id}, on : {c.on}] = {c}
  <2>1. c = [t |-> "tag", id |-> c.id, on |-> c.on]
    OBVIOUS
  <2>2. ASSUME NEW d \in [t : {"tag"}, id : {c.id}, on : {c.on}] PROVE d = c
    BY <2>1
  <2>3. c \in [t : {"tag"}, id : {c.id}, on : {c.on}]
    BY <2>1
  <2> QED
    BY <2>2, <2>3
<1> QED
  BY <1>1, <1>2, <1>4, <1>5, KindRead

LEMMA FlagshipRead ==
  ASSUME NEW c \in [t : {"flagship"}, mark : Maybe(Ids)]
  PROVE  DecodeCommand(EncodeCommand(c)) = {c}
<1>1. PICK o : o = EncodeCommand(c)
  OBVIOUS
<1>2. Get(o, "t") = Str("flagship") /\ Get(o, "id") = Json({}, c.mark, {}, {})
  <2>1. EncodeFields(c) = [id |-> Json({}, c.mark, {}, {})]
    BY c.t = "flagship", Zenon DEF EncodeFields
  <2> QED
    BY <1>1, <2>1, CommandGet DEF Get
<1>3. OptNum(Get(o, "id")) = {c.mark}
  BY <1>2, MarkRead
<1>4. DecodeAs("flagship", o) = [t : {"flagship"}, mark : {c.mark}]
  BY <1>3, Zenon DEF DecodeAs
<1>5. [t : {"flagship"}, mark : {c.mark}] = {c}
  <2>1. c = [t |-> "flagship", mark |-> c.mark]
    OBVIOUS
  <2>2. ASSUME NEW d \in [t : {"flagship"}, mark : {c.mark}] PROVE d = c
    BY <2>1
  <2>3. c \in [t : {"flagship"}, mark : {c.mark}]
    BY <2>1
  <2> QED
    BY <2>2, <2>3
<1> QED
  BY <1>1, <1>2, <1>4, <1>5, KindRead

LEMMA WatchRead ==
  ASSUME NEW c \in [t : {"watch"}, mark : Maybe(Ids), attached : BOOLEAN]
  PROVE  DecodeCommand(EncodeCommand(c)) = {c}
<1>1. PICK o : o = EncodeCommand(c)
  OBVIOUS
<1>2. Get(o, "t") = Str("watch") /\ Get(o, "id") = Json({}, c.mark, {}, {}) /\ Get(o, "attached") = Flag(c.attached)
  <2>1. EncodeFields(c) = [id |-> Json({}, c.mark, {}, {}), attached |-> Flag(c.attached)]
    BY c.t = "watch", Zenon DEF EncodeFields
  <2> QED
    BY <1>1, <2>1, CommandGet DEF Get
<1>3. OptNum(Get(o, "id")) = {c.mark} /\ Get(o, "attached").flag = {c.attached}
  BY <1>2, Parts, MarkRead
<1>4. DecodeAs("watch", o) = [t : {"watch"}, mark : {c.mark}, attached : {c.attached}]
  BY <1>3, Zenon DEF DecodeAs
<1>5. [t : {"watch"}, mark : {c.mark}, attached : {c.attached}] = {c}
  <2>1. c = [t |-> "watch", mark |-> c.mark, attached |-> c.attached]
    OBVIOUS
  <2>2. ASSUME NEW d \in [t : {"watch"}, mark : {c.mark}, attached : {c.attached}] PROVE d = c
    BY <2>1
  <2>3. c \in [t : {"watch"}, mark : {c.mark}, attached : {c.attached}]
    BY <2>1
  <2> QED
    BY <2>2, <2>3
<1> QED
  BY <1>1, <1>2, <1>4, <1>5, KindRead

LEMMA ResizeRead ==
  ASSUME NEW c \in [t : {"resize"}, rows : 0 .. U16, cols : 0 .. U16]
  PROVE  DecodeCommand(EncodeCommand(c)) = {c}
<1>1. PICK o : o = EncodeCommand(c)
  OBVIOUS
<1>2. Get(o, "t") = Str("resize") /\ Get(o, "rows") = Num(c.rows) /\ Get(o, "cols") = Num(c.cols)
  <2>1. EncodeFields(c) = [rows |-> Num(c.rows), cols |-> Num(c.cols)]
    BY c.t = "resize", Zenon DEF EncodeFields
  <2> QED
    BY <1>1, <2>1, CommandGet DEF Get
<1>3. NumOf(Get(o, "rows"), U16) = {c.rows} /\ NumOf(Get(o, "cols"), U16) = {c.cols}
  BY <1>2, NumRead, Widths
<1>4. DecodeAs("resize", o) = [t : {"resize"}, rows : {c.rows}, cols : {c.cols}]
  BY <1>3, Zenon DEF DecodeAs
<1>5. [t : {"resize"}, rows : {c.rows}, cols : {c.cols}] = {c}
  <2>1. c = [t |-> "resize", rows |-> c.rows, cols |-> c.cols]
    OBVIOUS
  <2>2. ASSUME NEW d \in [t : {"resize"}, rows : {c.rows}, cols : {c.cols}] PROVE d = c
    BY <2>1
  <2>3. c \in [t : {"resize"}, rows : {c.rows}, cols : {c.cols}]
    BY <2>1
  <2> QED
    BY <2>2, <2>3
<1> QED
  BY <1>1, <1>2, <1>4, <1>5, KindRead

LEMMA PasteRead ==
  ASSUME NEW c \in [t : {"paste"}, id : Ids, bytes : Octets]
  PROVE  DecodeCommand(EncodeCommand(c)) = {c}
<1>1. PICK o : o = EncodeCommand(c)
  OBVIOUS
<1>2. Get(o, "t") = Str("paste") /\ Get(o, "id") = Num(c.id) /\ Get(o, "bytes") = B64(c.bytes)
  <2>1. EncodeFields(c) = [bytes |-> B64(c.bytes)]
    BY c.t = "paste", Zenon DEF EncodeFields
  <2> QED
    BY <1>1, <2>1, CommandGet DEF Get
<1>3. Get(o, "id").num = {c.id} /\ FromB64(Get(o, "bytes")) = {c.bytes}
  BY <1>2, Parts, B64Read
<1>4. DecodeAs("paste", o) = [t : {"paste"}, id : {c.id}, bytes : {c.bytes}]
  BY <1>3, Zenon DEF DecodeAs
<1>5. [t : {"paste"}, id : {c.id}, bytes : {c.bytes}] = {c}
  <2>1. c = [t |-> "paste", id |-> c.id, bytes |-> c.bytes]
    OBVIOUS
  <2>2. ASSUME NEW d \in [t : {"paste"}, id : {c.id}, bytes : {c.bytes}] PROVE d = c
    BY <2>1
  <2>3. c \in [t : {"paste"}, id : {c.id}, bytes : {c.bytes}]
    BY <2>1
  <2> QED
    BY <2>2, <2>3
<1> QED
  BY <1>1, <1>2, <1>4, <1>5, KindRead

LEMMA NamedRead ==
  ASSUME NEW c \in [t : {"save", "load"}, name : Strings]
  PROVE  DecodeCommand(EncodeCommand(c)) = {c}
<1>1. PICK o : o = EncodeCommand(c)
  OBVIOUS
<1>2. Get(o, "t") = Str(c.t) /\ Get(o, "name") = Str(c.name)
  <2>1. EncodeFields(c) = [name |-> Str(c.name)]
    BY c.t \in {"save", "load"}, Zenon DEF EncodeFields
  <2> QED
    BY <1>1, <2>1, CommandGet DEF Get
<1>3. Get(o, "name").str = {c.name}
  BY <1>2, Parts
<1>4. DecodeAs(c.t, o) = [t : {c.t}, name : {c.name}]
  BY c.t \in {"save", "load"}, <1>3, Zenon DEF DecodeAs
<1>5. [t : {c.t}, name : {c.name}] = {c}
  <2>1. c = [t |-> c.t, name |-> c.name]
    OBVIOUS
  <2>2. ASSUME NEW d \in [t : {c.t}, name : {c.name}] PROVE d = c
    BY <2>1
  <2>3. c \in [t : {c.t}, name : {c.name}]
    BY <2>1
  <2> QED
    BY <2>2, <2>3
<1> QED
  BY <1>1, <1>2, <1>4, <1>5, KindRead

LEMMA RecoverRead ==
  ASSUME NEW c \in [t : {"recover"}, stem : Strings]
  PROVE  DecodeCommand(EncodeCommand(c)) = {c}
<1>1. PICK o : o = EncodeCommand(c)
  OBVIOUS
<1>2. Get(o, "t") = Str("recover") /\ Get(o, "stem") = Str(c.stem)
  <2>1. EncodeFields(c) = [stem |-> Str(c.stem)]
    BY c.t = "recover", Zenon DEF EncodeFields
  <2> QED
    BY <1>1, <2>1, CommandGet DEF Get
<1>3. Get(o, "stem").str = {c.stem}
  BY <1>2, Parts
<1>4. DecodeAs("recover", o) = [t : {"recover"}, stem : {c.stem}]
  BY <1>3, Zenon DEF DecodeAs
<1>5. [t : {"recover"}, stem : {c.stem}] = {c}
  <2>1. c = [t |-> "recover", stem |-> c.stem]
    OBVIOUS
  <2>2. ASSUME NEW d \in [t : {"recover"}, stem : {c.stem}] PROVE d = c
    BY <2>1
  <2>3. c \in [t : {"recover"}, stem : {c.stem}]
    BY <2>1
  <2> QED
    BY <2>2, <2>3
<1> QED
  BY <1>1, <1>2, <1>4, <1>5, KindRead

LEMMA BareRead ==
  ASSUME NEW c \in [t : {"list", "shutdown"}]
  PROVE  DecodeCommand(EncodeCommand(c)) = {c}
<1>1. PICK o : o = EncodeCommand(c)
  OBVIOUS
<1>2. Get(o, "t") = Str(c.t)
  BY <1>1, CommandGet
<1>4. DecodeAs(c.t, o) = [t : {c.t}]
  BY c.t \in {"list", "shutdown"}, Zenon DEF DecodeAs
<1>5. [t : {c.t}] = {c}
  <2>1. c = [t |-> c.t]
    OBVIOUS
  <2>2. ASSUME NEW d \in [t : {c.t}] PROVE d = c
    BY <2>1
  <2>3. c \in [t : {c.t}]
    BY <2>1
  <2> QED
    BY <2>2, <2>3
<1> QED
  BY <1>1, <1>2, <1>4, <1>5, KindRead

\* A scroll action is read from its tag, and its number if it has one.
LEMMA ScrollRead ==
  ASSUME NEW a \in ScrollActions,
         NEW o, Get(o, "a") = Get(EncodeScroll(a), "a"), Get(o, "n") = Get(EncodeScroll(a), "n")
  PROVE  DecodeScroll(o) = {a}
<1>1. ASSUME NEW k \in DOMAIN ToTag, a = Unit(k) PROVE DecodeScroll(o) = {a}
  <2>1. EncodeScroll(a) = [a |-> Str(ToTag[k])]
    BY <1>1 DEF EncodeScroll, Unit
  <2>2. Get(o, "a") = Str(ToTag[k])
    BY <2>1 DEF Get
  <2>3. Tagged(ToTag, Get(o, "a")) = {k} /\ Tagged(ByTag, Get(o, "a")) = {}
    BY <2>2, TagsApart, TagRead, OtherTag
  <2> QED
    BY <1>1, <2>3 DEF DecodeScroll
<1>2. ASSUME NEW k \in DOMAIN ByTag, NEW n \in 0 .. U16, a = With(k, n) PROVE DecodeScroll(o) = {a}
  <2>1. EncodeScroll(a) = [a |-> Str(ByTag[k]), n |-> Num(n)]
    BY <1>2 DEF EncodeScroll, With, ToTag, ByTag
  <2>2. Get(o, "a") = Str(ByTag[k]) /\ Get(o, "n") = Num(n)
    BY <2>1 DEF Get
  <2>3. Tagged(ToTag, Get(o, "a")) = {} /\ Tagged(ByTag, Get(o, "a")) = {k}
    BY <2>2, TagsApart, TagRead, OtherTag
  <2>4. NumOf(Get(o, "n"), U16) = {n}
    BY <2>2, NumRead, Widths
  <2> QED
    BY <1>2, <2>3, <2>4 DEF DecodeScroll
<1> QED
  BY <1>1, <1>2 DEF ScrollActions

\* A mouse action likewise, with its button.
LEMMA MouseRead ==
  ASSUME NEW m \in MouseActions,
         NEW o, Get(o, "k") = Get(EncodeMouse(m), "k"), Get(o, "b") = Get(EncodeMouse(m), "b")
  PROVE  DecodeMouse(o) = {m}
<1>1. ASSUME NEW k \in DOMAIN WheelTag, m = Unit(k) PROVE DecodeMouse(o) = {m}
  <2>1. EncodeMouse(m) = [k |-> Str(WheelTag[k])]
    BY <1>1 DEF EncodeMouse, Unit
  <2>2. Get(o, "k") = Str(WheelTag[k])
    BY <2>1 DEF Get
  <2>3. Tagged(WheelTag, Get(o, "k")) = {k} /\ Tagged(PressTag, Get(o, "k")) = {}
    BY <2>2, TagsApart, TagRead, OtherTag
  <2> QED
    BY <1>1, <2>3 DEF DecodeMouse
<1>2. ASSUME NEW k \in DOMAIN PressTag, NEW b \in 0 .. 2, m = With(k, b) PROVE DecodeMouse(o) = {m}
  <2>1. EncodeMouse(m) = [k |-> Str(PressTag[k]), b |-> Num(b)]
    BY <1>2 DEF EncodeMouse, With, WheelTag, PressTag
  <2>2. Get(o, "k") = Str(PressTag[k]) /\ Get(o, "b") = Num(b)
    BY <2>1 DEF Get
  <2>3. Tagged(WheelTag, Get(o, "k")) = {} /\ Tagged(PressTag, Get(o, "k")) = {k}
    BY <2>2, TagsApart, TagRead, OtherTag
  <2>4. Get(o, "b").num \cap 0 .. 2 = {b}
    BY <2>2, Parts
  <2> QED
    BY <1>2, <2>3, <2>4 DEF DecodeMouse
<1> QED
  BY <1>1, <1>2 DEF MouseActions

\* And a key.
LEMMA CodeRead ==
  ASSUME NEW code \in KeyCodes,
         NEW mods, NEW o, \A k \in {"k", "n", "ch"} : Get(o, k) = Get(EncodeKey(code, mods), k)
  PROVE  DecodeKey(o) = {code}
<1>0. \A x \in DOMAIN UnitKeyTag : x # "Char" /\ x # "F"
  BY DEF UnitKeyTag
<1>1. ASSUME NEW c \in Chars, code = CharKey(c) PROVE DecodeKey(o) = {code}
  <2>1. code.kind = "Char" /\ code.char = c
    BY <1>1 DEF CharKey
  <2>2. EncodeKey(code, mods) = Joined([ch |-> Str(c), k |-> Str("ch")], InsertFlags(ModKey, mods))
    BY <2>1, Zenon DEF EncodeKey
  <2>3. Get(o, "k") = Str("ch") /\ Get(o, "ch") = Str(c)
    BY <2>2, JoinedGet
  <2>4. Tagged(UnitKeyTag, Get(o, "k")) = {}
    BY <2>3, TagsApart, OtherTag
  <2>5. "ch" \in Get(o, "k").str /\ "f" \notin Get(o, "k").str /\ Get(o, "ch").str \cap Chars = {c}
    BY <2>3, Parts
  <2> QED
    BY <1>1, <2>4, <2>5 DEF DecodeKey
<1>2. ASSUME NEW n \in 0 .. U8, code = With("F", n) PROVE DecodeKey(o) = {code}
  <2>1. code.kind = "F" /\ code.arg = n
    BY <1>2 DEF With
  <2>2. EncodeKey(code, mods) = Joined([n |-> Num(n), k |-> Str("f")], InsertFlags(ModKey, mods))
    BY <2>1, Zenon DEF EncodeKey
  <2>3. Get(o, "k") = Str("f") /\ Get(o, "n") = Num(n)
    BY <2>2, JoinedGet
  <2>4. Tagged(UnitKeyTag, Get(o, "k")) = {}
    BY <2>3, TagsApart, OtherTag
  <2>5. "f" \in Get(o, "k").str /\ "ch" \notin Get(o, "k").str /\ NumOf(Get(o, "n"), U8) = {n}
    BY <2>3, Parts, NumRead, Widths
  <2> QED
    BY <1>2, <2>4, <2>5 DEF DecodeKey
<1>3. ASSUME NEW k \in DOMAIN UnitKeyTag, code = Unit(k) PROVE DecodeKey(o) = {code}
  <2>1. code.kind = k /\ k # "Char" /\ k # "F"
    BY <1>0, <1>3 DEF Unit
  <2>2. EncodeKey(code, mods) = Joined([k |-> Str(UnitKeyTag[k])], InsertFlags(ModKey, mods))
    BY <2>1, Zenon DEF EncodeKey
  <2>3. Get(o, "k") = Str(UnitKeyTag[k])
    BY <2>2, JoinedGet
  <2>4. Tagged(UnitKeyTag, Get(o, "k")) = {k}
    BY <2>3, TagsApart, TagRead
  <2>5. "f" \notin Get(o, "k").str /\ "ch" \notin Get(o, "k").str
    BY <2>3, Parts, TagsApart
  <2> QED
    BY <1>3, <2>4, <2>5 DEF DecodeKey
<1> QED
  BY <1>1, <1>2, <1>3 DEF KeyCodes

\* The flags of the modifiers that are held, and no others.
LEMMA FlagsGet ==
  ASSUME NEW mods \in SUBSET DOMAIN ModKey, NEW m \in DOMAIN ModKey
  PROVE  Get(InsertFlags(ModKey, mods), ModKey[m]) = IF m \in mods THEN Flag(TRUE) ELSE Null
<1>1. ModKey[m] \in {ModKey[x] : x \in mods} <=> m \in mods
  BY TagsApart
<1> QED
  BY <1>1 DEF InsertFlags, Get

\* The object of a key is that of its code, whose keys are others, and the flags.
LEMMA KeyParts ==
  ASSUME NEW code, NEW mods
  PROVE  \E base : /\ DOMAIN base \subseteq {"k", "n", "ch"}
                   /\ EncodeKey(code, mods) = Joined(base, InsertFlags(ModKey, mods))
<1>1. CASE code.kind = "Char"
  <2>1. EncodeKey(code, mods) = Joined([ch |-> Str(code.char), k |-> Str("ch")], InsertFlags(ModKey, mods))
    BY <1>1, Zenon DEF EncodeKey
  <2>2. DOMAIN [ch |-> Str(code.char), k |-> Str("ch")] \subseteq {"k", "n", "ch"}
    OBVIOUS
  <2> QED
    BY <2>1, <2>2
<1>2. CASE code.kind = "F"
  <2>1. EncodeKey(code, mods) = Joined([n |-> Num(code.arg), k |-> Str("f")], InsertFlags(ModKey, mods))
    BY <1>2, Zenon DEF EncodeKey
  <2>2. DOMAIN [n |-> Num(code.arg), k |-> Str("f")] \subseteq {"k", "n", "ch"}
    OBVIOUS
  <2> QED
    BY <2>1, <2>2
<1>3. CASE code.kind # "Char" /\ code.kind # "F"
  <2>1. EncodeKey(code, mods) = Joined([k |-> Str(UnitKeyTag[code.kind])], InsertFlags(ModKey, mods))
    BY <1>3, Zenon DEF EncodeKey
  <2>2. DOMAIN [k |-> Str(UnitKeyTag[code.kind])] \subseteq {"k", "n", "ch"}
    OBVIOUS
  <2> QED
    BY <2>1, <2>2
<1> QED
  BY <1>1, <1>2, <1>3

\* A flag that is missing is not set.
LEMMA FlagRead == BoolFlag(Null) = {FALSE} /\ \A b : BoolFlag(Flag(b)) = {b}
BY Parts DEF BoolFlag

\* The modifiers that are held are those whose flags are there.
LEMMA ModsRead ==
  ASSUME NEW code, NEW mods \in SUBSET DOMAIN ModKey,
         NEW o, \A m \in DOMAIN ModKey : Get(o, ModKey[m]) = Get(EncodeKey(code, mods), ModKey[m])
  PROVE  DecodeMods(o) = {mods}
<1>1. PICK base : /\ DOMAIN base \subseteq {"k", "n", "ch"}
                  /\ EncodeKey(code, mods) = Joined(base, InsertFlags(ModKey, mods))
  BY KeyParts
<1>2. ASSUME NEW m \in DOMAIN ModKey
      PROVE  Get(o, ModKey[m]) = IF m \in mods THEN Flag(TRUE) ELSE Null
  <2>1. ModKey[m] \notin DOMAIN base
    BY <1>1 DEF ModKey
  <2>2. Get(Joined(base, InsertFlags(ModKey, mods)), ModKey[m]) = Get(InsertFlags(ModKey, mods), ModKey[m])
    BY <2>1, JoinedGet
  <2> QED
    BY <1>1, <2>2, FlagsGet
<1>3. \A m \in DOMAIN ModKey : IF m \in mods THEN BoolFlag(Get(o, ModKey[m])) = {TRUE}
                                             ELSE BoolFlag(Get(o, ModKey[m])) = {FALSE}
  BY <1>2, FlagRead
<1>4. /\ \A m \in DOMAIN ModKey : BoolFlag(Get(o, ModKey[m])) # {}
      /\ \A m \in DOMAIN ModKey : TRUE \in BoolFlag(Get(o, ModKey[m])) <=> m \in mods
  BY <1>3
<1>5. {m \in DOMAIN ModKey : TRUE \in BoolFlag(Get(o, ModKey[m]))} = mods
  BY <1>4
<1> QED
  BY <1>4, <1>5, Zenon DEF DecodeMods

\* Those with an optional field, and those of the keyboard and the mouse.
LEMMA SpawnAgentRead ==
  ASSUME NEW c \in [t : {"spawn_agent"}, agent : Strings, cwd : Octets, group : Maybe(Strings)]
  PROVE DecodeCommand(EncodeCommand(c)) = {c}
<1> DEFINE p == [agent |-> Str(c.agent), cwd |-> B64(c.cwd)]
           q == [group |-> Texts(c.group)]
<1>1. PICK o : o = EncodeCommand(c)
  OBVIOUS
<1>2. /\ Get(o, "t") = Str("spawn_agent") /\ Get(o, "agent") = Str(c.agent) /\ Get(o, "cwd") = B64(c.cwd)
      /\ IF c.group = {} THEN Get(o, "group") = Null ELSE Get(o, "group") \in Texts(c.group)
  <2>1. DOMAIN p = {"agent", "cwd"} /\ p["agent"] = Str(c.agent) /\ p["cwd"] = B64(c.cwd)
    OBVIOUS
  <2>2. "group" \in DOMAIN q /\ q["group"] = Texts(c.group) /\ (c.group = {} <=> Texts(c.group) = {})
    BY DEF Texts
  <2>3. EncodeFields(c) = Joined(p, InsertOpt(q))
    BY c.t = "spawn_agent", Zenon DEF EncodeFields
  <2> HIDE DEF p, q
  <2>4. /\ Get(EncodeFields(c), "agent") = Str(c.agent) /\ Get(EncodeFields(c), "cwd") = B64(c.cwd)
        /\ IF c.group = {} THEN Get(EncodeFields(c), "group") = Null
                           ELSE Get(EncodeFields(c), "group") \in Texts(c.group)
    BY <2>1, <2>2, <2>3, InsertGet, JoinedGet
  <2> QED
    BY <1>1, <2>4, CommandGet
<1> HIDE DEF p, q
<1>3. Get(o, "agent").str = {c.agent} /\ FromB64(Get(o, "cwd")) = {c.cwd} /\ OptStr(Get(o, "group")) = {c.group}
  BY <1>2, Parts, B64Read, OptRead
<1>4. DecodeAs("spawn_agent", o) = [t : {"spawn_agent"}, agent : {c.agent}, cwd : {c.cwd}, group : {c.group}]
  BY <1>3, Zenon DEF DecodeAs
<1>5. [t : {"spawn_agent"}, agent : {c.agent}, cwd : {c.cwd}, group : {c.group}] = {c}
  <2>1. c = [t |-> "spawn_agent", agent |-> c.agent, cwd |-> c.cwd, group |-> c.group]
    OBVIOUS
  <2>2. ASSUME NEW d \in [t : {"spawn_agent"}, agent : {c.agent}, cwd : {c.cwd}, group : {c.group}] PROVE d = c
    BY <2>1
  <2>3. c \in [t : {"spawn_agent"}, agent : {c.agent}, cwd : {c.cwd}, group : {c.group}]
    BY <2>1
  <2> QED
    BY <2>2, <2>3
<1> QED
  BY <1>1, <1>2, <1>4, <1>5, KindRead

LEMMA GroupRead ==
  ASSUME NEW c \in [t : {"group"}, id : Ids, group : Maybe(Strings)]
  PROVE  DecodeCommand(EncodeCommand(c)) = {c}
<1> DEFINE q == [g |-> Texts(c.group)]
<1>1. PICK o : o = EncodeCommand(c)
  OBVIOUS
<1>2. /\ Get(o, "t") = Str("group") /\ Get(o, "id") = Num(c.id)
      /\ IF c.group = {} THEN Get(o, "g") = Null ELSE Get(o, "g") \in Texts(c.group)
  <2>1. "g" \in DOMAIN q /\ q["g"] = Texts(c.group) /\ (c.group = {} <=> Texts(c.group) = {})
    BY DEF Texts
  <2>2. EncodeFields(c) = InsertOpt(q)
    BY c.t = "group", Zenon DEF EncodeFields
  <2> HIDE DEF q
  <2>3. IF c.group = {} THEN Get(EncodeFields(c), "g") = Null ELSE Get(EncodeFields(c), "g") \in Texts(c.group)
    BY <2>1, <2>2, InsertGet
  <2> QED
    BY <1>1, <2>3, CommandGet
<1> HIDE DEF q
<1>3. Get(o, "id").num = {c.id} /\ OptStr(Get(o, "g")) = {c.group}
  BY <1>2, Parts, OptRead
<1>4. DecodeAs("group", o) = [t : {"group"}, id : {c.id}, group : {c.group}]
  BY <1>3, Zenon DEF DecodeAs
<1>5. [t : {"group"}, id : {c.id}, group : {c.group}] = {c}
  <2>1. c = [t |-> "group", id |-> c.id, group |-> c.group]
    OBVIOUS
  <2>2. ASSUME NEW d \in [t : {"group"}, id : {c.id}, group : {c.group}] PROVE d = c
    BY <2>1
  <2>3. c \in [t : {"group"}, id : {c.id}, group : {c.group}]
    BY <2>1
  <2> QED
    BY <2>2, <2>3
<1> QED
  BY <1>1, <1>2, <1>4, <1>5, KindRead

LEMMA NameRead ==
  ASSUME NEW c \in [t : {"name"}, id : Ids, name : Maybe(Strings)]
  PROVE  DecodeCommand(EncodeCommand(c)) = {c}
<1> DEFINE q == [n |-> Texts(c.name)]
<1>1. PICK o : o = EncodeCommand(c)
  OBVIOUS
<1>2. /\ Get(o, "t") = Str("name") /\ Get(o, "id") = Num(c.id)
      /\ IF c.name = {} THEN Get(o, "n") = Null ELSE Get(o, "n") \in Texts(c.name)
  <2>1. "n" \in DOMAIN q /\ q["n"] = Texts(c.name) /\ (c.name = {} <=> Texts(c.name) = {})
    BY DEF Texts
  <2>2. EncodeFields(c) = InsertOpt(q)
    BY c.t = "name", Zenon DEF EncodeFields
  <2> HIDE DEF q
  <2>3. IF c.name = {} THEN Get(EncodeFields(c), "n") = Null ELSE Get(EncodeFields(c), "n") \in Texts(c.name)
    BY <2>1, <2>2, InsertGet
  <2> QED
    BY <1>1, <2>3, CommandGet
<1> HIDE DEF q
<1>3. Get(o, "id").num = {c.id} /\ OptStr(Get(o, "n")) = {c.name}
  BY <1>2, Parts, OptRead
<1>4. DecodeAs("name", o) = [t : {"name"}, id : {c.id}, name : {c.name}]
  BY <1>3, Zenon DEF DecodeAs
<1>5. [t : {"name"}, id : {c.id}, name : {c.name}] = {c}
  <2>1. c = [t |-> "name", id |-> c.id, name |-> c.name]
    OBVIOUS
  <2>2. ASSUME NEW d \in [t : {"name"}, id : {c.id}, name : {c.name}] PROVE d = c
    BY <2>1
  <2>3. c \in [t : {"name"}, id : {c.id}, name : {c.name}]
    BY <2>1
  <2> QED
    BY <2>2, <2>3
<1> QED
  BY <1>1, <1>2, <1>4, <1>5, KindRead

LEMMA ScrollCommandRead ==
  ASSUME NEW c \in [t : {"sb"}, id : Ids, action : ScrollActions]
  PROVE  DecodeCommand(EncodeCommand(c)) = {c}
<1>1. PICK o : o = EncodeCommand(c)
  OBVIOUS
<1>2. /\ Get(o, "t") = Str("sb") /\ Get(o, "id") = Num(c.id)
      /\ Get(o, "a") = Get(EncodeScroll(c.action), "a") /\ Get(o, "n") = Get(EncodeScroll(c.action), "n")
  <2>1. EncodeFields(c) = EncodeScroll(c.action)
    BY c.t = "sb", Zenon DEF EncodeFields
  <2> QED
    BY <1>1, <2>1, CommandGet
<1>3. Get(o, "id").num = {c.id} /\ DecodeScroll(o) = {c.action}
  BY <1>2, Parts, ScrollRead
<1>4. DecodeAs("sb", o) = [t : {"sb"}, id : {c.id}, action : {c.action}]
  BY <1>3, Zenon DEF DecodeAs
<1>5. [t : {"sb"}, id : {c.id}, action : {c.action}] = {c}
  <2>1. c = [t |-> "sb", id |-> c.id, action |-> c.action]
    OBVIOUS
  <2>2. ASSUME NEW d \in [t : {"sb"}, id : {c.id}, action : {c.action}] PROVE d = c
    BY <2>1
  <2>3. c \in [t : {"sb"}, id : {c.id}, action : {c.action}]
    BY <2>1
  <2> QED
    BY <2>2, <2>3
<1> QED
  BY <1>1, <1>2, <1>4, <1>5, KindRead

LEMMA MouseCommandRead ==
  ASSUME NEW c \in [t : {"mouse"}, id : Ids, col : 0 .. U16, row : 0 .. U16, mouse : MouseActions]
  PROVE  DecodeCommand(EncodeCommand(c)) = {c}
<1>1. PICK o : o = EncodeCommand(c)
  OBVIOUS
<1>2. /\ Get(o, "t") = Str("mouse") /\ Get(o, "id") = Num(c.id)
      /\ Get(o, "col") = Num(c.col) /\ Get(o, "row") = Num(c.row)
      /\ Get(o, "k") = Get(EncodeMouse(c.mouse), "k") /\ Get(o, "b") = Get(EncodeMouse(c.mouse), "b")
  <2>1. EncodeFields(c) = Joined([col |-> Num(c.col), row |-> Num(c.row)], EncodeMouse(c.mouse))
    BY c.t = "mouse", Zenon DEF EncodeFields
  <2>2. /\ Get(EncodeFields(c), "col") = Num(c.col) /\ Get(EncodeFields(c), "row") = Num(c.row)
        /\ \A k \in {"k", "b"} : Get(EncodeFields(c), k) = Get(EncodeMouse(c.mouse), k)
    BY <2>1, JoinedGet
  <2> QED
    BY <1>1, <2>2, CommandGet
<1>3. /\ Get(o, "id").num = {c.id} /\ DecodeMouse(o) = {c.mouse}
      /\ NumOf(Get(o, "col"), U16) = {c.col} /\ NumOf(Get(o, "row"), U16) = {c.row}
  BY <1>2, Parts, MouseRead, NumRead, Widths
<1>4. DecodeAs("mouse", o) = [t : {"mouse"}, id : {c.id}, col : {c.col}, row : {c.row}, mouse : {c.mouse}]
  BY <1>3, Zenon DEF DecodeAs
<1>5. [t : {"mouse"}, id : {c.id}, col : {c.col}, row : {c.row}, mouse : {c.mouse}] = {c}
  <2>1. c = [t |-> "mouse", id |-> c.id, col |-> c.col, row |-> c.row, mouse |-> c.mouse]
    OBVIOUS
  <2>2. ASSUME NEW d \in [t : {"mouse"}, id : {c.id}, col : {c.col}, row : {c.row}, mouse : {c.mouse}] PROVE d = c
    BY <2>1
  <2>3. c \in [t : {"mouse"}, id : {c.id}, col : {c.col}, row : {c.row}, mouse : {c.mouse}]
    BY <2>1
  <2> QED
    BY <2>2, <2>3
<1> QED
  BY <1>1, <1>2, <1>4, <1>5, KindRead

LEMMA KeyCommandRead ==
  ASSUME NEW c \in [t : {"key"}, id : Ids, mods : SUBSET DOMAIN ModKey, code : KeyCodes]
  PROVE  DecodeCommand(EncodeCommand(c)) = {c}
<1>1. PICK o : o = EncodeCommand(c)
  OBVIOUS
<1>2. /\ Get(o, "t") = Str("key") /\ Get(o, "id") = Num(c.id)
      /\ \A k \in {"k", "n", "ch"} : Get(o, k) = Get(EncodeKey(c.code, c.mods), k)
      /\ \A m \in DOMAIN ModKey : Get(o, ModKey[m]) = Get(EncodeKey(c.code, c.mods), ModKey[m])
  <2>1. EncodeFields(c) = EncodeKey(c.code, c.mods)
    BY c.t = "key", Zenon DEF EncodeFields
  <2>2. \A m \in DOMAIN ModKey : ModKey[m] \notin {"t", "id"}
    BY DEF ModKey
  <2> QED
    BY <1>1, <2>1, <2>2, CommandGet
<1>3. Get(o, "id").num = {c.id} /\ DecodeMods(o) = {c.mods} /\ DecodeKey(o) = {c.code}
  BY <1>2, Parts, ModsRead, CodeRead
<1>4. DecodeAs("key", o) = [t : {"key"}, id : {c.id}, mods : {c.mods}, code : {c.code}]
  BY <1>3, Zenon DEF DecodeAs
<1>5. [t : {"key"}, id : {c.id}, mods : {c.mods}, code : {c.code}] = {c}
  <2>1. c = [t |-> "key", id |-> c.id, mods |-> c.mods, code |-> c.code]
    OBVIOUS
  <2>2. ASSUME NEW d \in [t : {"key"}, id : {c.id}, mods : {c.mods}, code : {c.code}] PROVE d = c
    BY <2>1
  <2>3. c \in [t : {"key"}, id : {c.id}, mods : {c.mods}, code : {c.code}]
    BY <2>1
  <2> QED
    BY <2>2, <2>3
<1> QED
  BY <1>1, <1>2, <1>4, <1>5, KindRead

\* Every command is read as it was sent.
LEMMA CommandsRead == \A c \in Commands : DecodeCommand(EncodeCommand(c)) = {c}
BY SpawnRead, SpawnAgentRead, IdRead, TagCommandRead, FlagshipRead, GroupRead, NameRead, ResizeRead, WatchRead,
   PasteRead, MouseCommandRead, KeyCommandRead, ScrollCommandRead, NamedRead, RecoverRead, BareRead, Zenon DEF Commands

-----------------------------------------------------------------------------
(* Events: lists, rows, snapshot entries, and each event.                  *)

\* A list of an event is a sequence, and reads back member by member.
LEMMA ListsAreSeqs ==
  ASSUME NEW S, NEW s \in Lists(S)
  PROVE  /\ s \in Seq(S) /\ Len(s) \in Nat /\ DOMAIN s = 1 .. Len(s) /\ \A i \in 1 .. Len(s) : s[i] \in S
         /\ s = [i \in DOMAIN s |-> s[i]]
<1>1. PICK n \in 0 .. MaxList : s \in [1 .. n -> S]
  BY DEF Lists
<1>2. s \in Seq(S)
  BY <1>1, SamplesAssumption, SeqDef
<1> QED
  BY <1>1, <1>2, LenProperties, ElementOfSeq

\* An array has its members, null has none.
LEMMA MembersRead == Members(Null) = <<>> /\ \A l : Members(List(l)) = l
<1>1. ASSUME NEW l PROVE Members(List(l)) = l
  <2>1. \A x \in {l} : x = l
    OBVIOUS
  <2>2. (CHOOSE x \in {l} : TRUE) = l
    OBVIOUS
  <2> QED
    BY <2>2, Parts DEF Members
<1> QED
  BY <1>1, Parts DEF Members

\* str_vec undoes a list of texts.
LEMMA TextsRead ==
  ASSUME NEW S, NEW s \in Seq(S)
  PROVE  StrVec(StrList(s)) = {s}
<1> DEFINE l == [i \in DOMAIN s |-> Str(s[i])]
<1>1. Members(StrList(s)) = l
  BY MembersRead DEF StrList
<1>2. DOMAIN l = DOMAIN s /\ \A i \in DOMAIN s : l[i].str = {s[i]}
  <2>1. DOMAIN l = DOMAIN s /\ \A i \in DOMAIN s : l[i] = Str(s[i])
    OBVIOUS
  <2> HIDE DEF l
  <2> QED
    BY <2>1, Parts
<1> HIDE DEF l
<1>3. \A i \in DOMAIN s : (CHOOSE x \in l[i].str : TRUE) = s[i]
  BY <1>2
<1>4. StrVec(StrList(s)) = {[i \in DOMAIN s |-> CHOOSE x \in l[i].str : TRUE]}
  BY <1>1, <1>2 DEF StrVec
<1>5. s = [i \in DOMAIN s |-> s[i]]
  BY LenProperties
<1>6. [i \in DOMAIN s |-> CHOOSE x \in l[i].str : TRUE] = [i \in DOMAIN s |-> s[i]]
  BY <1>3
<1> QED
  BY <1>4, <1>5, <1>6

\* A duration arrives in whole milliseconds.
LEMMA AgeRead ==
  ASSUME NEW T \in SUBSET Nat, T \in Maybe(T), NEW v, IF T = {} THEN v = Null ELSE v \in Millis(T)
  PROVE OptMs(v) = {WholeMs(T)}
<1>1. CASE T = {}
  <2>1. OptNum(v) = {{}}
    BY <1>1, Parts DEF OptNum
  <2>2. WholeMs(T) = {}
    BY <1>1 DEF WholeMs
  <2>3. \A S : S = {} => {2 * n : n \in S} = {}
    OBVIOUS
  <2> QED
    BY <2>1, <2>2, <2>3 DEF OptMs
<1>2. CASE T # {}
  <2>1. PICK x : T = {x}
    BY <1>2 DEF Maybe
  <2>2. v = Num(x \div 2)
    BY <2>1 DEF Millis
  <2>3. OptNum(v) = {{x \div 2}}
    BY <2>2, Parts, One DEF OptNum
  <2>4. WholeMs(T) = {2 * (x \div 2)}
    BY <2>1 DEF WholeMs
  <2>5. {2 * n : n \in {x \div 2}} = {2 * (x \div 2)}
    OBVIOUS
  <2> QED
    BY <2>3, <2>4, <2>5 DEF OptMs
<1> QED
  BY <1>1, <1>2

\* A row is read as it was sent, but for its rule and the fractions of milliseconds.
LEMMA RowRead ==
  ASSUME NEW v \in Views
  PROVE  DecodeRow(EncodeRow(v)) = {Received(v)}
<1> DEFINE p == [id |-> Num(v.id), command |-> Str(v.command), cwd |-> B64(v.cwd), tagged |-> Flag(v.tagged),
                 flagship |-> Flag(v.flagship), managed |-> Flag(v.managed), life |-> Str(v.life),
                 preview |-> Str(v.preview), src |-> Str(v.src), frozen |-> Flag(v.frozen),
                 working |-> Flag(v.working)]
           q == [group |-> Texts(v.group), name |-> Texts(v.name), started_ms |-> Millis(v.started),
                 quiet_ms |-> Millis(v.quiet), finished_ms |-> Millis(v.finished)]
<1>0. /\ v \in [id : Ids, command : Strings, cwd : Octets, tagged : BOOLEAN, flagship : BOOLEAN,
                managed : BOOLEAN, group : Maybe(Strings), name : Maybe(Strings), life : Lifecycles,
                preview : Strings, src : Sources, rule : {v.rule}, frozen : BOOLEAN, working : BOOLEAN,
                started : SUBSET Nat, quiet : SUBSET Nat, finished : SUBSET Nat]
      /\ v.started \in Maybe(v.started) /\ v.quiet \in Maybe(v.quiet) /\ v.finished \in Maybe(v.finished)
  BY SamplesAssumption
<1>1. PICK o : o = EncodeRow(v)
  OBVIOUS
<1>2. o = Joined(p, InsertOpt(q))
  BY <1>1 DEF EncodeRow
<1>3. /\ DOMAIN p = {"id", "command", "cwd", "tagged", "flagship", "managed", "life", "preview", "src",
                     "frozen", "working"}
      /\ p["id"] = Num(v.id) /\ p["command"] = Str(v.command) /\ p["cwd"] = B64(v.cwd)
      /\ p["tagged"] = Flag(v.tagged) /\ p["flagship"] = Flag(v.flagship) /\ p["managed"] = Flag(v.managed)
      /\ p["life"] = Str(v.life) /\ p["preview"] = Str(v.preview) /\ p["src"] = Str(v.src)
      /\ p["frozen"] = Flag(v.frozen) /\ p["working"] = Flag(v.working)
  OBVIOUS
<1>4. /\ DOMAIN q = {"group", "name", "started_ms", "quiet_ms", "finished_ms"}
      /\ q["group"] = Texts(v.group) /\ q["name"] = Texts(v.name) /\ q["started_ms"] = Millis(v.started)
      /\ q["quiet_ms"] = Millis(v.quiet) /\ q["finished_ms"] = Millis(v.finished)
  OBVIOUS
<1> HIDE DEF p, q
<1>5. /\ Get(o, "id") = Num(v.id) /\ Get(o, "command") = Str(v.command) /\ Get(o, "cwd") = B64(v.cwd)
      /\ Get(o, "tagged") = Flag(v.tagged) /\ Get(o, "flagship") = Flag(v.flagship)
      /\ Get(o, "managed") = Flag(v.managed)
      /\ Get(o, "life") = Str(v.life) /\ Get(o, "preview") = Str(v.preview) /\ Get(o, "src") = Str(v.src)
      /\ Get(o, "frozen") = Flag(v.frozen) /\ Get(o, "working") = Flag(v.working)
  BY <1>2, <1>3, JoinedGet
<1>6. \A k \in DOMAIN q : IF q[k] = {} THEN Get(o, k) = Null ELSE Get(o, k) \in q[k]
  <2>1. \A k \in DOMAIN q : k \notin DOMAIN p
    BY <1>3, <1>4
  <2>2. \A k \in DOMAIN q : Get(o, k) = Get(InsertOpt(q), k)
    BY <1>2, <2>1, JoinedGet
  <2> QED
    BY <2>2, InsertGet
<1>7. \A S : (Texts(S) = {} <=> S = {}) /\ (Millis(S) = {} <=> S = {})
  BY DEF Texts, Millis
<1>8. /\ Get(o, "id").num = {v.id} /\ Get(o, "command").str = {v.command} /\ FromB64(Get(o, "cwd")) = {v.cwd}
      /\ Get(o, "tagged").flag = {v.tagged} /\ Get(o, "flagship").flag = {v.flagship}
      /\ Get(o, "managed").flag = {v.managed} /\ Get(o, "preview").str = {v.preview}
      /\ Get(o, "frozen").flag = {v.frozen} /\ Get(o, "working").flag = {v.working}
      /\ Get(o, "life").str \cap Lifecycles = {v.life} /\ Get(o, "src").str \cap Sources = {v.src}
  BY <1>0, <1>5, Parts, B64Read
<1>9. OptStr(Get(o, "group")) = {v.group} /\ OptStr(Get(o, "name")) = {v.name}
  BY <1>0, <1>4, <1>6, <1>7, OptRead
<1>10. /\ OptMs(Get(o, "started_ms")) = {WholeMs(v.started)}
       /\ OptMs(Get(o, "quiet_ms")) = {WholeMs(v.quiet)} /\ OptMs(Get(o, "finished_ms")) = {WholeMs(v.finished)}
  BY <1>0, <1>4, <1>6, <1>7, AgeRead
<1>11. DecodeRow(o) =
         [id : {v.id}, command : {v.command}, cwd : {v.cwd}, tagged : {v.tagged}, flagship : {v.flagship},
          managed : {v.managed}, group : {v.group}, name : {v.name}, life : {v.life}, preview : {v.preview},
          src : {v.src}, rule : {{}}, frozen : {v.frozen}, working : {v.working},
          started : {WholeMs(v.started)}, quiet : {WholeMs(v.quiet)}, finished : {WholeMs(v.finished)}]
  BY <1>8, <1>9, <1>10, Zenon DEF DecodeRow
<1>12. Received(v) =
         [id |-> v.id, command |-> v.command, cwd |-> v.cwd, tagged |-> v.tagged, flagship |-> v.flagship,
          managed |-> v.managed, group |-> v.group, name |-> v.name, life |-> v.life, preview |-> v.preview,
          src |-> v.src, rule |-> {}, frozen |-> v.frozen, working |-> v.working,
          started |-> WholeMs(v.started), quiet |-> WholeMs(v.quiet), finished |-> WholeMs(v.finished)]
  <2>1. /\ DOMAIN v = {"id", "command", "cwd", "tagged", "flagship", "managed", "group", "name", "life", "preview",
                       "src", "rule", "frozen", "working", "started", "quiet", "finished"}
        /\ v = [k \in DOMAIN v |-> v[k]]
    BY <1>0
  <2>2. Received(v) = [k \in DOMAIN v |-> IF k = "rule" THEN {}
                                         ELSE IF k = "started" THEN WholeMs(v.started)
                                         ELSE IF k = "quiet" THEN WholeMs(v.quiet)
                                         ELSE IF k = "finished" THEN WholeMs(v.finished) ELSE v[k]]
    BY <2>1 DEF Received
  <2> QED
    BY <2>1, <2>2
<1>13. ASSUME NEW d \in DecodeRow(o) PROVE d = Received(v)
  BY <1>11, <1>12
<1>14. Received(v) \in DecodeRow(o)
  BY <1>11, <1>12
<1> QED
  BY <1>1, <1>13, <1>14

\* A snapshot entry is read as it was sent.
LEMMA EntryRead ==
  ASSUME NEW r \in Entries
  PROVE  DecodeEntry(EncodeEntry(r)) = {r}
<1>0. r \in [stem : Strings, label : Strings, tasks : 0 .. U32, age : 0 .. U64]
  BY SamplesAssumption
<1>1. PICK o : o = EncodeEntry(r)
  OBVIOUS
<1>2. /\ Get(o, "stem") = Str(r.stem) /\ Get(o, "label") = Str(r.label)
      /\ Get(o, "tasks") = Num(r.tasks) /\ Get(o, "age") = Num(r.age)
  BY <1>1 DEF EncodeEntry, Get
<1>3. /\ Get(o, "stem").str = {r.stem} /\ Get(o, "label").str = {r.label}
      /\ NumOf(Get(o, "tasks"), U32) = {r.tasks} /\ Get(o, "age").num = {r.age}
  BY <1>0, <1>2, Parts, NumRead, Widths
<1>4. DecodeEntry(o) = [stem : {r.stem}, label : {r.label}, tasks : {r.tasks}, age : {r.age}]
  BY <1>3, Zenon DEF DecodeEntry
<1>5. [stem : {r.stem}, label : {r.label}, tasks : {r.tasks}, age : {r.age}] = {r}
  <2>1. r = [stem |-> r.stem, label |-> r.label, tasks |-> r.tasks, age |-> r.age]
    BY <1>0
  <2>2. ASSUME NEW d \in [stem : {r.stem}, label : {r.label}, tasks : {r.tasks}, age : {r.age}] PROVE d = r
    BY <2>1
  <2>3. r \in [stem : {r.stem}, label : {r.label}, tasks : {r.tasks}, age : {r.age}]
    BY <2>1
  <2> QED
    BY <2>2, <2>3
<1> QED
  BY <1>1, <1>4, <1>5

LEMMA ChooseOne == \A x : (CHOOSE y \in {x} : TRUE) = x
OBVIOUS

\* A list is read if each of its members is.
LEMMA AllRead ==
  ASSUME NEW S, NEW s \in Seq(S), NEW parts, DOMAIN parts = DOMAIN s, \A i \in DOMAIN s : parts[i] = {s[i]}
  PROVE  AllOf(parts) = {s}
<1>1. \A i \in DOMAIN s : (CHOOSE x \in parts[i] : TRUE) = s[i]
  BY ChooseOne
<1>2. s = [i \in DOMAIN s |-> s[i]]
  BY LenProperties
<1>3. [i \in DOMAIN s |-> CHOOSE x \in parts[i] : TRUE] = [i \in DOMAIN s |-> s[i]]
  BY <1>1
<1>4. \A i \in DOMAIN parts : parts[i] # {}
  OBVIOUS
<1>5. AllOf(parts) = {[i \in DOMAIN parts |-> CHOOSE x \in parts[i] : TRUE]}
  BY <1>4 DEF AllOf
<1>6. [i \in DOMAIN parts |-> CHOOSE x \in parts[i] : TRUE] = s
  BY <1>2, <1>3
<1> QED
  BY <1>5, <1>6

\* A list is not read if one of its members is not.
LEMMA NoneRead ==
  ASSUME NEW parts, NEW i \in DOMAIN parts, parts[i] = {}
  PROVE  AllOf(parts) = {}
BY DEF AllOf

\* f keeps what was read of the first n parts.
Reads(f, parts, n) ==
  f = [i \in 0 .. n |->
         IF i = 0 THEN <<>>
         ELSE IF parts[i] = {} THEN f[i - 1] ELSE Append(f[i - 1], CHOOSE x \in parts[i] : TRUE)]

\* SomeOf is the last value of a function that keeps what was read so far.
LEMMA SomeReads ==
  ASSUME NEW parts, NEW f, Len(parts) \in Nat, Reads(f, parts, Len(parts))
  PROVE  \E g : Reads(g, parts, Len(parts)) /\ SomeOf(parts) = g[Len(parts)]
<1> DEFINE h == CHOOSE g : Reads(g, parts, Len(parts))
<1>1. Reads(h, parts, Len(parts))
  OBVIOUS
<1>2. SomeOf(parts) = h[Len(parts)]
  BY DEF SomeOf, Reads
<1> QED
  BY <1>1, <1>2

\* Numbers have a least one, and what holds at 0 and from one to the next holds up to n.
LEMMA LeastNatural ==
  ASSUME NEW T, T \subseteq Nat, T # {}
  PROVE  \E x \in T : \A y \in T : x <= y
<1> DEFINE R == OpToRel(<, Nat)
<1>1. IsWellFoundedOn(R, Nat)
  BY NatLessThanWellFounded, Zenon
<1>2. ASSUME NEW x \in Nat, NEW y \in Nat, y < x PROVE <<y, x>> \in R
  BY <1>2, Zenon DEF OpToRel
<1> HIDE DEF R
<1>3. PICK x \in T : \A y \in T : ~ (<<y, x>> \in R)
  BY <1>1, WFMin, Zenon
<1>4. ASSUME NEW y \in T PROVE x <= y
  <2>1. x \in Nat /\ y \in Nat
    OBVIOUS
  <2>2. ~ (y < x)
    BY <2>1, <1>2, <1>3
  <2> QED
    BY <2>1, <2>2
<1> QED
  BY <1>4

LEMMA UpTo ==
  ASSUME NEW n \in Nat, NEW S, 0 \in S, \A i \in 1 .. n : i - 1 \in S => i \in S
  PROVE  \A i \in 0 .. n : i \in S
<1> DEFINE T == {i \in 0 .. n : i \notin S}
<1> SUFFICES ASSUME T # {} PROVE FALSE
  OBVIOUS
<1>1. T \subseteq Nat
  OBVIOUS
<1> HIDE DEF T
<1>2. PICK x \in T : \A y \in T : x <= y
  BY <1>1, LeastNatural
<1>3. x \in 0 .. n /\ x \notin S
  BY DEF T
<1>4. x \in 1 .. n /\ x - 1 \in 0 .. n /\ ~(x <= x - 1)
  BY <1>3
<1>5. x - 1 \notin T
  BY <1>2, <1>4
<1>6. x - 1 \in S
  BY <1>4, <1>5 DEF T
<1> QED
  BY <1>3, <1>4, <1>6

\* Entries that can all be read are all kept.
LEMMA SomeRead ==
  ASSUME NEW S, NEW s \in Seq(S), NEW parts, DOMAIN parts = DOMAIN s, Len(parts) = Len(s),
         \A i \in DOMAIN s : parts[i] = {s[i]}
  PROVE  SomeOf(parts) = s
<1> DEFINE f == [i \in 0 .. Len(s) |-> SubSeq(s, 1, i)]
<1>0. Len(s) \in Nat /\ DOMAIN s = 1 .. Len(s) /\ \A i \in 1 .. Len(s) : s[i] \in S
  BY LenProperties, ElementOfSeq
<1>1. SubSeq(s, 1, 0) = <<>> /\ SubSeq(s, 1, Len(s)) = s
  BY <1>0, SubSeqEmpty, SubSeqFull
<1>2. ASSUME NEW i \in 1 .. Len(s) PROVE SubSeq(s, 1, i) = Append(SubSeq(s, 1, i - 1), s[i])
  BY <1>0, SubSeqRecursiveSecond
<1>3. \A i \in 1 .. Len(s) : parts[i] # {} /\ (CHOOSE x \in parts[i] : TRUE) = s[i]
  BY <1>0, ChooseOne
<1>4. Reads(f, parts, Len(parts))
  <2>1. ASSUME NEW i \in 0 .. Len(s)
        PROVE  f[i] = IF i = 0 THEN <<>>
                      ELSE IF parts[i] = {} THEN f[i - 1] ELSE Append(f[i - 1], CHOOSE x \in parts[i] : TRUE)
    <3>1. CASE i = 0
      BY <3>1, <1>1
    <3>2. CASE i # 0
      <4>1. i \in 1 .. Len(s) /\ i - 1 \in 0 .. Len(s)
        BY <3>2, <1>0
      <4> QED
        BY <3>2, <4>1, <1>2, <1>3
    <3> QED
      BY <3>1, <3>2
  <2> QED
    BY <2>1 DEF Reads
<1> HIDE DEF f
<1>5. PICK g : Reads(g, parts, Len(parts)) /\ SomeOf(parts) = g[Len(parts)]
  BY <1>0, <1>4, SomeReads
<1> DEFINE T == {i \in 0 .. Len(s) : g[i] = SubSeq(s, 1, i)}
<1>6. 0 \in T
  BY <1>0, <1>1, <1>5 DEF Reads
<1>7. ASSUME NEW i \in 1 .. Len(s), i - 1 \in T PROVE i \in T
  <2>1. i \in 0 .. Len(s) /\ i # 0
    BY <1>0
  <2>2. g[i] = Append(g[i - 1], s[i])
    BY <1>3, <1>5, <2>1 DEF Reads
  <2> QED
    BY <1>2, <1>7, <2>1, <2>2
<1> HIDE DEF T
<1>8. Len(s) \in T
  <2>1. \A i \in 0 .. Len(s) : i \in T
    BY <1>0, <1>6, <1>7, UpTo
  <2> QED
    BY <1>0, <2>1
<1> QED
  BY <1>1, <1>5, <1>8 DEF T

\* The discriminant picks the decoder of an event.
LEMMA EventKindRead ==
  ASSUME NEW o, NEW t, Get(o, "t") = Str(t)
  PROVE  DecodeEvent(o) = DecodeEventAs(t, o)
BY Parts DEF DecodeEvent

LEMMA ListIsThere == \A s : StrList(s).list # {}
BY Parts DEF StrList

\* Lists of snapshot entries and of rows, member by member.
LEMMA EntriesRead ==
  ASSUME NEW s \in Seq(Entries)
  PROVE  SomeOf(Saved(EntryList(s))) = s
<1>0. Len(s) \in Nat /\ DOMAIN s = 1 .. Len(s) /\ \A i \in 1 .. Len(s) : s[i] \in Entries
  BY LenProperties, ElementOfSeq
<1> DEFINE l == [i \in DOMAIN s |-> EncodeEntry(s[i])]
<1>1. Members(EntryList(s)) = l
  BY MembersRead DEF EntryList
<1>2. DOMAIN l = DOMAIN s /\ \A i \in DOMAIN s : l[i] = EncodeEntry(s[i])
  OBVIOUS
<1> HIDE DEF l
<1> DEFINE parts == [i \in DOMAIN l |-> DecodeEntry(l[i])]
<1>3. Saved(EntryList(s)) = parts
  BY <1>1 DEF Saved
<1>4. DOMAIN parts = DOMAIN s /\ \A i \in DOMAIN s : parts[i] = {s[i]}
  BY <1>0, <1>2, EntryRead
<1>5. Len(parts) = Len(s)
  BY <1>0, <1>4, <1>2
<1> HIDE DEF parts
<1> QED
  BY <1>3, <1>4, <1>5, SomeRead

LEMMA RowsRead ==
  ASSUME NEW s \in Seq(Views)
  PROVE  AllOf(Rows(RowList(s))) = {[i \in DOMAIN s |-> Received(s[i])]}
<1>0. Len(s) \in Nat /\ DOMAIN s = 1 .. Len(s) /\ \A i \in 1 .. Len(s) : s[i] \in Views
  BY LenProperties, ElementOfSeq
<1> DEFINE l == [i \in DOMAIN s |-> EncodeRow(s[i])]
           r == [i \in DOMAIN s |-> Received(s[i])]
<1>1. Members(RowList(s)) = l
  BY MembersRead DEF RowList
<1>2. DOMAIN l = DOMAIN s /\ \A i \in DOMAIN s : l[i] = EncodeRow(s[i])
  OBVIOUS
<1>3. DOMAIN r = DOMAIN s /\ \A i \in DOMAIN s : r[i] = Received(s[i])
  OBVIOUS
<1> HIDE DEF l
<1> DEFINE parts == [i \in DOMAIN l |-> DecodeRow(l[i])]
<1>4. Rows(RowList(s)) = parts
  BY <1>1 DEF Rows
<1>5. DOMAIN parts = DOMAIN s /\ \A i \in DOMAIN s : parts[i] = {Received(s[i])}
  BY <1>0, <1>2, RowRead
<1>6. r \in Seq({Received(s[i]) : i \in DOMAIN s})
  <2>1. r \in [1 .. Len(s) -> {Received(s[i]) : i \in DOMAIN s}]
    BY <1>0
  <2> QED
    BY <1>0, <2>1, SeqDef
<1> HIDE DEF parts, r
<1>7. AllOf(parts) = {r}
  BY <1>3, <1>5, <1>6, AllRead
<1> QED
  BY <1>4, <1>7 DEF r

\* One lemma per event: it is read as it was sent, up to what a row leaves behind.
LEMMA HelloOkRead ==
  ASSUME NEW e \in [t : {"hello_ok"}]
  PROVE  DecodeEvent(EncodeEvent(e)) = {AsReceived(e)}
<1>1. PICK o : o = EncodeEvent(e)
  OBVIOUS
<1>2. Get(o, "t") = Str("hello_ok")
  <2>1. EncodeEvent(e) = Joined([t |-> Str(e.t)], <<>>)
    BY e.t = "hello_ok", Zenon DEF EncodeEvent
  <2> QED
    BY <1>1, <2>1, JoinedGet DEF Get
<1>4. DecodeEventAs("hello_ok", o) = [t : {"hello_ok"}]
  BY Zenon DEF DecodeEventAs
<1>5. AsReceived(e) = e /\ [t : {"hello_ok"}] = {e}
  <2>1. e = [t |-> "hello_ok"] /\ AsReceived(e) = e
    BY e.t = "hello_ok" DEF AsReceived
  <2>2. ASSUME NEW d \in [t : {"hello_ok"}] PROVE d = e
    BY <2>1
  <2>3. e \in [t : {"hello_ok"}]
    BY <2>1
  <2> QED
    BY <2>1, <2>2, <2>3
<1> QED
  BY <1>1, <1>2, <1>4, <1>5, EventKindRead

LEMMA AgentsRead ==
  ASSUME NEW e \in [t : {"agents"}, agents : Lists(Strings)]
  PROVE  DecodeEvent(EncodeEvent(e)) = {AsReceived(e)}
<1>1. PICK o : o = EncodeEvent(e)
  OBVIOUS
<1>2. Get(o, "t") = Str("agents") /\ Get(o, "agents") = StrList(e.agents)
  <2>1. EncodeEvent(e) = Joined([t |-> Str(e.t)], [agents |-> StrList(e.agents)])
    BY e.t = "agents", Zenon DEF EncodeEvent
  <2> QED
    BY <1>1, <2>1, JoinedGet DEF Get
<1>3. Get(o, "agents").list # {} /\ StrVec(Get(o, "agents")) = {e.agents}
  BY <1>2, ListIsThere, ListsAreSeqs, TextsRead
<1>4. DecodeEventAs("agents", o) = [t : {"agents"}, agents : {e.agents}]
  BY <1>3, Zenon DEF DecodeEventAs
<1>5. AsReceived(e) = e /\ [t : {"agents"}, agents : {e.agents}] = {e}
  <2>1. e = [t |-> "agents", agents |-> e.agents] /\ AsReceived(e) = e
    BY e.t = "agents" DEF AsReceived
  <2>2. ASSUME NEW d \in [t : {"agents"}, agents : {e.agents}] PROVE d = e
    BY <2>1
  <2>3. e \in [t : {"agents"}, agents : {e.agents}]
    BY <2>1
  <2> QED
    BY <2>1, <2>2, <2>3
<1> QED
  BY <1>1, <1>2, <1>4, <1>5, EventKindRead

LEMMA StatusRead ==
  ASSUME NEW e \in [t : {"status"}, msg : Strings]
  PROVE  DecodeEvent(EncodeEvent(e)) = {AsReceived(e)}
<1>1. PICK o : o = EncodeEvent(e)
  OBVIOUS
<1>2. Get(o, "t") = Str("status") /\ Get(o, "msg") = Str(e.msg)
  <2>1. EncodeEvent(e) = Joined([t |-> Str(e.t)], [msg |-> Str(e.msg)])
    BY e.t = "status", Zenon DEF EncodeEvent
  <2> QED
    BY <1>1, <2>1, JoinedGet DEF Get
<1>3. Get(o, "msg").str = {e.msg}
  BY <1>2, Parts
<1>4. DecodeEventAs("status", o) = [t : {"status"}, msg : {e.msg}]
  BY <1>3, Zenon DEF DecodeEventAs
<1>5. AsReceived(e) = e /\ [t : {"status"}, msg : {e.msg}] = {e}
  <2>1. e = [t |-> "status", msg |-> e.msg] /\ AsReceived(e) = e
    BY e.t = "status" DEF AsReceived
  <2>2. ASSUME NEW d \in [t : {"status"}, msg : {e.msg}] PROVE d = e
    BY <2>1
  <2>3. e \in [t : {"status"}, msg : {e.msg}]
    BY <2>1
  <2> QED
    BY <2>1, <2>2, <2>3
<1> QED
  BY <1>1, <1>2, <1>4, <1>5, EventKindRead

LEMMA SpawnedRead ==
  ASSUME NEW e \in [t : {"spawned"}, id : Ids]
  PROVE  DecodeEvent(EncodeEvent(e)) = {AsReceived(e)}
<1>1. PICK o : o = EncodeEvent(e)
  OBVIOUS
<1>2. Get(o, "t") = Str("spawned") /\ Get(o, "id") = Num(e.id)
  <2>1. EncodeEvent(e) = Joined([t |-> Str(e.t)], [id |-> Num(e.id)])
    BY e.t = "spawned", Zenon DEF EncodeEvent
  <2> QED
    BY <1>1, <2>1, JoinedGet DEF Get
<1>3. Get(o, "id").num = {e.id}
  BY <1>2, Parts
<1>4. DecodeEventAs("spawned", o) = [t : {"spawned"}, id : {e.id}]
  BY <1>3, Zenon DEF DecodeEventAs
<1>5. AsReceived(e) = e /\ [t : {"spawned"}, id : {e.id}] = {e}
  <2>1. e = [t |-> "spawned", id |-> e.id] /\ AsReceived(e) = e
    BY e.t = "spawned" DEF AsReceived
  <2>2. ASSUME NEW d \in [t : {"spawned"}, id : {e.id}] PROVE d = e
    BY <2>1
  <2>3. e \in [t : {"spawned"}, id : {e.id}]
    BY <2>1
  <2> QED
    BY <2>1, <2>2, <2>3
<1> QED
  BY <1>1, <1>2, <1>4, <1>5, EventKindRead

LEMMA SessionsRead ==
  ASSUME NEW e \in [t : {"sessions"}, names : Lists(Strings), recovery : Lists(Entries)]
  PROVE  DecodeEvent(EncodeEvent(e)) = {AsReceived(e)}
<1>1. PICK o : o = EncodeEvent(e)
  OBVIOUS
<1>2. Get(o, "t") = Str("sessions") /\ Get(o, "names") = StrList(e.names) /\ Get(o, "recovery") = EntryList(e.recovery)
  <2>1. EncodeEvent(e) = Joined([t |-> Str(e.t)], [names |-> StrList(e.names), recovery |-> EntryList(e.recovery)])
    BY e.t = "sessions", Zenon DEF EncodeEvent
  <2> QED
    BY <1>1, <2>1, JoinedGet DEF Get
<1>3. StrVec(Get(o, "names")) = {e.names} /\ SomeOf(Saved(Get(o, "recovery"))) = e.recovery
  BY <1>2, ListsAreSeqs, TextsRead, EntriesRead
<1>4. DecodeEventAs("sessions", o) = [t : {"sessions"}, names : {e.names}, recovery : {e.recovery}]
  BY <1>3, Zenon DEF DecodeEventAs
<1>5. AsReceived(e) = e /\ [t : {"sessions"}, names : {e.names}, recovery : {e.recovery}] = {e}
  <2>1. e = [t |-> "sessions", names |-> e.names, recovery |-> e.recovery] /\ AsReceived(e) = e
    BY e.t = "sessions" DEF AsReceived
  <2>2. ASSUME NEW d \in [t : {"sessions"}, names : {e.names}, recovery : {e.recovery}] PROVE d = e
    BY <2>1
  <2>3. e \in [t : {"sessions"}, names : {e.names}, recovery : {e.recovery}]
    BY <2>1
  <2> QED
    BY <2>1, <2>2, <2>3
<1> QED
  BY <1>1, <1>2, <1>4, <1>5, EventKindRead

LEMMA ClipRead ==
  ASSUME NEW e \in [t : {"clip"}, id : Ids, kind : Selectors, text : Strings]
  PROVE  DecodeEvent(EncodeEvent(e)) = {AsReceived(e)}
<1>1. PICK o : o = EncodeEvent(e)
  OBVIOUS
<1>2. Get(o, "t") = Str("clip") /\ Get(o, "id") = Num(e.id) /\ Get(o, "k") = Str(e.kind) /\ Get(o, "text") = B64(e.text)
  <2>1. EncodeEvent(e) = Joined([t |-> Str(e.t)], [id |-> Num(e.id), k |-> Str(e.kind), text |-> B64(e.text)])
    BY e.t = "clip", Zenon DEF EncodeEvent
  <2> QED
    BY <1>1, <2>1, JoinedGet DEF Get
<1>3. Get(o, "id").num = {e.id} /\ Get(o, "k").str \cap Selectors = {e.kind} /\ FromB64(Get(o, "text")) \cap Strings = {e.text}
  BY <1>2, Parts, B64Read, WireAssumption
<1>4. DecodeEventAs("clip", o) = [t : {"clip"}, id : {e.id}, kind : {e.kind}, text : {e.text}]
  BY <1>3, Zenon DEF DecodeEventAs
<1>5. AsReceived(e) = e /\ [t : {"clip"}, id : {e.id}, kind : {e.kind}, text : {e.text}] = {e}
  <2>1. e = [t |-> "clip", id |-> e.id, kind |-> e.kind, text |-> e.text] /\ AsReceived(e) = e
    BY e.t = "clip" DEF AsReceived
  <2>2. ASSUME NEW d \in [t : {"clip"}, id : {e.id}, kind : {e.kind}, text : {e.text}] PROVE d = e
    BY <2>1
  <2>3. e \in [t : {"clip"}, id : {e.id}, kind : {e.kind}, text : {e.text}]
    BY <2>1
  <2> QED
    BY <2>1, <2>2, <2>3
<1> QED
  BY <1>1, <1>2, <1>4, <1>5, EventKindRead

LEMMA TasksRead ==
  ASSUME NEW e \in [t : {"tasks"}, tasks : Lists(Views)]
  PROVE  DecodeEvent(EncodeEvent(e)) = {AsReceived(e)}
<1> DEFINE r == [i \in DOMAIN e.tasks |-> Received(e.tasks[i])]
<1>1. PICK o : o = EncodeEvent(e)
  OBVIOUS
<1>2. Get(o, "t") = Str("tasks") /\ Get(o, "tasks") = RowList(e.tasks)
  <2>1. EncodeEvent(e) = Joined([t |-> Str(e.t)], [tasks |-> RowList(e.tasks)])
    BY e.t = "tasks", Zenon DEF EncodeEvent
  <2> QED
    BY <1>1, <2>1, JoinedGet DEF Get
<1>3. AllOf(Rows(Get(o, "tasks"))) = {r}
  BY <1>2, ListsAreSeqs, RowsRead
<1> HIDE DEF r
<1>4. DecodeEventAs("tasks", o) = [t : {"tasks"}, tasks : {r}]
  BY <1>3, Zenon DEF DecodeEventAs
<1>5. AsReceived(e) = [t |-> "tasks", tasks |-> r]
  BY e.t = "tasks" DEF AsReceived, r
<1>6. [t : {"tasks"}, tasks : {r}] = {[t |-> "tasks", tasks |-> r]}
  <2>1. ASSUME NEW d \in [t : {"tasks"}, tasks : {r}] PROVE d = [t |-> "tasks", tasks |-> r]
    OBVIOUS
  <2>2. [t |-> "tasks", tasks |-> r] \in [t : {"tasks"}, tasks : {r}]
    OBVIOUS
  <2> QED
    BY <2>1, <2>2
<1> QED
  BY <1>1, <1>2, <1>4, <1>5, <1>6, EventKindRead

\* Every event is read as it was sent.
LEMMA EventsRead == \A e \in Events : DecodeEvent(EncodeEvent(e)) = {AsReceived(e)}
BY HelloOkRead, AgentsRead, TasksRead, StatusRead, SpawnedRead, SessionsRead, ClipRead, Zenon DEF Events

-----------------------------------------------------------------------------
(* Screens and the handshake.                                              *)

\* The one record whose fields are those of s.
LEMMA OneScreen ==
  ASSUME NEW s, NEW rest,
         NEW d \in [id : {s.id}, lines : {s.lines}, formatted : {rest}, cursor : {s.cursor},
                   hide : {s.hide}, mouse : {s.mouse}, alt : {s.alt}, ascr : {s.ascr}, sb : {s.sb}]
  PROVE  d = [id |-> s.id, lines |-> s.lines, formatted |-> rest, cursor |-> s.cursor, hide |-> s.hide,
              mouse |-> s.mouse, alt |-> s.alt, ascr |-> s.ascr, sb |-> s.sb]
OBVIOUS

\* The header of a screen is read as it was written, whatever follows it.
LEMMA HeaderRead ==
  ASSUME NEW s \in Screens, NEW h, NEW rest,
         h = [id |-> Num(s.id), cursor |-> List(<<Num(s.cursor[1]), Num(s.cursor[2])>>),
              hide |-> Flag(s.hide), mouse |-> Flag(s.mouse), alt |-> Flag(s.alt),
              ascr |-> Flag(s.ascr), sb |-> Num(s.sb), lines |-> StrList(s.lines)]
  PROVE  DecodeHeader(h, rest) = {[s EXCEPT !.formatted = rest]}
<1>0. s \in [id : Ids, lines : Seq(Strings), formatted : Seq(Octets),
             cursor : (0 .. U16) \X (0 .. U16), hide : BOOLEAN, mouse : BOOLEAN,
             alt : BOOLEAN, ascr : BOOLEAN, sb : 0 .. U64]
  BY SamplesAssumption
<1>1. /\ Get(h, "id") = Num(s.id) /\ Get(h, "lines") = StrList(s.lines)
      /\ Get(h, "cursor") = List(<<Num(s.cursor[1]), Num(s.cursor[2])>>)
      /\ Get(h, "hide") = Flag(s.hide) /\ Get(h, "mouse") = Flag(s.mouse) /\ Get(h, "alt") = Flag(s.alt)
      /\ Get(h, "ascr") = Flag(s.ascr) /\ Get(h, "sb") = Num(s.sb)
  BY DEF Get
<1>2. Nth(Get(h, "cursor"), 1) = Num(s.cursor[1]) /\ Nth(Get(h, "cursor"), 2) = Num(s.cursor[2])
  BY <1>1, MembersRead DEF Nth
<1>3. /\ Get(h, "id").num = {s.id} /\ Get(h, "hide").flag = {s.hide} /\ Get(h, "mouse").flag = {s.mouse}
      /\ Get(h, "alt").flag = {s.alt} /\ Get(h, "ascr").flag = {s.ascr}
  BY <1>1, Parts
<1>4. /\ NumOf(Nth(Get(h, "cursor"), 1), U16) = {s.cursor[1]} /\ NumOf(Nth(Get(h, "cursor"), 2), U16) = {s.cursor[2]}
      /\ NumOf(Get(h, "sb"), U64) = {s.sb}
  <2>1. s.cursor[1] \in 0 .. U16 /\ s.cursor[2] \in 0 .. U16 /\ s.sb \in 0 .. U64
    BY <1>0
  <2> QED
    BY <2>1, <1>1, <1>2, NumRead, Widths
<1>5. StrVec(Get(h, "lines")) = {s.lines}
  BY <1>0, <1>1, TextsRead
<1>6. DecodeHeader(h, rest) =
        [id : {s.id}, lines : {s.lines}, formatted : {rest}, cursor : {s.cursor[1]} \X {s.cursor[2]},
         hide : {s.hide}, mouse : {s.mouse}, alt : {s.alt}, ascr : {s.ascr}, sb : {s.sb}]
  BY <1>3, <1>4, <1>5, Zenon DEF DecodeHeader
<1>7. s.cursor = <<s.cursor[1], s.cursor[2]>> /\ {s.cursor[1]} \X {s.cursor[2]} = {s.cursor}
  <2>1. s.cursor = <<s.cursor[1], s.cursor[2]>>
    BY <1>0
  <2>2. \A x, y : {x} \X {y} = {<<x, y>>}
    OBVIOUS
  <2> QED
    BY <2>1, <2>2
<1>8. [s EXCEPT !.formatted = rest] =
        [id |-> s.id, lines |-> s.lines, formatted |-> rest, cursor |-> s.cursor, hide |-> s.hide,
         mouse |-> s.mouse, alt |-> s.alt, ascr |-> s.ascr, sb |-> s.sb]
  <2>1. /\ DOMAIN s = {"id", "lines", "formatted", "cursor", "hide", "mouse", "alt", "ascr", "sb"}
        /\ s = [k \in DOMAIN s |-> s[k]]
    BY <1>0
  <2> DEFINE w == [k \in DOMAIN s |-> IF k = "formatted" THEN rest ELSE s[k]]
  <2>2. [s EXCEPT !.formatted = rest] = w
    BY <2>1
  <2>3. /\ DOMAIN w = DOMAIN s /\ w.id = s.id /\ w.lines = s.lines /\ w.formatted = rest /\ w.cursor = s.cursor
        /\ w.hide = s.hide /\ w.mouse = s.mouse /\ w.alt = s.alt /\ w.ascr = s.ascr /\ w.sb = s.sb
        /\ w = [k \in DOMAIN w |-> w[k]]
    BY <2>1
  <2> HIDE DEF w
  <2>4. w = [id |-> s.id, lines |-> s.lines, formatted |-> rest, cursor |-> s.cursor, hide |-> s.hide,
             mouse |-> s.mouse, alt |-> s.alt, ascr |-> s.ascr, sb |-> s.sb]
    BY <2>1, <2>3
  <2> QED
    BY <2>2, <2>4
<1>9. DecodeHeader(h, rest) =
        [id : {s.id}, lines : {s.lines}, formatted : {rest}, cursor : {s.cursor},
         hide : {s.hide}, mouse : {s.mouse}, alt : {s.alt}, ascr : {s.ascr}, sb : {s.sb}]
  BY <1>6, <1>7
<1>10. ASSUME NEW d \in DecodeHeader(h, rest) PROVE d = [s EXCEPT !.formatted = rest]
  <2>1. d = [id |-> s.id, lines |-> s.lines, formatted |-> rest, cursor |-> s.cursor, hide |-> s.hide,
             mouse |-> s.mouse, alt |-> s.alt, ascr |-> s.ascr, sb |-> s.sb]
    BY <1>9, OneScreen
  <2> QED
    BY <1>8, <2>1
<1>11. [s EXCEPT !.formatted = rest] \in DecodeHeader(h, rest)
  BY <1>8, <1>9
<1> QED
  BY <1>10, <1>11

\* A screen is read as it was sent, header and raw rows.
LEMMA ScreensRead == \A s \in Screens : DecodeScreen(EncodeScreen(s)) = {s}
<1> SUFFICES ASSUME NEW s \in Screens PROVE DecodeScreen(EncodeScreen(s)) = {s}
  OBVIOUS
<1> DEFINE h == [id |-> Num(s.id), cursor |-> List(<<Num(s.cursor[1]), Num(s.cursor[2])>>),
                 hide |-> Flag(s.hide), mouse |-> Flag(s.mouse), alt |-> Flag(s.alt),
                 ascr |-> Flag(s.ascr), sb |-> Num(s.sb), lines |-> StrList(s.lines)]
           f == [i \in DOMAIN s.formatted |-> Raw(s.formatted[i])]
           B == {Header(h)} \cup {Raw(x) : x \in Octets}
<1>0. /\ s = [id |-> s.id, lines |-> s.lines, formatted |-> s.formatted, cursor |-> s.cursor, hide |-> s.hide,
             mouse |-> s.mouse, alt |-> s.alt, ascr |-> s.ascr, sb |-> s.sb]
      /\ s.formatted \in Seq(Octets)
  BY SamplesAssumption
<1>1. PICK p : p = EncodeScreen(s)
  OBVIOUS
<1>2. p.hlen = 1 /\ p.bytes = <<Header(h)>> \o f
  BY <1>1 DEF EncodeScreen
<1>3. DecodeHeader(h, s.formatted) = {s}
  <2>1. DecodeHeader(h, s.formatted) = {[s EXCEPT !.formatted = s.formatted]}
    BY HeaderRead
  <2>2. [s EXCEPT !.formatted = s.formatted] = s
    BY <1>0
  <2> QED
    BY <2>1, <2>2
<1> HIDE DEF h
<1> DEFINE n == Len(s.formatted)
<1>4. /\ n \in Nat /\ DOMAIN s.formatted = 1 .. n /\ \A i \in 1 .. n : s.formatted[i] \in Octets
      /\ s.formatted = [i \in 1 .. n |-> s.formatted[i]]
  BY <1>0, LenProperties, ElementOfSeq
<1>5. f \in Seq(B) /\ Len(f) = n /\ \A i \in 1 .. n : f[i] = Raw(s.formatted[i])
  <2>1. f \in [1 .. n -> B]
    BY <1>4
  <2>2. f \in Seq(B)
    BY <1>4, <2>1, SeqDef
  <2> QED
    BY <1>4, <2>1, <2>2, LenProperties
<1>6. /\ Len(p.bytes) = n + 1 /\ p.bytes[1] = Header(h) /\ p.bytes # <<>>
      /\ \A i \in 1 .. n : p.bytes[i + 1] = Raw(s.formatted[i])
  <2>1. <<Header(h)>> \in Seq(B) /\ Len(<<Header(h)>>) = 1 /\ <<Header(h)>>[1] = Header(h)
    OBVIOUS
  <2> HIDE DEF f, B, n
  <2>2. /\ <<Header(h)>> \o f \in Seq(B) /\ Len(<<Header(h)>> \o f) = 1 + n
        /\ \A i \in 1 .. 1 + n : (<<Header(h)>> \o f)[i] = IF i <= 1 THEN <<Header(h)>>[i] ELSE f[i - 1]
    BY <1>5, <2>1, ConcatProperties
  <2>3. \A i \in 1 .. n : i + 1 \in 1 .. 1 + n /\ ~(i + 1 <= 1) /\ i + 1 - 1 = i
    BY <1>4
  <2> QED
    BY <1>2, <1>4, <1>5, <2>1, <2>2, <2>3
<1> HIDE DEF f, B
<1>7. \A x : Raw(x).raw = {x} /\ Header(x).header = {x}
  BY DEF Raw, Header
<1>8. \A i \in 2 .. Len(p.bytes) : p.bytes[i].raw # {}
  <2>1. ASSUME NEW i \in 2 .. Len(p.bytes) PROVE p.bytes[i].raw # {}
    <3>1. i - 1 \in 1 .. n /\ i - 1 + 1 = i
      BY <1>4, <1>6
    <3>2. p.bytes[i] = Raw(s.formatted[i - 1])
      BY <1>6, <3>1
    <3> QED
      BY <1>7, <3>2
  <2> QED
    BY <2>1
<1>9. \A i \in 1 .. n : (CHOOSE x \in p.bytes[i + 1].raw : TRUE) = s.formatted[i]
  BY <1>6, <1>7, ChooseOne
<1>10. [i \in 1 .. Len(p.bytes) - 1 |-> CHOOSE x \in p.bytes[i + 1].raw : TRUE] = s.formatted
  <2>1. Len(p.bytes) - 1 = n
    BY <1>4, <1>6
  <2>2. [i \in 1 .. n |-> CHOOSE x \in p.bytes[i + 1].raw : TRUE] = [i \in 1 .. n |-> s.formatted[i]]
    BY <1>9
  <2> QED
    BY <1>4, <2>1, <2>2
<1>11. DecodeScreen(p) = UNION {DecodeHeader(x, s.formatted) : x \in {h}}
  <2>1. p.bytes[1].header = {h}
    BY <1>6, <1>7
  <2>2. DecodeScreen(p) = UNION {DecodeHeader(x, [i \in 1 .. Len(p.bytes) - 1 |-> CHOOSE y \in p.bytes[i + 1].raw : TRUE]) :
                                    x \in p.bytes[1].header}
    BY <1>2, <1>6, <1>8, Zenon DEF DecodeScreen
  <2> QED
    BY <1>10, <2>1, <2>2
<1> QED
  BY <1>1, <1>3, <1>11

\* The environment of a hello, pair by pair.
LEMMA EnvRead ==
  ASSUME NEW env \in Seq(Octets \X Octets), NEW v,
         v = List([i \in DOMAIN env |-> List(<<B64(env[i][1]), B64(env[i][2])>>)])
  PROVE  AllOf([i \in DOMAIN Members(v) |-> FromB64(Nth(Members(v)[i], 1)) \X FromB64(Nth(Members(v)[i], 2))])
           = {env}
<1> DEFINE l == [i \in DOMAIN env |-> List(<<B64(env[i][1]), B64(env[i][2])>>)]
           parts == [i \in DOMAIN l |-> FromB64(Nth(l[i], 1)) \X FromB64(Nth(l[i], 2))]
<1>0. \A i \in DOMAIN env : env[i] \in Octets \X Octets
  BY LenProperties, ElementOfSeq
<1>1. Members(v) = l
  BY MembersRead
<1>2. DOMAIN l = DOMAIN env /\ \A i \in DOMAIN env : l[i] = List(<<B64(env[i][1]), B64(env[i][2])>>)
  OBVIOUS
<1> HIDE DEF l
<1>3. ASSUME NEW i \in DOMAIN env PROVE FromB64(Nth(l[i], 1)) \X FromB64(Nth(l[i], 2)) = {env[i]}
  <2>1. env[i][1] \in Octets /\ env[i][2] \in Octets /\ env[i] = <<env[i][1], env[i][2]>>
    BY <1>0
  <2>2. Members(l[i]) = <<B64(env[i][1]), B64(env[i][2])>>
    BY <1>2, MembersRead
  <2>3. Nth(l[i], 1) = B64(env[i][1]) /\ Nth(l[i], 2) = B64(env[i][2])
    BY <2>2 DEF Nth
  <2>4. FromB64(Nth(l[i], 1)) = {env[i][1]} /\ FromB64(Nth(l[i], 2)) = {env[i][2]}
    BY <2>1, <2>3, B64Read
  <2>5. \A x, y : {x} \X {y} = {<<x, y>>}
    OBVIOUS
  <2> QED
    BY <2>1, <2>4, <2>5
<1>4. DOMAIN parts = DOMAIN env /\ \A i \in DOMAIN env : parts[i] = {env[i]}
  BY <1>2, <1>3
<1> HIDE DEF parts
<1>5. AllOf(parts) = {env}
  BY <1>4, AllRead
<1> QED
  BY <1>1, <1>5 DEF parts

\* The parts of a hello.
LEMMA HelloGet ==
  ASSUME NEW v, NEW ctx
  PROVE  /\ DOMAIN EncodeHello(v, ctx) = {"v", "cwd", "env"}
         /\ Get(EncodeHello(v, ctx), "v") = Num(v) /\ Get(EncodeHello(v, ctx), "cwd") = B64(ctx.cwd)
         /\ Get(EncodeHello(v, ctx), "env") =
              List([i \in DOMAIN ctx.env |-> List(<<B64(ctx.env[i][1]), B64(ctx.env[i][2])>>)])
BY DEF EncodeHello, Get

\* A hello is read as it was sent, with its launch context.
LEMMA HelloRead ==
  ASSUME NEW ctx \in Contexts, NEW v \in 0 .. U32
  PROVE  DecodeHello(EncodeHello(v, ctx)) = {[v |-> v, ctx |-> ctx]}
<1>0. ctx \in [cwd : Octets, env : Seq(Octets \X Octets)]
  BY SamplesAssumption
<1>1. PICK o : o = EncodeHello(v, ctx)
  OBVIOUS
<1>2. NumFrom(Get(o, "v"), U32) = {v}
  <2>1. NumOf(Num(v), U32) = {v}
    BY NumRead, Widths
  <2> QED
    BY <1>1, <2>1, HelloGet DEF NumOf
<1>3. FromB64(Get(o, "cwd")) = {ctx.cwd}
  BY <1>0, <1>1, HelloGet, B64Read
<1> DEFINE E == AllOf([i \in DOMAIN Members(Get(o, "env")) |->
                         FromB64(Nth(Members(Get(o, "env"))[i], 1)) \X FromB64(Nth(Members(Get(o, "env"))[i], 2))])
<1>4. E = {ctx.env}
  <2>1. ctx.env \in Seq(Octets \X Octets)
    BY <1>0
  <2>2. Get(o, "env") = List([i \in DOMAIN ctx.env |-> List(<<B64(ctx.env[i][1]), B64(ctx.env[i][2])>>)])
    BY <1>1, HelloGet, Zenon
  <2> QED
    BY <2>1, <2>2, EnvRead, Zenon
<1>5. DecodeHello(o) = [v : NumFrom(Get(o, "v"), U32), ctx : [cwd : FromB64(Get(o, "cwd")), env : E]]
  BY Zenon DEF DecodeHello
<1> HIDE DEF E
<1>6. DecodeHello(o) = [v : {v}, ctx : [cwd : {ctx.cwd}, env : {ctx.env}]]
  BY <1>2, <1>3, <1>4, <1>5
<1>7. [cwd : {ctx.cwd}, env : {ctx.env}] = {ctx}
  <2>1. ctx = [cwd |-> ctx.cwd, env |-> ctx.env]
    BY <1>0
  <2>2. ASSUME NEW d \in [cwd : {ctx.cwd}, env : {ctx.env}] PROVE d = ctx
    BY <2>1
  <2>3. ctx \in [cwd : {ctx.cwd}, env : {ctx.env}]
    BY <2>1
  <2> QED
    BY <2>2, <2>3
<1>8. ASSUME NEW x, NEW y PROVE [v : {x}, ctx : {y}] = {[v |-> x, ctx |-> y]}
  <2>1. ASSUME NEW d \in [v : {x}, ctx : {y}] PROVE d = [v |-> x, ctx |-> y]
    OBVIOUS
  <2>2. [v |-> x, ctx |-> y] \in [v : {x}, ctx : {y}]
    OBVIOUS
  <2> QED
    BY <2>1, <2>2
<1> QED
  BY <1>1, <1>6, <1>7, <1>8

-----------------------------------------------------------------------------
(* Frames.                                                                 *)

\* What a stream that begins with a frame reads as, however far it has come.
LEMMA FrameAhead ==
  ASSUME NEW p \in Seq(Nat), NEW k \in Nat, Len(p) <= MaxFrame, NEW t \in Seq(Nat),
         NEW n \in 0 .. 2 + Len(p) + Len(t)
  PROVE  LET s == SubSeq((<<Len(p), k>> \o p) \o t, 1, n)
         IN  ReadFrame(s) = IF n >= 2 + Len(p)
                              THEN {[kind |-> k, payload |-> p, rest |-> SubSeq(s, 3 + Len(p), Len(s))]}
                              ELSE {}
<1> DEFINE head == <<Len(p), k>>
           f == head \o p
           both == f \o t
           s == SubSeq(both, 1, n)
<1>0. Len(p) \in Nat /\ Len(t) \in Nat /\ MaxFrame \in Nat /\ n \in Nat
  BY LenProperties, WireAssumption
<1>1. head \in Seq(Nat) /\ Len(head) = 2 /\ head[1] = Len(p) /\ head[2] = k
  BY <1>0
<1> HIDE DEF head
<1>2. f \in Seq(Nat) /\ Len(f) = 2 + Len(p) /\ \A i \in 1 .. 2 + Len(p) : f[i] = IF i <= 2 THEN head[i] ELSE p[i - 2]
  <2>1. /\ f \in Seq(Nat) /\ Len(f) = Len(head) + Len(p)
        /\ \A i \in 1 .. Len(head) + Len(p) : f[i] = IF i <= Len(head) THEN head[i] ELSE p[i - Len(head)]
    BY <1>1, ConcatProperties
  <2> HIDE DEF f
  <2> QED
    BY <1>1, <2>1
<1> HIDE DEF f
<1>3. /\ both \in Seq(Nat) /\ Len(both) = 2 + Len(p) + Len(t)
      /\ \A i \in 1 .. 2 + Len(p) : both[i] = f[i]
      /\ \A i \in 1 .. Len(both) : both[i] \in Nat
  <2>1. /\ both \in Seq(Nat) /\ Len(both) = Len(f) + Len(t)
        /\ \A i \in 1 .. Len(f) + Len(t) : both[i] = IF i <= Len(f) THEN f[i] ELSE t[i - Len(f)]
    BY <1>2, ConcatProperties
  <2>2. \A i \in 1 .. Len(both) : both[i] \in Nat
    BY <2>1, ElementOfSeq
  <2> HIDE DEF both
  <2>3. Len(both) = 2 + Len(p) + Len(t)
    BY <1>2, <2>1
  <2>4. ASSUME NEW i \in 1 .. 2 + Len(p) PROVE both[i] = f[i]
    BY <1>0, <1>2, <2>1
  <2> QED
    BY <2>1, <2>2, <2>3, <2>4
<1> HIDE DEF both
<1>4. /\ s \in Seq(Nat) /\ Len(s) = n /\ \A i \in 1 .. n : s[i] = both[i] /\ s[i] \in Nat
  <2>1. \A i \in 1 .. n : both[i] \in Nat
    BY <1>0, <1>3
  <2>2. /\ s \in Seq(Nat) /\ Len(s) = IF 1 <= n THEN n - 1 + 1 ELSE 0
        /\ \A i \in 1 .. n - 1 + 1 : s[i] = both[1 + i - 1]
    BY <1>0, <2>1, SubSeqProperties
  <2> QED
    BY <1>0, <2>1, <2>2
<1> HIDE DEF s
<1>5. n >= 2 => s[1] = Len(p) /\ s[2] = k
  <2>1. n >= 2 => \A i \in {1, 2} : i \in 1 .. n /\ i \in 1 .. 2 + Len(p) /\ i <= 2
    BY <1>0
  <2>2. n >= 2 => \A i \in {1, 2} : s[i] = head[i]
    BY <1>2, <1>3, <1>4, <2>1
  <2> QED
    BY <1>1, <2>2
<1>6. ReadFrame(s) = IF n >= 2 + Len(p)
                      THEN {[kind |-> k, payload |-> p, rest |-> SubSeq(s, 3 + Len(p), Len(s))]}
                      ELSE {}
  <2>1. CASE n < 2
    BY <1>0, <1>4, <2>1 DEF ReadFrame
  <2>2. CASE n >= 2 /\ n < 2 + Len(p)
    <3>1. s[1] = Len(p) /\ Len(s) < 2 + s[1]
      BY <1>0, <1>4, <1>5, <2>2
    <3> QED
      BY <1>0, <2>2, <3>1 DEF ReadFrame
  <2>3. CASE n >= 2 + Len(p)
    <3>1. ASSUME NEW i \in 3 .. 2 + Len(p) PROVE s[i] \in Nat /\ s[i] = p[i - 2]
      <4>1. i \in 1 .. n /\ i \in 1 .. 2 + Len(p) /\ ~(i <= 2)
        BY <1>0, <2>3
      <4> QED
        BY <1>2, <1>3, <1>4, <4>1
    <3>2. SubSeq(s, 3, 2 + Len(p)) = p
      <4>1. /\ SubSeq(s, 3, 2 + Len(p)) \in Seq(Nat)
            /\ Len(SubSeq(s, 3, 2 + Len(p))) = IF 3 <= 2 + Len(p) THEN 2 + Len(p) - 3 + 1 ELSE 0
            /\ \A i \in 1 .. 2 + Len(p) - 3 + 1 : SubSeq(s, 3, 2 + Len(p))[i] = s[3 + i - 1]
        BY <1>0, <3>1, SubSeqProperties
      <4> DEFINE u == SubSeq(s, 3, 2 + Len(p))
      <4> HIDE DEF u
      <4>2. Len(u) = Len(p)
        BY <1>0, <4>1 DEF u
      <4>3. ASSUME NEW i \in 1 .. Len(p) PROVE u[i] = p[i]
        <5>1. i \in 1 .. 2 + Len(p) - 3 + 1 /\ 3 + i - 1 \in 3 .. 2 + Len(p) /\ 3 + i - 1 - 2 = i
          BY <1>0
        <5> QED
          BY <3>1, <4>1, <5>1 DEF u
      <4>4. u \in Seq(Nat)
        BY <4>1 DEF u
      <4> QED
        BY <4>2, <4>3, <4>4, SeqEqual DEF u
    <3>3. ~(Len(s) < 2) /\ ~(s[1] > MaxFrame) /\ ~(Len(s) < 2 + s[1]) /\ s[1] = Len(p) /\ s[2] = k
      BY <1>0, <1>4, <1>5, <2>3
    <3> QED
      BY <2>3, <3>2, <3>3 DEF ReadFrame
  <2> QED
    BY <1>0, <2>1, <2>2, <2>3
<1> QED
  BY <1>6 DEF s, both, f, head

\* write_frame writes a whole frame or nothing.
LEMMA FrameIs ==
  ASSUME NEW x \in Seq(Nat), NEW kind \in Nat
  PROVE  /\ ~(Len(x) <= MaxFrame) => WriteFrame(kind, x) = <<>>
         /\ Len(x) <= MaxFrame =>
              /\ WriteFrame(kind, x) = <<Len(x), kind>> \o x /\ WriteFrame(kind, x) \in Seq(Nat)
              /\ Len(WriteFrame(kind, x)) = 2 + Len(x) /\ WriteFrame(kind, x) # <<>>
<1>1. Len(x) \in Nat /\ MaxFrame \in Nat
  BY LenProperties, WireAssumption
<1>2. <<Len(x), kind>> \in Seq(Nat) /\ Len(<<Len(x), kind>>) = 2
  BY <1>1
<1>3. <<Len(x), kind>> \o x \in Seq(Nat) /\ Len(<<Len(x), kind>> \o x) = 2 + Len(x)
  BY <1>2, ConcatProperties
<1>4. <<Len(x), kind>> \o x # <<>>
  BY <1>1, <1>3, EmptySeq
<1> QED
  BY <1>1, <1>3, <1>4 DEF WriteFrame

\* A frame and nothing after it.
LEMMA FrameAlone ==
  ASSUME NEW q \in Seq(Nat), NEW kind \in Nat, Len(q) <= MaxFrame
  PROVE  \A n \in 0 .. Len(WriteFrame(kind, q)) :
           ReadFrame(SubSeq(WriteFrame(kind, q), 1, n)) =
             IF n >= Len(WriteFrame(kind, q)) /\ n > 0 THEN {[kind |-> kind, payload |-> q, rest |-> <<>>]} ELSE {}
<1> DEFINE f == WriteFrame(kind, q)
<1>1. f = <<Len(q), kind>> \o q /\ f \in Seq(Nat) /\ Len(f) = 2 + Len(q) /\ Len(q) \in Nat
  BY FrameIs, LenProperties, Zenon
<1> HIDE DEF f
<1> SUFFICES ASSUME NEW n \in 0 .. Len(f)
             PROVE  ReadFrame(SubSeq(f, 1, n)) =
                      IF n >= Len(f) /\ n > 0 THEN {[kind |-> kind, payload |-> q, rest |-> <<>>]} ELSE {}
  BY DEF f
<1>2. PICK t \in Seq(Nat) : t = <<>> /\ Len(t) = 0
  BY EmptySeq
<1>3. f = (<<Len(q), kind>> \o q) \o t
  BY <1>1, <1>2, ConcatEmptySeq
<1>4. n \in 0 .. 2 + Len(q) + Len(t) /\ (n >= 2 + Len(q) => n > 0 /\ n = Len(f))
  BY <1>1, <1>2
<1>5. ReadFrame(SubSeq(f, 1, n)) =
        IF n >= 2 + Len(q)
          THEN {[kind |-> kind, payload |-> q,
                 rest |-> SubSeq(SubSeq(f, 1, n), 3 + Len(q), Len(SubSeq(f, 1, n)))]}
          ELSE {}
  <2> DEFINE ReadsOn(g) == ReadFrame(SubSeq(g, 1, n)) =
               IF n >= 2 + Len(q)
                 THEN {[kind |-> kind, payload |-> q,
                        rest |-> SubSeq(SubSeq(g, 1, n), 3 + Len(q), Len(SubSeq(g, 1, n)))]}
                 ELSE {}
  <2>1. ReadsOn((<<Len(q), kind>> \o q) \o t)
    BY <1>4, FrameAhead, Zenon
  <2> HIDE DEF ReadsOn
  <2>2. ReadsOn(f)
    BY <1>3, <2>1, Zenon
  <2> QED
    BY <2>2 DEF ReadsOn
<1>6. n >= 2 + Len(q) => SubSeq(SubSeq(f, 1, n), 3 + Len(q), Len(SubSeq(f, 1, n))) = <<>>
  <2>1. SubSeq(f, 1, Len(f)) = f
    BY <1>1, SubSeqFull
  <2>2. SubSeq(f, 3 + Len(q), Len(f)) = <<>>
    BY <1>1, SubSeqEmpty
  <2> QED
    BY <1>4, <2>1, <2>2
<1> QED
  BY <1>1, <1>4, <1>5, <1>6

\* Two frames on a stream come out as they went in, however it is cut.
LEMMA FramesAreWhole == FramesWhole
<1> DEFINE P == UNION {[1 .. n -> 0 .. 1] : n \in 0 .. MaxFrame + 1}
<1>0. MaxFrame \in Nat
  BY WireAssumption
<1>1. ASSUME NEW p \in P PROVE p \in Seq(Nat) /\ Len(p) \in Nat
  <2>1. PICK n \in 0 .. MaxFrame + 1 : p \in [1 .. n -> 0 .. 1]
    OBVIOUS
  <2>2. p \in [1 .. n -> Nat] /\ n \in Nat
    BY <1>0, <2>1
  <2> QED
    BY <2>2, SeqDef, LenProperties
<1> HIDE DEF P
<1> SUFFICES ASSUME NEW p \in P, NEW q \in P, NEW k \in 1 .. 3
             PROVE  LET first == WriteFrame(k, p)
                        both  == first \o WriteFrame(4 - k, q)
                        next(s) == IF first # <<>>
                                     THEN [kind |-> k, payload |-> p, rest |-> SubSeq(s, Len(first) + 1, Len(s))]
                                     ELSE [kind |-> 4 - k, payload |-> q, rest |-> <<>>]
                        whole == IF first # <<>> THEN Len(first) ELSE Len(both)
                    IN  \A n \in 0 .. Len(both) :
                          LET s == SubSeq(both, 1, n)
                          IN  ReadFrame(s) = IF n >= whole /\ n > 0 THEN {next(s)} ELSE {}
  BY DEF FramesWhole, P
<1> DEFINE first == WriteFrame(k, p)
           second == WriteFrame(4 - k, q)
           both == first \o second
<1>2. /\ p \in Seq(Nat) /\ q \in Seq(Nat) /\ Len(p) \in Nat /\ Len(q) \in Nat /\ k \in Nat /\ 4 - k \in Nat
  BY <1>1
<1>3. /\ ~(Len(p) <= MaxFrame) => first = <<>>
      /\ Len(p) <= MaxFrame => first = <<Len(p), k>> \o p /\ first \in Seq(Nat) /\ Len(first) = 2 + Len(p) /\ first # <<>>
      /\ ~(Len(q) <= MaxFrame) => second = <<>>
      /\ Len(q) <= MaxFrame =>
           second = <<Len(q), 4 - k>> \o q /\ second \in Seq(Nat) /\ Len(second) = 2 + Len(q) /\ second # <<>>
  BY <1>2, FrameIs, Zenon
<1> HIDE DEF first, second
<1>4. second \in Seq(Nat)
  BY <1>2, <1>3, EmptySeq
<1>5. CASE Len(p) <= MaxFrame
  <2>1. first = <<Len(p), k>> \o p /\ first \in Seq(Nat) /\ Len(first) = 2 + Len(p) /\ first # <<>>
    BY <1>0, <1>2, <1>3, <1>5
  <2>2. Len(both) = 2 + Len(p) + Len(second) /\ Len(second) \in Nat
    BY <1>4, <2>1, ConcatProperties, LenProperties
  <2>3. ASSUME NEW n \in 0 .. Len(both)
        PROVE  ReadFrame(SubSeq(both, 1, n)) =
                 IF n >= Len(first) /\ n > 0
                   THEN {[kind |-> k, payload |-> p,
                          rest |-> SubSeq(SubSeq(both, 1, n), Len(first) + 1, Len(SubSeq(both, 1, n)))]}
                   ELSE {}
    <3>1. n \in 0 .. 2 + Len(p) + Len(second) /\ (n >= 2 + Len(p) => n > 0) /\ Len(first) + 1 = 3 + Len(p)
      BY <1>2, <2>1, <2>2
    <3>2. both = (<<Len(p), k>> \o p) \o second
      BY <2>1
    <3>3. ReadFrame(SubSeq(both, 1, n)) =
            IF n >= 2 + Len(p)
              THEN {[kind |-> k, payload |-> p,
                     rest |-> SubSeq(SubSeq(both, 1, n), 3 + Len(p), Len(SubSeq(both, 1, n)))]}
              ELSE {}
      BY <1>2, <1>4, <1>5, <3>1, <3>2, FrameAhead, Zenon
    <3> QED
      BY <2>1, <3>1, <3>3
  <2> QED
    BY <2>1, <2>3 DEF first, second
<1>6. CASE ~(Len(p) <= MaxFrame)
  <2>1. first = <<>>
    BY <1>0, <1>2, <1>3, <1>6
  <2>2. both = second
    BY <1>4, <2>1, ConcatEmptySeq
  <2>3. CASE Len(q) <= MaxFrame
    <3>1. \A n \in 0 .. Len(second) :
            ReadFrame(SubSeq(second, 1, n)) =
              IF n >= Len(second) /\ n > 0 THEN {[kind |-> 4 - k, payload |-> q, rest |-> <<>>]} ELSE {}
      BY <1>2, <2>3, FrameAlone, Zenon DEF second
    <3> QED
      BY <2>1, <2>2, <3>1 DEF first, second
  <2>4. CASE ~(Len(q) <= MaxFrame)
    <3>1. second = <<>> /\ Len(second) = 0
      BY <1>0, <1>2, <1>3, <2>4, EmptySeq
    <3>2. ReadFrame(SubSeq(second, 1, 0)) = {}
      <4>1. SubSeq(second, 1, 0) = <<>> /\ Len(<<>>) = 0
        BY SubSeqEmpty, EmptySeq
      <4> QED
        BY <4>1 DEF ReadFrame
    <3>3. \A n \in 0 .. Len(second) : n = 0
      BY <3>1
    <3>4. \A n \in 0 .. Len(both) : ReadFrame(SubSeq(both, 1, n)) = {} /\ ~(n > 0)
      BY <2>2, <3>2, <3>3
    <3> QED
      BY <3>4 DEF first, second
  <2> QED
    BY <2>3, <2>4
<1> QED
  BY <1>5, <1>6

-----------------------------------------------------------------------------
(* The two ends of a handshake.                                            *)

\* What is sent is what is read.
LEMMA AllIsRead == SentIsRead
BY FramesAreWhole, CommandsRead, EventsRead, ScreensRead, HelloRead DEF SentIsRead

\* A refusal is read as it was written, whatever its text.
LEMMA RefusalRead ==
  ASSUME NEW m
  PROVE  DecodeEvent(EncodeEvent([t |-> "status", msg |-> m])) = {[t |-> "status", msg |-> m]}
<1> DEFINE e == [t |-> "status", msg |-> m]
<1>1. PICK o : o = EncodeEvent(e)
  OBVIOUS
<1>2. Get(o, "t") = Str("status") /\ Get(o, "msg") = Str(m)
  <2>0. e.t = "status" /\ e.msg = m
    OBVIOUS
  <2> HIDE DEF e
  <2>1. EncodeEvent(e) = Joined([t |-> Str(e.t)], [msg |-> Str(e.msg)])
    BY <2>0, Zenon DEF EncodeEvent
  <2> QED
    BY <1>1, <2>0, <2>1, JoinedGet DEF Get
<1>3. Get(o, "msg").str = {m}
  BY <1>2, Parts
<1>4. DecodeEventAs("status", o) = [t : {"status"}, msg : {m}]
  BY <1>3, Zenon DEF DecodeEventAs
<1>5. [t : {"status"}, msg : {m}] = {e}
  <2>1. ASSUME NEW d \in [t : {"status"}, msg : {m}] PROVE d = e
    OBVIOUS
  <2>2. e \in [t : {"status"}, msg : {m}]
    OBVIOUS
  <2> QED
    BY <2>1, <2>2
<1> QED
  BY <1>1, <1>2, <1>4, <1>5, EventKindRead

\* An acknowledgement is read as one.
LEMMA HelloOkIsRead == DecodeEvent(EncodeEvent([t |-> "hello_ok"])) = {[t |-> "hello_ok"]}
<1>1. [t |-> "hello_ok"] \in [t : {"hello_ok"}]
  OBVIOUS
<1>2. AsReceived([t |-> "hello_ok"]) = [t |-> "hello_ok"]
  BY DEF AsReceived
<1> QED
  BY <1>1, <1>2, HelloOkRead

\* What the client makes of the one reply it gets.
LEMMA ReplyRead ==
  ASSUME NEW o, NEW e, DecodeEvent(o) = {e}
  PROVE  /\ e.t = "hello_ok" => ConnectReady({o}) = [ready |-> TRUE, error |-> {}]
         /\ e.t = "status" => ConnectReady({o}) = [ready |-> FALSE, error |-> {e.msg}]
         /\ e.t # "hello_ok" => ~ConnectReady({o}).ready
<1>1. ConnectReady({o}) = CheckHelloAck(o)
  BY ChooseOne DEF ConnectReady
<1>2. CASE e.t = "hello_ok"
  <2>1. CheckHelloAck(o) = [ready |-> TRUE, error |-> {}]
    BY <1>2, Zenon DEF CheckHelloAck
  <2> QED
    BY <1>1, <1>2, <2>1
<1>3. CASE e.t = "status"
  <2>1. ~(\E x \in DecodeEvent(o) : x.t = "hello_ok") /\ \E x \in DecodeEvent(o) : x.t = "status"
    BY <1>3
  <2>2. CheckHelloAck(o) = [ready |-> FALSE, error |-> {x.msg : x \in DecodeEvent(o)}]
    BY <2>1, Zenon DEF CheckHelloAck
  <2>3. {x.msg : x \in DecodeEvent(o)} = {e.msg}
    OBVIOUS
  <2>4. ConnectReady({o}) = [ready |-> FALSE, error |-> {e.msg}]
    BY <1>1, <2>2, <2>3, Zenon
  <2>5. e.t # "hello_ok" /\ ~ConnectReady({o}).ready
    BY <1>3, <2>4
  <2> QED
    BY <2>4, <2>5, Zenon
<1>4. CASE e.t # "hello_ok" /\ e.t # "status"
  <2>1. ~(\E x \in DecodeEvent(o) : x.t = "hello_ok") /\ ~(\E x \in DecodeEvent(o) : x.t = "status")
    BY <1>4
  <2>2. CheckHelloAck(o) = [ready |-> FALSE, error |-> {"stale"}]
    BY <2>1, Zenon DEF CheckHelloAck
  <2> QED
    BY <1>1, <1>4, <2>2
<1> QED
  BY <1>2, <1>3, <1>4

\* A damaged field is missing or has some other value; the others are as they were.
LEMMA CorruptedGet ==
  ASSUME NEW o, NEW keys, NEW d \in Corrupted(o, keys)
  PROVE  /\ \A k : Get(d, k) = Get(o, k) \/ Get(d, k) \in Values
         /\ \A k : k \notin keys => Get(d, k) = Get(o, k)
<1>1. Null \in Values
  BY DEF Values
<1>2. ASSUME NEW x \in keys, d = Without(o, x)
      PROVE  \A k : Get(d, k) = IF k = x THEN Null ELSE Get(o, k)
  BY <1>2 DEF Without, Get
<1>3. ASSUME NEW x \in keys, NEW v \in Values, d = Replaced(o, x, v)
      PROVE  \A k : Get(d, k) = IF k = x THEN v ELSE Get(o, k)
  BY <1>3 DEF Replaced, Get
<1>4. \/ \E x \in keys : d = Without(o, x)
      \/ \E x \in keys, v \in Values : d = Replaced(o, x, v)
  BY DEF Corrupted
<1> QED
  BY <1>1, <1>2, <1>3, <1>4

\* A handshake serves between equal versions alone, and both ends know.
LEMMA BothEndsAgree == HandshakeAgreed
<1>1. ASSUME NEW ctx \in Contexts, NEW client \in 0 .. U32, NEW daemon \in 0 .. U32
      PROVE  LET answer == Handshake(daemon, EncodeHello(client, ctx))
                 end    == ConnectReady({EncodeEvent(answer)})
             IN  /\ (answer.t = "hello_ok") <=> client = daemon
                 /\ end = IF client = daemon THEN [ready |-> TRUE, error |-> {}]
                          ELSE [ready |-> FALSE, error |-> {<<daemon, {client}>>}]
  <2> DEFINE o == EncodeHello(client, ctx)
  <2>1. DecodeHello(o) = {[v |-> client, ctx |-> ctx]} /\ HelloVersion(o) = {client}
    <3>1. NumOf(Num(client), U32) = {client}
      BY NumRead, Widths
    <3> QED
      BY <3>1, HelloRead, HelloGet DEF HelloVersion, NumOf
  <2> HIDE DEF o
  <2>2. CASE client = daemon
    <3>1. Handshake(daemon, o) = [t |-> "hello_ok"]
      BY <2>1, <2>2 DEF Handshake
    <3>2. ConnectReady({EncodeEvent([t |-> "hello_ok"])}) = [ready |-> TRUE, error |-> {}]
      <4> DEFINE e == [t |-> "hello_ok"]
      <4>1. DecodeEvent(EncodeEvent(e)) = {e} /\ e.t = "hello_ok"
        BY HelloOkIsRead
      <4> HIDE DEF e
      <4>2. ConnectReady({EncodeEvent(e)}) = [ready |-> TRUE, error |-> {}]
        BY <4>1, ReplyRead, Zenon
      <4> QED
        BY <4>2 DEF e
    <3> QED
      BY <2>2, <3>1, <3>2 DEF o
  <2>3. CASE client # daemon
    <3>1. HelloVersion(o) \ {daemon} = {client}
      BY <2>1, <2>3
    <3>2. Handshake(daemon, o) = [t |-> "status", msg |-> <<daemon, {client}>>]
      BY <2>1, <2>3, <3>1 DEF Handshake, Refusal
    <3>3. ConnectReady({EncodeEvent([t |-> "status", msg |-> <<daemon, {client}>>])}) =
            [ready |-> FALSE, error |-> {<<daemon, {client}>>}]
      <4> DEFINE m == <<daemon, {client}>>
                 e == [t |-> "status", msg |-> m]
      <4>1. DecodeEvent(EncodeEvent(e)) = {e}
        BY RefusalRead
      <4>2. e.t = "status" /\ e.msg = m
        OBVIOUS
      <4> HIDE DEF m, e
      <4>3. ConnectReady({EncodeEvent(e)}) = [ready |-> FALSE, error |-> {m}]
        BY <4>1, <4>2, ReplyRead, Zenon
      <4> QED
        BY <4>3 DEF m, e
    <3> QED
      BY <2>3, <3>2, <3>3 DEF o
  <2> QED
    BY <2>2, <2>3
<1>2. ASSUME NEW ctx \in Contexts, NEW daemon \in 0 .. U32,
             NEW o \in Corrupted(EncodeHello(daemon, ctx), {"v", "cwd", "env"}),
             Handshake(daemon, o).t = "hello_ok"
      PROVE  DecodeHello(o) # {} /\ Get(o, "v") = Num(daemon)
  <2>1. PICK h \in DecodeHello(o) : h.v = daemon
    <3>1. [t |-> "status", msg |-> <<daemon, HelloVersion(o) \ {daemon}>>].t # "hello_ok"
      OBVIOUS
    <3> QED
      BY <1>2, <3>1 DEF Handshake, Refusal
  <2>2. h.v \in NumFrom(Get(o, "v"), U32)
    BY DEF DecodeHello
  <2>3. daemon \in Get(o, "v").num
    BY <2>1, <2>2 DEF NumFrom
  <2>4. Get(o, "v") \in Values \cup {Num(daemon)}
    <3>1. Get(o, "v") = Get(EncodeHello(daemon, ctx), "v") \/ Get(o, "v") \in Values
      BY CorruptedGet, Zenon
    <3>2. Get(EncodeHello(daemon, ctx), "v") = Num(daemon)
      BY HelloGet
    <3> QED
      BY <3>1, <3>2
  <2>5. Get(o, "v") = Num(daemon)
    BY <2>3, <2>4, Parts DEF Values
  <2> QED
    BY <2>1, <2>5
<1>3. ASSUME NEW e \in Events, e.t # "hello_ok" PROVE ~ConnectReady({EncodeEvent(e)}).ready
  <2>1. DecodeEvent(EncodeEvent(e)) = {AsReceived(e)}
    BY EventsRead
  <2>2. AsReceived(e).t # "hello_ok"
    BY <1>3 DEF AsReceived, Events
  <2> QED
    BY <2>1, <2>2, ReplyRead, Zenon
<1>4. ~ConnectReady({}).ready
  BY DEF ConnectReady
<1> QED
  BY <1>1, <1>2, <1>3, <1>4 DEF HandshakeAgreed

-----------------------------------------------------------------------------
(* What is read of a damaged message is what it says.                      *)

\* A value of one JSON type; its number, if it has one, fits the widest.
Plain(v) ==
  \/ v = Null
  \/ \E s : v = Str(s)
  \/ \E n \in 0 .. U64 : v = Num(n)
  \/ \E b \in BOOLEAN : v = Flag(b)
  \/ \E l : v = List(l)

\* The keys that hold texts.
TextKeys == {"command", "agent", "group", "g", "n", "name", "stem"}

\* An object that a JSON text of the program's strings can give.
Legal(o) ==
  /\ \A k : Plain(Get(o, k))
  /\ \A k \in TextKeys : Get(o, k).str \subseteq Strings

\* What is read of a plain value is the value.
LEMMA PlainSays ==
  ASSUME NEW v, Plain(v)
  PROVE  /\ \A x \in v.str : v = Str(x)
         /\ \A x \in v.num : v = Num(x) /\ x \in 0 .. U64
         /\ \A x \in v.flag : v = Flag(x) /\ x \in BOOLEAN
         /\ IsNull(v) => v = Null
BY Parts DEF Plain

\* The same of base64, of numbers with a width, of optional fields, flags and tags.
LEMMA BytesSay ==
  ASSUME NEW v, Plain(v), NEW x \in FromB64(v)
  PROVE  v = B64(x) /\ x \in Octets
BY PlainSays DEF FromB64, B64

LEMMA FitSays ==
  ASSUME NEW v, Plain(v), NEW max \in Nat, NEW x \in NumOf(v, max)
  PROVE  v = Num(x) /\ x \in 0 .. max
<1>1. v = Num(x) /\ x \in 0 .. U64 /\ x <= max
  BY PlainSays DEF NumOf, NumFrom
<1> QED
  BY <1>1, Widths

LEMMA OptSays ==
  ASSUME NEW v, Plain(v), v.str \subseteq Strings, NEW T \in OptStr(v)
  PROVE  /\ T \in Maybe(Strings)
         /\ T = {} => v = Null
         /\ T # {} => v \in Texts(T)
<1>1. CASE IsNull(v)
  BY <1>1, PlainSays DEF OptStr, Maybe
<1>2. CASE ~IsNull(v)
  <2>1. PICK s \in v.str : T = {s}
    BY <1>2 DEF OptStr
  <2>2. v = Str(s) /\ s \in Strings
    BY PlainSays
  <2> QED
    BY <2>1, <2>2 DEF Maybe, Texts
<1> QED
  BY <1>1, <1>2

LEMMA MarkSays ==
  ASSUME NEW v, Plain(v), NEW T \in OptNum(v)
  PROVE  T \in Maybe(Ids) /\ v = Json({}, T, {}, {})
<1>1. CASE IsNull(v)
  <2>1. T = {} /\ v = Null
    BY <1>1, PlainSays DEF OptNum
  <2> QED
    BY <2>1 DEF Maybe, Null
<1>2. CASE ~IsNull(v)
  <2>1. PICK n \in v.num : T = {n}
    BY <1>2 DEF OptNum
  <2>2. v = Num(n) /\ n \in Ids
    BY PlainSays, WireAssumption
  <2> QED
    BY <2>1, <2>2 DEF Maybe, Num
<1> QED
  BY <1>1, <1>2

LEMMA FlagSays ==
  ASSUME NEW v, Plain(v), BoolFlag(v) # {}
  PROVE  IF TRUE \in BoolFlag(v) THEN v = Flag(TRUE) ELSE IsNull(v) \/ v = Flag(FALSE)
<1>1. CASE IsNull(v)
  <2>1. BoolFlag(v) = {FALSE}
    BY <1>1 DEF BoolFlag
  <2>2. TRUE \notin BoolFlag(v)
    BY <2>1
  <2> QED
    BY <1>1, <2>2
<1>2. CASE ~IsNull(v)
  <2>1. BoolFlag(v) = v.flag
    BY <1>2 DEF BoolFlag
  <2>2. PICK b \in v.flag : v = Flag(b) /\ b \in BOOLEAN
    BY <2>1, PlainSays
  <2>3. v.flag = {b}
    BY <2>2, Parts
  <2>4. CASE b = TRUE
    BY <2>1, <2>2, <2>3, <2>4
  <2>5. CASE b = FALSE
    BY <2>1, <2>2, <2>3, <2>5
  <2> QED
    BY <2>2, <2>4, <2>5
<1> QED
  BY <1>1, <1>2

LEMMA TagSays ==
  ASSUME NEW v, Plain(v), NEW table, NEW x \in Tagged(table, v)
  PROVE  x \in DOMAIN table /\ v = Str(table[x])
BY PlainSays DEF Tagged

\* An object says the command d if it has d's discriminant and fields.
LEMMA SaysIf ==
  ASSUME NEW o, NEW d \in Commands, Get(o, "t") = Str(d.t),
         "id" \in DOMAIN d => Get(o, "id") = Num(d.id),
         \A k \in DOMAIN EncodeFields(d) : Get(o, k) = EncodeFields(d)[k],
         \A k \in Optional(d) \ DOMAIN EncodeFields(d) : IsNull(Get(o, k)) \/ Get(o, k) = Flag(FALSE)
  PROVE  Says(o, d)
<1> DEFINE head == IF "id" \in DOMAIN d THEN [t |-> Str(d.t), id |-> Num(d.id)] ELSE [t |-> Str(d.t)]
<1>1. EncodeCommand(d) = Joined(head, EncodeFields(d))
  BY DEF EncodeCommand
<1>2. \A k \in DOMAIN head : Get(o, k) = head[k]
  OBVIOUS
<1> HIDE DEF head
<1>3. \A k \in DOMAIN EncodeCommand(d) :
        /\ k \in DOMAIN head \cup DOMAIN EncodeFields(d)
        /\ EncodeCommand(d)[k] = IF k \in DOMAIN head THEN head[k] ELSE EncodeFields(d)[k]
  BY <1>1 DEF Joined
<1>4. DOMAIN EncodeFields(d) \subseteq DOMAIN EncodeCommand(d)
  BY <1>1 DEF Joined
<1> QED
  BY <1>2, <1>3, <1>4 DEF Says

\* One lemma per command: what is read of a legal object, the object says.
LEMMA IdSays ==
  ASSUME NEW o, Legal(o), NEW t \in {"kill", "remove", "restart"}, Get(o, "t") = Str(t), NEW d \in DecodeAs(t, o)
  PROVE  Says(o, d)
<1>1. DecodeAs(t, o) = [t : {t}, id : Get(o, "id").num]
  BY Zenon DEF DecodeAs
<1>2. /\ d = [t |-> t, id |-> d.id]
      /\ d.id \in Get(o, "id").num
  <2>1. ASSUME NEW A, NEW x \in [t : {t}, id : A]
        PROVE  /\ x = [t |-> t, id |-> x.id]
               /\ x.id \in A
    OBVIOUS
  <2> QED
    BY <1>1, <2>1, Zenon
<1>3. d.id \in Ids /\ Get(o, "id") = Num(d.id)
  <2>1. \A k : Plain(Get(o, k))
    BY DEF Legal
  <2> QED
    BY <1>2, <2>1, PlainSays, WireAssumption
<1>4. d \in Commands
  <2>1. d \in [t : {"kill", "remove", "restart"}, id : Ids]
    BY <1>2, <1>3
  <2> QED
    BY <2>1, Zenon DEF Commands
<1>5. d.t = t /\ "id" \in DOMAIN d
  BY <1>2
<1>6. EncodeFields(d) = <<>>
  BY <1>5, Zenon DEF EncodeFields
<1>7. \A k \in DOMAIN EncodeFields(d) : Get(o, k) = EncodeFields(d)[k]
  BY <1>6, <1>3
<1>8. Optional(d) = {}
  BY <1>5, Zenon DEF Optional
<1> QED
  BY <1>3, <1>4, <1>5, <1>7, <1>8, SaysIf

LEMMA TagCommandSays ==
  ASSUME NEW o, Legal(o), Get(o, "t") = Str("tag"), NEW d \in DecodeAs("tag", o)
  PROVE  Says(o, d)
<1>1. DecodeAs("tag", o) = [t : {"tag"}, id : Get(o, "id").num, on : Get(o, "on").flag]
  BY Zenon DEF DecodeAs
<1>2. /\ d = [t |-> "tag", id |-> d.id, on |-> d.on]
      /\ d.id \in Get(o, "id").num
      /\ d.on \in Get(o, "on").flag
  <2>1. ASSUME NEW A, NEW B, NEW x \in [t : {"tag"}, id : A, on : B]
        PROVE  /\ x = [t |-> "tag", id |-> x.id, on |-> x.on]
               /\ x.id \in A
               /\ x.on \in B
    OBVIOUS
  <2> QED
    BY <1>1, <2>1, Zenon
<1>3. /\ d.id \in Ids /\ Get(o, "id") = Num(d.id)
      /\ d.on \in BOOLEAN /\ Get(o, "on") = Flag(d.on)
  <2>1. \A k : Plain(Get(o, k))
    BY DEF Legal
  <2> QED
    BY <1>2, <2>1, PlainSays, WireAssumption
<1>4. d \in Commands
  <2>1. d \in [t : {"tag"}, id : Ids, on : BOOLEAN]
    BY <1>2, <1>3
  <2> QED
    BY <2>1, Zenon DEF Commands
<1>5. d.t = "tag" /\ "id" \in DOMAIN d
  BY <1>2
<1>6. EncodeFields(d) = [on |-> Flag(d.on)]
  BY <1>5, Zenon DEF EncodeFields
<1>7. \A k \in DOMAIN EncodeFields(d) : Get(o, k) = EncodeFields(d)[k]
  BY <1>6, <1>3
<1>8. Optional(d) = {}
  BY <1>5, Zenon DEF Optional
<1> QED
  BY <1>3, <1>4, <1>5, <1>7, <1>8, SaysIf

LEMMA FlagshipSays ==
  ASSUME NEW o, Legal(o), Get(o, "t") = Str("flagship"), NEW d \in DecodeAs("flagship", o)
  PROVE  Says(o, d)
<1>1. DecodeAs("flagship", o) = [t : {"flagship"}, mark : OptNum(Get(o, "id"))]
  BY Zenon DEF DecodeAs
<1>2. /\ d = [t |-> "flagship", mark |-> d.mark]
      /\ d.mark \in OptNum(Get(o, "id"))
  <2>1. ASSUME NEW A, NEW x \in [t : {"flagship"}, mark : A]
        PROVE  /\ x = [t |-> "flagship", mark |-> x.mark]
               /\ x.mark \in A
    OBVIOUS
  <2> QED
    BY <1>1, <2>1, Zenon
<1>3. d.mark \in Maybe(Ids) /\ Get(o, "id") = Json({}, d.mark, {}, {})
  <2>1. \A k : Plain(Get(o, k))
    BY DEF Legal
  <2> QED
    BY <1>2, <2>1, MarkSays
<1>4. d \in Commands
  <2>1. d \in [t : {"flagship"}, mark : Maybe(Ids)]
    BY <1>2, <1>3
  <2> QED
    BY <2>1, Zenon DEF Commands
<1>5. d.t = "flagship" /\ "id" \notin DOMAIN d
  BY <1>2
<1>6. EncodeFields(d) = [id |-> Json({}, d.mark, {}, {})]
  BY <1>5, Zenon DEF EncodeFields
<1>7. \A k \in DOMAIN EncodeFields(d) : Get(o, k) = EncodeFields(d)[k]
  BY <1>6, <1>3
<1>8. Optional(d) = {}
  BY <1>5, Zenon DEF Optional
<1> QED
  BY <1>3, <1>4, <1>5, <1>7, <1>8, SaysIf

LEMMA WatchSays ==
  ASSUME NEW o, Legal(o), Get(o, "t") = Str("watch"), NEW d \in DecodeAs("watch", o)
  PROVE  Says(o, d)
<1>1. DecodeAs("watch", o) = [t : {"watch"}, mark : OptNum(Get(o, "id")), attached : Get(o, "attached").flag]
  BY Zenon DEF DecodeAs
<1>2. /\ d = [t |-> "watch", mark |-> d.mark, attached |-> d.attached]
      /\ d.mark \in OptNum(Get(o, "id"))
      /\ d.attached \in Get(o, "attached").flag
  <2>1. ASSUME NEW A, NEW B, NEW x \in [t : {"watch"}, mark : A, attached : B]
        PROVE  /\ x = [t |-> "watch", mark |-> x.mark, attached |-> x.attached]
               /\ x.mark \in A
               /\ x.attached \in B
    OBVIOUS
  <2> QED
    BY <1>1, <2>1, Zenon
<1>3. /\ d.mark \in Maybe(Ids) /\ Get(o, "id") = Json({}, d.mark, {}, {})
      /\ d.attached \in BOOLEAN /\ Get(o, "attached") = Flag(d.attached)
  <2>1. \A k : Plain(Get(o, k))
    BY DEF Legal
  <2> QED
    BY <1>2, <2>1, MarkSays, PlainSays
<1>4. d \in Commands
  <2>1. d \in [t : {"watch"}, mark : Maybe(Ids), attached : BOOLEAN]
    BY <1>2, <1>3
  <2> QED
    BY <2>1, Zenon DEF Commands
<1>5. d.t = "watch" /\ "id" \notin DOMAIN d
  BY <1>2
<1>6. EncodeFields(d) = [id |-> Json({}, d.mark, {}, {}), attached |-> Flag(d.attached)]
  BY <1>5, Zenon DEF EncodeFields
<1>7. \A k \in DOMAIN EncodeFields(d) : Get(o, k) = EncodeFields(d)[k]
  BY <1>6, <1>3
<1>8. Optional(d) = {}
  BY <1>5, Zenon DEF Optional
<1> QED
  BY <1>3, <1>4, <1>5, <1>7, <1>8, SaysIf

LEMMA ResizeSays ==
  ASSUME NEW o, Legal(o), Get(o, "t") = Str("resize"), NEW d \in DecodeAs("resize", o)
  PROVE  Says(o, d)
<1>1. DecodeAs("resize", o) = [t : {"resize"}, rows : NumOf(Get(o, "rows"), U16), cols : NumOf(Get(o, "cols"), U16)]
  BY Zenon DEF DecodeAs
<1>2. /\ d = [t |-> "resize", rows |-> d.rows, cols |-> d.cols]
      /\ d.rows \in NumOf(Get(o, "rows"), U16)
      /\ d.cols \in NumOf(Get(o, "cols"), U16)
  <2>1. ASSUME NEW A, NEW B, NEW x \in [t : {"resize"}, rows : A, cols : B]
        PROVE  /\ x = [t |-> "resize", rows |-> x.rows, cols |-> x.cols]
               /\ x.rows \in A
               /\ x.cols \in B
    OBVIOUS
  <2> QED
    BY <1>1, <2>1, Zenon
<1>3. /\ d.rows \in 0 .. U16 /\ Get(o, "rows") = Num(d.rows)
      /\ d.cols \in 0 .. U16 /\ Get(o, "cols") = Num(d.cols)
  <2>1. \A k : Plain(Get(o, k))
    BY DEF Legal
  <2> QED
    BY <1>2, <2>1, FitSays, Widths
<1>4. d \in Commands
  <2>1. d \in [t : {"resize"}, rows : 0 .. U16, cols : 0 .. U16]
    BY <1>2, <1>3
  <2> QED
    BY <2>1, Zenon DEF Commands
<1>5. d.t = "resize" /\ "id" \notin DOMAIN d
  BY <1>2
<1>6. EncodeFields(d) = [rows |-> Num(d.rows), cols |-> Num(d.cols)]
  BY <1>5, Zenon DEF EncodeFields
<1>7. \A k \in DOMAIN EncodeFields(d) : Get(o, k) = EncodeFields(d)[k]
  BY <1>6, <1>3
<1>8. Optional(d) = {}
  BY <1>5, Zenon DEF Optional
<1> QED
  BY <1>3, <1>4, <1>5, <1>7, <1>8, SaysIf

LEMMA PasteSays ==
  ASSUME NEW o, Legal(o), Get(o, "t") = Str("paste"), NEW d \in DecodeAs("paste", o)
  PROVE  Says(o, d)
<1>1. DecodeAs("paste", o) = [t : {"paste"}, id : Get(o, "id").num, bytes : FromB64(Get(o, "bytes"))]
  BY Zenon DEF DecodeAs
<1>2. /\ d = [t |-> "paste", id |-> d.id, bytes |-> d.bytes]
      /\ d.id \in Get(o, "id").num
      /\ d.bytes \in FromB64(Get(o, "bytes"))
  <2>1. ASSUME NEW A, NEW B, NEW x \in [t : {"paste"}, id : A, bytes : B]
        PROVE  /\ x = [t |-> "paste", id |-> x.id, bytes |-> x.bytes]
               /\ x.id \in A
               /\ x.bytes \in B
    OBVIOUS
  <2> QED
    BY <1>1, <2>1, Zenon
<1>3. /\ d.id \in Ids /\ Get(o, "id") = Num(d.id)
      /\ d.bytes \in Octets /\ Get(o, "bytes") = B64(d.bytes)
  <2>1. \A k : Plain(Get(o, k))
    BY DEF Legal
  <2> QED
    BY <1>2, <2>1, BytesSay, PlainSays, WireAssumption
<1>4. d \in Commands
  <2>1. d \in [t : {"paste"}, id : Ids, bytes : Octets]
    BY <1>2, <1>3
  <2> QED
    BY <2>1, Zenon DEF Commands
<1>5. d.t = "paste" /\ "id" \in DOMAIN d
  BY <1>2
<1>6. EncodeFields(d) = [bytes |-> B64(d.bytes)]
  BY <1>5, Zenon DEF EncodeFields
<1>7. \A k \in DOMAIN EncodeFields(d) : Get(o, k) = EncodeFields(d)[k]
  BY <1>6, <1>3
<1>8. Optional(d) = {}
  BY <1>5, Zenon DEF Optional
<1> QED
  BY <1>3, <1>4, <1>5, <1>7, <1>8, SaysIf

LEMMA NamedSays ==
  ASSUME NEW o, Legal(o), NEW t \in {"save", "load"}, Get(o, "t") = Str(t), NEW d \in DecodeAs(t, o)
  PROVE  Says(o, d)
<1>1. DecodeAs(t, o) = [t : {t}, name : Get(o, "name").str]
  BY Zenon DEF DecodeAs
<1>2. /\ d = [t |-> t, name |-> d.name]
      /\ d.name \in Get(o, "name").str
  <2>1. ASSUME NEW A, NEW x \in [t : {t}, name : A]
        PROVE  /\ x = [t |-> t, name |-> x.name]
               /\ x.name \in A
    OBVIOUS
  <2> QED
    BY <1>1, <2>1, Zenon
<1>3. d.name \in Strings /\ Get(o, "name") = Str(d.name)
  <2>1. \A k : Plain(Get(o, k))
    BY DEF Legal
  <2>2. Get(o, "name").str \subseteq Strings
    BY DEF Legal, TextKeys
  <2> QED
    BY <1>2, <2>1, <2>2, PlainSays
<1>4. d \in Commands
  <2>1. d \in [t : {"save", "load"}, name : Strings]
    BY <1>2, <1>3
  <2> QED
    BY <2>1, Zenon DEF Commands
<1>5. d.t = t /\ "id" \notin DOMAIN d
  BY <1>2
<1>6. EncodeFields(d) = [name |-> Str(d.name)]
  BY <1>5, Zenon DEF EncodeFields
<1>7. \A k \in DOMAIN EncodeFields(d) : Get(o, k) = EncodeFields(d)[k]
  BY <1>6, <1>3
<1>8. Optional(d) = {}
  BY <1>5, Zenon DEF Optional
<1> QED
  BY <1>3, <1>4, <1>5, <1>7, <1>8, SaysIf

LEMMA RecoverSays ==
  ASSUME NEW o, Legal(o), Get(o, "t") = Str("recover"), NEW d \in DecodeAs("recover", o)
  PROVE  Says(o, d)
<1>1. DecodeAs("recover", o) = [t : {"recover"}, stem : Get(o, "stem").str]
  BY Zenon DEF DecodeAs
<1>2. /\ d = [t |-> "recover", stem |-> d.stem]
      /\ d.stem \in Get(o, "stem").str
  <2>1. ASSUME NEW A, NEW x \in [t : {"recover"}, stem : A]
        PROVE  /\ x = [t |-> "recover", stem |-> x.stem]
               /\ x.stem \in A
    OBVIOUS
  <2> QED
    BY <1>1, <2>1, Zenon
<1>3. d.stem \in Strings /\ Get(o, "stem") = Str(d.stem)
  <2>1. \A k : Plain(Get(o, k))
    BY DEF Legal
  <2>2. Get(o, "stem").str \subseteq Strings
    BY DEF Legal, TextKeys
  <2> QED
    BY <1>2, <2>1, <2>2, PlainSays
<1>4. d \in Commands
  <2>1. d \in [t : {"recover"}, stem : Strings]
    BY <1>2, <1>3
  <2> QED
    BY <2>1, Zenon DEF Commands
<1>5. d.t = "recover" /\ "id" \notin DOMAIN d
  BY <1>2
<1>6. EncodeFields(d) = [stem |-> Str(d.stem)]
  BY <1>5, Zenon DEF EncodeFields
<1>7. \A k \in DOMAIN EncodeFields(d) : Get(o, k) = EncodeFields(d)[k]
  BY <1>6, <1>3
<1>8. Optional(d) = {}
  BY <1>5, Zenon DEF Optional
<1> QED
  BY <1>3, <1>4, <1>5, <1>7, <1>8, SaysIf

LEMMA BareSays ==
  ASSUME NEW o, Legal(o), NEW t \in {"list", "shutdown"}, Get(o, "t") = Str(t), NEW d \in DecodeAs(t, o)
  PROVE  Says(o, d)
<1>1. DecodeAs(t, o) = [t : {t}]
  BY Zenon DEF DecodeAs
<1>2. /\ d = [t |-> t]
  BY <1>1
<1>4. d \in Commands
  <2>1. d \in [t : {"list", "shutdown"}]
    BY <1>2
  <2> QED
    BY <2>1, Zenon DEF Commands
<1>5. d.t = t /\ "id" \notin DOMAIN d
  BY <1>2
<1>6. EncodeFields(d) = <<>>
  BY <1>5, Zenon DEF EncodeFields
<1>7. \A k \in DOMAIN EncodeFields(d) : Get(o, k) = EncodeFields(d)[k]
  BY <1>6
<1>8. Optional(d) = {}
  BY <1>5, Zenon DEF Optional
<1> QED
  BY <1>4, <1>5, <1>7, <1>8, SaysIf

\* An object with the key k, or without it: what InsertOpt makes of a set of at most one value.
LEMMA InsertSays ==
  ASSUME NEW fields, NEW k, DOMAIN fields = {k}, NEW v, IF fields[k] = {} THEN v = Null ELSE v \in fields[k],
         \A x, y \in fields[k] : x = y
  PROVE  /\ \A x \in DOMAIN InsertOpt(fields) : x = k /\ v = InsertOpt(fields)[x]
         /\ \A x \in {k} \ DOMAIN InsertOpt(fields) : v = Null
BY DEF InsertOpt

LEMMA OptGroup ==
  ASSUME NEW T \in Maybe(Strings)
  PROVE  (T = {} <=> Texts(T) = {}) /\ \A x, y \in Texts(T) : x = y
BY DEF Maybe, Texts

\* The commands with an optional field.
LEMMA GroupSays ==
  ASSUME NEW o, Legal(o), Get(o, "t") = Str("group"), NEW d \in DecodeAs("group", o)
  PROVE  Says(o, d)
<1>1. DecodeAs("group", o) = [t : {"group"}, id : Get(o, "id").num, group : OptStr(Get(o, "g"))]
  BY Zenon DEF DecodeAs
<1>2. /\ d = [t |-> "group", id |-> d.id, group |-> d.group]
      /\ d.id \in Get(o, "id").num
      /\ d.group \in OptStr(Get(o, "g"))
  <2>1. ASSUME NEW A, NEW B, NEW x \in [t : {"group"}, id : A, group : B]
        PROVE  /\ x = [t |-> "group", id |-> x.id, group |-> x.group]
               /\ x.id \in A
               /\ x.group \in B
    OBVIOUS
  <2> QED
    BY <1>1, <2>1, Zenon
<1>3. /\ d.id \in Ids /\ Get(o, "id") = Num(d.id)
      /\ d.group \in Maybe(Strings)
      /\ IF d.group = {} THEN Get(o, "g") = Null ELSE Get(o, "g") \in Texts(d.group)
  <2>1. \A k : Plain(Get(o, k))
    BY DEF Legal
  <2>2. Get(o, "g").str \subseteq Strings
    BY DEF Legal, TextKeys
  <2> QED
    BY <1>2, <2>1, <2>2, PlainSays, OptSays, WireAssumption
<1>4. d \in Commands
  <2>1. d \in [t : {"group"}, id : Ids, group : Maybe(Strings)]
    BY <1>2, <1>3
  <2> QED
    BY <2>1, Zenon DEF Commands
<1>5. d.t = "group" /\ "id" \in DOMAIN d
  BY <1>2
<1> DEFINE q == [g |-> Texts(d.group)]
<1>6. EncodeFields(d) = InsertOpt(q)
  BY <1>5, Zenon DEF EncodeFields
<1>7. Optional(d) = {"g"}
  BY <1>5, Zenon DEF Optional
<1>8. DOMAIN q = {"g"} /\ q["g"] = Texts(d.group)
  OBVIOUS
<1> HIDE DEF q
<1>9. /\ \A k \in DOMAIN EncodeFields(d) : Get(o, k) = EncodeFields(d)[k]
      /\ \A k \in Optional(d) \ DOMAIN EncodeFields(d) : IsNull(Get(o, k)) \/ Get(o, k) = Flag(FALSE)
  <2>1. /\ \A x \in DOMAIN InsertOpt(q) : x = "g" /\ Get(o, "g") = InsertOpt(q)[x]
        /\ \A x \in {"g"} \ DOMAIN InsertOpt(q) : Get(o, "g") = Null
    BY <1>3, <1>8, OptGroup, InsertSays
  <2> QED
    BY <1>6, <1>7, <2>1, Parts
<1> QED
  BY <1>2, <1>3, <1>4, <1>5, <1>9, SaysIf

LEMMA SpawnSays ==
  ASSUME NEW o, Legal(o), Get(o, "t") = Str("spawn"), NEW d \in DecodeAs("spawn", o)
  PROVE  Says(o, d)
<1>1. DecodeAs("spawn", o) = [t : {"spawn"}, command : Get(o, "command").str,
                              cwd : FromB64(Get(o, "cwd")), group : OptStr(Get(o, "group"))]
  BY Zenon DEF DecodeAs
<1>2. /\ d = [t |-> "spawn", command |-> d.command, cwd |-> d.cwd, group |-> d.group]
      /\ d.command \in Get(o, "command").str
      /\ d.cwd \in FromB64(Get(o, "cwd"))
      /\ d.group \in OptStr(Get(o, "group"))
  <2>1. ASSUME NEW A, NEW B, NEW C, NEW x \in [t : {"spawn"}, command : A, cwd : B, group : C]
        PROVE  /\ x = [t |-> "spawn", command |-> x.command, cwd |-> x.cwd, group |-> x.group]
               /\ x.command \in A
               /\ x.cwd \in B
               /\ x.group \in C
    OBVIOUS
  <2> QED
    BY <1>1, <2>1, Zenon
<1>3. /\ d.command \in Strings /\ Get(o, "command") = Str(d.command)
      /\ d.cwd \in Octets /\ Get(o, "cwd") = B64(d.cwd)
      /\ d.group \in Maybe(Strings)
      /\ IF d.group = {} THEN Get(o, "group") = Null ELSE Get(o, "group") \in Texts(d.group)
  <2>1. \A k : Plain(Get(o, k))
    BY DEF Legal
  <2>2. Get(o, "command").str \subseteq Strings /\ Get(o, "group").str \subseteq Strings
    BY DEF Legal, TextKeys
  <2> QED
    BY <1>2, <2>1, <2>2, PlainSays, BytesSay, OptSays
<1>4. d \in Commands
  <2>1. d \in [t : {"spawn"}, command : Strings, cwd : Octets, group : Maybe(Strings)]
    BY <1>2, <1>3
  <2> QED
    BY <2>1, Zenon DEF Commands
<1>5. d.t = "spawn" /\ "id" \notin DOMAIN d
  BY <1>2
<1> DEFINE p == [command |-> Str(d.command), cwd |-> B64(d.cwd)]
           q == [group |-> Texts(d.group)]
<1>6. EncodeFields(d) = Joined(p, InsertOpt(q))
  BY <1>5, Zenon DEF EncodeFields
<1>7. Optional(d) = {"group"}
  BY <1>5, Zenon DEF Optional
<1>8. /\ \A k \in DOMAIN p : Get(o, k) = p[k]
      /\ "group" \notin DOMAIN p
      /\ DOMAIN q = {"group"} /\ q["group"] = Texts(d.group)
  BY <1>3
<1> HIDE DEF p, q
<1>9. /\ \A k \in DOMAIN EncodeFields(d) : Get(o, k) = EncodeFields(d)[k]
      /\ \A k \in Optional(d) \ DOMAIN EncodeFields(d) : IsNull(Get(o, k)) \/ Get(o, k) = Flag(FALSE)
  <2>1. /\ \A x \in DOMAIN InsertOpt(q) : x = "group" /\ Get(o, "group") = InsertOpt(q)[x]
        /\ \A x \in {"group"} \ DOMAIN InsertOpt(q) : Get(o, "group") = Null
    BY <1>3, <1>8, OptGroup, InsertSays
  <2> QED
    BY <1>6, <1>7, <1>8, <2>1, Parts DEF Joined
<1> QED
  BY <1>4, <1>5, <1>9, SaysIf

\* A scroll action, and below a mouse action and a key.
LEMMA ScrollSays ==
  ASSUME NEW o, Legal(o), Get(o, "t") = Str("sb"), NEW d \in DecodeAs("sb", o)
  PROVE  Says(o, d)
<1>1. DecodeAs("sb", o) = [t : {"sb"}, id : Get(o, "id").num, action : DecodeScroll(o)]
  BY Zenon DEF DecodeAs
<1>2. /\ d = [t |-> "sb", id |-> d.id, action |-> d.action]
      /\ d.id \in Get(o, "id").num
      /\ d.action \in DecodeScroll(o)
  <2>1. ASSUME NEW A, NEW B, NEW x \in [t : {"sb"}, id : A, action : B]
        PROVE  /\ x = [t |-> "sb", id |-> x.id, action |-> x.action]
               /\ x.id \in A
               /\ x.action \in B
    OBVIOUS
  <2> QED
    BY <1>1, <2>1, Zenon
<1>3. \A k : Plain(Get(o, k))
  BY DEF Legal
<1>4. d.id \in Ids /\ Get(o, "id") = Num(d.id)
  BY <1>2, <1>3, PlainSays, WireAssumption
<1>5. d.action \in ScrollActions /\ \A k \in DOMAIN EncodeScroll(d.action) : Get(o, k) = EncodeScroll(d.action)[k]
  <2>1. ASSUME NEW k \in Tagged(ToTag, Get(o, "a")), NEW a, a = Unit(k)
        PROVE  a \in ScrollActions /\ \A x \in DOMAIN EncodeScroll(a) : Get(o, x) = EncodeScroll(a)[x]
    <3>1. k \in DOMAIN ToTag /\ Get(o, "a") = Str(ToTag[k])
      BY <1>3, TagSays
    <3>2. EncodeScroll(a) = [a |-> Str(ToTag[k])]
      BY <2>1, <3>1 DEF EncodeScroll, Unit
    <3> QED
      BY <2>1, <3>1, <3>2 DEF ScrollActions
  <2>2. ASSUME NEW k \in Tagged(ByTag, Get(o, "a")), NEW n \in NumOf(Get(o, "n"), U16), NEW a, a = With(k, n)
        PROVE  a \in ScrollActions /\ \A x \in DOMAIN EncodeScroll(a) : Get(o, x) = EncodeScroll(a)[x]
    <3>1. k \in DOMAIN ByTag /\ Get(o, "a") = Str(ByTag[k]) /\ n \in 0 .. U16 /\ Get(o, "n") = Num(n)
      BY <1>3, TagSays, FitSays, Widths
    <3>2. EncodeScroll(a) = [a |-> Str(ByTag[k]), n |-> Num(n)]
      BY <2>2, <3>1 DEF EncodeScroll, With, ToTag, ByTag
    <3> QED
      BY <2>2, <3>1, <3>2 DEF ScrollActions
  <2>3. \/ \E k \in Tagged(ToTag, Get(o, "a")) : d.action = Unit(k)
        \/ \E k \in Tagged(ByTag, Get(o, "a")), n \in NumOf(Get(o, "n"), U16) : d.action = With(k, n)
    BY <1>2 DEF DecodeScroll
  <2> QED
    BY <2>1, <2>2, <2>3
<1>6. d \in Commands
  <2>1. d \in [t : {"sb"}, id : Ids, action : ScrollActions]
    BY <1>2, <1>4, <1>5
  <2> QED
    BY <2>1, Zenon DEF Commands
<1>7. d.t = "sb" /\ "id" \in DOMAIN d
  BY <1>2
<1>8. EncodeFields(d) = EncodeScroll(d.action)
  BY <1>7, Zenon DEF EncodeFields
<1>9. Optional(d) = {}
  BY <1>7, Zenon DEF Optional
<1> QED
  BY <1>4, <1>5, <1>6, <1>7, <1>8, <1>9, SaysIf

LEMMA NameSays ==
  ASSUME NEW o, Legal(o), Get(o, "t") = Str("name"), NEW d \in DecodeAs("name", o)
  PROVE  Says(o, d)
<1>1. DecodeAs("name", o) = [t : {"name"}, id : Get(o, "id").num, name : OptStr(Get(o, "n"))]
  BY Zenon DEF DecodeAs
<1>2. /\ d = [t |-> "name", id |-> d.id, name |-> d.name]
      /\ d.id \in Get(o, "id").num
      /\ d.name \in OptStr(Get(o, "n"))
  <2>1. ASSUME NEW A, NEW B, NEW x \in [t : {"name"}, id : A, name : B]
        PROVE  /\ x = [t |-> "name", id |-> x.id, name |-> x.name]
               /\ x.id \in A
               /\ x.name \in B
    OBVIOUS
  <2> QED
    BY <1>1, <2>1, Zenon
<1>3. /\ d.id \in Ids /\ Get(o, "id") = Num(d.id)
      /\ d.name \in Maybe(Strings)
      /\ IF d.name = {} THEN Get(o, "n") = Null ELSE Get(o, "n") \in Texts(d.name)
  <2>1. \A k : Plain(Get(o, k))
    BY DEF Legal
  <2>2. Get(o, "n").str \subseteq Strings
    BY DEF Legal, TextKeys
  <2> QED
    BY <1>2, <2>1, <2>2, PlainSays, OptSays, WireAssumption
<1>4. d \in Commands
  <2>1. d \in [t : {"name"}, id : Ids, name : Maybe(Strings)]
    BY <1>2, <1>3
  <2> QED
    BY <2>1, Zenon DEF Commands
<1>5. d.t = "name" /\ "id" \in DOMAIN d
  BY <1>2
<1> DEFINE q == [n |-> Texts(d.name)]
<1>6. EncodeFields(d) = InsertOpt(q)
  BY <1>5, Zenon DEF EncodeFields
<1>7. Optional(d) = {"n"}
  BY <1>5, Zenon DEF Optional
<1>8. DOMAIN q = {"n"} /\ q["n"] = Texts(d.name)
  OBVIOUS
<1> HIDE DEF q
<1>9. /\ \A k \in DOMAIN EncodeFields(d) : Get(o, k) = EncodeFields(d)[k]
      /\ \A k \in Optional(d) \ DOMAIN EncodeFields(d) : IsNull(Get(o, k)) \/ Get(o, k) = Flag(FALSE)
  <2>1. /\ \A x \in DOMAIN InsertOpt(q) : x = "n" /\ Get(o, "n") = InsertOpt(q)[x]
        /\ \A x \in {"n"} \ DOMAIN InsertOpt(q) : Get(o, "n") = Null
    BY <1>3, <1>8, OptGroup, InsertSays
  <2> QED
    BY <1>6, <1>7, <2>1, Parts
<1> QED
  BY <1>2, <1>3, <1>4, <1>5, <1>9, SaysIf

LEMMA SpawnAgentSays ==
  ASSUME NEW o, Legal(o), Get(o, "t") = Str("spawn_agent"), NEW d \in DecodeAs("spawn_agent", o)
  PROVE  Says(o, d)
<1>1. DecodeAs("spawn_agent", o) = [t : {"spawn_agent"}, agent : Get(o, "agent").str,
                              cwd : FromB64(Get(o, "cwd")), group : OptStr(Get(o, "group"))]
  BY Zenon DEF DecodeAs
<1>2. /\ d = [t |-> "spawn_agent", agent |-> d.agent, cwd |-> d.cwd, group |-> d.group]
      /\ d.agent \in Get(o, "agent").str
      /\ d.cwd \in FromB64(Get(o, "cwd"))
      /\ d.group \in OptStr(Get(o, "group"))
  <2>1. ASSUME NEW A, NEW B, NEW C, NEW x \in [t : {"spawn_agent"}, agent : A, cwd : B, group : C]
        PROVE  /\ x = [t |-> "spawn_agent", agent |-> x.agent, cwd |-> x.cwd, group |-> x.group]
               /\ x.agent \in A
               /\ x.cwd \in B
               /\ x.group \in C
    OBVIOUS
  <2> QED
    BY <1>1, <2>1, Zenon
<1>3. /\ d.agent \in Strings /\ Get(o, "agent") = Str(d.agent)
      /\ d.cwd \in Octets /\ Get(o, "cwd") = B64(d.cwd)
      /\ d.group \in Maybe(Strings)
      /\ IF d.group = {} THEN Get(o, "group") = Null ELSE Get(o, "group") \in Texts(d.group)
  <2>1. \A k : Plain(Get(o, k))
    BY DEF Legal
  <2>2. Get(o, "agent").str \subseteq Strings /\ Get(o, "group").str \subseteq Strings
    BY DEF Legal, TextKeys
  <2> QED
    BY <1>2, <2>1, <2>2, PlainSays, BytesSay, OptSays
<1>4. d \in Commands
  <2>1. d \in [t : {"spawn_agent"}, agent : Strings, cwd : Octets, group : Maybe(Strings)]
    BY <1>2, <1>3
  <2> QED
    BY <2>1, Zenon DEF Commands
<1>5. d.t = "spawn_agent" /\ "id" \notin DOMAIN d
  BY <1>2
<1> DEFINE p == [agent |-> Str(d.agent), cwd |-> B64(d.cwd)]
           q == [group |-> Texts(d.group)]
<1>6. EncodeFields(d) = Joined(p, InsertOpt(q))
  BY <1>5, Zenon DEF EncodeFields
<1>7. Optional(d) = {"group"}
  BY <1>5, Zenon DEF Optional
<1>8. /\ \A k \in DOMAIN p : Get(o, k) = p[k]
      /\ "group" \notin DOMAIN p
      /\ DOMAIN q = {"group"} /\ q["group"] = Texts(d.group)
  BY <1>3
<1> HIDE DEF p, q
<1>9. /\ \A k \in DOMAIN EncodeFields(d) : Get(o, k) = EncodeFields(d)[k]
      /\ \A k \in Optional(d) \ DOMAIN EncodeFields(d) : IsNull(Get(o, k)) \/ Get(o, k) = Flag(FALSE)
  <2>1. /\ \A x \in DOMAIN InsertOpt(q) : x = "group" /\ Get(o, "group") = InsertOpt(q)[x]
        /\ \A x \in {"group"} \ DOMAIN InsertOpt(q) : Get(o, "group") = Null
    BY <1>3, <1>8, OptGroup, InsertSays
  <2> QED
    BY <1>6, <1>7, <1>8, <2>1, Parts DEF Joined
<1> QED
  BY <1>4, <1>5, <1>9, SaysIf

LEMMA MouseSays ==
  ASSUME NEW o, Legal(o), Get(o, "t") = Str("mouse"), NEW d \in DecodeAs("mouse", o)
  PROVE  Says(o, d)
<1>1. DecodeAs("mouse", o) = [t : {"mouse"}, id : Get(o, "id").num, col : NumOf(Get(o, "col"), U16),
                              row : NumOf(Get(o, "row"), U16), mouse : DecodeMouse(o)]
  BY Zenon DEF DecodeAs
<1>2. /\ d = [t |-> "mouse", id |-> d.id, col |-> d.col, row |-> d.row, mouse |-> d.mouse]
      /\ d.id \in Get(o, "id").num
      /\ d.col \in NumOf(Get(o, "col"), U16)
      /\ d.row \in NumOf(Get(o, "row"), U16)
      /\ d.mouse \in DecodeMouse(o)
  <2>1. ASSUME NEW A, NEW B, NEW C, NEW D, NEW x \in [t : {"mouse"}, id : A, col : B, row : C, mouse : D]
        PROVE  /\ x = [t |-> "mouse", id |-> x.id, col |-> x.col, row |-> x.row, mouse |-> x.mouse]
               /\ x.id \in A
               /\ x.col \in B
               /\ x.row \in C
               /\ x.mouse \in D
    OBVIOUS
  <2>2. PICK B, C : B = NumOf(Get(o, "col"), U16) /\ C = NumOf(Get(o, "row"), U16)
    OBVIOUS
  <2>3. d \in [t : {"mouse"}, id : Get(o, "id").num, col : B, row : C, mouse : DecodeMouse(o)]
    BY <1>1, <2>2
  <2> QED
    BY <2>1, <2>2, <2>3
<1>3. \A k : Plain(Get(o, k))
  BY DEF Legal
<1>4. /\ d.id \in Ids /\ Get(o, "id") = Num(d.id)
      /\ d.col \in 0 .. U16 /\ Get(o, "col") = Num(d.col)
      /\ d.row \in 0 .. U16 /\ Get(o, "row") = Num(d.row)
  BY <1>2, <1>3, PlainSays, FitSays, Widths, WireAssumption
<1>5. d.mouse \in MouseActions /\ \A k \in DOMAIN EncodeMouse(d.mouse) : Get(o, k) = EncodeMouse(d.mouse)[k]
  <2>1. ASSUME NEW k \in Tagged(WheelTag, Get(o, "k")), NEW a, a = Unit(k)
        PROVE  a \in MouseActions /\ \A x \in DOMAIN EncodeMouse(a) : Get(o, x) = EncodeMouse(a)[x]
    <3>1. k \in DOMAIN WheelTag /\ Get(o, "k") = Str(WheelTag[k])
      BY <1>3, TagSays
    <3>2. EncodeMouse(a) = [k |-> Str(WheelTag[k])]
      BY <2>1, <3>1 DEF EncodeMouse, Unit
    <3> QED
      BY <2>1, <3>1, <3>2 DEF MouseActions
  <2>2. ASSUME NEW k \in Tagged(PressTag, Get(o, "k")), NEW b \in Get(o, "b").num \cap 0 .. 2, NEW a, a = With(k, b)
        PROVE  a \in MouseActions /\ \A x \in DOMAIN EncodeMouse(a) : Get(o, x) = EncodeMouse(a)[x]
    <3>1. k \in DOMAIN PressTag /\ Get(o, "k") = Str(PressTag[k]) /\ b \in 0 .. 2 /\ Get(o, "b") = Num(b)
      BY <1>3, TagSays, PlainSays
    <3>2. EncodeMouse(a) = [k |-> Str(PressTag[k]), b |-> Num(b)]
      BY <2>2, <3>1 DEF EncodeMouse, With, WheelTag, PressTag
    <3> QED
      BY <2>2, <3>1, <3>2 DEF MouseActions
  <2>3. \/ \E k \in Tagged(WheelTag, Get(o, "k")) : d.mouse = Unit(k)
        \/ \E k \in Tagged(PressTag, Get(o, "k")), b \in Get(o, "b").num \cap 0 .. 2 : d.mouse = With(k, b)
    BY <1>2 DEF DecodeMouse
  <2> QED
    BY <2>1, <2>2, <2>3
<1>6. d \in Commands
  <2>1. d \in [t : {"mouse"}, id : Ids, col : 0 .. U16, row : 0 .. U16, mouse : MouseActions]
    BY <1>2, <1>4, <1>5
  <2> QED
    BY <2>1, Zenon DEF Commands
<1>7. d.t = "mouse" /\ "id" \in DOMAIN d
  BY <1>2
<1> DEFINE p == [col |-> Num(d.col), row |-> Num(d.row)]
<1>8. EncodeFields(d) = Joined(p, EncodeMouse(d.mouse))
  BY <1>7, Zenon DEF EncodeFields
<1>9. \A k \in DOMAIN p : Get(o, k) = p[k]
  BY <1>4
<1> HIDE DEF p
<1>10. \A k \in DOMAIN EncodeFields(d) : Get(o, k) = EncodeFields(d)[k]
  BY <1>5, <1>8, <1>9 DEF Joined
<1>11. Optional(d) = {}
  BY <1>7, Zenon DEF Optional
<1> QED
  BY <1>4, <1>6, <1>7, <1>10, <1>11, SaysIf

LEMMA KeySays ==
  ASSUME NEW o, Legal(o), Get(o, "t") = Str("key"), NEW d \in DecodeAs("key", o)
  PROVE  Says(o, d)
<1>1. DecodeAs("key", o) = [t : {"key"}, id : Get(o, "id").num, mods : DecodeMods(o), code : DecodeKey(o)]
  BY Zenon DEF DecodeAs
<1>2. /\ d = [t |-> "key", id |-> d.id, mods |-> d.mods, code |-> d.code]
      /\ d.id \in Get(o, "id").num
      /\ d.mods \in DecodeMods(o)
      /\ d.code \in DecodeKey(o)
  <2>1. ASSUME NEW A, NEW B, NEW C, NEW x \in [t : {"key"}, id : A, mods : B, code : C]
        PROVE  /\ x = [t |-> "key", id |-> x.id, mods |-> x.mods, code |-> x.code]
               /\ x.id \in A
               /\ x.mods \in B
               /\ x.code \in C
    OBVIOUS
  <2> QED
    BY <1>1, <2>1, Zenon
<1>3. \A k : Plain(Get(o, k))
  BY DEF Legal
<1>4. d.id \in Ids /\ Get(o, "id") = Num(d.id)
  BY <1>2, <1>3, PlainSays, WireAssumption
<1>5. /\ d.mods \in SUBSET DOMAIN ModKey
      /\ \A m \in DOMAIN ModKey : IF m \in d.mods THEN Get(o, ModKey[m]) = Flag(TRUE)
                                  ELSE IsNull(Get(o, ModKey[m])) \/ Get(o, ModKey[m]) = Flag(FALSE)
  <2>1. /\ \A m \in DOMAIN ModKey : BoolFlag(Get(o, ModKey[m])) # {}
        /\ d.mods = {m \in DOMAIN ModKey : TRUE \in BoolFlag(Get(o, ModKey[m]))}
    BY <1>2 DEF DecodeMods
  <2> QED
    BY <1>3, <2>1, FlagSays
<1>6. d.code \in KeyCodes /\
      \E base : /\ EncodeKey(d.code, d.mods) = Joined(base, InsertFlags(ModKey, d.mods))
                /\ \A k \in DOMAIN base : Get(o, k) = base[k]
  <2>0. \A x \in DOMAIN UnitKeyTag : x # "Char" /\ x # "F"
    BY DEF UnitKeyTag
  <2>1. ASSUME NEW k \in Tagged(UnitKeyTag, Get(o, "k")), NEW a, a = Unit(k)
        PROVE  a \in KeyCodes /\
               \E base : /\ EncodeKey(a, d.mods) = Joined(base, InsertFlags(ModKey, d.mods))
                         /\ \A x \in DOMAIN base : Get(o, x) = base[x]
    <3>1. k \in DOMAIN UnitKeyTag /\ Get(o, "k") = Str(UnitKeyTag[k])
      BY <1>3, TagSays
    <3>2. a.kind = k /\ k # "Char" /\ k # "F"
      BY <2>0, <2>1, <3>1 DEF Unit
    <3>3. EncodeKey(a, d.mods) = Joined([k |-> Str(UnitKeyTag[k])], InsertFlags(ModKey, d.mods))
      BY <3>2, Zenon DEF EncodeKey
    <3>4. \A x \in DOMAIN [k |-> Str(UnitKeyTag[k])] : Get(o, x) = [k |-> Str(UnitKeyTag[k])][x]
      BY <3>1
    <3>5. a \in KeyCodes
      BY <2>1, <3>1 DEF KeyCodes
    <3> QED
      BY <3>3, <3>4, <3>5, Zenon
  <2>2. ASSUME "f" \in Get(o, "k").str, NEW n \in NumOf(Get(o, "n"), U8), NEW a, a = With("F", n)
        PROVE  a \in KeyCodes /\
               \E base : /\ EncodeKey(a, d.mods) = Joined(base, InsertFlags(ModKey, d.mods))
                         /\ \A x \in DOMAIN base : Get(o, x) = base[x]
    <3>1. Get(o, "k") = Str("f") /\ n \in 0 .. U8 /\ Get(o, "n") = Num(n)
      BY <1>3, <2>2, PlainSays, FitSays, Widths
    <3>2. a.kind = "F" /\ a.arg = n
      BY <2>2 DEF With
    <3>3. EncodeKey(a, d.mods) = Joined([n |-> Num(n), k |-> Str("f")], InsertFlags(ModKey, d.mods))
      BY <3>2, Zenon DEF EncodeKey
    <3>4. \A x \in DOMAIN [n |-> Num(n), k |-> Str("f")] : Get(o, x) = [n |-> Num(n), k |-> Str("f")][x]
      BY <3>1
    <3>5. a \in KeyCodes
      BY <2>2, <3>1 DEF KeyCodes
    <3> QED
      BY <3>3, <3>4, <3>5, Zenon
  <2>3. ASSUME "ch" \in Get(o, "k").str, NEW c \in Get(o, "ch").str \cap Chars, NEW a, a = CharKey(c)
        PROVE  a \in KeyCodes /\
               \E base : /\ EncodeKey(a, d.mods) = Joined(base, InsertFlags(ModKey, d.mods))
                         /\ \A x \in DOMAIN base : Get(o, x) = base[x]
    <3>1. Get(o, "k") = Str("ch") /\ Get(o, "ch") = Str(c)
      BY <1>3, <2>3, PlainSays
    <3>2. a.kind = "Char" /\ a.char = c
      BY <2>3 DEF CharKey
    <3>3. EncodeKey(a, d.mods) = Joined([ch |-> Str(c), k |-> Str("ch")], InsertFlags(ModKey, d.mods))
      BY <3>2, Zenon DEF EncodeKey
    <3>4. \A x \in DOMAIN [ch |-> Str(c), k |-> Str("ch")] : Get(o, x) = [ch |-> Str(c), k |-> Str("ch")][x]
      BY <3>1
    <3>5. a \in KeyCodes
      BY <2>3 DEF KeyCodes
    <3> QED
      BY <3>3, <3>4, <3>5, Zenon
  <2>4. \/ \E k \in Tagged(UnitKeyTag, Get(o, "k")) : d.code = Unit(k)
        \/ "f" \in Get(o, "k").str /\ \E n \in NumOf(Get(o, "n"), U8) : d.code = With("F", n)
        \/ "ch" \in Get(o, "k").str /\ \E c \in Get(o, "ch").str \cap Chars : d.code = CharKey(c)
    BY <1>2 DEF DecodeKey
  <2> QED
    BY <2>1, <2>2, <2>3, <2>4
<1>7. d \in Commands
  <2>1. d \in [t : {"key"}, id : Ids, mods : SUBSET DOMAIN ModKey, code : KeyCodes]
    BY <1>2, <1>4, <1>5, <1>6
  <2> QED
    BY <2>1, Zenon DEF Commands
<1>8. d.t = "key" /\ "id" \in DOMAIN d
  BY <1>2
<1>9. PICK base : /\ EncodeFields(d) = Joined(base, InsertFlags(ModKey, d.mods))
                  /\ \A k \in DOMAIN base : Get(o, k) = base[k]
  <2>1. EncodeFields(d) = EncodeKey(d.code, d.mods)
    BY <1>8, Zenon DEF EncodeFields
  <2> QED
    BY <1>6, <2>1
<1>10. /\ DOMAIN InsertFlags(ModKey, d.mods) = {ModKey[m] : m \in d.mods}
       /\ \A k \in DOMAIN InsertFlags(ModKey, d.mods) : InsertFlags(ModKey, d.mods)[k] = Flag(TRUE)
  BY DEF InsertFlags
<1>11. \A k \in DOMAIN EncodeFields(d) : Get(o, k) = EncodeFields(d)[k]
  <2>1. \A k \in DOMAIN InsertFlags(ModKey, d.mods) : Get(o, k) = InsertFlags(ModKey, d.mods)[k]
    BY <1>5, <1>10
  <2> QED
    BY <1>9, <2>1 DEF Joined
<1>12. \A k \in Optional(d) \ DOMAIN EncodeFields(d) : IsNull(Get(o, k)) \/ Get(o, k) = Flag(FALSE)
  <2>1. Optional(d) = {"sh", "al", "ct"}
    BY <1>8, Zenon DEF Optional
  <2>2. {"sh", "al", "ct"} = {ModKey[m] : m \in DOMAIN ModKey}
    BY DEF ModKey
  <2>3. DOMAIN InsertFlags(ModKey, d.mods) \subseteq DOMAIN EncodeFields(d)
    BY <1>9 DEF Joined
  <2>4. ASSUME NEW m \in DOMAIN ModKey, ModKey[m] \notin DOMAIN EncodeFields(d)
        PROVE  IsNull(Get(o, ModKey[m])) \/ Get(o, ModKey[m]) = Flag(FALSE)
    BY <1>5, <1>10, <2>3, <2>4
  <2> QED
    BY <2>1, <2>2, <2>4
<1> QED
  BY <1>4, <1>7, <1>8, <1>11, <1>12, SaysIf

\* Whatever a legal object is read as, it says.
LEMMA ReadIsSaid ==
  ASSUME NEW o, Legal(o), NEW t, Get(o, "t") = Str(t), NEW d \in DecodeCommand(o)
  PROVE  Says(o, d)
<1>1. d \in DecodeAs(t, o)
  BY KindRead
<1>2. t \in {"spawn", "spawn_agent", "kill", "remove", "restart", "tag", "flagship", "group", "name", "resize",
             "watch", "paste", "mouse", "key", "sb", "save", "load", "recover", "list", "shutdown"}
  <2> SUFFICES ASSUME t \notin {"spawn", "spawn_agent", "kill", "remove", "restart", "tag", "flagship", "group",
                                "name", "resize", "watch", "paste", "mouse", "key", "sb", "save", "load", "recover",
                                "list", "shutdown"}
               PROVE  FALSE
    OBVIOUS
  <2>1. DecodeAs(t, o) = {}
    BY Zenon DEF DecodeAs
  <2> QED
    BY <1>1, <2>1
<1> QED
  BY <1>1, <1>2, SpawnSays, SpawnAgentSays, IdSays, TagCommandSays, FlagshipSays, GroupSays, NameSays, ResizeSays,
     WatchSays, PasteSays, MouseSays, KeySays, ScrollSays, NamedSays, RecoverSays, BareSays, Zenon

-----------------------------------------------------------------------------
(* A command that was damaged is still a legal object.                     *)

\* The objects of commands are legal.
LEMMA JoinedLegal ==
  ASSUME NEW p, NEW q, Legal(p), Legal(q)
  PROVE  Legal(Joined(p, q))
<1>1. ASSUME NEW k PROVE Get(Joined(p, q), k) \in {Get(p, k), Get(q, k)}
  BY DEF Joined, Get
<1> QED
  BY <1>1 DEF Legal

\* The values that the encoders write are plain.
LEMMA PlainValues ==
  /\ Plain(Null) /\ Null.str \subseteq Strings
  /\ \A s : Plain(Str(s)) /\ Str(s).str = {s}
  /\ \A n \in 0 .. U64 : Plain(Num(n)) /\ Num(n).str = {}
  /\ \A b \in BOOLEAN : Plain(Flag(b)) /\ Flag(b).str = {}
  /\ \A l : Plain(List(l)) /\ List(l).str = {}
  /\ \A o : Plain(B64(o))
  /\ \A T \in Maybe(Ids) : Plain(Json({}, T, {}, {})) /\ Json({}, T, {}, {}).str = {}
<1>1. ASSUME NEW T \in Maybe(Ids) PROVE Plain(Json({}, T, {}, {})) /\ Json({}, T, {}, {}).str = {}
  <2>1. CASE T = {}
    BY <2>1 DEF Plain, Null, Json
  <2>2. ASSUME NEW n \in Ids, T = {n} PROVE Plain(Json({}, T, {}, {})) /\ Json({}, T, {}, {}).str = {}
    <3>1. Json({}, T, {}, {}) = Num(n) /\ n \in 0 .. U64
      BY <2>2, WireAssumption DEF Num
    <3> QED
      BY <3>1, Parts DEF Plain
  <2> QED
    BY <2>1, <2>2 DEF Maybe
<1> QED
  BY <1>1, Parts DEF Plain, B64

\* An object all of whose fields are legal is.
LEMMA LegalIf ==
  ASSUME NEW o, \A k \in DOMAIN o : Plain(o[k]) /\ (k \in TextKeys => o[k].str \subseteq Strings)
  PROVE  Legal(o)
BY PlainValues DEF Legal, Get

\* An optional text leaves a legal object.
LEMMA InsertLegal ==
  ASSUME NEW fields, NEW T \in Maybe(Strings), \A k \in DOMAIN fields : fields[k] = Texts(T)
  PROVE  Legal(InsertOpt(fields))
<1>1. ASSUME NEW v \in Texts(T) PROVE Plain(v) /\ v.str \subseteq Strings
  BY PlainValues DEF Texts, Maybe
<1>2. ASSUME T # {} PROVE (CHOOSE v \in Texts(T) : TRUE) \in Texts(T)
  BY <1>2 DEF Texts
<1> DEFINE f == InsertOpt(fields)
<1>3. \A k \in DOMAIN f : f[k] \in Texts(T)
  BY <1>2 DEF InsertOpt, Texts
<1> HIDE DEF f
<1>4. Legal(f)
  BY <1>1, <1>3, LegalIf
<1> QED
  BY <1>4 DEF f

\* The widths grow.
LEMMA Wide == 0 .. 2 \subseteq 0 .. U64 /\ 0 .. U8 \subseteq 0 .. U64 /\ 0 .. U16 \subseteq 0 .. U64 /\ 0 .. U32 \subseteq 0 .. U64
BY WireAssumption

\* The objects of mouse actions, scroll actions and keys are legal.
LEMMA MouseLegal ==
  ASSUME NEW m \in MouseActions
  PROVE  Legal(EncodeMouse(m))
<1>1. ASSUME NEW k \in DOMAIN WheelTag, m = Unit(k) PROVE Legal(EncodeMouse(m))
  <2>1. EncodeMouse(m) = [k |-> Str(WheelTag[k])]
    BY <1>1 DEF EncodeMouse, Unit
  <2> QED
    BY <2>1, PlainValues, LegalIf DEF TextKeys
<1>2. ASSUME NEW k \in DOMAIN PressTag, NEW b \in 0 .. 2, m = With(k, b) PROVE Legal(EncodeMouse(m))
  <2>1. EncodeMouse(m) = [k |-> Str(PressTag[k]), b |-> Num(b)]
    BY <1>2 DEF EncodeMouse, With, WheelTag, PressTag
  <2>2. b \in 0 .. U64
    BY Wide
  <2> QED
    BY <2>1, <2>2, PlainValues, LegalIf DEF TextKeys
<1> QED
  BY <1>1, <1>2 DEF MouseActions

LEMMA ScrollLegal ==
  ASSUME NEW a \in ScrollActions
  PROVE  Legal(EncodeScroll(a))
<1>1. ASSUME NEW k \in DOMAIN ToTag, a = Unit(k) PROVE Legal(EncodeScroll(a))
  <2>1. EncodeScroll(a) = [a |-> Str(ToTag[k])]
    BY <1>1 DEF EncodeScroll, Unit
  <2> QED
    BY <2>1, PlainValues, LegalIf DEF TextKeys
<1>2. ASSUME NEW k \in DOMAIN ByTag, NEW n \in 0 .. U16, a = With(k, n) PROVE Legal(EncodeScroll(a))
  <2>1. EncodeScroll(a) = [a |-> Str(ByTag[k]), n |-> Num(n)]
    BY <1>2 DEF EncodeScroll, With, ToTag, ByTag
  <2>2. n \in 0 .. U64 /\ Num(n).str \subseteq Strings
    BY Wide, PlainValues
  <2> QED
    BY <2>1, <2>2, PlainValues, LegalIf DEF TextKeys
<1> QED
  BY <1>1, <1>2 DEF ScrollActions

LEMMA KeyLegal ==
  ASSUME NEW code \in KeyCodes, NEW mods \in SUBSET DOMAIN ModKey
  PROVE  Legal(EncodeKey(code, mods))
<1>0. \A x \in DOMAIN UnitKeyTag : x # "Char" /\ x # "F"
  BY DEF UnitKeyTag
<1>1. Legal(InsertFlags(ModKey, mods))
  <2> DEFINE f == InsertFlags(ModKey, mods)
  <2>1. \A k \in DOMAIN f : f[k] = Flag(TRUE)
    BY DEF InsertFlags
  <2> HIDE DEF f
  <2>2. Legal(f)
    BY <2>1, PlainValues, LegalIf
  <2> QED
    BY <2>2 DEF f
<1>2. CASE code.kind = "Char"
  <2>1. EncodeKey(code, mods) = Joined([ch |-> Str(code.char), k |-> Str("ch")], InsertFlags(ModKey, mods))
    BY <1>2, Zenon DEF EncodeKey
  <2>2. Legal([ch |-> Str(code.char), k |-> Str("ch")])
    BY PlainValues, LegalIf DEF TextKeys
  <2> QED
    BY <1>1, <2>1, <2>2, JoinedLegal
<1>3. CASE code.kind = "F"
  <2>1. EncodeKey(code, mods) = Joined([n |-> Num(code.arg), k |-> Str("f")], InsertFlags(ModKey, mods))
    BY <1>3, Zenon DEF EncodeKey
  <2>2. code.arg \in 0 .. U64
    BY <1>0, <1>3, Wide DEF KeyCodes, CharKey, With, Unit
  <2>3. Legal([n |-> Num(code.arg), k |-> Str("f")])
    BY <2>2, PlainValues, LegalIf DEF TextKeys
  <2> QED
    BY <1>1, <2>1, <2>3, JoinedLegal
<1>4. CASE code.kind # "Char" /\ code.kind # "F"
  <2>1. EncodeKey(code, mods) = Joined([k |-> Str(UnitKeyTag[code.kind])], InsertFlags(ModKey, mods))
    BY <1>4, Zenon DEF EncodeKey
  <2>2. Legal([k |-> Str(UnitKeyTag[code.kind])])
    BY PlainValues, LegalIf DEF TextKeys
  <2> QED
    BY <1>1, <2>1, <2>2, JoinedLegal
<1> QED
  BY <1>2, <1>3, <1>4

\* The discriminant and the ID of a command.
LEMMA HeadLegal ==
  ASSUME NEW c, "id" \in DOMAIN c => c.id \in Ids
  PROVE  Legal(IF "id" \in DOMAIN c THEN [t |-> Str(c.t), id |-> Num(c.id)] ELSE [t |-> Str(c.t)])
<1>1. ASSUME "id" \in DOMAIN c PROVE Legal([t |-> Str(c.t), id |-> Num(c.id)])
  BY <1>1, WireAssumption, PlainValues, LegalIf DEF TextKeys
<1>2. Legal([t |-> Str(c.t)])
  BY PlainValues, LegalIf DEF TextKeys
<1> QED
  BY <1>1, <1>2

\* The fields of every command are legal.
LEMMA FieldsLegal == \A c \in Commands : Legal(EncodeFields(c))
<1>1. ASSUME NEW c \in [t : {"tag"}, id : Ids, on : BOOLEAN] PROVE Legal(EncodeFields(c))
  <2>1. EncodeFields(c) = [on |-> Flag(c.on)]
    BY c.t = "tag", Zenon DEF EncodeFields
  <2> QED
    BY <2>1, PlainValues, LegalIf, Wide DEF TextKeys
<1>2. ASSUME NEW c \in [t : {"flagship"}, mark : Maybe(Ids)] PROVE Legal(EncodeFields(c))
  <2>1. EncodeFields(c) = [id |-> Json({}, c.mark, {}, {})]
    BY c.t = "flagship", Zenon DEF EncodeFields
  <2> QED
    BY <2>1, PlainValues, LegalIf, Wide DEF TextKeys
<1>3. ASSUME NEW c \in [t : {"watch"}, mark : Maybe(Ids), attached : BOOLEAN] PROVE Legal(EncodeFields(c))
  <2>1. EncodeFields(c) = [id |-> Json({}, c.mark, {}, {}), attached |-> Flag(c.attached)]
    BY c.t = "watch", Zenon DEF EncodeFields
  <2> QED
    BY <2>1, PlainValues, LegalIf, Wide DEF TextKeys
<1>4. ASSUME NEW c \in [t : {"resize"}, rows : 0 .. U16, cols : 0 .. U16] PROVE Legal(EncodeFields(c))
  <2>1. EncodeFields(c) = [rows |-> Num(c.rows), cols |-> Num(c.cols)]
    BY c.t = "resize", Zenon DEF EncodeFields
  <2> QED
    BY <2>1, PlainValues, LegalIf, Wide DEF TextKeys
<1>5. ASSUME NEW c \in [t : {"paste"}, id : Ids, bytes : Octets] PROVE Legal(EncodeFields(c))
  <2>1. EncodeFields(c) = [bytes |-> B64(c.bytes)]
    BY c.t = "paste", Zenon DEF EncodeFields
  <2> QED
    BY <2>1, PlainValues, LegalIf, Wide DEF TextKeys
<1>6. ASSUME NEW c \in [t : {"save", "load"}, name : Strings] PROVE Legal(EncodeFields(c))
  <2>1. EncodeFields(c) = [name |-> Str(c.name)]
    BY c.t \in {"save", "load"}, Zenon DEF EncodeFields
  <2> QED
    BY <2>1, PlainValues, LegalIf, Wide DEF TextKeys
<1>7. ASSUME NEW c \in [t : {"recover"}, stem : Strings] PROVE Legal(EncodeFields(c))
  <2>1. EncodeFields(c) = [stem |-> Str(c.stem)]
    BY c.t = "recover", Zenon DEF EncodeFields
  <2> QED
    BY <2>1, PlainValues, LegalIf, Wide DEF TextKeys
<1>8. ASSUME NEW c \in [t : {"kill", "remove", "restart"}, id : Ids] PROVE Legal(EncodeFields(c))
  <2>1. EncodeFields(c) = <<>>
    BY c.t \in {"kill", "remove", "restart"}, Zenon DEF EncodeFields
  <2> QED
    BY <2>1, PlainValues, LegalIf, Wide DEF TextKeys
<1>9. ASSUME NEW c \in [t : {"list", "shutdown"}] PROVE Legal(EncodeFields(c))
  <2>1. EncodeFields(c) = <<>>
    BY c.t \in {"list", "shutdown"}, Zenon DEF EncodeFields
  <2> QED
    BY <2>1, PlainValues, LegalIf, Wide DEF TextKeys
<1>10. ASSUME NEW c \in [t : {"spawn"}, command : Strings, cwd : Octets, group : Maybe(Strings)]
      PROVE  Legal(EncodeFields(c))
  <2> DEFINE p == [command |-> Str(c.command), cwd |-> B64(c.cwd)]
             q == [group |-> Texts(c.group)]
  <2>1. EncodeFields(c) = Joined(p, InsertOpt(q))
    BY c.t = "spawn", Zenon DEF EncodeFields
  <2>2. Legal(p)
    BY PlainValues, LegalIf DEF TextKeys
  <2>3. Legal(InsertOpt(q))
    BY InsertLegal
  <2> HIDE DEF p, q
  <2> QED
    BY <2>1, <2>2, <2>3, JoinedLegal
<1>11. ASSUME NEW c \in [t : {"spawn_agent"}, agent : Strings, cwd : Octets, group : Maybe(Strings)]
      PROVE  Legal(EncodeFields(c))
  <2> DEFINE p == [agent |-> Str(c.agent), cwd |-> B64(c.cwd)]
             q == [group |-> Texts(c.group)]
  <2>1. EncodeFields(c) = Joined(p, InsertOpt(q))
    BY c.t = "spawn_agent", Zenon DEF EncodeFields
  <2>2. Legal(p)
    BY PlainValues, LegalIf DEF TextKeys
  <2>3. Legal(InsertOpt(q))
    BY InsertLegal
  <2> HIDE DEF p, q
  <2> QED
    BY <2>1, <2>2, <2>3, JoinedLegal
<1>12. ASSUME NEW c \in [t : {"group"}, id : Ids, group : Maybe(Strings)] PROVE Legal(EncodeFields(c))
  <2>1. EncodeFields(c) = InsertOpt([g |-> Texts(c.group)])
    BY c.t = "group", Zenon DEF EncodeFields
  <2> QED
    BY <2>1, InsertLegal
<1>13. ASSUME NEW c \in [t : {"name"}, id : Ids, name : Maybe(Strings)] PROVE Legal(EncodeFields(c))
  <2>1. EncodeFields(c) = InsertOpt([n |-> Texts(c.name)])
    BY c.t = "name", Zenon DEF EncodeFields
  <2> QED
    BY <2>1, InsertLegal
<1>14. ASSUME NEW c \in [t : {"mouse"}, id : Ids, col : 0 .. U16, row : 0 .. U16, mouse : MouseActions]
      PROVE  Legal(EncodeFields(c))
  <2> DEFINE p == [col |-> Num(c.col), row |-> Num(c.row)]
  <2>1. EncodeFields(c) = Joined(p, EncodeMouse(c.mouse))
    BY c.t = "mouse", Zenon DEF EncodeFields
  <2>2. Legal(p)
    BY PlainValues, LegalIf, Wide DEF TextKeys
  <2>3. Legal(EncodeMouse(c.mouse))
    BY MouseLegal
  <2> HIDE DEF p
  <2> QED
    BY <2>1, <2>2, <2>3, JoinedLegal
<1>15. ASSUME NEW c \in [t : {"key"}, id : Ids, mods : SUBSET DOMAIN ModKey, code : KeyCodes]
      PROVE  Legal(EncodeFields(c))
  <2>1. EncodeFields(c) = EncodeKey(c.code, c.mods)
    BY c.t = "key", Zenon DEF EncodeFields
  <2> QED
    BY <2>1, KeyLegal
<1>16. ASSUME NEW c \in [t : {"sb"}, id : Ids, action : ScrollActions] PROVE Legal(EncodeFields(c))
  <2>1. EncodeFields(c) = EncodeScroll(c.action)
    BY c.t = "sb", Zenon DEF EncodeFields
  <2> QED
    BY <2>1, ScrollLegal
<1> QED
  BY <1>1, <1>2, <1>3, <1>4, <1>5, <1>6, <1>7, <1>8, <1>9, <1>10, <1>11, <1>12, <1>13, <1>14, <1>15, <1>16, Zenon DEF Commands

\* The object of a command is legal.
LEMMA CommandLegal == \A c \in Commands : Legal(EncodeCommand(c))
<1> SUFFICES ASSUME NEW c \in Commands PROVE Legal(EncodeCommand(c))
  OBVIOUS
<1>1. "id" \in DOMAIN c => c.id \in Ids
  BY DEF Commands
<1> QED
  BY <1>1, HeadLegal, FieldsLegal, JoinedLegal, Zenon DEF EncodeCommand

-----------------------------------------------------------------------------
(* Damage is refused, or read as what it says.                             *)

\* Damage leaves an object legal.
LEMMA DamagedLegal ==
  ASSUME NEW o, Legal(o), NEW keys, NEW d \in Corrupted(o, keys)
  PROVE  Legal(d)
<1>1. \A v \in Values : Plain(v) /\ v.str \subseteq Strings
  BY PlainValues DEF Values
<1>2. \A k : Get(d, k) = Get(o, k) \/ Get(d, k) \in Values
  BY CorruptedGet
<1> QED
  BY <1>1, <1>2 DEF Legal

\* A damaged command is refused, or read as what it says.
LEMMA DamagedCommand ==
  \A c \in Commands : \A keys : "t" \notin keys =>
    \A o \in Corrupted(EncodeCommand(c), keys) : \A d \in DecodeCommand(o) : Says(o, d)
<1> SUFFICES ASSUME NEW c \in Commands, NEW keys, "t" \notin keys,
                    NEW o \in Corrupted(EncodeCommand(c), keys), NEW d \in DecodeCommand(o)
             PROVE  Says(o, d)
  OBVIOUS
<1>1. Legal(o)
  BY CommandLegal, DamagedLegal
<1>2. Get(o, "t") = Str(c.t)
  BY CommandGet, CorruptedGet
<1> QED
  BY <1>1, <1>2, ReadIsSaid

\* A row without one of the fields every row has is not read.
LEMMA RowCut ==
  ASSUME NEW o, NEW k \in {"id", "command", "cwd", "tagged", "flagship", "managed", "life",
                           "preview", "src", "frozen", "working"}
  PROVE  DecodeRow(Without(o, k)) = {}
<1> DEFINE w == Without(o, k)
<1>1. Get(w, k) = Null
  BY DEF Without, Get
<1> HIDE DEF w
<1>2. /\ Get(w, k).str = {} /\ Get(w, k).num = {} /\ Get(w, k).flag = {}
      /\ FromB64(Get(w, k)) = {}
  BY <1>1, Parts DEF FromB64
<1>3. DecodeRow(w) = {}
  <2> SUFFICES ASSUME NEW r \in DecodeRow(w) PROVE FALSE
    OBVIOUS
  <2>1. /\ r.id \in Get(w, "id").num /\ r.command \in Get(w, "command").str
        /\ r.cwd \in FromB64(Get(w, "cwd")) /\ r.tagged \in Get(w, "tagged").flag
        /\ r.flagship \in Get(w, "flagship").flag /\ r.managed \in Get(w, "managed").flag
        /\ r.life \in Get(w, "life").str /\ r.preview \in Get(w, "preview").str
        /\ r.src \in Get(w, "src").str /\ r.frozen \in Get(w, "frozen").flag
        /\ r.working \in Get(w, "working").flag
    BY DEF DecodeRow
  <2> QED
    BY <1>2, <2>1
<1> QED
  BY <1>3 DEF w

\* Nor is an entry.
LEMMA EntryCut ==
  ASSUME NEW o, NEW k \in {"stem", "label", "tasks", "age"}
  PROVE  DecodeEntry(Without(o, k)) = {}
<1> DEFINE w == Without(o, k)
<1>1. Get(w, k) = Null
  BY DEF Without, Get
<1> HIDE DEF w
<1>2. Get(w, k).str = {} /\ Get(w, k).num = {} /\ NumOf(Get(w, k), U32) = {}
  BY <1>1, Parts DEF NumOf, NumFrom
<1>3. DecodeEntry(w) = {}
  <2> SUFFICES ASSUME NEW r \in DecodeEntry(w) PROVE FALSE
    OBVIOUS
  <2>1. /\ r.stem \in Get(w, "stem").str /\ r.label \in Get(w, "label").str
        /\ r.tasks \in NumOf(Get(w, "tasks"), U32) /\ r.age \in Get(w, "age").num
    BY DEF DecodeEntry
  <2> QED
    BY <1>2, <2>1
<1> QED
  BY <1>3 DEF w

\* A table with a row that cannot be read is not read.
LEMMA TableCut ==
  ASSUME NEW a, NEW b, DecodeRow(b) = {}
  PROVE  DecodeEvent([t |-> Str("tasks"), tasks |-> List(<<a, b>>)]) = {}
<1>1. PICK o : o = [t |-> Str("tasks"), tasks |-> List(<<a, b>>)]
  OBVIOUS
<1>2. Get(o, "t") = Str("tasks") /\ Get(o, "tasks") = List(<<a, b>>)
  BY <1>1 DEF Get
<1>3. Members(Get(o, "tasks")) = <<a, b>>
  BY <1>2, MembersRead
<1>4. 2 \in DOMAIN Rows(Get(o, "tasks")) /\ Rows(Get(o, "tasks"))[2] = {}
  BY <1>3 DEF Rows
<1>5. AllOf(Rows(Get(o, "tasks"))) = {}
  BY <1>4, NoneRead
<1>6. DecodeEventAs("tasks", o) = [t : {"tasks"}, tasks : AllOf(Rows(Get(o, "tasks")))]
  BY Zenon DEF DecodeEventAs
<1>7. [t : {"tasks"}, tasks : {}] = {}
  OBVIOUS
<1> QED
  BY <1>1, <1>2, <1>5, <1>6, <1>7, EventKindRead

\* Of two entries the first of which cannot be read the second is kept.
LEMMA SecondKept ==
  ASSUME NEW x, NEW parts, Len(parts) = 2, parts[1] = {}, parts[2] = {x}
  PROVE  SomeOf(parts) = <<x>>
<1> DEFINE f == [i \in 0 .. 2 |-> IF i = 2 THEN <<x>> ELSE <<>>]
<1>1. parts[2] # {} /\ (CHOOSE y \in parts[2] : TRUE) = x
  BY ChooseOne
<1>2. Append(<<>>, x) = <<x>>
  OBVIOUS
<1>3. Reads(f, parts, 2)
  <2>1. f[0] = <<>> /\ f[1] = <<>> /\ f[2] = <<x>>
    OBVIOUS
  <2>2. f = [i \in 0 .. 2 |-> f[i]]
    OBVIOUS
  <2> HIDE DEF f
  <2>3. ASSUME NEW i \in 0 .. 2
        PROVE  f[i] = IF i = 0 THEN <<>>
                      ELSE IF parts[i] = {} THEN f[i - 1] ELSE Append(f[i - 1], CHOOSE y \in parts[i] : TRUE)
    <3>1. CASE i = 0
      BY <3>1, <2>1
    <3>2. CASE i = 1
      <4>1. f[1] = f[1 - 1]
        BY <2>1
      <4> QED
        BY <3>2, <4>1, Zenon
    <3>3. CASE i = 2
      <4>1. f[2] = Append(f[2 - 1], x) /\ 2 # 0
        BY <1>2, <2>1
      <4> QED
        BY <1>1, <3>3, <4>1, Zenon
    <3> QED
      BY <3>1, <3>2, <3>3
  <2> QED
    BY <2>2, <2>3 DEF Reads
<1> HIDE DEF f
<1>4. PICK g : Reads(g, parts, 2) /\ SomeOf(parts) = g[2]
  <2>1. Reads(f, parts, Len(parts)) /\ Len(parts) \in Nat
    BY <1>3
  <2>2. PICK g : Reads(g, parts, Len(parts)) /\ SomeOf(parts) = g[Len(parts)]
    BY <2>1, SomeReads, Zenon
  <2> QED
    BY <2>2, Zenon
<1>5. \A i \in 0 .. 2 : g[i] = IF i = 0 THEN <<>>
        ELSE IF parts[i] = {} THEN g[i - 1] ELSE Append(g[i - 1], CHOOSE y \in parts[i] : TRUE)
  BY <1>4 DEF Reads
<1>6. 0 \in 0 .. 2 /\ 1 \in 0 .. 2 /\ 2 \in 0 .. 2 /\ 1 - 1 = 0 /\ 2 - 1 = 1 /\ 1 # 0 /\ 2 # 0
  OBVIOUS
<1>7. g[0] = <<>>
  BY <1>5, <1>6, Zenon
<1>8. g[1] = g[1 - 1]
  BY <1>5, <1>6, Zenon
<1>9. g[2] = Append(g[2 - 1], x)
  <2>1. g[2] = IF 2 = 0 THEN <<>>
               ELSE IF parts[2] = {} THEN g[2 - 1] ELSE Append(g[2 - 1], CHOOSE y \in parts[2] : TRUE)
    BY <1>5, <1>6, Zenon
  <2>2. g[2] = Append(g[2 - 1], CHOOSE y \in parts[2] : TRUE)
    BY <1>1, <1>6, <2>1, Zenon
  <2> QED
    BY <1>1, <2>2, Zenon
<1> QED
  BY <1>2, <1>4, <1>6, <1>7, <1>8, <1>9

\* A snapshot entry that cannot be read is left out, the next one is kept.
LEMMA EntryDropped ==
  ASSUME NEW r \in Entries, NEW a, DecodeEntry(a) = {}
  PROVE  DecodeEvent([t |-> Str("sessions"), names |-> StrList(<<>>), recovery |-> List(<<a, EncodeEntry(r)>>)])
           = {[t |-> "sessions", names |-> <<>>, recovery |-> <<r>>]}
<1>1. PICK o : o = [t |-> Str("sessions"), names |-> StrList(<<>>), recovery |-> List(<<a, EncodeEntry(r)>>)]
  OBVIOUS
<1>2. /\ Get(o, "t") = Str("sessions") /\ Get(o, "names") = StrList(<<>>)
      /\ Get(o, "recovery") = List(<<a, EncodeEntry(r)>>)
  BY <1>1 DEF Get
<1>3. StrVec(Get(o, "names")) = {<<>>}
  <2>1. <<>> \in Seq(Strings)
    OBVIOUS
  <2> QED
    BY <1>2, <2>1, TextsRead
<1>4. SomeOf(Saved(Get(o, "recovery"))) = <<r>>
  <2> DEFINE l == <<a, EncodeEntry(r)>>
             parts == [i \in DOMAIN l |-> DecodeEntry(l[i])]
  <2>1. Saved(Get(o, "recovery")) = parts
    BY <1>2, MembersRead DEF Saved
  <2>2. DOMAIN l = 1 .. 2 /\ l[1] = a /\ l[2] = EncodeEntry(r)
    OBVIOUS
  <2> HIDE DEF l
  <2>3. DOMAIN parts = 1 .. 2 /\ parts[1] = {} /\ parts[2] = {r}
    BY <2>2, EntryRead
  <2>4. Len(parts) = 2
    BY <2>2
  <2> HIDE DEF parts
  <2> QED
    BY <2>1, <2>3, <2>4, SecondKept
<1>5. DecodeEventAs("sessions", o) = [t : {"sessions"}, names : StrVec(Get(o, "names")),
                                      recovery : {SomeOf(Saved(Get(o, "recovery")))}]
  BY Zenon DEF DecodeEventAs
<1>6. ASSUME NEW x, NEW y
      PROVE  [t : {"sessions"}, names : {x}, recovery : {y}] = {[t |-> "sessions", names |-> x, recovery |-> y]}
  <2>1. ASSUME NEW d \in [t : {"sessions"}, names : {x}, recovery : {y}]
        PROVE  d = [t |-> "sessions", names |-> x, recovery |-> y]
    OBVIOUS
  <2>2. [t |-> "sessions", names |-> x, recovery |-> y] \in [t : {"sessions"}, names : {x}, recovery : {y}]
    OBVIOUS
  <2> QED
    BY <2>1, <2>2
<1>7. DecodeEvent(o) = DecodeEventAs("sessions", o)
  BY <1>2, EventKindRead
<1>8. DecodeEvent(o) = {[t |-> "sessions", names |-> <<>>, recovery |-> <<r>>]}
  <2>1. DecodeEvent(o) = [t : {"sessions"}, names : {<<>>}, recovery : {<<r>>}]
    BY <1>3, <1>4, <1>5, <1>7, Zenon
  <2> QED
    BY <1>6, <2>1, Zenon
<1> QED
  BY <1>1, <1>8, Zenon

\* Whatever happens to the rest of a hello, its version can be read.
LEMMA VersionKept ==
  ASSUME NEW ctx \in Contexts, NEW v \in 0 .. U32, NEW o \in Corrupted(EncodeHello(v, ctx), {"cwd", "env"})
  PROVE  HelloVersion(o) = {v}
<1>1. Get(o, "v") = Get(EncodeHello(v, ctx), "v")
  <2>1. \A k : k \notin {"cwd", "env"} => Get(o, k) = Get(EncodeHello(v, ctx), k)
    BY CorruptedGet
  <2> QED
    BY <2>1
<1>2. Get(o, "v") = Num(v)
  BY <1>1, HelloGet
<1>3. NumOf(Num(v), U32) = {v}
  BY NumRead, Widths
<1> QED
  BY <1>2, <1>3 DEF HelloVersion, NumOf

\* Damage is refused, or changes what is said.
LEMMA DamageMeansNothing == DamageIsRefused
<1>1. ASSUME NEW c \in Commands,
             NEW o \in Corrupted(EncodeCommand(c), (DOMAIN EncodeCommand(c) \cup Optional(c)) \ {"t"}),
             NEW d \in DecodeCommand(o)
      PROVE  Says(o, d)
  <2>1. "t" \notin (DOMAIN EncodeCommand(c) \cup Optional(c)) \ {"t"}
    OBVIOUS
  <2> QED
    BY <2>1, DamagedCommand, Zenon
<1>2. ASSUME NEW v \in Views, NEW k \in {"id", "command", "cwd", "tagged", "flagship", "managed", "life",
                                         "preview", "src", "frozen", "working"}
      PROVE  DecodeEvent([t |-> Str("tasks"), tasks |-> List(<<EncodeRow(v), Without(EncodeRow(v), k)>>)]) = {}
  BY RowCut, TableCut
<1>3. ASSUME NEW r \in Entries, NEW k \in {"stem", "label", "tasks", "age"}
      PROVE  DecodeEvent([t |-> Str("sessions"), names |-> StrList(<<>>),
                          recovery |-> List(<<Without(EncodeEntry(r), k), EncodeEntry(r)>>)])
               = {[t |-> "sessions", names |-> <<>>, recovery |-> <<r>>]}
  BY EntryCut, EntryDropped
<1> QED
  BY <1>1, <1>2, <1>3, VersionKept DEF DamageIsRefused

\* The messages of the socket mean at one end what was said at the other: whatever the texts,
\* the widths of the numbers, the rows and the size of a frame are, commands, events, screens
\* and hellos decode to themselves, the handshake serves between equal versions alone, and
\* damage is refused or read as what the message says.
THEOREM MessagesMean == SentIsRead /\ HandshakeAgreed /\ DamageIsRefused
BY AllIsRead, BothEndsAgree, DamageMeansNothing

\* So does every frame that a behaviour of the socket has on its way.
THEOREM FramesAreUnderstood == Spec => []FramesMean
<1>1. FramesMean
  BY MessagesMean DEF FramesMean
<1> QED
  BY <1>1, PTL
=============================================================================
