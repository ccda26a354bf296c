------------------------------ MODULE WriteQueue ------------------------------
(***************************************************************************)
(* The bounded writer queue of one run (task.rs): the core thread admits   *)
(* client input, the PTY reader thread admits probe replies, and a         *)
(* detached worker writes whole messages to the PTY, which blocks for as   *)
(* long as the child does not read. The counter of pending bytes is an     *)
(* atomic that each of the three touches in separate steps. A message is   *)
(* its length.                                                             *)
(***************************************************************************)
EXTENDS Integers, Sequences

CONSTANTS MaxPending,  \* MAX_PENDING_WRITE
          InputLen,    \* lengths of client messages, not empty
          ReplyLen,    \* lengths of probe replies, not empty
          MaxLen,      \* the longest message of either kind
          MaxReplies   \* bound: replies to the probes of one read

ASSUME WriteQueueAssumption ==
  /\ MaxPending \in Nat
  /\ InputLen \subseteq 1 .. MaxLen
  /\ ReplyLen \subseteq 1 .. MaxLen
  /\ MaxLen \in Nat
  /\ MaxReplies \in Nat

VARIABLES
  pending,  \* pending_write: bytes admitted and not yet written
  queue,    \* the channel
  inputTx,  \* the core holds its sender
  cpc, cmsg,           \* the core thread in admit_write, and its message
  rpc, rmsg, replies,  \* the reader thread, its message, and the replies after it
  wpc, wmsg, dead,     \* the worker, the message it received, and its error flag
  slave     \* some process has the terminal open

coreVars   == <<inputTx, cpc, cmsg>>
readerVars == <<rpc, rmsg, replies>>
workerVars == <<wpc, wmsg, dead>>
vars == <<pending, queue, coreVars, readerVars, workerVars, slave>>

TypeOK ==
  /\ pending \in Int
  /\ queue \in Seq(0 .. MaxLen)
  /\ inputTx \in BOOLEAN
  /\ cpc \in {"idle", "checked", "added"}
  /\ cmsg \in 0 .. MaxLen
  /\ rpc \in {"reading", "forwarding", "checked", "added", "ended"}
  /\ rmsg \in 0 .. MaxLen
  /\ replies \in Seq(ReplyLen)
  /\ wpc \in {"receiving", "writing", "settling", "ended"}
  /\ wmsg \in 0 .. MaxLen
  /\ dead \in BOOLEAN
  /\ slave \in BOOLEAN

-----------------------------------------------------------------------------
(* admit_write: the check, the fetch_add and the send are three steps.     *)

\* Mutant: the message under test is not counted.
FitsBefore(len) == pending <= MaxPending

Fits(len) == pending + len <= MaxPending

CoreChecks ==
  /\ cpc = "idle" /\ inputTx
  /\ \E len \in InputLen : Fits(len) /\ cmsg' = len
  /\ cpc' = "checked"
  /\ UNCHANGED <<pending, queue, inputTx, readerVars, workerVars, slave>>

CoreAdds ==
  /\ cpc = "checked" /\ cpc' = "added"
  /\ pending' = pending + cmsg
  /\ UNCHANGED <<queue, inputTx, cmsg, readerVars, workerVars, slave>>

CoreSends ==
  /\ cpc = "added" /\ cpc' = "idle"
  /\ queue' = Append(queue, cmsg)
  /\ UNCHANGED <<pending, inputTx, cmsg, readerVars, workerVars, slave>>

\* force_kill drops the core's sender; input after it is discarded.
ForceKill ==
  /\ cpc = "idle" /\ inputTx
  /\ inputTx' = FALSE
  /\ UNCHANGED <<pending, queue, cpc, cmsg, readerVars, workerVars, slave>>

-----------------------------------------------------------------------------
(* The reader thread.                                                      *)

Reads ==
  /\ rpc = "reading" /\ slave
  /\ \E n \in 1 .. MaxReplies : replies' \in [1 .. n -> ReplyLen]
  /\ rpc' = "forwarding"
  /\ UNCHANGED <<pending, queue, coreVars, rmsg, workerVars, slave>>

ReplyChecks ==
  /\ rpc = "forwarding" /\ replies # <<>> /\ Fits(Head(replies))
  /\ rpc' = "checked"
  /\ rmsg' = Head(replies) /\ replies' = Tail(replies)
  /\ UNCHANGED <<pending, queue, coreVars, workerVars, slave>>

\* Mutant: a reply is counted before it is checked, and stays counted.
ReplyDroppedCounted ==
  /\ rpc = "forwarding" /\ replies # <<>> /\ ~Fits(Head(replies))
  /\ pending' = pending + Head(replies)
  /\ replies' = Tail(replies)
  /\ UNCHANGED <<queue, coreVars, rpc, rmsg, workerVars, slave>>

\* A reply that does not fit is dropped without a notice.
ReplyDropped ==
  /\ rpc = "forwarding" /\ replies # <<>> /\ ~Fits(Head(replies))
  /\ replies' = Tail(replies)
  /\ UNCHANGED <<pending, queue, coreVars, rpc, rmsg, workerVars, slave>>

ReplyAdds ==
  /\ rpc = "checked" /\ rpc' = "added"
  /\ pending' = pending + rmsg
  /\ UNCHANGED <<queue, coreVars, rmsg, replies, workerVars, slave>>

ReplySends ==
  /\ rpc = "added" /\ rpc' = "forwarding"
  /\ queue' = Append(queue, rmsg)
  /\ UNCHANGED <<pending, coreVars, rmsg, replies, workerVars, slave>>

Forwarded ==
  /\ rpc = "forwarding" /\ replies = <<>>
  /\ rpc' = "reading"
  /\ UNCHANGED <<pending, queue, coreVars, rmsg, replies, workerVars, slave>>

\* Mutant: end of file does not end the thread.
ReaderStays == rpc = "reading" /\ ~slave /\ UNCHANGED vars

\* End of file: the thread ends, and its sender with it.
ReaderEnds ==
  /\ rpc = "reading" /\ ~slave
  /\ rpc' = "ended"
  /\ UNCHANGED <<pending, queue, coreVars, rmsg, replies, workerVars, slave>>

-----------------------------------------------------------------------------
(* The worker: drain_writes.                                               *)

Receives ==
  /\ wpc = "receiving" /\ queue # <<>>
  /\ wmsg' = Head(queue) /\ queue' = Tail(queue)
  /\ wpc' = IF dead THEN "settling" ELSE "writing"
  /\ UNCHANGED <<pending, coreVars, readerVars, dead, slave>>

Writes ==
  /\ wpc = "writing" /\ slave
  /\ wpc' = "settling"
  /\ UNCHANGED <<pending, queue, coreVars, readerVars, wmsg, dead, slave>>

\* Mutant: the worker leaves its loop at the first error.
WriteFailsForGood ==
  /\ wpc = "writing" /\ ~slave
  /\ wpc' = "ended" /\ dead' = TRUE
  /\ UNCHANGED <<pending, queue, coreVars, readerVars, wmsg, slave>>

\* The first error stops the writing, not the receiving.
WriteFails ==
  /\ wpc = "writing" /\ ~slave
  /\ wpc' = "settling" /\ dead' = TRUE
  /\ UNCHANGED <<pending, queue, coreVars, readerVars, wmsg, slave>>

Settles ==
  /\ wpc = "settling" /\ wpc' = "receiving"
  /\ pending' = pending - wmsg
  /\ UNCHANGED <<queue, coreVars, readerVars, wmsg, dead, slave>>

\* recv fails once the queue is empty and every sender is gone.
WorkerEnds ==
  /\ wpc = "receiving" /\ queue = <<>> /\ ~inputTx /\ rpc = "ended"
  /\ wpc' = "ended"
  /\ UNCHANGED <<pending, queue, coreVars, readerVars, wmsg, dead, slave>>

-----------------------------------------------------------------------------
\* The last process that has the terminal open ends or closes it.
SlaveCloses ==
  /\ slave /\ slave' = FALSE
  /\ UNCHANGED <<pending, queue, coreVars, readerVars, workerVars>>

Init ==
  /\ pending = 0 /\ queue = <<>> /\ inputTx = TRUE
  /\ cpc = "idle" /\ cmsg = 0
  /\ rpc = "reading" /\ rmsg = 0 /\ replies = <<>>
  /\ wpc = "receiving" /\ wmsg = 0 /\ dead = FALSE
  /\ slave = TRUE

Admitting == CoreAdds \/ CoreSends

Forwarding ==
  ReplyChecks \/ ReplyDropped \/ ReplyAdds \/ ReplySends \/ Forwarded \/ ReaderEnds

Draining == Receives \/ WriteFails \/ Settles \/ WorkerEnds

Next ==
  \/ CoreChecks \/ Admitting \/ ForceKill
  \/ Reads \/ Forwarding
  \/ Draining \/ Writes
  \/ SlaveCloses

Spec == Init /\ [][Next]_vars

\* Threads run. A child need not read what is written to it, but one that was
\* sent KILL ends, which closes the terminal.
Fairness ==
  /\ WF_vars(Admitting) /\ WF_vars(Forwarding) /\ WF_vars(Draining)
  /\ WF_vars(~inputTx /\ SlaveCloses)

FairSpec == Spec /\ Fairness
-----------------------------------------------------------------------------
(* Properties.                                                             *)

InHand(at, len, states) == IF at \in states THEN len ELSE 0

\* The bytes of a channel.
Bytes(s) ==
  LET sum[i \in 0 .. Len(s)] == IF i = 0 THEN 0 ELSE sum[i - 1] + s[i]
  IN sum[Len(s)]

\* Beside the channel: what the worker holds, and what an admitter has counted and
\* not sent yet.
Outside ==
  InHand(wpc, wmsg, {"writing", "settling"})
    + InHand(cpc, cmsg, {"added"}) + InHand(rpc, rmsg, {"added"})

\* The counter is exact: it covers the channel and what is outside it, so a subtraction
\* never passes zero (where usize would wrap and every later message be refused).
PendingIsExact == pending = Bytes(queue) + Outside

\* What admit_write says of the race between its check and its addition: the
\* cap is exceeded by at most one message, whatever the other admitter does.
OvershootOneMessage == pending <= MaxPending + MaxLen

\* After a KILL the worker ends, and nothing is left pending, even when it was
\* blocked in a write: no sender, the core's or the reader's, stays behind.
\* And a terminal that closes under a row that stays does not fill the queue for
\* good: once the client stops, everything that was admitted is settled.
QueueSettles ==
  /\ ~inputTx ~> wpc = "ended" /\ pending = 0
  /\ <>[](~slave /\ cpc = "idle") => <>[](pending = 0)
-----------------------------------------------------------------------------
\* The strengthening: what both admitters have checked and not counted yet is
\* within one message of the cap as well.
AdmissionInv ==
  pending + InHand(cpc, cmsg, {"checked"}) + InHand(rpc, rmsg, {"checked"})
    <= MaxPending + MaxLen
=============================================================================
