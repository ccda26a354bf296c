----------------------------- MODULE SocketTransport -----------------------------
(***************************************************************************)
(* The client's end of the socket (SocketTransport, transport.rs): the     *)
(* run loop that sends, polls and leaves, the writer thread behind the     *)
(* bounded queue, the reader thread, the wake tokens, and a daemon that    *)
(* reads, stalls, hangs up or dies as it likes. An event is only counted;  *)
(* what the frames say is in Wire.                                         *)
(***************************************************************************)
EXTENDS Wire

CONSTANTS SendQueue,  \* SEND_QUEUE
          Pipe,       \* frames the socket holds
          MaxSent,    \* bound: commands besides Shutdown
          MaxEvents   \* bound: events on the way

ASSUME TransportAssumption ==
  SendQueue \in Nat \ {0} /\ Pipe \in Nat \ {0} /\ MaxSent \in Nat /\ MaxEvents \in Nat

Shutdown == 0
Command  == 0 .. MaxSent  \* the n-th command is n

None == MaxSent + 1

VARIABLES
  pc,       \* the client: "poll", "wait", "quit", "join reader", "join writer", "gone",
            \* or "dropped": a reconnect replaced the transport
  intent,   \* how it leaves: "stay", "quit", "disconnect"
  dead,     \* SocketTransport::dead
  token,    \* wait_tx: a wake token is pending
  queue, sender,         \* frame_tx: its frames; its sender exists
  writer, hand,          \* writer thread: "recv", "write", "ended"; its frame
  reader, events,        \* reader thread: "read", "token", "last token", "closing", "ended";
                         \* decoded events in the channel
  out, inn,              \* the socket: commands on the way out, events on the way in
  down, peer,            \* shut down at this end; the daemon's end: "up", "stopping", "closed"
  sent, got,             \* history: commands queued, commands the daemon read
  expired, broken        \* history: the deadline passed; a write or the daemon failed

clientVars == <<pc, intent, dead>>
queueVars  == <<queue, sender, sent>>
writerVars == <<writer, hand>>
readerVars == <<reader, events>>
daemonVars == <<peer, got>>
histVars   == <<expired, broken>>
vars == <<clientVars, token, queueVars, writerVars, readerVars, out, inn, down, daemonVars, histVars>>

TypeOK ==
  /\ pc \in {"poll", "wait", "quit", "join reader", "join writer", "gone", "dropped"}
  /\ intent \in {"stay", "quit", "disconnect"} /\ dead \in BOOLEAN /\ token \in BOOLEAN
  /\ queue \in Seq(Command) /\ Len(queue) <= SendQueue /\ sender \in BOOLEAN
  /\ writer \in {"recv", "write", "ended"} /\ hand \in Command \cup {None}
  /\ reader \in {"read", "token", "last token", "closing", "ended"} /\ events \in Nat
  /\ out \in Seq(Command) /\ Len(out) <= Pipe /\ inn \in Nat
  /\ down \in BOOLEAN /\ peer \in {"up", "stopping", "closed"}
  /\ sent \in Seq(Command) /\ got \in Seq(Command)
  /\ expired \in BOOLEAN /\ broken \in BOOLEAN

-----------------------------------------------------------------------------
(* The client's thread. It never waits for the socket.                     *)

\* Mutant: a channel without a bound.
SendsAlways(c) ==
  IF dead THEN UNCHANGED <<dead, down, queue, sent>>
  ELSE IF writer # "ended"
       THEN /\ queue' = Append(queue, c) /\ sent' = Append(sent, c)
            /\ UNCHANGED <<dead, down>>
       ELSE dead' = TRUE /\ down' = TRUE /\ UNCHANGED <<queue, sent>>

\* Mutant: a frame that cannot be queued only marks the transport.
SendsOrMarks(c) ==
  IF dead THEN UNCHANGED <<dead, down, queue, sent>>
  ELSE IF writer # "ended" /\ Len(queue) < SendQueue
       THEN /\ queue' = Append(queue, c) /\ sent' = Append(sent, c)
            /\ UNCHANGED <<dead, down>>
       ELSE dead' = TRUE /\ UNCHANGED <<down, queue, sent>>

\* send: a frame that cannot be queued closes the transport.
Sends(c) ==
  IF dead THEN UNCHANGED <<dead, down, queue, sent>>
  ELSE IF writer # "ended" /\ Len(queue) < SendQueue
       THEN /\ queue' = Append(queue, c) /\ sent' = Append(sent, c)
            /\ UNCHANGED <<dead, down>>
       ELSE dead' = TRUE /\ down' = TRUE /\ UNCHANGED <<queue, sent>>

ClientSends ==
  /\ pc = "poll" /\ Len(sent) < MaxSent
  /\ Sends(Len(sent) + 1)
  /\ UNCHANGED <<pc, intent, token, sender, writerVars, readerVars, out, inn, daemonVars, histVars>>

Poll ==
  /\ pc = "poll" /\ pc' = "wait"
  /\ events' = 0
  /\ dead' = (dead \/ reader = "ended")
  /\ UNCHANGED <<intent, token, queueVars, writerVars, reader, out, inn, down, daemonVars, histVars>>

\* A token, input, or the next repaint.
Wake ==
  /\ pc = "wait" /\ pc' = "poll"
  /\ token' = FALSE
  /\ UNCHANGED <<intent, dead, queueVars, writerVars, readerVars, out, inn, down, daemonVars, histVars>>

\* App::reconnect: the dead transport is dropped; its threads are not joined.
Dropped ==
  /\ pc = "poll" /\ dead
  /\ pc' = "dropped" /\ sender' = FALSE
  /\ UNCHANGED <<intent, dead, token, queue, sent, writerVars, readerVars, out, inn, down, daemonVars,
                 histVars>>

Disconnect ==
  /\ pc = "poll"
  /\ pc' = "join reader" /\ intent' = "disconnect" /\ down' = TRUE
  /\ UNCHANGED <<dead, token, queueVars, writerVars, readerVars, out, inn, daemonVars, histVars>>

\* Mutant: the socket is shut down once Shutdown is queued.
QuitAtOnce ==
  /\ pc = "poll"
  /\ pc' = "join reader" /\ intent' = "quit" /\ down' = TRUE
  /\ queue' = Append(queue, Shutdown) /\ sent' = Append(sent, Shutdown)
  /\ UNCHANGED <<dead, token, sender, writerVars, readerVars, out, inn, daemonVars, histVars>>

\* quit_within
Quit ==
  /\ pc = "poll"
  /\ pc' = "quit" /\ intent' = "quit"
  /\ Sends(Shutdown)
  /\ UNCHANGED <<token, sender, writerVars, readerVars, out, inn, daemonVars, histVars>>

QuitSeesEnd ==
  /\ pc = "quit" /\ reader = "ended"
  /\ pc' = "join reader" /\ events' = 0
  /\ UNCHANGED <<intent, dead, token, queueVars, writerVars, reader, out, inn, down, daemonVars, histVars>>

QuitExpires ==
  /\ pc = "quit"
  /\ pc' = "join reader" /\ down' = TRUE /\ expired' = TRUE
  /\ UNCHANGED <<intent, dead, token, queueVars, writerVars, readerVars, out, inn, daemonVars, broken>>

\* Mutant: the sender is kept while the writer is joined.
JoinReaderOnly ==
  /\ pc = "join reader" /\ reader = "ended"
  /\ pc' = "join writer"
  /\ UNCHANGED <<intent, dead, token, queueVars, writerVars, readerVars, out, inn, down, daemonVars,
                 histVars>>

JoinReader ==
  /\ pc = "join reader" /\ reader = "ended"
  /\ pc' = "join writer" /\ sender' = FALSE
  /\ UNCHANGED <<intent, dead, token, queue, sent, writerVars, readerVars, out, inn, down, daemonVars,
                 histVars>>

JoinWriter ==
  /\ pc = "join writer" /\ writer = "ended"
  /\ pc' = "gone"
  /\ UNCHANGED <<intent, dead, token, queueVars, writerVars, readerVars, out, inn, down, daemonVars,
                 histVars>>

-----------------------------------------------------------------------------
(* The writer thread.                                                      *)

WriterTakes ==
  /\ writer = "recv" /\ queue # <<>>
  /\ writer' = "write" /\ hand' = Head(queue) /\ queue' = Tail(queue)
  /\ UNCHANGED <<clientVars, token, sender, sent, readerVars, out, inn, down, daemonVars, histVars>>

WriterEnds ==
  /\ writer = "recv" /\ queue = <<>> /\ ~sender
  /\ writer' = "ended"
  /\ UNCHANGED <<clientVars, token, queueVars, hand, readerVars, out, inn, down, daemonVars, histVars>>

WriterWrites ==
  /\ writer = "write" /\ ~down /\ peer # "closed" /\ Len(out) < Pipe
  /\ writer' = "recv" /\ hand' = None /\ out' = Append(out, hand)
  /\ UNCHANGED <<clientVars, token, queueVars, readerVars, inn, down, daemonVars, histVars>>

\* Mutant: the thread goes on with the next frame.
WriterSkips ==
  /\ writer = "write"
  /\ down \/ peer = "closed" \/ Len(out) = Pipe
  /\ writer' = "recv" /\ hand' = None
  /\ broken' = (broken \/ ~down)
  /\ UNCHANGED <<clientVars, token, queueVars, readerVars, out, inn, down, daemonVars, expired>>

\* The socket is shut down, the daemon has closed it, or has not read for
\* SEND_TIMEOUT. What is queued goes with the thread.
WriterFails ==
  /\ writer = "write"
  /\ down \/ peer = "closed" \/ Len(out) = Pipe
  /\ writer' = "ended" /\ hand' = None /\ queue' = <<>>
  /\ down' = TRUE /\ broken' = (broken \/ ~down)
  /\ UNCHANGED <<clientVars, token, sender, sent, readerVars, out, inn, daemonVars, expired>>

-----------------------------------------------------------------------------
(* The reader thread. Its sender goes with the thread, after its last token. *)

ReaderReads ==
  /\ reader = "read" /\ inn > 0
  /\ inn' = inn - 1
  /\ IF pc = "dropped" THEN reader' = "last token" /\ UNCHANGED events
                       ELSE reader' = "token" /\ events' = events + 1
  /\ UNCHANGED <<clientVars, token, queueVars, writerVars, out, down, daemonVars, histVars>>

ReaderEnds ==
  /\ reader = "read" /\ inn = 0 /\ (down \/ peer = "closed")
  /\ reader' = "last token"
  /\ UNCHANGED <<clientVars, token, queueVars, writerVars, events, out, inn, down, daemonVars, histVars>>

\* Mutant: a token only when the client is seen busy.
ReaderWakesLate ==
  /\ reader \in {"token", "last token"}
  /\ reader' = IF reader = "token" THEN "read" ELSE "closing"
  /\ token' = (token \/ reader = "last token" \/ pc = "poll")
  /\ UNCHANGED <<clientVars, queueVars, writerVars, events, out, inn, down, daemonVars, histVars>>

ReaderWakes ==
  /\ reader \in {"token", "last token"}
  /\ reader' = IF reader = "token" THEN "read" ELSE "closing"
  /\ token' = TRUE
  /\ UNCHANGED <<clientVars, queueVars, writerVars, events, out, inn, down, daemonVars, histVars>>

ReaderCloses ==
  /\ reader = "closing" /\ reader' = "ended"
  /\ UNCHANGED <<clientVars, token, queueVars, writerVars, events, out, inn, down, daemonVars, histVars>>

-----------------------------------------------------------------------------
(* The daemon: serve_client and run_loop, seen from here.                  *)

DaemonReads ==
  /\ peer = "up" /\ out # <<>>
  /\ got' = Append(got, Head(out)) /\ out' = Tail(out)
  /\ peer' = IF Head(out) = Shutdown THEN "stopping" ELSE "up"
  /\ UNCHANGED <<clientVars, token, queueVars, writerVars, readerVars, inn, down, histVars>>

DaemonSends ==
  /\ peer # "closed" /\ inn + events < MaxEvents
  /\ inn' = inn + 1
  /\ UNCHANGED <<clientVars, token, queueVars, writerVars, readerVars, out, down, daemonVars, histVars>>

\* After a Shutdown, at the end of file, or because it failed.
DaemonCloses ==
  /\ peer # "closed" /\ peer' = "closed" /\ out' = <<>>
  /\ broken' = (broken \/ ~(peer = "stopping" \/ (down /\ out = <<>>)))
  /\ UNCHANGED <<clientVars, token, queueVars, writerVars, readerVars, inn, down, got, expired>>

-----------------------------------------------------------------------------
Init ==
  /\ pc = "poll" /\ intent = "stay" /\ dead = FALSE /\ token = FALSE
  /\ queue = <<>> /\ sender = TRUE /\ writer = "recv" /\ hand = None
  /\ reader = "read" /\ events = 0 /\ out = <<>> /\ inn = 0
  /\ down = FALSE /\ peer = "up" /\ sent = <<>> /\ got = <<>>
  /\ expired = FALSE /\ broken = FALSE

Leaves == Disconnect \/ Quit
Teardown == QuitSeesEnd \/ QuitExpires \/ JoinReader \/ JoinWriter
Client == ClientSends \/ Poll \/ Wake \/ Dropped \/ Leaves \/ Teardown
Writer == WriterTakes \/ WriterEnds \/ WriterWrites \/ WriterFails
Reader == ReaderReads \/ ReaderEnds \/ ReaderWakes \/ ReaderCloses
Daemon == DaemonReads \/ DaemonSends \/ DaemonCloses

Next == Client \/ Writer \/ Reader \/ Daemon

Spec == Init /\ [][Next]_vars

\* Threads run and the deadline passes. Nothing is assumed of the daemon, nor of
\* how often the client polls.
FairSpec == Spec /\ WF_vars(Teardown) /\ WF_vars(Writer) /\ WF_vars(Reader)
-----------------------------------------------------------------------------
(* Properties.                                                             *)

\* Commands reach the daemon in the order they were sent, without a gap: a frame
\* that is lost takes the connection with it.
L == INSTANCE Link WITH up <- ~dead
InOrder == L!Spec

\* A quit that is over has stopped the daemon, or the deadline passed, a write or
\* the daemon failed, or the transport was dead (as when its queue was full).
QuitStops ==
  pc = "gone" /\ intent = "quit"
    => expired \/ broken \/ dead \/ \E i \in DOMAIN got : got[i] = Shutdown

\* An event that the client does not know of has a wake token, or will get one.
EventsWake == events > 0 /\ pc = "wait" => token \/ reader = "token"

\* Whatever frame is on its way, in either direction, the other end reads what was said: the
\* encoders and decoders of the messages, the framing and the handshake agree (Wire).
FramesMean == (out # <<>> \/ inn > 0) => SentIsRead /\ HandshakeAgreed /\ DamageIsRefused

\* Leaving ends, whatever the daemon does and wherever the threads are; the threads
\* of a transport that was replaced end, though nobody joins them.
TeardownEnds ==
  /\ pc \in {"quit", "join reader", "join writer"} ~> pc = "gone"
  /\ pc = "dropped" ~> (reader = "ended" /\ writer = "ended")
=============================================================================
