------------------------------- MODULE ServeLoop -------------------------------
(***************************************************************************)
(* One daemon serving one client after another: serve_client (daemon.rs),  *)
(* run_loop (core.rs), and the part of the supervisor that belongs to a    *)
(* connection: the waker, the watch, the screen that was last sent, the    *)
(* viewport and the clipboard stores of the tasks. The reader thread of    *)
(* the connection, the reader threads of the tasks, the client and the     *)
(* signal handler run beside the loop.                                     *)
(***************************************************************************)
EXTENDS Integers, Sequences, FiniteSets

CONSTANTS Task, NoTask,
          Noisy,     \* bound: the tasks that produce output
          Attachable, \* bound: the tasks a client attaches to; it may peek at every one
          MaxVer,    \* bound: how often the screen of a task changes
          Big,       \* screens, as <<task, ver>>, that take more than MAX_FRAME
          MaxWakes   \* bound: commands on the way

ASSUME ServeLoopAssumption ==
  /\ NoTask \notin Task /\ Noisy \subseteq Task /\ Attachable \subseteq Task
  /\ MaxVer \in Nat /\ MaxWakes \in Nat
  /\ Big \subseteq Task \X (0 .. MaxVer)

Watching == [id : Task \cup {NoTask}, attached : BOOLEAN]
NoWatch  == [id |-> NoTask, attached |-> FALSE]

View   == [id : Task, ver : 0 .. MaxVer, back : BOOLEAN]
NoView == [id |-> NoTask, ver |-> 0, back |-> FALSE]

\* What a tick that panicked left in the queue of events.
Left        == [store : BOOLEAN, screen : View \cup {NoView}]
NothingLeft == [store |-> FALSE, screen |-> NoView]

\* What the channel carries in order: commands (Watch, Scroll, Shutdown), Hangup.
Wake == [op : {"watch", "scroll", "shutdown", "hangup"},
         id : Task \cup {NoTask}, attached : BOOLEAN]

WatchCmd(w)  == [op |-> "watch", id |-> w.id, attached |-> w.attached]
ScrollCmd(t) == [op |-> "scroll", id |-> t, attached |-> FALSE]
Bare(op)     == [op |-> op, id |-> NoTask, attached |-> FALSE]

VARIABLES
  pc,       \* where the daemon's thread is
  leaving,  \* run_loop ended with LoopExit::Shutdown
  stop,     \* the signal flag
  dirty, since,          \* run_loop: work since the last tick, time since then
  wakes,    \* commands on their way: socket, reader thread and channel are one queue
  output,   \* Output is in the channel, once or more often
  waker, reader,  \* a sender is in the waker slot; the reader thread
  open, asked, want, got,  \* client: it holds its end, tasks it watched, its last
                           \* Watch, the last Screen it was sent
  watch, last,           \* supervisor: watched and watch_attached, last_screen
  left,                  \* supervisor: events that wait for the next drain
  ver, back, clip, unsignalled  \* tasks: screen, scrolled back, pending stores

loopVars   == <<pc, leaving, dirty, since>>
linkVars   == <<wakes, output, waker, reader>>
clientVars == <<open, asked, want, got>>
coreVars   == <<watch, last, left>>
taskVars   == <<ver, back, clip, unsignalled>>
vars == <<loopVars, stop, linkVars, clientVars, coreVars, taskVars>>

TypeOK ==
  /\ pc \in {"accept", "top", "recv", "drain", "tick", "cleanup", "join", "ended"}
  /\ leaving \in BOOLEAN /\ stop \in BOOLEAN /\ dirty \in BOOLEAN
  /\ since \in {"frame", "floor", "idle"}
  /\ wakes \in Seq(Wake) /\ Len(wakes) <= MaxWakes + 1
  /\ output \in BOOLEAN /\ waker \in BOOLEAN
  /\ reader \in {"none", "reading", "ended"}
  /\ open \in BOOLEAN /\ asked \subseteq Task /\ want \in Watching /\ got \in View \cup {NoView}
  /\ watch \in Watching /\ last \in View \cup {NoView} /\ left \in Left
  /\ ver \in [Task -> 0 .. MaxVer] /\ back \in [Task -> BOOLEAN]
  /\ clip \in [Task -> {"none", "own", "other"}]
  /\ unsignalled \subseteq Task

-----------------------------------------------------------------------------
(* Supervisor: the commands of a connection.                               *)

\* Stores captured under another watch are nobody's to forward.
Disowned(t) == IF clip[t] = "none" THEN "none" ELSE "other"

\* Mutant: the new target keeps the stores it made for nobody.
WatchKeepsStores(w) ==
  /\ watch' = w
  /\ back' = [t \in Task |-> back[t] /\ ~(t = watch.id /\ w.id # watch.id)]
  /\ last' = IF w = watch THEN last ELSE NoView
  /\ UNCHANGED clip

\* Watch: the old target's viewport returns to live, the new one's pending
\* stores are discarded, and its screen is due again.
Watch(w) ==
  /\ watch' = w
  /\ back' = [t \in Task |-> back[t] /\ ~(t = watch.id /\ w.id # watch.id)]
  /\ clip' = [t \in Task |-> IF w = watch THEN clip[t]
                             ELSE IF t = w.id THEN "none" ELSE Disowned(t)]
  /\ last' = IF w = watch THEN last ELSE NoView

Scroll(t) ==
  /\ back' = [back EXCEPT ![t] = TRUE]
  /\ UNCHANGED <<watch, last, clip>>

-----------------------------------------------------------------------------
(* serve_client, and the accept loop around it.                            *)

\* The flag ends the daemon between clients.
IdleStop ==
  /\ pc = "accept" /\ stop
  /\ pc' = "ended"
  /\ UNCHANGED <<leaving, stop, dirty, since, linkVars, clientVars, coreVars, taskVars>>

\* A client connects and passes the handshake. What belongs to the connection
\* has its first value already, see ClientIsGone and CleanUp.
Serve ==
  /\ pc = "accept" /\ ~stop
  /\ pc' = "top"
  /\ waker' = TRUE /\ reader' = "reading" /\ open' = TRUE
  /\ UNCHANGED <<leaving, stop, dirty, since, wakes, output, asked, want, got, coreVars, taskVars>>

ClientIsGone == open' = FALSE /\ asked' = {} /\ want' = NoWatch /\ got' = NoView

LoopIsGone == wakes' = <<>> /\ output' = FALSE /\ dirty' = FALSE /\ since' = "idle"

\* Mutants: the cleanup leaves the watch, or does not shut down the socket.
CleanUpWatching ==
  /\ pc = "cleanup" /\ pc' = "join"
  /\ waker' = FALSE /\ ClientIsGone /\ LoopIsGone
  /\ UNCHANGED <<leaving, stop, reader, coreVars, taskVars>>
CleanUpOpen ==
  /\ pc = "cleanup" /\ pc' = "join"
  /\ waker' = FALSE /\ Watch(NoWatch) /\ LoopIsGone
  /\ UNCHANGED <<leaving, stop, reader, clientVars, left, ver, unsignalled>>

\* Every exit of run_loop passes here: clear_waker, clear_watch, and the socket
\* is shut down, which ends the connection for the client too. The queue of
\* events is not cleared.
CleanUp ==
  /\ pc = "cleanup" /\ pc' = "join"
  /\ waker' = FALSE /\ Watch(NoWatch) /\ ClientIsGone /\ LoopIsGone
  /\ UNCHANGED <<leaving, stop, reader, left, ver, unsignalled>>

Join ==
  /\ pc = "join" /\ reader = "ended"
  /\ pc' = IF leaving THEN "ended" ELSE "accept"
  /\ reader' = "none"
  /\ UNCHANGED <<leaving, stop, dirty, since, wakes, output, waker, clientVars, coreVars, taskVars>>

-----------------------------------------------------------------------------
(* run_loop.                                                               *)

\* Mutant: the flag is left to the accept loop.
LookAtStopLater ==
  /\ pc = "top" /\ pc' = "recv"
  /\ UNCHANGED <<leaving, stop, dirty, since, linkVars, clientVars, coreVars, taskVars>>

LookAtStop ==
  /\ pc = "top"
  /\ pc' = IF stop THEN "cleanup" ELSE "recv"
  /\ leaving' = stop
  /\ UNCHANGED <<stop, dirty, since, linkVars, clientVars, coreVars, taskVars>>

\* apply: fold one wake into the supervisor, from the wait or from the burst.
Apply ==
  /\ pc \in {"recv", "drain"} /\ wakes # <<>>
  /\ wakes' = Tail(wakes)
  /\ LET w == Head(wakes)
         leaves == w.op \in {"shutdown", "hangup"}
     IN /\ pc' = IF leaves THEN "cleanup" ELSE "drain"
        /\ leaving' = (w.op = "shutdown")
        /\ dirty' = (dirty \/ ~leaves)
        /\ CASE w.op = "watch"  -> Watch([id |-> w.id, attached |-> w.attached])
             [] w.op = "scroll" -> Scroll(w.id)
             [] OTHER           -> UNCHANGED <<watch, last, back, clip>>
  /\ UNCHANGED <<stop, since, output, waker, reader, clientVars, left, ver, unsignalled>>

ApplyOutput ==
  /\ pc \in {"recv", "drain"} /\ output
  /\ pc' = "drain" /\ output' = FALSE /\ dirty' = TRUE
  /\ UNCHANGED <<leaving, stop, since, wakes, waker, reader, clientVars, coreVars, taskVars>>

\* wait_for: a frame while there is work, the fallback otherwise.
Due == IF dirty THEN since # "frame" ELSE since = "idle"

RecvTimesOut ==
  /\ pc = "recv" /\ Due
  /\ pc' = "drain"
  /\ UNCHANGED <<leaving, stop, dirty, since, linkVars, clientVars, coreVars, taskVars>>

Drained ==
  /\ pc = "drain" /\ wakes = <<>> /\ ~output
  /\ pc' = IF Due THEN "tick" ELSE "top"
  /\ UNCHANGED <<leaving, stop, dirty, since, linkVars, clientVars, coreVars, taskVars>>

\* The watched task's screen, and whether a tick queues it.
Screen == [id |-> watch.id, ver |-> ver[watch.id], back |-> back[watch.id]]

\* Mutant: a watched task's screen is sent once, not whenever it changed.
ScreenDueOnce == watch.id # NoTask /\ last = NoView

ScreenDue == watch.id # NoTask /\ Screen # last

\* tick drains every task's stores and forwards those of the attached one.
Forwards == watch.attached /\ watch.id # NoTask /\ clip[watch.id] # "none"

\* send_event skips a payload over MAX_FRAME, which the tick takes for sent.
Fits(s) == <<s.id, s.ver>> \notin Big

\* The last screen the client is sent: what was left in the queue comes first.
Shipped ==
  IF ScreenDue /\ Fits(Screen) THEN Screen
  ELSE IF left.screen # NoView /\ Fits(left.screen) THEN left.screen ELSE got

Tick ==
  /\ pc = "tick" /\ open
  /\ pc' = "top"
  /\ dirty' = FALSE /\ since' = "frame"
  /\ last' = IF ScreenDue THEN Screen ELSE last
  /\ got' = Shipped
  /\ left' = NothingLeft
  /\ clip' = [t \in Task |-> "none"]
  /\ UNCHANGED <<leaving, stop, linkVars, open, asked, want, watch, ver, back, unsignalled>>

\* A write fails or times out: what the client got of the tick no longer matters, and
\* the rest of what was drained is dropped.
TickFails ==
  /\ pc = "tick" /\ pc' = "cleanup"
  /\ since' = "frame"
  /\ last' = IF ScreenDue THEN Screen ELSE last
  /\ left' = NothingLeft
  /\ clip' = [t \in Task |-> "none"]
  /\ UNCHANGED <<leaving, stop, dirty, linkVars, clientVars, watch, ver, back, unsignalled>>

\* A handler panics.
Panic ==
  /\ pc = "drain" /\ pc' = "cleanup"
  /\ UNCHANGED <<leaving, stop, dirty, since, linkVars, clientVars, coreVars, taskVars>>

\* A tick panics, on its way through the rows, with the stores of some drained.
RowsPanic ==
  /\ pc = "tick" /\ pc' = "cleanup"
  /\ \E drained \in SUBSET Task :
       clip' = [t \in Task |-> IF t \in drained THEN "none" ELSE clip[t]]
  /\ since' = "frame"
  /\ UNCHANGED <<leaving, stop, dirty, linkVars, clientVars, coreVars, ver, back, unsignalled>>

\* The queue behind the rows, without and with the screen.
Queued(s) == [store |-> left.store \/ Forwards, screen |-> s]

\* A tick panics behind the rows: in p.formatted(), in screen_lines, or in the recovery
\* pass. What it has queued stays queued.
ScreenPanics ==
  /\ pc = "tick" /\ pc' = "cleanup"
  /\ \/ last' = last /\ left' = Queued(left.screen)
     \/ ScreenDue /\ last' = Screen /\ left' \in {Queued(left.screen), Queued(Screen)}
  /\ clip' = [t \in Task |-> "none"]
  /\ since' = "frame"
  /\ UNCHANGED <<leaving, stop, dirty, linkVars, clientVars, watch, ver, back, unsignalled>>

-----------------------------------------------------------------------------
(* The reader thread of the connection: it forwards what it reads (see     *)
(* wakes), and end of file, from the client or from the shutdown of the    *)
(* socket, as Hangup.                                                      *)

\* Mutant: the thread reads on after an error.
ReaderReadsOn ==
  /\ reader = "reading" /\ ~open
  /\ wakes' = IF pc = "join" THEN wakes ELSE Append(wakes, Bare("hangup"))
  /\ reader' = IF pc = "join" THEN "ended" ELSE reader
  /\ UNCHANGED <<loopVars, stop, output, waker, clientVars, coreVars, taskVars>>

ReaderHangsUp ==
  /\ reader = "reading" /\ ~open
  /\ reader' = "ended"
  /\ wakes' = IF pc = "join" THEN wakes ELSE Append(wakes, Bare("hangup"))
  /\ UNCHANGED <<loopVars, stop, output, waker, clientVars, coreVars, taskVars>>

-----------------------------------------------------------------------------
(* The tasks: output advances the screen, then the thread signals.         *)

Output(t) ==
  /\ t \in Noisy \ unsignalled
  /\ unsignalled' = unsignalled \cup {t}
  /\ \/ ver[t] < MaxVer /\ ver' = [ver EXCEPT ![t] = @ + 1] /\ UNCHANGED clip
     \/ /\ clip[t] = "none"
        /\ clip' = [clip EXCEPT ![t] = IF watch = [id |-> t, attached |-> TRUE]
                                       THEN "own" ELSE "other"]
        /\ UNCHANGED ver
  /\ UNCHANGED <<loopVars, stop, linkVars, clientVars, coreVars, back>>

Signal(t) ==
  /\ t \in unsignalled
  /\ unsignalled' = unsignalled \ {t}
  /\ output' = (output \/ waker)
  /\ UNCHANGED <<loopVars, stop, wakes, waker, reader, clientVars, coreVars, ver, back, clip>>

-----------------------------------------------------------------------------
(* The client, the signal handler and the clock.                           *)

Sends(cmd) ==
  /\ open /\ Len(wakes) < MaxWakes
  /\ wakes' = Append(wakes, cmd)
  /\ UNCHANGED <<loopVars, stop, output, waker, reader, open, got, coreVars, taskVars>>

\* set_watch: sent when the wish changes.
ClientWatches(w) ==
  /\ w # want /\ want' = w
  /\ asked' = (asked \cup {w.id}) \ {NoTask}
  /\ Sends(WatchCmd(w))

\* Only the attached task is scrolled.
ClientScrolls == want.attached /\ Sends(ScrollCmd(want.id)) /\ UNCHANGED <<asked, want>>

ClientQuits == Sends(Bare("shutdown")) /\ UNCHANGED <<asked, want>>

ClientCloses ==
  /\ open /\ ClientIsGone
  /\ UNCHANGED <<loopVars, stop, linkVars, coreVars, taskVars>>

RaiseStop ==
  /\ ~stop /\ stop' = TRUE
  /\ UNCHANGED <<loopVars, linkVars, clientVars, coreVars, taskVars>>

Elapse ==
  /\ since # "idle" /\ since' = IF since = "frame" THEN "floor" ELSE "idle"
  /\ UNCHANGED <<pc, leaving, dirty, stop, linkVars, clientVars, coreVars, taskVars>>

-----------------------------------------------------------------------------
Init ==
  /\ pc = "accept" /\ leaving = FALSE /\ stop = FALSE /\ dirty = FALSE /\ since = "idle"
  /\ wakes = <<>> /\ output = FALSE /\ waker = FALSE /\ reader = "none"
  /\ open = FALSE /\ asked = {} /\ want = NoWatch /\ got = NoView
  /\ watch = NoWatch /\ last = NoView /\ left = NothingLeft
  /\ ver = [t \in Task |-> 0] /\ back = [t \in Task |-> FALSE]
  /\ clip = [t \in Task |-> "none"] /\ unsignalled = {}

Loop == IdleStop \/ CleanUp \/ Join \/ LookAtStop \/ Apply \/ ApplyOutput \/ RecvTimesOut \/ Drained

Ticking == Tick \/ TickFails

Panics == Panic \/ RowsPanic \/ ScreenPanics

Client ==
  \/ \E w \in Watching : (w.attached => w.id \in Attachable) /\ ClientWatches(w)
  \/ ClientScrolls \/ ClientQuits \/ ClientCloses

Next ==
  \/ Serve \/ Loop \/ Ticking \/ Panics
  \/ ReaderHangsUp \/ Client \/ RaiseStop \/ Elapse
  \/ \E t \in Task : Output(t) \/ Signal(t)

Spec == Init /\ [][Next]_vars

\* Threads run, time passes, and a write ends within its timeout. Clients come
\* and go, and send, as they like.
Fairness ==
  /\ WF_vars(Loop) /\ WF_vars(Ticking) /\ WF_vars(ReaderHangsUp) /\ WF_vars(Elapse)
  /\ \A t \in Task : WF_vars(Signal(t))

FairSpec == Spec /\ Fairness
-----------------------------------------------------------------------------
(* Properties.                                                             *)

\* What a connection leaves behind for the next client: no sender in the waker
\* slot, no watch, no memory of a screen, and every viewport live, whichever way
\* the connection ended. What a tick that panicked has left in the
\* queue of events stays there (left).
IdleIsClean ==
  pc = "accept" => ~waker /\ watch = NoWatch /\ last = NoView /\ \A t \in Task : ~back[t]

\* What a tick queues itself is of its own client: a screen of a task that this client
\* asked to watch, and clipboard stores that the task made while it was attached. What
\* a tick that panicked has left in the queue is the exception: it goes out with the
\* first tick of the next client, and with no other.
OnlyWhatWasAsked ==
  [][Tick => /\ ScreenDue => watch.id \in asked
             /\ Forwards => clip[watch.id] = "own"
             /\ left # NothingLeft => got = NoView /\ last = NoView]_vars

\* A burst of wakes ends: run_loop drains the channel before it goes on.
BurstsEnd == []<>(pc # "drain")

\* A client that stays on a task ends up with the task's screen as it is, if it fits
\* into a frame, although a screen is sent only when it changed, notifications between
\* clients are lost, and a screen that does not fit is taken for sent.
ScreenArrives ==
  BurstsEnd => \A t \in Task :
    <>[](open /\ want.id = t /\ <<t, ver[t]>> \notin Big) => <>[](got.id = t /\ got.ver = ver[t])

\* A raised flag ends the daemon, whether it serves a client or waits for one. A
\* connection that is over is let go, even when its client keeps the socket open
\* and says nothing: the reader thread is not waited for in vain.
StopEnds ==
  /\ BurstsEnd => (stop ~> pc = "ended")
  /\ pc = "join" ~> pc \in {"accept", "ended"}
-----------------------------------------------------------------------------
(* The strengthening that makes IdleIsClean and OnlyWhatWasAsked inductive. *)

\* What the core watches once it has read the first k commands of q is t; w is what it
\* watches now.
Sees(q, w, k, t) ==
  \/ \E j \in 1 .. k : /\ q[j].op = "watch" /\ q[j].id = t
                       /\ \A m \in (j + 1) .. k : q[m].op # "watch"
  \/ w = t /\ \A m \in 1 .. k : q[m].op # "watch"

\* A scroll comes after the watch of its task: the client knows what the core will watch.
InStep ==
  /\ \A k \in 1 .. Len(wakes) : wakes[k].op = "scroll" => Sees(wakes, watch.id, k, wakes[k].id)
  /\ open => Sees(wakes, watch.id, Len(wakes), want.id)

\* Only the watched task is scrolled back.
BackIsWatched == \A t \in Task : back[t] => t = watch.id

\* What is watched, or will be, the client has asked for; one that is gone asks nothing.
AskedFor ==
  /\ open => /\ watch.id \in asked \cup {NoTask}
             /\ \A k \in 1 .. Len(wakes) : wakes[k].op = "watch" => wakes[k].id \in asked \cup {NoTask}
  /\ ~open => asked = {} /\ want = NoWatch

\* What waits to be forwarded for the attached task was made under this attachment.
StoresAreOwn == watch.attached /\ watch.id # NoTask => clip[watch.id] # "other"

\* With no task watched, no screen is remembered.
NothingShown == watch.id = NoTask => last = NoView

\* Past its cleanup a connection has left nothing, and no reader thread but one that ends.
LeftClean ==
  /\ pc \in {"accept", "join", "ended"} =>
       /\ ~waker /\ ~open /\ wakes = <<>>
       /\ watch = NoWatch /\ last = NoView /\ \A t \in Task : ~back[t]
  /\ pc \in {"accept", "ended"} => reader = "none"

\* The reader thread has room left for the one Hangup it will send.
RoomForHangup == reader = "reading" => Len(wakes) <= MaxWakes

\* What a panic has left waits for the first tick of the next client.
LeftWaits == left # NothingLeft /\ pc # "cleanup" => got = NoView /\ last = NoView

ConnInv ==
  /\ InStep /\ BackIsWatched /\ AskedFor /\ StoresAreOwn
  /\ NothingShown /\ LeftClean /\ RoomForHangup /\ LeftWaits
=============================================================================
