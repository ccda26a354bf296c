-------------------------------- MODULE Viewport --------------------------------
(***************************************************************************)
(* The attached view: the watch the client asks for, the screen it holds,  *)
(* scrollback, drag selection and mouse capture (App, app.rs), against the *)
(* viewport, the watch and the last screen of the core (supervisor.rs).    *)
(* Both sides keep a copy of what the other one has; commands and screens  *)
(* cross on the way. Keys come in bursts between passes of App::run. What  *)
(* a screen shows is left out, except that output makes it another one.    *)
(***************************************************************************)
EXTENDS Naturals, Sequences

CONSTANTS Task, NoTask,
          Kinds,     \* bound: input policies that children take, of those below
          Restless,  \* bound: tasks whose children write output and have history
          MaxCmds,   \* bound: commands on the way
          MaxEvs     \* bound: screens on the way

\* "inline": no mouse reports and no alternate screen. "alt": alternate screen with
\* alternate scroll, and no mouse reports.
Policies == {"inline", "mouse", "alt"}

ASSUME ViewportAssumption ==
  /\ NoTask \notin Task /\ Restless \subseteq Task
  /\ Kinds \subseteq Policies /\ "inline" \in Kinds
  /\ MaxCmds \in Nat /\ MaxEvs \in Nat

Target == Task \cup {NoTask}

\* ScreenView, as far as input policy and viewport go.
Screen == [id : Task, back : BOOLEAN, kind : Policies]
NoScreen == [id |-> NoTask, back |-> FALSE, kind |-> "inline"]

\* "down" may stop short of the live rows; "input" is a key, a paste or a mouse report
\* for the child.
Cmd == [op : {"watch", "up", "down", "live", "input"}, id : Target]
Tell(op, t) == [op |-> op, id |-> t]

VARIABLES
  pc,         \* App::run: "sync", "keys"
  focused, banner,  \* focused_id, NoTask if not attached; mode is Disconnected
  viewScroll, watched, screen, captured,  \* watched is (id, true) or None
  selection,  \* the task whose rows are being dragged over, or NoTask
  link, cmds, evs,
  watch, last,  \* supervisor: watched, last_screen (NoScreen once output changed it)
  back, kind    \* emulators: scrolled back, what the child asked for

clientVars   == <<focused, banner, viewScroll, watched, screen, captured, selection>>
wireVars     == <<link, cmds, evs>>
coreViewVars == <<watch, last, back, kind>>
viewVars     == <<pc, clientVars, wireVars, coreViewVars>>

ViewTypeOK ==
  /\ pc \in {"sync", "keys"}
  /\ focused \in Target /\ banner \in BOOLEAN /\ viewScroll \in BOOLEAN /\ watched \in Target
  /\ screen \in Screen \cup {NoScreen} /\ captured \in BOOLEAN /\ selection \in Target
  /\ link \in {"up", "lost"} /\ cmds \in Seq(Cmd) /\ evs \in Seq(Screen)
  /\ watch \in Target /\ last \in Screen \cup {NoScreen}
  /\ back \in [Task -> BOOLEAN] /\ kind \in [Task -> Policies]

-----------------------------------------------------------------------------
(* Sending. What is sent on a connection that is lost arrives nowhere.     *)

Send(c) ==
  IF link = "up" THEN Len(cmds) < MaxCmds /\ cmds' = Append(cmds, c) /\ UNCHANGED <<link, evs>>
                 ELSE UNCHANGED wireVars

\* screen_for
Shows(t) == screen # NoScreen /\ screen.id = t

-----------------------------------------------------------------------------
(* A pass: watch, read screens, check, set the modes of the terminal.      *)

\* set_watch: sent when the wish changes.
SetWatch ==
  IF focused = watched THEN UNCHANGED <<watched, selection, screen, wireVars>>
  ELSE /\ watched' = focused /\ selection' = NoTask
       /\ screen' = IF focused = NoTask THEN NoScreen ELSE screen
       /\ Send(Tell("watch", focused))

BeginPass ==
  /\ pc = "keys" /\ pc' = "sync"
  /\ SetWatch
  /\ UNCHANGED <<focused, banner, viewScroll, captured, coreViewVars>>

\* on_screen: a live frame after one of history ends the view.
OnScreen ==
  /\ pc = "sync" /\ evs # <<>>
  /\ LET ends == viewScroll /\ screen.back /\ ~Head(evs).back
     IN /\ viewScroll' = (viewScroll /\ ~ends)
        /\ selection' = IF ends THEN NoTask ELSE selection
  /\ screen' = Head(evs) /\ evs' = Tail(evs)
  /\ UNCHANGED <<pc, focused, banner, watched, captured, link, cmds, coreViewVars>>

\* desired_mouse_capture
Capture(t) == t # NoTask /\ (viewScroll \/ (Shows(t) /\ screen.kind # "alt"))

\* check_connection. The flag of a view that is left is not read before the next
\* attachment sets it. (check_attached_task is Client's.)
LeavesIfLost ==
  /\ banner' = (link = "lost")
  /\ focused' = IF banner' THEN NoTask ELSE focused
  /\ viewScroll' = (viewScroll /\ ~banner')

\* Mutant: the drag goes on when the terminal no longer reports the mouse.
EndPassDragging ==
  /\ pc = "sync" /\ pc' = "keys"
  /\ evs = <<>> \/ link = "lost"
  /\ LeavesIfLost /\ captured' = Capture(focused')
  /\ selection' = IF banner' THEN NoTask ELSE selection
  /\ UNCHANGED <<watched, screen, wireVars, coreViewVars>>

\* The rest of a pass, up to the frame that is painted: sync_input_modes.
EndPass ==
  /\ pc = "sync" /\ pc' = "keys"
  /\ evs = <<>> \/ link = "lost"
  /\ LeavesIfLost /\ captured' = Capture(focused')
  /\ selection' = IF captured' /\ ~banner' THEN selection ELSE NoTask
  /\ UNCHANGED <<watched, screen, wireVars, coreViewVars>>

-----------------------------------------------------------------------------
(* Keys.                                                                   *)

Key == pc = "keys" /\ ~banner /\ UNCHANGED <<pc, banner, watched, screen, captured, coreViewVars>>
Attached == focused # NoTask

\* Enter on a row, and the chord from one task to another.
AttachTo(t) ==
  /\ Key /\ t # focused
  /\ focused' = t /\ viewScroll' = FALSE
  /\ UNCHANGED <<selection, wireVars>>

Detach ==
  /\ Key /\ Attached
  /\ focused' = NoTask /\ viewScroll' = FALSE /\ selection' = NoTask
  /\ UNCHANGED wireVars

\* PageUp with a modifier enters scrollback; there, PageUp, Up, Home and the wheel
\* scroll.
ScrollUp ==
  /\ Key /\ Attached
  /\ viewScroll' = TRUE /\ selection' = NoTask
  /\ Send(Tell("up", focused))
  /\ UNCHANGED focused

\* PageDown, Down, the wheel.
ScrollDown ==
  /\ Key /\ Attached /\ viewScroll
  /\ selection' = NoTask /\ Send(Tell("down", focused))
  /\ UNCHANGED <<focused, viewScroll>>

\* End, Esc, Enter, q.
ScrollEnds ==
  /\ Key /\ Attached /\ viewScroll
  /\ viewScroll' = FALSE /\ selection' = NoTask
  /\ Send(Tell("live", focused))
  /\ UNCHANGED focused

\* A paste goes to the child as it is, above a view of the history too: the view ends with
\* the live frame that follows, see OnScreen.
OnPaste ==
  /\ Key /\ Attached
  /\ Send(Tell("input", focused))
  /\ UNCHANGED <<focused, viewScroll, selection>>

\* forward_key. A key that is no scroll key ends the view as well.
Forward ==
  /\ Key /\ Attached
  /\ IF viewScroll THEN viewScroll' = FALSE /\ selection' = NoTask
                   ELSE UNCHANGED <<viewScroll, selection>>
  /\ Send(Tell("input", focused))
  /\ UNCHANGED focused

Resize ==
  /\ Key /\ selection # NoTask
  /\ selection' = NoTask
  /\ UNCHANGED <<focused, viewScroll, wireVars>>

-----------------------------------------------------------------------------
(* The mouse.                                                              *)

\* The screen the client holds lets it use the mouse itself.
Ours == viewScroll \/ (Shows(focused) /\ screen.kind # "mouse")

\* A left press begins a drag over the rows on display, if they fill the pane. One
\* that does not is lost in scrollback, and the child's otherwise, see Report.
Press ==
  /\ Key /\ Attached /\ Ours
  /\ \/ selection' = focused /\ captured /\ Shows(focused)
     \/ selection' = NoTask /\ viewScroll
  /\ UNCHANGED <<focused, viewScroll, wireVars>>

\* finish_selection: copied, unless it was a click.
Release ==
  /\ Key /\ Attached /\ Ours /\ selection # NoTask
  /\ selection' = NoTask
  /\ UNCHANGED <<focused, viewScroll, wireVars>>

\* The wheel enters scrollback in an inline child.
WheelEnters ==
  /\ Key /\ Attached /\ ~viewScroll /\ Shows(focused) /\ screen.kind = "inline"
  /\ viewScroll' = TRUE /\ selection' = NoTask
  /\ Send(Tell("up", focused))
  /\ UNCHANGED focused

\* Everything else goes to the child, and ends a drag that began before the child
\* asked for the mouse.
Report ==
  /\ Key /\ Attached /\ ~viewScroll
  /\ selection' \in IF Ours THEN {selection, NoTask} ELSE {NoTask}
  /\ Send(Tell("input", focused))
  /\ UNCHANGED <<focused, viewScroll>>

-----------------------------------------------------------------------------
(* The core.                                                               *)

\* Nothing is scrolled back on the alternate screen.
Offset(t) == back[t] /\ kind[t] # "alt"

Scrolled(t, up) == [back EXCEPT ![t] = IF kind[t] = "alt" THEN @ ELSE up /\ t \in Restless]

\* Mutant: a new watch is shown only what differs from the screen sent last.
ApplyWatchKeeping(t) ==
  /\ back' = [u \in Task |-> IF u = watch /\ t # watch /\ kind[u] # "alt" THEN FALSE ELSE back[u]]
  /\ watch' = t
  /\ UNCHANGED last

\* The old target's viewport returns to live, and the new one's screen is due.
ApplyWatch(t) ==
  /\ back' = [u \in Task |-> IF u = watch /\ t # watch /\ kind[u] # "alt" THEN FALSE ELSE back[u]]
  /\ watch' = t
  /\ last' = IF t # watch THEN NoScreen ELSE last

\* send_input returns the viewport to live. A mouse report that the child did not ask
\* for sends nothing.
ApplyOther(c) ==
  /\ \/ c.op = "up" /\ back' = Scrolled(c.id, TRUE)
     \/ c.op \in {"down", "live", "input"} /\ back' = Scrolled(c.id, FALSE)
     \/ c.op \in {"down", "input"} /\ UNCHANGED back
  /\ UNCHANGED <<watch, last>>

Apply ==
  /\ cmds # <<>> /\ cmds' = Tail(cmds)
  /\ IF Head(cmds).op = "watch" THEN ApplyWatch(Head(cmds).id) ELSE ApplyOther(Head(cmds))
  /\ UNCHANGED <<pc, clientVars, link, evs, kind>>

View(t) == [id |-> t, back |-> Offset(t), kind |-> kind[t]]
Due == watch # NoTask /\ View(watch) # last

\* tick: the watched screen, when it differs from the last one sent.
Tick ==
  /\ link = "up" /\ Len(evs) < MaxEvs /\ Due
  /\ evs' = Append(evs, View(watch)) /\ last' = View(watch)
  /\ UNCHANGED <<pc, clientVars, link, cmds, watch, back, kind>>

\* Output makes the screen another one; a child may also ask for the mouse, change
\* screens, or clear its history.
Output(t) ==
  /\ t \in Restless
  /\ kind' \in {[kind EXCEPT ![t] = k] : k \in Kinds}
  /\ back' \in {back, [back EXCEPT ![t] = FALSE]}
  /\ last' = IF t = watch THEN NoScreen ELSE last
  /\ UNCHANGED <<pc, clientVars, wireVars, watch>>

-----------------------------------------------------------------------------
(* A lost connection. serve_client clears the watch when it ends.          *)

Lose ==
  /\ link = "up" /\ link' = "lost"
  /\ cmds' = <<>>
  /\ watch' = NoTask /\ last' = NoScreen
  /\ back' = [t \in Task |-> IF t = watch /\ kind[t] # "alt" THEN FALSE ELSE back[t]]
  /\ UNCHANGED <<pc, clientVars, evs, kind>>

\* Mutant: the client believes that the new connection is watching, too.
ReconnectWatching ==
  /\ banner /\ pc = "keys" /\ link = "lost"
  /\ link' = "up" /\ evs' = <<>>
  /\ screen' = NoScreen /\ banner' = FALSE
  /\ UNCHANGED <<pc, focused, viewScroll, captured, selection, watched, cmds, coreViewVars>>

\* reset_for_reconnect
Reconnect ==
  /\ banner /\ pc = "keys" /\ link = "lost"
  /\ link' = "up" /\ evs' = <<>>
  /\ screen' = NoScreen /\ watched' = NoTask /\ banner' = FALSE
  /\ UNCHANGED <<pc, focused, viewScroll, captured, selection, cmds, coreViewVars>>

-----------------------------------------------------------------------------
ViewInit ==
  /\ pc = "keys" /\ focused = NoTask /\ banner = FALSE /\ viewScroll = FALSE /\ watched = NoTask
  /\ screen = NoScreen /\ captured = FALSE /\ selection = NoTask
  /\ link = "up" /\ cmds = <<>> /\ evs = <<>>
  /\ watch = NoTask /\ last = NoScreen
  /\ back = [t \in Task |-> FALSE] /\ kind = [t \in Task |-> "inline"]

Pass == BeginPass \/ OnScreen \/ EndPass
Keys == (\E t \in Task : AttachTo(t)) \/ Detach \/ ScrollUp \/ ScrollDown \/ ScrollEnds
        \/ OnPaste \/ Forward \/ Resize
Mouse == Press \/ Release \/ WheelEnters \/ Report
Core == Apply \/ Tick \/ \E t \in Task : Output(t)

ViewNext == Pass \/ Keys \/ Mouse \/ Core \/ Lose \/ Reconnect

ViewSpec == ViewInit /\ [][ViewNext]_viewVars
-----------------------------------------------------------------------------
(* Properties.                                                             *)

Quiet(k) == \A j \in DOMAIN cmds : j > k => cmds[j].op # "watch"

\* What the core watches once it has read what is on the way.
WillWatch(t) ==
  \/ watch = t /\ Quiet(0)
  \/ \E k \in DOMAIN cmds : cmds[k] = Tell("watch", t) /\ Quiet(k)

\* What the client remembers to have asked for is what the core watches, or will, over
\* attachments, detachments and reconnects: set_watch sends nothing when it believes that
\* nothing changed.
WatchAgrees == link = "up" => WillWatch(watched)

\* Nothing is on the way, and neither side has anything to say.
Settled ==
  /\ pc = "keys" /\ link = "up" /\ ~banner /\ watched = focused
  /\ cmds = <<>> /\ evs = <<>> /\ ~Due

\* Once things settle, an attached user looks at the task as it is. The client drops
\* its screen, and the core forgets the one it sent, at different moments.
SettledIsCurrent == Settled /\ Attached => screen = View(focused)

ViewIsCurrent == WatchAgrees /\ SettledIsCurrent

\* While there is a drag, the terminal reports the mouse, and with it the end; one that is
\* painted belongs to an attached view. (In one burst a user may go to another task, press,
\* and come back: the drag is then over other rows than those it began on.)
DragWillEnd ==
  [][selection' # NoTask => captured' /\ (EndPass => focused' # NoTask)]_viewVars
-----------------------------------------------------------------------------
(* The strengthening that makes ViewIsCurrent and DragWillEnd inductive.   *)

Watches(k) == k \in DOMAIN cmds /\ cmds[k].op = "watch"

\* No watch repeats the one before it, so each of them makes the core forget the screen
\* it sent.
WatchesDiffer ==
  /\ \A k \in DOMAIN cmds :
       Watches(k) /\ (\A j \in 1 .. k - 1 : ~Watches(j)) => cmds[k].id # watch
  /\ \A j, k \in DOMAIN cmds :
       j < k /\ Watches(j) /\ Watches(k) /\ (\A i \in j + 1 .. k - 1 : ~Watches(i))
         => cmds[j].id # cmds[k].id

\* What the core remembers to have sent is on the way, last of all, or held, or it is
\* about to be forgotten.
SentIsHeld ==
  link = "up" /\ last # NoScreen =>
    IF evs # <<>> THEN evs[Len(evs)] = last ELSE screen = last \/ ~Quiet(0)

\* A connection that is lost leaves nothing at the core.
LostIsOver == link = "lost" => cmds = <<>> /\ watch = NoTask /\ last = NoScreen

DragIsCaptured == selection # NoTask => captured

ViewInv == WatchAgrees /\ WatchesDiffer /\ SentIsHeld /\ LostIsOver /\ DragIsCaptured
=============================================================================
