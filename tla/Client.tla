--------------------------------- MODULE Client ---------------------------------
(***************************************************************************)
(* The client's view of the fleet (App, app.rs): selection, the task that  *)
(* is attached, prompts, the flagship chord and the reconnect, all working *)
(* on a snapshot that lags behind the core. A pass of App::run reads       *)
(* the events one after the other, then checks; keys come between passes.  *)
(* The core is reduced to what a client can tell of it: which rows exist,  *)
(* which of them run, which one is the flagship. Leaving is                *)
(* SocketTransport's.                                                      *)
(***************************************************************************)
EXTENDS Input, Paths

CONSTANTS MaxId,   \* bound: IDs a daemon hands out
          MaxCmds, \* bound: commands on the way
          MaxEvs   \* bound: events on the way when the core ticks

ASSUME ClientAssumption == MaxId \in Nat \ {0} /\ MaxCmds \in Nat /\ MaxEvs \in Nat

\* IDs are handed out in order, by every daemon from 1 on.
Id       == 1 .. MaxId
NoId     == 0
Home     == 0          \* Origin::Dashboard
NoOrigin == MaxId + 1

View     == [done : BOOLEAN, flag : BOOLEAN]

\* Commands: "touch" is any that changes no row (input, tags, labels, Kill, which
\* leaves the row to the process's exit).
Cmd == [op : {"spawn", "load", "restart", "remove", "flagship", "touch"},
        id : Id \cup {NoId}]
Tell(op, i) == [op |-> op, id |-> i]

\* Events: a spawn's acknowledgement, a snapshot of some rows.
Snapshots == UNION {[S -> View] : S \in SUBSET Id}
Event == [op : {"spawned"}, id : Id] \cup [op : {"tasks"}, rows : Snapshots]
NoRows == [i \in {} |-> [done |-> FALSE, flag |-> FALSE]]

VARIABLES
  pc,       \* App::run: "sync", "keys"
  mode,     \* App::mode; "label" is Rename and PickGroup, "overlay" what names no task
  views, selected, pending,  \* snapshot, selected_id, pending_select
  focused, origin,           \* focused_id, return_to
  target, found,  \* the task a prompt was opened for; find_candidates
  link, cmds, evs,  \* "up" or "lost"; commands and events on the way
  row, born, flagship, \* core: rows, acknowledgements not sent, mark
  told      \* history: IDs this connection has named to the client

listVars  == <<views, selected, pending, told>>
taskVars  == <<focused, origin>>
askVars   == <<target, found>>
wireVars  == <<link, cmds, evs>>
coreVars  == <<row, born, flagship>>
vars == <<pc, mode, listVars, taskVars, askVars, wireVars, coreVars>>

TypeOK ==
  /\ pc \in {"sync", "keys"}
  /\ mode \in {"dashboard", "peek", "attached", "label", "find", "overlay", "disconnected"}
  /\ views \in Snapshots /\ selected \in Id \cup {NoId} /\ pending \in Id \cup {NoId}
  /\ focused \in Id \cup {NoId} /\ origin \in Id \cup {Home, NoOrigin}
  /\ target \in Id \cup {NoId} /\ found \subseteq Id
  /\ link \in {"up", "lost"} /\ cmds \in Seq(Cmd) /\ evs \in Seq(Event)
  /\ row \in [Id -> {"new", "runs", "done", "gone"}] /\ born \in Seq(Id)
  /\ flagship \in Id \cup {NoId} /\ told \subseteq Id

-----------------------------------------------------------------------------
(* Sending. What is sent on a connection that is lost arrives nowhere.     *)

Send(c) ==
  IF link = "up" THEN Len(cmds) < MaxCmds /\ cmds' = Append(cmds, c) /\ UNCHANGED <<link, evs>>
                 ELSE UNCHANGED wireVars

Listed(i) == i \in DOMAIN views

-----------------------------------------------------------------------------
(* A pass: wait for a token, read events, check.                           *)

\* set_watch, which follows the mode and names no other task, is left out.
Wait ==
  /\ pc = "keys" /\ pc' = "sync"
  /\ UNCHANGED <<mode, listVars, taskVars, askVars, wireVars, coreVars>>

SyncSpawned ==
  /\ Head(evs).op = "spawned"
  /\ pending' = Head(evs).id /\ told' = told \cup {Head(evs).id}
  /\ UNCHANGED <<views, selected>>

\* A snapshot replaces the old one, and selects the spawned task once it holds it.
SyncTasks ==
  /\ Head(evs).op = "tasks"
  /\ views' = Head(evs).rows /\ told' = told \cup DOMAIN Head(evs).rows
  /\ IF pending \in DOMAIN Head(evs).rows
     THEN selected' = pending /\ pending' = NoId
     ELSE UNCHANGED <<selected, pending>>

Sync ==
  /\ pc = "sync" /\ evs # <<>>
  /\ SyncSpawned \/ SyncTasks
  /\ evs' = Tail(evs)
  /\ UNCHANGED <<pc, mode, taskVars, askVars, link, cmds, coreVars>>

\* check_connection. A send that found the queue full ends the connection at once;
\* events that came before are then read while the banner is up.
LosesConnection ==
  /\ mode # "disconnected" /\ link = "lost"
  /\ mode' = "disconnected" /\ focused' = NoId /\ origin' = NoOrigin
  /\ target' = NoId /\ found' = {}

\* check_attached_task
LosesAttached ==
  /\ mode = "attached" /\ ~Listed(focused)
  /\ mode' = "dashboard" /\ focused' = NoId /\ origin' = NoOrigin
  /\ UNCHANGED askVars

LosesNothing == (mode = "attached" => Listed(focused)) /\ UNCHANGED <<mode, taskVars, askVars>>

\* The order of rows depends on data that is left out: the first may be any.
ResolveSelection ==
  IF Listed(selected) THEN UNCHANGED selected
  ELSE IF DOMAIN views = {} THEN selected' = NoId
  ELSE selected' \in DOMAIN views

Checks ==
  /\ pc = "sync" /\ pc' = "keys"
  /\ evs = <<>> \/ link = "lost"
  /\ LosesConnection \/ LosesAttached \/ LosesNothing
  /\ ResolveSelection
  /\ UNCHANGED <<views, pending, told, wireVars, coreVars>>

-----------------------------------------------------------------------------
(* Keys that move between modes and rows.                                  *)

Press(modes) == pc = "keys" /\ mode \in modes
NoKeyEffect == UNCHANGED <<pc, views, pending, told, coreVars>>

\* Arrows, wheel, Tab and M: which row is next depends on the order of rows.
Move ==
  /\ Press({"dashboard", "peek"})
  /\ selected' \in IF DOMAIN views = {} THEN {NoId} ELSE DOMAIN views
  /\ UNCHANGED <<mode, taskVars, askVars, wireVars>> /\ NoKeyEffect

Peek ==
  /\ Press({"dashboard"}) /\ Listed(selected)
  /\ mode' = "peek"
  /\ UNCHANGED <<selected, taskVars, askVars, wireVars>> /\ NoKeyEffect

\* R and g: the target stays, whatever happens to the selection.
OpenLabel ==
  /\ Press({"dashboard"}) /\ Listed(selected)
  /\ mode' = "label" /\ target' = selected
  /\ UNCHANGED <<selected, taskVars, found, wireVars>> /\ NoKeyEffect

\* The palette, opened or typed in. Which rows match depends on their text.
Find ==
  /\ Press({"dashboard", "find"})
  /\ mode = "dashboard" => DOMAIN views # {}
  /\ mode' = "find" /\ found' = DOMAIN views
  /\ UNCHANGED <<selected, taskVars, target, wireVars>> /\ NoKeyEffect

\* The task may be gone by now.
FindEnter ==
  /\ Press({"find"})
  /\ selected' \in found /\ mode' = "dashboard" /\ found' = {}
  /\ UNCHANGED <<taskVars, target, wireVars>> /\ NoKeyEffect

\* Spawn, PickDir, SaveSession, LoadSession, Controls.
OpenOther ==
  /\ Press({"dashboard"})
  /\ mode' = "overlay"
  /\ UNCHANGED <<selected, taskVars, askVars, wireVars>> /\ NoKeyEffect

\* Esc, and the keys that close an overlay.
Close ==
  /\ Press({"peek", "label", "find", "overlay"})
  /\ mode' = "dashboard" /\ target' = NoId /\ found' = {}
  /\ UNCHANGED <<selected, taskVars, wireVars>> /\ NoKeyEffect

-----------------------------------------------------------------------------
(* Attachment and the chord.                                               *)

AttachTo(i, from) ==
  /\ mode' = "attached" /\ focused' = i
  /\ origin' = IF Listed(i) /\ views[i].flag THEN from ELSE NoOrigin

Attach ==
  /\ Press({"dashboard", "peek"}) /\ Listed(selected)
  /\ AttachTo(selected, Home)
  /\ UNCHANGED <<selected, askVars, wireVars>> /\ NoKeyEffect

DetachView == mode' = "dashboard" /\ focused' = NoId /\ origin' = NoOrigin

Detach ==
  /\ Press({"attached"}) /\ DetachView
  /\ UNCHANGED <<selected, askVars, wireVars>> /\ NoKeyEffect

Here == IF mode = "attached" THEN focused ELSE Home

\* Ctrl-] with a recorded origin.
ChordBack ==
  /\ origin # NoOrigin
  /\ IF Listed(origin) THEN AttachTo(origin, Here) ELSE DetachView

\* Mutant: the flagship is a target even where it is attached.
ChordOutAlways ==
  /\ origin = NoOrigin
  /\ \E i \in DOMAIN views : views[i].flag /\ AttachTo(i, Here)

\* Ctrl-] without one: to the flagship, or away from it.
ChordOut ==
  /\ origin = NoOrigin
  /\ \E i \in DOMAIN views :
       /\ views[i].flag
       /\ IF mode = "attached" /\ focused = i THEN DetachView ELSE AttachTo(i, Here)

Chord ==
  /\ Press({"dashboard", "peek", "attached"})
  /\ ChordBack \/ ChordOut
  /\ UNCHANGED <<selected, askVars, wireVars>> /\ NoKeyEffect

-----------------------------------------------------------------------------
(* Keys that send.                                                         *)

\* X on a live task, m, and attached input; ] on a task that has not finished.
Touch ==
  /\ \/ Press({"dashboard"}) /\ Listed(selected) /\ Send(Tell("touch", selected))
     \/ Press({"attached"}) /\ Send(Tell("touch", focused))
  /\ UNCHANGED <<mode, selected, taskVars, askVars>> /\ NoKeyEffect

MarkFlagship ==
  /\ Press({"dashboard"}) /\ Listed(selected) /\ ~views[selected].done
  /\ Send(Tell("flagship", IF views[selected].flag THEN NoId ELSE selected))
  /\ UNCHANGED <<mode, selected, taskVars, askVars>> /\ NoKeyEffect

Rerun ==
  /\ Press({"dashboard", "peek"}) /\ Listed(selected) /\ views[selected].done
  /\ Send(Tell("restart", selected))
  /\ UNCHANGED <<mode, selected, taskVars, askVars>> /\ NoKeyEffect

\* Mutant: the next row, also after the last one.
RemovePastEnd ==
  /\ Press({"dashboard"}) /\ Listed(selected) /\ views[selected].done
  /\ selected' = selected + 1
  /\ Send(Tell("remove", selected))
  /\ UNCHANGED <<mode, taskVars, askVars>> /\ NoKeyEffect

\* X on a finished task. The selection goes to a neighbour in the old snapshot.
Remove ==
  /\ Press({"dashboard"}) /\ Listed(selected) /\ views[selected].done
  /\ selected' \in IF DOMAIN views = {selected} THEN {NoId} ELSE DOMAIN views \ {selected}
  /\ Send(Tell("remove", selected))
  /\ UNCHANGED <<mode, taskVars, askVars>> /\ NoKeyEffect

LabelEnter ==
  /\ Press({"label"}) /\ Send(Tell("touch", target))
  /\ mode' = "dashboard" /\ target' = NoId
  /\ UNCHANGED <<selected, taskVars, found>> /\ NoKeyEffect

\* A command, an agent or a session. (What SaveSession sends changes no row.)
OverlayEnter ==
  /\ Press({"overlay"})
  /\ \E op \in {"spawn", "load"} : Send(Tell(op, NoId))
  /\ mode' = "dashboard"
  /\ UNCHANGED <<selected, taskVars, askVars>> /\ NoKeyEffect

-----------------------------------------------------------------------------
(* Reconnecting, to the same daemon or to a new one.                       *)

\* Mutant: a spawn that was acknowledged is still waited for.
ResetButPending ==
  /\ views' = NoRows /\ selected' = NoId /\ origin' = NoOrigin
  /\ mode' = "dashboard" /\ UNCHANGED pending

\* reset_for_reconnect
Reset ==
  /\ views' = NoRows /\ selected' = NoId /\ pending' = NoId /\ origin' = NoOrigin
  /\ mode' = "dashboard"

\* The old connection is gone on both ends.
Reconnect ==
  /\ Press({"disconnected"}) /\ link = "lost"
  /\ Reset
  /\ link' = "up" /\ cmds' = <<>> /\ evs' = <<>> /\ told' = {}
  /\ \/ UNCHANGED <<row, born, flagship>>
     \/ row' = [i \in Id |-> "new"] /\ born' = <<>> /\ flagship' = NoId
  /\ UNCHANGED <<pc, focused, askVars>>

Lose ==
  /\ link = "up" /\ link' = "lost"
  /\ \E n \in 0 .. Len(evs) : evs' = SubSeq(evs, 1, n)
  /\ UNCHANGED <<pc, mode, listVars, taskVars, askVars, cmds, coreVars>>

-----------------------------------------------------------------------------
(* The core, as far as its client can tell.                                *)

Enrolled(i) == row[i] = "new" /\ \A j \in Id : j < i => row[j] # "new"

\* What runs under the mark, if anything does.
Mark == IF flagship # NoId /\ row[flagship] = "runs" THEN flagship ELSE NoId

ApplySpawn(c) ==
  /\ c.op = "spawn"
  /\ \/ \E i \in Id : /\ Enrolled(i) /\ row' = [row EXCEPT ![i] = "runs"]
                      /\ born' = Append(born, i)
     \/ UNCHANGED <<row, born>>
  /\ UNCHANGED flagship

\* A session of one entry, stopped or live, that may bring the mark.
ApplyLoad(c) ==
  /\ c.op = "load"
  /\ \/ \E i \in Id : /\ Enrolled(i)
                      /\ \/ row' = [row EXCEPT ![i] = "done"] /\ UNCHANGED flagship
                         \/ /\ row' = [row EXCEPT ![i] = "runs"]
                            /\ flagship' \in {flagship} \cup IF Mark = NoId THEN {i} ELSE {}
     \/ UNCHANGED <<row, flagship>>
  /\ UNCHANGED born

\* rerun: refused while the task runs; the new process may fail to start.
ApplyRestart(c) ==
  /\ c.op = "restart"
  /\ IF row[c.id] = "done"
     THEN /\ row' \in {row, [row EXCEPT ![c.id] = "runs"]}
          /\ flagship' = IF flagship = c.id THEN NoId ELSE flagship
     ELSE UNCHANGED <<row, flagship>>
  /\ UNCHANGED born

\* Remove asks for nothing.
ApplyRemove(c) ==
  /\ c.op = "remove"
  /\ row' = [row EXCEPT ![c.id] = "gone"]
  /\ UNCHANGED <<born, flagship>>

ApplyOther(c) ==
  /\ c.op \in {"flagship", "touch"}
  /\ flagship' = IF c.op = "flagship" THEN c.id ELSE flagship
  /\ UNCHANGED <<row, born>>

Apply ==
  /\ cmds # <<>> /\ cmds' = Tail(cmds)
  /\ \/ ApplySpawn(Head(cmds)) \/ ApplyLoad(Head(cmds)) \/ ApplyRestart(Head(cmds))
     \/ ApplyRemove(Head(cmds)) \/ ApplyOther(Head(cmds))
  /\ UNCHANGED <<pc, mode, listVars, taskVars, askVars, link, evs>>

Exit(i) ==
  /\ row[i] = "runs" /\ row' = [row EXCEPT ![i] = "done"]
  /\ UNCHANGED <<pc, mode, listVars, taskVars, askVars, wireVars, born, flagship>>

\* reap and tick: a mark on a task that does not run is dropped, the queued
\* acknowledgements go out, then a snapshot.
Rows == {i \in Id : row[i] \in {"runs", "done"}}

Tick ==
  /\ link = "up" /\ Len(evs) < MaxEvs
  /\ flagship' = Mark /\ born' = <<>>
  /\ evs' = evs \o [k \in DOMAIN born |-> [op |-> "spawned", id |-> born[k]]]
                \o <<[op |-> "tasks",
                      rows |-> [i \in Rows |-> [done |-> row[i] = "done", flag |-> i = Mark]]]>>
  /\ UNCHANGED <<pc, mode, listVars, taskVars, askVars, link, cmds, row>>

-----------------------------------------------------------------------------
Init ==
  /\ pc = "keys" /\ mode = "dashboard"
  /\ views = NoRows /\ selected = NoId /\ pending = NoId /\ told = {}
  /\ focused = NoId /\ origin = NoOrigin
  /\ target = NoId /\ found = {}
  /\ link = "up" /\ cmds = <<>> /\ evs = <<>>
  /\ row = [i \in Id |-> "new"] /\ born = <<>> /\ flagship = NoId

RunPass == Wait \/ Sync \/ Checks
Navigate == Move \/ Peek \/ OpenLabel \/ Find \/ FindEnter \/ OpenOther \/ Close
            \/ Attach \/ Detach \/ Chord
Command == Touch \/ MarkFlagship \/ Rerun \/ Remove \/ LabelEnter \/ OverlayEnter
Core == Apply \/ Tick \/ \E i \in Id : Exit(i)

Next == RunPass \/ Navigate \/ Command \/ Reconnect \/ Lose \/ Core

Spec == Init /\ [][Next]_vars
-----------------------------------------------------------------------------
(* Properties.                                                             *)

Names(i) == i \in told \cup {NoId}

\* Every ID that the client holds or sends was named to it on this connection: a
\* daemon that was restarted hands out the same numbers for other tasks.
OwnIds ==
  /\ DOMAIN views \subseteq told
  /\ Names(selected) /\ Names(pending) /\ Names(focused)
  /\ origin \in told \cup {Home, NoOrigin}
  /\ mode = "label" => target \in told
  /\ mode = "find" => found \subseteq told
  /\ \A k \in DOMAIN cmds : Names(cmds[k].id)

\* Input goes to a task of the snapshot, the way back exists only while attached,
\* and never leads to where the user is.
AttachCoherent ==
  /\ (mode = "attached") <=> (focused # NoId)
  /\ pc = "keys" /\ mode = "attached" => Listed(focused)
  /\ origin # NoOrigin => mode = "attached" /\ origin # focused

\* X removes finished and stopped tasks only; one that runs is killed and stays.
RunningStays ==
  [][\A i \in Id : row[i] = "runs" => row'[i] # "gone"]_vars
\* While what was typed is on its way: keys and mouse actions mean to the child what they meant
\* to the user, and pastes without a terminator behind an ESC are kept whole, in brackets or not
\* (input.rs), the prompt edits at the caret (editbuf.rs), and paths that are typed, and labels of
\* directories whose name is text, lead to their directories (path.rs).
InputReaches ==
  cmds # <<>> => KeysApart /\ MouseHits /\ PasteKept /\ BracketsKept /\ CaretBetween /\ LabelsLeadBack
=============================================================================
