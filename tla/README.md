# A TLA+ verification of fleetcom

fleetcom supervises a fleet of shell commands and agents. A *client* (terminal
UI) talks over a Unix socket to a *daemon*, which owns every task: a PTY, a
reader thread, a writer worker, an emulator, and the process group of the
command. The client comes and goes; the daemon and its tasks stay.

This directory holds TLA+ modules translated from `src/src/*.rs`, TLC
configurations that check them on small instances, and TLAPS proofs of the
properties that matter most for every instance. `PROJECT.json` maps each
definition to the lines it models.

    tlc -config supervisor_signals.cfg MCSupervisor.tla
    tlapm SupervisorProofs.tla

## 1. Inventory of the system

| Component | State | Operations | Hard because |
| -- | -- | -- | -- |
| **Task set** (`supervisor.rs`) | rows, next ID, graveyard of displaced runs, flagship mark, recovery state, watch, queued events | `apply` of ~20 commands, `reap`, `tick`, `shutdown_all`, `materialize` (session load) | a row outlives its runs; exits are seen late; runs are displaced while they still live; TERM, grace, KILL and collection are spread over handlers |
| **Process** (`task.rs`) | exit latch, TERM timer, KILL flag, reaped flag | `spawn`, `poll_exit`, `terminate`, `overdue`, `force_kill`, `collect`, drop | the kernel reuses process IDs; groups outlive their leaders; `waitid` may fail |
| **Writer queue** (`task.rs`) | byte counter, channel | `admit_write` (core and reader thread), `drain_writes` (worker) | three threads and one counter; the worker blocks in a write |
| **Core loop** (`core.rs`) and **connection** (`daemon.rs: serve_client`) | wake channel, waker slot, dirty flag, stop flag | recv, drain burst, tick, emit; set-up and cleanup around it | wakes, signal flag, hang-up, panic and time race |
| **Daemon lifetime** (`daemon.rs`) | lock file with flock and PID, socket path, signal flag | start, serve, stop, crash; `--kill`; a client's connect or autostart | several processes share files; every step is a system call |
| **Recovery** (`supervisor.rs`, `session.rs`) | pending mutation, cadence, last write; snapshot directory | due pass, atomic write, prune | failures, crashes, roots that change, several daemons in one directory |
| **Transports** (`transport.rs`, `frame.rs`) | frame queue, two threads, dead flag | send, poll, quit, disconnect | bounded queue, teardown in the right order |
| **Client** (`app.rs`, `editbuf.rs`, `selection.rs`) | mode, snapshot of the rows, selection by ID, watch | keys, chords, events, reconnect | decides on a snapshot that lags |
| **Preview** (`preview.rs`), **alternate-screen titles** (`emulator.rs`) | candidate and rendered preview with holds; saved titles | resolve, finalize, observe | time holds and rank changes |
| **Sessions** (`session.rs`) | files | save, load, list | names that collide, invalid entries |
| **Agent capture** (`harness/*`) | capture slots, namespaces | arrival, replace, reap of dead namespaces | several processes write one slot |
| **Wire protocol** (`protocol.rs`, `frame.rs`) | - | encode, decode, frame, handshake | optional fields, widths of numbers, damaged or older peers |
| **Screens and input** (`ansi.rs`, `input.rs`) | - | replay a grid; encode keys, mouse, pastes | halves of wide glyphs, the pending wrap; modes of the child |
| **Dashboard, paths, dates** (`app.rs`, `ui.rs`, `path.rs`, `format.rs`) | - | sort, select, window, resolve | boundaries, ties, labels that collide |
| **Activity summaries** (`harness/summary.rs`) | - | find the status row on an agent's screen | conversations quote status rows, menus and boxes |
| Drawing, command line | - | conversions | text |

Interaction: the client's keys become commands; the transport frames them; the
daemon's reader thread turns frames into wakes; `run_loop` applies a wake to the
supervisor, ticks, and sends the queued events back. Each PTY reader thread
feeds its emulator and wakes the loop. Between clients the daemon itself reaps
and looks after recovery. A session load and a recovery write go to the file
system; `--kill` goes around the socket with the lock file and a signal.

What makes each part correct is listed, at the line where it can go wrong, under
`hazards` in `PROJECT.json`.

## 2. What is modelled

### Supervisor.tla: rows, runs and signals

One core: the rows (`tasks`, `label`, `run`, `hasProc`), the `graveyard`, the
`flagship` ID, whether a recovery write is `armed`, the fields of every run
(`finished`, `termAge`, `killSent`, `reaped`), and below them the kernel: which
PID each group has, whether its leader is alive, a zombie or gone, whether
members other than the leader live (`kids`), and whether it was sent KILL
(`doomed`). A run is a pair (task ID, run number).

* The kernel gives any PID that no process and no group holds to a new process:
  to a run, or to a foreign one. `killpg` strikes every group under its number.
  `stray` records a signal that struck a group it was not meant for.
* The core is one thread, so each command and each reap pass is one action. A
  session load is one action per entry, shutdown one per reap pass, because the
  kernel and the clock go on in between. A reap makes several system calls per
  run; a step of the kernel between two of them is covered, since the exits that
  come too late for the pass are among the runs whose `waitid` "fails" (`miss`)
  in the model, and no PID is freed by anyone but the core itself.
* `waitid` may fail for any set of runs in any pass.
* Every command that may change a recipe arms the write in `apply`, before it is
  validated; `Refuse` is every such command that is turned down.
* `label` is what Tag, SetGroup and SetName change; commands, directories and
  agents are left out, since nothing here depends on them.
* `FatalAccept` is the one path that drops the fleet without TERM.
* A launch may fail, or panic, after its child was started (`SpawnOrphans`,
  `RestartOrphans`, `LoadOrphans`). The child (one of `Lost`) is in no row and no
  graveyard, and the core never signals or collects it. The properties of runs
  speak of the runs that a row was given; that no child at all is left behind is
  not so (see the findings).

`FleetLife.tla` is the promise without rows, timers and PIDs: a run is KILLed
only after it was asked to stop, collected only after KILL, and no run that a row
was given is spared when the fleet is over. `Supervisor` implements it under
the mapping of its `Fleet` instance.

### DaemonLock.tla: which daemon is the daemon

Daemons that start at any time, and runs of `--kill`. One action per system
call of `run_daemon` and `run_kill_in` on the lock file (its flock and its
contents) and the socket path. Daemons crash anywhere, fail anywhere before
they serve, and can be signalled anywhere; SIGTERM before the handlers are
installed is death, after it a flag. PIDs are not reused in this model: a PID
names the process it belonged to.

`Autostart.tla` adds the clients of `connect_or_autostart`: a connect that may
fail although a daemon listens (its backlog is full), a daemon that is started, and
polls that end with a connection or after a second, whereupon the user may try
again with one more daemon. Connecting takes the listener the path leads to.

### WriteQueue.tla: the bounded writer queue

The core thread, the PTY reader thread and the worker. The check, the addition
and the send of `admit_write` are three actions for each of the two admitters;
the worker's receive, write and subtraction are three more. A message is its
length. The child need not read: `Writes` has no fairness. `admit_write`'s
compensation for a failed send is left out: a worker ends only when the channel
has no sender left, so the send of an admitter cannot fail.

### ServeLoop.tla: one client after another

`serve_client` and `run_loop`, and what of the supervisor belongs to a
connection: the waker, the watch with its `last` screen, viewports (`back`) and
clipboard stores (`clip`, "own" when made under the watch that may forward them).
Beside the loop run the reader thread, the reader threads of the tasks, the
client, the signal handler and the clock. `pc` follows the loop: accept, stop
flag, wait, burst, tick, cleanup, join.

* Socket, reader thread and channel are one queue of commands (`wakes`): each
  only passes on what the one before holds. Output wakes carry nothing, so any
  number of them is one flag.
* Since the last tick, less than a frame, less than the fallback, or more has
  passed; no other time matters to `wait_for` and `ready_to_tick`.
* A failing write and a panic may end the connection in any tick, a panic in any
  handler (`Panic`), among the rows (`RowsPanic`) and behind them (`ScreenPanics`).
  What a tick had queued behind the rows when it panicked stays in the queue
  (`left`) and goes out with the next client's first tick. `OnlyWhatWasAsked` names
  that exception (see the findings).
  Notices in the queue are left out.
* `send_event` skips a screen over `MAX_FRAME` (those in `Big`), and the tick takes
  it for sent: `ScreenArrives` promises only screens that fit.
* The tasks run throughout. The history variable `asked` says what the client
  watched itself.

### Snapshots.tla and Recovery.tla: the recovery directories

`Snapshots` is the file system side: any number of daemons, ranked by file stem,
each of which writes a temporary file, renames it, lists the directory, looks at
the PID in each stem and removes files, one system call per action. Any step may
fail, and a daemon may die between any two. A dead daemon's PID may be another
process's (`reused`), which protects its file. Temporary files that a crash
leaves are not modelled: nothing lists, loads or prunes them.

`Recovery` extends it with the daemon `Me` in detail: what arms a pass, debounce
and cadence, the deduplication by root, fingerprint and file, changes that arm
nothing (an agent's new session ID), clients with another sessions root, files
removed by hand. Fingerprints do not collide.

### SocketTransport.tla and Link.tla: the client's end of the socket

The client's thread (send, poll, quit, disconnect, replacement by a reconnect),
the writer thread behind the bounded queue, the reader thread, and the wake
tokens of the client's loop. The daemon is an environment: it reads, stalls,
sends, closes or dies. `Link` is the promise: commands arrive in order and
without gaps, and a transport that is down takes none. `SocketTransport`
implements it. A read error other than the end of the stream is left out.

### Client.tla: decisions on a snapshot that lags

The part of `App` that names tasks: `selected` and `pending` (the spawn whose row
is awaited), `focused` (attached) with the chord's `origin`, the `target` of a
rename or group prompt, the IDs in the find palette, and the mode. A pass of
`App::run` reads events one after the other, then makes its checks; keys come
between passes, several in a row. `R`, `g`, the palette, the chord, `r`, `X` and `]`
decide on `views`, the last snapshot read; commands and events are queues on the
way. The core is reduced to rows that run, are done or gone, the mark, and the
acknowledgements it has not sent. A connection may be lost at any point, with the
events still on their way; the reconnect reaches the same daemon or a new one,
which counts its IDs from 1 again.

* The order of rows depends on data that is left out: "first", "next" and
  "neighbour" are any listed task. What a palette matches depends on text: any.
* The modes that name no task (spawn, directories, sessions, controls) are one,
  `overlay`. Input, tags, labels and Kill change no row: they are one command,
  `touch`. An exit comes by itself.
* `told`, the IDs that this connection has named, is history.
* The watch follows the mode and names no other task: it is `Viewport`'s. A
  session is one entry.

### Viewport.tla: the attached view

Client and core each keep a copy of what the other has: the client `watched`
(what it asked for) and `screen`; the core `watch` and `last` (what it sent).
Commands and screens cross on the way. A pass of `App::run` (`BeginPass`,
`OnScreen`, `EndPass`) compares its wish with `watched`, reads screens and sets
the mouse mode of the terminal; keys and mouse events come in bursts between.
`kind` is what the child asked for (inline, mouse reports, alternate screen),
`back` whether the core's viewport is scrolled back. What a screen shows is left
out, except that output makes it another one; `Restless` tasks have output and
history. In one burst a user may leave a task, press the mouse over the screen of
the one before and come back: the drag is then over other rows than those it
began on, until its end or the next event that clears it.

### Prompts.tla: pickers over lists that arrive

Which prompt is open, on which page, what it lists and where its cursor is: agents
to spawn, directories, groups, the find palette, sessions. A list is computed when a
prompt opens and when text is typed, from `agents`, `fleet` and the directories that
exist; agents, tasks and sessions arrive at any time, also the reply to an earlier
opening of the sessions, and after a reconnect from another daemon. `Within` and
`Begins` say what each text matches, so a text is one of a few. What a prompt sends
is `Client`'s. Directories do not change while they are listed.

### Emulator.tla and Preview.tla: titles and the preview of a run

`Emulator` is a record of the facts `preview.rs` reads: the last line of both
grids, the alternate screen, its epoch, the title with the epoch it was set in,
the staged title, the line to restore, and the shadow of the title stack; one
operator per parser event. `Preview` runs it beside the core's tick (`Look`,
`Finalize`), resizes, the agent's registry, exit and end of output, and a clock
that ages the holds. `sync` is a synchronized update: what it holds lands when it
ends, times out, or the output is complete. An adapter is the set of lines and the
set of titles it recognizes.

### Recipes.tla and Capture.tla: recipes and conversations

`Recipes` is `session.rs` on records: an entry, its short and its long form, what
`from_json` rejects, names that sanitize to one file, users who edit it.
`Capture` extends it with one managed row of one of the four agents: its processes
move between conversations by themselves; hooks, notifiers, omp's module and
Claude's registry write what the core later reads; reruns, saves, loads, removals
and daemons that end come in between. A Claude's hook opens (and so truncates) its
file, stamps it and copies its payload in three steps, at places of its own whoever
else has the file open; stamps of two processes may be of one length or not (`Fits`).
Who has an unlinked slot open writes nowhere. A launch may take over the record that
stands at its PID (`Inherits`): directory and start time agree within the code's
tolerance. `shown`, what each process had on screen, is history, and so is `astray`:
what the code then accepts although another process wrote it. Not modelled is the
child of a launch that failed behind the fork (`Supervisor`), which has the capture
file of the next launch but no terminal any more.

### Pure algorithms

Each is checked over bounded inputs against an independent definition of what it
promises. They share the run of the component they serve.

* `Wire.tla` (run `transport`): all messages as objects of JSON values, encoders
  and decoders, the framing of the stream, and the handshake from hello to the
  client's verdict. Numbers are scaled down with their widths. `SocketTransport`
  extends it: its frames carry these messages.
* `Ansi.tla` (run `preview`): `formatted` as terminal operations, replayed into a
  model of the part of alacritty_terminal that they address, and `contents`. Three
  shapes of a grid are excluded from `ReplayShows`, by `Unfaithful`, because the
  code does not reproduce them although ansi.rs:3-8 would say so (see the findings):
  marks of a wide glyph that lost a half are in `contents` and not in `formatted`;
  marks of a tab that was shifted into the last column land one cell to its left;
  halves of two glyphs side by side get the attributes of the left one. What may be
  in a grid is `IsGrid`: a glyph of `Wide` has a cell marked wide, a spacer holds a
  blank or the tab that went over it, rows are of one length, and only the last
  column waits to wrap. Tab stops are eight columns apart.
* `Input.tla` (run `client`): keys, mouse actions and pastes as the child reads
  them, and the edit buffer. In a bracketed paste the terminator is an ESC and one
  more token; one pass takes the terminators out, the markers go around the rest, and
  `BracketsKept` asks that the paste then ends at its own marker. Pastes in which a
  terminator stands right behind an ESC are excluded there, because the pass puts a
  new one together (see the findings).
* `Listing.tla` (run `viewport`): order, sections and motions of the dashboard, the
  group picker, windows, texts cut to a width, and the text of a drag. A glyph's
  width does not depend on its neighbours. `Prompts` extends it, and asks what it
  promises of the app's states (`DashboardHolds`).
* `Anchors.tla` (run `preview`): which row of a screen is the status of Claude, Codex
  or Grok. A row is one of a few shapes; the properties paint every screen an agent
  may show, below every short conversation, and read it. Excluded are screens that are
  misread. A message of the user that begins with `1. `, or a menu that the
  conversation quotes, hides a dialog that follows within nine rows (`HeadAbove`;
  summary.rs:286-288 promises any selector there, see the findings).
  A quoted input box of Claude (`Boxed`) keeps a dialog below from being looked for. And
  what is typed into Codex's composer and begins with `1. ` takes the composer for a menu,
  so that the row above an earlier message is read instead.
* `Paths.tla` (run `client`): labels of directories and what is typed for them.
  Paths are sequences of characters from the four that matter, up to length 5, and of
  bytes that are no UTF-8, which a label shows as one replacement character; `$HOME` may
  be unset. What is promised of a label is promised of names that are text: two others
  may share one (see the findings), in the lists of the client as well
  as where the core keys recipes by it (supervisor.rs:1168).
* `Dates.tla` (run `recovery`): the stems of snapshots, whose order `Snapshots`
  takes for that of the daemons' starts, and which `Recovery` extends.

## 3. What is checked

| Run | Instance | Shows |
| -- | -- | -- |
| `supervisor_signals` | 1 row, 2 reruns, grace 2, 2 PIDs, 1 foreign process, 1 launch that fails behind the fork, a session | `NoStraySignal`, `EveryRunHeld`, `NoSurvivors`, `GraceRespected`, `RunsEnd` (retired runs are collected, a shutdown ends), the refinement `FleetSafe`, `FleetPromise` |
| `supervisor_rows` | 2 rows, 1 rerun each, 2 labels, a session with a stopped and a live flagged entry | `FlagshipHolds` (the mark follows its run and is live in each snapshot), `RecipeChangeArms` |
| `daemon_lock` | 2 daemons, 1 client that starts them, 2 `--kill` runs | `OneDaemon` (what serves is at the path and in the lock file, and holds the lock for whoever is connected), `FleetUnderLock`, `KillMeansOver`, `TermEndsDaemon` |
| `write_queue` | cap 4, input of 1 and 3, replies of 1 and 2, 2 per read | `PendingIsExact`, `OvershootOneMessage`, `QueueSettles` |
| `serve_loop` | 2 tasks, one with output and 1 change of its screen, whose first screen exceeds a frame, 1 command on the way | `IdleIsClean`, `OnlyWhatWasAsked`, `ScreenArrives`, `StopEnds` |
| `recovery` | 4 daemons, of which 2 are dead at the start, 2 roots, 2 recipes, 2 snapshots kept, debounce 1, cadence 2; 3,250 days | `NewestKept` (the newest snapshots, whole; stems ascend), `RecipeIsSaved` (when quiet, and within a cadence) |
| `transport` | queue of 2, socket of 1 frame, 5 commands and Shutdown, 2 events; all messages over 3 texts, numbers 0 to 3, lists of up to 2 | `InOrder`, `QuitStops`, `EventsWake`, `TeardownEnds`, `FramesMean` (what is sent is read, a handshake is agreed, damage is refused) |
| `client` | 2 IDs, 1 command and 1 event on the way when the core ticks; all keys and modifiers, texts and pastes up to 4 characters (`MaxText`), paths up to 5, 3 directories of the invocation (`Bases`), homes that are set or not (`NoHome`), 2 bytes that are no UTF-8 (`Invalid`) | `OwnIds`, `AttachCoherent`, `InputReaches` (keys stay apart, the mouse hits, pastes without a terminator behind an ESC are kept, the caret is between characters, typed paths, and labels of directories whose name is text, lead to their directories) |
| `client_remove` | the same, without input | violated: see the findings |
| `viewport` | 2 tasks, one with history, 3 kinds of child, 2 commands and 1 screen on the way; lists of up to 3 rows, screens of up to 3 glyphs; 3 fleets, 3 lists of agents and of sessions, 4 directories, 4 texts, 2 session lists on the way | `ViewIsCurrent`, `DragWillEnd`, `DashboardHolds`: `PromptsHold` (the cursor is on a row, pages and agents are those of the daemon, no directory is offered twice), `ListWhole` (every task is listed once, in one section for each label), `MotionsReach` (every motion stays on tasks and reaches all), `WindowsHold` (windows hold the selection, texts have their width), `PickerHolds` (the row that is preselected is what was meant), `TextIsDragged` (a drag takes what it covers) |
| `preview` | 3 events after an earlier program, 3 lines, 2 titles, stack of 1, holds 2, 3, 1 and 1; grids of 1 by 3 and 2 by 2; conversations of 2 rows, windows 2 and 1, boxes of 3, menus of 4 | `TitleIsOurs`, `DemotionHeld`, `PreviewSettles`, `ScreensHold` (a screen whose grid is not `Unfaithful` is replayed as it was drawn, an agent's status is found on the screens of `Anchors`) |
| `capture` | 4 agents; 2 daemons, 2 processes, 2 PIDs, 3 conversations (one a fork's), 2 writers, hooks of 2 processes in one file, 2 names that share a file; for Claude (`MCBound`) 1 name, no edits, and 2 hooks at once under the first daemon only | `OwnConversation` (but for IDs that went astray), `SavedIsLoaded`, `KnownIsKept` |

A property of a pure algorithm is the invariant of the run whose component uses
it; it does not depend on the state, and is asked of the states in which that
component relies on it (a frame on its way, a dashboard under no prompt, a picker of
groups, a snapshot on disk).

Bounds. `MaxId` and `MaxRun` bound how often the core hands out an ID or a
rerun; two runs of one row, or two rows, are enough for one run to be displaced
while another lives and for a PID to be taken over. Three groups and a foreign
process share two PIDs, so every PID is reused; what that says of signals is
proved for every number of rows, runs and PIDs. A grace of 2 tells "just sent",
"waiting" and "over" apart. The row run has a grace of 1 because its properties
do not mention time. Two daemons and two `--kill` runs are the pairs that race;
one client that gives up on a daemon and starts the next makes both, and
`ClientsFindOne` is proved for any number of them. In the queue the cap is
larger than the longest message, as in the code, and small enough to be reached
by several messages; message lengths are at least 1 (an empty paste adds nothing
to the counter). Two tasks are enough to watch one, scroll it and go to the
other; one of them has output (`Noisy`), since a switch makes the screen of a
quiet one due as well. In the recovery run the live daemon is outranked by a
dead one, so that a prune that did not look at PIDs would take its snapshot, and
three prunable files exceed the one that is kept. Two IDs are enough for one
task to stand for another after a reconnect, and for a flagship and a task to
come from; a lag of one command and one tick already lets a decision meet a core
that is two states further. Five commands fill the transport's queue, its
writer's hand and the socket, and one more. Two tasks and two commands on the
way are enough for a watch to be changed while the screen of the one before is
coming. In the run `viewport`, the prompts of the dashboard and the attached
view, which share no state, are explored one beside the other. Lists of three rows make two
sections with a neighbour between them, labels that differ in case alone, and tasks
that fall idle; windows of 0, 1, 2, 3 and 5 rows are empty, shorter than a list, as
long and longer; rows of three glyphs cut a wide glyph, a mark and a blank at every
column. Three events,
after a program with a title has come and gone, set a title, enter and leave the
alternate screen, and push or pop past a stack of one. Two processes of one task
are a displaced run and its successor; two daemons are one that reads what the
other left. Grids of two and three columns hold a wide glyph at each edge, with
and without its half. The days contain the ends of February and the years 1970,
2000, 2100 and 2400, where each rule of the calendar begins and ends.

Fairness. `Supervisor`: the loop ticks at least every 200 ms and the idle branch
reaps every 100 ms, so `Tick` and `ShutdownReap` are strongly fair with no
failing `waitid`: commands cannot keep them out for ever, and failures do not
last for ever. This takes for granted that a burst of wakes ends, since
`run_loop` drains the channel before it ticks. Time passes, and a process that
was sent KILL dies. Nothing is assumed of clients or of processes that were
sent TERM only. `DaemonLock`: a process that can run runs; a serving daemon
looks at its flag (`Stopping`). `WriteQueue`: threads run; a terminal whose run
was KILLed is closed in the end. A descendant that left the process group and
keeps the terminal open is outside that assumption.
`Preview`: the loop ticks at least every 200 ms, and time passes; nothing is assumed
of the child. `ServeLoop`: the loop's thread, the readers
and the clock run, and a write ends within its timeout; nothing is assumed of
clients. The liveness properties name the one premise the code does not
guarantee, `BurstsEnd`: `run_loop` drains the channel before it looks at the stop
flag or the clock again, so it must be empty now and then. `SocketTransport`: its
threads run and the quit deadline passes; nothing is assumed of the daemon or of
polling. In `Recovery` a pass that is due comes before time goes on: ticks (200
ms) and idle maintenance (100 ms) are far more frequent than the debounce (2 s).
`Client`, `Viewport` and `Capture` have no liveness property and no fairness. `Viewport`
and `Recovery` name their specifications `ViewSpec` and `RecoverySpec`, since each is
proved about in one module with another.

Deadlock checking is off where the modelled processes end.

Each property of a passing run has a mutant in its module: a definition changed
the way a plausible bug would change the code (`\* Mutant:`), under which TLC
finds the property violated.

### Findings

* `client_remove`. `X` chooses between Kill and Remove by the snapshot the client
  has. `r` and then `X`, both before the next snapshot, restart a finished task
  and remove it: the core's Remove asks for nothing, and the run that just
  started is terminated and its row is gone. `docs/commands.md` says that `X`
  kills a running task and removes a finished or stopped one.

That is the one run of a violated property. The models show more disagreements of the
code with its comments. The properties above name each of them as an exception, in
their formula or in what they quantify over, and hold everywhere else:

* A launch that fails behind the fork (`Lost`; excepted by `EveryRunHeld` and
  `NoSurvivors`). When `try_clone_reader`, `take_writer` or a `thread::spawn`
  (task.rs:423-424, 440, 480) fails after `spawn_command`, the child is dropped without a
  signal, and nothing holds its PID. The comment on `Process::drop` (task.rs:772)
  guarantees "no orphaned process tree regardless of how a run leaves scope".

* What a panic leaves in the queue (`left`; excepted by `OnlyWhatWasAsked`). A tick that
  panics behind the rows, in the watched screen or the recovery pass, leaves a queued
  `ClipboardCopy` or `Screen` in the queue of events, which the cleanup
  (daemon.rs:657-662) does not clear; the next client's first tick sends it. The comment
  there says that every exit passes through the cleanup, so that the next client gets no
  frames it never asked for.

* Terminators next to each other (excepted by `BracketsKept`). `paste_bytes`
  (input.rs:24) takes the terminators out of a bracketed paste in one pass. If one stands
  straight behind an ESC and the rest of another behind it, what is left around it is a
  terminator, and the paste ends early, which the comment on `PASTE_END` says is
  prevented.

* Names that are no UTF-8 (`IsText`; excepted by `LabelsLeadBack`). `abbreviate`
  (path.rs:8) shows their bytes as one replacement character, so two directories may have
  one label, which leads to neither; its comment says that two directories never render
  as the same label.

* Grids that are not reproduced (`Unfaithful`; excepted by `ReplayShows`). `formatted`
  (ansi.rs:139) gives both halves of a pair the attributes of the left one, leaves out the
  marks of a lost half, and puts those of a tab in the last column one cell to the left;
  the contract of ansi.rs promises every cell's extras and style. `contents`
  (ansi.rs:257) keeps the marks of a lost half, so that the plain texts differ where the
  cells compare as equal, which the tests' oracle (ansi.rs:534) and the comment at
  ansi.rs:247 deny.

* Screens that are misread (`HeadAbove`, `Boxed`; excepted by `ClaudeAsks` and
  `CodexAsks`). `claude_approval` (summary.rs:291) looks at the first head of a menu among
  the last nine rows and gives up when no option follows it, so a message that begins with
  `1. ` hides the dialog below; `codex_approval` does the same. The comment promises a
  selector with an option below it, within these rows.

* Two hooks in one file (`astray`; excepted by `OwnConversation`). Hooks of a background
  fork and of the task's process have the capture file open at once. Each stamps and copies
  at its own places (assets.rs:164): the fork stamps, the task stamps over it, and the
  fork's payload lands last behind a stamp of the same length. `parse_capture` accepts it;
  claude.rs:52 and docs/agent-resume.md:66 say that only the task's own process is heard.

* Records of an earlier process (`astray`; excepted by `OwnConversation`). A record whose
  start is within 30 seconds of the launch is accepted (claude.rs:155), so that of an
  earlier process with the same PID and directory stands for the task's until its process
  writes one; the comment on `record_for_pid` says that directory and start time reject
  stale records.

Four smaller ones break no property. A `--kill` probe between the flock of a
starting daemon and its truncation of the lock file reads the PID of a dead daemon
(`DaemonLock`, daemon.rs on `run_kill`). The excess over the writer queue's cap is
up to one message of the core, as the comment on `admit_write` says and
`OvershootBounded` proves, not one probe reply, as the comment on `pending_write`
says. The reader thread's last wake token is sent while it still owns the event
channel, so a client that takes the token at once sees the loss of the daemon with
its next repaint (`SocketTransport`). A client whose poll succeeds is told that it
autostarted the daemon although another client's daemon may have won the lock
(`Autostart`): its `--scrollback` is then ignored without the notice that
daemon.rs:232 promises.

## 4. What is proved

For every value of the constants that satisfies the modules' assumptions:

| Module | Theorem | States |
| -- | -- | -- |
| `SupervisorProofs` | `TypeCorrect`, `SignalCorrect` | `[]TypeOK`, `[]SignalInv` |
| | `SignalsReachOwnGroup`, `RunsAreHeld`, `SurvivorsAreKilled` | `[]NoStraySignal`, `[]EveryRunHeld`, `[]NoSurvivors` |
| | `GraceKept` | `GraceRespected` |
| | `FlagshipStays`, `RecipeChangesArm` | `FlagshipHolds`, `RecipeChangeArms` |
| | `FleetRefined` | `Spec => FleetSafe`, the refinement of `FleetLife` |
| `DaemonProofs` | `LockTypeCorrect`, `LockCorrect` | `[]TypeOK`, `[]LockInv` |
| | `ServingIsAdvertised`, `FleetsApart`, `KillIsOver` | `[]Advertised`, `[]FleetUnderLock`, `[]KillMeansOver` |
| | `ClientsFindOne` | `AutoSpec => []OneDaemon` |
| | `RecoveryHolds` | `RecoverySpec => []RecoveryInv` |
| | `RecipesAreSaved`, `SnapshotsAreKept`, `NewestAreKept` | `[]RecipeIsSaved`, `[]SnapshotsKept`, `[]NewestKept` |
| `AttachedProofs` | `QueueTypeCorrect`, `OvershootBounded` | `[]TypeOK`, `[]OvershootOneMessage` |
| | `CounterIsExact`, `CounterNeverWraps` | `[]PendingIsExact`; the unsigned counter never goes below 0 |
| | `ViewHolds`, `UserSeesTheTask`, `DragsEnd` | `ViewSpec => []ViewInv`; `[]ViewIsCurrent`; `DragWillEnd` |
| | `PromptsCorrect`, `PromptsOfferWhatThereIs` | `PromptSpec => [](PromptTypeOK /\ PromptInv)`; `[]PromptsHold` |
| | `ListsAreWhole`, `MotionsReachAll`, `PickersHold` | `ListWhole`, `MotionsReach`, `PickerHolds` |
| | `WindowsFit`, `DragsTakeWhatTheyCover` | `WindowsHold`, `TextIsDragged` |
| | `DashboardIsRight` | `PromptSpec => []DashboardHolds` |
| `ServeLoopProofs` | `ConnectionHolds` | `[]ConnInv` |
| | `NextClientStartsClean`, `SentOnlyWhatWasAsked` | `[]IdleIsClean`; `OnlyWhatWasAsked` |
| `SocketTransportProofs` | `TransportTypes`, `OrderKept` | `[]TypeOK`, `[]OrderInv` |
| | `SocketImplementsLink` | `Spec => InOrder`, the refinement of `Link` |
| | `QuitStopsDaemon`, `NoEventSleeps` | `[]QuitStops`, `[]EventsWake` |
| | `MessagesMean`, `FramesAreUnderstood` | `SentIsRead /\ HandshakeAgreed /\ DamageIsRefused`; `[]FramesMean` |
| `ClientProofs` | `ClientTypes`, `AttachmentCoherent`, `IdsAreOwn` | `[]TypeOK`, `[]AttachCoherent`, `[]OwnIds` |
| | `KeysAreApart`, `MouseAlwaysHits`, `PasteIsKept` | `KeysApart`, `MouseHits`, `PasteKept` |
| | `BracketsAreKept` | `BracketsKept` |
| | `CaretIsBetween`, `LabelsAlwaysLeadBack` | `CaretBetween`, `LabelsLeadBack` |
| | `InputAlwaysReaches` | `[]InputReaches` |
| `PreviewProofs` | `HoldsInOrder`, `FlapsDoNotFlicker` | `[]HoldInv`; `DemotionHeld` |
| | `AltTitleIsOurs` | `[]TitleIsOurs` |
| | `StatusIsFound`, `ScreensAreShown` | `AnchorsHold`, `ReplayShows` |
| | `ScreensAlwaysHold` | `[]ScreensHold` |
| `CaptureProofs` | `CaptureHolds`, `SavesAreLoaded` | `[](SlotInv /\ SavesStand)`, `[]SavedIsLoaded` |
| | `ConversationIsOwn`, `ConversationIsKept` | `[]OwnConversation` (all IDs but those in `astray`), given `EditsNameNone`; `KnownIsKept` |

Every strengthening is defined beside the specification it strengthens, or in the
module of its proof, and was checked by TLC on the run's instance before it was proved.

*Signals.* "No stray signal" is not inductive: it needs that two groups that
exist never share a number (`PidsReserved`), that whatever the core holds is
still in the process table and unreaped (`HeldIsUnreaped`), and that IDs not
handed out yet name nothing (`Fresh`). "No survivors" needs that a leader is
collected only after its group was KILLed (`GoneIsDoomed`) and that a noted KILL
was sent (`SignalsNoted`); the grace at the end of a shutdown needs that no
timer is behind the deadline (`TimersCoverDeadline`). Their conjunction,
`SignalInv`, is shown inductive with one lemma per group of actions. The row
properties need two facts more (`RowInv`): the mark a snapshot would hold is live,
and a load that is under way has armed a write.

*Lock.* `LockInv` says who holds the lock by program counter, from which step on
file and socket are the holder's, and that a `--kill` run that could take the
lock after its signal has seen the daemon it found leave.

*Autostart.* Every step of `Autostart` is a step of `DaemonLock` or leaves it alone, so
`LockInv` carries over; a listener holds the lock, and a holder keeps it until it is
gone.

*Recovery.* "Outranked by `Keep - 1` that are there" is not inductive, since the ones
above may be pruned next. `Outlived` counts only the dead among them: the dead stay
dead, and a prune takes only files that are outlived, so that each of those above a
file is replaced by `Keep - 1` above itself (`RemoveKeeps`). `PassInv`
follows the recipe through the steps of a pass, `WrittenStands` bounds what
`last_written` may say, and `LagInv` ties the age of what is unsaved to the cadence.
That stems ascend (`StemsAlwaysAscend`) is a proof about the calendar of
`format.rs`: the quotients of `civil_from_days` are bounded, each day has one year of
its era (`YearFound`) and one date (`DateIs`), and the date of the next day is later
(`DayStep`); six digits and a dash then compare as the numbers do.

*Queue.* `AdmissionInv`: what is counted together with what either thread has
checked and not counted yet is within one message of the cap. A check that
passes sees everything but the other thread's message. `PendingIsExact` relates the
counter to the sum of a queue. `Bytes` of a queue is a recursive function whose values
are given by its running sums; these exist by well-founded induction over positions
(`SumsExist`), which is as far as induction over data goes here, and yield what
`Append` and `Tail` do to the sum.

*Attached view.* `ViewIsCurrent` needs `WatchesDiffer`, that no watch on the way
repeats the one before it: so each makes the core forget its last screen, and what
the core remembers is on the way or held (`SentIsHeld`). `set_watch` sends only
differences, and the reset of a lost connection takes the watch from both sides.

*Prompts.* That the cursor of the open list is on a row is not inductive: sessions may
arrive for a list that is not shown and be shown with Tab, and `CursorOnRow` says
nothing of them. `PromptInv` says it of every list, and `PromptTypeOK` that what is
listed are sequences and that what is typed names a directory. One lemma says of
`Refresh` that it keeps all of it, whatever the picker and the text; each way to open,
to type and to descend cites it. For the directory picker the rows must be without
repetition: those in use are, since `InUseDirs` is ordered by the newest ID and no two
tasks have one ID, and a subdirectory that is in use is not offered twice.

*Lists.* These are theorems about operators, for snapshots of any length. `Ordered` chooses
an enumeration of a set in the order of its keys. There is one (`OrderExists`), with every
element at the number of those that do not come after it: the keys are sequences of one
length compared by `Precedes`, and no two are the same since they end in the ID. Sections
are runs of neighbours with one label; no label has two of them, because the rank and the
collation key come first in the key and tell labels apart, which is where names that
differ in case alone could break it. Falling idle changes no key outside the grouping by
state, so the choice is the same. A motion goes around a cycle (of all tasks, of the
sections' heads, of the tagged tasks), and whatever enters a cycle with its first step sees
all of it in as many steps (`CycleIsWalked`); steps back go around the reversed list. What a
recursive function such as `Walk` or `Flat` computes is given by any function that satisfies its
equation (`WalkIs`, `FlatIs`), so each use exhibits one.

*Windows and drags.* `Columns` is a running sum of widths, monotone in the number of
glyphs; `Truncate` takes the longest part that leaves a column, and `Pad` fills exactly what
a wide glyph left. A drag is compared
with the cells in reading order: the glyph at a place overlaps the columns between the
ends if and only if one of its cells does, and clamping both ends before they are ordered
makes the result symmetric. Assumed are that no group is named as the section for
none, that the exact order of labels is an order, that widths are numbers and that a
blank and an ellipsis have one column (`ListingAssumption`), and that a directory is not
in itself and lists finitely many (`PromptsAssumption`).

*Connections.* `Sees(q, w, k, t)`: a core that watches `w` and reads the first `k`
commands of `q` watches `t`. With it `InStep` says what a scroll that is still queued
will meet, and `AskedFor` that everything the core watches, or is about to, the
client of this connection has named. `LeftClean` is the promise of the cleanup at
each step after it, and what it needs before: only the watched task is scrolled back.

*Order of commands.* `Link` says nothing of what is on its way, so its step for a
delivery needs `OrderInv`: until the daemon has closed its end, the socket, the
frame in the writer's hand and the queue hold, in this order, the commands after
those that were read, and all of them while the writer lives. A writer that
fails drops what it holds for good: nothing is read after a gap. Small lemmas on
sequences (`Follows...`) carry the arithmetic. `QuitStops` follows from where
`Shutdown` may be, step by step, and from the two threads' ends.

*Wire.* `MessagesMean` holds in every state: it is about operators. Each kind of command and
event has a lemma that its decoder undoes its encoder, field by field, for any texts,
widths, rows and lists (lists by `AllRead` and `SomeRead`; the latter by well-founded
induction over the positions). Frames are cut anywhere, at any `MaxFrame`. For damage,
`Legal` says that every field of an object is a value of one JSON type: the encoders
write such objects (`CommandLegal`), damage leaves them so (`DamagedLegal`), and whatever
is read of one is what it says (`ReadIsSaid`), again kind by kind. Assumed are that
base64 is injective, that the widths grow, and that rows, entries, screens and contexts
are of the types of protocol.rs (`SamplesAssumption`).

*Names.* `AttachCoherent` is inductive with the types: whoever attaches comes from
elsewhere. `OwnIds` needs it: the reset of a reconnect does not mention the
attached task, which is gone only because a lost connection detaches before.

*Input.* These are theorems about operators: for any characters, cells of a screen, texts
of any length and directories of any depth. A press is sent in one of four forms: short, CSI Z,
ending in a letter, ending in a tilde (`Form`); within a form the bytes give the meaning
back, and no two forms share a sequence, since their lengths, second bytes or last bytes differ.
A recursion over the positions of a text is given by any function that satisfies its equation;
`RunExists` has one for any step, `RunStays` says that it stays in a set that its steps
stay in, and `UpTo` is the induction over positions, of a set of numbers.
Every edit of the prompt yields `Caret(text, k)` for another text and number of characters
(`TypeIs`, `PasteIs`, `BackspaceIs`, `MovesAre`), and the bytes before `k` characters grow with
`k`, so a caret is at one place alone (`CaretAt`). For paths, the text of clean components
is read as these components (`TextIs`), and cleaning what is clean changes nothing (`CleanStays`);
a label is expanded to its path, with and without a slash at its end (`LabelBack`), and a
name that is text is shown as it is (`LossyText`). What a bracketed paste keeps goes through
one recursion over what is pasted (`StripRun`), whose last tokens decide where a terminator
can be (`OneEnd`). Assumed are
that a character of a control byte is not also printable, that control bytes are not
characters, that neither ESC nor the rest of a terminator is a character of a text, that
columns and rows are below 65535 and a character has one byte or more
(`InputAssumption`), that the directory of the invocation is absolute, that an unset home
is no directory, and that `/`, `~` and `.` are UTF-8 (`PathsAssumption`).

*Holds.* `HoldInv`: a demotion that is pending has been pending for no longer than
there was no source of the rank that is shown (`ranked`, which is history), and what
is resolved has a rank.

*Titles.* `EmulatorInv`, kept by each parser event: the shadow of the title stack is
the backend's stack, and a title whose epoch is that of the alternate screen was set
by the program on it. What a synchronized update holds lands as a run
of events, for which a chain of states exists (`RunExists`, by induction over its
length).

*Status.* A screen is a conversation of any length, the status row, a gap and the chrome below
it. One lemma says for each agent where every row of such a screen stands (`ClaudePainted`,
`CodexPainted`, `GrokPainted`), and one what the code finds on it (`ClaudeLooksAt`,
`CodexLooksAt`, `GrokLooksAt`): the chrome by its lowest row (`LowestIs`), and above it, in its
window, the status row alone, since what the conversation quotes is further up. A dialog is
the first head of a menu in its window by `HeadAbove`'s negation, and without `Boxed` the
lowest rules have no prompt between them.

*Screens.* A stream is replayed part after part (`ReplayJoined`). Of every part it is stated
from which terminal to which it leads, as values of `Term`, whose cells are what is drawn so
far and blank from there on: a cell (`CellIsDrawn`: a tab, a lost half, a pair or a character,
each with its marks), a row by induction over its columns (`RowIsDrawn`), and a screen over its
rows (`ScreenIsDrawn`). A pair that is overwritten takes its other half along, so it needs that
the cells ahead are blank. A cursor that waits past the last column needs that writing once
more over what was drawn there changes nothing but the wait. The text of the copy is that of
the grid since both are the same in every cell's text. It is assumed that every grid of `Grids`
is one a terminal leaves (`GridsAssumption`), and that blanks and tabs are not wide
(`WideAssumption`). What is proved is the property of the run, so grids in `Unfaithful` are
excluded: the code does not reproduce them.

*Capture.* `SlotInv`: a capture file belongs to one run for ever (`PathsAreOwn`), what
is in it or will land in it is its own process's, not accepted, or counted in `astray`
(`HeardIsOwn`), and registry records name what the process they are taken for had on
screen, or what is in `astray`. Only two steps add to `astray`: a write that leaves the
payload of one hook behind the stamp of another, and a launch that takes over a record.
`SavesStand` is the same of the files under a sanitized name; that an entry
is read back as it was written holds for task sets of any length (`RoundTrip`).
`ConversationIsOwn` has one hypothesis, `EditsNameNone`: a conversation that a user
writes into a recipe by hand is the user's choice, and no property of the code. It
excepts the IDs in `astray`, as the property does: the code accepts those.

Not proved, only model-checked: liveness (`RunsEnd`, `FleetPromise`,
`TermEndsDaemon`, `QueueSettles`, `ScreenArrives`, `StopEnds`, `TeardownEnds`,
`PreviewSettles`), which needs fairness and ENABLED, out of the prover's reach. Every
safety property that a passing run checks is a theorem.

## 5. Plan

Done, in this order: `Supervisor` and `FleetLife`, `DaemonLock`, `WriteQueue` with
proofs; `ServeLoop`; `Snapshots` and `Recovery`; `Link` and `SocketTransport`,
`Client` with proofs; `Viewport`, `Emulator` and `Preview`, `Recipes` and `Capture`;
the pure algorithms; `Autostart` and the holds of `Preview` with proofs; `Prompts` and
`Anchors`; proofs of the row properties, of the queue's counter, of connections,
recovery and the calendar, the ends of the transport, the attached view, the titles,
capture and the wire; proofs of the prompts, the dashboard's list and motions, windows
and drags; of what is typed; of screens and status rows.

Left: the clipboard stores a terminal accepts, and probe replies of the emulator.

## 6. What is not modelled, and why

* The text within a row or a title of an agent (`harness/summary.rs`), model labels and
  the parsing of codex's configuration: patterns on text. What they yield is a member of
  a set in `Preview` and a choice in `Capture`.
* Drawing (`ui.rs` but for its windows), colours, wording, sizes and ages as text,
  command-line arguments (`main.rs`), logging and file modes: no state that another
  part depends on.
* The grid and the parser of the emulator, JSON, base64 and the terminal's own
  events: libraries, modelled from their use where a property needs them.
* The other half of `src/` by lines is tests.
