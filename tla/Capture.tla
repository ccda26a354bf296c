-------------------------------- MODULE Capture --------------------------------
(***************************************************************************)
(* Which conversation a managed task is in (harness/, supervisor.rs): the  *)
(* agent moves between conversations by itself; hooks, notifiers and       *)
(* registry records, written by processes that the core does not run, tell *)
(* of it; reruns, recipes and reloads resume what was told last.           *)
(* One managed row of one agent kind; daemons come one after the other.    *)
(***************************************************************************)
EXTENDS Recipes

CONSTANTS Kind,      \* agents of the registry that this instance runs
          Fork,       \* the conversation of a process that is not the task's
          Sub, Title, \* what else has an ID: sub-agent, title thread
          Pid,
          MaxLife, MaxId, MaxRun,  \* bounds: daemons, rows of one, reruns of a row
          MaxProc,   \* bound: processes
          MaxWriters \* bound: hooks and helpers under way at once

Conv == Id
None == Absent

ASSUME CaptureAssumption ==
  /\ Kind \subseteq {"claude", "codex", "grok", "omp"} /\ Kind \subseteq Registered
  /\ Fork \in Conv /\ Sub \notin Conv \cup {None} /\ Title \notin Conv \cup {None, Sub}
  /\ \A n \in {MaxLife, MaxId, MaxRun, MaxProc, MaxWriters} : n \in Nat \ {0}

Blank == [stamp |-> None, conv |-> None, by |-> None]  \* no file, or an empty one
NoRow == [id |-> 0, run |-> 0, proc |-> 0, resume |-> None]

VARIABLES
  kind,     \* the agent of the row
  life,     \* the daemon that runs, with its namespace
  nextId,
  row,      \* Task: id, run, resume_id and process, 0 when stopped
  procs,    \* the processes of the agent that were started
  slot,     \* capture files: stamp, conversation and, as history, who ran the hook
  writers,  \* hooks and helpers under way
  record,   \* Claude's sessions/<pid>.json: whose it is taken for, and the conversation
  onDisk,   \* conversations whose rollout or session file was created
  shown,    \* history: what each process had on screen
  astray    \* history: what was accepted although another process wrote it
core  == <<life, nextId, row, recipes>>
world == <<procs, shown, slot, writers, record, onDisk, astray>>
vars  == <<kind, core, world>>

\* <root>/<pid>-<nonce>/task-<id>-<run>.json: a namespace is as good as its daemon.
Path == (1..MaxLife) \X (1..MaxId) \X (0..MaxRun)
Pins == kind \in {"claude", "grok"}  \* session_flag
Known == UNION {shown[n] : n \in DOMAIN shown}

-----------------------------------------------------------------------------
(* What the core reads: capture recipes, live registry, ID at launch.         *)

\* Mutant: whoever wrote the slot is believed.
AcceptedAny(payload, pid) == IF kind = "grok" THEN None ELSE payload.conv

\* parse_capture: Claude's payloads carry the PID of the process that ran the hook.
Accepted(payload, pid) ==
  IF kind = "grok" \/ (kind = "claude" /\ payload.stamp # pid) THEN None ELSE payload.conv

\* record_for_pid: the record at the PID, when directory and start time fit (Launch).
RecordedBy(n) ==
  IF kind = "claude" /\ record[procs[n].pid].proc = n THEN record[procs[n].pid].conv ELSE None

\* or_else: the first that is told.
OrElse(conv, other) == IF conv # None THEN conv ELSE other

\* Mutant: the ID of the launch is not fallen back to.
CurrentHeard(t) ==
  IF t.proc = 0 THEN t.resume
  ELSE OrElse(Accepted(slot[procs[t.proc].path], procs[t.proc].pid), RecordedBy(t.proc))

\* current_resume_id
CurrentOf(t) ==
  IF t.proc = 0 THEN t.resume
  ELSE OrElse(Accepted(slot[procs[t.proc].path], procs[t.proc].pid),
              OrElse(RecordedBy(t.proc), t.resume))
Current == CurrentOf(row)

-----------------------------------------------------------------------------
(* Launches.                                                               *)

\* Mutant: reruns share a file.
PathPerTask(id, run) == <<life, id, 0>>

\* paths_for
PathFor(id, run) == <<life, id, run>>

\* install removes the namespaces of dead daemons; writers there have no file to write to.
Reaped(s) == [p \in Path |-> IF p[1] < life THEN Blank ELSE s[p]]

\* retire: TERM, and the slot is unlinked. Who has it open writes to no file; who renames
\* another file over it brings it back.
Unlinked(s) == IF row.proc = 0 THEN s ELSE [s EXCEPT ![procs[row.proc].path] = Blank]
Writes(w) ==
  /\ w.path[1] = life
  /\ row.proc # 0 /\ w.path = procs[row.proc].path => kind = "codex"

InUse == {procs[n].pid : n \in {m \in DOMAIN procs : procs[m].live \/ m = row.proc}}

\* overlay: codex goes without its notifier when the user's own cannot be chained, or when
\* the daemon's binary was replaced; grok has no channel.
Channels == IF kind = "codex" THEN BOOLEAN ELSE {kind # "grok"}

\* intent_args: a conversation is resumed by its ID; a fresh one is pinned when the tool
\* allows it and an ID could be minted, and otherwise the tool picks it.
Plans(resume) ==
  IF resume # None THEN {[conv |-> resume, id |-> resume]}
  ELSE {p \in [conv : Conv \ Known, id : Conv \cup {None}] :
          p.conv # Fork /\ (p.id = None \/ (Pins /\ p.id = p.conv))}

\* The record that stands at a recycled PID passes for the new process's own when it names its
\* directory and a start within 30 seconds of the launch.
Inherits == {FALSE, kind = "claude"}

\* spawn_task, with the row of the new process and what becomes of the one it displaces. Not
\* modelled: a launch that fails behind the fork (Supervisor), and its child, which has the
\* file of the next launch but has lost its terminal.
Launch(id, run, resume) ==
  \E plan \in Plans(resume), channel \in Channels, pid \in Pid \ InUse, inherits \in Inherits :
    /\ Len(procs) < MaxProc
    /\ procs' = Append(procs, [pid |-> pid, path |-> PathFor(id, run), conv |-> plan.conv,
                               live |-> TRUE, channel |-> channel])
    /\ shown' = Append(shown, {plan.conv})
    /\ row' = [id |-> id, run |-> run, proc |-> Len(procs'), resume |-> plan.id]
    /\ slot' = Reaped(Unlinked(slot))
    /\ writers' = {w \in writers : Writes(w)}
    /\ record' = IF inherits THEN [record EXCEPT ![pid].proc = Len(procs')] ELSE record
    /\ astray' = IF inherits THEN astray \cup {record[pid].conv} ELSE astray
    /\ UNCHANGED <<kind, life, recipes, onDisk>>

\* spawn_agent
SpawnAgent ==
  /\ row = NoRow /\ nextId <= MaxId /\ nextId' = nextId + 1
  /\ Launch(nextId, 0, None)

\* Mutant: the slot is unlinked first.
RerunUnlinking ==
  /\ row.id # 0 /\ row.run < MaxRun /\ (row.proc # 0 => ~procs[row.proc].live)
  /\ UNCHANGED nextId
  /\ Launch(row.id, row.run + 1,
            IF row.proc # 0 /\ RecordedBy(row.proc) # None THEN RecordedBy(row.proc) ELSE row.resume)

\* rerun: a stopped row, or a run that has exited. A launch that fails changes nothing.
Rerun ==
  /\ row.id # 0 /\ row.run < MaxRun /\ (row.proc # 0 => ~procs[row.proc].live)
  /\ UNCHANGED nextId
  /\ Launch(row.id, row.run + 1, Current)

\* Remove: the run is retired.
Remove ==
  /\ row # NoRow /\ row' = NoRow
  /\ slot' = Unlinked(slot)
  /\ writers' = {w \in writers : Writes(w)}
  /\ UNCHANGED <<kind, life, nextId, recipes, procs, shown, record, onDisk, astray>>

-----------------------------------------------------------------------------
(* Recipes and daemons.                                                    *)

\* session_config: the row as an entry, with the conversation that is known best.
RowEntry ==
  Managed(kind, Current, IF row.proc = 0 \/ ~procs[row.proc].live THEN {"stopped"} ELSE {})

\* save_session
Save ==
  /\ row # NoRow
  /\ \E name \in Name : SaveIn(name, <<RowEntry>>)
  /\ UNCHANGED <<kind, life, nextId, row, world>>

\* A user writes or replaces a file.
EditRecipe ==
  /\ \E stem \in Stem, file \in Edits : Edit(stem, file)
  /\ UNCHANGED <<kind, life, nextId, row, world>>

\* materialize: a stopped entry becomes a row without a process. Bound: only entries of this
\* row's agent are loaded, one at a time.
Materialize(e) ==
  \/ /\ "stopped" \in e.marks
     /\ row' = [id |-> nextId, run |-> 0, proc |-> 0, resume |-> e.resume]
     /\ UNCHANGED <<kind, life, recipes, world>>
  \/ "stopped" \notin e.marks /\ Launch(nextId, 0, e.resume)

\* load_session
Load ==
  /\ row = NoRow /\ nextId <= MaxId /\ nextId' = nextId + 1
  /\ \E name \in Name : \E cfg \in LoadIn(name) : \E i \in DOMAIN cfg :
       cfg[i].agent = kind /\ Materialize(cfg[i])

\* The daemon ends, with its namespace or without; agents may live a little longer.
Die ==
  /\ life < MaxLife /\ life' = life + 1
  /\ nextId' = 1 /\ row' = NoRow
  /\ \E dropped \in BOOLEAN :
       /\ slot' = IF dropped THEN [p \in Path |-> IF p[1] = life THEN Blank ELSE slot[p]] ELSE slot
       /\ writers' = IF dropped THEN {w \in writers : w.path[1] # life} ELSE writers
  /\ UNCHANGED <<kind, recipes, procs, shown, record, onDisk, astray>>

-----------------------------------------------------------------------------
(* The agent and what it runs.                                             *)

\* An agent of this daemon. What those of an earlier one do is not read any more.
Ours(n) == procs[n].live /\ procs[n].path[1] = life

\* /clear, /resume, /fork: another conversation comes on screen. Bound: not a background fork's.
Switch(n, conv) ==
  /\ Ours(n) /\ conv # procs[n].conv
  /\ procs' = [procs EXCEPT ![n].conv = conv]
  /\ shown' = [shown EXCEPT ![n] = @ \cup {conv}]
  /\ UNCHANGED <<kind, core, slot, writers, record, onDisk, astray>>

\* The first turn creates the rollout (codex) or the session file (omp).
FirstTurn(n) ==
  /\ ~Pins /\ Ours(n) /\ onDisk' = onDisk \cup {procs[n].conv}
  /\ UNCHANGED <<kind, core, procs, shown, slot, writers, record, astray>>

Exit(n) ==
  /\ procs[n].live /\ procs' = [procs EXCEPT ![n].live = FALSE]
  /\ UNCHANGED <<kind, core, shown, slot, writers, record, onDisk, astray>>

UpdateRecord(n) ==
  /\ kind = "claude" /\ Ours(n)
  /\ record' = [record EXCEPT ![procs[n].pid] = [proc |-> n, conv |-> procs[n].conv]]
  /\ UNCHANGED <<kind, core, procs, shown, slot, writers, onDisk, astray>>

\* What a process that has the file would accept of s, although another one ran the hook.
Strays(path, s) ==
  {conv \in {s.conv} \ {None} :
     s.by # s.stamp /\ \E n \in DOMAIN procs : procs[n].path = path /\ procs[n].pid = s.stamp}

Put(path, s) ==
  /\ slot' = [slot EXCEPT ![path] = s]
  /\ astray' = astray \cup Strays(path, s)
  /\ UNCHANGED <<kind, core, procs, shown, record, onDisk>>

Starts(n, stamp, conv) ==
  /\ Ours(n) /\ Cardinality(writers) < MaxWriters
  /\ writers' = writers \cup {[path |-> procs[n].path, stamp |-> stamp, conv |-> conv, stamped |-> FALSE]}

\* Claude's SessionStart hook, { printf stamp; cat; } > slot: the file is truncated; stamp and
\* payload follow, at the places that are this hook's own, whoever else has the file open.
HookOf(n, pid, conv) == kind = "claude" /\ Starts(n, pid, conv) /\ Put(procs[n].path, Blank)

Hook(n) == HookOf(n, procs[n].pid, procs[n].conv)

\* A background fork has the environment of the task's process and another PID.
ForkHook(n) == \E pid \in Pid \ InUse : HookOf(n, pid, Fork)

\* What stands behind the stamp of another hook fits it only when the stamps are of one length.
Fits(stamp, by) == {stamp} \cup (IF by \in {stamp, None} THEN {} ELSE {None})

Stamp(w) ==
  /\ kind = "claude" /\ ~w.stamped
  /\ writers' = (writers \ {w}) \cup {[w EXCEPT !.stamped = TRUE]}
  /\ \E stamp \in Fits(w.stamp, slot[w.path].by) :
       Put(w.path, [stamp |-> stamp, conv |-> slot[w.path].conv, by |-> slot[w.path].by])

\* A payload that is cut short, or lies over a longer one, is no JSON.
Payload(w) ==
  /\ kind = "claude" /\ w.stamped /\ writers' = writers \ {w}
  /\ \E stamp \in Fits(slot[w.path].stamp, w.stamp), conv \in {w.conv, None} :
       Put(w.path, [stamp |-> stamp, conv |-> conv, by |-> IF conv = None THEN None ELSE w.stamp])

\* Mutant: the thread that notified is recorded.
RootThreadNamed(thread, conv) == {thread}

\* arrival_root, root_thread: a thread with a rollout, or for a sub-agent the root in its
\* header; no rollout is saved for the title thread.
RootThread(thread, conv) ==
  IF thread = Sub THEN {conv} \cap onDisk ELSE {thread} \cap onDisk

\* codex: the thread on screen, sub-agents and the title thread notify after each turn; what
\* is not refused goes to a temporary file.
Notify(n) ==
  /\ kind = "codex" /\ procs[n].channel
  /\ \E thread \in {procs[n].conv, Sub, Title} :
       \E root \in RootThread(thread, procs[n].conv) : Starts(n, None, root)
  /\ UNCHANGED <<kind, core, procs, shown, slot, record, onDisk, astray>>

\* What codex and omp report has no stamp.
Unstamped(conv) == [stamp |-> None, conv |-> conv, by |-> None]

\* replace_slot: the rename.
ReplaceSlot(w) ==
  /\ kind = "codex" /\ writers' = writers \ {w}
  /\ Put(w.path, Unstamped(w.conv))

\* omp: the handlers of sub-agents and of sessions without a file report nothing.
Report(n) ==
  /\ kind = "omp" /\ Ours(n) /\ procs[n].conv \in onDisk
  /\ Put(procs[n].path, Unstamped(procs[n].conv))
  /\ UNCHANGED writers

-----------------------------------------------------------------------------
Init ==
  /\ kind \in Kind /\ life = 1 /\ nextId = 1 /\ row = NoRow /\ RecipesInit
  /\ procs = <<>> /\ shown = <<>> /\ slot = [p \in Path |-> Blank] /\ writers = {}
  /\ record = [p \in Pid |-> [proc |-> 0, conv |-> Fork]]
  /\ onDisk = {} /\ astray = {}

Next ==
  \/ SpawnAgent \/ Rerun \/ Remove \/ Save \/ EditRecipe \/ Load \/ Die
  \/ \E n \in DOMAIN procs :
       \/ \E conv \in Conv \ {Fork} : Switch(n, conv)
       \/ FirstTurn(n) \/ Exit(n) \/ UpdateRecord(n)
       \/ Hook(n) \/ ForkHook(n) \/ Notify(n) \/ Report(n)
  \/ \E w \in writers : Stamp(w) \/ Payload(w) \/ ReplaceSlot(w)

Spec == Init /\ [][Next]_vars

-----------------------------------------------------------------------------
(* Properties.                                                             *)

\* What a rerun resumes and a recipe records is a conversation that this task itself had on
\* screen, in this run or, for a stopped row, in one before: not a background fork's, a
\* sub-agent's, a displaced run's or that of an earlier process with its PID. What agents
\* that pick their IDs report can be resumed. It does not hold, and is not claimed, of IDs
\* that went astray: the payload of another process's hook
\* that landed behind the stamp of the task's, both having the file open, and the record
\* of another process that a launch took over with its PID.
OwnConversation ==
  Current \notin astray \cup {None} =>
    /\ Current \in IF row.proc = 0 THEN Known ELSE shown[row.proc]
    /\ Pins \/ Current \in onDisk

\* Once a row's conversation is known it stays known, through exits, reruns, failed or late
\* hooks and anything the agent does. (A Claude that could not be pinned loses it while a
\* hook has its slot open, and when that hook is cut short.)
KnownIsKept ==
  [][/\ row.id # 0 /\ row'.id = row.id /\ life' = life
     /\ Current # None /\ (kind = "claude" => row.resume # None)
     => Current' # None]_vars
-----------------------------------------------------------------------------
(* The strengthening that makes OwnConversation, KnownIsKept and           *)
(* SavedIsLoaded inductive.                                                *)

Process == [pid : Pid, path : Path, conv : Conv, live : BOOLEAN, channel : BOOLEAN]
Payloads == [stamp : Pid \cup {None}, conv : Conv \cup {None}, by : Pid \cup {None}]
Writers == [path : Path, stamp : Pid \cup {None}, conv : Conv, stamped : BOOLEAN]

TypeOK ==
  /\ kind \in Kind /\ life \in 1..MaxLife /\ nextId \in 1..MaxId + 1
  /\ row \in [id : 0..MaxId, run : 0..MaxRun, proc : Nat, resume : Conv \cup {None}]
  /\ row.proc # 0 => row.proc \in DOMAIN procs
  /\ procs \in Seq(Process) /\ shown \in Seq(SUBSET Conv) /\ Len(shown) = Len(procs)
  /\ slot \in [Path -> Payloads] /\ writers \subseteq Writers
  /\ record \in [Pid -> [proc : Nat, conv : Conv]] /\ onDisk \subseteq Conv /\ astray \subseteq Conv
  /\ DOMAIN files = Stem /\ DOMAIN mine = Name

\* A capture file belongs to one run: no other has had it, none that comes will find it used.
PathsAreOwn ==
  /\ row.id < nextId
  /\ \A m, n \in DOMAIN procs : m # n => procs[m].path # procs[n].path
  /\ \A n \in DOMAIN procs : LET p == procs[n].path IN
       /\ p[1] <= life
       /\ p[1] = life => p[2] < nextId /\ (p[2] = row.id => p[3] <= row.run)
  /\ \A p \in Path : (\A n \in DOMAIN procs : procs[n].path # p)
       => slot[p] = Blank /\ \A w \in writers : w.path # p

\* The ID can be resumed, and is of a conversation that process n had on screen or went astray.
CanResume(conv) == Pins \/ conv \in onDisk
Own(conv, n) == conv \in shown[n] \cup astray /\ CanResume(conv)

\* What is or will be in the slot of a process is its own, not accepted, or astray.
HeardIsOwn ==
  \A n \in DOMAIN procs :
    /\ procs[n].conv \in shown[n]
    /\ LET s == slot[procs[n].path] IN
         s.conv # None /\ (kind = "claude" => procs[n].pid \in {s.stamp, s.by}) => Own(s.conv, n)
    /\ \A w \in writers :
         w.path = procs[n].path /\ (kind = "claude" => w.stamp = procs[n].pid) => Own(w.conv, n)

RecordsAreOwn ==
  \A p \in Pid : record[p].proc # 0 =>
    record[p].proc \in DOMAIN procs /\ record[p].conv \in shown[record[p].proc] \cup astray

Heard == Known \cup astray
ResumeIsOwn ==
  row.resume # None =>
    IF row.proc = 0 THEN row.resume \in Heard /\ CanResume(row.resume) ELSE Own(row.resume, row.proc)

\* A recipe resumes only what was saved of a row, unless a user writes an ID into it.
ResumesOwn(file) ==
  \A cfg \in Parsed(file) : \A i \in DOMAIN cfg :
    cfg[i].agent = kind /\ cfg[i].resume # None => cfg[i].resume \in Heard /\ CanResume(cfg[i].resume)
FilesAreOwn == \A s \in Stem : \A file \in files[s] : ResumesOwn(file)
EditsNameNone == \A file \in Edits : \A cfg \in Parsed(file) : \A i \in DOMAIN cfg : cfg[i].resume = None

\* What stands under a name that was saved is what was saved under it.
SavesStand ==
  \A n \in Name : mine[n] # {} =>
    LoadIn(n) = mine[n] /\ \A file \in files[sanitize[n]] : StoredName(file) = n

\* What holds of the capture files and registry records, whatever users write into recipes.
SlotInv == PathsAreOwn /\ HeardIsOwn /\ RecordsAreOwn

CaptureInv == SlotInv /\ SavesStand /\ ResumeIsOwn /\ FilesAreOwn
=============================================================================
