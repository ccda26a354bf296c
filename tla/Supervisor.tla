------------------------------ MODULE Supervisor ------------------------------
(***************************************************************************)
(* The task set of one fleetcom core: rows, the runs (Process values) they *)
(* own, the graveyard of displaced runs, the flagship mark and the TERM,   *)
(* grace, KILL, collect life of every run (supervisor.rs, task.rs), above  *)
(* a model of the kernel's process table in which a process ID is reused   *)
(* as soon as no process and no process group holds it.                    *)
(*                                                                         *)
(* The core is one thread: a command and a reap pass are atomic with       *)
(* respect to each other, and the kernel's steps interleave with both.     *)
(* The two parts of the core that take long are split: a session load is   *)
(* one step per entry, and shutdown is one step per reap pass.             *)
(***************************************************************************)
EXTENDS Integers, FiniteSets, Sequences

CONSTANTS MaxId,     \* bound: last task ID the core hands out
          MaxRun,    \* bound: reruns of one row
          MaxTasks,  \* MAX_TASKS, the ceiling on rows
          Grace,     \* KILL_GRACE, in clock ticks
          Pid,       \* process IDs of the kernel
          Forking,   \* bound: runs that leave a background child
          Foreign,   \* process groups fleetcom did not start
          Lost,      \* bound: children of launches that failed after the fork
          Label,     \* what SetGroup, SetName and Tag store with a row
          Recipes,   \* contents of the session files a client may load
          NoPid

None == 0
Id == 1 .. MaxId
Run == Id \X (0 .. MaxRun)        \* (task ID, run number), as in paths_for
Child == Run \cup Lost            \* what the core starts
Group == Child \cup Foreign       \* a process group and its leader
Entry == [stopped : BOOLEAN, flagship : BOOLEAN, label : Label]

ASSUME SupervisorAssumption ==
  /\ MaxId \in Nat \ {0}
  /\ MaxRun \in Nat
  /\ MaxTasks \in Nat
  /\ Grace \in Nat \ {0}
  /\ NoPid \notin Pid
  /\ Forking \subseteq Run
  /\ Foreign \cap Run = {}
  /\ Lost \cap (Run \cup Foreign) = {}
  /\ Label # {}
  /\ Recipes \subseteq Seq(Entry)

VARIABLES
  pc,        \* what the core thread is doing
  pending,   \* entries a session load has still to handle
  deadline,  \* ticks left before shutdown_all stops waiting
  nextId, tasks, label, run, hasProc, graveyard, flagship, armed,
  finished, termAge, killSent, reaped,   \* Process fields, per run
  pidOf, leader, kids, doomed,           \* the kernel, per group
  stray      \* history: a signal reached a group it was not meant for

loopVars == <<pc, pending, deadline>>
rowVars  == <<nextId, tasks, label, run, hasProc>>
procVars == <<finished, termAge, killSent, reaped>>
osVars   == <<pidOf, leader, kids, doomed>>
vars == <<loopVars, rowVars, graveyard, flagship, armed, procVars, osVars, stray>>

TypeOK ==
  /\ pc \in {"loop", "write", "load", "shutdown", "stopped"}
  /\ pending \in Seq(Entry)
  /\ deadline \in 0 .. Grace
  /\ nextId \in 1 .. (MaxId + 1)
  /\ tasks \subseteq 1 .. (nextId - 1)
  /\ label \in [Id -> Label]
  /\ run \in [Id -> 0 .. MaxRun]
  /\ hasProc \in [Id -> BOOLEAN]
  /\ graveyard \subseteq Run
  /\ flagship \in {None} \cup Id
  /\ armed \in BOOLEAN
  /\ finished \in [Run -> BOOLEAN]
  /\ termAge \in [Run -> -1 .. Grace]
  /\ killSent \in [Run -> BOOLEAN]
  /\ reaped \in [Run -> BOOLEAN]
  /\ pidOf \in [Group -> Pid \cup {NoPid}]
  /\ leader \in [Group -> {"unborn", "alive", "zombie", "gone"}]
  /\ kids \in [Group -> BOOLEAN]
  /\ doomed \in [Group -> BOOLEAN]
  /\ stray \in BOOLEAN

-----------------------------------------------------------------------------
(* The kernel. A PID stays reserved while its process is unreaped or a     *)
(* process group still carries it; killpg reaches every group under it.    *)

InUse(g) == leader[g] \in {"alive", "zombie"} \/ kids[g]

FreePids == {p \in Pid : \A g \in Group : InUse(g) => pidOf[g] # p}

Struck(r) == {g \in Group : InUse(g) /\ pidOf[g] = pidOf[r]}

Astray(R) == \E r \in R : ~(Struck(r) \subseteq {r})

-----------------------------------------------------------------------------
(* Process and Task: the helpers the handlers share.                       *)

RunOf(i) == <<i, run[i]>>

Current == {RunOf(i) : i \in {j \in tasks : hasProc[j]}}

\* Mutant: a run whose exit was seen gets no TERM.
TerminableRunning(R) == {r \in R : ~reaped[r] /\ ~finished[r] /\ termAge[r] = -1}

\* terminate: TERM once, and only to a group whose leader is not reaped.
Terminable(R) == {r \in R : ~reaped[r] /\ termAge[r] = -1}

Terminate(R) ==
  /\ termAge' = [r \in Run |-> IF r \in Terminable(R) THEN 0 ELSE termAge[r]]
  /\ stray' = (stray \/ Astray(Terminable(R)))

\* Mutants: no grace; a TERM that was never sent counts as overdue.
OverdueAtOnce(r) == ~killSent[r] /\ termAge[r] >= 0
OverdueUnasked(r) == ~killSent[r] /\ termAge[r] \in {-1, Grace}

\* overdue: a TERM older than the grace that no KILL has followed.
Overdue(r) == ~killSent[r] /\ termAge[r] = Grace

\* Mutant: a run whose exit was seen gets no KILL.
SignalledRunning(R) == {r \in R : ~reaped[r] /\ ~finished[r]}

\* force_kill: KILL the group unless its leader is reaped.
Signalled(R) == {r \in R : ~reaped[r]}

ForceKill(R) ==
  /\ killSent' = [r \in Run |-> r \in R \/ killSent[r]]
  /\ doomed' = [g \in Group |-> doomed[g] \/ \E r \in Signalled(R) : g \in Struck(r)]
  /\ stray' = (stray \/ Astray(Signalled(R)))

\* poll_exit: latch an exit and leave the zombie.
Exits(R) == {r \in R : ~finished[r] /\ ~reaped[r] /\ leader[r] = "zombie"}

Latch(R) == finished' = [r \in Run |-> r \in R \/ finished[r]]

\* Mutant: poll_exit reaps the zombie it sees instead of leaving it.
CollectOnPoll(R) ==
  /\ reaped' = [r \in Run |-> r \in R \/ reaped[r]]
  /\ leader' = [g \in Group |-> IF g \in R \cup Exits(Current) THEN "gone" ELSE leader[g]]

\* collect: reap the leaders of R, which frees their PIDs.
Collect(R) ==
  /\ reaped' = [r \in Run |-> r \in R \/ reaped[r]]
  /\ leader' = [g \in Group |-> IF g \in R THEN "gone" ELSE leader[g]]

\* Mutant: the displaced Process is let go instead of kept.
RetireDrops(i) == UNCHANGED graveyard /\ Terminate(Current \cap {RunOf(i)})

\* retire: TERM the run of row i, if it has one, and keep it for the reaper.
Retire(i) ==
  /\ graveyard' = graveyard \cup (Current \cap {RunOf(i)})
  /\ Terminate(Current \cap {RunOf(i)})

\* Process::spawn: the kernel chooses any free PID for the new leader.
Launch(r) ==
  \E p \in FreePids :
    /\ pidOf' = [pidOf EXCEPT ![r] = p]
    /\ leader' = [leader EXCEPT ![r] = "alive"]
    /\ UNCHANGED <<kids, doomed>>

\* Process::spawn behind spawn_command: the reader or the writer cannot be had, or a
\* thread cannot be started (a panic). The child runs, and no Process knows its PID.
Orphans(l) == leader[l] = "unborn" /\ Launch(l)

\* Mutant: an exit does not end a row's claim to the mark.
LiveRowUntilRemoved(i) == i \in tasks /\ hasProc[i]

\* The flagship ID while its row has a live process.
LiveRow(i) == i \in tasks /\ hasProc[i] /\ ~finished[RunOf(i)]
FlagshipHolder == IF flagship # None /\ LiveRow(flagship) THEN flagship ELSE None

Room == Cardinality(tasks) < MaxTasks /\ nextId <= MaxId

\* Mutant: the ID is advanced before it is used.
EnrollEarly(l) ==
  /\ tasks' = tasks \cup {nextId + 1}
  /\ nextId' = nextId + 1
  /\ label' = [label EXCEPT ![nextId] = l]

\* enroll: append a row under the next ID.
Enroll(l) ==
  /\ tasks' = tasks \cup {nextId}
  /\ nextId' = nextId + 1
  /\ label' = [label EXCEPT ![nextId] = l]

-----------------------------------------------------------------------------
(* Commands (Supervisor::apply). Every recipe-affecting one arms the       *)
(* recovery write before it is validated.                                  *)

\* spawn, spawn_agent.
Spawn ==
  /\ pc = "loop" /\ Room
  /\ \E l \in Label : Enroll(l)
  /\ hasProc' = [hasProc EXCEPT ![nextId] = TRUE]
  /\ Launch(<<nextId, 0>>)
  /\ armed' = TRUE
  /\ UNCHANGED <<loopVars, run, graveyard, flagship, procVars, stray>>

\* A recipe-affecting command that is refused: ceiling, length, no launch
\* context, no binary, no such task, unreadable session file.
Refuse ==
  /\ pc = "loop"
  /\ armed' = TRUE
  /\ UNCHANGED <<loopVars, rowVars, graveyard, flagship, procVars, osVars, stray>>

SpawnOrphans(l) ==
  /\ pc = "loop" /\ Room
  /\ Orphans(l)
  /\ armed' = TRUE
  /\ UNCHANGED <<loopVars, rowVars, graveyard, flagship, procVars, stray>>

Kill(i) ==
  /\ pc = "loop" /\ i \in tasks /\ hasProc[i]
  /\ Terminate({RunOf(i)})
  /\ UNCHANGED <<loopVars, rowVars, graveyard, flagship, armed, finished, killSent,
                 reaped, osVars>>

\* Remove: drop the row and retire its run, if it has one.
Remove(i) ==
  /\ pc = "loop" /\ i \in tasks
  /\ tasks' = tasks \ {i}
  /\ Retire(i)
  /\ armed' = TRUE
  /\ UNCHANGED <<loopVars, nextId, label, run, hasProc, flagship, finished, killSent,
                 reaped, osVars>>

\* rerun polls first: an exit may not have been latched by a reap yet.
\* It refuses a run the poll finds going, or fails on.
RestartRefused(i) ==
  /\ pc = "loop" /\ i \in tasks /\ hasProc[i] /\ ~finished[RunOf(i)]
  /\ armed' = TRUE
  /\ UNCHANGED <<loopVars, rowVars, graveyard, flagship, procVars, osVars, stray>>

Restartable(i) ==
  /\ pc = "loop" /\ i \in tasks
  /\ hasProc[i] => finished[RunOf(i)] \/ leader[RunOf(i)] = "zombie"

\* Mutant: the mark survives its run.
UnmarkLater(i) == UNCHANGED flagship

Unmark(i) == flagship' = IF flagship = i THEN None ELSE flagship

\* The replacement cannot start: keep the old row, without its mark.
RestartFails(i) ==
  /\ Restartable(i)
  /\ Latch(Exits(Current \cap {RunOf(i)}))
  /\ Unmark(i)
  /\ armed' = TRUE
  /\ UNCHANGED <<loopVars, rowVars, graveyard, termAge, killSent, reaped, osVars, stray>>

RestartOrphans(i, l) ==
  /\ Restartable(i)
  /\ Latch(Exits(Current \cap {RunOf(i)}))
  /\ Unmark(i)
  /\ Orphans(l)
  /\ armed' = TRUE
  /\ UNCHANGED <<loopVars, rowVars, graveyard, termAge, killSent, reaped, stray>>

Restart(i) ==
  /\ Restartable(i) /\ run[i] < MaxRun
  /\ Latch(Exits(Current \cap {RunOf(i)}))
  /\ Unmark(i)
  /\ run' = [run EXCEPT ![i] = @ + 1]
  /\ hasProc' = [hasProc EXCEPT ![i] = TRUE]
  /\ Launch(<<i, run[i] + 1>>)
  /\ Retire(i)
  /\ armed' = TRUE
  /\ UNCHANGED <<loopVars, nextId, tasks, label, killSent, reaped>>

\* Mutant: Flagship is not a recipe-affecting command.
FlagshipUnarmed(i) ==
  /\ pc = "loop" /\ i \in {None} \cup 1 .. (nextId - 1)
  /\ flagship' = i
  /\ UNCHANGED <<loopVars, rowVars, graveyard, armed, procVars, osVars, stray>>

\* Flagship stores the ID as it comes; a client only names IDs it has seen.
Flagship(i) ==
  /\ pc = "loop" /\ i \in {None} \cup 1 .. (nextId - 1)
  /\ flagship' = i
  /\ armed' = TRUE
  /\ UNCHANGED <<loopVars, rowVars, graveyard, procVars, osVars, stray>>

\* Tag, SetGroup, SetName.
Relabel(i, l) ==
  /\ pc = "loop" /\ i \in tasks
  /\ label' = [label EXCEPT ![i] = l]
  /\ armed' = TRUE
  /\ UNCHANGED <<loopVars, nextId, tasks, run, hasProc, graveyard, flagship, procVars,
                 osVars, stray>>

-----------------------------------------------------------------------------
(* LoadSession, LoadRecovery: materialize handles the entries in order.    *)

Load(recipe) ==
  /\ pc = "loop"
  /\ pc' = "load"
  /\ pending' = recipe
  /\ armed' = TRUE
  /\ UNCHANGED <<deadline, rowVars, graveyard, flagship, procVars, osVars, stray>>

NextEntry == pc = "load" /\ pending # <<>> /\ pending' = Tail(pending)

\* Missing directory, ceiling, length, no binary, spawn failure.
LoadSkips ==
  /\ NextEntry
  /\ UNCHANGED <<pc, deadline, rowVars, graveyard, flagship, armed, procVars, osVars, stray>>

LoadStopped ==
  /\ NextEntry /\ Head(pending).stopped /\ Room
  /\ Enroll(Head(pending).label)
  /\ UNCHANGED <<pc, deadline, run, hasProc, graveyard, flagship, armed, procVars, osVars,
                 stray>>

LoadLive ==
  /\ NextEntry /\ ~Head(pending).stopped /\ Room
  /\ Enroll(Head(pending).label)
  /\ hasProc' = [hasProc EXCEPT ![nextId] = TRUE]
  /\ Launch(<<nextId, 0>>)
  /\ flagship' = IF Head(pending).flagship /\ FlagshipHolder = None THEN nextId ELSE flagship
  /\ UNCHANGED <<pc, deadline, run, graveyard, armed, procVars, stray>>

\* An error costs the entry, a panic the rest of the load and the connection.
LoadOrphans(l) ==
  /\ pc = "load" /\ pending # <<>> /\ ~Head(pending).stopped /\ Room
  /\ Orphans(l)
  /\ \/ pending' = Tail(pending) /\ pc' = pc
     \/ pending' = <<>> /\ pc' = "loop"
  /\ UNCHANGED <<deadline, rowVars, graveyard, flagship, armed, procVars, stray>>

LoadDone ==
  /\ pc = "load" /\ pending = <<>>
  /\ pc' = "loop"
  /\ UNCHANGED <<pending, deadline, rowVars, graveyard, flagship, armed, procVars, osVars,
                 stray>>

-----------------------------------------------------------------------------
(* reap: latch exits, KILL what is overdue, collect what was KILLed, drop  *)
(* a mark nothing live holds. waitid fails for the runs in "miss".         *)

Reap(miss) ==
  LET held      == Current \cup graveyard
      overdue   == {r \in held : Overdue(r)}
      collected == {r \in graveyard \ miss :
                      (killSent[r] \/ r \in overdue) /\ leader[r] = "zombie"}
      latched   == Exits(held \ miss) \cup collected
      live(i)   == LiveRow(i) /\ RunOf(i) \notin latched
      cleared   == flagship # None /\ ~live(flagship)
  IN /\ ForceKill(overdue)
     /\ Latch(latched)
     /\ Collect(collected)
     /\ graveyard' = graveyard \ collected
     /\ flagship' = IF cleared THEN None ELSE flagship
     /\ armed' = (armed \/ cleared \/ Exits(Current \ miss) # {})
     /\ UNCHANGED <<pending, rowVars, termAge, pidOf, kids>>

\* tick, or the idle branch between clients: reap, then look at recovery.
Tick(miss) ==
  /\ pc = "loop"
  /\ pc' = "write"
  /\ Reap(miss)
  /\ UNCHANGED deadline

\* maybe_write_recovery: a due pass clears last_mutation, one not due does not.
MaybeWriteRecovery ==
  /\ pc = "write"
  /\ pc' = "loop"
  /\ armed' \in {armed, FALSE}
  /\ UNCHANGED <<pending, deadline, rowVars, graveyard, flagship, procVars, osVars, stray>>

-----------------------------------------------------------------------------
(* shutdown_all, and the end of the daemon.                                *)

Shutdown ==
  /\ pc = "loop"
  /\ pc' = "shutdown"
  /\ deadline' = Grace
  /\ Terminate(Current)
  /\ UNCHANGED <<pending, rowVars, graveyard, flagship, armed, finished, killSent, reaped,
                 osVars>>

ShutdownReap(miss) ==
  /\ pc = "shutdown" /\ deadline > 0 /\ (tasks # {} \/ graveyard # {})
  /\ Reap(miss)
  /\ UNCHANGED <<pc, deadline>>

\* Process::drop on everything left: KILL, then collect without waiting.
DropAll ==
  LET held == Current \cup graveyard
      collected == {r \in held : leader[r] = "zombie"}
  IN /\ pc' = "stopped"
     /\ ForceKill(held)
     /\ Latch(collected)
     /\ Collect(collected)
     /\ tasks' = {}
     /\ graveyard' = {}
     /\ UNCHANGED <<pending, deadline, nextId, label, run, hasProc, flagship, armed, termAge,
                    pidOf, kids>>

\* Mutant: shutdown waits for an empty fleet, without its deadline.
ShutdownClearWaits == pc = "shutdown" /\ tasks = {} /\ graveyard = {} /\ DropAll

ShutdownClear ==
  /\ pc = "shutdown" /\ (deadline = 0 \/ (tasks = {} /\ graveyard = {}))
  /\ DropAll

\* accept fails for good: the daemon returns and its fleet is dropped.
FatalAccept == pc = "loop" /\ DropAll

-----------------------------------------------------------------------------
(* The world outside the core.                                             *)

\* One clock tick: every running TERM timer and the shutdown wait advance.
Elapse ==
  /\ deadline > 0 \/ \E r \in Run : termAge[r] \in 0 .. (Grace - 1)
  /\ deadline' = IF deadline > 0 THEN deadline - 1 ELSE 0
  /\ termAge' = [r \in Run |-> IF termAge[r] \in 0 .. (Grace - 1)
                                THEN termAge[r] + 1 ELSE termAge[r]]
  /\ UNCHANGED <<pc, pending, rowVars, graveyard, flagship, armed, finished, killSent, reaped,
                 osVars, stray>>

\* A leader exits: on its own, on TERM, or because the group was KILLed.
LeaderExits(r) ==
  /\ leader[r] = "alive"
  /\ leader' = [leader EXCEPT ![r] = "zombie"]
  /\ UNCHANGED <<loopVars, rowVars, graveyard, flagship, armed, procVars, pidOf, kids, doomed,
                 stray>>

\* A leader leaves a background child in its group.
Forks(r) ==
  /\ leader[r] = "alive" /\ ~doomed[r] /\ ~kids[r] /\ r \in Forking
  /\ kids' = [kids EXCEPT ![r] = TRUE]
  /\ UNCHANGED <<loopVars, rowVars, graveyard, flagship, armed, procVars, pidOf, leader, doomed,
                 stray>>

KidsExit(r) ==
  /\ kids[r]
  /\ kids' = [kids EXCEPT ![r] = FALSE]
  /\ UNCHANGED <<loopVars, rowVars, graveyard, flagship, armed, procVars, pidOf, leader, doomed,
                 stray>>

\* init collects what a stopped daemon left.
InitReaps(r) ==
  /\ pc = "stopped" /\ leader[r] = "zombie"
  /\ leader' = [leader EXCEPT ![r] = "gone"]
  /\ UNCHANGED <<loopVars, rowVars, graveyard, flagship, armed, procVars, pidOf, kids, doomed,
                 stray>>

ForeignStarts(f) ==
  /\ leader[f] = "unborn"
  /\ \E p \in FreePids : pidOf' = [pidOf EXCEPT ![f] = p]
  /\ leader' = [leader EXCEPT ![f] = "alive"]
  /\ UNCHANGED <<loopVars, rowVars, graveyard, flagship, armed, procVars, kids, doomed, stray>>

ForeignEnds(f) ==
  /\ leader[f] = "alive"
  /\ leader' = [leader EXCEPT ![f] = "unborn"]
  /\ pidOf' = [pidOf EXCEPT ![f] = NoPid]
  /\ UNCHANGED <<loopVars, rowVars, graveyard, flagship, armed, procVars, kids, doomed, stray>>

-----------------------------------------------------------------------------
Init ==
  /\ pc = "loop"
  /\ pending = <<>>
  /\ deadline = 0
  /\ nextId = 1
  /\ tasks = {}
  /\ label \in {[i \in Id |-> l] : l \in Label}
  /\ run = [i \in Id |-> 0]
  /\ hasProc = [i \in Id |-> FALSE]
  /\ graveyard = {}
  /\ flagship = None
  /\ armed = FALSE
  /\ finished = [r \in Run |-> FALSE]
  /\ termAge = [r \in Run |-> -1]
  /\ killSent = [r \in Run |-> FALSE]
  /\ reaped = [r \in Run |-> FALSE]
  /\ pidOf = [g \in Group |-> NoPid]
  /\ leader = [g \in Group |-> "unborn"]
  /\ kids = [g \in Group |-> FALSE]
  /\ doomed = [g \in Group |-> FALSE]
  /\ stray = FALSE

Command ==
  \/ Spawn
  \/ Refuse
  \/ \E i \in Id : Kill(i) \/ Remove(i) \/ RestartRefused(i) \/ RestartFails(i) \/ Restart(i)
  \/ \E l \in Lost : SpawnOrphans(l) \/ \E i \in Id : RestartOrphans(i, l)
  \/ \E i \in {None} \cup Id : Flagship(i)
  \/ \E i \in Id, l \in Label : Relabel(i, l)
  \/ \E recipe \in Recipes : Load(recipe)
  \/ Shutdown

Loading ==
  \/ LoadSkips \/ LoadStopped \/ LoadLive \/ LoadDone
  \/ \E l \in Lost : LoadOrphans(l)

Core ==
  \/ Loading
  \/ \E miss \in SUBSET (Current \cup graveyard) : Tick(miss) \/ ShutdownReap(miss)
  \/ MaybeWriteRecovery
  \/ ShutdownClear
  \/ FatalAccept

Kernel ==
  \/ Elapse
  \/ \E g \in Child : LeaderExits(g) \/ InitReaps(g)
  \/ \E r \in Run : Forks(r) \/ KidsExit(r)
  \/ \E f \in Foreign : ForeignStarts(f) \/ ForeignEnds(f)

Next == Command \/ Core \/ Kernel

Spec == Init /\ [][Next]_vars

(* The loop ticks at least every FALLBACK (core.rs) or IDLE_REAP           *)
(* (daemon.rs) however many commands come in between, time passes, and a   *)
(* process that was KILLed dies.                                           *)
Fairness ==
  /\ WF_vars(Loading) /\ WF_vars(MaybeWriteRecovery) /\ WF_vars(ShutdownClear)
  /\ SF_vars(Tick({})) /\ SF_vars(ShutdownReap({}))
  /\ WF_vars(Elapse)
  /\ \A r \in Run : /\ WF_vars(doomed[r] /\ (LeaderExits(r) \/ KidsExit(r)))
                    /\ WF_vars(InitReaps(r))

FairSpec == Spec /\ Fairness
-----------------------------------------------------------------------------
(* Properties.                                                             *)

\* A TERM or KILL meant for a run never reaches another group, although the
\* kernel reuses PIDs: the zombie left by poll_exit and the "reaped" guards
\* of terminate and force_kill keep the group ID reserved while it is a target.
NoStraySignal == ~stray

\* Until the core stops, every run that a row was given and that still has a
\* leader is held by exactly one place, a row or the graveyard: remove, rerun
\* and load never lose a run, and never hold one twice. It says nothing of the
\* child of a launch that fails behind the fork (Lost), which no row is given and
\* nothing ever signals or collects.
EveryRunHeld ==
  /\ pc # "stopped" =>
       \A r \in Run : leader[r] \in {"alive", "zombie"} => r \in Current \cup graveyard
  /\ Current \cap graveyard = {}

\* No process of a run that a row was given outlives the collection of its
\* leader, or the core, without having been sent KILL. Processes of a launch that
\* fails behind the fork (Lost) outlive the core.
NoSurvivors ==
  \A r \in Run : InUse(r) /\ (leader[r] = "gone" \/ pc = "stopped") => doomed[r]

\* A group is sent KILL only a whole grace after it was sent TERM, in a reap
\* and in the drop that ends a shutdown alike. The exception is the fleet that
\* is dropped because the listener failed.
GraceRespected ==
  [][\A r \in Run : doomed'[r] /\ ~doomed[r] =>
       termAge[r] = Grace \/ (pc = "loop" /\ pc' = "stopped")]_vars

\* The flagship mark stays on the run it was placed on: no step gives the
\* marked row another run and leaves the mark (rerun, after an exit no reap
\* has seen).
FlagshipStaysWithRun ==
  [][\A i \in Id : flagship = i /\ flagship' = i /\ i \in tasks /\ i \in tasks'
       => run'[i] = run[i] /\ hasProc'[i] = hasProc[i]]_vars

\* Whenever a snapshot is taken, the mark is on a row with a live process.
SnapshotFlagshipLive ==
  pc = "write" /\ flagship # None =>
    flagship \in tasks /\ hasProc[flagship] /\ ~finished[RunOf(flagship)]

FlagshipHolds == []SnapshotFlagshipLive /\ FlagshipStaysWithRun

\* What session_config would store of a row, but for the agent's session ID.
Stopped(i) == ~hasProc[i] \/ finished[RunOf(i)]
RecipeNow == [i \in tasks |-> <<label[i], flagship = i, Stopped(i)>>]

\* Every step of a running core that changes the recipe leaves a recovery
\* write armed: commands arm it in apply, exits and cleared marks in reap.
RecipeChangeArms ==
  [][RecipeNow' # RecipeNow => armed' \/ pc' = "stopped"]_vars

\* A removed or displaced run leaves the graveyard: TERM, grace, KILL and
\* collection all happen without a client asking again. A shutdown ends, and
\* then nothing that a row was ever given is left running.
RunsEnd ==
  /\ \A r \in Run : r \in graveyard ~> r \notin graveyard
  /\ pc = "shutdown" ~> (pc = "stopped" /\ \A r \in Run : ~InUse(r))
-----------------------------------------------------------------------------
(* The strengthening that makes the signal properties inductive.           *)

\* No two groups that exist share an ID.
PidsReserved ==
  \A g, h \in Group : InUse(g) /\ InUse(h) /\ pidOf[g] = pidOf[h] => g = h

\* Groups that do not exist yet have no members; only those of runs have several.
NoEarlyKids == \A g \in Group : leader[g] = "unborn" \/ g \notin Run => ~kids[g]

\* IDs and run numbers not handed out yet name nothing.
Fresh ==
  /\ \A i \in Id, n \in 0 .. MaxRun :
       i >= nextId \/ n > run[i] => leader[<<i, n>>] = "unborn"
  /\ \A i \in Id : i >= nextId => ~hasProc[i] /\ run[i] = 0

\* Whoever is held is still there, and has not been reaped.
HeldIsUnreaped ==
  \A r \in Current \cup graveyard : leader[r] \in {"alive", "zombie"} /\ ~reaped[r]

\* A run no process was started for carries no trace of one.
UnbornIsClean ==
  \A r \in Run : leader[r] = "unborn" => termAge[r] = -1 /\ ~doomed[r] /\ ~reaped[r]

\* KILL was sent where it was noted, and what was retired was sent TERM.
SignalsNoted ==
  /\ \A r \in Run : killSent[r] => doomed[r]
  /\ \A r \in graveyard : termAge[r] >= 0

\* While shutdown waits, no timer is behind its deadline.
TimersCoverDeadline ==
  pc = "shutdown" =>
    \A r \in Current \cup graveyard : termAge[r] >= 0 /\ termAge[r] + deadline >= Grace

\* A stopped core holds nothing.
StoppedIsEmpty == pc = "stopped" => tasks = {} /\ graveyard = {}

\* A leader is collected only from a group that was sent KILL.
GoneIsDoomed == \A r \in Run : leader[r] = "gone" => doomed[r]

SignalInv ==
  /\ NoStraySignal /\ EveryRunHeld /\ NoSurvivors
  /\ PidsReserved /\ NoEarlyKids /\ Fresh /\ HeldIsUnreaped /\ UnbornIsClean
  /\ SignalsNoted /\ TimersCoverDeadline /\ StoppedIsEmpty /\ GoneIsDoomed

\* What the row properties rest on besides: a load arms when it begins, and no pass
\* of maybe_write_recovery comes in between its entries.
LoadIsArmed == pc = "load" => armed

RowInv == SnapshotFlagshipLive /\ LoadIsArmed

-----------------------------------------------------------------------------
(* The refinement: what the kernel saw of each run.                        *)

Fleet == INSTANCE FleetLife WITH
  started   <- {r \in Run : leader[r] # "unborn"},
  asked     <- {r \in Run : termAge[r] >= 0},
  killed    <- {r \in Run : doomed[r]},
  collected <- {r \in Run : leader[r] = "gone"},
  over      <- pc = "stopped"

\* The supervisor keeps the promise of FleetLife: TERM, then KILL, then
\* collection for every run, on every path that can end one.
FleetSafe == Fleet!SafeSpec
FleetPromise == Fleet!Promise
=============================================================================
