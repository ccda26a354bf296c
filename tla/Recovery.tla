-------------------------------- MODULE Recovery --------------------------------
(***************************************************************************)
(* When one daemon, Me, saves its snapshot: the recovery state of the      *)
(* supervisor and maybe_write_recovery (supervisor.rs), over the shared    *)
(* directories of Snapshots, where other daemons save and prune as well.   *)
(* The core is one thread, so the recipe stands still while it saves,      *)
(* except for session IDs, which agents write on their own.                *)
(***************************************************************************)
EXTENDS Snapshots, Dates

CONSTANTS Me, NoTasks,         \* NoTasks: the recipe of a fleet without tasks
          Theirs,            \* bound: the roots in which other daemons save
          Debounce, Cadence  \* in units of Elapse

ASSUME RecoveryAssumption ==
  /\ Me \in Writer \ Old /\ NoTasks \notin Recipe \cup {None, Torn} /\ Theirs \subseteq Root
  /\ Debounce \in Nat \ {0} /\ Cadence \in Nat /\ Debounce <= Cadence

Never == -1

VARIABLES
  recipe,    \* session_config, as it would be now
  root,      \* sessions_root of the launch context
  mutation,  \* last_mutation: its age, or Never
  cadence,   \* age of last_cadence
  written,   \* last_written: root and recipe of the last save
  quiet,     \* history: nothing but what arms a pass changed since the last one
  lag        \* history: how long a recipe that could be saved has not been

coreVars == <<recipe, root, mutation, cadence, written>>
recoveryVars == <<snapVars, coreVars, quiet, lag>>

RecoveryTypeOK ==
  /\ SnapTypeOK
  /\ recipe \in Recipe \cup {NoTasks} /\ root \in Root \cup {None}
  /\ mutation \in Never .. Debounce /\ cadence \in 0 .. Cadence
  /\ written \in [root : Root, recipe : Recipe] \cup {None}
  /\ quiet \in BOOLEAN /\ lag \in Nat

\* The client could lose the recipe: it is not on disk, and could be.
Unsaved == status[Me] = "live" /\ root # None /\ recipe # NoTasks /\ disk[root][Me] # recipe
Lag(n) == lag' = IF Unsaved' THEN n ELSE 0

-----------------------------------------------------------------------------
(* What changes the recipe, and what changes where it is saved.            *)

Idle == status[Me] = "live" /\ pc[Me] = "idle"

\* Mutant: what arms the debounce puts off the cadence too.
ArmsAfresh(c) ==
  /\ Idle /\ recipe' = c /\ mutation' = 0 /\ cadence' = 0
  /\ UNCHANGED <<snapVars, root, written, quiet>> /\ Lag(lag)

\* A command of affects_recipe, whether or not it changes anything, or an exit
\* that reap notes.
Arms(c) ==
  /\ Idle /\ recipe' = c /\ mutation' = 0
  /\ UNCHANGED <<snapVars, root, cadence, written, quiet>> /\ Lag(lag)

\* An agent writes a new session ID.
Captures(c) ==
  /\ status[Me] = "live" /\ recipe # NoTasks /\ c # recipe
  /\ recipe' = c /\ quiet' = FALSE
  /\ UNCHANGED <<snapVars, root, mutation, cadence, written>> /\ Lag(lag)

\* A client of another environment attaches: set_launch_context.
Reconnects(r) ==
  /\ Idle /\ r # root
  /\ root' = r /\ quiet' = FALSE
  /\ UNCHANGED <<snapVars, recipe, mutation, cadence, written>> /\ Lag(lag)

RemovedByHand(r) ==
  /\ Idle /\ disk[r][Me] # None
  /\ disk' = [disk EXCEPT ![r][Me] = None] /\ saved' = [saved EXCEPT ![r][Me] = None]
  /\ quiet' = FALSE
  /\ UNCHANGED <<status, writerVars, coreVars>> /\ Lag(lag)

-----------------------------------------------------------------------------
(* maybe_write_recovery.                                                   *)

DebounceDue == mutation = Debounce
CadenceDue == cadence = Cadence
Due == Idle /\ (DebounceDue \/ CadenceDue)

\* Mutant: a save into another root counts.
DuplicateAnywhere ==
  /\ written # None /\ written.recipe = recipe
  /\ disk[written.root][Me] # None

\* The fingerprint of the last save, in this root, and its file still there.
Duplicate ==
  /\ written = [root |-> root, recipe |-> recipe]
  /\ disk[root][Me] # None

\* Mutant: a fleet that was emptied replaces its snapshot.
SkipsDuplicates == root = None \/ Duplicate

Skips == recipe = NoTasks \/ root = None \/ Duplicate

PassBegins ==
  /\ Due
  /\ cadence' = IF CadenceDue THEN 0 ELSE cadence
  /\ mutation' = Never /\ quiet' = TRUE

Passes ==
  /\ PassBegins
  /\ IF Skips THEN UNCHANGED snapVars ELSE OpenTemp(Me, root, recipe)
  /\ UNCHANGED <<recipe, root, written, lag>>

PassFails ==
  /\ SaveFails(Me)
  /\ quiet' = FALSE /\ lag' = 0
  /\ UNCHANGED coreVars

\* last_written is set when save_recovery_in returns; nothing reads it before.
PassSaves ==
  /\ Rename(Me)
  /\ written' = job[Me] /\ lag' = 0
  /\ UNCHANGED <<recipe, root, mutation, cadence, quiet>>

\* The loop ticks, or looks after recovery between clients, far more often than
\* either interval: a pass that is due is not put off.
Elapse ==
  /\ ~Due /\ Idle
  /\ mutation' = IF mutation \in {Never, Debounce} THEN mutation ELSE mutation + 1
  /\ cadence' = IF cadence = Cadence THEN cadence ELSE cadence + 1
  /\ UNCHANGED <<snapVars, recipe, root, written, quiet>> /\ Lag(lag + 1)

-----------------------------------------------------------------------------
RecoveryInit ==
  /\ SnapInit
  /\ recipe = NoTasks /\ root = None /\ mutation = Never /\ cadence = 0 /\ written = None
  /\ quiet = TRUE /\ lag = 0

\* Another daemon: what it saves, and when, does not matter here.
Other(w) ==
  \/ \E r \in Theirs, c \in Recipe : OpenTemp(w, r, c)
  \/ SaveFails(w) \/ Rename(w)

Core ==
  \/ \E c \in Recipe \cup {NoTasks} : Arms(c)
  \/ \E c \in Recipe : Captures(c)
  \/ \E r \in Root \cup {None} : Reconnects(r)
  \/ \E r \in Root : RemovedByHand(r)
  \/ Passes \/ PassFails \/ PassSaves \/ Elapse

Directory ==
  /\ \E w \in Writer :
       \/ Start(w) \/ Dies(w) \/ Prunes(w)
       \/ w # Me /\ Other(w)
  /\ UNCHANGED <<coreVars, quiet>> /\ Lag(lag)

RecoveryNext == Core \/ Directory

RecoverySpec == RecoveryInit /\ [][RecoveryNext]_recoveryVars
-----------------------------------------------------------------------------
(* Properties.                                                             *)

\* Once no pass is pending, and nothing happened that arms none (a new session ID,
\* another root, a file removed by hand, a failed write), the recipe is on disk.
QuietIsSaved ==
  Idle /\ mutation = Never /\ quiet /\ recipe # NoTasks /\ root # None
    => disk[root][Me] = recipe

\* Changes that arm nothing and changes that never pause are saved within a
\* cadence as well, unless a write fails: a crash loses no more than that.
BoundedLoss == lag <= Cadence

RecipeIsSaved == QuietIsSaved /\ BoundedLoss

\* What is kept is the newest, as the order of stems is that of the starts.
NewestKept == SnapshotsKept /\ ((\E r \in Root, w \in Writer : disk[r][w] # None) => StemsAscend)

-----------------------------------------------------------------------------
(* The strengthening that makes RecipeIsSaved inductive.                   *)

\* What last_written says is on disk is that, or nothing is.
WrittenStands ==
  written # None => disk[written.root][Me] \in {written.recipe, None}

\* A pass that was not disturbed saves, or has saved, the recipe as it is.
PassInv ==
  /\ status[Me] = "new" => recipe = NoTasks
  /\ status[Me] = "live" =>
       /\ pc[Me] # "idle" => mutation = Never
       /\ pc[Me] = "temp" => job[Me].root = root /\ (quiet => job[Me].recipe = recipe)
       /\ quiet /\ mutation = Never /\ pc[Me] # "temp" /\ recipe # NoTasks /\ root # None
            => disk[root][Me] = recipe

\* The lag began after the last cadence, unless that one's pass is writing.
LagInv ==
  /\ lag # 0 => Unsaved
  /\ lag <= Cadence
  /\ pc[Me] = "idle" => lag <= cadence
  /\ pc[Me] \in {"list", "prune"} => lag = 0

RecoveryInv == WritersInv /\ PruneInv /\ WrittenStands /\ PassInv /\ LagInv
=============================================================================
