------------------------------- MODULE Snapshots -------------------------------
(***************************************************************************)
(* The recovery directories: daemons ("writers") that save their snapshot  *)
(* there and prune what dead ones left (save_recovery_in, write_atomic and *)
(* prune_recovery of session.rs). A writer is the rank of its file stem    *)
(* <start>-<pid> in lexical order. Writers share nothing but the files,    *)
(* and may die between any two system calls.                               *)
(***************************************************************************)
EXTENDS Integers, FiniteSets

CONSTANTS Writer,        \* stems
          Old, Running,  \* those whose writers are dead, or alive, at the start
          Root,          \* session roots, one recovery directory in each
          Recipe, Torn, None,
          Keep           \* RECOVERY_KEEP

ASSUME SnapshotsAssumption ==
  /\ Writer \subseteq Nat /\ IsFiniteSet(Writer) /\ Old \subseteq Writer
  /\ Running \subseteq Writer \ Old
  /\ None \notin Recipe \cup Root \cup [root : Root, recipe : Recipe]
  /\ Torn \notin Recipe /\ None # Torn
  /\ Keep \in Nat \ {0}

VARIABLES
  status,  \* of each writer's process: "new", "live" or "dead"
  pc,      \* of each writer: "idle", "temp", "list", "prune"
  job,     \* what it saves, and where
  doomed,  \* what its prune has still to remove
  disk,    \* for each root and stem: the contents of the snapshot, or None
  saved    \* history: what was last saved under that stem

dirVars == <<disk, saved>>
writerVars == <<pc, job, doomed>>
snapVars == <<status, writerVars, dirVars>>

SnapTypeOK ==
  /\ status \in [Writer -> {"new", "live", "dead"}]
  /\ pc \in [Writer -> {"idle", "temp", "list", "prune"}]
  /\ job \in [Writer -> [root : Root, recipe : Recipe] \cup {None}]
  /\ doomed \in [Writer -> SUBSET Writer]
  /\ disk \in [Root -> [Writer -> Recipe \cup {None, Torn}]]
  /\ saved \in [Root -> [Writer -> Recipe \cup {None}]]

-----------------------------------------------------------------------------
(* Processes.                                                              *)

Start(w) ==
  /\ status[w] = "new"
  /\ status' = [status EXCEPT ![w] = "live"]
  /\ UNCHANGED <<writerVars, dirVars>>

\* Quitting, --kill and a crash are the same here: teardown neither writes nor
\* deletes snapshots.
Dies(w) ==
  /\ status[w] = "live"
  /\ status' = [status EXCEPT ![w] = "dead"]
  /\ pc' = [pc EXCEPT ![w] = "idle"]
  /\ job' = [job EXCEPT ![w] = None] /\ doomed' = [doomed EXCEPT ![w] = {}]
  /\ UNCHANGED <<dirVars>>

-----------------------------------------------------------------------------
(* save_recovery_in.                                                       *)

\* Mutant: the target is written in place.
OpenTarget(w, r, c) ==
  /\ status[w] = "live" /\ pc[w] = "idle"
  /\ pc' = [pc EXCEPT ![w] = "temp"]
  /\ job' = [job EXCEPT ![w] = [root |-> r, recipe |-> c]]
  /\ disk' = [disk EXCEPT ![r][w] = Torn]
  /\ UNCHANGED <<status, doomed, saved>>

\* The temporary file of write_atomic. Nothing lists or loads it.
OpenTemp(w, r, c) ==
  /\ status[w] = "live" /\ pc[w] = "idle"
  /\ pc' = [pc EXCEPT ![w] = "temp"]
  /\ job' = [job EXCEPT ![w] = [root |-> r, recipe |-> c]]
  /\ UNCHANGED <<status, doomed, dirVars>>

\* Opening, writing, syncing or renaming fails: the temporary file is removed.
SaveFails(w) ==
  /\ pc[w] = "temp"
  /\ pc' = [pc EXCEPT ![w] = "idle"] /\ job' = [job EXCEPT ![w] = None]
  /\ UNCHANGED <<status, doomed, dirVars>>

Rename(w) ==
  /\ pc[w] = "temp"
  /\ pc' = [pc EXCEPT ![w] = "list"]
  /\ disk' = [disk EXCEPT ![job[w].root][w] = job[w].recipe]
  /\ saved' = [saved EXCEPT ![job[w].root][w] = job[w].recipe]
  /\ UNCHANGED <<status, job, doomed>>

-----------------------------------------------------------------------------
(* prune_recovery.                                                         *)

\* Mutant: only the snapshot that was just written is protected.
UnprotectedAll(w, reused) == {v \in Writer \ {w} : disk[job[w].root][v] # None}

\* stem_names_live_writer: a PID names its writer or, once that is dead, perhaps
\* another process (reused).
Unprotected(w, reused) ==
  {v \in Writer \ {w} :
     disk[job[w].root][v] # None /\ status[v] # "live" /\ v \notin reused}

\* Mutant: one fewer is kept.
OutrankedByOne(S) == {v \in S : Cardinality({u \in S : u > v}) >= Keep - 2}

\* All but the lexically greatest Keep - 1.
Outranked(S) == {v \in S : Cardinality({u \in S : u > v}) >= Keep - 1}

\* The listing, and the look at each PID.
List(w) ==
  /\ pc[w] = "list"
  /\ pc' = [pc EXCEPT ![w] = "prune"]
  /\ \E reused \in SUBSET Writer :
       doomed' = [doomed EXCEPT ![w] = Outranked(Unprotected(w, reused))]
  /\ UNCHANGED <<status, job, dirVars>>

\* Files go in ascending order; one that is gone already is no error, and one
\* that cannot be removed stays.
Remove(w) ==
  /\ pc[w] = "prune"
  /\ \E v \in doomed[w] :
       /\ \A u \in doomed[w] : v <= u
       /\ doomed' = [doomed EXCEPT ![w] = @ \ {v}]
       /\ disk' \in {disk, [disk EXCEPT ![job[w].root][v] = None]}
  /\ UNCHANGED <<status, pc, job, saved>>

Pruned(w) ==
  /\ pc[w] = "prune" /\ doomed[w] = {}
  /\ pc' = [pc EXCEPT ![w] = "idle"] /\ job' = [job EXCEPT ![w] = None]
  /\ UNCHANGED <<status, doomed, dirVars>>

Prunes(w) == List(w) \/ Remove(w) \/ Pruned(w)

-----------------------------------------------------------------------------
SnapInit ==
  /\ status = [w \in Writer |-> CASE w \in Old -> "dead" [] w \in Running -> "live" [] OTHER -> "new"]
  /\ pc = [w \in Writer |-> "idle"] /\ job = [w \in Writer |-> None]
  /\ doomed = [w \in Writer |-> {}]
  /\ disk \in {[r \in Root |-> [w \in Writer |-> IF w \in Old THEN c ELSE None]] : c \in Recipe}
  /\ saved = disk

-----------------------------------------------------------------------------
(* Properties.                                                             *)

\* Whatever crashes or fails, a snapshot on disk is what its writer last saved
\* completely; only the snapshots of dead writers are pruned and, however many
\* writers prune at once, each from its own listing, only when they are outranked
\* by Keep - 1 that are still there.
SnapshotsKept ==
  \A r \in Root, w \in Writer :
    \/ disk[r][w] = saved[r][w]
    \/ /\ status[w] = "dead" /\ disk[r][w] = None
       /\ Cardinality({v \in Writer : v > w /\ disk[r][v] # None}) >= Keep - 1

-----------------------------------------------------------------------------
(* The strengthening that makes SnapshotsKept inductive: a snapshot is     *)
(* outranked by ones of dead writers, which stay dead, and a prune takes   *)
(* from below.                                                             *)

Heirs(r, w) == {v \in Writer : v > w /\ status[v] = "dead" /\ disk[r][v] # None}
Outlived(r, w) == Cardinality(Heirs(r, w)) >= Keep - 1

WritersInv ==
  /\ \A w \in Writer : status[w] # "live" => pc[w] = "idle"
  /\ \A w \in Writer : pc[w] # "idle" => job[w] \in [root : Root, recipe : Recipe]
  /\ \A w \in Writer : pc[w] # "prune" => doomed[w] = {}

PruneInv ==
  /\ \A r \in Root, w \in Writer : status[w] = "new" => disk[r][w] = None
  /\ \A w \in Writer : \A v \in doomed[w] : status[v] = "dead" /\ Outlived(job[w].root, v)
  /\ \A r \in Root, w \in Writer :
       disk[r][w] = saved[r][w] \/ (status[w] = "dead" /\ disk[r][w] = None /\ Outlived(r, w))
=============================================================================
