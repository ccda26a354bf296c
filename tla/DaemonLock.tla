------------------------------ MODULE DaemonLock ------------------------------
(***************************************************************************)
(* Which daemon is the daemon: the lock file with its flock and its PID,   *)
(* and the socket path, shared by daemons that are started (possibly by    *)
(* several clients at once), stopped, signalled or crash, and by runs of   *)
(* "fleetcom --kill" (daemon.rs). Every step is one system call; a PID is  *)
(* named by the process it belonged to.                                    *)
(***************************************************************************)
EXTENDS FiniteSets

CONSTANTS Daemon,   \* processes started with --daemon
          Killer,   \* runs of --kill
          Nobody, Absent, Empty

ASSUME DaemonLockAssumption ==
  /\ Daemon \cap Killer = {}
  /\ {Nobody, Absent, Empty} \cap (Daemon \cup Killer) = {}
  /\ Nobody # Absent /\ Absent # Empty /\ Nobody # Empty

VARIABLES
  dpc,      \* how far a daemon got
  kpc,      \* how far a run of --kill got
  lock,     \* holder of the flock
  content,  \* what the lock file holds: Absent, Empty, or a PID
  socket,   \* the daemon whose socket is at the path, bound or stale
  fleet,    \* the daemon has a fleet that was not taken down
  term,     \* the daemon's signal flag
  crashed,  \* the daemon died without running its cleanup
  aim,      \* the PID a --kill run read
  found     \* history: who held the lock when a --kill run probed it

vars == <<dpc, kpc, lock, content, socket, fleet, term, crashed, aim, found>>

Live == {"opened", "locked", "truncated", "published", "unlinked", "bound", "serving",
         "stopping", "closing", "dropped"}

TypeOK ==
  /\ dpc \in [Daemon -> Live \cup {"off", "gone"}]
  /\ kpc \in [Killer -> {"idle", "holding", "probed", "aimed", "polling", "nodaemon", "done",
                         "failed"}]
  /\ lock \in Daemon \cup Killer \cup {Nobody}
  /\ content \in Daemon \cup {Absent, Empty}
  /\ socket \in Daemon \cup {Nobody}
  /\ fleet \in [Daemon -> BOOLEAN]
  /\ term \in [Daemon -> BOOLEAN]
  /\ crashed \in [Daemon -> BOOLEAN]
  /\ aim \in [Killer -> Daemon \cup {Nobody}]
  /\ found \in [Killer -> Daemon \cup Killer \cup {Nobody}]

-----------------------------------------------------------------------------
(* run_daemon, in the order of its system calls.                           *)

Goes(d, from, to) == dpc[d] = from /\ dpc' = [dpc EXCEPT ![d] = to]

\* Dying releases the flock.
Released(d) == lock' = IF lock = d THEN Nobody ELSE lock

\* Mutant: the lock file is opened with truncation.
OpenTruncating(d) ==
  /\ Goes(d, "off", "opened")
  /\ content' = Empty
  /\ UNCHANGED <<kpc, lock, socket, fleet, term, crashed, aim, found>>

\* Autostart starts a daemon only when a connect fails, which a full backlog
\* can cause as well: one may be started at any time.
OpenLock(d) ==
  /\ Goes(d, "off", "opened")
  /\ content' = IF content = Absent THEN Empty ELSE content
  /\ UNCHANGED <<kpc, lock, socket, fleet, term, crashed, aim, found>>

Acquire(d) ==
  /\ Goes(d, "opened", "locked")
  /\ lock = Nobody /\ lock' = d
  /\ UNCHANGED <<kpc, content, socket, fleet, term, crashed, aim, found>>

\* Whoever holds the lock, a daemon that cannot have it exits quietly.
Refused(d) ==
  /\ Goes(d, "opened", "gone")
  /\ lock # Nobody
  /\ UNCHANGED <<kpc, lock, content, socket, fleet, term, crashed, aim, found>>

Truncate(d) ==
  /\ Goes(d, "locked", "truncated")
  /\ content' = Empty
  /\ UNCHANGED <<kpc, lock, socket, fleet, term, crashed, aim, found>>

Publish(d) ==
  /\ Goes(d, "truncated", "published")
  /\ content' = d
  /\ UNCHANGED <<kpc, lock, socket, fleet, term, crashed, aim, found>>

UnlinkStale(d) ==
  /\ Goes(d, "published", "unlinked")
  /\ socket' = Nobody
  /\ UNCHANGED <<kpc, lock, content, fleet, term, crashed, aim, found>>

Bind(d) ==
  /\ Goes(d, "unlinked", "bound")
  /\ socket = Nobody /\ socket' = d
  /\ UNCHANGED <<kpc, lock, content, fleet, term, crashed, aim, found>>

\* Any of the calls before the loop may fail and end the daemon.
StartFails(d) ==
  /\ dpc[d] \in {"locked", "truncated", "published", "unlinked", "bound"}
  /\ dpc' = [dpc EXCEPT ![d] = "gone"]
  /\ Released(d)
  /\ UNCHANGED <<kpc, content, socket, fleet, term, crashed, aim, found>>

\* Signal handlers are installed, and then the loop may take clients.
Serve(d) ==
  /\ Goes(d, "bound", "serving")
  /\ fleet' = [fleet EXCEPT ![d] = TRUE]
  /\ UNCHANGED <<kpc, lock, content, socket, term, crashed, aim, found>>

\* The flag or a client's Shutdown: shutdown_all takes the fleet down first.
ShutDown(d) ==
  /\ Goes(d, "serving", "stopping")
  /\ fleet' = [fleet EXCEPT ![d] = FALSE]
  /\ UNCHANGED <<kpc, lock, content, socket, term, crashed, aim, found>>

\* accept fails for good: the fleet is left to the drop of the supervisor.
AcceptFails(d) ==
  /\ Goes(d, "serving", "stopping")
  /\ UNCHANGED <<kpc, lock, content, socket, fleet, term, crashed, aim, found>>

RemoveSocket(d) ==
  /\ Goes(d, "stopping", "closing")
  /\ socket' = Nobody
  /\ UNCHANGED <<kpc, lock, content, fleet, term, crashed, aim, found>>

\* Mutant: the locals are dropped in the order they were declared.
DropLockFirst(d) ==
  /\ Goes(d, "closing", "dropped")
  /\ Released(d)
  /\ UNCHANGED <<kpc, content, socket, fleet, term, crashed, aim, found>>

\* The locals of run_daemon are dropped in reverse: supervisor, listener, lock.
DropSupervisor(d) ==
  /\ Goes(d, "closing", "dropped")
  /\ fleet' = [fleet EXCEPT ![d] = FALSE]
  /\ UNCHANGED <<kpc, lock, content, socket, term, crashed, aim, found>>

DropLock(d) ==
  /\ Goes(d, "dropped", "gone")
  /\ Released(d)
  /\ UNCHANGED <<kpc, content, socket, fleet, term, crashed, aim, found>>

\* SIGKILL or a crash: no cleanup, but the flock goes with the process.
Crash(d) ==
  /\ dpc[d] \in Live
  /\ dpc' = [dpc EXCEPT ![d] = "gone"]
  /\ crashed' = [crashed EXCEPT ![d] = TRUE]
  /\ Released(d)
  /\ UNCHANGED <<kpc, content, socket, fleet, term, aim, found>>

-----------------------------------------------------------------------------
(* run_kill_in.                                                            *)

KGoes(k, from, to) == kpc[k] = from /\ kpc' = [kpc EXCEPT ![k] = to]

NoLockFile(k) ==
  /\ KGoes(k, "idle", "nodaemon")
  /\ content = Absent
  /\ UNCHANGED <<dpc, lock, content, socket, fleet, term, crashed, aim, found>>

\* The probe: a flock that is granted means no daemon, and is dropped again.
ProbeGranted(k) ==
  /\ KGoes(k, "idle", "holding")
  /\ content # Absent /\ lock = Nobody /\ lock' = k
  /\ UNCHANGED <<dpc, content, socket, fleet, term, crashed, aim, found>>

ProbeDropped(k) ==
  /\ KGoes(k, "holding", IF aim[k] = Nobody THEN "nodaemon" ELSE "done")
  /\ Released(k)
  /\ UNCHANGED <<dpc, content, socket, fleet, term, crashed, aim, found>>

ProbeDenied(k) ==
  /\ KGoes(k, "idle", "probed")
  /\ content # Absent /\ lock # Nobody
  /\ found' = [found EXCEPT ![k] = lock]
  /\ UNCHANGED <<dpc, lock, content, socket, fleet, term, crashed, aim>>

\* An empty file is read again, up to 20 times.
ReadPid(k) ==
  /\ KGoes(k, "probed", "aimed")
  /\ content \in Daemon
  /\ aim' = [aim EXCEPT ![k] = content]
  /\ UNCHANGED <<dpc, lock, content, socket, fleet, term, crashed, found>>

GiveUpReading(k) ==
  /\ KGoes(k, "probed", "failed")
  /\ content = Empty
  /\ UNCHANGED <<dpc, lock, content, socket, fleet, term, crashed, aim, found>>

\* SIGTERM: a flag once the handlers are in, death before, ESRCH after.
Signal(k) ==
  /\ KGoes(k, "aimed", "polling")
  /\ LET d == aim[k]
         dies == dpc[d] \in Live /\ dpc[d] \notin {"serving", "stopping", "closing", "dropped"}
     IN /\ dpc' = [dpc EXCEPT ![d] = IF dies THEN "gone" ELSE @]
        /\ lock' = IF dies /\ lock = d THEN Nobody ELSE lock
        /\ term' = [term EXCEPT ![d] = @ \/ dpc[d] \in Live]
        /\ crashed' = [crashed EXCEPT ![d] = @ \/ dies]
  /\ UNCHANGED <<content, socket, fleet, aim, found>>

\* Mutant: the signal alone counts as success.
PollSignalOnly(k) ==
  /\ KGoes(k, "polling", "holding")
  /\ UNCHANGED <<dpc, lock, content, socket, fleet, term, crashed, aim, found>>

PollGranted(k) ==
  /\ KGoes(k, "polling", "holding")
  /\ lock = Nobody /\ lock' = k
  /\ UNCHANGED <<dpc, content, socket, fleet, term, crashed, aim, found>>

\* 200 polls are over.
GiveUpPolling(k) ==
  /\ KGoes(k, "polling", "failed")
  /\ lock # Nobody
  /\ UNCHANGED <<dpc, lock, content, socket, fleet, term, crashed, aim, found>>

-----------------------------------------------------------------------------
Init ==
  /\ dpc = [d \in Daemon |-> "off"]
  /\ kpc = [k \in Killer |-> "idle"]
  /\ lock = Nobody /\ content = Absent /\ socket = Nobody
  /\ fleet = [d \in Daemon |-> FALSE]
  /\ term = [d \in Daemon |-> FALSE]
  /\ crashed = [d \in Daemon |-> FALSE]
  /\ aim = [k \in Killer |-> Nobody]
  /\ found = [k \in Killer |-> Nobody]

Starting(d) ==
  \/ Acquire(d) \/ Refused(d) \/ Truncate(d) \/ Publish(d) \/ UnlinkStale(d) \/ Bind(d)
  \/ Serve(d)

\* Mutant: the flag is only looked at between clients, and a client stays.
StoppingWithoutFlag(d) == RemoveSocket(d) \/ DropSupervisor(d) \/ DropLock(d)

\* What a daemon whose flag is up still does.
Stopping(d) ==
  \/ ShutDown(d) /\ term[d]
  \/ RemoveSocket(d) \/ DropSupervisor(d) \/ DropLock(d)

DaemonStep(d) ==
  \/ OpenLock(d) \/ Starting(d) \/ StartFails(d) \/ ShutDown(d) \/ AcceptFails(d)
  \/ RemoveSocket(d) \/ DropSupervisor(d) \/ DropLock(d) \/ Crash(d)

KillerStep(k) ==
  \/ NoLockFile(k) \/ ProbeGranted(k) \/ ProbeDropped(k) \/ ProbeDenied(k) \/ ReadPid(k)
  \/ GiveUpReading(k) \/ Signal(k) \/ PollGranted(k) \/ GiveUpPolling(k)

Next == (\E d \in Daemon : DaemonStep(d)) \/ (\E k \in Killer : KillerStep(k))

Spec == Init /\ [][Next]_vars

\* Every process runs; the loop looks at its flag at least every FALLBACK.
Fairness ==
  /\ \A d \in Daemon : WF_vars(Starting(d)) /\ WF_vars(Stopping(d))
  /\ \A k \in Killer : WF_vars(KillerStep(k))

FairSpec == Spec /\ Fairness
-----------------------------------------------------------------------------
(* Properties.                                                             *)

\* A serving daemon is the one that clients find at the path and that a --kill
\* run reads from the lock file: neither a racing autostart nor a daemon on its
\* way out takes the path or the file from it.
Advertised ==
  \A d \in Daemon : dpc[d] = "serving" => socket = d /\ content = d /\ lock = d

\* Fleets do not overlap: while a fleet stands, its daemon holds the lock, so
\* the next daemon starts only after it was taken down. Crashes are the exception.
FleetUnderLock == \A d \in Daemon : fleet[d] /\ ~crashed[d] => lock = d

\* When --kill reports success, the daemon that it found is gone and, unless
\* that one crashed, its fleet was taken down.
KillMeansOver ==
  \A k \in Killer : kpc[k] = "done" /\ found[k] \in Daemon =>
    dpc[found[k]] = "gone" /\ (fleet[found[k]] => crashed[found[k]])

\* A daemon that was sent SIGTERM ends, wherever in its start it was hit.
TermEndsDaemon == \A d \in Daemon : term[d] ~> dpc[d] = "gone"

-----------------------------------------------------------------------------
(* The strengthening behind the safety properties.                         *)

Owner == {"locked", "truncated", "published", "unlinked", "bound", "serving", "stopping",
          "closing", "dropped"}

OwnersHoldLock == \A d \in Daemon : dpc[d] \in Owner <=> lock = d

KillersHoldLock == \A k \in Killer : kpc[k] = "holding" <=> lock = k

PidPublished ==
  \A d \in Daemon :
    dpc[d] \in Owner \ {"locked", "truncated"} => content = d

SocketBound ==
  \A d \in Daemon : dpc[d] \in {"bound", "serving", "stopping"} => socket = d

FleetStands ==
  \A d \in Daemon : fleet[d] /\ ~crashed[d] => dpc[d] \in {"serving", "stopping", "closing"}

\* A --kill run that could take the lock after its signal saw everyone it found leave.
FoundIsGone ==
  \A k \in Killer :
    /\ kpc[k] = "idle" => found[k] = Nobody
    /\ kpc[k] = "holding" /\ found[k] \in Daemon => dpc[found[k]] = "gone"
    /\ kpc[k] = "done" /\ found[k] \in Daemon => dpc[found[k]] = "gone"
    /\ found[k] \in Daemon => dpc[found[k]] \in Owner \cup {"gone"}

LockInv ==
  OwnersHoldLock /\ KillersHoldLock /\ PidPublished /\ SocketBound /\ FleetStands /\ FoundIsGone
=============================================================================
