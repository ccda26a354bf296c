------------------------------- MODULE Autostart -------------------------------
(***************************************************************************)
(* How clients find the daemon, or start one (connect_or_autostart_in,     *)
(* daemon.rs), over the lock file and the socket path of DaemonLock. The   *)
(* handshake that follows is Wire's.                                       *)
(***************************************************************************)
EXTENDS DaemonLock

CONSTANT Client

VARIABLES
  cpc,     \* how far a client got; one that failed may try again
  peer,    \* the daemon a client is connected to
  started  \* daemons that clients have started

autoVars == <<cpc, peer, started>>

AutoTypeOK ==
  /\ cpc \in [Client -> {"idle", "waiting", "connected"}]
  /\ peer \in [Client -> Daemon \cup {Nobody}]
  /\ started \subseteq Daemon

CGoes(c, from, to) == cpc[c] = from /\ cpc' = [cpc EXCEPT ![c] = to]

\* A listener is open from bind to its drop; the path leads to it until it is unlinked.
Listening(d) == socket = d /\ dpc[d] \in {"bound", "serving", "stopping"}

\* The first attempt, and each of the 100 polls.
Connect(c) ==
  /\ CGoes(c, "idle", "connected") \/ CGoes(c, "waiting", "connected")
  /\ \E d \in Daemon : Listening(d) /\ peer' = [peer EXCEPT ![c] = d]
  /\ UNCHANGED <<started, vars>>

\* Mutant: a socket that refuses is taken for a stale one.
SpawnUnlinking(c) ==
  /\ CGoes(c, "idle", "waiting")
  /\ \E d \in Daemon \ started : started' = started \cup {d}
  /\ socket' = Nobody
  /\ UNCHANGED <<peer, dpc, kpc, lock, content, fleet, term, crashed, aim, found>>

\* A connect may fail although a daemon is listening: its backlog is full. The path is
\* left alone.
Spawn(c) ==
  /\ CGoes(c, "idle", "waiting")
  /\ \E d \in Daemon \ started : started' = started \cup {d}
  /\ UNCHANGED <<peer, vars>>

\* After one second: its daemon is slow, has failed, or found the lock held by a daemon
\* on its way out or by a --kill run.
TimesOut(c) == CGoes(c, "waiting", "idle") /\ UNCHANGED <<peer, started, vars>>

\* The user leaves, or the daemon has closed the connection.
Leave(c) ==
  /\ CGoes(c, "connected", "idle")
  /\ peer' = [peer EXCEPT ![c] = Nobody]
  /\ UNCHANGED <<started, vars>>

-----------------------------------------------------------------------------
AutoInit ==
  /\ Init
  /\ cpc = [c \in Client |-> "idle"] /\ peer = [c \in Client |-> Nobody] /\ started = {}

ClientStep(c) == Connect(c) \/ Spawn(c) \/ TimesOut(c) \/ Leave(c)

\* Daemons are started by clients.
ProcessStep ==
  /\ \/ \E d \in Daemon : DaemonStep(d) /\ (dpc[d] = "off" => d \in started)
     \/ \E k \in Killer : KillerStep(k)
  /\ UNCHANGED autoVars

AutoNext == (\E c \in Client : ClientStep(c)) \/ ProcessStep

AutoSpec == AutoInit /\ [][AutoNext]_<<vars, autoVars>>
FairAutoSpec == AutoSpec /\ Fairness
-----------------------------------------------------------------------------
(* Properties.                                                             *)

\* Whoever is connected is connected to the holder of the lock, until that one is gone,
\* so that two clients are never with two daemons.
PeerHoldsLock ==
  \A c \in Client : cpc[c] = "connected" => lock = peer[c] \/ dpc[peer[c]] = "gone"

\* Clients that race each other, stale sockets, full backlogs and daemons that come and
\* go all find one daemon: starting another one is safe (connect_or_autostart_in), and the
\* one that serves stays at the path and in the lock file.
OneDaemon == Advertised /\ PeerHoldsLock
=============================================================================
