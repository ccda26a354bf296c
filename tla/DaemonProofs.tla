---------------------------- MODULE DaemonProofs ----------------------------
(***************************************************************************)
(* Proofs about what daemons share outside their processes: DaemonLock for *)
(* any number of daemons and --kill runs, the clients of Autostart, which  *)
(* start daemons and find one, and the recovery snapshots of Recovery,     *)
(* with the dates that order them (Dates).                                 *)
(***************************************************************************)
EXTENDS Autostart, Recovery, FiniteSetTheorems, SequenceTheorems, TLAPS


\* Type correctness: every system call leaves the lock, the file, the path
\* and the processes well-typed.
THEOREM LockTypeCorrect == Spec => []TypeOK
<1>1. Init => TypeOK
  BY DEF Init, TypeOK, Live
<1>2. TypeOK /\ [Next]_vars => TypeOK'
  <2> SUFFICES ASSUME TypeOK, [Next]_vars PROVE TypeOK'
    OBVIOUS
  <2>1. CASE UNCHANGED vars
    BY <2>1 DEF vars, TypeOK
  <2>2. ASSUME NEW d \in Daemon, DaemonStep(d) PROVE TypeOK'
    <3>1. CASE OpenLock(d) \/ Starting(d)
      BY <3>1 DEF OpenLock, Starting, Acquire, Refused, Truncate, Publish, UnlinkStale, Bind, Serve,
         Goes, TypeOK, Live
    <3>2. CASE StartFails(d) \/ ShutDown(d) \/ AcceptFails(d) \/ RemoveSocket(d)
               \/ DropSupervisor(d) \/ DropLock(d) \/ Crash(d)
      BY <3>2 DEF StartFails, ShutDown, AcceptFails, RemoveSocket, DropSupervisor, DropLock, Crash,
         Released, Goes, TypeOK, Live
    <3> QED
      BY <2>2, <3>1, <3>2 DEF DaemonStep
  <2>3. ASSUME NEW k \in Killer, KillerStep(k) PROVE TypeOK'
    <3>1. CASE NoLockFile(k) \/ ProbeGranted(k) \/ ProbeDropped(k) \/ ProbeDenied(k)
      BY <3>1 DEF NoLockFile, ProbeGranted, ProbeDropped, ProbeDenied, KGoes, Released, TypeOK
    <3>2. CASE ReadPid(k) \/ GiveUpReading(k) \/ PollGranted(k) \/ GiveUpPolling(k)
      BY <3>2 DEF ReadPid, GiveUpReading, PollGranted, GiveUpPolling, KGoes, TypeOK
    <3>3. CASE Signal(k)
      BY <3>3 DEF Signal, KGoes, TypeOK
    <3> QED
      BY <2>3, <3>1, <3>2, <3>3 DEF KillerStep
  <2> QED
    BY <2>1, <2>2, <2>3 DEF Next
<1> QED
  BY <1>1, <1>2, PTL DEF Spec

LEMMA LockInit == Init => LockInv
BY DaemonLockAssumption DEF Init, LockInv, OwnersHoldLock, KillersHoldLock, PidPublished,
   SocketBound, FleetStands, FoundIsGone, Owner

\* A step of one daemon: it owns what it changes.
LEMMA DaemonKeeps ==
  ASSUME TypeOK, LockInv, NEW d \in Daemon, DaemonStep(d)
  PROVE  LockInv'
<1>1. \A e \in Daemon : e # d => dpc'[e] = dpc[e] /\ fleet'[e] = fleet[e] /\ crashed'[e] = crashed[e]
  BY DEF DaemonStep, Starting, OpenLock, Acquire, Refused, Truncate, Publish, UnlinkStale, Bind,
     Serve, StartFails, ShutDown, AcceptFails, RemoveSocket, DropSupervisor, DropLock, Crash, Goes,
     TypeOK
<1>2. UNCHANGED <<kpc, aim, found>>
  BY DEF DaemonStep, Starting, OpenLock, Acquire, Refused, Truncate, Publish, UnlinkStale, Bind,
     Serve, StartFails, ShutDown, AcceptFails, RemoveSocket, DropSupervisor, DropLock, Crash
<1>3. CASE OpenLock(d) \/ Refused(d)
  <2>1. /\ dpc' = [dpc EXCEPT ![d] = dpc'[d]] /\ dpc[d] \in {"off", "opened"}
        /\ dpc'[d] \in {"opened", "gone"}
        /\ (content' = content \/ content = Absent) /\ UNCHANGED <<lock, socket, fleet, crashed>>
    BY <1>3 DEF OpenLock, Refused, Goes, TypeOK
  <2>2. dpc[d] \notin Owner /\ dpc'[d] \notin Owner
    BY <2>1 DEF Owner
  <2>3. OwnersHoldLock' /\ KillersHoldLock'
    BY <1>1, <1>2, <2>1, <2>2 DEF LockInv, OwnersHoldLock, KillersHoldLock
  <2>4. PidPublished' /\ SocketBound' /\ FleetStands'
    BY <1>1, <2>1, <2>2, DaemonLockAssumption DEF LockInv, PidPublished, SocketBound, FleetStands, Owner
  <2>5. FoundIsGone'
    BY <1>1, <1>2, <2>1, <2>2 DEF LockInv, FoundIsGone, Owner
  <2> QED
    BY <2>3, <2>4, <2>5 DEF LockInv
<1>4. CASE Acquire(d)
  <2>1. /\ dpc[d] = "opened" /\ dpc'[d] = "locked" /\ lock = Nobody /\ lock' = d
        /\ UNCHANGED <<content, socket, fleet, crashed>>
    BY <1>4 DEF Acquire, Goes, TypeOK
  <2>2. \A e \in Daemon : e # d => dpc[e] \notin Owner
    BY <2>1, DaemonLockAssumption DEF LockInv, OwnersHoldLock
  <2>3. OwnersHoldLock' /\ KillersHoldLock'
    BY <1>1, <1>2, <2>1, <2>2, DaemonLockAssumption DEF LockInv, OwnersHoldLock, KillersHoldLock, Owner
  <2>4. PidPublished' /\ SocketBound' /\ FleetStands' /\ FoundIsGone'
    BY <1>1, <1>2, <2>1, <2>2 DEF LockInv, PidPublished, SocketBound, FleetStands, FoundIsGone, Owner
  <2> QED
    BY <2>3, <2>4 DEF LockInv
<1>5. CASE \/ Truncate(d) \/ Publish(d) \/ UnlinkStale(d) \/ Bind(d) \/ Serve(d)
           \/ ShutDown(d) \/ AcceptFails(d) \/ RemoveSocket(d) \/ DropSupervisor(d)
  <2>1. dpc[d] \in Owner /\ dpc'[d] \in Owner /\ lock' = lock /\ crashed' = crashed
    BY <1>5 DEF Truncate, Publish, UnlinkStale, Bind, Serve, ShutDown, AcceptFails, RemoveSocket,
       DropSupervisor, Goes, Owner, TypeOK
  <2>2. \A e \in Daemon : e # d => dpc[e] \notin Owner
    BY <2>1 DEF LockInv, OwnersHoldLock
  <2>3. OwnersHoldLock' /\ KillersHoldLock'
    BY <1>1, <1>2, <2>1 DEF LockInv, OwnersHoldLock, KillersHoldLock
  <2>4. PidPublished'
    BY <1>1, <1>5, <2>2
    DEF Truncate, Publish, UnlinkStale, Bind, Serve, ShutDown, AcceptFails, RemoveSocket,
        DropSupervisor, Goes, Owner, TypeOK, LockInv, PidPublished
  <2>5. SocketBound'
    BY <1>1, <1>5, <2>2
    DEF Truncate, Publish, UnlinkStale, Bind, Serve, ShutDown, AcceptFails, RemoveSocket,
        DropSupervisor, Goes, Owner, TypeOK, LockInv, SocketBound
  <2>6. FleetStands'
    BY <1>1, <1>5
    DEF Truncate, Publish, UnlinkStale, Bind, Serve, ShutDown, AcceptFails, RemoveSocket,
        DropSupervisor, Goes, TypeOK, LockInv, FleetStands
  <2>7. FoundIsGone'
    BY <1>1, <1>2, <2>1 DEF LockInv, FoundIsGone, Owner
  <2> QED
    BY <2>3, <2>4, <2>5, <2>6, <2>7 DEF LockInv
<1>6. CASE StartFails(d) \/ DropLock(d) \/ Crash(d)
  <2>1. /\ dpc[d] \in Owner \cup {"opened"} /\ dpc'[d] = "gone"
        /\ lock' = (IF lock = d THEN Nobody ELSE lock)
        /\ UNCHANGED <<content, socket, fleet>>
        /\ crashed'[d] \/ (dpc[d] \notin {"serving", "stopping", "closing"} /\ crashed'[d] = crashed[d])
    BY <1>6 DEF StartFails, DropLock, Crash, Released, Goes, Live, Owner, TypeOK
  <2>2. OwnersHoldLock'
    BY <1>1, <2>1, DaemonLockAssumption DEF LockInv, OwnersHoldLock, Owner
  <2>3. KillersHoldLock'
    BY <1>2, <2>1, DaemonLockAssumption DEF LockInv, KillersHoldLock
  <2>4. PidPublished' /\ SocketBound'
    BY <1>1, <2>1 DEF LockInv, PidPublished, SocketBound, Owner
  <2>5. FleetStands'
    BY <1>1, <2>1 DEF LockInv, FleetStands
  <2>6. FoundIsGone'
    BY <1>1, <1>2, <2>1 DEF LockInv, FoundIsGone, Owner
  <2> QED
    BY <2>2, <2>3, <2>4, <2>5, <2>6 DEF LockInv
<1> QED
  BY <1>3, <1>4, <1>5, <1>6 DEF DaemonStep, Starting

\* A step of a --kill run: it borrows a free lock, or signals.
LEMMA KillerKeeps ==
  ASSUME TypeOK, LockInv, NEW k \in Killer, KillerStep(k)
  PROVE  LockInv'
<1>1. \A j \in Killer : j # k => kpc'[j] = kpc[j] /\ found'[j] = found[j] /\ aim'[j] = aim[j]
  BY DEF KillerStep, NoLockFile, ProbeGranted, ProbeDropped, ProbeDenied, ReadPid, GiveUpReading,
     Signal, PollGranted, GiveUpPolling, KGoes, TypeOK
<1>2. UNCHANGED <<content, socket, fleet>>
  BY DEF KillerStep, NoLockFile, ProbeGranted, ProbeDropped, ProbeDenied, ReadPid, GiveUpReading,
     Signal, PollGranted, GiveUpPolling
<1>3. CASE NoLockFile(k) \/ ReadPid(k) \/ GiveUpReading(k) \/ GiveUpPolling(k)
  <2>1. /\ kpc[k] \notin {"holding", "done"} /\ kpc'[k] \in {"nodaemon", "aimed", "failed"}
        /\ UNCHANGED <<dpc, lock, crashed, found>>
    BY <1>3 DEF NoLockFile, ReadPid, GiveUpReading, GiveUpPolling, KGoes, TypeOK
  <2> QED
    BY <1>1, <1>2, <2>1 DEF LockInv, OwnersHoldLock, KillersHoldLock, PidPublished, SocketBound,
       FleetStands, FoundIsGone
<1>4. CASE ProbeDenied(k)
  <2>1. /\ kpc[k] = "idle" /\ kpc'[k] = "probed" /\ found'[k] = lock /\ lock # Nobody
        /\ UNCHANGED <<dpc, lock, crashed>>
    BY <1>4 DEF ProbeDenied, KGoes, TypeOK
  <2>2. OwnersHoldLock' /\ KillersHoldLock' /\ PidPublished' /\ SocketBound' /\ FleetStands'
    BY <1>1, <1>2, <2>1 DEF LockInv, OwnersHoldLock, KillersHoldLock, PidPublished, SocketBound,
       FleetStands
  <2>3. FoundIsGone'
    BY <1>1, <2>1 DEF LockInv, FoundIsGone, OwnersHoldLock
  <2> QED
    BY <2>2, <2>3 DEF LockInv
<1>5. CASE ProbeGranted(k) \/ PollGranted(k)
  <2>1. /\ kpc[k] \in {"idle", "polling"} /\ kpc'[k] = "holding" /\ lock = Nobody /\ lock' = k
        /\ UNCHANGED <<dpc, crashed, found>>
    BY <1>5 DEF ProbeGranted, PollGranted, KGoes, TypeOK
  <2>2. \A d \in Daemon : dpc[d] \notin Owner
    BY <2>1, DaemonLockAssumption DEF LockInv, OwnersHoldLock
  <2>3. OwnersHoldLock' /\ KillersHoldLock'
    BY <1>1, <2>1, <2>2, DaemonLockAssumption DEF LockInv, OwnersHoldLock, KillersHoldLock
  <2>4. PidPublished' /\ SocketBound' /\ FleetStands'
    BY <1>2, <2>1 DEF LockInv, PidPublished, SocketBound, FleetStands
  <2>5. FoundIsGone'
    BY <1>1, <2>1, <2>2 DEF LockInv, FoundIsGone
  <2> QED
    BY <2>3, <2>4, <2>5 DEF LockInv
<1>6. CASE ProbeDropped(k)
  <2>1. /\ kpc[k] = "holding" /\ kpc'[k] \in {"nodaemon", "done"} /\ lock = k /\ lock' = Nobody
        /\ UNCHANGED <<dpc, crashed, found>>
    BY <1>6 DEF ProbeDropped, KGoes, Released, TypeOK, LockInv, KillersHoldLock
  <2>2. OwnersHoldLock' /\ KillersHoldLock'
    BY <1>1, <2>1, DaemonLockAssumption DEF LockInv, OwnersHoldLock, KillersHoldLock
  <2>3. PidPublished' /\ SocketBound' /\ FleetStands' /\ FoundIsGone'
    BY <1>1, <1>2, <2>1 DEF LockInv, PidPublished, SocketBound, FleetStands, FoundIsGone
  <2> QED
    BY <2>2, <2>3 DEF LockInv
<1>7. CASE Signal(k)
  <2> DEFINE d == aim[k]
             dies == dpc[d] \in Live /\ dpc[d] \notin {"serving", "stopping", "closing", "dropped"}
  <2>1. /\ kpc[k] = "aimed" /\ kpc'[k] = "polling" /\ UNCHANGED found
        /\ dpc' = [dpc EXCEPT ![d] = IF dies THEN "gone" ELSE @]
        /\ lock' = (IF dies /\ lock = d THEN Nobody ELSE lock)
        /\ crashed' = [crashed EXCEPT ![d] = @ \/ dies]
    BY <1>7 DEF Signal, KGoes, TypeOK
  <2>2. CASE dies /\ d \in Daemon
    <3>1. /\ dpc'[d] = "gone" /\ crashed'[d] /\ lock' = (IF lock = d THEN Nobody ELSE lock)
          /\ dpc[d] \in Owner \cup {"opened"}
          /\ \A e \in Daemon : e # d => dpc'[e] = dpc[e] /\ crashed'[e] = crashed[e]
      BY <2>1, <2>2 DEF TypeOK, Live, Owner
    <3> HIDE DEF d, dies
    <3>2. OwnersHoldLock'
      BY <2>2, <3>1, DaemonLockAssumption DEF LockInv, OwnersHoldLock, Owner
    <3>3. KillersHoldLock'
      BY <1>1, <2>1, <2>2, <3>1, DaemonLockAssumption DEF LockInv, KillersHoldLock
    <3>4. PidPublished' /\ SocketBound' /\ FleetStands'
      BY <1>2, <3>1 DEF LockInv, PidPublished, SocketBound, FleetStands, Owner
    <3>5. FoundIsGone'
      BY <1>1, <2>1, <3>1 DEF LockInv, FoundIsGone, Owner
    <3> QED
      BY <3>2, <3>3, <3>4, <3>5 DEF LockInv
  <2>3. CASE ~(dies /\ d \in Daemon)
    <3>1. \A e \in Daemon : dpc'[e] = dpc[e] /\ crashed'[e] = crashed[e]
      BY <2>1, <2>3 DEF TypeOK
    <3>2. d \in Daemon \/ lock # d \/ lock = Nobody
      BY DaemonLockAssumption DEF TypeOK
    <3>3. lock' = lock
      BY <2>1, <2>3, <3>2
    <3> HIDE DEF d, dies
    <3> QED
      BY <1>1, <1>2, <2>1, <3>1, <3>3 DEF LockInv, OwnersHoldLock, KillersHoldLock, PidPublished,
         SocketBound, FleetStands, FoundIsGone
  <2> QED
    BY <2>2, <2>3
<1> QED
  BY <1>3, <1>4, <1>5, <1>6, <1>7 DEF KillerStep

\* The inductive invariant: the flock is the only right to the file and the path.
THEOREM LockCorrect == Spec => [](TypeOK /\ LockInv)
<1>1. Init => LockInv
  BY LockInit
<1>2. TypeOK /\ LockInv /\ [Next]_vars => LockInv'
  <2> SUFFICES ASSUME TypeOK, LockInv, [Next]_vars PROVE LockInv'
    OBVIOUS
  <2>1. CASE UNCHANGED vars
    BY <2>1 DEF vars, LockInv, OwnersHoldLock, KillersHoldLock, PidPublished, SocketBound,
       FleetStands, FoundIsGone
  <2> QED
    BY <2>1, DaemonKeeps, KillerKeeps DEF Next
<1> QED
  BY <1>1, <1>2, LockTypeCorrect, PTL DEF Spec

\* A serving daemon is the one clients find and --kill aims at.
THEOREM ServingIsAdvertised == Spec => []Advertised
<1>1. LockInv => Advertised
  BY DEF LockInv, Advertised, OwnersHoldLock, PidPublished, SocketBound, Owner
<1> QED
  BY <1>1, LockCorrect, PTL

\* Fleets of successive daemons do not overlap.
THEOREM FleetsApart == Spec => []FleetUnderLock
<1>1. LockInv => FleetUnderLock
  BY DEF LockInv, FleetUnderLock, OwnersHoldLock, FleetStands, Owner
<1> QED
  BY <1>1, LockCorrect, PTL

\* A --kill run that reports success left nothing of the daemon it found.
THEOREM KillIsOver == Spec => []KillMeansOver
<1>1. LockInv => KillMeansOver
  BY DEF LockInv, KillMeansOver, FoundIsGone, FleetStands
<1> QED
  BY <1>1, LockCorrect, PTL

-----------------------------------------------------------------------------
(* Autostart. Whatever clients start, they find one daemon.                *)

autoAll == <<vars, autoVars>>

\* Clients change nothing that daemons and --kill runs share, so that all that is proved
\* of DaemonLock holds here.
LEMMA AutoStep == [AutoNext]_autoAll => [Next]_vars
BY DEF AutoNext, ClientStep, Connect, Spawn, TimesOut, Leave, ProcessStep, Next, autoAll, vars

LEMMA AutoLock == AutoSpec => [](TypeOK /\ LockInv)
<1>1. AutoInit => Init
  BY DEF AutoInit
<1>2. AutoSpec => Spec
  BY <1>1, AutoStep, PTL DEF AutoSpec, Spec, autoAll
<1> QED BY <1>2, LockCorrect

\* A daemon that holds the lock keeps it until it is gone, and does not come back.
LEMMA HolderKeepsOrEnds ==
  ASSUME TypeOK, LockInv, LockInv', [Next]_vars, NEW d \in Daemon,
         lock = d \/ dpc[d] = "gone"
  PROVE  lock' = d \/ dpc'[d] = "gone"
<1>1. dpc[d] \in Owner \cup {"gone"}
  BY DEF LockInv, OwnersHoldLock
<1>2. dpc'[d] \in Owner \cup {"gone"}
  <2>1. CASE UNCHANGED vars
    BY <1>1, <2>1 DEF vars
  <2>2. ASSUME NEW e \in Daemon, DaemonStep(e) PROVE dpc'[d] \in Owner \cup {"gone"}
    <3>1. CASE OpenLock(e) \/ Acquire(e) \/ Refused(e)
      BY <1>1, <3>1 DEF OpenLock, Acquire, Refused, Goes, TypeOK, Owner
    <3>2. CASE \/ Truncate(e) \/ Publish(e) \/ UnlinkStale(e) \/ Bind(e) \/ Serve(e)
               \/ ShutDown(e) \/ AcceptFails(e) \/ RemoveSocket(e) \/ DropSupervisor(e)
      BY <1>1, <3>2 DEF Truncate, Publish, UnlinkStale, Bind, Serve, ShutDown, AcceptFails,
         RemoveSocket, DropSupervisor, Goes, TypeOK, Owner
    <3>3. CASE StartFails(e) \/ DropLock(e) \/ Crash(e)
      BY <1>1, <3>3 DEF StartFails, DropLock, Crash, Goes, TypeOK
    <3> QED BY <2>2, <3>1, <3>2, <3>3 DEF DaemonStep, Starting
  <2>3. ASSUME NEW k \in Killer, KillerStep(k) PROVE dpc'[d] \in Owner \cup {"gone"}
    <3>1. CASE Signal(k)
      BY <1>1, <3>1 DEF Signal, TypeOK
    <3>2. CASE ~Signal(k)
      BY <1>1, <2>3, <3>2 DEF KillerStep, NoLockFile, ProbeGranted, ProbeDropped, ProbeDenied,
         ReadPid, GiveUpReading, PollGranted, GiveUpPolling
    <3> QED BY <3>1, <3>2
  <2> QED BY <2>1, <2>2, <2>3 DEF Next
<1> QED BY <1>2 DEF LockInv, OwnersHoldLock

-----------------------------------------------------------------------------
LEMMA AutoTyped == AutoSpec => []AutoTypeOK
<1>1. AutoInit => AutoTypeOK
  BY DEF AutoInit, AutoTypeOK
<1>2. AutoTypeOK /\ [AutoNext]_autoAll => AutoTypeOK'
  <2> SUFFICES ASSUME AutoTypeOK, [AutoNext]_autoAll PROVE AutoTypeOK'
    OBVIOUS
  <2>1. CASE UNCHANGED autoVars
    BY <2>1 DEF autoVars, AutoTypeOK
  <2>2. ASSUME NEW c \in Client, ClientStep(c) PROVE AutoTypeOK'
    BY <2>2 DEF ClientStep, Connect, Spawn, TimesOut, Leave, CGoes, AutoTypeOK
  <2> QED BY <2>1, <2>2 DEF AutoNext, ProcessStep, autoAll, autoVars
<1> QED BY <1>1, <1>2, PTL DEF AutoSpec, autoAll

\* What keeps PeerHoldsLock: a client that is connected has a peer.
PeerInv == \A c \in Client : cpc[c] = "connected" =>
             peer[c] \in Daemon /\ (lock = peer[c] \/ dpc[peer[c]] = "gone")

\* A client connects to a daemon whose listener is at the path, which holds the lock.
LEMMA ClientKeeps ==
  ASSUME TypeOK, LockInv, AutoTypeOK, PeerInv, NEW c \in Client, ClientStep(c)
  PROVE  PeerInv'
<1>1. UNCHANGED <<lock, dpc>>
  BY DEF ClientStep, Connect, Spawn, TimesOut, Leave, vars
<1>2. \A e \in Client : e # c => cpc'[e] = cpc[e] /\ peer'[e] = peer[e]
  BY DEF ClientStep, Connect, Spawn, TimesOut, Leave, CGoes, AutoTypeOK
<1>3. CASE Connect(c)
  <2>1. PICK d \in Daemon : Listening(d) /\ peer' = [peer EXCEPT ![c] = d]
    BY <1>3 DEF Connect
  <2>2. lock = d
    BY <2>1 DEF Listening, LockInv, OwnersHoldLock, Owner
  <2>3. peer'[c] = d
    BY <2>1 DEF AutoTypeOK
  <2> QED BY <1>1, <1>2, <2>2, <2>3 DEF PeerInv
<1>4. CASE Spawn(c) \/ TimesOut(c) \/ Leave(c)
  <2>1. cpc'[c] # "connected"
    BY <1>4 DEF Spawn, TimesOut, Leave, CGoes, AutoTypeOK
  <2> QED BY <1>1, <1>2, <2>1 DEF PeerInv
<1> QED BY <1>3, <1>4 DEF ClientStep

\* Clients are with the holder of the lock, or with a daemon that is gone; and the daemon
\* that serves is the one at the path and in the lock file.
THEOREM ClientsFindOne == AutoSpec => []OneDaemon
<1>1. AutoInit => PeerInv
  BY DEF AutoInit, PeerInv
<1>2. TypeOK /\ LockInv /\ LockInv' /\ AutoTypeOK /\ PeerInv /\ [AutoNext]_autoAll => PeerInv'
  <2> SUFFICES ASSUME TypeOK, LockInv, LockInv', AutoTypeOK, PeerInv, [AutoNext]_autoAll
               PROVE  PeerInv'
    OBVIOUS
  <2>1. CASE UNCHANGED autoVars
    <3> SUFFICES ASSUME NEW c \in Client, cpc'[c] = "connected"
                 PROVE  peer'[c] \in Daemon /\ (lock' = peer'[c] \/ dpc'[peer'[c]] = "gone")
      BY DEF PeerInv
    <3>1. /\ peer'[c] = peer[c] /\ peer[c] \in Daemon
          /\ lock = peer[c] \/ dpc[peer[c]] = "gone"
      BY <2>1 DEF autoVars, PeerInv
    <3> QED BY <3>1, AutoStep, HolderKeepsOrEnds
  <2>2. ASSUME NEW c \in Client, ClientStep(c) PROVE PeerInv'
    BY <2>2, ClientKeeps
  <2> QED BY <2>1, <2>2 DEF AutoNext, ProcessStep, autoAll, autoVars
<1>3. LockInv /\ PeerInv => OneDaemon
  BY DEF OneDaemon, Advertised, PeerHoldsLock, LockInv, PeerInv, OwnersHoldLock, PidPublished,
     SocketBound, Owner
<1> QED BY <1>1, <1>2, <1>3, AutoLock, AutoTyped, PTL DEF AutoSpec, autoAll

-----------------------------------------------------------------------------
(* Recovery: the snapshots, for any number of writers and roots.           *)

\* The steps of any writer, and a user who removes the snapshot of one that lives.
SnapStep ==
  \/ \E w \in Writer :
       \/ Start(w) \/ Dies(w) \/ SaveFails(w) \/ Rename(w) \/ Prunes(w)
       \/ \E r \in Root, c \in Recipe : OpenTemp(w, r, c)
  \/ \E r \in Root :
       /\ status[Me] = "live" /\ UNCHANGED <<status, writerVars>>
       /\ disk' = [disk EXCEPT ![r][Me] = None] /\ saved' = [saved EXCEPT ![r][Me] = None]
  \/ UNCHANGED snapVars

LEMMA EveryStepIsSnap ==
  ASSUME RecoveryTypeOK, [RecoveryNext]_recoveryVars
  PROVE  SnapStep
<1> USE RecoveryAssumption
<1>1. CASE Directory
  <2>1. PICK w \in Writer : \/ Start(w) \/ Dies(w) \/ Prunes(w)
                            \/ w # Me /\ Other(w)
    BY <1>1 DEF Directory
  <2> QED BY <2>1 DEF SnapStep, Other
<1>2. CASE Passes
  <2>1. recipe \in Recipe \cup {NoTasks} /\ root \in Root \cup {None}
    BY DEF RecoveryTypeOK
  <2> QED BY <1>2, <2>1 DEF Passes, Skips, SnapStep
<1>3. CASE PassFails \/ PassSaves
  BY <1>3 DEF PassFails, PassSaves, SnapStep
<1>4. CASE Elapse \/ (\E c \in Recipe \cup {NoTasks} : Arms(c)) \/ (\E c \in Recipe : Captures(c))
           \/ (\E r \in Root \cup {None} : Reconnects(r)) \/ UNCHANGED recoveryVars
  BY <1>4 DEF Elapse, Arms, Captures, Reconnects, recoveryVars, SnapStep
<1>5. ASSUME NEW r \in Root, RemovedByHand(r) PROVE SnapStep
  BY <1>5 DEF RemovedByHand, SnapStep, Idle
<1> QED BY <1>1, <1>2, <1>3, <1>4, <1>5 DEF RecoveryNext, Core

LEMMA SnapTypesKept ==
  ASSUME SnapTypeOK, WritersInv, SnapStep
  PROVE  SnapTypeOK' /\ WritersInv'
<1> USE RecoveryAssumption
<1>1. ASSUME NEW w \in Writer, Start(w) PROVE SnapTypeOK' /\ WritersInv'
  BY <1>1 DEF Start, SnapTypeOK, WritersInv, writerVars, dirVars
<1>2. ASSUME NEW w \in Writer, Dies(w) PROVE SnapTypeOK' /\ WritersInv'
  BY <1>2 DEF Dies, SnapTypeOK, WritersInv, dirVars
<1>3. ASSUME NEW w \in Writer, SaveFails(w) PROVE SnapTypeOK' /\ WritersInv'
  BY <1>3 DEF SaveFails, SnapTypeOK, WritersInv, dirVars
<1>4. ASSUME NEW w \in Writer, Rename(w) PROVE SnapTypeOK' /\ WritersInv'
  <2>1. job[w] \in [root : Root, recipe : Recipe] /\ status[w] = "live"
    BY <1>4 DEF Rename, WritersInv
  <2>2. job[w].root \in Root /\ job[w].recipe \in Recipe
    BY <2>1
  <2> QED BY <1>4, <2>1, <2>2 DEF Rename, SnapTypeOK, WritersInv
<1>5. ASSUME NEW w \in Writer, List(w) PROVE SnapTypeOK' /\ WritersInv'
  <2>1. PICK reused \in SUBSET Writer :
          doomed' = [doomed EXCEPT ![w] = Outranked(Unprotected(w, reused))]
    BY <1>5 DEF List
  <2>2. Outranked(Unprotected(w, reused)) \subseteq Writer
    BY DEF Outranked, Unprotected
  <2> QED BY <1>5, <2>1, <2>2 DEF List, SnapTypeOK, WritersInv, dirVars
<1>6. ASSUME NEW w \in Writer, Remove(w) PROVE SnapTypeOK' /\ WritersInv'
  <2>1. job[w].root \in Root
    BY <1>6 DEF Remove, WritersInv
  <2>2. PICK v \in doomed[w] :
          /\ doomed' = [doomed EXCEPT ![w] = @ \ {v}]
          /\ disk' \in {disk, [disk EXCEPT ![job[w].root][v] = None]}
    BY <1>6 DEF Remove
  <2>3. disk' \in [Root -> [Writer -> Recipe \cup {None, Torn}]]
    <3>1. v \in Writer
      BY <2>2 DEF SnapTypeOK
    <3>2. [disk[job[w].root] EXCEPT ![v] = None] \in [Writer -> Recipe \cup {None, Torn}]
      BY <2>1, <3>1 DEF SnapTypeOK
    <3> QED BY <2>1, <2>2, <3>2 DEF SnapTypeOK
  <2>4. doomed' \in [Writer -> SUBSET Writer]
    BY <2>2 DEF SnapTypeOK
  <2> QED BY <1>6, <2>2, <2>3, <2>4 DEF Remove, SnapTypeOK, WritersInv
<1>7. ASSUME NEW w \in Writer, Pruned(w) PROVE SnapTypeOK' /\ WritersInv'
  BY <1>7 DEF Pruned, SnapTypeOK, WritersInv, dirVars
<1>8. ASSUME NEW w \in Writer, NEW r \in Root, NEW c \in Recipe, OpenTemp(w, r, c)
      PROVE  SnapTypeOK' /\ WritersInv'
  BY <1>8 DEF OpenTemp, SnapTypeOK, WritersInv, dirVars
<1>9. ASSUME NEW r \in Root, status[Me] = "live", UNCHANGED <<status, writerVars>>,
             disk' = [disk EXCEPT ![r][Me] = None], saved' = [saved EXCEPT ![r][Me] = None]
      PROVE  SnapTypeOK' /\ WritersInv'
  BY <1>9 DEF SnapTypeOK, WritersInv, writerVars
<1>10. CASE UNCHANGED snapVars
  BY <1>10 DEF snapVars, writerVars, dirVars, SnapTypeOK, WritersInv
<1> QED BY <1>1, <1>2, <1>3, <1>4, <1>5, <1>6, <1>7, <1>8, <1>9, <1>10 DEF SnapStep, Prunes

-----------------------------------------------------------------------------
(* Prunes.                                                                 *)

\* Sets of writers can be counted, and a larger one counts no less.
LEMMA Counted ==
  ASSUME NEW S, NEW T, S \subseteq T, T \subseteq Writer
  PROVE  Cardinality(S) <= Cardinality(T) /\ Cardinality(S) \in Nat /\ Cardinality(T) \in Nat
<1>1. IsFiniteSet(T)
  BY SnapshotsAssumption, FS_Subset
<1>2. Cardinality(S) <= Cardinality(T) /\ IsFiniteSet(S)
  BY <1>1, FS_Subset
<1> QED BY <1>1, <1>2, FS_CardinalityType

\* A writer is outlived as long as those who outlive it stay.
LEMMA OutlivedStays ==
  ASSUME NEW r, NEW w, NEW T, Outlived(r, w), Heirs(r, w) \subseteq T, T \subseteq Writer
  PROVE  Cardinality(T) >= Keep - 1
BY Counted, SnapshotsAssumption DEF Outlived

\* Outlived, after the step.
OutlivedNext(r, w) ==
  Cardinality({v \in Writer : v > w /\ status'[v] = "dead" /\ disk'[r][v] # None}) >= Keep - 1

LEMMA HeirsStay ==
  ASSUME \A v \in Writer : status[v] = "dead" => status'[v] = "dead",
         NEW r, \A v \in Writer : status[v] = "dead" /\ disk[r][v] # None => disk'[r][v] # None,
         NEW w, Outlived(r, w)
  PROVE  OutlivedNext(r, w)
<1>1. Heirs(r, w) \subseteq {v \in Writer : v > w /\ status'[v] = "dead" /\ disk'[r][v] # None}
  BY DEF Heirs
<1> QED BY <1>1, OutlivedStays DEF OutlivedNext

\* A step that removes no snapshot of a dead writer.
LEMMA PruneFrame ==
  ASSUME SnapTypeOK, WritersInv, PruneInv,
         \A v \in Writer : status[v] = "dead" => status'[v] = "dead",
         \A v \in Writer : status'[v] = "new" => status[v] = "new",
         \A r \in Root, v \in Writer :
           \/ disk'[r][v] = disk[r][v] /\ saved'[r][v] = saved[r][v]
           \/ status[v] = "live" /\ status'[v] = "live" /\ disk'[r][v] = saved'[r][v],
         \A w \in Writer : doomed'[w] = {} \/ (doomed'[w] = doomed[w] /\ job'[w] = job[w])
  PROVE  PruneInv'
<1>1. ASSUME NEW r \in Root, NEW w, Outlived(r, w) PROVE OutlivedNext(r, w)
  <2>1. \A v \in Writer : status[v] = "dead" /\ disk[r][v] # None => disk'[r][v] # None
    OBVIOUS
  <2> QED BY <1>1, <2>1, HeirsStay
<1>2. \A r \in Root, w \in Writer : status'[w] = "new" => disk'[r][w] = None
  BY DEF PruneInv
<1>3. ASSUME NEW w \in Writer, NEW v \in doomed'[w]
      PROVE  status'[v] = "dead" /\ OutlivedNext(job'[w].root, v)
  <2>1. v \in doomed[w] /\ job'[w] = job[w] /\ v \in Writer
    BY <1>3 DEF SnapTypeOK
  <2>2. status[v] = "dead" /\ Outlived(job[w].root, v)
    BY <2>1 DEF PruneInv
  <2>3. job[w].root \in Root
    BY <2>1 DEF WritersInv
  <2> QED BY <1>1, <2>1, <2>2, <2>3
<1>4. ASSUME NEW r \in Root, NEW w \in Writer
      PROVE  disk'[r][w] = saved'[r][w]
               \/ (status'[w] = "dead" /\ disk'[r][w] = None /\ OutlivedNext(r, w))
  BY <1>1 DEF PruneInv
<1> QED BY <1>2, <1>3, <1>4 DEF PruneInv, Outlived, Heirs, OutlivedNext

\* Pruning a snapshot, with those that outlive it, takes none from under another's heirs.
LEMMA RemoveKeeps ==
  ASSUME SnapTypeOK, WritersInv, PruneInv, NEW w \in Writer, Remove(w)
  PROVE  PruneInv'
<1>1. PICK x \in doomed[w] :
        /\ doomed' = [doomed EXCEPT ![w] = @ \ {x}]
        /\ disk' \in {disk, [disk EXCEPT ![job[w].root][x] = None]}
  BY DEF Remove
<1> DEFINE here == job[w].root
<1>2. here \in Root /\ x \in Writer /\ status[x] = "dead" /\ Outlived(here, x)
  BY DEF Remove, WritersInv, SnapTypeOK, PruneInv
<1>3. UNCHANGED <<status, pc, job, saved>>
  BY DEF Remove
<1>4. \A r \in Root, v \in Writer : disk'[r][v] = disk[r][v] \/ (r = here /\ v = x /\ disk'[r][v] = None)
  BY <1>1, <1>2 DEF SnapTypeOK
<1> HIDE DEF here
<1>5. ASSUME NEW r \in Root, NEW y \in Writer, Outlived(r, y) PROVE OutlivedNext(r, y)
  <2> DEFINE T == {v \in Writer : v > y /\ status'[v] = "dead" /\ disk'[r][v] # None}
  <2>1. CASE r # here \/ ~(x > y)
    <3>1. Heirs(r, y) \subseteq T
      BY <1>3, <1>4, <2>1 DEF Heirs
    <3> QED BY <1>5, <3>1, OutlivedStays DEF OutlivedNext
  <2>2. CASE r = here /\ x > y
    <3>1. Heirs(r, x) \subseteq T
      BY <1>2, <1>3, <1>4, <2>2, SnapshotsAssumption DEF Heirs
    <3> QED BY <1>2, <2>2, <3>1, OutlivedStays DEF OutlivedNext
  <2> QED BY <2>1, <2>2
<1>6. \A r \in Root, v \in Writer : status'[v] = "new" => disk'[r][v] = None
  BY <1>3, <1>4 DEF PruneInv
<1>7. ASSUME NEW u \in Writer, NEW v \in doomed'[u]
      PROVE  status'[v] = "dead" /\ OutlivedNext(job'[u].root, v)
  <2>1. v \in doomed[u] /\ v \in Writer
    BY <1>1, <1>7 DEF SnapTypeOK
  <2>2. job[u].root \in Root
    BY <2>1 DEF WritersInv
  <2> QED BY <1>3, <1>5, <2>1, <2>2 DEF PruneInv
<1>8. ASSUME NEW r \in Root, NEW v \in Writer
      PROVE  disk'[r][v] = saved'[r][v]
               \/ (status'[v] = "dead" /\ disk'[r][v] = None /\ OutlivedNext(r, v))
  <2>1. CASE r = here /\ v = x /\ disk'[r][v] = None
    BY <1>2, <1>3, <1>5, <2>1
  <2>2. CASE disk'[r][v] = disk[r][v]
    BY <1>3, <1>5, <2>2 DEF PruneInv
  <2> QED BY <1>4, <2>1, <2>2
<1> QED BY <1>6, <1>7, <1>8 DEF PruneInv, Outlived, Heirs, OutlivedNext

LEMMA ListKeeps ==
  ASSUME SnapTypeOK, WritersInv, PruneInv, NEW w \in Writer, List(w)
  PROVE  PruneInv'
<1>1. PICK reused \in SUBSET Writer :
        doomed' = [doomed EXCEPT ![w] = Outranked(Unprotected(w, reused))]
  BY DEF List
<1> DEFINE S == Unprotected(w, reused)
<1>2. job[w].root \in Root /\ UNCHANGED <<status, job, disk, saved>>
  BY DEF List, WritersInv, dirVars
<1>3. \A v \in S : v \in Writer /\ status[v] = "dead" /\ disk[job[w].root][v] # None
  <2> SUFFICES ASSUME NEW v \in S
               PROVE  v \in Writer /\ status[v] = "dead" /\ disk[job[w].root][v] # None
    OBVIOUS
  <2>1. v \in Writer /\ disk[job[w].root][v] # None /\ status[v] # "live"
    BY DEF Unprotected
  <2>2. status[v] # "new"
    BY <1>2, <2>1 DEF PruneInv
  <2> QED BY <2>1, <2>2 DEF SnapTypeOK
<1>4. ASSUME NEW v \in Outranked(S) PROVE status[v] = "dead" /\ Outlived(job[w].root, v)
  <2>1. v \in S /\ Cardinality({u \in S : u > v}) >= Keep - 1
    BY DEF Outranked
  <2>2. {u \in S : u > v} \subseteq Heirs(job[w].root, v) /\ Heirs(job[w].root, v) \subseteq Writer
    BY <1>3 DEF Heirs
  <2>3. Cardinality(Heirs(job[w].root, v)) >= Keep - 1
    BY <2>1, <2>2, Counted, SnapshotsAssumption
  <2> QED BY <1>3, <2>1, <2>3 DEF Outlived
<1> HIDE DEF S
<1>5. ASSUME NEW u \in Writer, NEW v \in doomed'[u]
      PROVE  status'[v] = "dead" /\ OutlivedNext(job'[u].root, v)
  <2>1. status[v] = "dead" /\ Outlived(job[u].root, v)
    <3>1. CASE u = w
      BY <1>1, <1>4, <1>5, <3>1 DEF SnapTypeOK, S
    <3>2. CASE u # w
      BY <1>1, <1>5, <3>2 DEF SnapTypeOK, PruneInv
    <3> QED BY <3>1, <3>2
  <2> QED BY <1>2, <2>1 DEF Outlived, Heirs, OutlivedNext
<1>6. \A r \in Root, v \in Writer :
        disk'[r][v] = saved'[r][v]
          \/ (status'[v] = "dead" /\ disk'[r][v] = None /\ OutlivedNext(r, v))
  BY <1>2 DEF PruneInv, Outlived, Heirs, OutlivedNext
<1>7. \A r \in Root, v \in Writer : status'[v] = "new" => disk'[r][v] = None
  BY <1>2 DEF PruneInv
<1> QED BY <1>5, <1>6, <1>7 DEF PruneInv, Outlived, Heirs, OutlivedNext

LEMMA PruneInvKept ==
  ASSUME SnapTypeOK, WritersInv, PruneInv, SnapStep
  PROVE  PruneInv'
<1> USE RecoveryAssumption
<1>1. ASSUME NEW w \in Writer, Start(w) PROVE PruneInv'
  BY <1>1, PruneFrame DEF Start, SnapTypeOK, writerVars, dirVars
<1>2. ASSUME NEW w \in Writer, Dies(w) PROVE PruneInv'
  BY <1>2, PruneFrame DEF Dies, SnapTypeOK, dirVars
<1>3. ASSUME NEW w \in Writer, SaveFails(w) PROVE PruneInv'
  <2>1. doomed[w] = {}
    BY <1>3 DEF SaveFails, WritersInv
  <2> QED BY <1>3, <2>1, PruneFrame DEF SaveFails, SnapTypeOK, dirVars
<1>4. ASSUME NEW w \in Writer, Rename(w) PROVE PruneInv'
  <2>1. job[w] \in [root : Root, recipe : Recipe] /\ status[w] = "live"
    BY <1>4 DEF Rename, WritersInv
  <2>2. job[w].root \in Root
    BY <2>1
  <2>3. \A r \in Root, v \in Writer :
           \/ disk'[r][v] = disk[r][v] /\ saved'[r][v] = saved[r][v]
           \/ v = w /\ disk'[r][v] = saved'[r][v]
    BY <1>4, <2>2 DEF Rename, SnapTypeOK
  <2> QED BY <1>4, <2>1, <2>3, PruneFrame DEF Rename
<1>5. ASSUME NEW w \in Writer, Pruned(w) PROVE PruneInv'
  BY <1>5, PruneFrame DEF Pruned, SnapTypeOK, dirVars
<1>6. ASSUME NEW w \in Writer, NEW r \in Root, NEW c \in Recipe, OpenTemp(w, r, c)
      PROVE  PruneInv'
  <2>1. doomed[w] = {}
    BY <1>6 DEF OpenTemp, WritersInv
  <2> QED BY <1>6, <2>1, PruneFrame DEF OpenTemp, SnapTypeOK, dirVars
<1>7. ASSUME NEW r \in Root, status[Me] = "live", UNCHANGED <<status, writerVars>>,
             disk' = [disk EXCEPT ![r][Me] = None], saved' = [saved EXCEPT ![r][Me] = None]
      PROVE  PruneInv'
  <2>1. \A q \in Root, v \in Writer :
           \/ disk'[q][v] = disk[q][v] /\ saved'[q][v] = saved[q][v]
           \/ v = Me /\ disk'[q][v] = saved'[q][v]
    BY <1>7 DEF SnapTypeOK
  <2> QED BY <1>7, <2>1, PruneFrame DEF writerVars
<1>8. CASE UNCHANGED snapVars
  BY <1>8, PruneFrame DEF snapVars, writerVars, dirVars
<1> QED BY <1>1, <1>2, <1>3, <1>4, <1>5, <1>6, <1>7, <1>8, RemoveKeeps, ListKeeps DEF SnapStep, Prunes

LEMMA SnapInitHolds == SnapInit => SnapTypeOK /\ WritersInv /\ PruneInv
<1> SUFFICES ASSUME SnapInit PROVE SnapTypeOK /\ WritersInv /\ PruneInv
  OBVIOUS
<1>1. \A w \in Writer : /\ status[w] \in {"new", "live", "dead"} /\ (status[w] = "new" => w \notin Old)
                       /\ pc[w] = "idle" /\ job[w] = None /\ doomed[w] = {}
  BY DEF SnapInit
<1>2. PICK c \in Recipe : disk = [r \in Root |-> [w \in Writer |-> IF w \in Old THEN c ELSE None]]
  BY DEF SnapInit
<1>3. SnapTypeOK
  BY <1>2 DEF SnapInit, SnapTypeOK
<1>4. WritersInv
  BY <1>1 DEF WritersInv
<1>5. PruneInv
  BY <1>1, <1>2 DEF SnapInit, PruneInv
<1> QED BY <1>3, <1>4, <1>5

-----------------------------------------------------------------------------
(* The recipe.                                                             *)

LEMMA RecoveryTypesKept ==
  ASSUME RecoveryTypeOK, WritersInv, [RecoveryNext]_recoveryVars
  PROVE  RecoveryTypeOK' /\ WritersInv'
<1> USE RecoveryAssumption
<1>1. SnapTypeOK' /\ WritersInv'
  BY EveryStepIsSnap, SnapTypesKept DEF RecoveryTypeOK
<1>2. /\ recipe \in Recipe \cup {NoTasks} /\ root \in Root \cup {None}
      /\ mutation \in Never .. Debounce /\ cadence \in 0 .. Cadence
      /\ written \in [root : Root, recipe : Recipe] \cup {None}
      /\ quiet \in BOOLEAN /\ lag \in Nat
  BY DEF RecoveryTypeOK
<1> DEFINE Rest == /\ recipe' \in Recipe \cup {NoTasks} /\ root' \in Root \cup {None}
                   /\ mutation' \in Never .. Debounce /\ cadence' \in 0 .. Cadence
                   /\ written' \in [root : Root, recipe : Recipe] \cup {None}
                   /\ quiet' \in BOOLEAN /\ lag' \in Nat
<1>3. ASSUME Directory PROVE Rest
  BY <1>2, <1>3 DEF Directory, coreVars, Lag
<1>4. ASSUME NEW c \in Recipe \cup {NoTasks}, Arms(c) PROVE Rest
  <2>1. /\ recipe' = c /\ mutation' = 0 /\ UNCHANGED <<root, cadence, written, quiet>>
        /\ lag' \in {lag, 0}
    BY <1>4 DEF Arms, Lag
  <2> QED BY <1>2, <2>1 DEF Never
<1>5. ASSUME NEW c \in Recipe, Captures(c) PROVE Rest
  <2>1. /\ recipe' = c /\ quiet' \in BOOLEAN /\ UNCHANGED <<root, mutation, cadence, written>>
        /\ lag' \in {lag, 0}
    BY <1>5 DEF Captures, Lag
  <2> QED BY <1>2, <2>1
<1>6. ASSUME NEW r \in Root \cup {None}, Reconnects(r) PROVE Rest
  <2>1. /\ root' = r /\ quiet' \in BOOLEAN /\ UNCHANGED <<recipe, mutation, cadence, written>>
        /\ lag' \in {lag, 0}
    BY <1>6 DEF Reconnects, Lag
  <2> QED BY <1>2, <2>1
<1>7. ASSUME NEW r \in Root, RemovedByHand(r) PROVE Rest
  <2>1. /\ quiet' \in BOOLEAN /\ UNCHANGED <<recipe, root, mutation, cadence, written>>
        /\ lag' \in {lag, 0}
    BY <1>7 DEF RemovedByHand, Lag, coreVars
  <2> QED BY <1>2, <2>1
<1>8. ASSUME Passes PROVE Rest
  BY <1>2, <1>8 DEF Passes, PassBegins, Never
<1>9. ASSUME PassFails PROVE Rest
  BY <1>2, <1>9 DEF PassFails, coreVars
<1>10. ASSUME PassSaves PROVE Rest
  <2>1. job[Me] \in [root : Root, recipe : Recipe]
    BY <1>10 DEF PassSaves, Rename, WritersInv
  <2> QED BY <1>2, <1>10, <2>1 DEF PassSaves
<1>11. ASSUME Elapse PROVE Rest
  <2>1. mutation' \in Never .. Debounce /\ cadence' \in 0 .. Cadence
    BY <1>2, <1>11 DEF Elapse, Never
  <2>2. lag' \in Nat
    BY <1>2, <1>11 DEF Elapse, Lag
  <2> QED BY <1>2, <1>11, <2>1, <2>2 DEF Elapse
<1>12. ASSUME UNCHANGED recoveryVars PROVE Rest
  BY <1>2, <1>12 DEF recoveryVars, coreVars
<1>13. Rest
  BY <1>3, <1>4, <1>5, <1>6, <1>7, <1>8, <1>9, <1>10, <1>11, <1>12 DEF RecoveryNext, Core
<1> QED BY <1>1, <1>13 DEF RecoveryTypeOK

\* What the steps of the directory do to the snapshots and the process of Me.
LEMMA OthersStep ==
  ASSUME RecoveryTypeOK, WritersInv, PruneInv, NEW w \in Writer,
         Start(w) \/ Dies(w) \/ Prunes(w) \/ (w # Me /\ Other(w))
  PROVE  /\ \A r \in Root : disk'[r][Me] = disk[r][Me] \/ (disk'[r][Me] = None /\ status[Me] = "dead")
         /\ status'[Me] = status[Me]
              \/ (status'[Me] = "live" /\ status[Me] = "new") \/ status'[Me] = "dead"
         /\ status'[Me] = "live" =>
              \/ pc'[Me] = pc[Me] /\ job'[Me] = job[Me]
              \/ pc[Me] \in {"list", "prune"} /\ pc'[Me] \in {"prune", "idle"}
         /\ status'[Me] # "live" => pc'[Me] = "idle"
<1> USE RecoveryAssumption
<1>0. SnapTypeOK /\ Me \in Writer /\ status[Me] \in {"new", "live", "dead"}
  BY DEF RecoveryTypeOK, SnapTypeOK
<1>1. status[Me] # "live" => pc[Me] = "idle"
  BY DEF WritersInv
<1>2. CASE Start(w)
  BY <1>0, <1>1, <1>2 DEF Start, writerVars, dirVars, SnapTypeOK
<1>3. CASE Dies(w)
  BY <1>0, <1>1, <1>3 DEF Dies, dirVars, SnapTypeOK
<1>4. CASE List(w) \/ Pruned(w)
  BY <1>0, <1>1, <1>4 DEF List, Pruned, dirVars, SnapTypeOK
<1>5. CASE Remove(w)
  <2>1. PICK v \in doomed[w] : disk' \in {disk, [disk EXCEPT ![job[w].root][v] = None]}
    BY <1>5 DEF Remove
  <2>2. status[v] = "dead" /\ v \in Writer
    BY <1>0, <2>1 DEF PruneInv, SnapTypeOK
  <2>3. job[w].root \in Root
    BY <1>5 DEF Remove, WritersInv
  <2>4. \A r \in Root : disk'[r][Me] = disk[r][Me] \/ (disk'[r][Me] = None /\ status[Me] = "dead")
    BY <1>0, <2>1, <2>2, <2>3 DEF SnapTypeOK
  <2> QED BY <1>1, <1>5, <2>4 DEF Remove
<1>6. CASE w # Me /\ Other(w)
  <2>1. CASE \E r \in Theirs, c \in Recipe : OpenTemp(w, r, c)
    BY <1>0, <1>1, <1>6, <2>1 DEF OpenTemp, dirVars, SnapTypeOK
  <2>2. CASE SaveFails(w)
    BY <1>0, <1>1, <1>6, <2>2 DEF SaveFails, dirVars, SnapTypeOK
  <2>3. CASE Rename(w)
    <3>1. job[w] \in [root : Root, recipe : Recipe]
      BY <2>3 DEF Rename, WritersInv
    <3>2. job[w].root \in Root
      BY <3>1
    <3>3. \A r \in Root : disk'[r][Me] = disk[r][Me]
      BY <1>0, <1>6, <2>3, <3>2 DEF Rename, SnapTypeOK
    <3> QED BY <1>0, <1>1, <1>6, <2>3, <3>3 DEF Rename, SnapTypeOK
  <2> QED BY <1>6, <2>1, <2>2, <2>3 DEF Other
<1> QED BY <1>2, <1>3, <1>4, <1>5, <1>6 DEF Prunes

LEMMA DirectoryKeepsRecovery ==
  ASSUME RecoveryTypeOK, RecoveryTypeOK', RecoveryInv, Directory
  PROVE  WrittenStands' /\ PassInv' /\ LagInv'
<1> USE RecoveryAssumption
<1>1. PICK w \in Writer : Start(w) \/ Dies(w) \/ Prunes(w) \/ (w # Me /\ Other(w))
  BY DEF Directory
<1>2. /\ \A r \in Root : disk'[r][Me] = disk[r][Me] \/ (disk'[r][Me] = None /\ status[Me] = "dead")
      /\ status'[Me] = status[Me]
           \/ (status'[Me] = "live" /\ status[Me] = "new") \/ status'[Me] = "dead"
      /\ status'[Me] = "live" =>
           \/ pc'[Me] = pc[Me] /\ job'[Me] = job[Me]
           \/ pc[Me] \in {"list", "prune"} /\ pc'[Me] \in {"prune", "idle"}
      /\ status'[Me] # "live" => pc'[Me] = "idle"
  BY <1>1, OthersStep DEF RecoveryInv
<1>3. UNCHANGED <<recipe, root, mutation, cadence, written, quiet>> /\ Lag(lag)
  BY DEF Directory, coreVars
<1>4. /\ root \in Root \cup {None} /\ written \in [root : Root, recipe : Recipe] \cup {None}
      /\ lag \in Nat /\ cadence \in 0 .. Cadence
  BY DEF RecoveryTypeOK
<1>5. WrittenStands'
  BY <1>2, <1>3, <1>4 DEF RecoveryInv, WrittenStands
<1>6. LagInv'
  <2>1. lag' = IF Unsaved' THEN lag ELSE 0
    BY <1>3 DEF Lag
  <2>2. /\ lag' # 0 => Unsaved'
        /\ lag' <= Cadence
    BY <1>4, <2>1 DEF RecoveryInv, LagInv
  <2>3. Unsaved' => status'[Me] = "live"
    BY DEF Unsaved
  <2>4. pc'[Me] = "idle" => lag' <= cadence'
    BY <1>2, <1>3, <1>4, <2>1, <2>3 DEF RecoveryInv, LagInv, WritersInv
  <2>5. pc'[Me] \in {"list", "prune"} => lag' = 0
    BY <1>2, <1>3, <1>4, <2>1, <2>3 DEF RecoveryInv, LagInv, WritersInv
  <2> QED BY <2>2, <2>4, <2>5 DEF LagInv
<1>7. PassInv'
  <2>1. CASE status'[Me] = "live" /\ status[Me] = "live"
    <3>1. root # None => disk'[root][Me] = disk[root][Me]
      BY <1>2, <1>4, <2>1
    <3> QED BY <1>2, <1>3, <2>1, <3>1 DEF RecoveryInv, PassInv
  <2>2. CASE status'[Me] = "live" /\ status[Me] = "new"
    BY <1>2, <1>3, <2>2 DEF RecoveryInv, PassInv, WritersInv
  <2>3. CASE status'[Me] # "live"
    BY <1>2, <1>3, <2>3 DEF RecoveryInv, PassInv
  <2> QED BY <1>2, <2>1, <2>2, <2>3
<1> QED BY <1>5, <1>6, <1>7

\* Commands, exits, captures, reconnects and a user's deletion.
LEMMA ChangesKeepRecovery ==
  ASSUME RecoveryTypeOK, RecoveryTypeOK', RecoveryInv,
         \/ \E c \in Recipe \cup {NoTasks} : Arms(c)
         \/ \E c \in Recipe : Captures(c)
         \/ \E r \in Root \cup {None} : Reconnects(r)
         \/ \E r \in Root : RemovedByHand(r)
  PROVE  WrittenStands' /\ PassInv' /\ LagInv'
<1> USE RecoveryAssumption
<1>0. /\ root \in Root \cup {None} /\ written \in [root : Root, recipe : Recipe] \cup {None}
      /\ lag \in Nat /\ cadence \in 0 .. Cadence /\ SnapTypeOK /\ Me \in Writer
  BY DEF RecoveryTypeOK
<1>1. /\ UNCHANGED <<status, pc, job, cadence, written>> /\ Lag(lag) /\ status[Me] = "live"
      /\ \A r \in Root : disk'[r][Me] = disk[r][Me] \/ disk'[r][Me] = None
  <2>1. CASE \/ \E c \in Recipe \cup {NoTasks} : Arms(c)
             \/ \E c \in Recipe : Captures(c)
             \/ \E r \in Root \cup {None} : Reconnects(r)
    BY <2>1 DEF Arms, Captures, Reconnects, snapVars, writerVars, dirVars, Idle
  <2>2. ASSUME NEW r \in Root, RemovedByHand(r)
        PROVE  /\ UNCHANGED <<status, pc, job, cadence, written>> /\ Lag(lag) /\ status[Me] = "live"
               /\ \A q \in Root : disk'[q][Me] = disk[q][Me] \/ disk'[q][Me] = None
    <3>1. disk' = [disk EXCEPT ![r][Me] = None]
      BY <2>2 DEF RemovedByHand
    <3>2. \A q \in Root : disk'[q][Me] = disk[q][Me] \/ disk'[q][Me] = None
      BY <1>0, <3>1 DEF SnapTypeOK
    <3>3. UNCHANGED <<status, pc, job, cadence, written>> /\ Lag(lag) /\ status[Me] = "live"
      BY <2>2 DEF RemovedByHand, writerVars, coreVars, Idle
    <3> QED BY <3>2, <3>3
  <2> QED BY <2>1, <2>2
<1>2. WrittenStands'
  BY <1>0, <1>1 DEF RecoveryInv, WrittenStands
<1>3. LagInv'
  <2>1. lag' = IF Unsaved' THEN lag ELSE 0
    BY <1>1 DEF Lag
  <2> QED BY <1>0, <1>1, <2>1 DEF RecoveryInv, LagInv
<1>4. PassInv'
  <2>1. ASSUME NEW c \in Recipe \cup {NoTasks}, Arms(c) PROVE PassInv'
    BY <1>1, <2>1 DEF Arms, Idle, PassInv, Never
  <2>2. ASSUME NEW c \in Recipe, Captures(c) PROVE PassInv'
    <3>1. ~quiet' /\ UNCHANGED <<root, mutation>>
      BY <2>2 DEF Captures
    <3> QED BY <1>1, <3>1 DEF PassInv, RecoveryInv
  <2>3. ASSUME NEW r \in Root \cup {None}, Reconnects(r) PROVE PassInv'
    BY <1>1, <2>3 DEF Reconnects, Idle, PassInv
  <2>4. ASSUME NEW r \in Root, RemovedByHand(r) PROVE PassInv'
    BY <1>1, <2>4 DEF RemovedByHand, Idle, PassInv
  <2> QED BY <2>1, <2>2, <2>3, <2>4
<1> QED BY <1>2, <1>3, <1>4

\* A pass that skips has nothing to save.
LEMMA SkipIsSaved ==
  ASSUME RecoveryTypeOK, RecoveryInv, Skips, recipe # NoTasks, root # None
  PROVE  disk[root][Me] = recipe
<1>1. written = [root |-> root, recipe |-> recipe] /\ disk[root][Me] # None
  BY DEF Skips, Duplicate
<1>2. written # None
  BY <1>1, SnapshotsAssumption DEF RecoveryTypeOK
<1> QED BY <1>1, <1>2 DEF RecoveryInv, WrittenStands

LEMMA PassKeepsRecovery ==
  ASSUME RecoveryTypeOK, RecoveryTypeOK', RecoveryInv, Passes \/ PassFails \/ PassSaves \/ Elapse
  PROVE  WrittenStands' /\ PassInv' /\ LagInv'
<1> USE RecoveryAssumption
<1>0. /\ root \in Root \cup {None} /\ written \in [root : Root, recipe : Recipe] \cup {None}
      /\ lag \in Nat /\ cadence \in 0 .. Cadence /\ SnapTypeOK /\ Me \in Writer
      /\ mutation \in Never .. Debounce
  BY DEF RecoveryTypeOK
<1>1. CASE Passes
  <2>1. /\ status[Me] = "live" /\ pc[Me] = "idle" /\ mutation' = Never
        /\ cadence' \in {0, cadence} /\ UNCHANGED <<recipe, root, written, lag>>
        /\ IF Skips THEN UNCHANGED snapVars ELSE OpenTemp(Me, root, recipe)
    BY <1>1 DEF Passes, PassBegins, Due, Idle
  <2>2. CASE Skips
    <3>1. UNCHANGED <<status, pc, job, disk>>
      BY <2>1, <2>2 DEF snapVars, writerVars, dirVars
    <3>2. recipe # NoTasks /\ root # None => disk[root][Me] = recipe
      BY <2>2, SkipIsSaved
    <3>3. lag = 0
      BY <3>2 DEF RecoveryInv, LagInv, Unsaved
    <3>4. WrittenStands'
      BY <2>1, <3>1 DEF RecoveryInv, WrittenStands
    <3>5. PassInv'
      BY <2>1, <3>1, <3>2 DEF PassInv
    <3>6. LagInv'
      BY <1>0, <2>1, <3>3 DEF LagInv
    <3> QED BY <3>4, <3>5, <3>6
  <2>3. CASE ~Skips
    <3>1. /\ pc' = [pc EXCEPT ![Me] = "temp"] /\ UNCHANGED <<status, disk>>
          /\ job' = [job EXCEPT ![Me] = [root |-> root, recipe |-> recipe]]
      BY <2>1, <2>3 DEF OpenTemp, dirVars
    <3>2. pc'[Me] = "temp" /\ job'[Me].root = root /\ job'[Me].recipe = recipe
      BY <1>0, <3>1 DEF SnapTypeOK
    <3>3. WrittenStands'
      BY <2>1, <3>1 DEF RecoveryInv, WrittenStands
    <3>4. PassInv'
      BY <2>1, <3>1, <3>2 DEF PassInv
    <3>5. LagInv'
      BY <1>0, <2>1, <3>1, <3>2 DEF RecoveryInv, LagInv, Unsaved
    <3> QED BY <3>3, <3>4, <3>5
  <2> QED BY <2>2, <2>3
<1>2. CASE PassFails
  <2>1. /\ ~quiet' /\ lag' = 0 /\ UNCHANGED <<recipe, root, mutation, cadence, written, status, disk>>
        /\ pc' = [pc EXCEPT ![Me] = "idle"] /\ pc[Me] = "temp"
    BY <1>2 DEF PassFails, SaveFails, coreVars, dirVars
  <2>2. pc'[Me] = "idle" /\ status[Me] # "new"
    BY <1>0, <2>1 DEF SnapTypeOK, RecoveryInv, WritersInv
  <2>3. WrittenStands'
    BY <2>1 DEF RecoveryInv, WrittenStands
  <2>4. PassInv'
    BY <2>1, <2>2 DEF PassInv
  <2>5. LagInv'
    BY <1>0, <2>1 DEF LagInv
  <2> QED BY <2>3, <2>4, <2>5
<1>3. CASE PassSaves
  <2>1. /\ pc[Me] = "temp" /\ pc' = [pc EXCEPT ![Me] = "list"] /\ written' = job[Me] /\ lag' = 0
        /\ disk' = [disk EXCEPT ![job[Me].root][Me] = job[Me].recipe]
        /\ UNCHANGED <<recipe, root, mutation, cadence, quiet, status>>
    BY <1>3 DEF PassSaves, Rename
  <2>2. job[Me] \in [root : Root, recipe : Recipe] /\ status[Me] = "live" /\ pc'[Me] = "list"
    BY <1>0, <2>1 DEF RecoveryInv, WritersInv, SnapTypeOK
  <2>3. job[Me].root \in Root /\ disk'[job[Me].root][Me] = job[Me].recipe
    BY <1>0, <2>1, <2>2 DEF SnapTypeOK
  <2>4. WrittenStands'
    BY <2>1, <2>3 DEF WrittenStands
  <2>5. PassInv'
    BY <2>1, <2>2, <2>3 DEF RecoveryInv, PassInv
  <2>6. LagInv'
    BY <1>0, <2>1 DEF LagInv
  <2> QED BY <2>4, <2>5, <2>6
<1>4. CASE Elapse
  <2>1. /\ status[Me] = "live" /\ pc[Me] = "idle" /\ cadence # Cadence /\ cadence' = cadence + 1
        /\ UNCHANGED <<snapVars, recipe, root, written, quiet>> /\ Lag(lag + 1)
        /\ mutation' = IF mutation \in {Never, Debounce} THEN mutation ELSE mutation + 1
    BY <1>4 DEF Elapse, Due, Idle, CadenceDue
  <2>2. UNCHANGED <<status, pc, job, disk>>
    BY <2>1 DEF snapVars, writerVars, dirVars
  <2>3. WrittenStands'
    BY <2>1, <2>2 DEF RecoveryInv, WrittenStands
  <2>4. PassInv'
    <3>1. mutation' = Never => mutation = Never
      BY <1>0, <2>1 DEF Never
    <3> QED BY <2>1, <2>2, <3>1 DEF RecoveryInv, PassInv
  <2>5. LagInv'
    <3>1. lag' = IF Unsaved' THEN lag + 1 ELSE 0
      BY <2>1 DEF Lag
    <3>2. lag <= cadence /\ cadence + 1 <= Cadence
      BY <1>0, <2>1 DEF RecoveryInv, LagInv
    <3> QED BY <1>0, <2>1, <2>2, <3>1, <3>2 DEF LagInv
  <2> QED BY <2>3, <2>4, <2>5
<1> QED BY <1>1, <1>2, <1>3, <1>4

LEMMA RecoveryInvKept ==
  ASSUME RecoveryTypeOK, RecoveryInv, [RecoveryNext]_recoveryVars
  PROVE  (RecoveryTypeOK /\ RecoveryInv)'
<1>1. RecoveryTypeOK' /\ WritersInv'
  BY RecoveryTypesKept DEF RecoveryInv
<1>2. PruneInv'
  BY EveryStepIsSnap, PruneInvKept DEF RecoveryInv, RecoveryTypeOK
<1>3. WrittenStands' /\ PassInv' /\ LagInv'
  <2>1. CASE UNCHANGED recoveryVars
    BY <2>1 DEF recoveryVars, snapVars, coreVars, writerVars, dirVars, RecoveryInv, WrittenStands,
                PassInv, LagInv, Unsaved
  <2> QED BY <1>1, <2>1, DirectoryKeepsRecovery, ChangesKeepRecovery, PassKeepsRecovery
          DEF RecoveryNext, Core
<1> QED BY <1>1, <1>2, <1>3 DEF RecoveryInv

\* The invariant of recovery: snapshots are outlived by those of dead writers before they are
\* pruned, what the daemon wrote last stands, and what it has not written it will write within
\* a cadence. For any number of daemons and session roots.
THEOREM RecoveryHolds == RecoverySpec => [](RecoveryTypeOK /\ RecoveryInv)
<1>1. RecoveryInit => RecoveryTypeOK /\ RecoveryInv
  <2> SUFFICES ASSUME RecoveryInit PROVE RecoveryTypeOK /\ RecoveryInv
    OBVIOUS
  <2>1. SnapTypeOK /\ WritersInv /\ PruneInv
    BY SnapInitHolds DEF RecoveryInit
  <2>2. pc[Me] = "idle"
    BY RecoveryAssumption DEF RecoveryInit, SnapInit
  <2>3. RecoveryTypeOK
    BY <2>1, RecoveryAssumption DEF RecoveryInit, RecoveryTypeOK, Never
  <2>4. WrittenStands /\ PassInv /\ LagInv
    BY <2>2, RecoveryAssumption DEF RecoveryInit, WrittenStands, PassInv, LagInv
  <2> QED BY <2>1, <2>3, <2>4 DEF RecoveryInv
<1>2. (RecoveryTypeOK /\ RecoveryInv) /\ [RecoveryNext]_recoveryVars => (RecoveryTypeOK /\ RecoveryInv)'
  BY RecoveryInvKept
<1> QED BY <1>1, <1>2, PTL DEF RecoverySpec

\* Once a pass has gone by undisturbed the recipe is on disk, and whatever happens, short of a
\* failed write, no more than a cadence passes before it is.
THEOREM RecipesAreSaved == RecoverySpec => []RecipeIsSaved
<1>1. RecoveryInv => RecipeIsSaved
  BY DEF RecoveryInv, PassInv, LagInv, RecipeIsSaved, QuietIsSaved, BoundedLoss, Idle
<1> QED BY <1>1, RecoveryHolds, PTL

\* Whatever crashes or fails and however many daemons prune at once, a snapshot on disk is what
\* its writer last saved, and one that went was of a dead writer and outranked by Keep - 1 that
\* are there.
THEOREM SnapshotsAreKept == RecoverySpec => []SnapshotsKept
<1>1. PruneInv => SnapshotsKept
  <2> SUFFICES ASSUME PruneInv, NEW r \in Root, NEW w \in Writer, Outlived(r, w)
               PROVE  Cardinality({v \in Writer : v > w /\ disk[r][v] # None}) >= Keep - 1
    BY DEF PruneInv, SnapshotsKept
  <2>1. Heirs(r, w) \subseteq {v \in Writer : v > w /\ disk[r][v] # None}
    BY DEF Heirs
  <2> QED BY <2>1, OutlivedStays
<1> QED BY <1>1, RecoveryHolds, PTL DEF RecoveryInv

-----------------------------------------------------------------------------
(* Dates.                                                                  *)

\* The first day of a year of an era, and whether the year ends with 29 February.
FirstDay(y) == 365 * y + y \div 4 - y \div 100
EndsLeap(y) == (y + 1) % 4 = 0 /\ ((y + 1) % 100 # 0 \/ (y + 1) % 400 = 0)
LastDay(y) == FirstDay(y) + (IF EndsLeap(y) THEN 365 ELSE 364)

\* A day of an era with the quotients of YearOfEra (a by 1460, b by 36524, c by 146096, y by 365),
\* and the leap years before that year: by 4 (q) and by 100 (h).
Quotients(doe, a, b, c, y, q, h) ==
  /\ doe <= 146096 /\ c <= 1 /\ (c = 1 <=> doe = 146096)
  /\ 1460 * a <= doe /\ doe < 1460 * a + 1460
  /\ 36524 * b <= doe /\ doe < 36524 * b + 36524
  /\ 365 * y <= doe - a + b - c /\ doe - a + b - c < 365 * y + 365
  /\ 4 * q <= y /\ y < 4 * q + 4 /\ 100 * h <= y /\ y < 100 * h + 100

\* It lies in that year.
InYear(doe, y, q, h) ==
  /\ y <= 399
  /\ 365 * y + q - h <= doe
  /\ doe <= 365 * y + q - h
              + (IF y = 4 * q + 3 /\ (y # 100 * h + 99 \/ y = 399) THEN 365 ELSE 364)

\* YearOfEra is the year that a day of an era lies in.
LEMMA YearFound ==
  ASSUME NEW doe \in Nat, doe <= 146096
  PROVE  /\ YearOfEra(doe) \in Nat /\ YearOfEra(doe) <= 399
         /\ FirstDay(YearOfEra(doe)) <= doe /\ doe <= LastDay(YearOfEra(doe))
<1>1. PICK a \in Nat : a = doe \div 1460 /\ 1460 * a <= doe /\ doe < 1460 * a + 1460
  BY SMTT(30)
<1>2. PICK b \in Nat : b = doe \div 36524 /\ 36524 * b <= doe /\ doe < 36524 * b + 36524
  BY SMTT(30)
<1>3. PICK c \in Nat : c = doe \div 146096 /\ 146096 * c <= doe /\ doe < 146096 * c + 146096
  BY SMTT(30)
<1>4. doe \in Nat /\ doe - a + b - c \in Nat
  BY <1>1, <1>2, <1>3
<1>5. PICK y \in Nat : /\ y = (doe - a + b - c) \div 365
                       /\ 365 * y <= doe - a + b - c /\ doe - a + b - c < 365 * y + 365
  BY <1>4, SMTT(30)
<1>6. PICK q \in Nat : q = y \div 4 /\ 4 * q <= y /\ y < 4 * q + 4
  BY SMTT(30)
<1>7. PICK h \in Nat : h = y \div 100 /\ 100 * h <= y /\ y < 100 * h + 100
  BY SMTT(30)
<1>8. InYear(doe, y, q, h)
  <2>1. doe <= 146096 /\ c <= 1 /\ (c = 1 <=> doe = 146096)
    BY <1>3
  <2>2. Quotients(doe, a, b, c, y, q, h)
    BY <1>1, <1>2, <1>5, <1>6, <1>7, <2>1 DEF Quotients
  <2>3. y <= 399
    BY <2>2, SMTT(30) DEF Quotients
  <2> QED
    BY <2>2, <2>3, SMTT(30) DEF Quotients, InYear
<1>9. EndsLeap(y) <=> (y = 4 * q + 3 /\ (y # 100 * h + 99 \/ y = 399))
  <2>1. (y + 1) % 4 = 0 <=> y = 4 * q + 3
    BY <1>6
  <2>2. (y + 1) % 100 = 0 <=> y = 100 * h + 99
    BY <1>7
  <2>3. (y + 1) % 400 = 0 <=> y = 399
    BY <1>8 DEF InYear
  <2> QED
    BY <2>1, <2>2, <2>3 DEF EndsLeap
<1>10. YearOfEra(doe) = y
  BY <1>1, <1>2, <1>3, <1>5 DEF YearOfEra
<1> QED
  BY <1>6, <1>7, <1>8, <1>9, <1>10 DEF InYear, FirstDay, LastDay

\* The years of an era do not overlap, and leave no gap.
LEMMA YearsApart ==
  ASSUME NEW y \in Nat, y <= 399, NEW x \in Nat, x < y
  PROVE  LastDay(x) < FirstDay(y)
BY Z3 DEF FirstDay, LastDay, EndsLeap

LEMMA NextYear ==
  /\ \A y \in Nat : y < 399 => LastDay(y) + 1 = FirstDay(y + 1)
  /\ LastDay(399) = 146096 /\ FirstDay(0) = 0
BY Z3 DEF FirstDay, LastDay, EndsLeap

\* The date of a day of the year, the year beginning in March.
Date(year, doy) ==
  LET mp == (5 * doy + 2) \div 153
      m  == IF mp < 10 THEN mp + 3 ELSE mp - 9
  IN  <<year + (IF m <= 2 THEN 1 ELSE 0), m, doy - (153 * mp + 2) \div 5 + 1>>

\* Within a year, the next day has the next date.
LEMMA MonthStep ==
  ASSUME NEW year \in Nat, NEW doy \in Nat, doy <= 364, doy = 364 => EndsLeap(year)
  PROVE  Date(year, doy + 1) = DateAfter(Date(year, doy))
BY SMTT(60) DEF Date, DateAfter, DaysInMonth, LeapYear, EndsLeap

\* So has the first day of the next year.
LEMMA YearStep ==
  ASSUME NEW year \in Nat
  PROVE  Date(year + 1, 0) = DateAfter(Date(year, IF EndsLeap(year) THEN 365 ELSE 364))
<1>1. LeapYear(year + 1) <=> EndsLeap(year)
  BY DEF LeapYear, EndsLeap
<1>2. Date(year + 1, 0) = <<year + 1, 3, 1>>
  BY Z3 DEF Date
<1>3. /\ Date(year, 365) = <<year + 1, 2, 29>>
      /\ Date(year, 364) = <<year + 1, 2, 28>>
  BY Z3 DEF Date
<1>4. DateAfter(<<year + 1, 2, IF EndsLeap(year) THEN 29 ELSE 28>>) = <<year + 1, 3, 1>>
  BY <1>1, Z3 DEF DateAfter, DaysInMonth
<1> QED
  BY <1>2, <1>3, <1>4

\* That year is the only one.
LEMMA YearIs ==
  ASSUME NEW doe \in Nat, doe <= 146096, NEW y \in Nat, y <= 399,
         FirstDay(y) <= doe, doe <= LastDay(y)
  PROVE  YearOfEra(doe) = y
<1> DEFINE x == YearOfEra(doe)
<1>1. x \in Nat /\ x <= 399 /\ FirstDay(x) <= doe /\ doe <= LastDay(x)
  BY YearFound, SMT
<1> HIDE DEF x
<1>2. /\ FirstDay(x) \in Int /\ LastDay(x) \in Int
      /\ FirstDay(y) \in Int /\ LastDay(y) \in Int
  BY <1>1, SMT DEF FirstDay, LastDay
<1>3. ASSUME x < y PROVE FALSE
  <2>1. LastDay(x) < FirstDay(y)
    BY <1>1, <1>3, YearsApart, SMT
  <2> QED
    BY <1>1, <1>2, <2>1, SMT
<1>4. ASSUME y < x PROVE FALSE
  <2>1. LastDay(y) < FirstDay(x)
    BY <1>1, <1>4, YearsApart, SMT
  <2> QED
    BY <1>1, <1>2, <2>1, SMT
<1> QED
  BY <1>1, <1>3, <1>4, SMT DEF x

\* A day since 1970-01-01 is one of a year of an era.
Falls(day, era, doe, y) ==
  /\ day \in Nat /\ era \in Nat /\ doe \in Nat /\ y \in Nat
  /\ doe <= 146096 /\ y <= 399 /\ day + 719468 = era * 146097 + doe
  /\ FirstDay(y) <= doe /\ doe <= LastDay(y)

LEMMA DateIs ==
  ASSUME NEW day, NEW era, NEW doe, NEW y, Falls(day, era, doe, y)
  PROVE  CivilFromDays(day) = Date(y + era * 400, doe - FirstDay(y))
<1> USE DEF Falls
<1> DEFINE e == (day + 719468) \div 146097
           d == (day + 719468) - e * 146097
<1>1. CivilFromDays(day) = Date(YearOfEra(d) + e * 400, d - FirstDay(YearOfEra(d)))
  BY SMT DEF CivilFromDays, Date, FirstDay
<1>2. e = era
  BY Z3
<1> HIDE DEF e
<1>3. d = doe
  BY <1>2, Z3
<1>4. YearOfEra(doe) = y
  BY YearIs, SMT
<1> HIDE DEF d
<1> QED
  BY <1>1, <1>2, <1>3, <1>4

LEMMA DateFound ==
  ASSUME NEW day \in Nat
  PROVE  \E era, doe, y \in Nat : Falls(day, era, doe, y)
<1>0. PICK z \in Nat : z = day + 719468
  BY SMT
<1>1. PICK era \in Nat : era = z \div 146097 /\ 146097 * era <= z /\ z < 146097 * era + 146097
  BY SMTT(30)
<1> DEFINE doe == z - 146097 * era
           y   == YearOfEra(doe)
<1>2. doe \in Nat /\ doe <= 146096
  BY <1>1, SMT
<1>3. y \in Nat /\ y <= 399 /\ FirstDay(y) <= doe /\ doe <= LastDay(y)
  BY <1>2, YearFound, SMT
<1>4. Falls(day, era, doe, y)
  BY <1>0, <1>1, <1>2, <1>3, SMT DEF Falls
<1> QED
  BY <1>1, <1>2, <1>3, <1>4, SMT

\* The day after is the date after.
LEMMA DayStep ==
  ASSUME NEW day \in Nat
  PROVE  CivilFromDays(day + 1) = DateAfter(CivilFromDays(day))
<1>1. PICK era \in Nat, doe \in Nat, y \in Nat : Falls(day, era, doe, y)
  BY DateFound, SMT
<1>0. /\ doe <= 146096 /\ y <= 399 /\ day + 719468 = era * 146097 + doe
      /\ FirstDay(y) <= doe /\ doe <= LastDay(y)
  BY <1>1, SMT DEF Falls
<1> DEFINE year == y + era * 400
           doy  == doe - FirstDay(y)
<1>2. CivilFromDays(day) = Date(year, doy)
  BY <1>1, DateIs, SMT
<1>3. /\ FirstDay(y) \in Int /\ year \in Nat /\ doy \in Nat
      /\ LastDay(y) = FirstDay(y) + (IF EndsLeap(year) THEN 365 ELSE 364)
      /\ LastDay(y) <= 146096
  <2>1. LastDay(y) <= 146096
    BY <1>0, SMT DEF LastDay, FirstDay, EndsLeap
  <2>2. FirstDay(y) \in Int
    BY SMT DEF FirstDay
  <2>3. EndsLeap(year) <=> EndsLeap(y)
    BY Z3 DEF EndsLeap
  <2> QED
    BY <1>0, <2>1, <2>2, <2>3, SMT DEF LastDay
<1>4. CASE doe < LastDay(y)
  <2>0. Falls(day + 1, era, doe + 1, y)
    BY <1>0, <1>3, <1>4, SMT DEF Falls
  <2>1. CivilFromDays(day + 1) = Date(y + era * 400, (doe + 1) - FirstDay(y))
    BY <2>0, DateIs
  <2>2. doe + 1 - FirstDay(y) = doy + 1
    BY <1>3, SMT
  <2>3. doy <= 364 /\ (doy = 364 => EndsLeap(year))
    BY <1>3, <1>4, SMT
  <2> QED
    BY <1>2, <1>3, <2>1, <2>2, <2>3, MonthStep, SMT
<1>5. CASE doe = LastDay(y)
  <2>1. CivilFromDays(day + 1) = Date(year + 1, 0)
    <3>1. CASE y < 399
      <4>1. FirstDay(y + 1) = doe + 1
        BY <1>0, <1>5, <3>1, NextYear, SMT
      <4>2. doe + 1 <= LastDay(y + 1) /\ doe + 1 <= 146096
        BY <4>1, <3>1, SMT DEF FirstDay, LastDay, EndsLeap
      <4>3. CivilFromDays(day + 1) = Date(y + 1 + era * 400, (doe + 1) - FirstDay(y + 1))
        <5>1. Falls(day + 1, era, doe + 1, y + 1)
          BY <1>0, <3>1, <4>1, <4>2, SMT DEF Falls
        <5> QED
          BY <5>1, DateIs, SMT
      <4> QED
        BY <4>1, <4>3, SMT
    <3>2. CASE y = 399
      <4>1. doe = 146096
        BY <1>5, <3>2, NextYear, SMT
      <4>2. CivilFromDays(day + 1) = Date(0 + (era + 1) * 400, 0 - FirstDay(0))
        <5>1. FirstDay(0) <= 0 /\ 0 <= LastDay(0)
          BY SMT DEF FirstDay, LastDay, EndsLeap
        <5>2. Falls(day + 1, era + 1, 0, 0)
          BY <1>0, <4>1, <5>1, SMT DEF Falls
        <5> QED
          BY <5>2, DateIs, SMT
      <4>3. 0 + (era + 1) * 400 = year + 1 /\ 0 - FirstDay(0) = 0
        BY <3>2, NextYear, SMT
      <4> QED
        BY <4>2, <4>3, SMT
    <3> QED
      BY <1>0, <3>1, <3>2, SMT
  <2>2. doy = IF EndsLeap(year) THEN 365 ELSE 364
    BY <1>3, <1>5, SMT
  <2> QED
    BY <1>2, <1>3, <2>1, <2>2, YearStep, SMT
<1>6. doe < LastDay(y) \/ doe = LastDay(y)
  BY <1>0, <1>3, SMT
<1> QED
  BY <1>4, <1>5, <1>6

\* What precedes the process ID in a stem is compared field by field.
LEMMA Six ==
  ASSUME NEW y, NEW m, NEW d, NEW h, NEW i, NEW s
  PROVE  <<y, m, d>> \o <<h, i, s>> = <<y, m, d, h, i, s>>
<1> DEFINE S == {y, m, d, h, i, s}
           a == <<y, m, d>>
           b == <<h, i, s>>
           c == <<y, m, d, h, i, s>>
<1>1. a \in Seq(S) /\ b \in Seq(S) /\ c \in Seq(S)
  BY SMT
<1>2. /\ a \o b \in Seq(S) /\ Len(a \o b) = 6
      /\ \A n \in 1 .. 6 : (a \o b)[n] = IF n <= 3 THEN a[n] ELSE b[n - 3]
  BY <1>1, ConcatProperties
<1>3. \A n \in 1 .. 6 : (a \o b)[n] = c[n]
  BY <1>2
<1> QED
  BY <1>1, <1>2, <1>3, SeqEqual

LEMMA UtcIs ==
  ASSUME NEW day, NEW second \in Nat, NEW y, NEW m, NEW d, CivilFromDays(day) = <<y, m, d>>
  PROVE  CivilUtc(day, second)
           = <<y, m, d, second \div 3600, (second % 3600) \div 60, second % 60>>
<1> DEFINE h == second \div 3600
           i == (second % 3600) \div 60
           s == second % 60
<1>1. CivilUtc(day, second) = <<y, m, d>> \o <<h, i, s>>
  BY SMT DEF CivilUtc
<1> HIDE DEF h, i, s
<1>2. CivilUtc(day, second) = <<y, m, d, h, i, s>>
  BY <1>1, Six
<1> QED
  BY <1>2 DEF h, i, s

LEMMA BelowSix ==
  ASSUME NEW y, NEW m, NEW d, NEW h, NEW i, NEW s, NEW x, NEW n, NEW e, NEW k, NEW j, NEW t,
         \/ y < x
         \/ y = x /\ m < n
         \/ y = x /\ m = n /\ d < e
         \/ y = x /\ m = n /\ d = e /\ h < k
         \/ y = x /\ m = n /\ d = e /\ h = k /\ i < j
         \/ y = x /\ m = n /\ d = e /\ h = k /\ i = j /\ s < t
  PROVE  Below(<<y, m, d, h, i, s>>, <<x, n, e, k, j, t>>)
<1>1. CASE y < x
  BY <1>1, SMT DEF Below
<1>2. CASE y = x /\ m < n
  BY <1>2, SMT DEF Below
<1>3. CASE y = x /\ m = n /\ d < e
  BY <1>3, SMT DEF Below
<1>4. CASE y = x /\ m = n /\ d = e /\ h < k
  BY <1>4, SMT DEF Below
<1>5. CASE y = x /\ m = n /\ d = e /\ h = k /\ i < j
  BY <1>5, SMT DEF Below
<1>6. CASE y = x /\ m = n /\ d = e /\ h = k /\ i = j /\ s < t
  BY <1>6, SMT DEF Below
<1> QED
  BY <1>1, <1>2, <1>3, <1>4, <1>5, <1>6

LEMMA DateTyped ==
  ASSUME NEW day \in Nat
  PROVE  \E y, m, d \in Int : CivilFromDays(day) = <<y, m, d>>
<1>1. PICK era \in Nat, doe \in Nat, y \in Nat : Falls(day, era, doe, y)
  BY DateFound, SMT
<1> DEFINE year == y + era * 400
           doy  == doe - FirstDay(y)
<1>2. CivilFromDays(day) = Date(year, doy)
  BY <1>1, DateIs, SMT
<1>3. year \in Nat /\ doy \in Int
  BY <1>1, SMT DEF Falls, FirstDay
<1> HIDE DEF year, doy
<1> DEFINE mp == (5 * doy + 2) \div 153
           m  == IF mp < 10 THEN mp + 3 ELSE mp - 9
<1>4. mp \in Int /\ m \in Int /\ doy - (153 * mp + 2) \div 5 + 1 \in Int
  BY <1>3, SMT
<1>5. Date(year, doy) = <<year + (IF m <= 2 THEN 1 ELSE 0), m, doy - (153 * mp + 2) \div 5 + 1>>
  BY DEF Date
<1> QED
  BY <1>2, <1>3, <1>4, <1>5

LEMMA DateAfterIsLater ==
  ASSUME NEW y \in Int, NEW m \in Int, NEW d \in Int
  PROVE  \E x, n, e \in Int : /\ DateAfter(<<y, m, d>>) = <<x, n, e>>
                              /\ y < x \/ (y = x /\ m < n) \/ (y = x /\ m = n /\ d < e)
BY SMT DEF DateAfter

\* A daemon that starts a second later, on whatever day and second, has the greater stem
\* (recovery_stem, civil_from_days).
LEMMA StemAscends ==
  ASSUME NEW day \in Nat, NEW second \in Nat, second < SecondsOfDay
  PROVE  Below(CivilUtc(day, second),
               CivilUtc(day + (second + 1) \div SecondsOfDay, (second + 1) % SecondsOfDay))
<1>1. CivilFromDays(day + 1) = DateAfter(CivilFromDays(day))
  BY DayStep, SMT
<1>2. PICK y \in Int, m \in Int, d \in Int : CivilFromDays(day) = <<y, m, d>>
  BY DateTyped, SMT
<1>3. PICK x \in Int, n \in Int, e \in Int :
        /\ CivilFromDays(day + 1) = <<x, n, e>>
        /\ y < x \/ (y = x /\ m < n) \/ (y = x /\ m = n /\ d < e)
  BY <1>1, <1>2, DateAfterIsLater, SMT
<1>4. CivilUtc(day, second) = <<y, m, d, second \div 3600, (second % 3600) \div 60, second % 60>>
  BY <1>2, UtcIs, SMT
<1>5. CASE second + 1 < SecondsOfDay
  <2>1. /\ day + (second + 1) \div SecondsOfDay = day
        /\ (second + 1) % SecondsOfDay = second + 1
    BY <1>5, SMT DEF SecondsOfDay
  <2>2. CivilUtc(day, second + 1)
          = <<y, m, d, (second + 1) \div 3600, ((second + 1) % 3600) \div 60, (second + 1) % 60>>
    BY <1>2, UtcIs, SMT
  <2>3. LET h == second \div 3600        k == (second + 1) \div 3600
            i == (second % 3600) \div 60 j == ((second + 1) % 3600) \div 60
        IN  h < k \/ (h = k /\ i < j) \/ (h = k /\ i = j /\ second % 60 < (second + 1) % 60)
    BY SMTT(30)
  <2> QED
    BY <1>4, <2>1, <2>2, <2>3, BelowSix, SMT
<1>6. CASE second + 1 = SecondsOfDay
  <2>1. day + (second + 1) \div SecondsOfDay = day + 1 /\ (second + 1) % SecondsOfDay = 0
    BY <1>6, SMT DEF SecondsOfDay
  <2>2. CivilUtc(day + 1, 0) = <<x, n, e, 0 \div 3600, (0 % 3600) \div 60, 0 % 60>>
    BY <1>3, UtcIs, SMT
  <2> QED
    BY <1>3, <1>4, <2>1, <2>2, BelowSix, SMT
<1> QED
  BY <1>5, <1>6, SMT DEF SecondsOfDay

\* The stems of recovery snapshots ascend, from any day to the next, and are dates.
LEMMA StemsAlwaysAscend == StemsAscend
<1> SUFFICES ASSUME NEW day \in Days
             PROVE  /\ CivilFromDays(day + 1) = DateAfter(CivilFromDays(day))
                    /\ \A second \in {0, 59, 3599, 3600, SecondsOfDay - 1} :
                         Below(CivilUtc(day, second),
                               CivilUtc(day + (second + 1) \div SecondsOfDay,
                                        (second + 1) % SecondsOfDay))
  BY SMT DEF StemsAscend
<1>1. day \in Nat
  BY DatesAssumption, Zenon
<1>2. CivilFromDays(day + 1) = DateAfter(CivilFromDays(day))
  BY <1>1, DayStep, SMT
<1>3. ASSUME NEW second \in {0, 59, 3599, 3600, SecondsOfDay - 1}
      PROVE  Below(CivilUtc(day, second),
                   CivilUtc(day + (second + 1) \div SecondsOfDay, (second + 1) % SecondsOfDay))
  <2>1. second \in Nat /\ second < SecondsOfDay
    BY SMT DEF SecondsOfDay
  <2> QED
    BY <1>1, <2>1, StemAscends
<1> QED
  BY <1>2, <1>3

\* What is left of the snapshots of dead daemons is the newest of them: stems ascend with the
\* seconds in which daemons start, on every day that there may be.
THEOREM NewestAreKept == RecoverySpec => []NewestKept
<1>1. SnapshotsKept => NewestKept
  BY StemsAlwaysAscend DEF NewestKept
<1> QED BY <1>1, SnapshotsAreKept, PTL
=============================================================================
