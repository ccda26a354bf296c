--------------------------- MODULE SupervisorProofs ---------------------------
(* Proofs about Supervisor for every value of its constants.               *)
EXTENDS Supervisor, TLAPS

\* Type correctness: every handler leaves the task set well-typed.
THEOREM TypeCorrect == Spec => []TypeOK
<1>1. Init => TypeOK
  <2> SUFFICES ASSUME Init PROVE TypeOK
    OBVIOUS
  <2>1. label \in [Id -> Label] /\ pending \in Seq(Entry)
    BY DEF Init
  <2>2. deadline \in 0 .. Grace /\ nextId \in 1 .. (MaxId + 1) /\ tasks \subseteq 1 .. (nextId - 1)
    BY SupervisorAssumption DEF Init
  <2>3. termAge \in [Run -> -1 .. Grace] /\ run \in [Id -> 0 .. MaxRun]
    <3>1. -1 \in -1 .. Grace /\ 0 \in 0 .. MaxRun
      BY SupervisorAssumption
    <3> QED
      BY <3>1 DEF Init
  <2>4. /\ hasProc \in [Id -> BOOLEAN]
        /\ finished \in [Run -> BOOLEAN]
        /\ killSent \in [Run -> BOOLEAN]
        /\ reaped \in [Run -> BOOLEAN]
    BY DEF Init
  <2>5. /\ pidOf \in [Group -> Pid \cup {NoPid}]
        /\ leader \in [Group -> {"unborn", "alive", "zombie", "gone"}]
        /\ kids \in [Group -> BOOLEAN]
        /\ doomed \in [Group -> BOOLEAN]
    BY DEF Init
  <2> QED
    BY <2>1, <2>2, <2>3, <2>4, <2>5 DEF Init, TypeOK
<1>2. TypeOK /\ [Next]_vars => TypeOK'
  <2> SUFFICES ASSUME TypeOK, [Next]_vars PROVE TypeOK'
    OBVIOUS
  <2> USE SupervisorAssumption DEF TypeOK, Id, Run, Child, Group, None
  <2>1. CASE UNCHANGED vars
    BY <2>1 DEF vars, loopVars, rowVars, procVars, osVars
  <2>2. ASSUME NEW r \in Child, Launch(r)
        PROVE /\ pidOf' \in [Group -> Pid \cup {NoPid}]
              /\ leader' \in [Group -> {"unborn", "alive", "zombie", "gone"}]
              /\ kids' \in [Group -> BOOLEAN] /\ doomed' \in [Group -> BOOLEAN]
    BY <2>2 DEF Launch, FreePids
  <2>3. ASSUME NEW R, Terminate(R)
        PROVE /\ termAge' \in [Run -> -1 .. Grace] /\ stray' \in BOOLEAN
    BY <2>3 DEF Terminate, Terminable, Astray
  <2>4. ASSUME NEW R, ForceKill(R)
        PROVE /\ killSent' \in [Run -> BOOLEAN] /\ doomed' \in [Group -> BOOLEAN]
              /\ stray' \in BOOLEAN
    BY <2>4 DEF ForceKill, Signalled, Astray
  <2>5. ASSUME NEW R, Latch(R) PROVE finished' \in [Run -> BOOLEAN]
    BY <2>5 DEF Latch
  <2>6. ASSUME NEW R, Collect(R)
        PROVE /\ reaped' \in [Run -> BOOLEAN]
              /\ leader' \in [Group -> {"unborn", "alive", "zombie", "gone"}]
    BY <2>6 DEF Collect
  <2>7. ASSUME NEW l \in Label, Room, Enroll(l)
        PROVE /\ nextId' \in 1 .. (MaxId + 1) /\ tasks' \subseteq 1 .. (nextId' - 1)
              /\ label' \in [Id -> Label]
    BY <2>7 DEF Room, Enroll
  <2>8. Current \subseteq Run
    BY DEF Current, RunOf
  <2>9. CASE Spawn
    <3>1. <<nextId, 0>> \in Run
      BY <2>9 DEF Spawn, Room
    <3> QED
      BY <2>9, <3>1, <2>2, <2>7 DEF Spawn, loopVars, procVars
  <2>10. CASE Refuse
    BY <2>10 DEF Refuse, loopVars, rowVars, procVars, osVars
  <2>11. ASSUME NEW i \in Id, Kill(i) PROVE TypeOK'
    BY <2>11, <2>3 DEF Kill, loopVars, rowVars, procVars, osVars
  <2>12. ASSUME NEW i \in Id, Remove(i) PROVE TypeOK'
    BY <2>12, <2>3, <2>8 DEF Remove, Retire, loopVars, rowVars, procVars, osVars
  <2>13. ASSUME NEW i \in Id, RestartRefused(i) PROVE TypeOK'
    BY <2>13 DEF RestartRefused, loopVars, rowVars, procVars, osVars
  <2>14. ASSUME NEW i \in Id, RestartFails(i) PROVE TypeOK'
    BY <2>14, <2>5 DEF RestartFails, Unmark, loopVars, rowVars, procVars, osVars
  <2>15. ASSUME NEW i \in Id, Restart(i) PROVE TypeOK'
    <3>1. <<i, run[i] + 1>> \in Run
      BY <2>15 DEF Restart
    <3> QED
      BY <2>15, <3>1, <2>2, <2>3, <2>5, <2>8 DEF Restart, Retire, Unmark, loopVars
  <2>39. ASSUME NEW l \in Lost, SpawnOrphans(l) PROVE TypeOK'
    BY <2>39, <2>2 DEF SpawnOrphans, Orphans, loopVars, rowVars, procVars
  <2>40. ASSUME NEW i \in Id, NEW l \in Lost, RestartOrphans(i, l) PROVE TypeOK'
    BY <2>40, <2>2, <2>5 DEF RestartOrphans, Orphans, Unmark, loopVars, rowVars
  <2>41. ASSUME NEW l \in Lost, LoadOrphans(l) PROVE TypeOK'
    <3>1. /\ pending \in Seq(Entry) /\ pending # <<>> /\ pc = "load"
          /\ (pending' = Tail(pending) /\ pc' = pc) \/ (pending' = <<>> /\ pc' = "loop")
      BY <2>41 DEF LoadOrphans
    <3>2. Tail(pending) \in Seq(Entry) /\ <<>> \in Seq(Entry)
      BY <3>1
    <3>3. pending' \in Seq(Entry) /\ pc' \in {"loop", "load"}
      BY ONLY <3>1, <3>2
    <3> QED
      BY <2>41, <3>3, <2>2 DEF LoadOrphans, Orphans, rowVars, procVars
  <2>16. ASSUME NEW i \in {None} \cup Id, Flagship(i) PROVE TypeOK'
    BY <2>16 DEF Flagship, loopVars, rowVars, procVars, osVars
  <2>17. ASSUME NEW i \in Id, NEW l \in Label, Relabel(i, l) PROVE TypeOK'
    BY <2>17 DEF Relabel, loopVars, rowVars, procVars, osVars
  <2>18. ASSUME NEW recipe \in Recipes, Load(recipe) PROVE TypeOK'
    BY <2>18 DEF Load, loopVars, rowVars, procVars, osVars
  <2>19. CASE Shutdown
    BY <2>19, <2>3, <2>8, SMTT(30) DEF Shutdown, loopVars, rowVars, procVars, osVars
  <2>20. ASSUME NextEntry PROVE pending' \in Seq(Entry) /\ Head(pending) \in Entry
    BY <2>20 DEF NextEntry
  <2>21. CASE LoadSkips
    BY <2>21, <2>20 DEF LoadSkips, loopVars, rowVars, procVars, osVars
  <2>22. CASE LoadStopped
    BY <2>22, <2>20, <2>7 DEF LoadStopped, Entry, loopVars, procVars, osVars
  <2>23. CASE LoadLive
    <3>1. <<nextId, 0>> \in Run
      BY <2>23 DEF LoadLive, Room
    <3> QED
      BY <2>23, <3>1, <2>2, <2>7, <2>20 DEF LoadLive, Entry, Room, loopVars, procVars
  <2>24. CASE LoadDone
    BY <2>24 DEF LoadDone, loopVars, rowVars, procVars, osVars
  <2>25. ASSUME NEW miss, Reap(miss)
         PROVE /\ killSent' \in [Run -> BOOLEAN] /\ doomed' \in [Group -> BOOLEAN]
               /\ stray' \in BOOLEAN /\ finished' \in [Run -> BOOLEAN]
               /\ reaped' \in [Run -> BOOLEAN]
               /\ leader' \in [Group -> {"unborn", "alive", "zombie", "gone"}]
               /\ graveyard' \subseteq Run /\ flagship' \in {None} \cup Id
               /\ armed' \in BOOLEAN
               /\ UNCHANGED <<pending, rowVars, termAge, pidOf, kids>>
    BY <2>25, <2>4, <2>5, <2>6 DEF Reap
  <2>26. ASSUME NEW miss, Tick(miss) PROVE TypeOK'
    BY <2>26, <2>25 DEF Tick, rowVars
  <2>27. ASSUME NEW miss, ShutdownReap(miss) PROVE TypeOK'
    BY <2>27, <2>25 DEF ShutdownReap, rowVars
  <2>28. CASE MaybeWriteRecovery
    BY <2>28 DEF MaybeWriteRecovery, loopVars, rowVars, procVars, osVars
  <2>29. ASSUME DropAll PROVE TypeOK'
    BY <2>29, <2>4, <2>5, <2>6 DEF DropAll
  <2>30. CASE ShutdownClear
    BY <2>30, <2>29 DEF ShutdownClear
  <2>31. CASE FatalAccept
    BY <2>31, <2>29 DEF FatalAccept
  <2>32. CASE Elapse
    <3>1. deadline' \in 0 .. Grace
      BY <2>32 DEF Elapse
    <3>2. \A r \in Run : (IF termAge[r] \in 0 .. (Grace - 1) THEN termAge[r] + 1 ELSE termAge[r])
                           \in -1 .. Grace
      OBVIOUS
    <3>3. termAge' \in [Run -> -1 .. Grace]
      <4> HIDE DEF Run
      <4> QED
        BY <2>32, <3>2 DEF Elapse
    <3> QED
      BY <2>32, <3>1, <3>3 DEF Elapse, rowVars, osVars
  <2>33. ASSUME NEW r \in Child, LeaderExits(r) PROVE TypeOK'
    BY <2>33 DEF LeaderExits, loopVars, rowVars, procVars
  <2>34. ASSUME NEW r \in Run, Forks(r) PROVE TypeOK'
    BY <2>34 DEF Forks, loopVars, rowVars, procVars
  <2>35. ASSUME NEW r \in Run, KidsExit(r) PROVE TypeOK'
    BY <2>35 DEF KidsExit, loopVars, rowVars, procVars
  <2>36. ASSUME NEW r \in Child, InitReaps(r) PROVE TypeOK'
    BY <2>36 DEF InitReaps, loopVars, rowVars, procVars
  <2>37. ASSUME NEW f \in Foreign, ForeignStarts(f) PROVE TypeOK'
    BY <2>37 DEF ForeignStarts, FreePids, loopVars, rowVars, procVars
  <2>38. ASSUME NEW f \in Foreign, ForeignEnds(f) PROVE TypeOK'
    BY <2>38 DEF ForeignEnds, loopVars, rowVars, procVars
  <2> HIDE DEF TypeOK, Id, Run, Child, Group, None
  <2> QED
    BY <2>1, <2>9, <2>10, <2>11, <2>12, <2>13, <2>14, <2>15, <2>16, <2>17, <2>18, <2>19,
       <2>21, <2>22, <2>23, <2>24, <2>26, <2>27, <2>28, <2>30, <2>31, <2>32, <2>33, <2>34,
       <2>35, <2>36, <2>37, <2>38, <2>39, <2>40, <2>41
    DEF Next, Command, Core, Kernel, Loading
<1> QED
  BY <1>1, <1>2, PTL DEF Spec
-----------------------------------------------------------------------------
(* Signals. A held run is unreaped, so its PID is reserved and a killpg    *)
(* under it reaches its own group only.                                    *)

LEMMA HeldIsRun == TypeOK => Current \subseteq Run /\ graveyard \subseteq Run
<1> SUFFICES ASSUME TypeOK PROVE Current \subseteq Run /\ graveyard \subseteq Run
  OBVIOUS
<1>1. \A i \in tasks : i \in Id /\ run[i] \in 0 .. MaxRun
  BY SupervisorAssumption DEF TypeOK, Id
<1> QED
  BY <1>1 DEF TypeOK, Current, RunOf, Run

LEMMA StrikesOwnGroup ==
  ASSUME PidsReserved, NEW r \in Run, leader[r] \in {"alive", "zombie"}
  PROVE  Struck(r) = {r}
BY DEF PidsReserved, Struck, InUse, Child, Group

LEMMA NoneAstray ==
  ASSUME PidsReserved, NEW R \in SUBSET Run, \A r \in R : leader[r] \in {"alive", "zombie"}
  PROVE  ~Astray(R)
BY StrikesOwnGroup DEF Astray

\* TERM to held runs: only timers move.
LEMMA TerminateHeld ==
  ASSUME TypeOK, SignalInv, NEW R \in SUBSET (Current \cup graveyard), Terminate(R)
  PROVE  /\ stray' = stray
         /\ \A r \in R : termAge'[r] >= 0
         /\ \A r \in Run : termAge'[r] = termAge[r] \/ (r \in R /\ termAge[r] = -1 /\ termAge'[r] = 0)
<1>1. Terminable(R) \in SUBSET Run /\ \A r \in Terminable(R) : leader[r] \in {"alive", "zombie"}
  BY HeldIsRun DEF Terminable, SignalInv, HeldIsUnreaped
<1>2. ~Astray(Terminable(R))
  BY <1>1, NoneAstray DEF SignalInv
<1>3. \A r \in R : r \in Run /\ ~reaped[r]
  BY HeldIsRun DEF SignalInv, HeldIsUnreaped
<1>4. \A r \in Run : termAge[r] = -1 \/ termAge[r] >= 0
  BY SupervisorAssumption DEF TypeOK
<1>5. \A r \in Run : termAge'[r] = IF r \in Terminable(R) THEN 0 ELSE termAge[r]
  BY DEF Terminate
<1>6. stray' = stray
  BY <1>2 DEF Terminate, TypeOK
<1> QED
  BY <1>3, <1>4, <1>5, <1>6 DEF Terminable

\* KILL to held runs: exactly they are doomed.
LEMMA ForceKillHeld ==
  ASSUME TypeOK, SignalInv, NEW R \in SUBSET (Current \cup graveyard), ForceKill(R)
  PROVE  /\ stray' = stray
         /\ \A r \in Run : doomed'[r] <=> doomed[r] \/ r \in R
         /\ \A r \in Run : killSent'[r] <=> killSent[r] \/ r \in R
<1>1. R \in SUBSET Run /\ \A r \in R : leader[r] \in {"alive", "zombie"} /\ ~reaped[r]
  BY HeldIsRun DEF SignalInv, HeldIsUnreaped
<1>2. Signalled(R) = R
  BY <1>1 DEF Signalled
<1>3. ~Astray(R)
  BY <1>1, NoneAstray DEF SignalInv
<1>4. \A r \in R : Struck(r) = {r}
  BY <1>1, StrikesOwnGroup DEF SignalInv
<1>5. stray' = stray
  BY <1>2, <1>3 DEF ForceKill, TypeOK
<1>6. \A r \in Run : doomed'[r] <=> doomed[r] \/ r \in R
  <2>1. \A g \in Group : doomed'[g] = (doomed[g] \/ \E r \in R : g \in Struck(r))
    BY <1>2 DEF ForceKill
  <2>2. \A g \in Run : g \in Group /\ doomed[g] \in BOOLEAN
    BY DEF TypeOK, Child, Group
  <2>3. \A g \in Run : (\E r \in R : g \in Struck(r)) <=> g \in R
    BY <1>4
  <2> QED
    BY <2>1, <2>2, <2>3
<1>7. \A r \in Run : killSent'[r] <=> killSent[r] \/ r \in R
  BY DEF ForceKill, TypeOK
<1> QED
  BY <1>5, <1>6, <1>7

\* Nothing moves but the timers, the labels, the mark, the latched exits and
\* what the core thread is doing.
LEMMA QuietStep ==
  ASSUME TypeOK, SignalInv, Current' = Current,
         UNCHANGED <<nextId, run, hasProc, graveyard, killSent, reaped, osVars, stray>>,
         pc' \in {"loop", "write", "load"}, pc # "stopped",
         \A r \in Run : termAge'[r] = termAge[r] \/ (r \in Current /\ termAge'[r] >= 0)
  PROVE  SignalInv'
<1>1. NoStraySignal' /\ EveryRunHeld' /\ NoSurvivors' /\ StoppedIsEmpty'
  BY DEF SignalInv, NoStraySignal, EveryRunHeld, NoSurvivors, InUse, StoppedIsEmpty, osVars
<1>2. PidsReserved' /\ NoEarlyKids' /\ Fresh'
  BY DEF SignalInv, PidsReserved, NoEarlyKids, Fresh, InUse, osVars
<1>3. HeldIsUnreaped' /\ GoneIsDoomed' /\ TimersCoverDeadline'
  BY DEF SignalInv, HeldIsUnreaped, GoneIsDoomed, TimersCoverDeadline, osVars
<1>4. UnbornIsClean' /\ SignalsNoted'
  BY HeldIsRun DEF SignalInv, UnbornIsClean, SignalsNoted, HeldIsUnreaped, osVars
<1> QED
  BY <1>1, <1>2, <1>3, <1>4 DEF SignalInv

\* Starting a run under a PID nothing holds.
LEMMA LaunchKeeps ==
  ASSUME TypeOK, SignalInv, NEW r \in Child, leader[r] = "unborn", Launch(r)
  PROVE  /\ PidsReserved' /\ NoEarlyKids' /\ GoneIsDoomed'
         /\ leader'[r] = "alive" /\ ~kids'[r]
         /\ \A g \in Group \ {r} : leader'[g] = leader[g] /\ pidOf'[g] = pidOf[g]
         /\ UNCHANGED <<kids, doomed>>
<1>1. r \in Group /\ ~kids[r]
  BY DEF Group, SignalInv, NoEarlyKids
<1>2. PICK p \in FreePids : pidOf' = [pidOf EXCEPT ![r] = p]
  BY DEF Launch
<1>3. \A g \in Group : InUse(g) => pidOf[g] # p
  BY <1>2 DEF FreePids
<1>4. leader' = [leader EXCEPT ![r] = "alive"] /\ UNCHANGED <<kids, doomed>>
  BY DEF Launch
<1>5. pidOf'[r] = p /\ leader'[r] = "alive"
  BY <1>1, <1>2, <1>4 DEF TypeOK
<1>6. \A g \in Group \ {r} : leader'[g] = leader[g] /\ pidOf'[g] = pidOf[g]
  BY <1>2, <1>4 DEF TypeOK
<1>7. PidsReserved'
  BY <1>3, <1>4, <1>5, <1>6 DEF SignalInv, PidsReserved, InUse
<1>8. NoEarlyKids' /\ GoneIsDoomed'
  BY <1>1, <1>4, <1>5, <1>6 DEF SignalInv, NoEarlyKids, GoneIsDoomed, Child, Group
<1> QED
  BY <1>1, <1>4, <1>5, <1>6, <1>7, <1>8

\* A child that no row is given (SpawnOrphans, RestartOrphans, LoadOrphans).
LEMMA OrphanStep ==
  ASSUME TypeOK, SignalInv, NEW l \in Lost, Orphans(l), Current' = Current,
         pc' \in {"loop", "load"}, pc # "stopped",
         UNCHANGED <<nextId, run, hasProc, graveyard, termAge, killSent, reaped, stray>>
  PROVE  SignalInv'
<1>1. l \in Child /\ l \notin Run
  BY SupervisorAssumption DEF Child
<1>2. /\ PidsReserved' /\ NoEarlyKids' /\ GoneIsDoomed'
      /\ \A g \in Group \ {l} : leader'[g] = leader[g] /\ pidOf'[g] = pidOf[g]
      /\ UNCHANGED <<kids, doomed>>
  BY <1>1, LaunchKeeps DEF Orphans
<1>3. \A r \in Run : leader'[r] = leader[r]
  BY <1>1, <1>2 DEF Child, Group
<1>4. NoStraySignal' /\ EveryRunHeld' /\ NoSurvivors' /\ StoppedIsEmpty'
  BY <1>2, <1>3 DEF SignalInv, NoStraySignal, EveryRunHeld, NoSurvivors, InUse, StoppedIsEmpty
<1>5. Fresh'
  BY <1>3 DEF SignalInv, Fresh, Run
<1>6. HeldIsUnreaped' /\ TimersCoverDeadline' /\ UnbornIsClean' /\ SignalsNoted'
  BY <1>2, <1>3, HeldIsRun DEF SignalInv, HeldIsUnreaped, TimersCoverDeadline, UnbornIsClean, SignalsNoted
<1> QED
  BY <1>2, <1>4, <1>5, <1>6 DEF SignalInv

\* A new row whose process has just been started (Spawn, LoadLive).
LEMMA NewRowStep ==
  ASSUME TypeOK, SignalInv, pc \in {"loop", "load"}, pc' = pc, nextId <= MaxId,
         nextId' = nextId + 1, tasks' = tasks \cup {nextId},
         hasProc' = [hasProc EXCEPT ![nextId] = TRUE],
         Launch(<<nextId, 0>>),
         UNCHANGED <<run, graveyard, termAge, killSent, reaped, stray>>
  PROVE  SignalInv'
<1> DEFINE new == <<nextId, 0>>
<1>1. nextId \in Id /\ new \in Run /\ leader[new] = "unborn" /\ run[nextId] = 0
  <2>1. nextId \in Id /\ 0 \in 0 .. MaxRun
    BY SupervisorAssumption DEF TypeOK, Id
  <2>2. run[nextId] = 0
    BY <2>1, SupervisorAssumption DEF SignalInv, Fresh, Id
  <2>3. leader[new] = "unborn"
    BY <2>1, SupervisorAssumption DEF SignalInv, Fresh, Id
  <2> QED
    BY <2>1, <2>2, <2>3 DEF Run
<1>2. Current' = Current \cup {new}
  <2>1. \A i \in tasks : hasProc'[i] = hasProc[i] /\ run'[i] = run[i]
    <3>1. \A i \in tasks : i \in Id /\ i # nextId
      BY SupervisorAssumption DEF TypeOK, Id
    <3> QED
      BY <3>1 DEF TypeOK
  <2>2. hasProc'[nextId] = TRUE /\ run'[nextId] = 0
    BY <1>1 DEF TypeOK
  <2>3. Current' = {<<i, run'[i]>> : i \in {j \in tasks' : hasProc'[j]}}
    BY DEF Current, RunOf
  <2>4. Current = {<<i, run[i]>> : i \in {j \in tasks : hasProc[j]}}
    BY DEF Current, RunOf
  <2> QED
    BY <1>1, <2>1, <2>2, <2>3, <2>4
<1>3. /\ PidsReserved' /\ NoEarlyKids' /\ GoneIsDoomed'
      /\ leader'[new] = "alive" /\ ~kids'[new]
      /\ \A g \in Group \ {new} : leader'[g] = leader[g] /\ pidOf'[g] = pidOf[g]
      /\ UNCHANGED <<kids, doomed>>
  BY <1>1, LaunchKeeps DEF Child
<1>4. new \notin Current /\ new \notin graveyard /\ ~reaped[new]
  BY <1>1 DEF SignalInv, HeldIsUnreaped, UnbornIsClean
<1>5. NoStraySignal' /\ EveryRunHeld' /\ HeldIsUnreaped'
  BY <1>1, <1>2, <1>3, <1>4, HeldIsRun
  DEF SignalInv, NoStraySignal, EveryRunHeld, HeldIsUnreaped, Child, Group
<1>6. NoSurvivors' /\ UnbornIsClean'
  BY <1>1, <1>3 DEF SignalInv, NoSurvivors, UnbornIsClean, InUse, Child, Group
<1>7. Fresh'
  <2> SUFFICES ASSUME NEW i \in Id
               PROVE  /\ \A n \in 0 .. MaxRun :
                           i >= nextId' \/ n > run'[i] => leader'[<<i, n>>] = "unborn"
                      /\ i >= nextId' => ~hasProc'[i] /\ run'[i] = 0
    BY DEF Fresh
  <2>1. nextId \in Nat /\ i \in Nat
    BY SupervisorAssumption DEF TypeOK, Id
  <2>2. i >= nextId' => i >= nextId /\ i # nextId
    BY <2>1
  <2>3. ASSUME NEW n \in 0 .. MaxRun, i >= nextId' \/ n > run'[i]
        PROVE  leader'[<<i, n>>] = "unborn"
    <3>1. <<i, n>> # new
      BY <2>2, <2>3, <1>1
    <3>2. leader[<<i, n>>] = "unborn"
      BY <2>2, <2>3 DEF SignalInv, Fresh
    <3> QED
      BY <3>1, <3>2, <1>3 DEF Child, Group, Run
  <2>4. i >= nextId' => ~hasProc'[i] /\ run'[i] = 0
    BY <2>2 DEF SignalInv, Fresh, TypeOK
  <2> QED
    BY <2>3, <2>4
<1>8. SignalsNoted' /\ TimersCoverDeadline' /\ StoppedIsEmpty'
  BY <1>3 DEF SignalInv, SignalsNoted, TimersCoverDeadline, StoppedIsEmpty
<1> QED
  BY <1>3, <1>5, <1>6, <1>7, <1>8 DEF SignalInv
\* A row that loses its run to the graveyard, and the run is sent TERM.
LEMMA RemoveStep ==
  ASSUME TypeOK, SignalInv, NEW i \in Id, Remove(i)
  PROVE  SignalInv'
<1> DEFINE old == Current \cap {RunOf(i)}
<1>1. UNCHANGED <<pc, deadline, nextId, run, hasProc, killSent, reaped, osVars>>
  BY DEF Remove, loopVars
<1>2. Current' = Current \ old
  <2>1. Current' = {<<j, run[j]>> : j \in {k \in tasks \ {i} : hasProc[k]}}
    BY DEF Remove, Current, RunOf
  <2>2. Current = {<<j, run[j]>> : j \in {k \in tasks : hasProc[k]}}
    BY DEF Current, RunOf
  <2> QED
    BY <2>1, <2>2 DEF RunOf
<1>3. graveyard' = graveyard \cup old /\ Terminate(old) /\ old \in SUBSET (Current \cup graveyard)
  BY DEF Remove, Retire
<1>4. /\ stray' = stray
      /\ \A r \in old : termAge'[r] >= 0
      /\ \A r \in Run : termAge'[r] = termAge[r] \/ (r \in old /\ termAge[r] = -1 /\ termAge'[r] = 0)
  BY <1>3, TerminateHeld
<1>5. NoStraySignal' /\ EveryRunHeld' /\ NoSurvivors' /\ HeldIsUnreaped' /\ GoneIsDoomed'
  BY <1>1, <1>2, <1>3, <1>4
  DEF SignalInv, NoStraySignal, EveryRunHeld, NoSurvivors, HeldIsUnreaped, GoneIsDoomed, InUse, osVars
<1>6. PidsReserved' /\ NoEarlyKids' /\ Fresh'
  BY <1>1 DEF SignalInv, PidsReserved, NoEarlyKids, Fresh, InUse, osVars
<1>7. UnbornIsClean' /\ SignalsNoted'
  BY <1>1, <1>3, <1>4, HeldIsRun DEF SignalInv, UnbornIsClean, SignalsNoted, HeldIsUnreaped, osVars
<1>8. TimersCoverDeadline' /\ StoppedIsEmpty'
  BY <1>1 DEF Remove, TimersCoverDeadline, StoppedIsEmpty
<1> QED
  BY <1>5, <1>6, <1>7, <1>8 DEF SignalInv

\* A row whose run is replaced: one launch and one retirement.
LEMMA RestartStep ==
  ASSUME TypeOK, TypeOK', SignalInv, NEW i \in Id, Restart(i)
  PROVE  SignalInv'
<1> DEFINE old == Current \cap {RunOf(i)}
           new == <<i, run[i] + 1>>
<1>1. i \in tasks /\ run[i] + 1 \in 0 .. MaxRun /\ run[i] \in Nat /\ pc = "loop"
  BY SupervisorAssumption DEF Restart, Restartable, TypeOK
<1>2. new \in Run /\ leader[new] = "unborn"
  BY <1>1 DEF SignalInv, Fresh, Run
<1>3. /\ PidsReserved' /\ NoEarlyKids' /\ GoneIsDoomed'
      /\ leader'[new] = "alive" /\ ~kids'[new]
      /\ \A g \in Group \ {new} : leader'[g] = leader[g] /\ pidOf'[g] = pidOf[g]
      /\ UNCHANGED <<kids, doomed>>
  <2>1. Launch(new)
    BY DEF Restart
  <2> QED
    BY <1>2, <2>1, LaunchKeeps DEF Child
<1>4. Current' = (Current \ old) \cup {new}
  <2>1. tasks' = tasks /\ run' = [run EXCEPT ![i] = run[i] + 1]
        /\ hasProc' = [hasProc EXCEPT ![i] = TRUE]
    BY DEF Restart
  <2>2. \A j \in tasks \ {i} : hasProc'[j] = hasProc[j] /\ run'[j] = run[j]
    BY <2>1 DEF TypeOK
  <2>3. hasProc'[i] /\ run'[i] = run[i] + 1
    BY <2>1 DEF TypeOK
  <2>4. Current' = {<<j, run'[j]>> : j \in {k \in tasks : hasProc'[k]}}
    BY <2>1 DEF Current, RunOf
  <2>5. Current = {<<j, run[j]>> : j \in {k \in tasks : hasProc[k]}}
    BY DEF Current, RunOf
  <2>6. Current \ old = {<<j, run[j]>> : j \in {k \in tasks \ {i} : hasProc[k]}}
    BY <2>5 DEF RunOf
  <2> QED
    BY <1>1, <2>2, <2>3, <2>4, <2>6
<1>5. graveyard' = graveyard \cup old /\ Terminate(old) /\ old \in SUBSET (Current \cup graveyard)
  BY DEF Restart, Retire
<1>6. /\ stray' = stray
      /\ \A r \in old : termAge'[r] >= 0
      /\ \A r \in Run : termAge'[r] = termAge[r] \/ (r \in old /\ termAge[r] = -1 /\ termAge'[r] = 0)
  BY <1>5, TerminateHeld
<1>7. new \notin Current /\ new \notin graveyard /\ ~reaped[new]
  BY <1>2 DEF SignalInv, HeldIsUnreaped, UnbornIsClean
<1>8. UNCHANGED <<pc, deadline, nextId, killSent, reaped>>
  BY DEF Restart, loopVars
<1> HIDE DEF old, new
<1>9. NoStraySignal' /\ EveryRunHeld' /\ HeldIsUnreaped'
  BY <1>2, <1>3, <1>4, <1>5, <1>6, <1>7, <1>8, HeldIsRun
  DEF SignalInv, NoStraySignal, EveryRunHeld, HeldIsUnreaped, Child, Group
<1>10. NoSurvivors'
  BY <1>1, <1>2, <1>3, <1>8 DEF SignalInv, NoSurvivors, InUse, Child, Group
<1>11. UnbornIsClean' /\ SignalsNoted'
  BY <1>2, <1>3, <1>5, <1>6, <1>8, HeldIsRun
  DEF SignalInv, UnbornIsClean, SignalsNoted, HeldIsUnreaped, Child, Group
<1>12. Fresh'
  <2>1. run' = [run EXCEPT ![i] = run[i] + 1] /\ hasProc' = [hasProc EXCEPT ![i] = TRUE]
    BY DEF Restart
  <2>2. i < nextId
    BY <1>1, SupervisorAssumption DEF TypeOK
  <2>3. \A j \in Id, n \in 0 .. MaxRun :
          j >= nextId \/ n > run'[j] => leader'[<<j, n>>] = "unborn"
    <3> SUFFICES ASSUME NEW j \in Id, NEW n \in 0 .. MaxRun, j >= nextId \/ n > run'[j]
                 PROVE  leader'[<<j, n>>] = "unborn"
      OBVIOUS
    <3>1. j >= nextId \/ n > run[j]
      BY <2>1, <1>1 DEF TypeOK, Id
    <3>2. <<j, n>> # new
      BY <2>1, <2>2, <1>1 DEF new, TypeOK, Id
    <3>3. leader[<<j, n>>] = "unborn"
      BY <3>1 DEF SignalInv, Fresh
    <3> QED
      BY <3>2, <3>3, <1>3 DEF Child, Group, Run
  <2>4. \A j \in Id : j >= nextId => ~hasProc'[j] /\ run'[j] = 0
    BY <2>1, <2>2 DEF SignalInv, Fresh, TypeOK, Id
  <2> QED
    BY <1>8, <2>3, <2>4 DEF Fresh
<1>13. TimersCoverDeadline' /\ StoppedIsEmpty'
  BY <1>1, <1>8 DEF TimersCoverDeadline, StoppedIsEmpty
<1> QED
  BY <1>3, <1>9, <1>10, <1>11, <1>12, <1>13 DEF SignalInv
LEMMA ShutdownStep ==
  ASSUME TypeOK, SignalInv, Shutdown
  PROVE  SignalInv'
<1>1. /\ pc = "loop" /\ pc' = "shutdown" /\ deadline' = Grace /\ Terminate(Current)
      /\ UNCHANGED <<rowVars, graveyard, killSent, reaped, osVars>>
  BY DEF Shutdown
<1>2. /\ stray' = stray
      /\ \A r \in Current : termAge'[r] >= 0
      /\ \A r \in Run : termAge'[r] = termAge[r] \/ (r \in Current /\ termAge[r] = -1 /\ termAge'[r] = 0)
  BY <1>1, TerminateHeld
<1>3. Current' = Current
  BY <1>1 DEF Current, RunOf, rowVars
<1>4. NoStraySignal' /\ EveryRunHeld' /\ NoSurvivors' /\ HeldIsUnreaped' /\ GoneIsDoomed'
  BY <1>1, <1>2, <1>3
  DEF SignalInv, NoStraySignal, EveryRunHeld, NoSurvivors, HeldIsUnreaped, GoneIsDoomed, InUse, osVars
<1>5. PidsReserved' /\ NoEarlyKids' /\ Fresh'
  BY <1>1 DEF SignalInv, PidsReserved, NoEarlyKids, Fresh, InUse, osVars, rowVars
<1>6. UnbornIsClean' /\ SignalsNoted'
  BY <1>1, <1>2, <1>3, HeldIsRun DEF SignalInv, UnbornIsClean, SignalsNoted, HeldIsUnreaped, osVars
<1>7. TimersCoverDeadline' /\ StoppedIsEmpty'
  <2>1. \A r \in Current \cup graveyard : termAge'[r] >= 0 /\ termAge'[r] \in Int
    <3>1. \A r \in Run : termAge[r] \in Int
      BY SupervisorAssumption DEF TypeOK
    <3> QED
      BY <1>2, <3>1, HeldIsRun DEF SignalInv, SignalsNoted
  <2> QED
    BY <1>1, <1>3, <2>1, SupervisorAssumption DEF TimersCoverDeadline, StoppedIsEmpty
<1> QED
  BY <1>4, <1>5, <1>6, <1>7 DEF SignalInv

\* A reap pass, whether the loop or a shutdown makes it.
LEMMA ReapStep ==
  ASSUME TypeOK, SignalInv, NEW miss, Reap(miss), pc # "stopped", pc' # "stopped",
         pc' = "shutdown" => pc = "shutdown", deadline' = deadline
  PROVE  SignalInv'
<1> DEFINE held == Current \cup graveyard
           overdue == {r \in held : Overdue(r)}
           collected == {r \in graveyard \ miss :
                           (killSent[r] \/ r \in overdue) /\ leader[r] = "zombie"}
<1>1. /\ ForceKill(overdue) /\ Collect(collected) /\ graveyard' = graveyard \ collected
      /\ UNCHANGED <<rowVars, termAge, pidOf, kids>>
  BY DEF Reap
<1>2. /\ stray' = stray
      /\ \A r \in Run : doomed'[r] <=> doomed[r] \/ r \in overdue
      /\ \A r \in Run : killSent'[r] <=> killSent[r] \/ r \in overdue
  BY <1>1, ForceKillHeld
<1>3. collected \subseteq graveyard /\ \A r \in collected : doomed'[r] /\ r \in Run /\ leader[r] = "zombie"
  BY <1>2, HeldIsRun DEF SignalInv, SignalsNoted
<1> HIDE DEF overdue, collected
<1>4. /\ \A g \in Group \ collected : leader'[g] = leader[g]
      /\ \A g \in collected : leader'[g] = "gone" /\ reaped'[g]
      /\ \A r \in Run \ collected : reaped'[r] = reaped[r]
  BY <1>1, <1>3 DEF Collect, Child, Group, TypeOK
<1>5. Current' = Current
  BY <1>1 DEF Current, RunOf, rowVars
<1>6. Current \cap graveyard = {}
  BY DEF SignalInv, EveryRunHeld
<1>7. NoStraySignal' /\ EveryRunHeld' /\ HeldIsUnreaped'
  BY <1>1, <1>2, <1>3, <1>4, <1>5, <1>6, HeldIsRun
  DEF SignalInv, NoStraySignal, EveryRunHeld, HeldIsUnreaped, Child, Group
<1>8. PidsReserved' /\ NoEarlyKids'
  BY <1>1, <1>3, <1>4 DEF SignalInv, PidsReserved, NoEarlyKids, InUse, Child, Group
<1>9. NoSurvivors' /\ GoneIsDoomed'
  BY <1>1, <1>2, <1>3, <1>4 DEF SignalInv, NoSurvivors, GoneIsDoomed, InUse, Child, Group
<1>10. Fresh'
  BY <1>1, <1>3, <1>4 DEF SignalInv, Fresh, rowVars, Run, Child, Group
<1>11. UnbornIsClean' /\ SignalsNoted'
  <2>1. overdue \subseteq held /\ \A r \in held : leader[r] # "unborn"
    BY DEF overdue, SignalInv, HeldIsUnreaped
  <2> QED
    BY <1>1, <1>2, <1>3, <1>4, <2>1 DEF SignalInv, UnbornIsClean, SignalsNoted, Child, Group
<1>12. TimersCoverDeadline' /\ StoppedIsEmpty'
  BY <1>1, <1>5 DEF SignalInv, TimersCoverDeadline, StoppedIsEmpty
<1> QED
  BY <1>7, <1>8, <1>9, <1>10, <1>11, <1>12 DEF SignalInv

\* Dropping the whole fleet.
LEMMA DropStep ==
  ASSUME TypeOK, SignalInv, DropAll, pc # "stopped"
  PROVE  SignalInv'
<1> DEFINE held == Current \cup graveyard
           collected == {r \in held : leader[r] = "zombie"}
<1>1. /\ ForceKill(held) /\ Collect(collected) /\ tasks' = {} /\ graveyard' = {}
      /\ pc' = "stopped" /\ UNCHANGED <<nextId, run, hasProc, termAge, pidOf, kids>>
  BY DEF DropAll
<1>2. /\ stray' = stray
      /\ \A r \in Run : doomed'[r] <=> doomed[r] \/ r \in held
      /\ \A r \in Run : killSent'[r] <=> killSent[r] \/ r \in held
  BY <1>1, ForceKillHeld
<1>3. collected \subseteq Run /\ \A r \in collected : leader[r] = "zombie" /\ doomed'[r]
  BY <1>2, HeldIsRun
<1>4. Current' = {}
  BY <1>1 DEF Current
<1>5. held \subseteq Run /\ \A r \in held : leader[r] # "unborn"
  BY HeldIsRun DEF SignalInv, HeldIsUnreaped
<1>6. \A r \in Run : leader[r] \in {"alive", "zombie"} => r \in held
  BY DEF SignalInv, EveryRunHeld
<1> HIDE DEF held, collected
<1>7. /\ \A g \in Group \ collected : leader'[g] = leader[g]
      /\ \A g \in collected : leader'[g] = "gone"
      /\ \A r \in Run \ collected : reaped'[r] = reaped[r]
  BY <1>1, <1>3 DEF Collect, Child, Group, TypeOK
<1>8. NoStraySignal' /\ EveryRunHeld' /\ HeldIsUnreaped' /\ StoppedIsEmpty' /\ TimersCoverDeadline'
  BY <1>1, <1>2, <1>4 DEF SignalInv, NoStraySignal, EveryRunHeld, HeldIsUnreaped, StoppedIsEmpty,
     TimersCoverDeadline
<1>9. PidsReserved' /\ NoEarlyKids'
  BY <1>1, <1>3, <1>7 DEF SignalInv, PidsReserved, NoEarlyKids, InUse, Child, Group
<1>10. GoneIsDoomed'
  BY <1>2, <1>3, <1>7 DEF SignalInv, GoneIsDoomed, Child, Group
<1>11. NoSurvivors'
  <2> SUFFICES ASSUME NEW r \in Run, InUse(r)' PROVE doomed'[r]
    BY DEF NoSurvivors
  <2>1. CASE r \in held
    BY <2>1, <1>2
  <2>2. CASE r \notin held
    <3>1. leader[r] \in {"unborn", "gone"}
      BY <2>2, <1>6 DEF TypeOK, Child, Group
    <3>2. ~(leader[r] = "unborn")
      <4>1. r \notin collected
        BY <2>2 DEF collected
      <4> QED
        BY <3>1, <4>1, <1>1, <1>7 DEF SignalInv, NoEarlyKids, InUse, Child, Group
    <3> QED
      BY <3>1, <3>2, <1>2 DEF SignalInv, GoneIsDoomed
  <2> QED
    BY <2>1, <2>2
<1>12. Fresh'
  BY <1>1, <1>3, <1>7 DEF SignalInv, Fresh, Run, Child, Group
<1>13. UnbornIsClean' /\ SignalsNoted'
  BY <1>1, <1>2, <1>3, <1>5, <1>7 DEF SignalInv, UnbornIsClean, SignalsNoted, Child, Group
<1> QED
  BY <1>8, <1>9, <1>10, <1>11, <1>12, <1>13 DEF SignalInv

\* An entry that is loaded stopped: a row without a run.
LEMMA LoadStoppedStep ==
  ASSUME TypeOK, SignalInv, LoadStopped
  PROVE  SignalInv'
<1>1. /\ pc = "load" /\ pc' = "load" /\ nextId <= MaxId
      /\ nextId' = nextId + 1 /\ tasks' = tasks \cup {nextId}
      /\ UNCHANGED <<run, hasProc, graveyard, termAge, killSent, reaped, osVars, stray>>
  BY DEF LoadStopped, NextEntry, Room, Enroll, procVars
<1>2. nextId \in Id
  BY <1>1, SupervisorAssumption DEF TypeOK, Id
<1>3. ~hasProc[nextId]
  BY <1>2, SupervisorAssumption DEF SignalInv, Fresh, Id
<1>4. Current' = Current
  <2>1. Current' = {<<i, run[i]>> : i \in {j \in tasks \cup {nextId} : hasProc[j]}}
    BY <1>1 DEF Current, RunOf
  <2>2. Current = {<<i, run[i]>> : i \in {j \in tasks : hasProc[j]}}
    BY DEF Current, RunOf
  <2> QED
    BY <1>3, <2>1, <2>2
<1>5. NoStraySignal' /\ EveryRunHeld' /\ NoSurvivors' /\ HeldIsUnreaped' /\ GoneIsDoomed'
  BY <1>1, <1>4
  DEF SignalInv, NoStraySignal, EveryRunHeld, NoSurvivors, HeldIsUnreaped, GoneIsDoomed, InUse, osVars
<1>6. PidsReserved' /\ NoEarlyKids' /\ UnbornIsClean' /\ SignalsNoted'
  BY <1>1 DEF SignalInv, PidsReserved, NoEarlyKids, UnbornIsClean, SignalsNoted, InUse, osVars
<1>7. Fresh'
  <2>1. \A i \in Id : i \in Nat /\ nextId \in Nat
    BY <1>2, SupervisorAssumption DEF Id
  <2>2. \A i \in Id : i >= nextId' => i >= nextId
    BY <1>1, <2>1
  <2> QED
    BY <1>1, <2>2 DEF SignalInv, Fresh, osVars
<1>8. TimersCoverDeadline' /\ StoppedIsEmpty'
  BY <1>1 DEF TimersCoverDeadline, StoppedIsEmpty
<1> QED
  BY <1>5, <1>6, <1>7, <1>8 DEF SignalInv

\* A clock tick moves every running timer and the shutdown deadline together.
LEMMA ElapseStep ==
  ASSUME TypeOK, SignalInv, Elapse
  PROVE  SignalInv'
<1>1. /\ UNCHANGED <<pc, rowVars, graveyard, killSent, reaped, osVars, stray>>
      /\ deadline' = IF deadline > 0 THEN deadline - 1 ELSE 0
  BY DEF Elapse
<1>2. \A r \in Run : termAge'[r] = IF termAge[r] \in 0 .. (Grace - 1)
                                     THEN termAge[r] + 1 ELSE termAge[r]
  BY DEF Elapse
<1>3. Current' = Current
  BY <1>1 DEF Current, RunOf, rowVars
<1>4. NoStraySignal' /\ EveryRunHeld' /\ NoSurvivors' /\ HeldIsUnreaped' /\ GoneIsDoomed'
  BY <1>1, <1>3
  DEF SignalInv, NoStraySignal, EveryRunHeld, NoSurvivors, HeldIsUnreaped, GoneIsDoomed, InUse, osVars
<1>5. PidsReserved' /\ NoEarlyKids' /\ Fresh' /\ StoppedIsEmpty'
  BY <1>1 DEF SignalInv, PidsReserved, NoEarlyKids, Fresh, StoppedIsEmpty, InUse, osVars, rowVars
<1>6. Grace \in Nat /\ deadline \in 0 .. Grace /\ \A r \in Run : termAge[r] \in -1 .. Grace
  BY SupervisorAssumption DEF TypeOK
<1>7. \A r \in Run : /\ termAge[r] = -1 => termAge'[r] = -1
                     /\ termAge[r] >= 0 => termAge'[r] >= 0
                     /\ termAge[r] >= 0 /\ termAge[r] + deadline >= Grace
                          => termAge'[r] + deadline' >= Grace
  <2> SUFFICES ASSUME NEW r \in Run
               PROVE  /\ termAge[r] = -1 => termAge'[r] = -1
                      /\ termAge[r] >= 0 => termAge'[r] >= 0
                      /\ termAge[r] >= 0 /\ termAge[r] + deadline >= Grace
                           => termAge'[r] + deadline' >= Grace
    OBVIOUS
  <2>1. /\ termAge'[r] = IF termAge[r] \in 0 .. (Grace - 1)
                            THEN termAge[r] + 1 ELSE termAge[r]
        /\ termAge[r] \in -1 .. Grace
    BY <1>2, <1>6
  <2> QED
    BY <1>1, <1>6, <2>1
<1>8. UnbornIsClean' /\ SignalsNoted'
  BY <1>1, <1>7, HeldIsRun DEF SignalInv, UnbornIsClean, SignalsNoted, osVars
<1>9. TimersCoverDeadline'
  BY <1>1, <1>3, <1>7, HeldIsRun DEF SignalInv, TimersCoverDeadline
<1> QED
  BY <1>4, <1>5, <1>8, <1>9 DEF SignalInv

\* The kernel's own steps leave everything the core knows alone.
LEMMA KernelStep ==
  ASSUME TypeOK, SignalInv,
         \/ \E g \in Child : LeaderExits(g) \/ InitReaps(g)
         \/ \E r \in Run : Forks(r) \/ KidsExit(r)
         \/ \E f \in Foreign : ForeignStarts(f) \/ ForeignEnds(f)
  PROVE  SignalInv'
<1>1. UNCHANGED <<loopVars, rowVars, graveyard, procVars, doomed, stray>>
  BY DEF LeaderExits, Forks, KidsExit, InitReaps, ForeignStarts, ForeignEnds
<1>2. Current' = Current
  BY <1>1 DEF Current, RunOf, rowVars
<1>3. ASSUME /\ NoSurvivors' /\ PidsReserved' /\ NoEarlyKids' /\ GoneIsDoomed'
             /\ \A r \in Run : /\ leader'[r] \in {"alive", "zombie"} => leader[r] \in {"alive", "zombie"}
                               /\ leader[r] = "unborn" <=> leader'[r] = "unborn"
                               /\ pc # "stopped" /\ leader[r] \in {"alive", "zombie"} => leader'[r] \in {"alive", "zombie"}
      PROVE  SignalInv'
  <2>1. NoStraySignal' /\ EveryRunHeld' /\ TimersCoverDeadline' /\ StoppedIsEmpty' /\ SignalsNoted'
    BY <1>1, <1>2, <1>3
    DEF SignalInv, NoStraySignal, EveryRunHeld, TimersCoverDeadline, StoppedIsEmpty, SignalsNoted,
        loopVars, rowVars, procVars
  <2>2. HeldIsUnreaped'
    <3>1. pc = "stopped" => Current \cup graveyard = {}
      BY DEF SignalInv, StoppedIsEmpty, Current
    <3> QED
      BY <1>1, <1>2, <1>3, <3>1, HeldIsRun DEF SignalInv, HeldIsUnreaped, procVars
  <2>3. UnbornIsClean' /\ Fresh'
    BY <1>1, <1>3 DEF SignalInv, UnbornIsClean, Fresh, Run, rowVars, procVars
  <2> QED
    BY <1>3, <2>1, <2>2, <2>3 DEF SignalInv
<1>4. ASSUME NEW r \in Child, LeaderExits(r) PROVE SignalInv'
  <2>1. /\ leader[r] = "alive" /\ leader' = [leader EXCEPT ![r] = "zombie"]
        /\ UNCHANGED <<pidOf, kids, doomed, pc>> /\ r \in Group
    BY <1>4 DEF LeaderExits, Child, Group, loopVars
  <2>2. \A g \in Group : leader'[g] = IF g = r THEN "zombie" ELSE leader[g]
    BY <2>1 DEF TypeOK
  <2>3. \A g \in Group : InUse(g)' <=> InUse(g)
    BY <2>1, <2>2 DEF InUse
  <2>4. PidsReserved' /\ NoSurvivors'
    BY <2>1, <2>2, <2>3 DEF SignalInv, PidsReserved, NoSurvivors, Child, Group
  <2>5. NoEarlyKids' /\ GoneIsDoomed'
    BY <2>1, <2>2 DEF SignalInv, NoEarlyKids, GoneIsDoomed, Child, Group
  <2> QED
    BY <1>3, <2>1, <2>2, <2>4, <2>5 DEF Child, Group
<1>5. ASSUME NEW r \in Run, Forks(r) PROVE SignalInv'
  <2>1. /\ leader[r] = "alive" /\ kids' = [kids EXCEPT ![r] = TRUE]
        /\ UNCHANGED <<pidOf, leader, doomed, pc>> /\ r \in Group
    BY <1>5 DEF Forks, Child, Group, loopVars
  <2>2. \A g \in Group : kids'[g] = IF g = r THEN TRUE ELSE kids[g]
    BY <2>1 DEF TypeOK
  <2>3. \A g \in Group : InUse(g)' <=> InUse(g)
    BY <2>1, <2>2 DEF InUse
  <2>4. PidsReserved' /\ NoSurvivors'
    BY <2>1, <2>3 DEF SignalInv, PidsReserved, NoSurvivors, Child, Group
  <2>5. NoEarlyKids' /\ GoneIsDoomed'
    BY <2>1, <2>2 DEF SignalInv, NoEarlyKids, GoneIsDoomed
  <2> QED
    BY <1>3, <2>1, <2>4, <2>5
<1>6. ASSUME NEW r \in Run, KidsExit(r) PROVE SignalInv'
  <2>1. /\ kids' = [kids EXCEPT ![r] = FALSE]
        /\ UNCHANGED <<pidOf, leader, doomed, pc>>
    BY <1>6 DEF KidsExit, loopVars
  <2>2. \A g \in Group : kids'[g] => kids[g]
    BY <2>1 DEF TypeOK
  <2>3. \A g \in Group : InUse(g)' => InUse(g)
    BY <2>1, <2>2 DEF InUse
  <2>4. PidsReserved' /\ NoSurvivors'
    BY <2>1, <2>3 DEF SignalInv, PidsReserved, NoSurvivors, Child, Group
  <2>5. NoEarlyKids' /\ GoneIsDoomed'
    BY <2>1, <2>2 DEF SignalInv, NoEarlyKids, GoneIsDoomed
  <2> QED
    BY <1>3, <2>1, <2>4, <2>5
<1>7. ASSUME NEW r \in Child, InitReaps(r) PROVE SignalInv'
  <2>1. /\ pc = "stopped" /\ leader[r] = "zombie" /\ leader' = [leader EXCEPT ![r] = "gone"]
        /\ UNCHANGED <<pidOf, kids, doomed, pc>> /\ r \in Group
    BY <1>7 DEF InitReaps, Child, Group, loopVars
  <2>2. \A g \in Group : leader'[g] = IF g = r THEN "gone" ELSE leader[g]
    BY <2>1 DEF TypeOK
  <2>3. \A g \in Group : InUse(g)' => InUse(g)
    BY <2>1, <2>2 DEF InUse
  <2>4. r \in Run => doomed[r]
    BY <2>1 DEF SignalInv, NoSurvivors, InUse
  <2>5. PidsReserved' /\ NoSurvivors'
    BY <2>1, <2>3 DEF SignalInv, PidsReserved, NoSurvivors, Child, Group
  <2>6. NoEarlyKids' /\ GoneIsDoomed'
    BY <2>1, <2>2, <2>4 DEF SignalInv, NoEarlyKids, GoneIsDoomed, Child, Group
  <2> QED
    BY <1>3, <2>1, <2>2, <2>5, <2>6 DEF Child, Group
<1>8. ASSUME NEW f \in Foreign, ForeignStarts(f) PROVE SignalInv'
  <2>1. PICK p \in FreePids : pidOf' = [pidOf EXCEPT ![f] = p]
    BY <1>8 DEF ForeignStarts
  <2>2. /\ leader' = [leader EXCEPT ![f] = "alive"] /\ f \in Group /\ f \notin Run /\ ~kids[f]
        /\ UNCHANGED <<kids, doomed, pc>>
    BY <1>8, SupervisorAssumption DEF ForeignStarts, Child, Group, loopVars, SignalInv, NoEarlyKids
  <2>3. \A g \in Group : /\ leader'[g] = (IF g = f THEN "alive" ELSE leader[g])
                         /\ pidOf'[g] = (IF g = f THEN p ELSE pidOf[g])
    BY <2>1, <2>2 DEF TypeOK
  <2>4. \A g \in Group : InUse(g) => pidOf[g] # p
    BY DEF FreePids
  <2>5. PidsReserved' /\ NoEarlyKids'
    BY <2>2, <2>3, <2>4 DEF SignalInv, PidsReserved, NoEarlyKids, InUse
  <2>6. \A r \in Run : leader'[r] = leader[r]
    BY <2>2, <2>3 DEF Child, Group
  <2>7. NoSurvivors' /\ GoneIsDoomed'
    BY <2>2, <2>6 DEF SignalInv, NoSurvivors, GoneIsDoomed, InUse
  <2> QED
    BY <1>3, <2>5, <2>6, <2>7
<1>9. ASSUME NEW f \in Foreign, ForeignEnds(f) PROVE SignalInv'
  <2>1. /\ leader' = [leader EXCEPT ![f] = "unborn"] /\ f \in Group /\ f \notin Run /\ ~kids[f]
        /\ pidOf' = [pidOf EXCEPT ![f] = NoPid] /\ UNCHANGED <<kids, doomed, pc>>
    BY <1>9, SupervisorAssumption DEF ForeignEnds, Child, Group, loopVars, SignalInv, NoEarlyKids
  <2>2. \A g \in Group : /\ leader'[g] = (IF g = f THEN "unborn" ELSE leader[g])
                         /\ pidOf'[g] = (IF g = f THEN NoPid ELSE pidOf[g])
    BY <2>1 DEF TypeOK
  <2>3. PidsReserved' /\ NoEarlyKids'
    BY <2>1, <2>2 DEF SignalInv, PidsReserved, NoEarlyKids, InUse
  <2>4. \A r \in Run : leader'[r] = leader[r]
    BY <2>1, <2>2 DEF Child, Group
  <2>5. NoSurvivors' /\ GoneIsDoomed'
    BY <2>1, <2>4 DEF SignalInv, NoSurvivors, GoneIsDoomed, InUse
  <2> QED
    BY <1>3, <2>3, <2>4, <2>5
<1> QED
  BY <1>4, <1>5, <1>6, <1>7, <1>8, <1>9

LEMMA SignalInit == Init => SignalInv
<1> SUFFICES ASSUME Init PROVE SignalInv
  OBVIOUS
<1>1. /\ \A g \in Group : leader[g] = "unborn" /\ ~kids[g] /\ ~doomed[g]
      /\ \A r \in Run : r \in Group /\ termAge[r] = -1 /\ ~killSent[r] /\ ~reaped[r]
      /\ Current = {} /\ graveyard = {} /\ pc = "loop" /\ ~stray
  BY DEF Init, Child, Group, Current
<1>2. NoStraySignal /\ EveryRunHeld /\ NoSurvivors /\ HeldIsUnreaped /\ UnbornIsClean
  BY <1>1 DEF NoStraySignal, EveryRunHeld, NoSurvivors, HeldIsUnreaped, UnbornIsClean, InUse
<1>3. PidsReserved /\ NoEarlyKids /\ SignalsNoted /\ TimersCoverDeadline /\ StoppedIsEmpty /\ GoneIsDoomed
  BY <1>1 DEF PidsReserved, NoEarlyKids, SignalsNoted, TimersCoverDeadline, StoppedIsEmpty,
     GoneIsDoomed, InUse
<1>4. Fresh
  BY <1>1 DEF Init, Fresh, Run
<1> QED
  BY <1>2, <1>3, <1>4 DEF SignalInv

LEMMA SignalStep ==
  ASSUME TypeOK, TypeOK', SignalInv, [Next]_vars
  PROVE  SignalInv'
<1>1. CASE UNCHANGED vars
  BY <1>1 DEF vars, loopVars, rowVars, procVars, osVars, Current, RunOf, InUse,
     SignalInv, NoStraySignal, EveryRunHeld, NoSurvivors, PidsReserved, NoEarlyKids, Fresh,
     HeldIsUnreaped, UnbornIsClean, SignalsNoted, TimersCoverDeadline, StoppedIsEmpty, GoneIsDoomed
<1>2. CASE Spawn
  <2>1. /\ pc = "loop" /\ pc' = pc /\ nextId <= MaxId
        /\ nextId' = nextId + 1 /\ tasks' = tasks \cup {nextId}
        /\ hasProc' = [hasProc EXCEPT ![nextId] = TRUE] /\ Launch(<<nextId, 0>>)
        /\ UNCHANGED <<run, graveyard, termAge, killSent, reaped, stray>>
    BY <1>2 DEF Spawn, Room, Enroll, loopVars, procVars
  <2> QED
    BY <2>1, NewRowStep
<1>3. CASE LoadLive
  <2>1. /\ pc = "load" /\ pc' = pc /\ nextId <= MaxId
        /\ nextId' = nextId + 1 /\ tasks' = tasks \cup {nextId}
        /\ hasProc' = [hasProc EXCEPT ![nextId] = TRUE] /\ Launch(<<nextId, 0>>)
        /\ UNCHANGED <<run, graveyard, termAge, killSent, reaped, stray>>
    BY <1>3 DEF LoadLive, NextEntry, Room, Enroll, procVars
  <2> QED
    BY <2>1, NewRowStep
<1>4. ASSUME NEW i \in Id, Kill(i) PROVE SignalInv'
  <2>1. /\ Terminate({RunOf(i)}) /\ RunOf(i) \in Current /\ pc = "loop" /\ pc' = pc
        /\ UNCHANGED <<nextId, run, hasProc, graveyard, killSent, reaped, osVars, tasks>>
    BY <1>4 DEF Kill, Current, loopVars, rowVars
  <2>2. /\ stray' = stray
        /\ \A r \in {RunOf(i)} : termAge'[r] >= 0
        /\ \A r \in Run : termAge'[r] = termAge[r]
             \/ (r \in {RunOf(i)} /\ termAge[r] = -1 /\ termAge'[r] = 0)
    BY <2>1, TerminateHeld
  <2>3. Current' = Current
    BY <2>1 DEF Current, RunOf
  <2>4. \A r \in Run : termAge'[r] = termAge[r] \/ (r \in Current /\ termAge'[r] >= 0)
    BY <2>1, <2>2
  <2> QED
    BY <2>1, <2>2, <2>3, <2>4, QuietStep
<1>5. CASE \/ Refuse \/ LoadSkips \/ LoadDone \/ MaybeWriteRecovery
           \/ \E recipe \in Recipes : Load(recipe)
           \/ \E i \in Id : RestartRefused(i) \/ RestartFails(i)
           \/ \E i \in {None} \cup Id : Flagship(i)
           \/ \E i \in Id, l \in Label : Relabel(i, l)
  <2>1. /\ pc' \in {"loop", "write", "load"} /\ pc # "stopped"
        /\ UNCHANGED <<nextId, run, hasProc, tasks, graveyard, killSent, reaped, osVars, stray,
                       termAge>>
    BY <1>5 DEF Refuse, LoadSkips, LoadDone, MaybeWriteRecovery, Load, NextEntry, RestartRefused,
       RestartFails, Restartable, Flagship, Relabel, loopVars, rowVars, procVars
  <2>2. Current' = Current
    BY <2>1 DEF Current, RunOf
  <2> QED
    BY <2>1, <2>2, QuietStep
<1>13. ASSUME NEW l \in Lost,
              SpawnOrphans(l) \/ LoadOrphans(l) \/ \E i \in Id : RestartOrphans(i, l)
       PROVE  SignalInv'
  <2>1. /\ Orphans(l) /\ pc' \in {"loop", "load"} /\ pc # "stopped"
        /\ UNCHANGED <<nextId, run, hasProc, tasks, graveyard, termAge, killSent, reaped, stray>>
    BY <1>13 DEF SpawnOrphans, LoadOrphans, RestartOrphans, Restartable, loopVars, rowVars, procVars
  <2>2. Current' = Current
    BY <2>1 DEF Current, RunOf
  <2> QED
    BY <2>1, <2>2, OrphanStep
<1>6. ASSUME NEW miss, Tick(miss) PROVE SignalInv'
  <2>1. Reap(miss) /\ pc = "loop" /\ pc' = "write" /\ deadline' = deadline
    BY <1>6 DEF Tick
  <2> QED
    BY <2>1, ReapStep
<1>7. ASSUME NEW miss, ShutdownReap(miss) PROVE SignalInv'
  <2>1. Reap(miss) /\ pc = "shutdown" /\ pc' = "shutdown" /\ deadline' = deadline
    BY <1>7 DEF ShutdownReap
  <2> QED
    BY <2>1, ReapStep
<1>8. CASE ShutdownClear \/ FatalAccept
  BY <1>8, DropStep DEF ShutdownClear, FatalAccept
<1>9. CASE LoadStopped
  BY <1>9, LoadStoppedStep
<1>10. CASE Shutdown
  BY <1>10, ShutdownStep
<1>11. CASE \E i \in Id : Remove(i) \/ Restart(i)
  BY <1>11, RemoveStep, RestartStep
<1>12. CASE Kernel
  BY <1>12, ElapseStep, KernelStep DEF Kernel
<1> QED
  BY <1>1, <1>2, <1>3, <1>4, <1>5, <1>6, <1>7, <1>8, <1>9, <1>10, <1>11, <1>12,
     <1>13
  DEF Next, Command, Core, Loading

\* The inductive invariant of the signal properties.
THEOREM SignalCorrect == Spec => [](TypeOK /\ SignalInv)
<1>1. Init => SignalInv
  BY SignalInit
<1>2. TypeOK /\ TypeOK' /\ SignalInv /\ [Next]_vars => SignalInv'
  BY SignalStep
<1>3. Spec => []TypeOK
  BY TypeCorrect
<1> QED
  BY <1>1, <1>2, <1>3, PTL DEF Spec

\* No TERM or KILL ever reaches a group it was not meant for, however PIDs
\* are reused.
THEOREM SignalsReachOwnGroup == Spec => []NoStraySignal
<1>1. SignalInv => NoStraySignal
  BY DEF SignalInv
<1> QED
  BY <1>1, SignalCorrect, PTL

\* No handler loses a run that a row was given, or holds one twice: the child of a
\* launch that failed behind the fork was never given to one.
THEOREM RunsAreHeld == Spec => []EveryRunHeld
<1>1. SignalInv => EveryRunHeld
  BY DEF SignalInv
<1> QED
  BY <1>1, SignalCorrect, PTL

\* No process of a run that a row was given outlives its leader's collection, or the
\* core, without a KILL.
THEOREM SurvivorsAreKilled == Spec => []NoSurvivors
<1>1. SignalInv => NoSurvivors
  BY DEF SignalInv
<1> QED
  BY <1>1, SignalCorrect, PTL
-----------------------------------------------------------------------------
(* What a step does to the four facts about runs that FleetLife sees.      *)

LEMMA ReapEffect ==
  ASSUME TypeOK, SignalInv, NEW miss, Reap(miss)
  PROVE  /\ \A r \in Run : doomed'[r] <=> doomed[r] \/ (r \in Current \cup graveyard /\ Overdue(r))
         /\ \A r \in Run : leader'[r] = leader[r] \/ (leader'[r] = "gone" /\ leader[r] = "zombie" /\ doomed'[r])
         /\ termAge' = termAge
<1> DEFINE overdue == {r \in Current \cup graveyard : Overdue(r)}
           collected == {r \in graveyard \ miss :
                           (killSent[r] \/ r \in overdue) /\ leader[r] = "zombie"}
<1>1. ForceKill(overdue) /\ Collect(collected) /\ termAge' = termAge
  BY DEF Reap
<1>2. \A r \in Run : doomed'[r] <=> doomed[r] \/ r \in overdue
  BY <1>1, ForceKillHeld
<1>3. \A r \in collected : doomed'[r] /\ r \in Run /\ leader[r] = "zombie"
  BY <1>2, HeldIsRun DEF SignalInv, SignalsNoted
<1> HIDE DEF collected
<1>4. \A r \in Run : leader'[r] = IF r \in collected THEN "gone" ELSE leader[r]
  BY <1>1 DEF Collect, Child, Group
<1> QED
  BY <1>1, <1>2, <1>3, <1>4

LEMMA DropEffect ==
  ASSUME TypeOK, SignalInv, DropAll
  PROVE  /\ \A r \in Run : doomed'[r] <=> doomed[r] \/ r \in Current \cup graveyard
         /\ \A r \in Run : leader'[r] = leader[r] \/ (leader'[r] = "gone" /\ leader[r] = "zombie")
         /\ termAge' = termAge /\ pc' = "stopped"
<1> DEFINE held == Current \cup graveyard
           collected == {r \in held : leader[r] = "zombie"}
<1>1. ForceKill(held) /\ Collect(collected) /\ termAge' = termAge /\ pc' = "stopped"
  BY DEF DropAll
<1>2. \A r \in Run : doomed'[r] <=> doomed[r] \/ r \in held
  BY <1>1, ForceKillHeld
<1>3. \A r \in collected : leader[r] = "zombie"
  OBVIOUS
<1> HIDE DEF collected
<1>4. \A r \in Run : leader'[r] = IF r \in collected THEN "gone" ELSE leader[r]
  BY <1>1 DEF Collect, Child, Group
<1> QED
  BY <1>1, <1>2, <1>3, <1>4

\* No other step of the core or of the kernel sends KILL.
LEMMA OthersDoomNobody ==
  ASSUME [Next]_vars
  PROVE  \/ \E miss : Reap(miss) /\ pc' # "stopped" /\ pc # "stopped"
         \/ DropAll /\ (ShutdownClear \/ FatalAccept)
         \/ doomed' = doomed /\ (pc' = "stopped" <=> pc = "stopped")
<1>1. CASE UNCHANGED vars
  BY <1>1 DEF vars, loopVars, osVars
<1>2. CASE Command
  BY <1>2 DEF Command, Spawn, Refuse, Kill, Remove, RestartRefused, RestartFails, Restart,
     Restartable, Flagship, Relabel, Load, Shutdown, Launch, SpawnOrphans, RestartOrphans, Orphans,
     loopVars, osVars
<1>3. CASE Core
  BY <1>3 DEF Core, Loading, LoadSkips, LoadStopped, LoadLive, LoadOrphans, Orphans, LoadDone,
     NextEntry, Launch, Tick,
     ShutdownReap, MaybeWriteRecovery, ShutdownClear, FatalAccept, osVars
<1>4. CASE Kernel
  BY <1>4 DEF Kernel, Elapse, LeaderExits, Forks, KidsExit, InitReaps, ForeignStarts, ForeignEnds,
     loopVars, osVars
<1> QED
  BY <1>1, <1>2, <1>3, <1>4 DEF Next

\* KILL follows TERM by a whole grace, in a reap and at the end of a shutdown.
THEOREM GraceKept == Spec => GraceRespected
<1> DEFINE Step == \A r \in Run : doomed'[r] /\ ~doomed[r] =>
                     termAge[r] = Grace \/ (pc = "loop" /\ pc' = "stopped")
<1>1. TypeOK /\ SignalInv /\ [Next]_vars => [Step]_vars
  <2> SUFFICES ASSUME TypeOK, SignalInv, [Next]_vars, NEW r \in Run, doomed'[r], ~doomed[r]
               PROVE  termAge[r] = Grace \/ (pc = "loop" /\ pc' = "stopped")
    OBVIOUS
  <2>1. CASE \E miss : Reap(miss)
    BY <2>1, ReapEffect DEF Overdue
  <2>2. CASE DropAll /\ ShutdownClear
    <3>1. r \in Current \cup graveyard
      BY <2>2, DropEffect
    <3>2. deadline = 0
      BY <2>2, <3>1 DEF ShutdownClear, Current
    <3>3. termAge[r] \in -1 .. Grace /\ Grace \in Nat
      BY SupervisorAssumption DEF TypeOK
    <3>4. termAge[r] + deadline >= Grace
      BY <2>2, <3>1 DEF ShutdownClear, SignalInv, TimersCoverDeadline
    <3> QED
      BY <3>2, <3>3, <3>4
  <2>3. CASE FatalAccept
    BY <2>3 DEF FatalAccept, DropAll
  <2> QED
    BY <2>1, <2>2, <2>3, OthersDoomNobody
<1> QED
  BY <1>1, SignalCorrect, PTL DEF Spec, GraceRespected
-----------------------------------------------------------------------------
(* The refinement of FleetLife.                                            *)

Started   == {r \in Run : leader[r] # "unborn"}
Asked     == {r \in Run : termAge[r] >= 0}
Killed    == {r \in Run : doomed[r]}
Collected == {r \in Run : leader[r] = "gone"}

\* Asked runs were started, killed runs were asked or the fleet is over.
LEMMA SeenByFleet ==
  ASSUME TypeOK, SignalInv
  PROVE  /\ Asked \subseteq Started /\ Killed \subseteq Started /\ Collected \subseteq Killed
         /\ \A r \in Current \cup graveyard : r \in Run /\ r \in Started
<1>1. \A r \in Run : leader[r] = "unborn" => ~(termAge[r] >= 0) /\ ~doomed[r]
  BY DEF SignalInv, UnbornIsClean
<1> QED
  BY <1>1, HeldIsRun DEF Asked, Started, Killed, Collected, SignalInv, GoneIsDoomed, HeldIsUnreaped

\* A command, a loaded entry or a clock tick only starts and asks.
LEMMA CommandEffect ==
  ASSUME TypeOK, TypeOK', SignalInv, Command \/ Loading \/ MaybeWriteRecovery \/ Elapse
  PROVE  /\ Started \subseteq Started' /\ Killed' = Killed
         /\ Asked \subseteq Asked' /\ Asked' \subseteq Started
         /\ Collected' = Collected /\ (pc' = "stopped" <=> pc = "stopped")
         /\ pc = "stopped" => Started' = Started /\ Asked' = Asked
<1>1. ASSUME NEW r \in Run, Launch(r), leader[r] = "unborn"
      PROVE  Started \subseteq Started' /\ Killed' = Killed /\ Collected' = Collected
  <2>1. doomed' = doomed /\ \A g \in Run : leader'[g] = IF g = r THEN "alive" ELSE leader[g]
    BY <1>1 DEF Launch, TypeOK, Child, Group
  <2> QED
    BY <1>1, <2>1 DEF Started, Killed, Collected
<1>2. nextId <= MaxId => <<nextId, 0>> \in Run /\ leader[<<nextId, 0>>] = "unborn"
  BY SupervisorAssumption DEF TypeOK, SignalInv, Fresh, Id, Run
<1>3. ASSUME NEW i \in Id, Restart(i)
      PROVE  <<i, run[i] + 1>> \in Run /\ leader[<<i, run[i] + 1>>] = "unborn"
  BY <1>3, SupervisorAssumption DEF Restart, TypeOK, SignalInv, Fresh, Run
<1>10. Asked \subseteq Started /\ Current \subseteq Started
  BY SeenByFleet
<1>4. ASSUME NEW R \in SUBSET Current, Terminate(R)
      PROVE  Asked \subseteq Asked' /\ Asked' \subseteq Started
  <2>1. \A r \in Run : termAge'[r] = IF r \in Terminable(R) THEN 0 ELSE termAge[r]
    BY <1>4 DEF Terminate
  <2>2. Terminable(R) \subseteq Started
    BY <1>10 DEF Terminable
  <2> QED
    BY <1>10, <2>1, <2>2 DEF Asked, Terminable
<1>5. CASE Spawn \/ LoadLive
  BY <1>5, <1>10, <1>1, <1>2 DEF Spawn, LoadLive, NextEntry, Room, loopVars, procVars, Asked
<1>6. CASE \E i \in Id : Restart(i)
  BY <1>6, <1>1, <1>3, <1>4 DEF Restart, Restartable, Retire, loopVars
<1>11. ASSUME NEW l \in Lost,
              SpawnOrphans(l) \/ LoadOrphans(l) \/ \E i \in Id : RestartOrphans(i, l)
       PROVE  /\ UNCHANGED <<Started, Asked, Killed, Collected>>
              /\ pc' # "stopped" /\ pc # "stopped"
  <2>1. /\ Launch(l) /\ termAge' = termAge /\ pc' # "stopped" /\ pc # "stopped"
    BY <1>11 DEF SpawnOrphans, LoadOrphans, RestartOrphans, Restartable, Orphans, loopVars, procVars
  <2>2. \A r \in Run : leader'[r] = leader[r]
    BY <2>1, SupervisorAssumption DEF Launch, TypeOK, Child, Group
  <2>3. doomed' = doomed
    BY <2>1 DEF Launch
  <2> QED
    BY <2>1, <2>2, <2>3 DEF Started, Asked, Killed, Collected
<1>7. CASE Shutdown \/ \E i \in Id : Kill(i) \/ Remove(i)
  BY <1>7, <1>4 DEF Shutdown, Kill, Remove, Retire, Current, loopVars, osVars, Started, Killed, Collected
<1>8. CASE \/ Refuse \/ LoadSkips \/ LoadStopped \/ LoadDone \/ MaybeWriteRecovery
           \/ \E recipe \in Recipes : Load(recipe)
           \/ \E i \in Id : RestartRefused(i) \/ RestartFails(i)
           \/ \E i \in {None} \cup Id : Flagship(i)
           \/ \E i \in Id, l \in Label : Relabel(i, l)
  <2>1. UNCHANGED <<leader, termAge, doomed>> /\ (pc' = "stopped" <=> pc = "stopped")
    BY <1>8 DEF Refuse, LoadSkips, LoadStopped, LoadDone, MaybeWriteRecovery, Load, NextEntry,
       RestartRefused, RestartFails, Restartable, Flagship, Relabel, loopVars, procVars, osVars
  <2> QED
    BY <1>10, <2>1 DEF Started, Asked, Killed, Collected
<1>9. CASE Elapse
  <2>1. UNCHANGED <<pc, leader, doomed>>
    BY <1>9 DEF Elapse, osVars
  <2>2. \A r \in Run : termAge'[r] >= 0 <=> termAge[r] >= 0
    <3> SUFFICES ASSUME NEW r \in Run PROVE termAge'[r] >= 0 <=> termAge[r] >= 0
      OBVIOUS
    <3>1. termAge'[r] = IF termAge[r] \in 0 .. (Grace - 1) THEN termAge[r] + 1 ELSE termAge[r]
      BY <1>9 DEF Elapse
    <3>2. termAge[r] \in -1 .. Grace /\ Grace \in Nat
      BY SupervisorAssumption DEF TypeOK
    <3> QED
      BY <3>1, <3>2
  <2> QED
    BY <1>10, <2>1, <2>2 DEF Started, Asked, Killed, Collected
<1> QED
  BY <1>5, <1>6, <1>7, <1>8, <1>9, <1>10, <1>11 DEF Command, Loading

LEMMA FleetStep ==
  ASSUME TypeOK, TypeOK', SignalInv, SignalInv', [Next]_vars
  PROVE  [Fleet!Next]_(Fleet!vars)
<1> DEFINE over == pc = "stopped"
<1> SUFFICES
      \/ UNCHANGED <<Started, Asked, Killed, Collected, over>>
      \/ /\ ~over /\ UNCHANGED <<over, Killed, Collected>>
         /\ Started \subseteq Started' /\ Started' \subseteq Run
         /\ Asked \subseteq Asked' /\ Asked' \subseteq Started
      \/ /\ ~over /\ UNCHANGED <<over, Started, Asked>>
         /\ Killed \subseteq Killed' /\ Killed' \subseteq Killed \cup Asked
         /\ Collected \subseteq Collected' /\ Collected' \subseteq Killed'
      \/ /\ ~over /\ over' /\ UNCHANGED <<Started, Asked>>
         /\ Killed' = Started
         /\ Collected \subseteq Collected' /\ Collected' \subseteq Started
      \/ /\ over /\ UNCHANGED <<over, Started, Asked, Killed>>
         /\ Collected \subseteq Collected' /\ Collected' \subseteq Started
  BY DEF Fleet!Next, Fleet!vars, Fleet!Serve, Fleet!Sweep, Fleet!End, Fleet!Bury,
     Started, Asked, Killed, Collected
<1>1. /\ Asked \subseteq Started /\ Killed \subseteq Started /\ Collected \subseteq Killed
      /\ \A r \in Current \cup graveyard : r \in Run /\ r \in Started
  BY SeenByFleet
<1>2. Asked' \subseteq Started' /\ Started' \subseteq Run /\ Collected' \subseteq Killed'
  BY DEF SignalInv, UnbornIsClean, GoneIsDoomed, Asked, Started, Killed, Collected
<1>3. CASE UNCHANGED vars
  BY <1>3 DEF vars, loopVars, procVars, osVars, Started, Asked, Killed, Collected
<1>4. CASE Command \/ Loading \/ MaybeWriteRecovery \/ Elapse
  BY <1>4, <1>2, CommandEffect
<1>5. CASE \E miss : Tick(miss) \/ ShutdownReap(miss)
  <2>1. (\E miss : Reap(miss)) /\ ~over /\ ~over'
    BY <1>5 DEF Tick, ShutdownReap
  <2>2. Started' = Started /\ Asked' = Asked /\ Collected \subseteq Collected'
    BY <2>1, ReapEffect DEF Started, Asked, Collected
  <2>3. Killed \subseteq Killed' /\ Killed' \subseteq Killed \cup Asked
    <3>1. \A r \in Run : Overdue(r) => termAge[r] >= 0
      BY SupervisorAssumption DEF Overdue
    <3> QED
      BY <2>1, <3>1, ReapEffect DEF Killed, Asked
  <2> QED
    BY <1>2, <2>1, <2>2, <2>3
<1>6. CASE ShutdownClear \/ FatalAccept
  <2>1. DropAll /\ ~over
    BY <1>6 DEF ShutdownClear, FatalAccept
  <2>2. Started' = Started /\ Asked' = Asked /\ Collected \subseteq Collected' /\ over'
    BY <2>1, DropEffect DEF Started, Asked, Collected
  <2>3. Killed' = Started
    <3>1. \A r \in Run : doomed'[r] <=> doomed[r] \/ r \in Current \cup graveyard
      BY <2>1, DropEffect
    <3>2. \A r \in Run : leader[r] # "unborn" => doomed[r] \/ r \in Current \cup graveyard
      <4>1. \A r \in Run : leader[r] \in {"unborn", "alive", "zombie", "gone"}
        BY DEF TypeOK, Child, Group
      <4> QED
        BY <2>1, <4>1 DEF SignalInv, EveryRunHeld, GoneIsDoomed
    <3> QED
      BY <1>1, <3>1, <3>2 DEF Killed, Started
  <2>4. Collected' \subseteq Started
    BY <1>2, <2>3
  <2> QED
    BY <2>1, <2>2, <2>3, <2>4
<1>7. CASE \/ \E g \in Child : LeaderExits(g) \/ InitReaps(g)
           \/ \E r \in Run : Forks(r) \/ KidsExit(r)
           \/ \E f \in Foreign : ForeignStarts(f) \/ ForeignEnds(f)
  <2>1. UNCHANGED <<pc, termAge, doomed>>
    BY <1>7 DEF LeaderExits, Forks, KidsExit, InitReaps, ForeignStarts, ForeignEnds, loopVars, procVars
  <2>2. \A r \in Run : \/ leader'[r] = leader[r]
                       \/ leader[r] = "alive" /\ leader'[r] = "zombie"
                       \/ leader[r] = "zombie" /\ leader'[r] = "gone" /\ over
    BY <1>7, SupervisorAssumption
    DEF LeaderExits, Forks, KidsExit, InitReaps, ForeignStarts, ForeignEnds, TypeOK, Child, Group
  <2>3. Started' = Started /\ Asked' = Asked /\ Killed' = Killed
    BY <2>1, <2>2 DEF Started, Asked, Killed
  <2>4. Collected \subseteq Collected' /\ (Collected' = Collected \/ over)
    BY <2>2 DEF Collected
  <2>5. Collected' \subseteq Started
    BY <1>2, <1>1, <2>3
  <2> QED
    BY <2>1, <2>3, <2>4, <2>5
<1> QED
  BY <1>3, <1>4, <1>5, <1>6, <1>7 DEF Next, Core, Kernel

\* Every behaviour of the supervisor is a life of a fleet: TERM before KILL,
\* KILL before collection, and nothing left without a KILL at the end.
THEOREM FleetRefined == Spec => FleetSafe
<1>1. Init => Fleet!Init
  BY SupervisorAssumption DEF Init, Fleet!Init, Child, Group
<1>2. TypeOK /\ TypeOK' /\ SignalInv /\ SignalInv' /\ [Next]_vars => [Fleet!Next]_(Fleet!vars)
  BY FleetStep
<1> QED
  BY <1>1, <1>2, SignalCorrect, PTL DEF Spec, FleetSafe, Fleet!SafeSpec
-----------------------------------------------------------------------------
(* The rows: what a snapshot stores of them, and the flagship mark.        *)

\* What the row properties look at.
rowView == <<tasks, label, run, hasProc, finished, flagship>>

\* A reap that arms nothing changed nothing a recipe shows; one that leaves the
\* mark leaves it on a live run.
LEMMA ReapRows ==
  ASSUME TypeOK, SignalInv, NEW miss, Reap(miss)
  PROVE  /\ UNCHANGED <<tasks, label, run, hasProc>>
         /\ armed => armed'
         /\ ~armed' => /\ flagship' = flagship
                       /\ \A i \in tasks : hasProc[i] => finished'[RunOf(i)] = finished[RunOf(i)]
         /\ flagship' # None => /\ flagship' \in tasks /\ hasProc[flagship']
                                /\ ~finished'[RunOf(flagship')]
<1> DEFINE held == Current \cup graveyard
           overdue == {r \in held : Overdue(r)}
           collected == {r \in graveyard \ miss :
                           (killSent[r] \/ r \in overdue) /\ leader[r] = "zombie"}
           latched == Exits(held \ miss) \cup collected
           live(i) == LiveRow(i) /\ RunOf(i) \notin latched
           cleared == flagship # None /\ ~live(flagship)
<1>1. /\ Latch(latched)
      /\ flagship' = IF cleared THEN None ELSE flagship
      /\ armed' = (armed \/ cleared \/ Exits(Current \ miss) # {})
      /\ UNCHANGED <<tasks, label, run, hasProc>>
  BY DEF Reap, rowVars
<1>2. \A i \in tasks : hasProc[i] => RunOf(i) \in Current /\ RunOf(i) \in Run
  BY HeldIsRun DEF Current
<1>3. \A r \in Current : r \notin graveyard
  BY DEF SignalInv, EveryRunHeld
<1>4. \A r \in Run : finished'[r] = (r \in latched \/ finished[r])
  BY <1>1 DEF Latch
<1>5. \A r \in Current : r \in latched => r \in Exits(Current \ miss)
  BY <1>3 DEF Exits
<1> HIDE DEF latched
<1>6. ASSUME ~armed'
      PROVE  /\ flagship' = flagship
             /\ \A i \in tasks : hasProc[i] => finished'[RunOf(i)] = finished[RunOf(i)]
  <2>1. ~cleared /\ Exits(Current \ miss) = {}
    BY <1>1, <1>6
  <2>2. ASSUME NEW i \in tasks, hasProc[i] PROVE finished'[RunOf(i)] = finished[RunOf(i)]
    <3>1. RunOf(i) \notin latched /\ RunOf(i) \in Run
      BY <2>1, <2>2, <1>2, <1>5
    <3>2. finished[RunOf(i)] \in BOOLEAN
      BY <3>1 DEF TypeOK
    <3> QED
      BY <3>1, <3>2, <1>4
  <2> QED
    BY <1>1, <2>1, <2>2
<1>7. ASSUME flagship' # None
      PROVE  flagship' \in tasks /\ hasProc[flagship'] /\ ~finished'[RunOf(flagship')]
  <2>1. flagship' = flagship /\ live(flagship)
    BY <1>1, <1>7
  <2>2. flagship \in tasks /\ hasProc[flagship] /\ ~finished[RunOf(flagship)]
        /\ RunOf(flagship) \notin latched
    BY <2>1 DEF LiveRow
  <2> QED
    BY <2>1, <2>2, <1>2, <1>4
<1> QED
  BY <1>1, <1>6, <1>7

\* The mark and the recovery write under every step: the load keeps its write armed,
\* and the mark that a pass will store is on a live run.
LEMMA RowStep ==
  ASSUME TypeOK, SignalInv, RowInv, [Next]_vars
  PROVE  RowInv'
<1> USE DEF RowInv, SnapshotFlagshipLive, LoadIsArmed
<1>1. CASE UNCHANGED vars
  BY <1>1 DEF vars, loopVars, rowVars, procVars, RunOf
<1>2. CASE Command
  <2>1. pc = "loop" /\ pc' \in {"loop", "load", "shutdown"} /\ (pc' = "load" => armed')
    BY <1>2 DEF Command, Spawn, Refuse, Kill, Remove, RestartRefused, RestartFails, Restart,
       Restartable, SpawnOrphans, RestartOrphans, Flagship, Relabel, Load, Shutdown, loopVars
  <2> QED
    BY <2>1
<1>3. CASE Loading
  <2>1. pc = "load" /\ pc' \in {"loop", "load"} /\ armed' = armed
    BY <1>3 DEF Loading, LoadSkips, LoadStopped, LoadLive, LoadOrphans, LoadDone, NextEntry
  <2> QED
    BY <2>1
<1>4. ASSUME NEW miss, Tick(miss) PROVE RowInv'
  <2>1. pc' = "write" /\ Reap(miss)
    BY <1>4 DEF Tick
  <2>2. run' = run /\ tasks' = tasks /\ hasProc' = hasProc
    BY <2>1, ReapRows
  <2> QED
    BY <2>1, <2>2, ReapRows DEF RunOf
<1>5. CASE MaybeWriteRecovery \/ ShutdownClear \/ FatalAccept \/ \E miss : ShutdownReap(miss)
  <2>1. pc' \in {"loop", "stopped", "shutdown"}
    BY <1>5 DEF MaybeWriteRecovery, ShutdownClear, FatalAccept, DropAll, ShutdownReap
  <2> QED
    BY <2>1
<1>6. CASE Kernel
  <2>1. UNCHANGED <<pc, rowVars, armed, flagship, finished>>
    BY <1>6 DEF Kernel, Elapse, LeaderExits, Forks, KidsExit, InitReaps, ForeignStarts,
       ForeignEnds, loopVars, procVars
  <2> QED
    BY <2>1 DEF rowVars, RunOf
<1> QED
  BY <1>1, <1>2, <1>3, <1>4, <1>5, <1>6 DEF Next, Core

LEMMA RowsCorrect == Spec => [](TypeOK /\ SignalInv /\ RowInv)
<1>1. Init => RowInv
  BY DEF Init, RowInv, SnapshotFlagshipLive, LoadIsArmed
<1>2. TypeOK /\ SignalInv /\ RowInv /\ [Next]_vars => RowInv'
  BY RowStep
<1> QED
  BY <1>1, <1>2, SignalCorrect, PTL DEF Spec

\* A step that gives a marked row another run takes the mark away.
LEMMA MarkStep ==
  ASSUME TypeOK, [Next]_vars, NEW i \in Id,
         flagship = i, flagship' = i, i \in tasks, i \in tasks'
  PROVE  run'[i] = run[i] /\ hasProc'[i] = hasProc[i]
<1>1. i # nextId /\ i # None
  BY SupervisorAssumption DEF TypeOK, Id, None
<1>2. CASE Spawn \/ LoadLive
  <2>1. run' = run /\ hasProc' = [hasProc EXCEPT ![nextId] = TRUE]
    BY <1>2 DEF Spawn, LoadLive
  <2> QED
    BY <1>1, <2>1 DEF TypeOK
<1>3. ASSUME NEW j \in Id, Restart(j) PROVE run'[i] = run[i] /\ hasProc'[i] = hasProc[i]
  <2>1. /\ run' = [run EXCEPT ![j] = @ + 1] /\ hasProc' = [hasProc EXCEPT ![j] = TRUE]
        /\ flagship' = IF flagship = j THEN None ELSE flagship
    BY <1>3 DEF Restart, Unmark
  <2>2. j # i
    BY <1>1, <2>1
  <2> QED
    BY <2>1, <2>2 DEF TypeOK
<1>4. CASE UNCHANGED vars \/ Kernel \/ ShutdownClear \/ FatalAccept \/ MaybeWriteRecovery
           \/ \E miss : Tick(miss) \/ ShutdownReap(miss)
  BY <1>4 DEF vars, Kernel, ShutdownClear, FatalAccept, DropAll, MaybeWriteRecovery, Tick,
     ShutdownReap, Reap, Elapse, LeaderExits, Forks, KidsExit, InitReaps, ForeignStarts,
     ForeignEnds, rowVars
<1>5. CASE LoadSkips \/ LoadStopped \/ LoadDone \/ \E l \in Lost : LoadOrphans(l)
  BY <1>5 DEF LoadSkips, LoadStopped, LoadOrphans, LoadDone, rowVars
<1>6. CASE Command /\ ~Spawn /\ ~\E j \in Id : Restart(j)
  BY <1>6 DEF Command, Refuse, Kill, Remove, RestartRefused, RestartFails, SpawnOrphans,
     RestartOrphans, Flagship, Relabel, Load, Shutdown, rowVars
<1> QED
  BY <1>2, <1>3, <1>4, <1>5, <1>6 DEF Next, Core, Command, Loading

\* A snapshot only marks a row with a live process, and the mark stays on the run it was
\* placed on: rerun takes it away even when no reap has seen the exit.
THEOREM FlagshipStays == Spec => FlagshipHolds
<1>1. TypeOK /\ [Next]_vars =>
        [\A i \in Id : flagship = i /\ flagship' = i /\ i \in tasks /\ i \in tasks'
           => run'[i] = run[i] /\ hasProc'[i] = hasProc[i]]_vars
  BY MarkStep
<1>2. RowInv => SnapshotFlagshipLive
  BY DEF RowInv
<1> QED
  BY <1>1, <1>2, RowsCorrect, PTL DEF Spec, FlagshipHolds, FlagshipStaysWithRun

\* The recipe depends on the rows, the mark and the exits of current runs alone.
LEMMA SameRecipe ==
  ASSUME UNCHANGED <<tasks, label, run, hasProc, flagship>>,
         \A i \in tasks : hasProc[i] => finished'[RunOf(i)] = finished[RunOf(i)]
  PROVE  RecipeNow' = RecipeNow
<1>1. \A i \in tasks : RunOf(i)' = RunOf(i)
  BY DEF RunOf
<1>2. \A i \in tasks : Stopped(i)' = Stopped(i)
  BY <1>1 DEF Stopped
<1> QED
  BY <1>2 DEF RecipeNow

LEMMA RecipeStep ==
  ASSUME TypeOK, SignalInv, RowInv, [Next]_vars
  PROVE  RecipeNow' # RecipeNow => armed' \/ pc' = "stopped"
<1> SUFFICES ASSUME ~armed', pc' # "stopped" PROVE RecipeNow' = RecipeNow
  OBVIOUS
<1>1. ASSUME UNCHANGED rowView PROVE RecipeNow' = RecipeNow
  BY <1>1, SameRecipe DEF rowView
<1>2. CASE UNCHANGED vars \/ Kernel \/ MaybeWriteRecovery
  <2>1. UNCHANGED rowView
    BY <1>2 DEF vars, rowVars, procVars, rowView, Kernel, Elapse, LeaderExits, Forks, KidsExit,
       InitReaps, ForeignStarts, ForeignEnds, MaybeWriteRecovery
  <2> QED
    BY <1>1, <2>1
<1>3. CASE Command
  <2>1. (\E i \in Id : Kill(i)) \/ Shutdown
    BY <1>3 DEF Command, Spawn, Refuse, Remove, RestartRefused, RestartFails, Restart,
       SpawnOrphans, RestartOrphans, Flagship, Relabel, Load
  <2>2. UNCHANGED rowView
    BY <2>1 DEF Kill, Shutdown, rowVars, rowView
  <2> QED
    BY <1>1, <2>2
<1>4. CASE Loading
  <2>1. pc = "load" /\ armed' = armed
    BY <1>4 DEF Loading, LoadSkips, LoadStopped, LoadLive, LoadOrphans, LoadDone, NextEntry
  <2> QED
    BY <2>1 DEF RowInv, LoadIsArmed
<1>5. CASE \E miss : Tick(miss) \/ ShutdownReap(miss)
  <2>1. PICK miss : Reap(miss)
    BY <1>5 DEF Tick, ShutdownReap
  <2> QED
    BY <2>1, ReapRows, SameRecipe
<1>6. CASE ShutdownClear \/ FatalAccept
  BY <1>6 DEF ShutdownClear, FatalAccept, DropAll
<1> QED
  BY <1>2, <1>3, <1>4, <1>5, <1>6 DEF Next, Core

\* Whatever changes what a snapshot would store leaves a recovery write armed: commands
\* arm in apply, exits and cleared marks in reap, and a load in its command.
THEOREM RecipeChangesArm == Spec => RecipeChangeArms
<1>1. TypeOK /\ SignalInv /\ RowInv /\ [Next]_vars =>
        [RecipeNow' # RecipeNow => armed' \/ pc' = "stopped"]_vars
  BY RecipeStep
<1> QED
  BY <1>1, RowsCorrect, PTL DEF Spec, RecipeChangeArms
=============================================================================
