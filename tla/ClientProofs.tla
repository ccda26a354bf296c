------------------------------ MODULE ClientProofs ------------------------------
(***************************************************************************)
(* For any number of IDs and any length of the wire: what the client holds *)
(* and sends was named to it on its connection, and attachment and the way *)
(* back of the chord agree.                                                *)
(***************************************************************************)
EXTENDS Client, SequenceTheorems, FiniteSetTheorems, WellFoundedInduction, TLAPS

\* The parts of TypeOK: the client's own state, the wire, the core.
AppType ==
  /\ pc \in {"sync", "keys"}
  /\ mode \in {"dashboard", "peek", "attached", "label", "find", "overlay", "disconnected"}
  /\ views \in Snapshots /\ selected \in Id \cup {NoId} /\ pending \in Id \cup {NoId}
  /\ focused \in Id \cup {NoId} /\ origin \in Id \cup {Home, NoOrigin}
  /\ target \in Id \cup {NoId} /\ found \subseteq Id /\ told \subseteq Id

WireType == link \in {"up", "lost"} /\ cmds \in Seq(Cmd) /\ evs \in Seq(Event)

CoreType ==
  /\ row \in [Id -> {"new", "runs", "done", "gone"}] /\ born \in Seq(Id)
  /\ flagship \in Id \cup {NoId}

LEMMA TypeParts == TypeOK <=> AppType /\ WireType /\ CoreType
BY DEF TypeOK, AppType, WireType, CoreType

LEMMA Listing ==
  ASSUME NEW v \in Snapshots
  PROVE  DOMAIN v \subseteq Id /\ \A i \in DOMAIN v : v[i] \in View
BY DEF Snapshots

LEMMA NoRowsListing == NoRows \in Snapshots /\ DOMAIN NoRows = {}
<1>1. {} \in SUBSET Id /\ NoRows \in [{} -> View]
  BY DEF NoRows, View
<1> QED
  BY <1>1 DEF Snapshots

\* What leaves with a command: one more of them at the end, or nothing.
LEMMA SendKeepsType ==
  ASSUME WireType, NEW c \in Cmd, Send(c)
  PROVE  WireType'
<1>1. Append(cmds, c) \in Seq(Cmd)
  BY AppendProperties DEF WireType
<1> QED
  BY <1>1 DEF Send, WireType, wireVars

LEMMA SendNames ==
  ASSUME WireType, NEW c \in Cmd, Send(c), Names(c.id),
         \A k \in DOMAIN cmds : Names(cmds[k].id)
  PROVE  \A k \in DOMAIN cmds' : cmds'[k].id \in told \cup {NoId}
<1>1. CASE cmds' = Append(cmds, c)
  <2>1. /\ DOMAIN cmds = 1 .. Len(cmds) /\ Len(cmds) \in Nat
        /\ DOMAIN cmds' = 1 .. Len(cmds) + 1
        /\ \A k \in 1 .. Len(cmds) : cmds'[k] = cmds[k]
        /\ cmds'[Len(cmds) + 1] = c
    BY <1>1, AppendProperties, LenProperties DEF WireType
  <2>2. ASSUME NEW k \in 1 .. Len(cmds) + 1 PROVE cmds'[k].id \in told \cup {NoId}
    <3>1. CASE k = Len(cmds) + 1
      BY <3>1, <2>1 DEF Names
    <3>2. CASE k \in 1 .. Len(cmds)
      BY <3>2, <2>1 DEF Names
    <3> QED
      BY <3>1, <3>2, <2>1
  <2> QED
    BY <2>1, <2>2
<1>2. CASE cmds' = cmds
  BY <1>2 DEF Names
<1> QED
  BY <1>1, <1>2 DEF Send, wireVars

\* What arrives.
LEMMA HeadEvent ==
  ASSUME WireType, evs # <<>>
  PROVE  /\ Tail(evs) \in Seq(Event)
         /\ Head(evs).op = "spawned" => Head(evs).id \in Id
         /\ Head(evs).op = "tasks" => Head(evs).rows \in Snapshots
<1>1. Head(evs) \in Event /\ Tail(evs) \in Seq(Event)
  BY HeadTailProperties DEF WireType
<1> QED
  BY <1>1 DEF Event
-----------------------------------------------------------------------------
(* Types, one group of actions after the other.                            *)

LEMMA AppTypeByPass ==
  ASSUME AppType, WireType, RunPass
  PROVE  AppType' /\ WireType'
<1>1. CASE Wait
  BY <1>1 DEF Wait, AppType, WireType, listVars, taskVars, askVars, wireVars
<1>2. CASE Sync
  <2>1. WireType'
    BY <1>2, HeadEvent DEF Sync, WireType
  <2>2. CASE SyncSpawned
    <3>1. pending' \in Id /\ told' \subseteq Id
      BY <1>2, <2>2, HeadEvent DEF Sync, SyncSpawned, AppType
    <3> QED
      BY <1>2, <2>1, <2>2, <3>1 DEF Sync, SyncSpawned, AppType, taskVars, askVars
  <2>3. CASE SyncTasks
    <3>1. views' \in Snapshots /\ DOMAIN views' \subseteq Id /\ told' = told \cup DOMAIN views'
      BY <1>2, <2>3, HeadEvent, Listing DEF Sync, SyncTasks
    <3>2. selected' \in {selected, pending} /\ pending' \in {pending, NoId}
      BY <2>3 DEF SyncTasks
    <3> QED
      BY <1>2, <2>1, <3>1, <3>2 DEF Sync, AppType, taskVars, askVars
  <2> QED
    BY <1>2, <2>1, <2>2, <2>3 DEF Sync
<1>3. CASE Checks
  <2>1. selected' \in Id \cup {NoId}
    BY <1>3, Listing DEF Checks, ResolveSelection, AppType
  <2>2. /\ mode' \in {mode, "disconnected", "dashboard"}
        /\ focused' \in {focused, NoId} /\ origin' \in {origin, NoOrigin}
    BY <1>3 DEF Checks, LosesConnection, LosesAttached, LosesNothing, taskVars
  <2>3. target' \in {target, NoId} /\ found' \in {found, {}}
    BY <1>3 DEF Checks, LosesConnection, LosesAttached, LosesNothing, askVars
  <2> QED
    BY <1>3, <2>1, <2>2, <2>3 DEF Checks, AppType, WireType, wireVars
<1> QED
  BY <1>1, <1>2, <1>3 DEF RunPass

LEMMA HereType ==
  ASSUME AppType
  PROVE  Here \in Id \cup {Home}
BY DEF AppType, Here, NoId, Home

\* Where the chord leads.
LEMMA ChordIs ==
  ASSUME AppType, Chord
  PROVE  \/ DetachView
         \/ \E i \in Id : Listed(i) /\ AttachTo(i, Here) /\ (i = origin \/ Here # i)
<1>1. CASE ChordBack
  <2>1. CASE Listed(origin)
    BY <1>1, <2>1, Listing DEF ChordBack, Listed, AppType
  <2>2. CASE ~Listed(origin)
    BY <1>1, <2>2 DEF ChordBack
  <2> QED
    BY <2>1, <2>2
<1>2. CASE ChordOut
  <2>1. PICK i \in DOMAIN views :
          IF mode = "attached" /\ focused = i THEN DetachView ELSE AttachTo(i, Here)
    BY <1>2 DEF ChordOut
  <2>2. i \in Id /\ i # Home
    BY Listing, ClientAssumption DEF AppType, Id, Home
  <2>3. CASE mode = "attached" /\ focused = i
    BY <2>1, <2>3
  <2>4. CASE ~(mode = "attached" /\ focused = i)
    <3>1. Here # i
      BY <2>2, <2>4 DEF Here
    <3> QED
      BY <2>1, <2>2, <2>4, <3>1 DEF Listed
  <2> QED
    BY <2>3, <2>4
<1> QED
  BY <1>1, <1>2 DEF Chord

LEMMA AttachKeepsType ==
  ASSUME NEW i \in Id, NEW from \in Id \cup {Home}, AttachTo(i, from)
  PROVE  mode' = "attached" /\ focused' \in Id /\ origin' \in Id \cup {Home, NoOrigin}
BY DEF AttachTo

LEMMA AppTypeByNavigation ==
  ASSUME AppType, WireType, Navigate
  PROVE  AppType' /\ WireType'
<1>1. pc' = pc /\ views' = views /\ pending' = pending /\ told' = told
  BY DEF Navigate, Move, Peek, OpenLabel, Find, FindEnter, OpenOther, Close, Attach, Detach,
         Chord, NoKeyEffect
<1>2. wireVars' = wireVars
  BY DEF Navigate, Move, Peek, OpenLabel, Find, FindEnter, OpenOther, Close, Attach, Detach,
         Chord, askVars
<1>3. selected' \in Id \cup {NoId} /\ target' \in Id \cup {NoId} /\ found' \subseteq Id
  BY Listing DEF Navigate, Move, Peek, OpenLabel, Find, FindEnter, OpenOther, Close, Attach,
         Detach, Chord, askVars, AppType
<1>4. /\ mode' \in {"dashboard", "peek", "attached", "label", "find", "overlay"}
      /\ focused' \in Id \cup {NoId} /\ origin' \in Id \cup {Home, NoOrigin}
  <2>1. CASE Move \/ Peek \/ OpenLabel \/ Find \/ FindEnter \/ OpenOther \/ Close
    BY <2>1 DEF Move, Peek, OpenLabel, Find, FindEnter, OpenOther, Close, taskVars, AppType,
                Press
  <2>2. CASE Detach
    BY <2>2 DEF Detach, DetachView
  <2>3. CASE Attach
    <3>1. selected \in Id
      BY <2>3, Listing DEF Attach, Listed, AppType
    <3> QED
      BY <2>3, <3>1, AttachKeepsType DEF Attach
  <2>4. CASE Chord
    <3>1. CASE DetachView
      BY <3>1 DEF DetachView
    <3>2. ASSUME NEW i \in Id, AttachTo(i, Here)
          PROVE  mode' = "attached" /\ focused' \in Id /\ origin' \in Id \cup {Home, NoOrigin}
      BY <3>2, HereType, AttachKeepsType
    <3> QED
      BY <2>4, <3>1, <3>2, ChordIs
  <2> QED
    BY <2>1, <2>2, <2>3, <2>4 DEF Navigate
<1> QED
  BY <1>1, <1>2, <1>3, <1>4 DEF AppType, WireType, wireVars

LEMMA AppTypeByCommand ==
  ASSUME AppType, WireType, Command
  PROVE  AppType' /\ WireType'
<1>1. \E c \in Cmd : Send(c)
  <2>1. ASSUME NEW i \in Id \cup {NoId}
        PROVE  \A op \in {"spawn", "load", "restart", "remove", "flagship", "touch"} :
                 Tell(op, i) \in Cmd
    BY DEF Tell, Cmd
  <2>2. CASE Touch
    BY <2>1, <2>2 DEF Touch, AppType
  <2>3. CASE MarkFlagship
    BY <2>1, <2>3 DEF MarkFlagship, AppType
  <2>4. CASE Rerun
    BY <2>1, <2>4 DEF Rerun, AppType
  <2>5. CASE Remove
    BY <2>1, <2>5 DEF Remove, AppType
  <2>6. CASE LabelEnter
    BY <2>1, <2>6 DEF LabelEnter, AppType
  <2>7. CASE OverlayEnter
    BY <2>1, <2>7 DEF OverlayEnter
  <2> QED
    BY <2>2, <2>3, <2>4, <2>5, <2>6, <2>7 DEF Command
<1>2. WireType'
  BY <1>1, SendKeepsType
<1>3. /\ pc' = pc /\ views' = views /\ pending' = pending /\ told' = told
      /\ focused' = focused /\ origin' = origin /\ found' = found
      /\ target' \in {target, NoId} /\ mode' \in {mode, "dashboard"}
  BY DEF Command, Touch, MarkFlagship, Rerun, Remove, LabelEnter, OverlayEnter, NoKeyEffect,
         taskVars, askVars
<1>4. selected' \in Id \cup {NoId}
  BY Listing DEF Command, Touch, MarkFlagship, Rerun, Remove, LabelEnter, OverlayEnter, AppType
<1> QED
  BY <1>2, <1>3, <1>4 DEF AppType

LEMMA TypeByReconnect ==
  ASSUME AppType, WireType, CoreType, Reconnect
  PROVE  AppType' /\ WireType' /\ CoreType'
<1>1. AppType'
  BY NoRowsListing DEF Reconnect, Reset, AppType, askVars
<1>2. WireType'
  BY EmptySeq DEF Reconnect, WireType
<1>3. CoreType'
  <2>1. CASE UNCHANGED <<row, born, flagship>>
    BY <2>1 DEF CoreType
  <2>2. CASE row' = [i \in Id |-> "new"] /\ born' = <<>> /\ flagship' = NoId
    BY <2>2, EmptySeq DEF CoreType
  <2> QED
    BY <2>1, <2>2 DEF Reconnect
<1> QED
  BY <1>1, <1>2, <1>3

LEMMA TypeByLose ==
  ASSUME AppType, WireType, CoreType, Lose
  PROVE  AppType' /\ WireType' /\ CoreType'
<1>1. evs' \in Seq(Event)
  <2>1. PICK n \in 0 .. Len(evs) : evs' = SubSeq(evs, 1, n)
    BY DEF Lose
  <2>2. Len(evs) \in Nat /\ \A i \in 1 .. Len(evs) : evs[i] \in Event
    BY LenProperties, ElementOfSeq DEF WireType
  <2>3. n \in Int /\ 1 \in Int /\ \A i \in 1 .. n : evs[i] \in Event
    BY <2>2
  <2>4. SubSeq(evs, 1, n) \in Seq(Event)
    BY <2>3, SubSeqProperties
  <2> QED
    BY <2>1, <2>4
<1>2. WireType'
  BY <1>1 DEF Lose, WireType
<1> QED
  BY <1>2 DEF Lose, AppType, CoreType, listVars, taskVars, askVars, coreVars

LEMMA CoreTypeByApply ==
  ASSUME WireType, CoreType, Apply
  PROVE  WireType' /\ CoreType'
<1>1. cmds # <<>> /\ cmds' = Tail(cmds) /\ link' = link /\ evs' = evs
  BY DEF Apply
<1>2. Head(cmds) \in Cmd /\ Tail(cmds) \in Seq(Cmd)
  BY <1>1, HeadTailProperties DEF WireType
<1>3. WireType'
  BY <1>1, <1>2 DEF WireType
<1>4. Head(cmds).id \in Id \cup {NoId}
  BY <1>2 DEF Cmd
<1>5. \A i, v : v \in {"new", "runs", "done", "gone"} =>
        [row EXCEPT ![i] = v] \in [Id -> {"new", "runs", "done", "gone"}]
  BY DEF CoreType
<1>6. CASE ApplySpawn(Head(cmds))
  <2>1. \A i \in Id : Append(born, i) \in Seq(Id)
    BY AppendProperties DEF CoreType
  <2>2. row' \in [Id -> {"new", "runs", "done", "gone"}]
    BY <1>5, <1>6 DEF ApplySpawn, CoreType
  <2>3. born' \in Seq(Id) /\ flagship' = flagship
    BY <2>1, <1>6 DEF ApplySpawn, CoreType
  <2> QED
    BY <1>3, <2>2, <2>3 DEF CoreType
<1>7. CASE ApplyLoad(Head(cmds))
  <2>1. row' \in [Id -> {"new", "runs", "done", "gone"}]
    BY <1>5, <1>7 DEF ApplyLoad, CoreType
  <2>2. flagship' \in Id \cup {NoId} /\ born' = born
    BY <1>7 DEF ApplyLoad, CoreType
  <2> QED
    BY <1>3, <2>1, <2>2 DEF CoreType
<1>8. CASE ApplyRestart(Head(cmds))
  BY <1>3, <1>5, <1>8 DEF ApplyRestart, CoreType
<1>9. CASE ApplyRemove(Head(cmds))
  BY <1>3, <1>5, <1>9 DEF ApplyRemove, CoreType
<1>10. CASE ApplyOther(Head(cmds))
  BY <1>3, <1>4, <1>10 DEF ApplyOther, CoreType
<1> QED
  BY <1>6, <1>7, <1>8, <1>9, <1>10 DEF Apply

LEMMA RowsListing ==
  ASSUME NEW v, v = [i \in Rows |-> [done |-> row[i] = "done", flag |-> i = Mark]]
  PROVE  v \in Snapshots
<1>1. Rows \in SUBSET Id
  BY DEF Rows
<1>2. v \in [Rows -> View]
  BY DEF View
<1> QED
  BY <1>1, <1>2 DEF Snapshots

LEMMA CoreTypeByTick ==
  ASSUME WireType, CoreType, Tick
  PROVE  WireType' /\ CoreType'
<1> DEFINE acks == [k \in DOMAIN born |-> [op |-> "spawned", id |-> born[k]]]
           news == [op |-> "tasks",
                    rows |-> [i \in Rows |-> [done |-> row[i] = "done", flag |-> i = Mark]]]
<1>1. acks \in Seq(Event)
  <2>1. DOMAIN born = 1 .. Len(born) /\ Len(born) \in Nat /\ \A k \in 1 .. Len(born) : born[k] \in Id
    BY LenProperties, ElementOfSeq DEF CoreType
  <2>2. \A k \in 1 .. Len(born) : [op |-> "spawned", id |-> born[k]] \in Event
    BY <2>1 DEF Event
  <2>3. acks \in [1 .. Len(born) -> Event]
    BY <2>1, <2>2
  <2> QED
    BY <2>1, <2>3, SeqDef
<1>2. <<news>> \in Seq(Event)
  <2>1. news \in Event
    BY RowsListing DEF Event
  <2> HIDE DEF news
  <2> QED
    BY <2>1, SeqDef
<1>3. evs \o acks \o <<news>> \in Seq(Event)
  <2> HIDE DEF acks, news
  <2> QED
    BY <1>1, <1>2, ConcatProperties DEF WireType
<1>4. WireType'
  BY <1>3 DEF Tick, WireType
<1>5. CoreType'
  BY EmptySeq DEF Tick, CoreType, Mark
<1> QED
  BY <1>4, <1>5

LEMMA TypeByCore ==
  ASSUME AppType, WireType, CoreType, Core
  PROVE  AppType' /\ WireType' /\ CoreType'
<1>1. AppType'
  BY DEF Core, Apply, Tick, Exit, listVars, taskVars, askVars, AppType
<1>2. CASE \E i \in Id : Exit(i)
  BY <1>1, <1>2 DEF Exit, wireVars, WireType, CoreType
<1> QED
  BY <1>1, <1>2, CoreTypeByApply, CoreTypeByTick DEF Core

\* Every handler of the client and every step of the core keeps to the types.
THEOREM ClientTypes == Spec => []TypeOK
<1>1. Init => TypeOK
  <2>1. ASSUME Init PROVE AppType
    BY <2>1, NoRowsListing DEF Init, AppType
  <2>2. ASSUME Init PROVE WireType /\ CoreType
    BY <2>2, EmptySeq DEF Init, WireType, CoreType
  <2> QED
    BY <2>1, <2>2, TypeParts
<1>2. TypeOK /\ [Next]_vars => TypeOK'
  <2> SUFFICES ASSUME AppType, WireType, CoreType, [Next]_vars
               PROVE  AppType' /\ WireType' /\ CoreType'
    BY TypeParts DEF TypeOK, AppType, WireType, CoreType
  <2>1. ASSUME RunPass \/ Navigate \/ Command PROVE CoreType'
    BY <2>1 DEF RunPass, Wait, Sync, Checks, Navigate, Move, Peek, OpenLabel, Find, FindEnter,
                OpenOther, Close, Attach, Detach, Chord, Command, Touch, MarkFlagship, Rerun,
                Remove, LabelEnter, OverlayEnter, NoKeyEffect, coreVars, CoreType
  <2>2. CASE UNCHANGED vars
    BY <2>2 DEF vars, listVars, taskVars, askVars, wireVars, coreVars, AppType, WireType, CoreType
  <2> QED
    BY <2>1, <2>2, AppTypeByPass, AppTypeByNavigation, AppTypeByCommand, TypeByReconnect,
       TypeByLose, TypeByCore DEF Next
<1> QED
  BY <1>1, <1>2, PTL DEF Spec
-----------------------------------------------------------------------------
(* Names. What a step takes up comes from the snapshot or an event; what   *)
(* it keeps was named before, since only a reconnect forgets names.        *)

LEMMA OwnIdsByPass ==
  ASSUME TypeOK, OwnIds, RunPass
  PROVE  OwnIds'
<1>1. CASE Wait
  BY <1>1 DEF Wait, OwnIds, Names, listVars, taskVars, askVars, wireVars
<1>2. CASE Sync
  <2>1. told \subseteq told' /\ DOMAIN views' \subseteq told'
    BY <1>2 DEF Sync, SyncSpawned, SyncTasks, OwnIds
  <2>2. pending' \in told' \cup {NoId} /\ selected' \in told' \cup {NoId}
    BY <1>2, <2>1 DEF Sync, SyncSpawned, SyncTasks, OwnIds, Names
  <2> QED
    BY <1>2, <2>1, <2>2 DEF Sync, OwnIds, Names, taskVars, askVars
<1>3. CASE Checks
  <2>1. selected' \in told \cup {NoId}
    BY <1>3 DEF Checks, ResolveSelection, OwnIds, Names
  <2>2. /\ mode' \in {mode, "disconnected", "dashboard"}
        /\ focused' \in {focused, NoId} /\ origin' \in {origin, NoOrigin}
    BY <1>3 DEF Checks, LosesConnection, LosesAttached, LosesNothing, taskVars
  <2>3. \/ mode' = "disconnected"
        \/ mode' \in {mode, "dashboard"} /\ target' = target /\ found' = found
    BY <1>3 DEF Checks, LosesConnection, LosesAttached, LosesNothing, taskVars, askVars
  <2> QED
    BY <1>3, <2>1, <2>2, <2>3 DEF Checks, OwnIds, Names, wireVars
<1> QED
  BY <1>1, <1>2, <1>3 DEF RunPass

LEMMA OwnIdsByNavigation ==
  ASSUME TypeOK, OwnIds, Navigate
  PROVE  OwnIds'
<1>1. views' = views /\ pending' = pending /\ told' = told
  BY DEF Navigate, Move, Peek, OpenLabel, Find, FindEnter, OpenOther, Close, Attach, Detach,
         Chord, NoKeyEffect
<1>2. cmds' = cmds
  BY DEF Navigate, Move, Peek, OpenLabel, Find, FindEnter, OpenOther, Close, Attach, Detach,
         Chord, askVars, wireVars
<1>3. CASE Move \/ Peek \/ OpenLabel \/ Find \/ FindEnter \/ OpenOther \/ Close
  <2>1. focused' = focused /\ origin' = origin
    BY <1>3 DEF Move, Peek, OpenLabel, Find, FindEnter, OpenOther, Close, taskVars
  <2>2. selected' \in told \cup {NoId}
    BY <1>3 DEF Move, Peek, OpenLabel, Find, FindEnter, OpenOther, Close, OwnIds, Names, Press
  <2>3. (mode' = "label" => target' \in told) /\ (mode' = "find" => found' \subseteq told)
    BY <1>3 DEF Move, Peek, OpenLabel, Find, FindEnter, OpenOther, Close, OwnIds, Listed, Press,
                askVars
  <2> QED
    BY <1>1, <1>2, <2>1, <2>2, <2>3 DEF OwnIds, Names
<1>4. CASE Attach \/ Detach \/ Chord
  <2>1. /\ selected' = selected /\ mode' \notin {"label", "find"}
        /\ focused' \in told \cup {NoId} /\ origin' \in told \cup {Home, NoOrigin}
    <3>1. CASE Detach
      BY <3>1 DEF Detach, DetachView
    <3>2. CASE Attach
      BY <3>2 DEF Attach, AttachTo, Listed, OwnIds
    <3>3. CASE Chord
      <4>1. Here \in told \cup {Home}
        BY DEF Here, OwnIds, Names, NoId, Home
      <4>2. CASE DetachView
        BY <3>3, <4>2 DEF Chord, DetachView
      <4>3. ASSUME NEW i \in Id, Listed(i), AttachTo(i, Here)
            PROVE  /\ mode' = "attached" /\ focused' \in told
                   /\ origin' \in told \cup {Home, NoOrigin}
        BY <4>1, <4>3 DEF AttachTo, Listed, OwnIds
      <4>4. selected' = selected
        BY <3>3 DEF Chord
      <4> QED
        BY <3>3, <4>2, <4>3, <4>4, ChordIs, TypeParts
    <3> QED
      BY <1>4, <3>1, <3>2, <3>3
  <2> QED
    BY <1>1, <1>2, <2>1 DEF OwnIds, Names
<1> QED
  BY <1>3, <1>4 DEF Navigate

LEMMA OwnIdsByCommand ==
  ASSUME TypeOK, OwnIds, Command
  PROVE  OwnIds'
<1>1. \E c \in Cmd : Send(c) /\ Names(c.id)
  <2>1. ASSUME NEW i \in Id \cup {NoId}
        PROVE  \A op \in {"spawn", "load", "restart", "remove", "flagship", "touch"} :
                 Tell(op, i) \in Cmd /\ Tell(op, i).id = i
    BY DEF Tell, Cmd
  <2>2. NoId \in Id \cup {NoId} /\ Names(NoId) /\ Names(selected) /\ Names(focused)
        /\ selected \in Id \cup {NoId} /\ focused \in Id \cup {NoId}
    BY DEF OwnIds, Names, TypeOK
  <2>3. CASE Touch
    BY <2>1, <2>2, <2>3 DEF Touch
  <2>4. CASE MarkFlagship
    BY <2>1, <2>2, <2>4 DEF MarkFlagship
  <2>5. CASE Rerun
    BY <2>1, <2>2, <2>5 DEF Rerun
  <2>6. CASE Remove
    BY <2>1, <2>2, <2>6 DEF Remove
  <2>7. CASE LabelEnter
    <3>1. target \in Id \cup {NoId} /\ Names(target)
      BY <2>7 DEF LabelEnter, Press, OwnIds, Names, TypeOK
    <3> QED
      BY <2>1, <2>7, <3>1 DEF LabelEnter
  <2>8. CASE OverlayEnter
    BY <2>1, <2>2, <2>8 DEF OverlayEnter
  <2> QED
    BY <2>3, <2>4, <2>5, <2>6, <2>7, <2>8 DEF Command
<1>2. \A k \in DOMAIN cmds' : cmds'[k].id \in told \cup {NoId}
  BY <1>1, SendNames, TypeParts DEF OwnIds
<1>3. /\ views' = views /\ pending' = pending /\ told' = told
      /\ focused' = focused /\ origin' = origin /\ found' = found
      /\ mode' \in {mode, "dashboard"} /\ (mode' = "label" => target' = target)
  BY DEF Command, Touch, MarkFlagship, Rerun, Remove, LabelEnter, OverlayEnter, NoKeyEffect,
         taskVars, askVars
<1>4. selected' \in told \cup {NoId}
  BY DEF Command, Touch, MarkFlagship, Rerun, Remove, LabelEnter, OverlayEnter, OwnIds, Names
<1> QED
  BY <1>2, <1>3, <1>4 DEF OwnIds, Names
-----------------------------------------------------------------------------
(* Attachment.                                                             *)

LEMMA Places == Home \notin Id /\ NoId \notin Id /\ NoOrigin \notin Id /\ Home # NoOrigin
BY ClientAssumption DEF Home, NoId, NoOrigin, Id

LEMMA CoherentByPass ==
  ASSUME TypeOK, AttachCoherent, RunPass
  PROVE  AttachCoherent'
<1>1. CASE Wait
  BY <1>1 DEF Wait, AttachCoherent, taskVars
<1>2. CASE Sync
  BY <1>2 DEF Sync, AttachCoherent, taskVars
<1>3. CASE Checks
  BY <1>3 DEF Checks, LosesConnection, LosesAttached, LosesNothing, AttachCoherent, Listed,
              taskVars
<1> QED
  BY <1>1, <1>2, <1>3 DEF RunPass

\* Whoever attaches to a listed task comes from elsewhere.
LEMMA AttachIsCoherent ==
  ASSUME NEW i \in Id, Listed(i), NEW from \in Id \cup {Home}, i # from,
         AttachTo(i, from), views' = views
  PROVE  AttachCoherent'
BY Places DEF AttachTo, AttachCoherent, Listed

LEMMA CoherentByNavigation ==
  ASSUME TypeOK, AttachCoherent, Navigate
  PROVE  AttachCoherent'
<1>1. views' = views /\ pc' = pc
  BY DEF Navigate, Move, Peek, OpenLabel, Find, FindEnter, OpenOther, Close, Attach, Detach,
         Chord, NoKeyEffect
<1>2. CASE Move \/ Peek \/ OpenLabel \/ Find \/ FindEnter \/ OpenOther \/ Close
  <2>1. /\ focused' = focused /\ origin' = origin
        /\ mode # "attached" /\ mode' # "attached"
    BY <1>2 DEF Move, Peek, OpenLabel, Find, FindEnter, OpenOther, Close, Press, taskVars
  <2> QED
    BY <1>1, <2>1 DEF AttachCoherent
<1>3. CASE DetachView
  BY <1>3 DEF DetachView, AttachCoherent
<1>4. CASE Attach
  <2>1. selected \in Id /\ Listed(selected) /\ Home \in Id \cup {Home} /\ selected # Home
    BY <1>4, Listing, Places DEF Attach, Listed, TypeOK
  <2> QED
    BY <1>1, <1>4, <2>1, AttachIsCoherent DEF Attach
<1>5. CASE Chord
  <2>1. ASSUME NEW i \in Id, Listed(i), AttachTo(i, Here), i = origin \/ Here # i
        PROVE  AttachCoherent'
    <3>1. Here # i
      BY <2>1, Places DEF Here, AttachCoherent
    <3>2. Here \in Id \cup {Home}
      BY HereType, TypeParts
    <3> QED
      BY <1>1, <2>1, <3>1, <3>2, AttachIsCoherent
  <2> QED
    BY <1>3, <1>5, <2>1, ChordIs, TypeParts
<1> QED
  BY <1>2, <1>3, <1>4, <1>5 DEF Navigate, Detach

LEMMA CoherentByCommand ==
  ASSUME TypeOK, AttachCoherent, Command
  PROVE  AttachCoherent'
<1>1. /\ views' = views /\ pc' = pc /\ focused' = focused /\ origin' = origin
      /\ mode' = mode \/ (mode # "attached" /\ mode' # "attached")
  BY DEF Command, Touch, MarkFlagship, Rerun, Remove, LabelEnter, OverlayEnter, NoKeyEffect,
         taskVars, Press
<1> QED
  BY <1>1 DEF AttachCoherent, Listed

\* Input goes to a task of the snapshot, and the way back of the chord leads elsewhere.
THEOREM AttachmentCoherent == Spec => []AttachCoherent
<1>1. Init => AttachCoherent
  BY DEF Init, AttachCoherent
<1>2. TypeOK /\ AttachCoherent /\ [Next]_vars => AttachCoherent'
  <2> SUFFICES ASSUME TypeOK, AttachCoherent, [Next]_vars PROVE AttachCoherent'
    OBVIOUS
  <2>1. CASE Reconnect
    BY <2>1 DEF Reconnect, Reset, Press, AttachCoherent
  <2>2. CASE Lose \/ Core \/ UNCHANGED vars
    <3>1. pc' = pc /\ mode' = mode /\ views' = views /\ focused' = focused /\ origin' = origin
      BY <2>2 DEF Lose, Core, Apply, Tick, Exit, vars, listVars, taskVars
    <3> QED
      BY <3>1 DEF AttachCoherent, Listed
  <2> QED
    BY <2>1, <2>2, CoherentByPass, CoherentByNavigation, CoherentByCommand DEF Next
<1> QED
  BY <1>1, <1>2, ClientTypes, PTL DEF Spec

\* What the client holds and sends was named on this connection: a reconnect leaves
\* nothing behind, not even what was attached, since a lost connection detaches.
THEOREM IdsAreOwn == Spec => []OwnIds
<1>1. Init => OwnIds
  <2>1. ASSUME Init PROVE DOMAIN cmds = {}
    BY <2>1, EmptySeq, LenProperties DEF Init
  <2> QED
    BY <2>1, NoRowsListing DEF Init, OwnIds, Names
<1>2. TypeOK /\ AttachCoherent /\ OwnIds /\ [Next]_vars => OwnIds'
  <2> SUFFICES ASSUME TypeOK, AttachCoherent, OwnIds, [Next]_vars PROVE OwnIds'
    OBVIOUS
  <2>1. CASE Reconnect
    <3>1. cmds' = <<>> /\ DOMAIN cmds' = {}
      BY <2>1, EmptySeq, LenProperties DEF Reconnect
    <3>2. focused' = NoId
      BY <2>1 DEF Reconnect, Press, AttachCoherent
    <3> QED
      BY <2>1, <3>1, <3>2, NoRowsListing DEF Reconnect, Reset, OwnIds, Names
  <2>2. CASE Lose \/ Core \/ UNCHANGED vars
    <3>1. /\ mode' = mode /\ views' = views /\ selected' = selected /\ pending' = pending
          /\ told' = told /\ focused' = focused /\ origin' = origin /\ target' = target
          /\ found' = found
      BY <2>2 DEF Lose, Core, Apply, Tick, Exit, vars, listVars, taskVars, askVars
    <3>2. \A k \in DOMAIN cmds' : Names(cmds'[k].id)
      <4>1. CASE Apply
        <5>1. cmds # <<>> /\ cmds' = Tail(cmds) /\ cmds \in Seq(Cmd)
          BY <4>1 DEF Apply, TypeOK
        <5>2. /\ Len(cmds) \in Nat \ {0} /\ DOMAIN cmds = 1 .. Len(cmds)
              /\ DOMAIN cmds' = 1 .. Len(cmds) - 1
              /\ \A k \in 1 .. Len(cmds) - 1 : cmds'[k] = cmds[k + 1]
          BY <5>1, HeadTailProperties, LenProperties, EmptySeq
        <5>3. ASSUME NEW k \in 1 .. Len(cmds) - 1 PROVE Names(cmds'[k].id)
          <6>1. k + 1 \in DOMAIN cmds
            BY <5>2
          <6> QED
            BY <5>2, <6>1 DEF OwnIds
        <5> QED
          BY <5>2, <5>3
      <4>2. CASE cmds' = cmds
        BY <4>2 DEF OwnIds
      <4> QED
        BY <2>2, <4>1, <4>2 DEF Lose, Core, Tick, Exit, vars, wireVars
    <3> QED
      BY <3>1, <3>2 DEF OwnIds, Names
  <2> QED
    BY <2>1, <2>2, OwnIdsByPass, OwnIdsByNavigation, OwnIdsByCommand DEF Next
<1> QED
  BY <1>1, <1>2, ClientTypes, AttachmentCoherent, PTL DEF Spec

-----------------------------------------------------------------------------
(* The mouse.                                                              *)

\* The child reads the cell under the pointer or the last one that it can be told of, and never
\* a report with arrows (mouse_bytes).
THEOREM MouseAlwaysHits == MouseHits
<1> SUFFICES ASSUME NEW tracking \in Modes, NEW e \in Encodings, NEW k \in MouseKinds,
                    NEW col \in Cells, NEW line \in Cells
             PROVE  /\ \A r \in MouseBytes(tracking, e, k, col, line) :
                         r.x = First(e) + Smaller(col, Last(e)) /\ r.y = First(e) + Smaller(line, Last(e))
                    /\ MouseBytes(tracking, e, k, col, line) = {} \/ WheelKeys(tracking, TRUE, FALSE, k) = {}
  BY DEF MouseHits
<1>1. col \in Nat /\ col <= 65534 /\ line \in Nat /\ line <= 65534
  BY InputAssumption
<1>2. ASSUME NEW r \in MouseBytes(tracking, e, k, col, line)
      PROVE  r.x = First(e) + Smaller(col, Last(e)) /\ r.y = First(e) + Smaller(line, Last(e))
  <2>1. r \in MouseReport(e, k, col, line)
    BY DEF MouseBytes
  <2>2. CASE e = "Sgr"
    <3>1. r.x = (col + 1) % 65536 /\ r.y = (line + 1) % 65536
      BY <2>1, <2>2 DEF MouseReport, Report
    <3>2. First(e) = 1 /\ Last(e) = 65534
      BY <2>2 DEF First, Last
    <3> QED
      BY <1>1, <3>1, <3>2 DEF Smaller
  <2>3. CASE e = "Utf8"
    <3>1. r.x = 33 + Smaller(col, 2014) /\ r.y = 33 + Smaller(line, 2014)
      BY <2>1, <2>3 DEF MouseReport, Report
    <3> QED
      BY <2>3, <3>1 DEF First, Last
  <2>4. CASE e = "Default"
    <3>1. r.x = OneByte(col) /\ r.y = OneByte(line)
      BY <2>1, <2>4 DEF MouseReport, Report
    <3>2. First(e) = 33 /\ Last(e) = 222
      BY <2>4 DEF First, Last
    <3> QED
      BY <1>1, <3>1, <3>2 DEF OneByte, Smaller
  <2> QED
    BY <2>2, <2>3, <2>4 DEF Encodings
<1>3. MouseBytes(tracking, e, k, col, line) = {} \/ WheelKeys(tracking, TRUE, FALSE, k) = {}
  <2>1. CASE tracking = "None"
    BY <2>1 DEF MouseBytes
  <2>2. CASE tracking # "None"
    BY <2>2 DEF WheelKeys
  <2> QED
    BY <2>1, <2>2
<1> QED
  BY <1>2, <1>3

-----------------------------------------------------------------------------
(* Keys.                                                                   *)

Alts == {{}, {"alt"}}

\* The tokens of a short form, and the key that each is of.
Tokens == Characters \cup {Controls[c] : c \in DOMAIN Controls} \cup DOMAIN ControlKey
TokenKey(t) == IF t \in DOMAIN ControlKey THEN Key(ControlKey[t], 0, "") ELSE Key("Char", 0, t)

\* The bytes of a press that has a short form.
Escaped(A, t) == IF A = {} THEN <<t>> ELSE <<"ESC", t>>

\* The four forms in which a press is sent, with what each means.
ShortForm(s, mn) ==
  \E t \in Tokens, A \in Alts : mn = <<TokenKey(t), A>> /\ s = Escaped(A, t)

BackForm(s, mn) ==
  \E A \in Alts : /\ mn = <<Key("BackTab", 0, ""), A>>
                  /\ s = IF A = {} THEN <<"ESC", "[", "Z">> ELSE <<"ESC", "ESC", "[", "Z">>

Digit(m) == ModDigit[1 + (IF "shift" \in m THEN 1 ELSE 0) + (IF "alt" \in m THEN 2 ELSE 0)
                       + (IF "ctrl" \in m THEN 4 ELSE 0)]

LetterKeys == {Key(k, 0, "") : k \in DOMAIN CursorLetter} \cup {Key("F", n, "") : n \in 1 .. 4}
NumberKeys == {Key(k, 0, "") : k \in DOMAIN TildeNumber} \cup {Key("F", n, "") : n \in 5 .. 12}

LetterOf(key) == IF key.kind = "F" THEN FLetter[key.n] ELSE CursorLetter[key.kind]
NumberOf(key) == IF key.kind = "F" THEN FNumber[key.n - 4] ELSE TildeNumber[key.kind]

LetterForm(app, s, mn) ==
  \E key \in LetterKeys, m \in Mods :
    /\ mn = <<key, m>>
    /\ s = IF m = {} THEN <<"ESC", IF key.kind = "F" \/ app THEN "O" ELSE "[", LetterOf(key)>>
           ELSE <<"ESC", "[", "1", ";", Digit(m), LetterOf(key)>>

NumberForm(s, mn) ==
  \E key \in NumberKeys, m \in Mods :
    /\ mn = <<key, m>>
    /\ s = IF m = {} THEN <<"ESC", "[", NumberOf(key), "~">>
           ELSE <<"ESC", "[", NumberOf(key), ";", Digit(m), "~">>

\* The parameter of a modifier tells which it is.
LEMMA DigitIs ==
  \A m \in Mods : /\ ModParam(m) = IF m = {} THEN {} ELSE {Digit(m)}
                  /\ \A o \in Mods : Digit(m) = Digit(o) => m = o
<1> SUFFICES ASSUME NEW m \in Mods
             PROVE  /\ ModParam(m) = IF m = {} THEN {} ELSE {Digit(m)}
                    /\ \A o \in Mods : Digit(m) = Digit(o) => m = o
  OBVIOUS
<1>1. ModParam(m) = IF m = {} THEN {} ELSE {Digit(m)}
  BY DEF ModParam, Digit
<1>2. ASSUME NEW o \in Mods, Digit(m) = Digit(o) PROVE m = o
  <2> DEFINE N(x) == 1 + (IF "shift" \in x THEN 1 ELSE 0) + (IF "alt" \in x THEN 2 ELSE 0)
                       + (IF "ctrl" \in x THEN 4 ELSE 0)
  <2>1. N(m) \in 1 .. 8 /\ N(o) \in 1 .. 8
    OBVIOUS
  <2>2. ModDigit[N(m)] = ModDigit[N(o)]
    BY <1>2 DEF Digit
  <2>3. N(m) = N(o)
    <3> HIDE DEF N
    <3>1. \A i, j \in 1 .. 8 : ModDigit[i] = ModDigit[j] => i = j
      BY DEF ModDigit
    <3> QED
      BY <2>1, <2>2, <3>1
  <2>4. \A x \in {"shift", "alt", "ctrl"} : x \in m <=> x \in o
    BY <2>3
  <2>5. m \subseteq {"shift", "alt", "ctrl"} /\ o \subseteq {"shift", "alt", "ctrl"}
    BY DEF Mods
  <2>6. \A x : x \in m <=> x \in o
    BY <2>4, <2>5
  <2> QED
    BY <2>6
<1> QED
  BY <1>1, <1>2

\* One of the four.
Form(app, s, mn) == ShortForm(s, mn) \/ BackForm(s, mn) \/ LetterForm(app, s, mn) \/ NumberForm(s, mn)

LEMMA KeyIs == \A k, n, c : Key(k, n, c).kind = k /\ Key(k, n, c).n = n /\ Key(k, n, c).c = c
BY DEF Key

\* What each key is sent as,
LEMMA CharBytesOf == \A app, m, c : KeyBytes(app, Key("Char", 0, c), m) = CharBytes(c, m)
BY DEF KeyBytes, CursorLetter, TildeNumber, Key

LEMMA FBytesOf == \A app, m, n : KeyBytes(app, Key("F", n, ""), m) = FBytes(n, m)
BY DEF KeyBytes, CursorLetter, TildeNumber, Key

LEMMA LetterBytesOf ==
  \A app, m : \A k \in DOMAIN CursorLetter : KeyBytes(app, Key(k, 0, ""), m) = {LetterBytes(app, CursorLetter[k], m)}
BY DEF KeyBytes, CursorLetter, TildeNumber, Key

LEMMA TildeBytesOf ==
  \A app, m : \A k \in DOMAIN TildeNumber : KeyBytes(app, Key(k, 0, ""), m) = {TildeBytes(TildeNumber[k], m)}
BY DEF KeyBytes, CursorLetter, TildeNumber, Key

\* and what it means.
LEMMA ControlMeans ==
  \A m, c : "ctrl" \in m /\ Controls[c] \in DOMAIN ControlKey =>
    Meaning(Key("Char", 0, c), m) = <<Key(ControlKey[Controls[c]], 0, ""), m \cap {"alt"}>>
BY DEF Meaning, CursorLetter, TildeNumber, Key

LEMMA OtherControlMeans ==
  \A m, c : "ctrl" \in m /\ Controls[c] \notin DOMAIN ControlKey =>
    Meaning(Key("Char", 0, c), m) = <<Key("Char", 0, Controls[c]), m \cap {"alt"}>>
BY DEF Meaning, CursorLetter, TildeNumber, Key

LEMMA CharMeans ==
  \A m, c : "ctrl" \notin m => Meaning(Key("Char", 0, c), m) = <<Key("Char", 0, c), m \cap {"alt"}>>
BY DEF Meaning, CursorLetter, TildeNumber, Key

LEMMA CursorMeans == \A m : \A k \in DOMAIN CursorLetter \cup DOMAIN TildeNumber : Meaning(Key(k, 0, ""), m) = <<Key(k, 0, ""), m>>
BY DEF Meaning, CursorLetter, TildeNumber, Key

LEMMA FMeans == \A m, n : Meaning(Key("F", n, ""), m) = <<Key("F", n, ""), m>>
BY DEF Meaning, CursorLetter, TildeNumber, Key

LEMMA EnterMeans ==
  \A m : Meaning(Key("Enter", 0, ""), m) = <<Key("Enter", 0, ""), IF m \cap {"shift", "alt"} # {} THEN {"alt"} ELSE {}>>
BY DEF Meaning, CursorLetter, TildeNumber, Key

LEMMA RestMeans ==
  \A m : /\ Meaning(Key("Tab", 0, ""), m) = <<Key("Tab", 0, ""), m \cap {"alt"}>>
         /\ Meaning(Key("BackTab", 0, ""), m) = <<Key("BackTab", 0, ""), m \cap {"alt"}>>
         /\ Meaning(Key("Backspace", 0, ""), m) = <<Key("Backspace", 0, ""), m \cap {"alt"}>>
         /\ Meaning(Key("Esc", 0, ""), m) = <<Key("Esc", 0, ""), m \cap {"alt"}>>
BY DEF Meaning, CursorLetter, TildeNumber, Key

\* What ESC before it makes of a press.
LEMMA MetaIs ==
  /\ \A t : MetaBytes(TRUE, <<t>>) = <<"ESC", t>> /\ MetaBytes(FALSE, <<t>>) = <<t>>
  /\ MetaBytes(TRUE, <<"ESC", "[", "Z">>) = <<"ESC", "ESC", "[", "Z">>
  /\ MetaBytes(FALSE, <<"ESC", "[", "Z">>) = <<"ESC", "[", "Z">>
<1>1. ASSUME NEW t PROVE MetaBytes(TRUE, <<t>>) = <<"ESC", t>> /\ MetaBytes(FALSE, <<t>>) = <<t>>
  <2> DEFINE S == {"ESC", t}
             u == <<"ESC">> \o <<t>>
             v == <<"ESC", t>>
  <2>1. /\ <<"ESC">> \in Seq(S) /\ <<t>> \in Seq(S)
        /\ v \in Seq(S) /\ Len(v) = 2 /\ v[1] = "ESC" /\ v[2] = t
    OBVIOUS
  <2>2. u \in Seq(S) /\ Len(u) = 2 /\ u[1] = "ESC" /\ u[2] = t
    BY <2>1, ConcatProperties
  <2>3. <<>> \o <<t>> = <<t>>
    BY <2>1, ConcatEmptySeq
  <2> HIDE DEF u, v, S
  <2>4. \A i \in 1 .. Len(u) : u[i] = v[i]
    BY <2>1, <2>2
  <2>5. u = v
    BY <2>1, <2>2, <2>4, SeqEqual
  <2> QED
    BY <2>3, <2>5 DEF MetaBytes, u, v
<1>2. MetaBytes(TRUE, <<"ESC", "[", "Z">>) = <<"ESC", "ESC", "[", "Z">>
  <2> DEFINE S == {"ESC", "[", "Z"}
             s == <<"ESC", "[", "Z">>
             u == <<"ESC">> \o s
             v == <<"ESC", "ESC", "[", "Z">>
  <2>1. /\ <<"ESC">> \in Seq(S) /\ s \in Seq(S) /\ v \in Seq(S) /\ Len(v) = 4
        /\ v[1] = "ESC" /\ v[2] = "ESC" /\ v[3] = "[" /\ v[4] = "Z"
    OBVIOUS
  <2>2. u \in Seq(S) /\ Len(u) = 4 /\ u[1] = "ESC" /\ u[2] = "ESC" /\ u[3] = "[" /\ u[4] = "Z"
    BY <2>1, ConcatProperties
  <2> HIDE DEF u, v, S
  <2>3. \A i \in 1 .. 4 : i = 1 \/ i = 2 \/ i = 3 \/ i = 4
    OBVIOUS
  <2>4. \A i \in 1 .. Len(u) : u[i] = v[i]
    BY <2>1, <2>2, <2>3
  <2>5. u = v
    BY <2>1, <2>2, <2>4, SeqEqual
  <2> QED
    BY <2>5 DEF MetaBytes, u, v
<1>3. MetaBytes(FALSE, <<"ESC", "[", "Z">>) = <<"ESC", "[", "Z">>
  BY DEF MetaBytes
<1> QED
  BY <1>1, <1>2, <1>3

LEMMA EnterBytesOf ==
  \A app, m : KeyBytes(app, Key("Enter", 0, ""), m)
                = {Escaped(IF m \cap {"shift", "alt"} # {} THEN {"alt"} ELSE {}, "CR")}
<1> TAKE app, m
<1>1. KeyBytes(app, Key("Enter", 0, ""), m) = {MetaBytes(m \cap {"shift", "alt"} # {}, <<"CR">>)}
  BY DEF KeyBytes, CursorLetter, TildeNumber, Key
<1>2. CASE m \cap {"shift", "alt"} # {}
  <2>1. (m \cap {"shift", "alt"} # {}) = TRUE
    BY <1>2
  <2> QED
    BY <1>1, <1>2, <2>1, MetaIs DEF Escaped
<1>3. CASE m \cap {"shift", "alt"} = {}
  <2>1. (m \cap {"shift", "alt"} # {}) = FALSE
    BY <1>3
  <2> QED
    BY <1>1, <1>3, <2>1, MetaIs DEF Escaped
<1> QED
  BY <1>2, <1>3

LEMMA AltBytes == \A m, t : MetaBytes("alt" \in m, <<t>>) = Escaped(m \cap {"alt"}, t)
<1> TAKE m, t
<1>1. CASE "alt" \in m
  <2>1. ("alt" \in m) = TRUE /\ m \cap {"alt"} # {}
    BY <1>1
  <2> QED
    BY <2>1, MetaIs DEF Escaped
<1>2. CASE "alt" \notin m
  <2>1. ("alt" \in m) = FALSE /\ m \cap {"alt"} = {}
    BY <1>2
  <2> QED
    BY <2>1, MetaIs DEF Escaped
<1> QED
  BY <1>1, <1>2

LEMMA RestBytesOf ==
  \A app, m : /\ KeyBytes(app, Key("Tab", 0, ""), m) = {Escaped(m \cap {"alt"}, "HT")}
              /\ KeyBytes(app, Key("Backspace", 0, ""), m) = {Escaped(m \cap {"alt"}, "DEL")}
              /\ KeyBytes(app, Key("Esc", 0, ""), m) = {Escaped(m \cap {"alt"}, "ESC")}
<1> TAKE app, m
<1>1. KeyBytes(app, Key("Tab", 0, ""), m) = {MetaBytes("alt" \in m, <<"HT">>)}
  BY DEF KeyBytes, CursorLetter, TildeNumber, Key, AltMeta
<1>2. KeyBytes(app, Key("Backspace", 0, ""), m) = {MetaBytes("alt" \in m, <<"DEL">>)}
  BY DEF KeyBytes, CursorLetter, TildeNumber, Key, AltMeta
<1>3. KeyBytes(app, Key("Esc", 0, ""), m) = {MetaBytes("alt" \in m, <<"ESC">>)}
  BY DEF KeyBytes, CursorLetter, TildeNumber, Key, AltMeta
<1> QED
  BY <1>1, <1>2, <1>3, AltBytes

LEMMA BackTabBytesOf ==
  \A app, m : KeyBytes(app, Key("BackTab", 0, ""), m)
                = {IF m \cap {"alt"} = {} THEN <<"ESC", "[", "Z">> ELSE <<"ESC", "ESC", "[", "Z">>}
<1> TAKE app, m
<1>1. KeyBytes(app, Key("BackTab", 0, ""), m) = {MetaBytes("alt" \in m, <<"ESC", "[", "Z">>)}
  BY DEF KeyBytes, CursorLetter, TildeNumber, Key, AltMeta
<1>2. CASE "alt" \in m
  <2>1. ("alt" \in m) = TRUE /\ m \cap {"alt"} # {}
    BY <1>2
  <2> QED
    BY <1>1, <2>1, MetaIs
<1>3. CASE "alt" \notin m
  <2>1. ("alt" \in m) = FALSE /\ m \cap {"alt"} = {}
    BY <1>3
  <2> QED
    BY <1>1, <2>1, MetaIs
<1> QED
  BY <1>2, <1>3

\* A character is sent in the short form,
LEMMA CharForm ==
  \A app : \A m \in Mods, c \in Characters :
    KeyBytes(FALSE, Key("Char", 0, c), m) # {} =>
      \E s : KeyBytes(app, Key("Char", 0, c), m) = {s} /\ ShortForm(s, Meaning(Key("Char", 0, c), m))
<1> SUFFICES ASSUME NEW app, NEW m \in Mods, NEW c \in Characters,
                    KeyBytes(FALSE, Key("Char", 0, c), m) # {}
             PROVE  \E s : KeyBytes(app, Key("Char", 0, c), m) = {s} /\ ShortForm(s, Meaning(Key("Char", 0, c), m))
  OBVIOUS
<1> DEFINE key == Key("Char", 0, c)
           t == IF "ctrl" \in m THEN Controls[c] ELSE c
           A == m \cap {"alt"}
           s == Escaped(A, t)
<1>1. KeyBytes(app, key, m) = CharBytes(c, m) /\ CharBytes(c, m) # {}
  BY CharBytesOf
<1>2. CharBytes(c, m) = {MetaBytes("alt" \in m, <<t>>)} /\ ("ctrl" \in m => c \in DOMAIN Controls)
  BY <1>1 DEF CharBytes
<1>3. t \in Tokens
  BY <1>2 DEF Tokens
<1>4. "ctrl" \notin m => t \notin DOMAIN ControlKey
  BY InputAssumption DEF ControlKey
<1>5. Meaning(key, m) = <<TokenKey(t), A>>
  <2>1. CASE "ctrl" \in m /\ t \in DOMAIN ControlKey
    <3>1. Meaning(key, m) = <<Key(ControlKey[Controls[c]], 0, ""), A>>
      BY <2>1, ControlMeans
    <3> QED
      BY <2>1, <3>1 DEF TokenKey
  <2>2. CASE "ctrl" \in m /\ t \notin DOMAIN ControlKey
    <3>1. Meaning(key, m) = <<Key("Char", 0, Controls[c]), A>>
      BY <2>2, OtherControlMeans
    <3> QED
      BY <2>2, <3>1 DEF TokenKey
  <2>3. CASE "ctrl" \notin m
    BY <1>4, <2>3, CharMeans DEF TokenKey
  <2> QED
    BY <2>1, <2>2, <2>3
<1>6. A \in Alts
  BY DEF Alts
<1>7. MetaBytes("alt" \in m, <<t>>) = s
  BY AltBytes
<1> HIDE DEF t, A
<1>8. ShortForm(s, Meaning(key, m))
  BY <1>3, <1>5, <1>6 DEF ShortForm
<1> HIDE DEF s
<1> QED
  BY <1>1, <1>2, <1>7, <1>8

\* and so are the keys that have a control byte.
LEMMA ControlForm ==
  \A app : \A m \in Mods, k \in {"Enter", "Tab", "Backspace", "Esc"} :
    \E s : KeyBytes(app, Key(k, 0, ""), m) = {s} /\ ShortForm(s, Meaning(Key(k, 0, ""), m))
<1> SUFFICES ASSUME NEW app, NEW m \in Mods, NEW k \in {"Enter", "Tab", "Backspace", "Esc"}
             PROVE  \E s : KeyBytes(app, Key(k, 0, ""), m) = {s} /\ ShortForm(s, Meaning(Key(k, 0, ""), m))
  OBVIOUS
<1> DEFINE key == Key(k, 0, "")
           A == IF k = "Enter" THEN (IF m \cap {"shift", "alt"} # {} THEN {"alt"} ELSE {}) ELSE m \cap {"alt"}
<1>1. PICK t \in DOMAIN ControlKey : ControlKey[t] = k
  BY DEF ControlKey
<1>2. A \in Alts
  BY DEF Alts
<1>3. Meaning(key, m) = <<key, A>>
  BY EnterMeans, RestMeans
<1>4. KeyBytes(app, key, m) = {Escaped(A, t)}
  <2>1. CASE k = "Enter"
    <3>1. t = "CR"
      BY <1>1, <2>1 DEF ControlKey
    <3> QED
      BY <2>1, <3>1, EnterBytesOf
  <2>2. CASE k = "Tab"
    <3>1. t = "HT"
      BY <1>1, <2>2 DEF ControlKey
    <3> QED
      BY <2>2, <3>1, RestBytesOf
  <2>3. CASE k = "Backspace"
    <3>1. t = "DEL"
      BY <1>1, <2>3 DEF ControlKey
    <3> QED
      BY <2>3, <3>1, RestBytesOf
  <2>4. CASE k = "Esc"
    <3>1. t = "ESC"
      BY <1>1, <2>4 DEF ControlKey
    <3> QED
      BY <2>4, <3>1, RestBytesOf
  <2> QED
    BY <2>1, <2>2, <2>3, <2>4
<1>5. Meaning(key, m) = <<TokenKey(t), A>>
  BY <1>1, <1>3 DEF TokenKey
<1> HIDE DEF A
<1>6. ShortForm(Escaped(A, t), Meaning(key, m))
  BY <1>1, <1>2, <1>5 DEF ShortForm, Tokens
<1> QED
  BY <1>4, <1>6

LEMMA BackTabForm ==
  \A app : \A m \in Mods :
    \E s : KeyBytes(app, Key("BackTab", 0, ""), m) = {s} /\ BackForm(s, Meaning(Key("BackTab", 0, ""), m))
<1> SUFFICES ASSUME NEW app, NEW m \in Mods
             PROVE  \E s : KeyBytes(app, Key("BackTab", 0, ""), m) = {s} /\ BackForm(s, Meaning(Key("BackTab", 0, ""), m))
  OBVIOUS
<1> DEFINE A == m \cap {"alt"}
           s == IF A = {} THEN <<"ESC", "[", "Z">> ELSE <<"ESC", "ESC", "[", "Z">>
<1>1. KeyBytes(app, Key("BackTab", 0, ""), m) = {s} /\ Meaning(Key("BackTab", 0, ""), m) = <<Key("BackTab", 0, ""), A>>
  BY BackTabBytesOf, RestMeans
<1>2. A \in Alts
  BY DEF Alts
<1> HIDE DEF A
<1>3. BackForm(s, Meaning(Key("BackTab", 0, ""), m))
  BY <1>1, <1>2 DEF BackForm
<1> HIDE DEF s
<1> QED
  BY <1>1, <1>3

\* What ends in a letter or a tilde has the modifiers in a parameter.
LEMMA ParamBytes ==
  \A m \in Mods : \A l, ss3 :
    /\ LetterBytes(ss3, l, m) = IF m = {} THEN <<"ESC", IF ss3 THEN "O" ELSE "[", l>>
                                ELSE <<"ESC", "[", "1", ";", Digit(m), l>>
    /\ TildeBytes(l, m) = IF m = {} THEN <<"ESC", "[", l, "~">> ELSE <<"ESC", "[", l, ";", Digit(m), "~">>
<1> SUFFICES ASSUME NEW m \in Mods, NEW l, NEW ss3
             PROVE  /\ LetterBytes(ss3, l, m) = IF m = {} THEN <<"ESC", IF ss3 THEN "O" ELSE "[", l>>
                                                ELSE <<"ESC", "[", "1", ";", Digit(m), l>>
                    /\ TildeBytes(l, m) = IF m = {} THEN <<"ESC", "[", l, "~">>
                                          ELSE <<"ESC", "[", l, ";", Digit(m), "~">>
  OBVIOUS
<1>1. CASE m = {}
  <2>1. ModParam(m) = {}
    BY <1>1, DigitIs
  <2> QED
    BY <1>1, <2>1 DEF LetterBytes, TildeBytes
<1>2. CASE m # {}
  <2>1. ModParam(m) = {Digit(m)}
    BY <1>2, DigitIs
  <2>2. ModParam(m) # {} /\ (CHOOSE p \in ModParam(m) : TRUE) = Digit(m)
    BY <2>1
  <2>3. LetterBytes(ss3, l, m) = <<"ESC", "[", "1", ";", Digit(m), l>>
    BY <2>2 DEF LetterBytes
  <2>4. TildeBytes(l, m) = <<"ESC", "[", l, ";", Digit(m), "~">>
    BY <2>2 DEF TildeBytes
  <2> QED
    BY <1>2, <2>3, <2>4
<1> QED
  BY <1>1, <1>2

\* Cursor keys and the first four function keys end in a letter, the others in a tilde.
LEMMA LettersForm ==
  \A app : \A m \in Mods, key \in LetterKeys :
    \E s : KeyBytes(app, key, m) = {s} /\ LetterForm(app, s, Meaning(key, m))
<1> SUFFICES ASSUME NEW app, NEW m \in Mods, NEW key \in LetterKeys
             PROVE  \E s : KeyBytes(app, key, m) = {s} /\ LetterForm(app, s, Meaning(key, m))
  OBVIOUS
<1>1. CASE \E k \in DOMAIN CursorLetter : key = Key(k, 0, "")
  <2>1. PICK k \in DOMAIN CursorLetter : key = Key(k, 0, "")
    BY <1>1
  <2>2. key.kind = k /\ k # "F"
    BY <2>1, KeyIs DEF CursorLetter
  <2>3. LetterOf(key) = CursorLetter[k]
    BY <2>2 DEF LetterOf
  <2>4. KeyBytes(app, key, m) = {LetterBytes(app, CursorLetter[k], m)} /\ Meaning(key, m) = <<key, m>>
    BY <2>1, LetterBytesOf, CursorMeans
  <2>5. LetterForm(app, LetterBytes(app, LetterOf(key), m), Meaning(key, m))
    BY <2>2, <2>4, ParamBytes DEF LetterForm
  <2> QED
    BY <2>3, <2>4, <2>5
<1>2. CASE \E n \in 1 .. 4 : key = Key("F", n, "")
  <2>1. PICK n \in 1 .. 4 : key = Key("F", n, "")
    BY <1>2
  <2>2. key.kind = "F" /\ key.n = n
    BY <2>1, KeyIs
  <2>3. LetterOf(key) = FLetter[n]
    BY <2>2 DEF LetterOf
  <2>4. KeyBytes(app, key, m) = FBytes(n, m) /\ Meaning(key, m) = <<key, m>>
    BY <2>1, FBytesOf, FMeans
  <2>5. FBytes(n, m) = {LetterBytes(TRUE, FLetter[n], m)}
    BY DEF FBytes
  <2>6. LetterForm(app, LetterBytes(TRUE, LetterOf(key), m), Meaning(key, m))
    BY <2>2, <2>4, ParamBytes DEF LetterForm
  <2> QED
    BY <2>3, <2>4, <2>5, <2>6
<1> QED
  BY <1>1, <1>2 DEF LetterKeys

LEMMA NumbersForm ==
  \A app : \A m \in Mods, key \in NumberKeys :
    \E s : KeyBytes(app, key, m) = {s} /\ NumberForm(s, Meaning(key, m))
<1> SUFFICES ASSUME NEW app, NEW m \in Mods, NEW key \in NumberKeys
             PROVE  \E s : KeyBytes(app, key, m) = {s} /\ NumberForm(s, Meaning(key, m))
  OBVIOUS
<1> DEFINE s == TildeBytes(NumberOf(key), m)
<1>1. KeyBytes(app, key, m) = {s} /\ Meaning(key, m) = <<key, m>>
  <2>1. CASE \E k \in DOMAIN TildeNumber : key = Key(k, 0, "")
    <3>1. PICK k \in DOMAIN TildeNumber : key = Key(k, 0, "")
      BY <2>1
    <3>2. key.kind = k /\ k # "F"
      BY <3>1, KeyIs DEF TildeNumber
    <3>3. NumberOf(key) = TildeNumber[k]
      BY <3>2 DEF NumberOf
    <3>4. KeyBytes(app, key, m) = {TildeBytes(TildeNumber[k], m)} /\ Meaning(key, m) = <<key, m>>
      BY <3>1, TildeBytesOf, CursorMeans
    <3> QED
      BY <3>3, <3>4
  <2>2. CASE \E n \in 5 .. 12 : key = Key("F", n, "")
    <3>1. PICK n \in 5 .. 12 : key = Key("F", n, "")
      BY <2>2
    <3>2. key.kind = "F" /\ key.n = n
      BY <3>1, KeyIs
    <3>3. NumberOf(key) = FNumber[n - 4]
      BY <3>2 DEF NumberOf
    <3>4. KeyBytes(app, key, m) = FBytes(n, m) /\ Meaning(key, m) = <<key, m>>
      BY <3>1, FBytesOf, FMeans
    <3>5. FBytes(n, m) = {TildeBytes(FNumber[n - 4], m)}
      <4>1. n \notin 1 .. 4
        OBVIOUS
      <4> QED
        BY <4>1 DEF FBytes
    <3> QED
      BY <3>3, <3>4, <3>5
  <2> QED
    BY <2>1, <2>2 DEF NumberKeys
<1>2. s = IF m = {} THEN <<"ESC", "[", NumberOf(key), "~">>
          ELSE <<"ESC", "[", NumberOf(key), ";", Digit(m), "~">>
  BY ParamBytes
<1> HIDE DEF s
<1>3. NumberForm(s, Meaning(key, m))
  BY <1>1, <1>2 DEF NumberForm
<1> QED
  BY <1>1, <1>3

\* A press is sent in one form, in both cursor modes.
LEMMA PressForm ==
  \A app : \A a \in Pressed :
    \E s : KeyBytes(app, a[1], a[2]) = {s} /\ Form(app, s, Meaning(a[1], a[2]))
<1> SUFFICES ASSUME NEW app, NEW key \in Keys, NEW m \in Mods, KeyBytes(FALSE, key, m) # {}
             PROVE  \E s : KeyBytes(app, key, m) = {s} /\ Form(app, s, Meaning(key, m))
  BY DEF Pressed
<1>1. \/ \E c \in Characters : key = Key("Char", 0, c)
      \/ \E n \in 0 .. 13 : key = Key("F", n, "")
      \/ \E k \in DOMAIN CursorLetter \cup DOMAIN TildeNumber
                      \cup {"Enter", "Tab", "BackTab", "Backspace", "Esc"} : key = Key(k, 0, "")
  BY DEF Keys, Characters
<1>2. CASE \E c \in Characters : key = Key("Char", 0, c)
  BY <1>2, CharForm DEF Form
<1>3. CASE \E n \in 0 .. 13 : key = Key("F", n, "")
  <2>1. PICK n \in 0 .. 13 : key = Key("F", n, "")
    BY <1>3
  <2>2. FBytes(n, m) # {}
    BY <2>1, FBytesOf
  <2>3. n \in 1 .. 4 \/ n \in 5 .. 12
    BY <2>2 DEF FBytes
  <2>4. key \in LetterKeys \/ key \in NumberKeys
    BY <2>1, <2>3 DEF LetterKeys, NumberKeys
  <2> QED
    BY <2>4, LettersForm, NumbersForm DEF Form
<1>4. CASE \E k \in DOMAIN CursorLetter \cup DOMAIN TildeNumber
                        \cup {"Enter", "Tab", "BackTab", "Backspace", "Esc"} : key = Key(k, 0, "")
  <2>1. PICK k \in DOMAIN CursorLetter \cup DOMAIN TildeNumber
                        \cup {"Enter", "Tab", "BackTab", "Backspace", "Esc"} : key = Key(k, 0, "")
    BY <1>4
  <2>2. CASE k \in DOMAIN CursorLetter
    <3>1. key \in LetterKeys
      BY <2>1, <2>2 DEF LetterKeys
    <3> QED
      BY <3>1, LettersForm DEF Form
  <2>3. CASE k \in DOMAIN TildeNumber
    <3>1. key \in NumberKeys
      BY <2>1, <2>3 DEF NumberKeys
    <3> QED
      BY <3>1, NumbersForm DEF Form
  <2>4. CASE k = "BackTab"
    BY <2>1, <2>4, BackTabForm DEF Form
  <2>5. CASE k \in {"Enter", "Tab", "Backspace", "Esc"}
    BY <2>1, <2>5, ControlForm DEF Form
  <2> QED
    BY <2>2, <2>3, <2>4, <2>5
<1> QED
  BY <1>1, <1>2, <1>3, <1>4
\* Two presses in a form have the same bytes exactly if they have the same meaning:
\* within each form,
LEMMA TokenKeyIs ==
  \A t, v : /\ t \in DOMAIN ControlKey => TokenKey(t).kind = ControlKey[t]
            /\ t \notin DOMAIN ControlKey => TokenKey(t).kind = "Char" /\ TokenKey(t).c = t
            /\ TokenKey(t).kind \in {"Char", "Enter", "Tab", "Backspace", "Esc"}
            /\ TokenKey(t) = TokenKey(v) => t = v
<1>1. \A t : t \in DOMAIN ControlKey => TokenKey(t).kind = ControlKey[t]
  BY KeyIs DEF TokenKey
<1>2. \A t : t \notin DOMAIN ControlKey => TokenKey(t).kind = "Char" /\ TokenKey(t).c = t
  BY KeyIs DEF TokenKey
<1>3. /\ \A x \in DOMAIN ControlKey : ControlKey[x] \in {"Enter", "Tab", "Backspace", "Esc"}
      /\ \A x, y \in DOMAIN ControlKey : ControlKey[x] = ControlKey[y] => x = y
  BY DEF ControlKey
<1>4. \A t : TokenKey(t).kind \in {"Char", "Enter", "Tab", "Backspace", "Esc"}
  BY <1>1, <1>2, <1>3
<1>5. ASSUME NEW t, NEW v, TokenKey(t) = TokenKey(v) PROVE t = v
  <2>1. TokenKey(t).kind = TokenKey(v).kind /\ TokenKey(t).c = TokenKey(v).c
    BY <1>5
  <2> QED
    BY <1>1, <1>2, <1>3, <2>1
<1> QED
  BY <1>1, <1>2, <1>4, <1>5

LEMMA ShortApart ==
  \A s, mn, u, mo : ShortForm(s, mn) /\ ShortForm(u, mo) => (s = u <=> mn = mo)
<1> SUFFICES ASSUME NEW s, NEW mn, NEW u, NEW mo, ShortForm(s, mn), ShortForm(u, mo)
             PROVE  s = u <=> mn = mo
  OBVIOUS
<1>1. PICK t \in Tokens, A \in Alts : mn = <<TokenKey(t), A>> /\ s = Escaped(A, t)
  BY DEF ShortForm
<1>2. PICK v \in Tokens, B \in Alts : mo = <<TokenKey(v), B>> /\ u = Escaped(B, v)
  BY DEF ShortForm
<1>3. Escaped(A, t) = Escaped(B, v) => A = B /\ t = v
  BY DEF Escaped, Alts
<1>4. mn = mo => TokenKey(t) = TokenKey(v) /\ A = B
  BY <1>1, <1>2
<1> QED
  BY <1>1, <1>2, <1>3, <1>4, TokenKeyIs

LEMMA BackApart ==
  \A s, mn, u, mo : BackForm(s, mn) /\ BackForm(u, mo) => (s = u <=> mn = mo)
<1> SUFFICES ASSUME NEW s, NEW mn, NEW u, NEW mo, BackForm(s, mn), BackForm(u, mo)
             PROVE  s = u <=> mn = mo
  OBVIOUS
<1> DEFINE C(A) == IF A = {} THEN <<"ESC", "[", "Z">> ELSE <<"ESC", "ESC", "[", "Z">>
           k == Key("BackTab", 0, "")
<1>1. PICK A \in Alts : mn = <<k, A>> /\ s = C(A)
  BY DEF BackForm
<1>2. PICK B \in Alts : mo = <<k, B>> /\ u = C(B)
  BY DEF BackForm
<1> HIDE DEF k
<1>3. Len(<<"ESC", "[", "Z">>) = 3 /\ Len(<<"ESC", "ESC", "[", "Z">>) = 4
  OBVIOUS
<1>4. C(A) = C(B) => A = B
  BY <1>3 DEF Alts
<1>5. mn = mo => A = B
  BY <1>1, <1>2
<1> HIDE DEF C
<1> QED
  BY <1>1, <1>2, <1>4, <1>5

LEMMA LettersEnd ==
  /\ \A a \in LetterKeys : LetterOf(a) # "Z" /\ LetterOf(a) # "~"
  /\ \A a \in LetterKeys : \A b \in LetterKeys : LetterOf(a) = LetterOf(b) => a = b
<1> DEFINE N == 1 .. 4
<1>1. \A a \in LetterKeys : \/ \E k \in DOMAIN CursorLetter : a = Key(k, 0, "") /\ LetterOf(a) = CursorLetter[k]
                            \/ \E n \in N : a = Key("F", n, "") /\ LetterOf(a) = FLetter[n]
  <2> SUFFICES ASSUME NEW a \in LetterKeys
               PROVE  \/ \E k \in DOMAIN CursorLetter : a = Key(k, 0, "") /\ LetterOf(a) = CursorLetter[k]
                      \/ \E n \in N : a = Key("F", n, "") /\ LetterOf(a) = FLetter[n]
    OBVIOUS
  <2>1. CASE \E k \in DOMAIN CursorLetter : a = Key(k, 0, "")
    <3>1. PICK k \in DOMAIN CursorLetter : a = Key(k, 0, "")
      BY <2>1
    <3>2. a.kind = k /\ k # "F"
      BY <3>1, KeyIs DEF CursorLetter
    <3> QED
      BY <3>1, <3>2 DEF LetterOf
  <2>2. CASE \E n \in N : a = Key("F", n, "")
    <3>1. PICK n \in N : a = Key("F", n, "")
      BY <2>2
    <3>2. a.kind = "F" /\ a.n = n
      BY <3>1, KeyIs
    <3> QED
      BY <3>1, <3>2 DEF LetterOf
  <2> QED
    BY <2>1, <2>2 DEF LetterKeys
<1>2. /\ \A k, l \in DOMAIN CursorLetter : CursorLetter[k] = CursorLetter[l] => k = l
      /\ \A k \in DOMAIN CursorLetter : CursorLetter[k] \notin {"P", "Q", "R", "S", "Z", "~"}
  BY DEF CursorLetter
<1>3. /\ \A n, o \in N : FLetter[n] = FLetter[o] => n = o
      /\ \A n \in N : FLetter[n] \in {"P", "Q", "R", "S"}
  BY DEF FLetter
<1> HIDE DEF N
<1> SUFFICES ASSUME NEW a \in LetterKeys, NEW b \in LetterKeys
             PROVE  LetterOf(a) # "Z" /\ LetterOf(a) # "~" /\ (LetterOf(a) = LetterOf(b) => a = b)
  OBVIOUS
<1>4. CASE \E k \in DOMAIN CursorLetter : a = Key(k, 0, "") /\ LetterOf(a) = CursorLetter[k]
  <2>1. PICK k \in DOMAIN CursorLetter : a = Key(k, 0, "") /\ LetterOf(a) = CursorLetter[k]
    BY <1>4
  <2>2. CASE \E l \in DOMAIN CursorLetter : b = Key(l, 0, "") /\ LetterOf(b) = CursorLetter[l]
    BY <1>2, <2>1, <2>2
  <2>3. CASE \E n \in N : b = Key("F", n, "") /\ LetterOf(b) = FLetter[n]
    BY <1>2, <1>3, <2>1, <2>3
  <2> QED
    BY <1>1, <2>2, <2>3
<1>5. CASE \E n \in N : a = Key("F", n, "") /\ LetterOf(a) = FLetter[n]
  <2>1. PICK n \in N : a = Key("F", n, "") /\ LetterOf(a) = FLetter[n]
    BY <1>5
  <2>2. CASE \E l \in DOMAIN CursorLetter : b = Key(l, 0, "") /\ LetterOf(b) = CursorLetter[l]
    BY <1>2, <1>3, <2>1, <2>2
  <2>3. CASE \E o \in N : b = Key("F", o, "") /\ LetterOf(b) = FLetter[o]
    BY <1>3, <2>1, <2>3
  <2> QED
    BY <1>1, <2>2, <2>3
<1> QED
  BY <1>1, <1>4, <1>5

LEMMA LettersDiffer == \A a, b \in LetterKeys : LetterOf(a) = LetterOf(b) => a = b
BY LettersEnd

LEMMA LettersNoEnd == \A a \in LetterKeys : LetterOf(a) # "Z" /\ LetterOf(a) # "~"
BY LettersEnd

LEMMA NumbersDiffer == \A a, b \in NumberKeys : NumberOf(a) = NumberOf(b) => a = b
<1> DEFINE N == 5 .. 12
<1>1. \A a \in NumberKeys : \/ \E k \in DOMAIN TildeNumber : a = Key(k, 0, "") /\ NumberOf(a) = TildeNumber[k]
                            \/ \E n \in N : a = Key("F", n, "") /\ NumberOf(a) = FNumber[n - 4]
  <2> SUFFICES ASSUME NEW a \in NumberKeys
               PROVE  \/ \E k \in DOMAIN TildeNumber : a = Key(k, 0, "") /\ NumberOf(a) = TildeNumber[k]
                      \/ \E n \in N : a = Key("F", n, "") /\ NumberOf(a) = FNumber[n - 4]
    OBVIOUS
  <2>1. CASE \E k \in DOMAIN TildeNumber : a = Key(k, 0, "")
    <3>1. PICK k \in DOMAIN TildeNumber : a = Key(k, 0, "")
      BY <2>1
    <3>2. a.kind = k /\ k # "F"
      BY <3>1, KeyIs DEF TildeNumber
    <3> QED
      BY <3>1, <3>2 DEF NumberOf
  <2>2. CASE \E n \in N : a = Key("F", n, "")
    <3>1. PICK n \in N : a = Key("F", n, "")
      BY <2>2
    <3>2. a.kind = "F" /\ a.n = n
      BY <3>1, KeyIs
    <3> QED
      BY <3>1, <3>2 DEF NumberOf
  <2> QED
    BY <2>1, <2>2 DEF NumberKeys
<1>2. /\ \A k, l \in DOMAIN TildeNumber : TildeNumber[k] = TildeNumber[l] => k = l
      /\ \A k \in DOMAIN TildeNumber : TildeNumber[k] \in {"2", "3", "5", "6"}
  BY DEF TildeNumber
<1>3. /\ \A n, o \in N : FNumber[n - 4] = FNumber[o - 4] => n = o
      /\ \A n \in N : FNumber[n - 4] \notin {"2", "3", "5", "6"}
  <2>1. \A i, j \in 1 .. 8 : FNumber[i] = FNumber[j] => i = j
    BY DEF FNumber
  <2>2. \A i \in 1 .. 8 : FNumber[i] \notin {"2", "3", "5", "6"}
    BY DEF FNumber
  <2>3. \A n \in N : n - 4 \in 1 .. 8
    OBVIOUS
  <2> QED
    BY <2>1, <2>2, <2>3
<1> HIDE DEF N
<1> SUFFICES ASSUME NEW a \in NumberKeys, NEW b \in NumberKeys, NumberOf(a) = NumberOf(b)
             PROVE  a = b
  OBVIOUS
<1>4. CASE \E k \in DOMAIN TildeNumber : a = Key(k, 0, "") /\ NumberOf(a) = TildeNumber[k]
  <2>1. PICK k \in DOMAIN TildeNumber : a = Key(k, 0, "") /\ NumberOf(a) = TildeNumber[k]
    BY <1>4
  <2>2. CASE \E l \in DOMAIN TildeNumber : b = Key(l, 0, "") /\ NumberOf(b) = TildeNumber[l]
    BY <1>2, <2>1, <2>2
  <2>3. CASE \E n \in N : b = Key("F", n, "") /\ NumberOf(b) = FNumber[n - 4]
    BY <1>2, <1>3, <2>1, <2>3
  <2> QED
    BY <1>1, <2>2, <2>3
<1>5. CASE \E n \in N : a = Key("F", n, "") /\ NumberOf(a) = FNumber[n - 4]
  <2>1. PICK n \in N : a = Key("F", n, "") /\ NumberOf(a) = FNumber[n - 4]
    BY <1>5
  <2>2. CASE \E l \in DOMAIN TildeNumber : b = Key(l, 0, "") /\ NumberOf(b) = TildeNumber[l]
    BY <1>2, <1>3, <2>1, <2>2
  <2>3. CASE \E o \in N : b = Key("F", o, "") /\ NumberOf(b) = FNumber[o - 4]
    BY <1>3, <2>1, <2>3
  <2> QED
    BY <1>1, <2>2, <2>3
<1> QED
  BY <1>1, <1>4, <1>5

LEMMA LetterApart ==
  \A app, s, mn, u, mo : LetterForm(app, s, mn) /\ LetterForm(app, u, mo) => (s = u <=> mn = mo)
<1> SUFFICES ASSUME NEW app, NEW s, NEW mn, NEW u, NEW mo, LetterForm(app, s, mn), LetterForm(app, u, mo)
             PROVE  s = u <=> mn = mo
  OBVIOUS
<1> DEFINE I(key) == IF key.kind = "F" \/ app THEN "O" ELSE "["
           B(key, m) == IF m = {} THEN <<"ESC", I(key), LetterOf(key)>>
                        ELSE <<"ESC", "[", "1", ";", Digit(m), LetterOf(key)>>
<1>1. PICK a \in LetterKeys, m \in Mods : mn = <<a, m>> /\ s = B(a, m)
  BY DEF LetterForm
<1>2. PICK b \in LetterKeys, o \in Mods : mo = <<b, o>> /\ u = B(b, o)
  BY DEF LetterForm
<1> HIDE DEF I
<1>3. B(a, m) = B(b, o) => a = b /\ m = o
  <2> HAVE B(a, m) = B(b, o)
  <2>1. (m = {} <=> o = {}) /\ LetterOf(a) = LetterOf(b) /\ (m # {} => Digit(m) = Digit(o))
    OBVIOUS
  <2> QED
    <3>1. a = b
      BY <2>1, LettersDiffer
    <3>2. m = o
      BY <2>1, DigitIs
    <3> QED
      BY <3>1, <3>2
<1> HIDE DEF B
<1> QED
  BY <1>1, <1>2, <1>3

LEMMA NumberApart ==
  \A s, mn, u, mo : NumberForm(s, mn) /\ NumberForm(u, mo) => (s = u <=> mn = mo)
<1> SUFFICES ASSUME NEW s, NEW mn, NEW u, NEW mo, NumberForm(s, mn), NumberForm(u, mo)
             PROVE  s = u <=> mn = mo
  OBVIOUS
<1> DEFINE B(key, m) == IF m = {} THEN <<"ESC", "[", NumberOf(key), "~">>
                        ELSE <<"ESC", "[", NumberOf(key), ";", Digit(m), "~">>
<1>1. PICK a \in NumberKeys, m \in Mods : mn = <<a, m>> /\ s = B(a, m)
  BY DEF NumberForm
<1>2. PICK b \in NumberKeys, o \in Mods : mo = <<b, o>> /\ u = B(b, o)
  BY DEF NumberForm
<1>3. B(a, m) = B(b, o) => a = b /\ m = o
  <2> HAVE B(a, m) = B(b, o)
  <2>1. (m = {} <=> o = {}) /\ NumberOf(a) = NumberOf(b) /\ (m # {} => Digit(m) = Digit(o))
    OBVIOUS
  <2> QED
    <3>1. a = b
      BY <2>1, NumbersDiffer
    <3>2. m = o
      BY <2>1, DigitIs
    <3> QED
      BY <3>1, <3>2
<1> HIDE DEF B
<1> QED
  BY <1>1, <1>2, <1>3

\* and from one to another, where the lengths, the second bytes and the last ones differ, and the keys.
LEMMA ShortLooks ==
  \A s, mn : ShortForm(s, mn) => Len(s) \in {1, 2} /\ mn[1].kind \in {"Char", "Enter", "Tab", "Backspace", "Esc"}
<1> SUFFICES ASSUME NEW s, NEW mn, ShortForm(s, mn)
             PROVE  Len(s) \in {1, 2} /\ mn[1].kind \in {"Char", "Enter", "Tab", "Backspace", "Esc"}
  OBVIOUS
<1>1. PICK t \in Tokens, A \in Alts : mn = <<TokenKey(t), A>> /\ s = Escaped(A, t)
  BY DEF ShortForm
<1>2. Len(<<t>>) = 1 /\ Len(<<"ESC", t>>) = 2
  OBVIOUS
<1>3. Len(s) \in {1, 2}
  BY <1>1, <1>2 DEF Escaped
<1>4. mn[1] = TokenKey(t)
  BY <1>1
<1> QED
  BY <1>3, <1>4, TokenKeyIs

LEMMA BackLooks ==
  \A s, mn : BackForm(s, mn) => /\ (Len(s) = 3 /\ s[3] = "Z") \/ (Len(s) = 4 /\ s[2] = "ESC")
                                /\ mn[1].kind = "BackTab"
<1> SUFFICES ASSUME NEW s, NEW mn, BackForm(s, mn)
             PROVE  ((Len(s) = 3 /\ s[3] = "Z") \/ (Len(s) = 4 /\ s[2] = "ESC")) /\ mn[1].kind = "BackTab"
  OBVIOUS
<1> DEFINE k == Key("BackTab", 0, "")
<1>1. PICK A \in Alts : mn = <<k, A>> /\ s = IF A = {} THEN <<"ESC", "[", "Z">> ELSE <<"ESC", "ESC", "[", "Z">>
  BY DEF BackForm
<1>2. k.kind = "BackTab"
  BY KeyIs
<1> HIDE DEF k
<1>3. mn[1] = k
  BY <1>1
<1>4. /\ Len(<<"ESC", "[", "Z">>) = 3 /\ <<"ESC", "[", "Z">>[3] = "Z"
      /\ Len(<<"ESC", "ESC", "[", "Z">>) = 4 /\ <<"ESC", "ESC", "[", "Z">>[2] = "ESC"
  OBVIOUS
<1>5. s = <<"ESC", "[", "Z">> \/ s = <<"ESC", "ESC", "[", "Z">>
  BY <1>1
<1> QED
  BY <1>2, <1>3, <1>4, <1>5

LEMMA LetterLooks ==
  \A app, s, mn : LetterForm(app, s, mn) => /\ (Len(s) = 3 /\ s[3] # "Z") \/ (Len(s) = 6 /\ s[6] # "~")
                                            /\ mn[1] \in LetterKeys
<1> SUFFICES ASSUME NEW app, NEW s, NEW mn, LetterForm(app, s, mn)
             PROVE  ((Len(s) = 3 /\ s[3] # "Z") \/ (Len(s) = 6 /\ s[6] # "~")) /\ mn[1] \in LetterKeys
  OBVIOUS
<1> DEFINE I(key) == IF key.kind = "F" \/ app THEN "O" ELSE "["
<1>1. PICK a \in LetterKeys, m \in Mods :
        mn = <<a, m>> /\ s = IF m = {} THEN <<"ESC", I(a), LetterOf(a)>>
                             ELSE <<"ESC", "[", "1", ";", Digit(m), LetterOf(a)>>
  BY DEF LetterForm
<1> HIDE DEF I
<1>2. mn[1] = a
  BY <1>1
<1>3. LetterOf(a) # "Z" /\ LetterOf(a) # "~"
  BY LettersNoEnd
<1>4. CASE m = {}
  <2>1. s = <<"ESC", I(a), LetterOf(a)>>
    BY <1>1, <1>4
  <2>2. Len(s) = 3 /\ s[3] = LetterOf(a)
    BY <2>1
  <2> QED
    BY <1>2, <1>3, <2>2
<1>5. CASE m # {}
  <2>1. s = <<"ESC", "[", "1", ";", Digit(m), LetterOf(a)>>
    BY <1>1, <1>5
  <2>2. Len(s) = 6 /\ s[6] = LetterOf(a)
    BY <2>1
  <2> QED
    BY <1>2, <1>3, <2>2
<1> QED
  BY <1>4, <1>5

LEMMA NumberLooks ==
  \A s, mn : NumberForm(s, mn) => /\ (Len(s) = 4 /\ s[2] = "[") \/ (Len(s) = 6 /\ s[6] = "~")
                                  /\ mn[1] \in NumberKeys
<1> SUFFICES ASSUME NEW s, NEW mn, NumberForm(s, mn)
             PROVE  ((Len(s) = 4 /\ s[2] = "[") \/ (Len(s) = 6 /\ s[6] = "~")) /\ mn[1] \in NumberKeys
  OBVIOUS
<1>1. PICK a \in NumberKeys, m \in Mods :
        mn = <<a, m>> /\ s = IF m = {} THEN <<"ESC", "[", NumberOf(a), "~">>
                             ELSE <<"ESC", "[", NumberOf(a), ";", Digit(m), "~">>
  BY DEF NumberForm
<1>2. mn[1] = a
  BY <1>1
<1>3. CASE m = {}
  <2>1. s = <<"ESC", "[", NumberOf(a), "~">>
    BY <1>1, <1>3
  <2>2. Len(s) = 4 /\ s[2] = "["
    BY <2>1
  <2> QED
    BY <1>2, <2>2
<1>4. CASE m # {}
  <2>1. s = <<"ESC", "[", NumberOf(a), ";", Digit(m), "~">>
    BY <1>1, <1>4
  <2>2. Len(s) = 6 /\ s[6] = "~"
    BY <2>1
  <2> QED
    BY <1>2, <2>2
<1> QED
  BY <1>3, <1>4

LEMMA KeysDiffer ==
  /\ \A a \in LetterKeys : a \notin NumberKeys
  /\ \A a \in LetterKeys \cup NumberKeys : a.kind \notin {"Char", "Enter", "Tab", "Backspace", "Esc", "BackTab"}
<1>1. ASSUME NEW a \in LetterKeys
      PROVE  (a.kind \in DOMAIN CursorLetter /\ a.kind # "F") \/ (a.kind = "F" /\ a.n \in 1 .. 4)
  <2>1. CASE \E k \in DOMAIN CursorLetter : a = Key(k, 0, "")
    <3>1. PICK k \in DOMAIN CursorLetter : a = Key(k, 0, "")
      BY <2>1
    <3>2. a.kind = k /\ k # "F"
      BY <3>1, KeyIs DEF CursorLetter
    <3> QED
      BY <3>2
  <2>2. CASE \E n \in 1 .. 4 : a = Key("F", n, "")
    <3>1. PICK n \in 1 .. 4 : a = Key("F", n, "")
      BY <2>2
    <3>2. a.kind = "F" /\ a.n = n
      BY <3>1, KeyIs
    <3> QED
      BY <3>2
  <2> QED
    BY <2>1, <2>2 DEF LetterKeys
<1>2. ASSUME NEW a \in NumberKeys
      PROVE  (a.kind \in DOMAIN TildeNumber /\ a.kind # "F") \/ (a.kind = "F" /\ a.n \in 5 .. 12)
  <2>1. CASE \E k \in DOMAIN TildeNumber : a = Key(k, 0, "")
    <3>1. PICK k \in DOMAIN TildeNumber : a = Key(k, 0, "")
      BY <2>1
    <3>2. a.kind = k /\ k # "F"
      BY <3>1, KeyIs DEF TildeNumber
    <3> QED
      BY <3>2
  <2>2. CASE \E n \in 5 .. 12 : a = Key("F", n, "")
    <3>1. PICK n \in 5 .. 12 : a = Key("F", n, "")
      BY <2>2
    <3>2. a.kind = "F" /\ a.n = n
      BY <3>1, KeyIs
    <3> QED
      BY <3>2
  <2> QED
    BY <2>1, <2>2 DEF NumberKeys
<1>3. \A k \in DOMAIN CursorLetter : k \notin DOMAIN TildeNumber
  BY DEF CursorLetter, TildeNumber
<1>4. \A k \in DOMAIN CursorLetter \cup DOMAIN TildeNumber \cup {"F"} :
        k \notin {"Char", "Enter", "Tab", "Backspace", "Esc", "BackTab"}
  BY DEF CursorLetter, TildeNumber
<1>5. \A n \in 1 .. 4 : n \notin 5 .. 12
  OBVIOUS
<1> QED
  BY <1>1, <1>2, <1>3, <1>4, <1>5

LEMMA FormsApart ==
  \A app, s, mn, u, mo : Form(app, s, mn) /\ Form(app, u, mo) => (s = u <=> mn = mo)
<1> SUFFICES ASSUME NEW app, NEW s, NEW mn, NEW u, NEW mo, Form(app, s, mn), Form(app, u, mo)
             PROVE  s = u <=> mn = mo
  OBVIOUS
<1> DEFINE Long(x, y) == BackForm(x, y) \/ LetterForm(app, x, y) \/ NumberForm(x, y)
<1>1. \A x, y : Long(x, y) => (Len(x) = 3 \/ Len(x) = 4 \/ Len(x) = 6)
                              /\ y[1].kind \notin {"Char", "Enter", "Tab", "Backspace", "Esc"}
  BY BackLooks, LetterLooks, NumberLooks, KeysDiffer
<1>2. \A x, y, z, w : ShortForm(x, y) /\ Long(z, w) => x # z /\ y # w
  <2> HIDE DEF Long
  <2> QED
    BY <1>1, ShortLooks
<1>3. \A x, y, z, w : BackForm(x, y) /\ (LetterForm(app, z, w) \/ NumberForm(z, w)) => x # z /\ y # w
  BY BackLooks, LetterLooks, NumberLooks, KeysDiffer
<1>4. \A x, y, z, w : LetterForm(app, x, y) /\ NumberForm(z, w) => x # z /\ y # w
  BY LetterLooks, NumberLooks, KeysDiffer
<1> QED
  BY <1>2, <1>3, <1>4, ShortApart, BackApart, LetterApart, NumberApart DEF Form

\* Two presses are sent as the same bytes exactly if they mean the same (key_bytes).
THEOREM KeysAreApart == KeysApart
<1> SUFFICES ASSUME NEW app \in BOOLEAN, NEW a \in Pressed, NEW b \in Pressed
             PROVE  (KeyBytes(app, a[1], a[2]) = KeyBytes(app, b[1], b[2])) <=> Meaning(a[1], a[2]) = Meaning(b[1], b[2])
  BY DEF KeysApart
<1>1. PICK s : KeyBytes(app, a[1], a[2]) = {s} /\ Form(app, s, Meaning(a[1], a[2]))
  BY PressForm
<1>2. PICK u : KeyBytes(app, b[1], b[2]) = {u} /\ Form(app, u, Meaning(b[1], b[2]))
  BY PressForm
<1>3. s = u <=> Meaning(a[1], a[2]) = Meaning(b[1], b[2])
  BY <1>1, <1>2, FormsApart
<1> QED
  BY <1>1, <1>2, <1>3

-----------------------------------------------------------------------------
(* Recursion over positions: induction comes from the order of the         *)
(* naturals, which is well-founded.                                        *)

LEMMA LeastNatural ==
  ASSUME NEW T, T \subseteq Nat, T # {}
  PROVE  \E x \in T : \A y \in T : x <= y
<1> DEFINE R == OpToRel(<, Nat)
<1>1. IsWellFoundedOn(R, Nat)
  BY NatLessThanWellFounded, Zenon
<1>2. ASSUME NEW x \in Nat, NEW y \in Nat, y < x PROVE <<y, x>> \in R
  BY <1>2, Zenon DEF OpToRel
<1> HIDE DEF R
<1>3. PICK x \in T : \A y \in T : ~ (<<y, x>> \in R)
  BY <1>1, WFMin, Zenon
<1>4. ASSUME NEW y \in T PROVE x <= y
  <2>1. x \in Nat /\ y \in Nat
    OBVIOUS
  <2>2. ~ (y < x)
    BY <2>1, <1>2, <1>3
  <2> QED
    BY <2>1, <2>2
<1> QED
  BY <1>4

LEMMA UpTo ==
  ASSUME NEW n \in Nat, NEW S, 0 \in S, \A i \in 1 .. n : i - 1 \in S => i \in S
  PROVE  \A i \in 0 .. n : i \in S
<1> DEFINE T == {i \in 0 .. n : i \notin S}
<1> SUFFICES ASSUME T # {} PROVE FALSE
  OBVIOUS
<1>1. T \subseteq Nat
  OBVIOUS
<1> HIDE DEF T
<1>2. PICK x \in T : \A y \in T : x <= y
  BY <1>1, LeastNatural
<1>3. x \in 0 .. n /\ x \notin S
  BY DEF T
<1>4. x \in 1 .. n /\ x - 1 \in 0 .. n /\ ~(x <= x - 1)
  BY <1>3
<1>5. x - 1 \notin T
  BY <1>2, <1>4
<1>6. x - 1 \in S
  BY <1>4, <1>5 DEF T
<1> QED
  BY <1>3, <1>4, <1>6

\* f runs from a for n steps, where the step i takes x to step[<<x, i>>].
Runs(f, a, step, n) == f = [i \in 0 .. n |-> IF i = 0 THEN a ELSE step[<<f[i - 1], i>>]]

LEMMA RunExists ==
  ASSUME NEW n \in Nat, NEW a, NEW step
  PROVE  \E f : Runs(f, a, step, n)
<1> DEFINE S == {k \in 0 .. n : \E f : Runs(f, a, step, k)}
<1>1. 0 \in S
  <2>1. Runs([i \in 0 .. 0 |-> a], a, step, 0)
    BY DEF Runs
  <2> QED
    BY <2>1
<1>2. ASSUME NEW k \in 1 .. n, k - 1 \in S PROVE k \in S
  <2>1. PICK f : Runs(f, a, step, k - 1)
    BY <1>2
  <2> DEFINE g == [i \in 0 .. k |-> IF i = k THEN step[<<f[k - 1], k>>] ELSE f[i]]
  <2>2. ASSUME NEW i \in 0 .. k PROVE g[i] = IF i = 0 THEN a ELSE step[<<g[i - 1], i>>]
    <3>1. CASE i = k
      <4>1. k - 1 \in 0 .. k /\ k - 1 # k /\ k # 0
        OBVIOUS
      <4>2. g[k - 1] = f[k - 1]
        BY <4>1
      <4> QED
        BY <3>1, <4>1, <4>2
    <3>2. CASE i # k
      <4>1. i \in 0 .. k - 1
        BY <3>2
      <4>2. f[i] = IF i = 0 THEN a ELSE step[<<f[i - 1], i>>]
        BY <2>1, <4>1 DEF Runs
      <4>3. i # 0 => i - 1 \in 0 .. k /\ i - 1 # k
        BY <4>1
      <4>4. i # 0 => g[i - 1] = f[i - 1]
        BY <4>3
      <4>5. g[i] = f[i]
        BY <3>2
      <4> HIDE DEF g
      <4> QED
        BY <4>2, <4>4, <4>5
    <3> QED
      BY <3>1, <3>2
  <2>3. Runs(g, a, step, k)
    BY <2>2 DEF Runs
  <2> HIDE DEF g
  <2> QED
    BY <2>3
<1> HIDE DEF S
<1>3. n \in S
  <2>1. \A i \in 0 .. n : i \in S
    BY <1>1, <1>2, UpTo
  <2> QED
    BY <2>1
<1> QED
  BY <1>3 DEF S

\* A run stays in A if its steps do.
LEMMA RunStays ==
  ASSUME NEW n \in Nat, NEW A, NEW a \in A, NEW step, NEW f, Runs(f, a, step, n),
         \A x \in A : \A i \in 1 .. n : step[<<x, i>>] \in A
  PROVE  \A i \in 0 .. n : f[i] \in A
<1> DEFINE S == {i \in 0 .. n : f[i] \in A}
<1>1. 0 \in S
  <2>1. 0 \in 0 .. n
    OBVIOUS
  <2>2. f[0] = a
    BY <2>1 DEF Runs
  <2> QED
    BY <2>1, <2>2
<1>2. ASSUME NEW i \in 1 .. n, i - 1 \in S PROVE i \in S
  <2>1. i \in 0 .. n /\ i # 0
    OBVIOUS
  <2>2. f[i] = step[<<f[i - 1], i>>]
    BY <2>1 DEF Runs
  <2> QED
    BY <1>2, <2>1, <2>2
<1> HIDE DEF S
<1>3. \A i \in 0 .. n : i \in S
  BY <1>1, <1>2, UpTo
<1> QED
  BY <1>3 DEF S

\* A function over positions is a sequence.
LEMMA FunctionIsSeq ==
  ASSUME NEW n \in Nat, NEW X, NEW s \in [1 .. n -> X]
  PROVE  s \in Seq(X) /\ Len(s) = n /\ DOMAIN s = 1 .. n
<1>1. s \in Seq(X)
  BY SeqDef
<1>2. Len(s) \in Nat /\ DOMAIN s = 1 .. Len(s)
  BY <1>1, LenProperties
<1>3. 1 .. Len(s) = 1 .. n
  BY <1>2
<1>4. Len(s) = n
  <2>1. CASE n = 0
    <3>1. 1 \notin 1 .. Len(s)
      BY <1>3, <2>1
    <3> QED
      BY <1>2, <2>1, <3>1
  <2>2. CASE n # 0
    <3>1. n \in 1 .. Len(s) /\ n + 1 \notin 1 .. Len(s)
      BY <1>3, <2>2
    <3> QED
      BY <1>2, <3>1
  <2> QED
    BY <2>1, <2>2
<1> QED
  BY <1>1, <1>4

\* What two sequences share at the start.
LEMMA SamePrefix ==
  ASSUME NEW X, NEW s \in Seq(X), NEW t \in Seq(X), NEW k \in Nat, k <= Len(s), k <= Len(t),
         \A i \in 1 .. k : s[i] = t[i]
  PROVE  SubSeq(s, 1, k) = SubSeq(t, 1, k)
<1> DEFINE u == SubSeq(s, 1, k)
           v == SubSeq(t, 1, k)
<1>0. Len(s) \in Nat /\ Len(t) \in Nat
  BY LenProperties
<1>1. (\A i \in 1 .. k : s[i] \in X) /\ \A i \in 1 .. k : t[i] \in X
  BY <1>0, ElementOfSeq
<1>2. u \in Seq(X) /\ Len(u) = k /\ \A i \in 1 .. k : u[i] = s[i]
  <2>1. u \in Seq(X) /\ Len(u) = (IF 1 <= k THEN k - 1 + 1 ELSE 0) /\ \A i \in 1 .. k - 1 + 1 : u[i] = s[1 + i - 1]
    BY <1>1, SubSeqProperties
  <2> QED
    BY <2>1
<1>3. v \in Seq(X) /\ Len(v) = k /\ \A i \in 1 .. k : v[i] = t[i]
  <2>1. v \in Seq(X) /\ Len(v) = (IF 1 <= k THEN k - 1 + 1 ELSE 0) /\ \A i \in 1 .. k - 1 + 1 : v[i] = t[1 + i - 1]
    BY <1>1, SubSeqProperties
  <2> QED
    BY <2>1
<1> HIDE DEF u, v
<1>4. \A i \in 1 .. Len(u) : u[i] = v[i]
  BY <1>2, <1>3
<1>5. u = v
  BY <1>2, <1>3, <1>4, SeqEqual
<1> QED
  BY <1>5 DEF u, v

\* A prefix, one longer.
LEMMA PrefixGrows ==
  ASSUME NEW X, NEW s \in Seq(X), NEW k \in 1 .. Len(s)
  PROVE  /\ SubSeq(s, 1, k - 1) \in Seq(X) /\ s[k] \in X
         /\ SubSeq(s, 1, k) = Append(SubSeq(s, 1, k - 1), s[k])
<1>0. Len(s) \in Nat /\ s[k] \in X /\ 1 \in 1 .. Len(s) /\ k \in 1 .. Len(s)
  BY LenProperties, ElementOfSeq
<1>1. SubSeq(s, 1, k - 1) \in Seq(X)
  <2>1. \A i \in 1 .. k - 1 : s[i] \in X
    BY <1>0, ElementOfSeq
  <2> QED
    BY <2>1, SubSeqProperties
<1>2. SubSeq(s, 1, k) = SubSeq(s, 1, k - 1) \o <<s[k]>>
  BY <1>0, SubSeqRecursiveSecond
<1> QED
  BY <1>0, <1>1, <1>2, AppendIsConcat

-----------------------------------------------------------------------------
(* What a text has of a set.                                               *)

\* f keeps what there is of C up to each position of s.
Sifts(f, s, C) ==
  f = [n \in 0 .. Len(s) |->
         IF n = 0 THEN <<>> ELSE IF s[n] \in C THEN Append(f[n - 1], s[n]) ELSE f[n - 1]]

LEMMA SiftRun ==
  ASSUME NEW X, NEW s \in Seq(X), NEW C
  PROVE  \E f : /\ Sifts(f, s, C) /\ Sifted(s, C) = f[Len(s)]
                /\ \A i \in 0 .. Len(s) : f[i] \in Seq(X)
<1> DEFINE n == Len(s)
           step == [p \in Seq(X) \X (1 .. n) |-> IF s[p[2]] \in C THEN Append(p[1], s[p[2]]) ELSE p[1]]
<1>0. n \in Nat /\ \A i \in 1 .. n : s[i] \in X
  BY LenProperties, ElementOfSeq
<1>1. \A x \in Seq(X) : \A i \in 1 .. n :
        step[<<x, i>>] = IF s[i] \in C THEN Append(x, s[i]) ELSE x
  OBVIOUS
<1>2. \A x \in Seq(X) : \A i \in 1 .. n : step[<<x, i>>] \in Seq(X)
  BY <1>0, <1>1, AppendProperties
<1> HIDE DEF n, step
<1>3. PICK f : Runs(f, <<>>, step, n)
  BY <1>0, RunExists
<1>4. <<>> \in Seq(X)
  BY EmptySeq
<1>5. \A i \in 0 .. n : f[i] \in Seq(X)
  BY <1>0, <1>2, <1>3, <1>4, RunStays
<1>6. Sifts(f, s, C)
  <2>1. ASSUME NEW i \in 0 .. n
        PROVE  f[i] = IF i = 0 THEN <<>> ELSE IF s[i] \in C THEN Append(f[i - 1], s[i]) ELSE f[i - 1]
    <3>1. f[i] = IF i = 0 THEN <<>> ELSE step[<<f[i - 1], i>>]
      BY <1>3 DEF Runs
    <3>2. i # 0 => i \in 1 .. n /\ i - 1 \in 0 .. n
      BY <1>0
    <3> QED
      BY <1>1, <1>5, <3>1, <3>2
  <2>2. f = [i \in 0 .. n |-> f[i]]
    BY <1>3 DEF Runs
  <2> QED
    BY <2>1, <2>2 DEF Sifts, n
<1> DEFINE g == CHOOSE h : Sifts(h, s, C)
<1>7. Sifts(g, s, C)
  BY <1>6
<1>8. Sifted(s, C) = g[n]
  BY DEF Sifted, Sifts, n
<1> HIDE DEF g
<1>9. \A i \in 0 .. n : g[i] = f[i]
  <2> DEFINE S == {i \in 0 .. n : g[i] = f[i]}
  <2>1. 0 \in S
    <3>1. 0 \in 0 .. n
      BY <1>0
    <3>2. g[0] = <<>> /\ f[0] = <<>>
      BY <3>1, <1>6, <1>7 DEF Sifts, n
    <3> QED
      BY <3>1, <3>2
  <2>2. ASSUME NEW i \in 1 .. n, i - 1 \in S PROVE i \in S
    <3>1. i \in 0 .. n /\ i # 0
      BY <1>0
    <3>2. /\ g[i] = IF s[i] \in C THEN Append(g[i - 1], s[i]) ELSE g[i - 1]
          /\ f[i] = IF s[i] \in C THEN Append(f[i - 1], s[i]) ELSE f[i - 1]
      BY <3>1, <1>6, <1>7 DEF Sifts, n
    <3> QED
      BY <2>2, <3>1, <3>2
  <2> HIDE DEF S
  <2>3. \A i \in 0 .. n : i \in S
    BY <1>0, <2>1, <2>2, UpTo
  <2> QED
    BY <2>3 DEF S
<1>10. n \in 0 .. n
  BY <1>0
<1>11. Sifted(s, C) = f[n]
  BY <1>8, <1>9, <1>10
<1> QED
  BY <1>5, <1>6, <1>11 DEF n

LEMMA SiftIsSeq == \A X, C : \A s \in Seq(X) : Sifted(s, C) \in Seq(X)
<1> SUFFICES ASSUME NEW X, NEW C, NEW s \in Seq(X) PROVE Sifted(s, C) \in Seq(X)
  OBVIOUS
<1>1. PICK f : Sifted(s, C) = f[Len(s)] /\ \A i \in 0 .. Len(s) : f[i] \in Seq(X)
  BY SiftRun
<1>2. Len(s) \in 0 .. Len(s)
  BY LenProperties
<1> QED
  BY <1>1, <1>2

LEMMA SiftEmpty == \A C : Sifted(<<>>, C) = <<>>
<1> TAKE C
<1>1. <<>> \in Seq({}) /\ Len(<<>>) = 0
  BY EmptySeq
<1>2. PICK f : Sifts(f, <<>>, C) /\ Sifted(<<>>, C) = f[Len(<<>>)]
  BY <1>1, SiftRun
<1>3. f[0] = <<>>
  BY <1>1, <1>2 DEF Sifts
<1> QED
  BY <1>1, <1>2, <1>3

LEMMA SiftAppend ==
  ASSUME NEW X, NEW s \in Seq(X), NEW x \in X, NEW C
  PROVE  Sifted(Append(s, x), C) = IF x \in C THEN Append(Sifted(s, C), x) ELSE Sifted(s, C)
<1> DEFINE t == Append(s, x)
           n == Len(s)
<1>1. /\ t \in Seq(X) /\ n \in Nat /\ Len(t) = n + 1
      /\ \A i \in 1 .. n : t[i] = s[i]
      /\ t[n + 1] = x
  BY AppendProperties, LenProperties
<1> HIDE DEF t
<1>2. PICK f : Sifts(f, s, C) /\ Sifted(s, C) = f[n]
  BY SiftRun
<1>3. PICK g : Sifts(g, t, C) /\ Sifted(t, C) = g[n + 1]
  BY <1>1, SiftRun
<1> DEFINE S == {i \in 0 .. n : g[i] = f[i]}
<1>4. 0 \in S
  <2>1. 0 \in 0 .. n /\ 0 \in 0 .. n + 1
    BY <1>1
  <2>2. g[0] = <<>> /\ f[0] = <<>>
    BY <1>1, <1>2, <1>3, <2>1 DEF Sifts
  <2> QED
    BY <2>1, <2>2
<1>5. ASSUME NEW i \in 1 .. n, i - 1 \in S PROVE i \in S
  <2>1. i \in 0 .. n + 1 /\ i \in 0 .. n /\ i # 0
    BY <1>1
  <2>2. f[i] = IF s[i] \in C THEN Append(f[i - 1], s[i]) ELSE f[i - 1]
    BY <2>1, <1>2 DEF Sifts
  <2>3. g[i] = IF t[i] \in C THEN Append(g[i - 1], t[i]) ELSE g[i - 1]
    BY <2>1, <1>1, <1>3 DEF Sifts
  <2> QED
    BY <2>1, <2>2, <2>3, <1>1, <1>5
<1> HIDE DEF S
<1>6. n \in S
  <2>1. \A i \in 0 .. n : i \in S
    BY <1>1, <1>4, <1>5, UpTo
  <2> QED
    BY <2>1, <1>1
<1>7. g[n + 1] = IF x \in C THEN Append(g[n], x) ELSE g[n]
  <2>1. n + 1 \in 0 .. n + 1 /\ n + 1 # 0 /\ (n + 1) - 1 = n
    BY <1>1
  <2>2. g[n + 1] = IF t[n + 1] \in C THEN Append(g[(n + 1) - 1], t[n + 1]) ELSE g[(n + 1) - 1]
    BY <2>1, <1>1, <1>3 DEF Sifts
  <2> QED
    BY <2>1, <2>2, <1>1
<1>8. g[n] = f[n]
  BY <1>6 DEF S
<1>9. Sifted(t, C) = IF x \in C THEN Append(f[n], x) ELSE f[n]
  BY <1>3, <1>7, <1>8
<1> QED
  BY <1>2, <1>9 DEF t

-----------------------------------------------------------------------------
(* A paste without brackets.                                               *)

\* f is what is written of s up to each position.
Pastes(f, s) ==
  f = [n \in 0 .. Len(s) |->
         IF n = 0 THEN <<>>
         ELSE IF s[n] # "LF" THEN Append(f[n - 1], s[n])
         ELSE IF n > 1 /\ s[n - 1] = "CR" THEN f[n - 1] ELSE Append(f[n - 1], "CR")]

LEMMA PasteRun ==
  ASSUME NEW X, NEW s \in Seq(X), "CR" \in X
  PROVE  \E f : /\ Pastes(f, s) /\ PasteLines(s) = f[Len(s)]
                /\ \A i \in 0 .. Len(s) : f[i] \in Seq(X)
<1> DEFINE n == Len(s)
           E(x, i) == IF s[i] # "LF" THEN Append(x, s[i])
                      ELSE IF i > 1 /\ s[i - 1] = "CR" THEN x ELSE Append(x, "CR")
           step == [p \in Seq(X) \X (1 .. n) |-> E(p[1], p[2])]
<1>0. n \in Nat /\ \A i \in 1 .. n : s[i] \in X
  BY LenProperties, ElementOfSeq
<1>1. \A x \in Seq(X) : \A i \in 1 .. n : step[<<x, i>>] = E(x, i)
  OBVIOUS
<1>2. \A x \in Seq(X) : \A i \in 1 .. n : step[<<x, i>>] \in Seq(X)
  BY <1>0, <1>1, AppendProperties
<1> HIDE DEF n, step
<1>3. PICK f : Runs(f, <<>>, step, n)
  BY <1>0, RunExists
<1>4. <<>> \in Seq(X)
  BY EmptySeq
<1>5. \A i \in 0 .. n : f[i] \in Seq(X)
  BY <1>0, <1>2, <1>3, <1>4, RunStays
<1>6. ASSUME NEW i \in 0 .. n PROVE f[i] = IF i = 0 THEN <<>> ELSE E(f[i - 1], i)
  <2>1. f[i] = IF i = 0 THEN <<>> ELSE step[<<f[i - 1], i>>]
    BY <1>3 DEF Runs
  <2>2. i # 0 => i \in 1 .. n /\ i - 1 \in 0 .. n
    BY <1>0
  <2> QED
    BY <1>1, <1>5, <2>1, <2>2
<1>7. f = [i \in 0 .. n |-> f[i]]
  BY <1>3 DEF Runs
<1>8. Pastes(f, s)
  BY <1>6, <1>7 DEF Pastes, n
<1> DEFINE g == CHOOSE h : Pastes(h, s)
<1>9. Pastes(g, s) /\ PasteLines(s) = g[n]
  BY <1>8 DEF PasteLines, Pastes, n
<1> HIDE DEF g
<1>10. ASSUME NEW i \in 0 .. n PROVE g[i] = IF i = 0 THEN <<>> ELSE E(g[i - 1], i)
  BY <1>9 DEF Pastes, n
<1> HIDE DEF E
<1>11. \A i \in 0 .. n : g[i] = f[i]
  <2> DEFINE S == {i \in 0 .. n : g[i] = f[i]}
  <2>1. 0 \in S
    BY <1>0, <1>6, <1>10
  <2>2. ASSUME NEW i \in 1 .. n, i - 1 \in S PROVE i \in S
    <3>1. i \in 0 .. n /\ i # 0
      BY <1>0
    <3> QED
      BY <2>2, <3>1, <1>6, <1>10
  <2> HIDE DEF S
  <2>3. \A i \in 0 .. n : i \in S
    BY <1>0, <2>1, <2>2, UpTo
  <2> QED
    BY <2>3 DEF S
<1>12. n \in 0 .. n
  BY <1>0
<1>13. PasteLines(s) = f[n]
  BY <1>9, <1>11, <1>12
<1> QED
  BY <1>5, <1>8, <1>13 DEF n

\* The line ends of the first k of s.
EndsUpTo(s, k) == {i \in 1 .. k : s[i] = "LF" \/ (s[i] = "CR" /\ ~(i < k /\ s[i + 1] = "LF"))}

LEMMA EndsGrow ==
  ASSUME NEW s, NEW k \in Nat \ {0}, NEW N \in Nat, IsFiniteSet(EndsUpTo(s, k - 1)), Cardinality(EndsUpTo(s, k - 1)) = N
  PROVE  /\ IsFiniteSet(EndsUpTo(s, k))
         /\ Cardinality(EndsUpTo(s, k)) = IF s[k] \notin LineEnds \/ (s[k] = "LF" /\ k > 1 /\ s[k - 1] = "CR")
                                          THEN N ELSE N + 1
<1> DEFINE old == EndsUpTo(s, k - 1)
           new == EndsUpTo(s, k)
<1>1. CASE s[k] \notin LineEnds
  <2>1. new = old
    BY <1>1 DEF EndsUpTo, LineEnds
  <2> QED
    BY <1>1, <2>1
<1>2. CASE s[k] = "LF" /\ k > 1 /\ s[k - 1] = "CR"
  <2>1. new = (old \ {k - 1}) \cup {k} /\ k - 1 \in old /\ k \notin old
    BY <1>2 DEF EndsUpTo
  <2> HIDE DEF old, new
  <2>2. IsFiniteSet(old \ {k - 1}) /\ Cardinality(old \ {k - 1}) = N - 1
    BY <2>1, FS_RemoveElement DEF old
  <2>3. IsFiniteSet((old \ {k - 1}) \cup {k}) /\ Cardinality((old \ {k - 1}) \cup {k}) = (N - 1) + 1
    BY <2>1, <2>2, FS_AddElement
  <2> QED
    BY <1>2, <2>1, <2>3 DEF new
<1>3. CASE s[k] \in LineEnds /\ ~(s[k] = "LF" /\ k > 1 /\ s[k - 1] = "CR")
  <2>1. new = old \cup {k} /\ k \notin old
    BY <1>3 DEF EndsUpTo, LineEnds
  <2> HIDE DEF old, new
  <2>2. IsFiniteSet(old \cup {k}) /\ Cardinality(old \cup {k}) = N + 1
    BY <2>1, FS_AddElement DEF old
  <2> QED
    BY <1>3, <2>1, <2>2 DEF new
<1> QED
  BY <1>1, <1>2, <1>3

\* A paste without brackets keeps its text, of any length, and a CR for each of its line ends
\* (paste_bytes).
THEOREM PasteIsKept == PasteKept
<1> DEFINE C == DOMAIN Wd
           X == C \cup LineEnds
<1> SUFFICES ASSUME NEW n \in 0 .. MaxText, NEW s \in [1 .. n -> X]
             PROVE  LET out == PasteLines(s)
                        ends == {i \in DOMAIN s : s[i] = "LF" \/ (s[i] = "CR" /\ ~(i < n /\ s[i + 1] = "LF"))}
                    IN  /\ Sifted(out, C) = Sifted(s, C)
                        /\ Len(Sifted(out, {"CR"})) = Cardinality(ends) /\ \A i \in DOMAIN out : out[i] # "LF"
                        /\ (\A i \in DOMAIN s : s[i] # "LF") => out = s
  BY DEF PasteKept
<1>0. n \in Nat /\ C \cap LineEnds = {}
  BY InputAssumption
<1>1. s \in Seq(X) /\ Len(s) = n /\ DOMAIN s = 1 .. n /\ \A i \in 1 .. n : s[i] \in X
  BY <1>0, FunctionIsSeq
<1>2. "CR" \in X /\ "CR" \notin C /\ "LF" \notin C /\ "CR" # "LF"
  BY <1>0 DEF LineEnds
<1> HIDE DEF C, X
<1>3. PICK f : /\ Pastes(f, s) /\ PasteLines(s) = f[n]
               /\ \A i \in 0 .. n : f[i] \in Seq(X)
  BY <1>1, <1>2, PasteRun
<1>4. PICK g : /\ Sifts(g, s, C) /\ Sifted(s, C) = g[n]
               /\ \A i \in 0 .. n : g[i] \in Seq(X)
  BY <1>1, SiftRun
<1> DEFINE Kept(k) == Sifted(f[k], C) = g[k]
           Counted(k) == /\ IsFiniteSet(EndsUpTo(s, k))
                         /\ Cardinality(EndsUpTo(s, k)) = Len(Sifted(f[k], {"CR"}))
           Clean0(k) == \A i \in 1 .. Len(f[k]) : f[k][i] # "LF"
           Same(k) == (\A i \in 1 .. k : s[i] # "LF") => f[k] = SubSeq(s, 1, k)
           S == {k \in 0 .. n : Kept(k) /\ Counted(k) /\ Clean0(k) /\ Same(k)}
<1>5. 0 \in S
  <2>1. 0 \in 0 .. n
    BY <1>0
  <2>2. f[0] = <<>> /\ g[0] = <<>>
    BY <1>1, <1>3, <1>4, <2>1 DEF Pastes, Sifts
  <2>3. EndsUpTo(s, 0) = {}
    BY DEF EndsUpTo
  <2>4. Counted(0)
    BY <2>2, <2>3, SiftEmpty, FS_EmptySet, EmptySeq
  <2>5. SubSeq(s, 1, 0) = <<>>
    BY SubSeqEmpty
  <2>6. Kept(0) /\ Clean0(0) /\ Same(0)
    BY <2>2, <2>5, SiftEmpty
  <2> QED
    BY <2>1, <2>4, <2>6
<1>6. ASSUME NEW k \in 1 .. n, k - 1 \in S PROVE k \in S
  <2>1. k \in 0 .. n /\ k # 0 /\ k - 1 \in 0 .. n /\ k \in Nat \ {0}
    BY <1>0
  <2>2. Kept(k - 1) /\ Counted(k - 1) /\ Clean0(k - 1) /\ Same(k - 1)
    BY <1>6
  <2>3. f[k] = IF s[k] # "LF" THEN Append(f[k - 1], s[k])
               ELSE IF k > 1 /\ s[k - 1] = "CR" THEN f[k - 1] ELSE Append(f[k - 1], "CR")
    BY <1>1, <1>3, <2>1 DEF Pastes
  <2>4. g[k] = IF s[k] \in C THEN Append(g[k - 1], s[k]) ELSE g[k - 1]
    BY <1>1, <1>4, <2>1 DEF Sifts
  <2>5. f[k - 1] \in Seq(X) /\ s[k] \in X
    BY <1>1, <1>3, <2>1
  <2>6. Sifted(f[k - 1], {"CR"}) \in Seq(X) /\ Len(Sifted(f[k - 1], {"CR"})) \in Nat
    BY <2>5, SiftIsSeq, LenProperties
  <2>7. SubSeq(s, 1, k) = Append(SubSeq(s, 1, k - 1), s[k])
    BY <1>1, PrefixGrows
  <2>8. \A x \in X : /\ Len(Append(f[k - 1], x)) = Len(f[k - 1]) + 1 /\ Len(f[k - 1]) \in Nat
                     /\ \A i \in 1 .. Len(f[k - 1]) : Append(f[k - 1], x)[i] = f[k - 1][i]
                     /\ Append(f[k - 1], x)[Len(f[k - 1]) + 1] = x
    BY <2>5, AppendProperties, LenProperties
  <2>9. \A x \in X : x # "LF" /\ Clean0(k - 1) =>
          \A i \in 1 .. Len(Append(f[k - 1], x)) : Append(f[k - 1], x)[i] # "LF"
    BY <2>8
  <2>10. ASSUME NEW x \in X
         PROVE  Len(Sifted(Append(f[k - 1], x), {"CR"}))
                  = IF x = "CR" THEN Len(Sifted(f[k - 1], {"CR"})) + 1 ELSE Len(Sifted(f[k - 1], {"CR"}))
    <3>1. Sifted(Append(f[k - 1], x), {"CR"})
            = IF x \in {"CR"} THEN Append(Sifted(f[k - 1], {"CR"}), x) ELSE Sifted(f[k - 1], {"CR"})
      <4> DEFINE q == f[k - 1]
                 D == {"CR"}
      <4>1. q \in Seq(X)
        BY <2>5
      <4> HIDE DEF q, D
      <4>2. Sifted(Append(q, x), D) = IF x \in D THEN Append(Sifted(q, D), x) ELSE Sifted(q, D)
        BY <4>1, SiftAppend
      <4> QED
        BY <4>2 DEF q, D
    <3>2. Len(Append(Sifted(f[k - 1], {"CR"}), x)) = Len(Sifted(f[k - 1], {"CR"})) + 1
      BY <2>6, AppendProperties
    <3> QED
      BY <3>1, <3>2
  <2>11. \A x \in X : Sifted(Append(f[k - 1], x), C)
                        = IF x \in C THEN Append(Sifted(f[k - 1], C), x) ELSE Sifted(f[k - 1], C)
    BY <2>5, SiftAppend
  <2> DEFINE N == Len(Sifted(f[k - 1], {"CR"}))
  <2>12. /\ IsFiniteSet(EndsUpTo(s, k))
         /\ Cardinality(EndsUpTo(s, k)) = IF s[k] \notin LineEnds \/ (s[k] = "LF" /\ k > 1 /\ s[k - 1] = "CR")
                                          THEN N ELSE N + 1
    BY <2>1, <2>2, <2>6, EndsGrow
  <2> HIDE DEF N
  <2>13. Kept(k)
    BY <1>2, <2>2, <2>3, <2>4, <2>5, <2>11
  <2>14. Clean0(k)
    BY <1>2, <2>2, <2>3, <2>5, <2>9
  <2>15. Len(Sifted(f[k], {"CR"})) = IF s[k] \notin LineEnds \/ (s[k] = "LF" /\ k > 1 /\ s[k - 1] = "CR")
                                     THEN N ELSE N + 1
    BY <1>2, <2>3, <2>5, <2>10 DEF N, LineEnds
  <2>16. Counted(k)
    BY <2>12, <2>15
  <2>17. Same(k)
    <3> SUFFICES ASSUME \A i \in 1 .. k : s[i] # "LF" PROVE f[k] = SubSeq(s, 1, k)
      OBVIOUS
    <3>1. s[k] # "LF" /\ \A i \in 1 .. k - 1 : s[i] # "LF"
      BY <2>1
    <3> QED
      BY <2>2, <2>3, <2>7, <3>1
  <2> QED
    BY <2>1, <2>13, <2>14, <2>16, <2>17
<1> HIDE DEF S
<1>7. n \in S
  <2>1. \A k \in 0 .. n : k \in S
    BY <1>0, <1>5, <1>6, UpTo
  <2> QED
    BY <1>0, <2>1
<1>8. Kept(n) /\ Counted(n) /\ Clean0(n) /\ Same(n)
  BY <1>7 DEF S
<1>9. EndsUpTo(s, n) = {i \in DOMAIN s : s[i] = "LF" \/ (s[i] = "CR" /\ ~(i < n /\ s[i + 1] = "LF"))}
  BY <1>1 DEF EndsUpTo
<1>10. SubSeq(s, 1, n) = s
  BY <1>1, SubSeqFull
<1>11. DOMAIN f[n] = 1 .. Len(f[n])
  <2>1. f[n] \in Seq(X)
    BY <1>0, <1>3
  <2> QED
    BY <2>1, LenProperties
<1> QED
  BY <1>1, <1>3, <1>4, <1>8, <1>9, <1>10, <1>11

-----------------------------------------------------------------------------
(* A paste in brackets.                                                    *)

\* A sequence without its last element.
LEMMA ButLast ==
  ASSUME NEW X, NEW x \in Seq(X)
  PROVE  /\ SubSeq(x, 1, Len(x) - 1) \in Seq(X)
         /\ \A y \in X : SubSeq(Append(x, y), 1, Len(Append(x, y)) - 1) = x
<1>0. Len(x) \in Nat /\ \A i \in 1 .. Len(x) : x[i] \in X
  BY LenProperties, ElementOfSeq
<1>1. SubSeq(x, 1, Len(x) - 1) \in Seq(X)
  <2>1. 1 \in Int /\ Len(x) - 1 \in Int /\ \A i \in 1 .. Len(x) - 1 : x[i] \in X
    BY <1>0
  <2> QED
    BY <2>1, SubSeqProperties
<1>2. ASSUME NEW y \in X PROVE SubSeq(Append(x, y), 1, Len(Append(x, y)) - 1) = x
  <2> DEFINE t == Append(x, y)
  <2>1. t \in Seq(X) /\ Len(t) = Len(x) + 1 /\ \A i \in 1 .. Len(x) : t[i] = x[i]
    BY AppendProperties
  <2> HIDE DEF t
  <2> DEFINE u == SubSeq(t, 1, Len(x))
  <2>2. 1 \in Int /\ Len(x) \in Int /\ \A i \in 1 .. Len(x) : t[i] \in X
    BY <1>0, <2>1
  <2>3. u \in Seq(X) /\ Len(u) = (IF 1 <= Len(x) THEN Len(x) - 1 + 1 ELSE 0)
        /\ \A i \in 1 .. Len(x) - 1 + 1 : u[i] = t[1 + i - 1]
    BY <2>2, SubSeqProperties
  <2> HIDE DEF u
  <2>4. Len(u) = Len(x) /\ \A i \in 1 .. Len(u) : u[i] = x[i]
    BY <1>0, <2>1, <2>3
  <2>5. u = x
    BY <2>3, <2>4, SeqEqual
  <2>6. Len(t) - 1 = Len(x)
    BY <1>0, <2>1
  <2> QED
    BY <2>5, <2>6 DEF t, u
<1> QED
  BY <1>1, <1>2

\* f is what is left of s up to each position.
Strips(f, s) ==
  f = [n \in 0 .. Len(s) |->
         IF n = 0 THEN <<>>
         ELSE IF n \in Ends(s) THEN SubSeq(f[n - 1], 1, Len(f[n - 1]) - 1)
         ELSE Append(f[n - 1], s[n])]

LEMMA StripRun ==
  ASSUME NEW X, NEW s \in Seq(X)
  PROVE  \E f : /\ Strips(f, s) /\ Stripped(s) = f[Len(s)]
                /\ \A i \in 0 .. Len(s) : f[i] \in Seq(X)
<1> DEFINE n == Len(s)
           E(x, i) == IF i \in Ends(s) THEN SubSeq(x, 1, Len(x) - 1) ELSE Append(x, s[i])
           step == [p \in Seq(X) \X (1 .. n) |-> E(p[1], p[2])]
<1>0. n \in Nat /\ \A i \in 1 .. n : s[i] \in X
  BY LenProperties, ElementOfSeq
<1>1. \A x \in Seq(X) : \A i \in 1 .. n : step[<<x, i>>] = E(x, i)
  OBVIOUS
<1>2. \A x \in Seq(X) : \A i \in 1 .. n : step[<<x, i>>] \in Seq(X)
  BY <1>0, <1>1, AppendProperties, ButLast
<1> HIDE DEF n, step
<1>3. PICK f : Runs(f, <<>>, step, n)
  BY <1>0, RunExists
<1>4. <<>> \in Seq(X)
  BY EmptySeq
<1>5. \A i \in 0 .. n : f[i] \in Seq(X)
  BY <1>0, <1>2, <1>3, <1>4, RunStays
<1>6. ASSUME NEW i \in 0 .. n PROVE f[i] = IF i = 0 THEN <<>> ELSE E(f[i - 1], i)
  <2>1. f[i] = IF i = 0 THEN <<>> ELSE step[<<f[i - 1], i>>]
    BY <1>3 DEF Runs
  <2>2. i # 0 => i \in 1 .. n /\ i - 1 \in 0 .. n
    BY <1>0
  <2> QED
    BY <1>1, <1>5, <2>1, <2>2
<1>7. f = [i \in 0 .. n |-> f[i]]
  BY <1>3 DEF Runs
<1>8. Strips(f, s)
  BY <1>6, <1>7 DEF Strips, n
<1> DEFINE g == CHOOSE h : Strips(h, s)
<1>9. Strips(g, s) /\ Stripped(s) = g[n]
  BY <1>8 DEF Stripped, Strips, n
<1> HIDE DEF g
<1>10. ASSUME NEW i \in 0 .. n PROVE g[i] = IF i = 0 THEN <<>> ELSE E(g[i - 1], i)
  BY <1>9 DEF Strips, n
<1> HIDE DEF E
<1>11. \A i \in 0 .. n : g[i] = f[i]
  <2> DEFINE S == {i \in 0 .. n : g[i] = f[i]}
  <2>1. 0 \in S
    BY <1>0, <1>6, <1>10
  <2>2. ASSUME NEW i \in 1 .. n, i - 1 \in S PROVE i \in S
    <3>1. i \in 0 .. n /\ i # 0
      BY <1>0
    <3> QED
      BY <2>2, <3>1, <1>6, <1>10
  <2> HIDE DEF S
  <2>3. \A i \in 0 .. n : i \in S
    BY <1>0, <2>1, <2>2, UpTo
  <2> QED
    BY <2>3 DEF S
<1>12. n \in 0 .. n
  BY <1>0
<1>13. Stripped(s) = f[n]
  BY <1>9, <1>11, <1>12
<1> QED
  BY <1>5, <1>8, <1>13 DEF n

\* No terminator stands straight behind an ESC.
Apart(s) == \A m \in Ends(s) : m > 2 => s[m - 2] # "ESC"

\* The terminator behind what holds none is the only one.
LEMMA OneEnd ==
  ASSUME NEW X, NEW kept \in Seq(X), Ends(kept) = {}
  PROVE  LET out == <<"ESC", "[200~">> \o kept \o <<"ESC", "[201~">> IN Ends(out) = {Len(out)}
<1> DEFINE first == <<"ESC", "[200~">>
           last == <<"ESC", "[201~">>
           Y == X \cup {"ESC", "[200~", "[201~"}
           half == first \o kept
           out == half \o last
           m == Len(kept)
<1>1. /\ first \in Seq(Y) /\ Len(first) = 2 /\ first[1] = "ESC" /\ first[2] = "[200~"
      /\ last \in Seq(Y) /\ Len(last) = 2 /\ last[1] = "ESC" /\ last[2] = "[201~"
  OBVIOUS
<1>2. kept \in Seq(Y) /\ m \in Nat
  BY SeqMonotonic, LenProperties
<1> HIDE DEF first, last, Y
<1>3. /\ half \in Seq(Y) /\ Len(half) = 2 + m
      /\ \A i \in 1 .. 2 + m : half[i] = IF i <= 2 THEN first[i] ELSE kept[i - 2]
  <2>1. /\ first \o kept \in Seq(Y) /\ Len(first \o kept) = Len(first) + Len(kept)
        /\ \A i \in 1 .. Len(first) + Len(kept) :
             (first \o kept)[i] = IF i <= Len(first) THEN first[i] ELSE kept[i - Len(first)]
    BY <1>1, <1>2, ConcatProperties
  <2> QED
    BY <1>1, <2>1
<1> HIDE DEF half
<1>4. /\ Len(out) = 4 + m
      /\ \A i \in 1 .. 4 + m : out[i] = IF i <= 2 + m THEN half[i] ELSE last[i - (2 + m)]
  <2>1. /\ Len(half \o last) = Len(half) + Len(last)
        /\ \A i \in 1 .. Len(half) + Len(last) :
             (half \o last)[i] = IF i <= Len(half) THEN half[i] ELSE last[i - Len(half)]
    BY <1>1, <1>3, ConcatProperties
  <2>2. (2 + m) + 2 = 4 + m
    BY <1>2
  <2> HIDE DEF m
  <2> QED
    BY <1>1, <1>3, <2>1, <2>2
<1> HIDE DEF out
<1>5. /\ out[1] = "ESC" /\ out[2] = "[200~" /\ out[m + 3] = "ESC" /\ out[m + 4] = "[201~"
      /\ \A i \in 3 .. m + 2 : out[i] = kept[i - 2]
  <2>1. \A i \in 1 .. 2 + m : out[i] = half[i]
    BY <1>2, <1>4
  <2>2. out[1] = "ESC" /\ out[2] = "[200~"
    <3>1. 1 \in 1 .. 2 + m /\ 2 \in 1 .. 2 + m
      BY <1>2
    <3> QED
      BY <1>1, <1>3, <2>1, <3>1
  <2>3. out[m + 3] = "ESC" /\ out[m + 4] = "[201~"
    <3>1. /\ m + 3 \in 1 .. 4 + m /\ ~(m + 3 <= 2 + m) /\ (m + 3) - (2 + m) = 1
          /\ m + 4 \in 1 .. 4 + m /\ ~(m + 4 <= 2 + m) /\ (m + 4) - (2 + m) = 2
      BY <1>2
    <3> QED
      BY <1>1, <1>4, <3>1
  <2>4. ASSUME NEW i \in 3 .. m + 2 PROVE out[i] = kept[i - 2]
    <3>1. i \in 1 .. 2 + m /\ ~(i <= 2)
      BY <1>2
    <3> QED
      BY <1>3, <2>1, <3>1
  <2> QED
    BY <2>2, <2>3, <2>4
<1>6. ASSUME NEW i \in Ends(out) PROVE i = m + 4
  <2>1. i \in 2 .. m + 4 /\ out[i - 1] = "ESC" /\ out[i] = "[201~"
    BY <1>4, <1>6 DEF Ends
  <2>2. i # 2 /\ i # 3 /\ i # m + 3
    BY <1>2, <1>5, <2>1
  <2>3. ASSUME i \in 4 .. m + 2 PROVE FALSE
    <3>1. i - 2 \in 2 .. m /\ i - 1 \in 3 .. m + 2 /\ i \in 3 .. m + 2 /\ (i - 1) - 2 = (i - 2) - 1
      BY <1>2, <2>3
    <3>2. kept[(i - 2) - 1] = "ESC" /\ kept[i - 2] = "[201~"
      BY <1>5, <2>1, <3>1
    <3>3. i - 2 \in Ends(kept)
      BY <3>1, <3>2 DEF Ends
    <3> QED
      BY <3>3
  <2> QED
    BY <1>2, <2>1, <2>2, <2>3
<1>7. m + 4 \in Ends(out)
  <2>1. m + 4 \in 2 .. Len(out) /\ (m + 4) - 1 = m + 3
    BY <1>2, <1>4
  <2> QED
    BY <1>5, <2>1 DEF Ends
<1>8. Ends(out) = {Len(out)}
  BY <1>2, <1>4, <1>6, <1>7
<1> QED
  BY <1>8 DEF out, half, first, last

\* A paste in brackets keeps its text, of any length, and ends where its brackets end, unless it
\* has a terminator straight behind an ESC (paste_bytes).
THEOREM BracketsAreKept == BracketsKept
<1> DEFINE C == DOMAIN Wd \cup LineEnds
<1> SUFFICES ASSUME NEW n \in 0 .. MaxText, NEW s \in [1 .. n -> Pasted]
             PROVE  /\ Sifted(Stripped(s), C) = Sifted(s, C)
                    /\ Ends(s) = {} => Stripped(s) = s
                    /\ Apart(s) => Ends(Bracketed(s)) = {Len(Bracketed(s))}
  BY DEF BracketsKept, Apart
<1> DEFINE X == Pasted
<1>0. n \in Nat /\ "ESC" \notin C /\ "[201~" \notin C
  BY InputAssumption DEF LineEnds
<1>1. s \in Seq(X) /\ Len(s) = n /\ \A i \in 1 .. n : s[i] \in X
  BY <1>0, FunctionIsSeq
<1> HIDE DEF C, X
<1>2. PICK f : /\ Strips(f, s) /\ Stripped(s) = f[n]
               /\ \A i \in 0 .. n : f[i] \in Seq(X)
  BY <1>1, StripRun
<1>3. PICK g : /\ Sifts(g, s, C) /\ Sifted(s, C) = g[n]
               /\ \A i \in 0 .. n : g[i] \in Seq(X)
  BY <1>1, SiftRun
<1> DEFINE Kept(k) == Sifted(f[k], C) = g[k]
           Same(k) == (\A i \in 1 .. k : i \notin Ends(s)) => f[k] = SubSeq(s, 1, k)
           NoEnd(k) == Apart(s) => Ends(f[k]) = {}
           Last0(k) == f[k] # <<>> /\ f[k][Len(f[k])] = "ESC" => k # 0 /\ s[k] = "ESC"
           Fine(k) == Kept(k) /\ Same(k) /\ NoEnd(k) /\ (Apart(s) => Last0(k))
           S == {k \in 0 .. n : Fine(k) /\ (k # 0 => Fine(k - 1))}
<1>4. 0 \in S
  <2>1. 0 \in 0 .. n
    BY <1>0
  <2>2. f[0] = <<>> /\ g[0] = <<>>
    BY <1>1, <1>2, <1>3, <2>1 DEF Strips, Sifts
  <2>3. SubSeq(s, 1, 0) = <<>>
    BY SubSeqEmpty
  <2>4. Ends(<<>>) = {}
    BY EmptySeq DEF Ends
  <2> QED
    BY <2>1, <2>2, <2>3, <2>4, SiftEmpty
<1>5. ASSUME NEW k \in 1 .. n, k - 1 \in S PROVE k \in S
  <2>1. k \in 0 .. n /\ k # 0 /\ k - 1 \in 0 .. n
    BY <1>0
  <2>2. Fine(k - 1) /\ (k - 1 # 0 => Fine((k - 1) - 1))
    BY <1>5
  <2>3. f[k] = IF k \in Ends(s) THEN SubSeq(f[k - 1], 1, Len(f[k - 1]) - 1) ELSE Append(f[k - 1], s[k])
    BY <1>1, <1>2, <2>1 DEF Strips
  <2>4. g[k] = IF s[k] \in C THEN Append(g[k - 1], s[k]) ELSE g[k - 1]
    BY <1>1, <1>3, <2>1 DEF Sifts
  <2>5. f[k - 1] \in Seq(X) /\ s[k] \in X
    BY <1>1, <1>2, <2>1
  <2>6. CASE k \in Ends(s)
    <3>1. k \in 2 .. n /\ s[k - 1] = "ESC" /\ s[k] = "[201~" /\ k - 2 \in 0 .. n /\ k - 1 \in 1 .. n
          /\ (k - 1) - 1 = k - 2 /\ k - 1 # 0
      BY <1>0, <1>1, <2>6 DEF Ends
    <3>2. k - 1 \notin Ends(s)
      BY <3>1 DEF Ends
    <3> DEFINE x == f[k - 2]
    <3>3. x \in Seq(X) /\ s[k - 1] \in X
      BY <1>1, <1>2, <3>1
    <3>4. f[k - 1] = Append(x, s[k - 1])
      <4>1. f[k - 1] = IF k - 1 = 0 THEN <<>>
                       ELSE IF k - 1 \in Ends(s) THEN SubSeq(f[(k - 1) - 1], 1, Len(f[(k - 1) - 1]) - 1)
                       ELSE Append(f[(k - 1) - 1], s[k - 1])
        BY <1>1, <1>2, <2>1 DEF Strips
      <4> QED
        BY <3>1, <3>2, <4>1
    <3>5. Fine(k - 2)
      BY <2>2, <3>1
    <3> HIDE DEF x
    <3>6. f[k] = x
      <4>1. SubSeq(Append(x, s[k - 1]), 1, Len(Append(x, s[k - 1])) - 1) = x
        BY <3>3, ButLast
      <4> QED
        BY <2>3, <2>6, <3>4, <4>1
    <3>7. Kept(k)
      <4>0. \A y \in X : Sifted(Append(x, y), C) = IF y \in C THEN Append(Sifted(x, C), y) ELSE Sifted(x, C)
        BY <3>3, SiftAppend
      <4>1. Sifted(Append(x, s[k - 1]), C) = IF s[k - 1] \in C THEN Append(Sifted(x, C), s[k - 1]) ELSE Sifted(x, C)
        BY <3>3, <4>0
      <4>2. Sifted(f[k - 1], C) = Sifted(x, C)
        BY <1>0, <3>1, <3>4, <4>1
      <4>3. g[k] = g[k - 1]
        BY <1>0, <2>4, <3>1
      <4> QED
        BY <2>2, <3>6, <4>2, <4>3
    <3>8. Same(k)
      BY <2>6
    <3>9. NoEnd(k)
      BY <3>5, <3>6 DEF x
    <3>10. Apart(s) => Last0(k)
      <4> SUFFICES ASSUME Apart(s), x # <<>>, x[Len(x)] = "ESC" PROVE FALSE
        BY <3>6
      <4>1. k - 2 # 0 /\ s[k - 2] = "ESC"
        BY <3>5 DEF x
      <4>2. k > 2
        BY <3>1, <4>1
      <4> QED
        BY <2>6, <4>1, <4>2 DEF Apart
    <3> QED
      BY <2>1, <2>2, <3>7, <3>8, <3>9, <3>10
  <2>7. CASE k \notin Ends(s)
    <3> DEFINE x == f[k - 1]
               t == Append(x, s[k])
    <3>1. f[k] = t
      BY <2>3, <2>7
    <3>2. x \in Seq(X)
      BY <2>5
    <3> HIDE DEF x
    <3>3. /\ Len(t) = Len(x) + 1 /\ Len(x) \in Nat /\ t # <<>>
          /\ \A i \in 1 .. Len(x) : t[i] = x[i]
          /\ t[Len(x) + 1] = s[k]
      BY <2>5, <3>2, AppendProperties, LenProperties
    <3>4. Kept(k)
      <4>1. Sifted(t, C) = IF s[k] \in C THEN Append(Sifted(x, C), s[k]) ELSE Sifted(x, C)
        BY <2>5, <3>2, SiftAppend
      <4>2. Sifted(x, C) = g[k - 1]
        BY <2>2 DEF x
      <4> HIDE DEF t
      <4> QED
        BY <2>4, <3>1, <4>1, <4>2
    <3> HIDE DEF t
    <3>5. Same(k)
      <4> SUFFICES ASSUME \A i \in 1 .. k : i \notin Ends(s) PROVE f[k] = SubSeq(s, 1, k)
        OBVIOUS
      <4>1. \A i \in 1 .. k - 1 : i \notin Ends(s)
        BY <2>1
      <4>2. SubSeq(s, 1, k) = Append(SubSeq(s, 1, k - 1), s[k])
        BY <1>1, PrefixGrows
      <4>3. x = SubSeq(s, 1, k - 1)
        BY <2>2, <4>1 DEF x
      <4> QED
        BY <3>1, <4>2, <4>3 DEF t
    <3>6. NoEnd(k)
      <4> SUFFICES ASSUME Apart(s), NEW e \in Ends(t) PROVE FALSE
        BY <3>1
      <4>1. e \in 2 .. Len(x) + 1 /\ t[e - 1] = "ESC" /\ t[e] = "[201~"
        BY <3>3 DEF Ends
      <4>2. CASE e # Len(x) + 1
        <5>1. e \in 2 .. Len(x) /\ e - 1 \in 1 .. Len(x) /\ e \in 1 .. Len(x)
          BY <3>3, <4>1, <4>2
        <5>2. e \in Ends(x)
          BY <3>3, <4>1, <5>1 DEF Ends
        <5> QED
          BY <2>2, <5>2 DEF x
      <4>3. CASE e = Len(x) + 1
        <5>1. Len(x) \in 1 .. Len(x) /\ x # <<>> /\ x[Len(x)] = "ESC" /\ s[k] = "[201~"
          BY <3>3, <4>1, <4>3, EmptySeq
        <5>2. k - 1 # 0 /\ s[k - 1] = "ESC"
          BY <2>2, <5>1 DEF x
        <5>3. k \in 2 .. n
          BY <2>1, <5>2
        <5>4. k \in Ends(s)
          BY <1>1, <5>1, <5>2, <5>3 DEF Ends
        <5> QED
          BY <2>7, <5>4
      <4> QED
        BY <4>2, <4>3
    <3>7. Last0(k)
      BY <2>1, <3>1, <3>3
    <3> QED
      BY <2>1, <2>2, <3>4, <3>5, <3>6, <3>7
  <2> QED
    BY <2>6, <2>7
<1> HIDE DEF S
<1>6. n \in S
  <2>1. \A k \in 0 .. n : k \in S
    BY <1>0, <1>4, <1>5, UpTo
  <2> QED
    BY <1>0, <2>1
<1>7. Kept(n) /\ Same(n) /\ NoEnd(n)
  BY <1>6 DEF S
<1>8. SubSeq(s, 1, n) = s
  BY <1>1, SubSeqFull
<1>9. f[n] \in Seq(X)
  BY <1>0, <1>2
<1>10. ASSUME Apart(s) PROVE Ends(Bracketed(s)) = {Len(Bracketed(s))}
  <2> DEFINE kept == f[n]
  <2>1. Ends(kept) = {} /\ kept \in Seq(X)
    BY <1>7, <1>9, <1>10
  <2>2. Bracketed(s) = <<"ESC", "[200~">> \o kept \o <<"ESC", "[201~">>
    BY <1>2 DEF Bracketed
  <2> HIDE DEF kept
  <2> QED
    BY <2>1, <2>2, OneEnd
<1> QED
  BY <1>2, <1>3, <1>7, <1>8, <1>10

-----------------------------------------------------------------------------
(* The caret.                                                              *)

Texts == Seq(DOMAIN Wd)

\* f is the bytes of the text up to each position.
Widths(f, text) == f = [n \in 0 .. Len(text) |-> IF n = 0 THEN 0 ELSE f[n - 1] + Wd[text[n]]]

LEMMA WidthRun ==
  ASSUME NEW text \in Texts
  PROVE  \E f : /\ Widths(f, text) /\ Bytes(text) = f[Len(text)]
                /\ \A i \in 0 .. Len(text) : f[i] \in Nat
<1> DEFINE n == Len(text)
           E(x, i) == x + Wd[text[i]]
           step == [p \in Nat \X (1 .. n) |-> E(p[1], p[2])]
<1>0. n \in Nat /\ \A i \in 1 .. n : Wd[text[i]] \in Nat
  BY LenProperties, ElementOfSeq, InputAssumption DEF Texts
<1> HIDE DEF E, n
<1>1. \A x \in Nat : \A i \in 1 .. n : step[<<x, i>>] = E(x, i)
  OBVIOUS
<1>2. \A x \in Nat : \A i \in 1 .. n : step[<<x, i>>] \in Nat
  <2>1. \A x \in Nat : \A i \in 1 .. n : E(x, i) \in Nat
    BY <1>0 DEF E
  <2> QED
    BY <1>1, <2>1
<1> HIDE DEF step
<1>3. PICK f : Runs(f, 0, step, n)
  BY <1>0, RunExists
<1>4. \A i \in 0 .. n : f[i] \in Nat
  BY <1>0, <1>2, <1>3, RunStays
<1>5. ASSUME NEW i \in 0 .. n PROVE f[i] = IF i = 0 THEN 0 ELSE f[i - 1] + Wd[text[i]]
  <2>1. f[i] = IF i = 0 THEN 0 ELSE step[<<f[i - 1], i>>]
    BY <1>3 DEF Runs
  <2>2. i # 0 => i \in 1 .. n /\ i - 1 \in 0 .. n
    BY <1>0
  <2>3. i # 0 => step[<<f[i - 1], i>>] = E(f[i - 1], i)
    BY <1>1, <1>4, <2>2
  <2> QED
    BY <2>1, <2>3 DEF E
<1>6. f = [i \in 0 .. n |-> f[i]]
  BY <1>3 DEF Runs
<1>7. Widths(f, text)
  BY <1>5, <1>6 DEF Widths, n
<1> DEFINE g == CHOOSE h : Widths(h, text)
<1>8. Widths(g, text) /\ Bytes(text) = g[n]
  BY <1>7 DEF Bytes, Widths, n
<1> HIDE DEF g
<1>9. ASSUME NEW i \in 0 .. n PROVE g[i] = IF i = 0 THEN 0 ELSE g[i - 1] + Wd[text[i]]
  BY <1>8 DEF Widths, n
<1>10. \A i \in 0 .. n : g[i] \in Nat
  <2> DEFINE S == {i \in 0 .. n : g[i] \in Nat}
  <2>1. 0 \in S
    BY <1>0, <1>9
  <2>2. ASSUME NEW i \in 1 .. n, i - 1 \in S PROVE i \in S
    <3>1. i \in 0 .. n /\ i # 0
      BY <1>0
    <3> QED
      BY <2>2, <3>1, <1>0, <1>9
  <2> HIDE DEF S
  <2>3. \A i \in 0 .. n : i \in S
    BY <1>0, <2>1, <2>2, UpTo
  <2> QED
    BY <2>3 DEF S
<1> QED
  BY <1>8, <1>10 DEF n

LEMMA BytesAreNat == \A text \in Texts : Bytes(text) \in Nat
<1> SUFFICES ASSUME NEW text \in Texts PROVE Bytes(text) \in Nat
  OBVIOUS
<1>1. Len(text) \in 0 .. Len(text)
  BY LenProperties DEF Texts
<1> QED
  BY <1>1, WidthRun

LEMMA BytesOfNone == Bytes(<<>>) = 0
<1>1. <<>> \in Texts /\ Len(<<>>) = 0
  BY EmptySeq DEF Texts
<1>2. PICK f : Widths(f, <<>>) /\ Bytes(<<>>) = f[Len(<<>>)]
  BY <1>1, WidthRun
<1>3. f[0] = 0
  BY <1>1, <1>2 DEF Widths
<1> QED
  BY <1>1, <1>2, <1>3

LEMMA BytesAppend ==
  ASSUME NEW s \in Texts, NEW c \in DOMAIN Wd
  PROVE  Bytes(Append(s, c)) = Bytes(s) + Wd[c]
<1> DEFINE t == Append(s, c)
           n == Len(s)
<1>1. /\ t \in Texts /\ n \in Nat /\ Len(t) = n + 1
      /\ \A i \in 1 .. n : t[i] = s[i]
      /\ t[n + 1] = c
  BY AppendProperties, LenProperties DEF Texts
<1> HIDE DEF t
<1>2. PICK f : Widths(f, s) /\ Bytes(s) = f[n]
  BY WidthRun
<1>3. PICK g : Widths(g, t) /\ Bytes(t) = g[n + 1]
  BY <1>1, WidthRun
<1> DEFINE S == {i \in 0 .. n : g[i] = f[i]}
<1>4. 0 \in S
  <2>1. 0 \in 0 .. n /\ 0 \in 0 .. n + 1
    BY <1>1
  <2>2. g[0] = 0 /\ f[0] = 0
    BY <1>1, <1>2, <1>3, <2>1 DEF Widths
  <2> QED
    BY <2>1, <2>2
<1>5. ASSUME NEW i \in 1 .. n, i - 1 \in S PROVE i \in S
  <2>1. i \in 0 .. n + 1 /\ i \in 0 .. n /\ i # 0
    BY <1>1
  <2>2. f[i] = f[i - 1] + Wd[s[i]]
    BY <2>1, <1>2 DEF Widths
  <2>3. g[i] = g[i - 1] + Wd[t[i]]
    BY <2>1, <1>1, <1>3 DEF Widths
  <2> QED
    BY <2>1, <2>2, <2>3, <1>1, <1>5
<1> HIDE DEF S
<1>6. n \in S
  <2>1. \A i \in 0 .. n : i \in S
    BY <1>1, <1>4, <1>5, UpTo
  <2> QED
    BY <2>1, <1>1
<1>7. g[n + 1] = g[n] + Wd[c]
  <2>1. n + 1 \in 0 .. n + 1 /\ n + 1 # 0 /\ (n + 1) - 1 = n
    BY <1>1
  <2>2. g[n + 1] = g[(n + 1) - 1] + Wd[t[n + 1]]
    BY <2>1, <1>1, <1>3 DEF Widths
  <2> QED
    BY <2>1, <2>2, <1>1
<1>8. g[n] = f[n]
  BY <1>6 DEF S
<1> QED
  BY <1>2, <1>3, <1>7, <1>8 DEF t

\* The bytes before each position.
To(text, k) == Bytes(SubSeq(text, 1, k))

LEMMA ToGrows ==
  ASSUME NEW text \in Texts
  PROVE  /\ To(text, 0) = 0 /\ To(text, Len(text)) = Bytes(text)
         /\ \A k \in 0 .. Len(text) : To(text, k) \in Nat
         /\ \A k \in 1 .. Len(text) : /\ text[k] \in DOMAIN Wd /\ Wd[text[k]] \in Nat \ {0}
                                      /\ To(text, k) = To(text, k - 1) + Wd[text[k]]
<1>0. Len(text) \in Nat
  BY LenProperties DEF Texts
<1>1. To(text, 0) = 0
  <2>1. SubSeq(text, 1, 0) = <<>>
    BY SubSeqEmpty
  <2> QED
    BY <2>1, BytesOfNone DEF To
<1>2. To(text, Len(text)) = Bytes(text)
  BY SubSeqFull DEF To, Texts
<1>3. ASSUME NEW k \in 1 .. Len(text)
      PROVE  /\ text[k] \in DOMAIN Wd /\ Wd[text[k]] \in Nat \ {0}
             /\ To(text, k) = To(text, k - 1) + Wd[text[k]]
             /\ To(text, k - 1) \in Nat
  <2>1. /\ SubSeq(text, 1, k - 1) \in Texts /\ text[k] \in DOMAIN Wd
        /\ SubSeq(text, 1, k) = Append(SubSeq(text, 1, k - 1), text[k])
    BY PrefixGrows DEF Texts
  <2>2. Bytes(Append(SubSeq(text, 1, k - 1), text[k])) = Bytes(SubSeq(text, 1, k - 1)) + Wd[text[k]]
    BY <2>1, BytesAppend
  <2>3. Wd[text[k]] \in Nat \ {0}
    <3>1. Wd \in [DOMAIN Wd -> Nat \ {0}]
      BY InputAssumption
    <3> QED
      BY <2>1, <3>1
  <2>4. Bytes(SubSeq(text, 1, k - 1)) \in Nat
    BY <2>1, BytesAreNat
  <2> QED
    BY <2>1, <2>2, <2>3, <2>4 DEF To
<1>4. ASSUME NEW k \in 0 .. Len(text) PROVE To(text, k) \in Nat
  <2>1. CASE k = 0
    BY <1>1, <2>1
  <2>2. CASE k # 0
    <3>1. k \in 1 .. Len(text)
      BY <1>0, <2>2
    <3> QED
      BY <1>3, <3>1
  <2> QED
    BY <2>1, <2>2
<1> QED
  BY <1>1, <1>2, <1>3, <1>4

LEMMA ToOrdered ==
  ASSUME NEW text \in Texts, NEW j \in 0 .. Len(text), NEW k \in 0 .. Len(text), j < k
  PROVE  To(text, j) < To(text, k)
<1>0. Len(text) \in Nat
  BY LenProperties DEF Texts
<1> DEFINE S == {i \in 0 .. Len(text) : j < i => To(text, j) < To(text, i)}
<1>1. 0 \in S
  BY <1>0
<1>2. ASSUME NEW i \in 1 .. Len(text), i - 1 \in S PROVE i \in S
  <2>1. i \in 0 .. Len(text) /\ i - 1 \in 0 .. Len(text)
    BY <1>0
  <2>2. /\ To(text, i) = To(text, i - 1) + Wd[text[i]] /\ Wd[text[i]] \in Nat \ {0}
        /\ To(text, i - 1) \in Nat /\ To(text, j) \in Nat
    BY <2>1, ToGrows
  <2>3. j < i => j = i - 1 \/ j < i - 1
    BY <2>1
  <2> QED
    BY <1>2, <2>1, <2>2, <2>3
<1> HIDE DEF S
<1>3. \A i \in 0 .. Len(text) : i \in S
  BY <1>0, <1>1, <1>2, UpTo
<1> QED
  BY <1>3 DEF S

\* A caret between two characters is before one of them alone.
LEMMA CaretAt ==
  ASSUME NEW text \in Texts, NEW k \in 0 .. Len(text)
  PROVE  /\ Before(Buffer(text, To(text, k))) = {k}
         /\ At(Buffer(text, To(text, k))) = k
<1> DEFINE b == Buffer(text, To(text, k))
<1>0. b.text = text /\ b.caret = To(text, k)
  BY DEF Buffer
<1> HIDE DEF b
<1>1. \A j \in 0 .. Len(text) : To(text, j) = To(text, k) => j = k
  <2> SUFFICES ASSUME NEW j \in 0 .. Len(text), To(text, j) = To(text, k), j # k PROVE FALSE
    OBVIOUS
  <2>1. To(text, j) \in Nat /\ (j < k \/ k < j)
    BY ToGrows
  <2>2. ~(j < k)
    BY <2>1, ToOrdered
  <2>3. ~(k < j)
    BY <2>1, ToOrdered
  <2> QED
    BY <2>1, <2>2, <2>3
<1>2. Before(b) = {n \in 0 .. Len(text) : To(text, n) = To(text, k)}
  BY <1>0 DEF Before, To
<1>3. Before(b) = {k}
  BY <1>1, <1>2
<1>4. At(b) = k
  BY <1>3 DEF At
<1> QED
  BY <1>3, <1>4 DEF b

\* The text with new in the place of what is between i and j.
Put(text, i, j, new) == SubSeq(text, 1, i) \o new \o SubSeq(text, j + 1, Len(text))

IsPut(r, text, i, j, new) ==
  LET m == i + Len(new)
  IN  /\ r \in Texts /\ Len(r) = m + (Len(text) - j) /\ m \in 0 .. Len(r)
      /\ \A p \in 1 .. i : r[p] = text[p]
      /\ \A p \in 1 .. Len(new) : r[i + p] = new[p]
      /\ \A p \in 1 .. Len(text) - j : r[m + p] = text[j + p]
      /\ SubSeq(r, m + 1, Len(r)) = SubSeq(text, j + 1, Len(text))
      /\ To(r, i) = To(text, i)

LEMMA PutIs ==
  ASSUME NEW text \in Texts, NEW i \in 0 .. Len(text), NEW j \in i .. Len(text), NEW new \in Texts
  PROVE  IsPut(Put(text, i, j, new), text, i, j, new)
<1> DEFINE D == DOMAIN Wd
           n == Len(text)
           l == SubSeq(text, 1, i)
           u == SubSeq(text, j + 1, n)
           r == Put(text, i, j, new)
           m == i + Len(new)
<1>0. n \in Nat /\ Len(new) \in Nat /\ text \in Seq(D) /\ new \in Seq(D) /\ \A p \in 1 .. n : text[p] \in D
  BY LenProperties, ElementOfSeq DEF Texts
<1>1. l \in Seq(D) /\ Len(l) = i /\ \A p \in 1 .. i : l[p] = text[p]
  <2>1. \A p \in 1 .. i : text[p] \in D
    BY <1>0
  <2>2. l \in Seq(D) /\ Len(l) = (IF 1 <= i THEN i - 1 + 1 ELSE 0) /\ \A p \in 1 .. i - 1 + 1 : l[p] = text[1 + p - 1]
    BY <2>1, SubSeqProperties
  <2> QED
    BY <2>2
<1>2. u \in Seq(D) /\ Len(u) = n - j /\ \A p \in 1 .. n - j : u[p] = text[j + p]
  <2>1. j + 1 \in Int /\ n \in Int /\ \A p \in j + 1 .. n : text[p] \in D
    BY <1>0
  <2> HIDE DEF n
  <2>2. u \in Seq(D) /\ Len(u) = (IF j + 1 <= n THEN n - (j + 1) + 1 ELSE 0)
        /\ \A p \in 1 .. n - (j + 1) + 1 : u[p] = text[(j + 1) + p - 1]
    BY <2>1, SubSeqProperties
  <2>3. \A p \in 1 .. n - j : p \in 1 .. n - (j + 1) + 1 /\ (j + 1) + p - 1 = j + p
    BY <1>0
  <2>4. Len(u) = n - j
    BY <1>0, <2>2 DEF n
  <2> QED
    BY <2>2, <2>3, <2>4
<1> HIDE DEF l, u
<1>3. l \o new \in Seq(D) /\ Len(l \o new) = m
      /\ \A p \in 1 .. m : (l \o new)[p] = IF p <= i THEN l[p] ELSE new[p - i]
  BY <1>0, <1>1, ConcatProperties
<1>4. r \in Seq(D) /\ Len(r) = m + (n - j)
      /\ \A p \in 1 .. m + (n - j) : r[p] = IF p <= m THEN (l \o new)[p] ELSE u[p - m]
  <2>1. r = (l \o new) \o u
    BY DEF Put, l, u
  <2> DEFINE w == l \o new
  <2>2. w \in Seq(D) /\ u \in Seq(D) /\ Len(w) = m /\ Len(u) = n - j
    BY <1>2, <1>3
  <2> HIDE DEF r, m, n, w, D
  <2>3. w \o u \in Seq(D) /\ Len(w \o u) = Len(w) + Len(u)
        /\ \A p \in 1 .. Len(w) + Len(u) : (w \o u)[p] = IF p <= Len(w) THEN w[p] ELSE u[p - Len(w)]
    BY <2>2, ConcatProperties
  <2>4. r = w \o u
    BY <2>1 DEF w
  <2> QED
    BY <2>2, <2>3, <2>4 DEF w
<1> HIDE DEF r
<1>5. \A p \in 1 .. i : r[p] = text[p]
  <2>1. \A p \in 1 .. i : p \in 1 .. m /\ p \in 1 .. m + (n - j) /\ p <= i
    BY <1>0
  <2> QED
    BY <2>1, <1>1, <1>3, <1>4
<1>6. ASSUME NEW p \in 1 .. Len(new) PROVE r[i + p] = new[p]
  <2>1. i + p \in 1 .. m /\ i + p \in 1 .. m + (n - j) /\ ~(i + p <= i) /\ (i + p) - i = p
    BY <1>0
  <2>2. (l \o new)[i + p] = new[(i + p) - i]
    BY <2>1, <1>3
  <2>3. r[i + p] = (l \o new)[i + p]
    <3>1. i + p <= m
      BY <2>1
    <3> HIDE DEF m
    <3> QED
      BY <2>1, <3>1, <1>4
  <2> QED
    BY <2>1, <2>2, <2>3
<1>7. \A p \in 1 .. n - j : r[m + p] = text[j + p]
  <2>1. \A p \in 1 .. n - j : m + p \in 1 .. m + (n - j) /\ ~(m + p <= m) /\ (m + p) - m = p
    BY <1>0
  <2> QED
    BY <2>1, <1>2, <1>4
<1>8. m \in 0 .. Len(r)
  BY <1>0, <1>4
<1>9. SubSeq(r, m + 1, Len(r)) = u
  <2> DEFINE v == SubSeq(r, m + 1, Len(r))
  <2>1. m + 1 \in Int /\ Len(r) \in Int /\ \A p \in m + 1 .. Len(r) : r[p] \in D
    BY <1>0, <1>4, ElementOfSeq
  <2>2. v \in Seq(D) /\ Len(v) = (IF m + 1 <= Len(r) THEN Len(r) - (m + 1) + 1 ELSE 0)
        /\ \A p \in 1 .. Len(r) - (m + 1) + 1 : v[p] = r[(m + 1) + p - 1]
    <3> HIDE DEF m
    <3> QED
      BY <2>1, SubSeqProperties
  <2> HIDE DEF v
  <2>3. Len(v) = n - j
    BY <1>0, <1>4, <2>2
  <2>4. \A p \in 1 .. n - j : p \in 1 .. Len(r) - (m + 1) + 1 /\ (m + 1) + p - 1 = m + p
    BY <1>0, <1>4
  <2>5. \A p \in 1 .. n - j : v[p] = u[p]
    BY <1>2, <1>7, <2>2, <2>4
  <2>6. v = u
    BY <1>2, <2>2, <2>3, <2>5, SeqEqual
  <2> QED
    BY <2>6 DEF v
<1>10. To(r, i) = To(text, i)
  <2>1. i \in Nat /\ i <= Len(r) /\ i <= Len(text) /\ \A p \in 1 .. i : r[p] = text[p]
    BY <1>0, <1>4, <1>5
  <2> QED
    BY <2>1, <1>0, <1>4, SamePrefix DEF To
<1> QED
  BY <1>4, <1>5, <1>6, <1>7, <1>8, <1>9, <1>10 DEF IsPut, u, r, Texts

\* e is the text with c after its first k characters.
IsOneMore(e, text, k, c) ==
  /\ e \in Texts /\ Len(e) = Len(text) + 1 /\ e[k + 1] = c
  /\ Put(e, k, k + 1, <<>>) = text

\* What is typed is taken back by Backspace, one character or two.
LEMMA PutBack ==
  ASSUME NEW text \in Texts, NEW k \in 0 .. Len(text), NEW c \in DOMAIN Wd, NEW d \in DOMAIN Wd
  PROVE  /\ IsOneMore(Put(text, k, k, <<c>>), text, k, c)
         /\ Put(Put(text, k, k, <<c, d>>), k + 1, k + 2, <<>>) = Put(text, k, k, <<c>>)
<1> DEFINE n == Len(text)
           e == Put(text, k, k, <<c>>)
           r == Put(text, k, k, <<c, d>>)
           eb == Put(e, k, k + 1, <<>>)
           rb == Put(r, k + 1, k + 2, <<>>)
<1>0. n \in Nat
  BY LenProperties DEF Texts
<1>1. /\ <<c>> \in Texts /\ Len(<<c>>) = 1 /\ <<c>>[1] = c
      /\ <<c, d>> \in Texts /\ Len(<<c, d>>) = 2 /\ <<c, d>>[1] = c /\ <<c, d>>[2] = d
      /\ <<>> \in Texts /\ Len(<<>>) = 0
  BY DEF Texts
<1> DEFINE one == <<c>>
           two == <<c, d>>
<1> HIDE DEF one, two, n
<1>2. /\ e \in Texts /\ Len(e) = n + 1 /\ e[k + 1] = c
      /\ \A p \in 1 .. k : e[p] = text[p]
      /\ \A p \in 1 .. n - k : e[k + 1 + p] = text[k + p]
  <2>1. one \in Texts /\ Len(one) = 1 /\ one[1] = c
    BY <1>1 DEF one
  <2> DEFINE x == Put(text, k, k, one)
  <2>2. /\ x \in Texts /\ Len(x) = (k + Len(one)) + (Len(text) - k)
        /\ \A p \in 1 .. k : x[p] = text[p]
        /\ \A p \in 1 .. Len(one) : x[k + p] = one[p]
        /\ \A p \in 1 .. Len(text) - k : x[(k + Len(one)) + p] = text[k + p]
    <3>1. k \in 0 .. Len(text) /\ k \in k .. Len(text)
      BY <1>0 DEF n
    <3>2. IsPut(x, text, k, k, one)
      BY <2>1, <3>1, PutIs
    <3> HIDE DEF x
    <3> QED
      BY <3>2 DEF IsPut
  <2>3. x = e
    BY DEF one
  <2> HIDE DEF x, e
  <2> QED
    BY <1>0, <2>1, <2>2, <2>3 DEF n
<1>3. /\ r \in Texts /\ Len(r) = n + 2 /\ r[k + 1] = c /\ r[k + 2] = d
      /\ \A p \in 1 .. k : r[p] = text[p]
      /\ \A p \in 1 .. n - k : r[k + 2 + p] = text[k + p]
  <2>1. two \in Texts /\ Len(two) = 2 /\ two[1] = c /\ two[2] = d
    BY <1>1 DEF two
  <2> DEFINE x == Put(text, k, k, two)
  <2>2. /\ x \in Texts /\ Len(x) = (k + Len(two)) + (Len(text) - k)
        /\ \A p \in 1 .. k : x[p] = text[p]
        /\ \A p \in 1 .. Len(two) : x[k + p] = two[p]
        /\ \A p \in 1 .. Len(text) - k : x[(k + Len(two)) + p] = text[k + p]
    <3>1. k \in 0 .. Len(text) /\ k \in k .. Len(text)
      BY <1>0 DEF n
    <3>2. IsPut(x, text, k, k, two)
      BY <2>1, <3>1, PutIs
    <3> HIDE DEF x
    <3> QED
      BY <3>2 DEF IsPut
  <2>3. x = r
    BY DEF two
  <2> HIDE DEF x, r
  <2> QED
    BY <1>0, <2>1, <2>2, <2>3 DEF n
<1> HIDE DEF e, r
<1>4. /\ eb \in Texts /\ Len(eb) = n
      /\ \A p \in 1 .. k : eb[p] = e[p]
      /\ \A p \in 1 .. n - k : eb[k + p] = e[k + 1 + p]
  <2>1. k \in 0 .. Len(e) /\ k + 1 \in k .. Len(e) /\ <<>> \in Texts /\ Len(<<>>) = 0
    BY <1>0, <1>1, <1>2 DEF n
  <2>2. /\ eb \in Texts /\ Len(eb) = (k + Len(<<>>)) + (Len(e) - (k + 1))
        /\ \A p \in 1 .. k : eb[p] = e[p]
        /\ \A p \in 1 .. Len(e) - (k + 1) : eb[(k + Len(<<>>)) + p] = e[(k + 1) + p]
    <3>1. IsPut(eb, e, k, k + 1, <<>>)
      BY <1>2, <2>1, PutIs
    <3> HIDE DEF eb
    <3> QED
      BY <3>1 DEF IsPut
  <2> HIDE DEF eb
  <2> QED
    BY <1>0, <1>2, <2>1, <2>2
<1>5. /\ rb \in Texts /\ Len(rb) = n + 1
      /\ \A p \in 1 .. k + 1 : rb[p] = r[p]
      /\ \A p \in 1 .. n - k : rb[k + 1 + p] = r[k + 2 + p]
  <2>1. k + 1 \in 0 .. Len(r) /\ k + 2 \in k + 1 .. Len(r) /\ <<>> \in Texts /\ Len(<<>>) = 0
    BY <1>0, <1>1, <1>3 DEF n
  <2>2. /\ rb \in Texts /\ Len(rb) = ((k + 1) + Len(<<>>)) + (Len(r) - (k + 2))
        /\ \A p \in 1 .. k + 1 : rb[p] = r[p]
        /\ \A p \in 1 .. Len(r) - (k + 2) : rb[((k + 1) + Len(<<>>)) + p] = r[(k + 2) + p]
    <3>1. IsPut(rb, r, k + 1, k + 2, <<>>)
      BY <1>3, <2>1, PutIs
    <3> HIDE DEF rb
    <3> QED
      BY <3>1 DEF IsPut
  <2> HIDE DEF rb
  <2> QED
    BY <1>0, <1>3, <2>1, <2>2
<1> HIDE DEF eb, rb
<1>6. eb = text
  <2>1. ASSUME NEW p \in 1 .. n PROVE eb[p] = text[p]
    <3>1. CASE p <= k
      BY <3>1, <1>2, <1>4
    <3>2. CASE ~(p <= k)
      <4>1. p - k \in 1 .. n - k /\ k + (p - k) = p
        BY <1>0, <3>2
      <4> QED
        BY <4>1, <1>2, <1>4
    <3> QED
      BY <3>1, <3>2
  <2> QED
    BY <1>4, <2>1, SeqEqual DEF Texts, n
<1>7. rb = e
  <2>1. ASSUME NEW p \in 1 .. n + 1 PROVE rb[p] = e[p]
    <3>1. CASE p <= k
      <4>1. p \in 1 .. k /\ p \in 1 .. k + 1
        BY <3>1
      <4> QED
        BY <4>1, <1>2, <1>3, <1>5
    <3>2. CASE p = k + 1
      <4>1. p \in 1 .. k + 1
        BY <3>2
      <4> QED
        BY <3>2, <4>1, <1>2, <1>3, <1>5
    <3>3. CASE k + 1 < p
      <4>1. p - (k + 1) \in 1 .. n - k /\ k + 1 + (p - (k + 1)) = p
        BY <1>0, <3>3
      <4> QED
        BY <4>1, <1>2, <1>3, <1>5
    <3> QED
      BY <1>0, <3>1, <3>2, <3>3
  <2> QED
    BY <1>2, <1>5, <2>1, SeqEqual DEF Texts
<1>8. IsOneMore(e, text, k, c)
  BY <1>2, <1>6 DEF IsOneMore, eb, n
<1> QED
  BY <1>7, <1>8 DEF e, r, rb

\* The prompt with its caret after k characters, and what each edit makes of it.
Caret(text, k) == Buffer(text, To(text, k))

LEMMA CaretIs ==
  ASSUME NEW text \in Texts, NEW k \in 0 .. Len(text)
  PROVE  /\ Caret(text, k).text = text /\ Caret(text, k).caret = To(text, k)
         /\ Before(Caret(text, k)) = {k} /\ At(Caret(text, k)) = k
BY CaretAt DEF Caret, Buffer

LEMMA TypeIs ==
  ASSUME NEW text \in Texts, NEW k \in 0 .. Len(text), NEW c \in DOMAIN Wd
  PROVE  InsertChar(Caret(text, k), c) = Caret(Put(text, k, k, <<c>>), k + 1)
<1> DEFINE b == Caret(text, k)
           e == Put(text, k, k, <<c>>)
<1>0. Len(text) \in Nat /\ <<c>> \in Texts
  BY LenProperties DEF Texts
<1>1. b.text = text /\ b.caret = To(text, k) /\ At(b) = k
  BY CaretIs
<1>2. InsertChar(b, c) = Buffer(e, To(text, k) + Wd[c])
  BY <1>1 DEF InsertChar, Spliced, Put
<1>3. e \in Texts /\ Len(e) = Len(text) + 1 /\ e[k + 1] = c
  <2>1. IsOneMore(e, text, k, c)
    BY PutBack
  <2> HIDE DEF e
  <2> QED
    BY <2>1 DEF IsOneMore
<1>4. To(e, k) = To(text, k)
  <2> DEFINE one == <<c>>
  <2>1. one \in Texts /\ k \in k .. Len(text)
    BY <1>0
  <2> HIDE DEF one
  <2>2. IsPut(Put(text, k, k, one), text, k, k, one)
    BY <2>1, PutIs
  <2>3. To(Put(text, k, k, one), k) = To(text, k)
    BY <2>2 DEF IsPut
  <2> QED
    BY <2>3 DEF one
<1> HIDE DEF e
<1>5. To(e, k + 1) = To(e, (k + 1) - 1) + Wd[e[k + 1]]
  <2>1. k + 1 \in 1 .. Len(e)
    BY <1>0, <1>3
  <2> QED
    BY <1>3, <2>1, ToGrows
<1>6. (k + 1) - 1 = k
  OBVIOUS
<1>7. To(e, k + 1) = To(text, k) + Wd[c]
  BY <1>3, <1>4, <1>5, <1>6
<1> QED
  BY <1>2, <1>7 DEF Caret, e

LEMMA BackspaceIs ==
  ASSUME NEW text \in Texts, NEW k \in 1 .. Len(text)
  PROVE  Backspace(Caret(text, k)) = Caret(Put(text, k - 1, k, <<>>), k - 1)
<1> DEFINE b == Caret(text, k)
           e == Put(text, k - 1, k, <<>>)
<1>0. Len(text) \in Nat /\ <<>> \in Texts /\ k \in 0 .. Len(text) /\ k # 0 /\ k - 1 \in 0 .. Len(text)
      /\ k \in k - 1 .. Len(text)
  BY LenProperties, EmptySeq DEF Texts
<1>1. b.text = text /\ b.caret = To(text, k) /\ At(b) = k
  BY <1>0, CaretIs
<1>2. Backspace(b) = Buffer(e, To(text, k) - Wd[text[k]])
  BY <1>0, <1>1 DEF Backspace, Spliced, Put
<1>3. To(e, k - 1) = To(text, k - 1)
  <2>1. IsPut(e, text, k - 1, k, <<>>)
    BY <1>0, PutIs
  <2> HIDE DEF e
  <2> QED
    BY <2>1 DEF IsPut
<1> HIDE DEF e
<1>4. To(text, k) = To(text, k - 1) + Wd[text[k]] /\ To(text, k - 1) \in Nat /\ Wd[text[k]] \in Nat
  BY <1>0, ToGrows
<1>5. To(text, k) - Wd[text[k]] = To(e, k - 1)
  BY <1>3, <1>4
<1> QED
  BY <1>2, <1>5 DEF Caret, e

LEMMA BackspaceAtStart == \A text \in Texts : Backspace(Caret(text, 0)) = Caret(text, 0)
<1> SUFFICES ASSUME NEW text \in Texts PROVE Backspace(Caret(text, 0)) = Caret(text, 0)
  OBVIOUS
<1>1. 0 \in 0 .. Len(text)
  BY LenProperties DEF Texts
<1>2. At(Caret(text, 0)) = 0
  BY <1>1, CaretIs
<1> QED
  BY <1>2 DEF Backspace

LEMMA MovesAre ==
  ASSUME NEW text \in Texts, NEW k \in 0 .. Len(text)
  PROVE  /\ MoveHome(Caret(text, k)) = Caret(text, 0)
         /\ MoveEnd(Caret(text, k)) = Caret(text, Len(text))
         /\ MoveLeft(Caret(text, k)) = Caret(text, IF k = 0 THEN 0 ELSE k - 1)
         /\ MoveRight(Caret(text, k)) = Caret(text, IF k = Len(text) THEN k ELSE k + 1)
<1> DEFINE b == Caret(text, k)
<1>0. Len(text) \in Nat
  BY LenProperties DEF Texts
<1>1. b.text = text /\ b.caret = To(text, k) /\ At(b) = k
  BY CaretIs
<1>2. \A c : [b EXCEPT !.caret = c] = Buffer(text, c)
  BY DEF Caret, Buffer
<1>3. To(text, 0) = 0 /\ To(text, Len(text)) = Bytes(text)
  BY ToGrows
<1> HIDE DEF b
<1>4. MoveHome(b) = Caret(text, 0)
  BY <1>2, <1>3 DEF MoveHome, Caret
<1>5. MoveEnd(b) = Caret(text, Len(text))
  BY <1>1, <1>2, <1>3 DEF MoveEnd, Caret
<1>6. MoveLeft(b) = Caret(text, IF k = 0 THEN 0 ELSE k - 1)
  <2>1. CASE k = 0
    BY <1>1, <2>1 DEF MoveLeft, b
  <2>2. CASE k # 0
    <3>1. To(text, k) = To(text, k - 1) + Wd[text[k]] /\ To(text, k - 1) \in Nat /\ Wd[text[k]] \in Nat
      <4>1. k \in 1 .. Len(text) /\ k - 1 \in 0 .. Len(text)
        BY <1>0, <2>2
      <4> QED
        BY <4>1, ToGrows
    <3>2. MoveLeft(b) = Buffer(text, To(text, k) - Wd[text[k]])
      BY <1>1, <1>2, <2>2 DEF MoveLeft
    <3>3. To(text, k) - Wd[text[k]] = To(text, k - 1)
      BY <3>1
    <3> QED
      BY <2>2, <3>2, <3>3 DEF Caret
  <2> QED
    BY <2>1, <2>2
<1>7. MoveRight(b) = Caret(text, IF k = Len(text) THEN k ELSE k + 1)
  <2>1. CASE k = Len(text)
    BY <1>1, <2>1 DEF MoveRight, b
  <2>2. CASE k # Len(text)
    <3>1. k + 1 \in 1 .. Len(text) /\ (k + 1) - 1 = k
      BY <1>0, <2>2
    <3>2. To(text, k + 1) = To(text, (k + 1) - 1) + Wd[text[k + 1]]
      BY <3>1, ToGrows
    <3>3. MoveRight(b) = Buffer(text, To(text, k) + Wd[text[k + 1]])
      BY <1>1, <1>2, <2>2 DEF MoveRight
    <3> QED
      BY <2>2, <3>1, <3>2, <3>3 DEF Caret
  <2> QED
    BY <2>1, <2>2
<1> QED
  BY <1>4, <1>5, <1>6, <1>7 DEF b

\* A tuple, one longer.
LEMMA TupleGrows ==
  ASSUME NEW X, NEW a \in X, NEW b \in X, NEW c \in X, NEW d \in X
  PROVE  /\ Append(<<>>, a) = <<a>> /\ Append(<<a>>, b) = <<a, b>>
         /\ Append(<<a, b>>, c) = <<a, b, c>> /\ Append(<<a, b, c>>, d) = <<a, b, c, d>>
<1> DEFINE s1 == <<a>>
           s2 == <<a, b>>
           s3 == <<a, b, c>>
           s4 == <<a, b, c, d>>
<1>0. <<>> \in Seq(X) /\ Len(<<>>) = 0
  OBVIOUS
<1>1. s1 \in Seq(X) /\ Len(s1) = 1 /\ s1[1] = a
  OBVIOUS
<1>2. s2 \in Seq(X) /\ Len(s2) = 2 /\ s2[1] = a /\ s2[2] = b
  OBVIOUS
<1>3. s3 \in Seq(X) /\ Len(s3) = 3 /\ s3[1] = a /\ s3[2] = b /\ s3[3] = c
  OBVIOUS
<1>4. s4 \in Seq(X) /\ Len(s4) = 4 /\ s4[1] = a /\ s4[2] = b /\ s4[3] = c /\ s4[4] = d
  OBVIOUS
<1> HIDE DEF s1, s2, s3, s4
<1>5. ASSUME NEW s \in Seq(X), NEW x \in X, NEW t \in Seq(X), Len(t) = Len(s) + 1,
             \A i \in 1 .. Len(s) : t[i] = s[i], t[Len(s) + 1] = x
      PROVE  Append(s, x) = t
  <2> DEFINE u == Append(s, x)
  <2>1. u \in Seq(X) /\ Len(u) = Len(s) + 1 /\ (\A i \in 1 .. Len(s) : u[i] = s[i]) /\ u[Len(s) + 1] = x
    BY AppendProperties
  <2>2. Len(s) \in Nat
    BY LenProperties
  <2> HIDE DEF u
  <2>3. \A i \in 1 .. Len(u) : u[i] = t[i]
    BY <1>5, <2>1, <2>2
  <2>4. u = t
    BY <1>5, <2>1, <2>3, SeqEqual
  <2> QED
    BY <2>4 DEF u
<1>6. Append(<<>>, a) = s1
  BY <1>0, <1>1, <1>5
<1>7. Append(s1, b) = s2
  BY <1>1, <1>2, <1>5
<1>8. Append(s2, c) = s3
  <2>1. \A i \in 1 .. Len(s2) : i = 1 \/ i = 2
    BY <1>2
  <2>2. \A i \in 1 .. Len(s2) : s3[i] = s2[i]
    BY <1>2, <1>3, <2>1
  <2>3. Len(s3) = Len(s2) + 1 /\ s3[Len(s2) + 1] = c
    BY <1>2, <1>3
  <2> QED
    BY <1>2, <1>3, <1>5, <2>2, <2>3
<1>9. Append(s3, d) = s4
  <2>1. \A i \in 1 .. Len(s3) : i = 1 \/ i = 2 \/ i = 3
    BY <1>3
  <2>2. \A i \in 1 .. Len(s3) : s4[i] = s3[i]
    BY <1>3, <1>4, <2>1
  <2>3. Len(s4) = Len(s3) + 1 /\ s4[Len(s3) + 1] = d
    BY <1>3, <1>4
  <2> QED
    BY <1>3, <1>4, <1>5, <2>2, <2>3
<1> QED
  BY <1>6, <1>7, <1>8, <1>9 DEF s1, s2, s3, s4

\* A paste of two lines leaves their characters, next to each other.
LEMMA PairSifted ==
  ASSUME NEW c \in DOMAIN Wd, NEW d \in DOMAIN Wd
  PROVE  /\ Sifted(<<"CR", c, "LF", d>>, DOMAIN Wd) = <<c, d>>
         /\ Bytes(<<c, d>>) = Wd[c] + Wd[d] /\ <<c, d>> \in Texts
<1> DEFINE D == DOMAIN Wd
           X == D \cup LineEnds
           t1 == <<"CR">>
           t2 == <<"CR", c>>
           t3 == <<"CR", c, "LF">>
           t4 == <<"CR", c, "LF", d>>
           k1 == <<c>>
           k2 == <<c, d>>
<1>0. "CR" \notin D /\ "LF" \notin D /\ "CR" \in X /\ "LF" \in X /\ c \in X /\ d \in X /\ c \in D /\ d \in D
  BY InputAssumption DEF LineEnds
<1>1. t1 \in Seq(X) /\ t2 \in Seq(X) /\ t3 \in Seq(X) /\ k1 \in Seq(D) /\ k2 \in Seq(D) /\ <<>> \in Seq(X) /\ <<>> \in Seq(D)
  BY <1>0
<1> HIDE DEF D, X
<1>2. Append(<<>>, "CR") = t1 /\ Append(t1, c) = t2 /\ Append(t2, "LF") = t3 /\ Append(t3, d) = t4
  BY <1>0, TupleGrows
<1>3. Append(<<>>, c) = k1 /\ Append(k1, d) = k2
  BY <1>0, TupleGrows
<1> HIDE DEF t1, t2, t3, t4, k1, k2
<1>4. Sifted(t1, D) = <<>>
  <2>1. Sifted(Append(<<>>, "CR"), D) = Sifted(<<>>, D)
    BY <1>0, <1>1, SiftAppend
  <2> QED
    BY <1>2, <2>1, SiftEmpty
<1>5. Sifted(t2, D) = k1
  <2>1. Sifted(Append(t1, c), D) = Append(Sifted(t1, D), c)
    BY <1>0, <1>1, SiftAppend
  <2> QED
    BY <1>2, <1>3, <1>4, <2>1
<1>6. Sifted(t3, D) = k1
  <2>1. Sifted(Append(t2, "LF"), D) = Sifted(t2, D)
    BY <1>0, <1>1, SiftAppend
  <2> QED
    BY <1>2, <1>5, <2>1
<1>7. Sifted(t4, D) = k2
  <2>1. Sifted(Append(t3, d), D) = Append(Sifted(t3, D), d)
    BY <1>0, <1>1, SiftAppend
  <2> QED
    BY <1>2, <1>3, <1>6, <2>1
<1>8. <<>> \in Texts /\ k1 \in Texts /\ k2 \in Texts
  BY <1>1 DEF Texts, D
<1>9. Bytes(Append(<<>>, c)) = Bytes(<<>>) + Wd[c]
  BY <1>8, BytesAppend
<1>10. Bytes(Append(k1, d)) = Bytes(k1) + Wd[d]
  BY <1>8, BytesAppend
<1>11. Wd[c] \in Nat /\ Wd[d] \in Nat
  BY InputAssumption
<1>12. Bytes(k1) = Wd[c]
  BY <1>3, <1>9, <1>11, BytesOfNone
<1>13. Bytes(k2) = Wd[c] + Wd[d]
  BY <1>3, <1>10, <1>12
<1> QED
  BY <1>7, <1>8, <1>13 DEF D, t4, k1, k2

LEMMA PasteIs ==
  ASSUME NEW text \in Texts, NEW k \in 0 .. Len(text), NEW c \in DOMAIN Wd, NEW d \in DOMAIN Wd
  PROVE  PasteText(Caret(text, k), <<"CR", c, "LF", d>>) = Caret(Put(text, k, k, <<c, d>>), k + 2)
<1> DEFINE r == Put(text, k, k, <<c, d>>)
<1> DEFINE b == Caret(text, k)
           two == <<c, d>>
           lines == <<"CR", c, "LF", d>>
<1>0. Len(text) \in Nat /\ Wd[c] \in Nat /\ Wd[d] \in Nat /\ To(text, k) \in Nat
  BY LenProperties, ToGrows, InputAssumption DEF Texts
<1>1. b.text = text /\ b.caret = To(text, k) /\ At(b) = k
  BY CaretIs
<1>2. Sifted(lines, DOMAIN Wd) = two /\ Bytes(two) = Wd[c] + Wd[d] /\ two \in Texts
  BY PairSifted
<1>3. Len(two) = 2 /\ two[1] = c /\ two[2] = d
  OBVIOUS
<1> HIDE DEF two, lines
<1>4. PasteText(b, lines) = Buffer(r, To(text, k) + (Wd[c] + Wd[d]))
  <2>1. r = Put(text, k, k, two)
    BY DEF two
  <2> HIDE DEF r
  <2> QED
    BY <1>1, <1>2, <2>1 DEF PasteText, Spliced, Put
<1>5. IsPut(r, text, k, k, two)
  <2>1. k \in k .. Len(text)
    BY <1>0
  <2>2. IsPut(Put(text, k, k, two), text, k, k, two)
    BY <1>2, <2>1, PutIs
  <2>3. r = Put(text, k, k, two)
    BY DEF two
  <2> HIDE DEF r
  <2> QED
    BY <2>2, <2>3
<1> HIDE DEF r
<1>10. /\ r \in Texts /\ Len(r) = (k + Len(two)) + (Len(text) - k) /\ To(r, k) = To(text, k)
       /\ \A p \in 1 .. Len(two) : r[k + p] = two[p]
  BY <1>5 DEF IsPut
<1>11. Len(r) = Len(text) + 2 /\ r[k + 1] = c /\ r[k + 2] = d
  BY <1>0, <1>3, <1>10
<1>6. k + 1 \in 1 .. Len(r) /\ k + 2 \in 1 .. Len(r) /\ (k + 1) - 1 = k /\ (k + 2) - 1 = k + 1
  BY <1>0, <1>11
<1>7. To(r, k + 1) = To(r, (k + 1) - 1) + Wd[r[k + 1]] /\ To(r, k + 2) = To(r, (k + 2) - 1) + Wd[r[k + 2]]
  BY <1>6, <1>10, ToGrows
<1>8. To(r, k + 2) = (To(text, k) + Wd[c]) + Wd[d]
  BY <1>6, <1>7, <1>10, <1>11
<1>9. To(r, k + 2) = To(text, k) + (Wd[c] + Wd[d])
  BY <1>0, <1>8
<1> QED
  BY <1>4, <1>9 DEF Caret, r, two, lines

\* What follows the caret.
Rest(x) == SubSeq(x.text, At(x) + 1, Len(x.text))

LEMMA RestIs ==
  ASSUME NEW text \in Texts, NEW k \in 0 .. Len(text)
  PROVE  Rest(Caret(text, k)) = SubSeq(text, k + 1, Len(text)) /\ Before(Caret(text, k)) # {}
BY CaretIs DEF Rest

LEMMA TypedIsRight ==
  ASSUME NEW text \in Texts, NEW k \in 0 .. Len(text), NEW c \in DOMAIN Wd
  PROVE  LET b == Caret(text, k)
             x == InsertChar(b, c)
         IN  Before(x) # {} /\ Rest(x) = Rest(b) /\ Backspace(x) = b
<1> DEFINE b == Caret(text, k)
           x == InsertChar(b, c)
           one == <<c>>
           e == Put(text, k, k, one)
<1>0. Len(text) \in Nat /\ k \in k .. Len(text)
  BY LenProperties DEF Texts
<1>1. x = Caret(e, k + 1)
  BY TypeIs
<1>2. one \in Texts /\ Len(one) = 1
  BY DEF Texts
<1>3. e \in Texts /\ Len(e) = Len(text) + 1 /\ Put(e, k, k + 1, <<>>) = text
  <2>1. IsOneMore(e, text, k, c)
    BY PutBack
  <2> HIDE DEF e
  <2> QED
    BY <2>1 DEF IsOneMore
<1> HIDE DEF one
<1>5. IsPut(e, text, k, k, one)
  BY <1>0, <1>2, PutIs
<1> HIDE DEF e
<1>6. SubSeq(e, (k + Len(one)) + 1, Len(e)) = SubSeq(text, k + 1, Len(text))
  BY <1>5 DEF IsPut
<1>7. SubSeq(e, (k + 1) + 1, Len(e)) = SubSeq(text, k + 1, Len(text))
  BY <1>2, <1>6
<1>8. k + 1 \in 0 .. Len(e) /\ k + 1 \in 1 .. Len(e) /\ (k + 1) - 1 = k
  BY <1>0, <1>3
<1>9. Before(x) # {} /\ Rest(x) = SubSeq(e, (k + 1) + 1, Len(e))
  BY <1>1, <1>3, <1>8, RestIs
<1>10. Rest(b) = SubSeq(text, k + 1, Len(text))
  BY RestIs
<1>11. Backspace(Caret(e, k + 1)) = Caret(Put(e, (k + 1) - 1, k + 1, <<>>), (k + 1) - 1)
  BY <1>3, <1>8, BackspaceIs
<1> HIDE DEF x
<1>12. Backspace(x) = b
  BY <1>1, <1>3, <1>8, <1>11
<1> QED
  BY <1>7, <1>9, <1>10, <1>12 DEF x

LEMMA PastedIsRight ==
  ASSUME NEW text \in Texts, NEW k \in 0 .. Len(text), NEW c \in DOMAIN Wd, NEW d \in DOMAIN Wd
  PROVE  LET b == Caret(text, k)
             x == PasteText(b, <<"CR", c, "LF", d>>)
         IN  Before(x) # {} /\ Rest(x) = Rest(b) /\ Backspace(Backspace(x)) = b
<1> DEFINE b == Caret(text, k)
           lines == <<"CR", c, "LF", d>>
           x == PasteText(b, lines)
           one == <<c>>
           two == <<c, d>>
           e == Put(text, k, k, one)
           r == Put(text, k, k, two)
<1>0. Len(text) \in Nat /\ k \in k .. Len(text)
  BY LenProperties DEF Texts
<1>1. x = Caret(r, k + 2)
  BY PasteIs
<1>2. two \in Texts /\ Len(two) = 2
  BY DEF Texts
<1>3. e \in Texts /\ Len(e) = Len(text) + 1 /\ Put(e, k, k + 1, <<>>) = text
  <2>1. IsOneMore(e, text, k, c)
    BY PutBack
  <2> HIDE DEF e
  <2> QED
    BY <2>1 DEF IsOneMore
<1>4. Put(r, k + 1, k + 2, <<>>) = e
  BY PutBack
<1> HIDE DEF one, two, lines
<1>5. IsPut(r, text, k, k, two)
  BY <1>0, <1>2, PutIs
<1> HIDE DEF e, r
<1>6. /\ r \in Texts /\ Len(r) = (k + Len(two)) + (Len(text) - k)
      /\ SubSeq(r, (k + Len(two)) + 1, Len(r)) = SubSeq(text, k + 1, Len(text))
  BY <1>5 DEF IsPut
<1>7. SubSeq(r, (k + 2) + 1, Len(r)) = SubSeq(text, k + 1, Len(text)) /\ Len(r) = Len(text) + 2
  BY <1>0, <1>2, <1>6
<1>8. k + 2 \in 0 .. Len(r) /\ k + 2 \in 1 .. Len(r) /\ (k + 2) - 1 = k + 1
  BY <1>0, <1>7
<1>9. Before(x) # {} /\ Rest(x) = SubSeq(r, (k + 2) + 1, Len(r))
  BY <1>1, <1>6, <1>8, RestIs
<1>10. Rest(b) = SubSeq(text, k + 1, Len(text))
  BY RestIs
<1>11. Backspace(Caret(r, k + 2)) = Caret(Put(r, (k + 2) - 1, k + 2, <<>>), (k + 2) - 1)
  BY <1>6, <1>8, BackspaceIs
<1>12. Backspace(Caret(r, k + 2)) = Caret(e, k + 1)
  BY <1>4, <1>8, <1>11
<1>13. k + 1 \in 1 .. Len(e) /\ (k + 1) - 1 = k
  BY <1>0, <1>3
<1>14. Backspace(Caret(e, k + 1)) = Caret(Put(e, (k + 1) - 1, k + 1, <<>>), (k + 1) - 1)
  BY <1>3, <1>13, BackspaceIs
<1>15. Backspace(Caret(e, k + 1)) = b
  BY <1>3, <1>13, <1>14
<1> HIDE DEF x
<1>16. Backspace(Backspace(x)) = b
  BY <1>1, <1>12, <1>15
<1> QED
  BY <1>7, <1>9, <1>10, <1>16 DEF x, lines

LEMMA BackedIsRight ==
  ASSUME NEW text \in Texts, NEW k \in 0 .. Len(text)
  PROVE  LET b == Caret(text, k)
         IN  Before(Backspace(b)) # {} /\ Rest(Backspace(b)) = Rest(b)
<1> DEFINE b == Caret(text, k)
<1>1. CASE k = 0
  <2>1. Backspace(b) = b
    BY <1>1, BackspaceAtStart
  <2>2. Before(b) # {}
    BY RestIs
  <2> QED
    BY <2>1, <2>2
<1>2. CASE k # 0
  <2> DEFINE e == Put(text, k - 1, k, <<>>)
  <2>0. /\ Len(text) \in Nat /\ k \in 1 .. Len(text) /\ k - 1 \in 0 .. Len(text) /\ k \in k - 1 .. Len(text)
        /\ <<>> \in Texts /\ Len(<<>>) = 0
    BY <1>2, LenProperties, EmptySeq DEF Texts
  <2>1. Backspace(b) = Caret(e, k - 1)
    BY <2>0, BackspaceIs
  <2>2. IsPut(e, text, k - 1, k, <<>>)
    BY <2>0, PutIs
  <2> HIDE DEF e, b
  <2>3. /\ e \in Texts /\ Len(e) = ((k - 1) + Len(<<>>)) + (Len(text) - k)
        /\ SubSeq(e, ((k - 1) + Len(<<>>)) + 1, Len(e)) = SubSeq(text, k + 1, Len(text))
    BY <2>2 DEF IsPut
  <2>4. ((k - 1) + Len(<<>>)) + 1 = (k - 1) + 1 /\ k - 1 \in 0 .. Len(e)
    BY <2>0, <2>3
  <2>5. Before(Caret(e, k - 1)) # {} /\ Rest(Caret(e, k - 1)) = SubSeq(e, (k - 1) + 1, Len(e))
    BY <2>3, <2>4, RestIs
  <2>6. Rest(b) = SubSeq(text, k + 1, Len(text))
    BY RestIs DEF b
  <2>7. SubSeq(e, (k - 1) + 1, Len(e)) = SubSeq(text, k + 1, Len(text))
    BY <2>3, <2>4
  <2>8. Before(Backspace(b)) # {} /\ Rest(Backspace(b)) = Rest(b)
    BY <2>1, <2>5, <2>6, <2>7
  <2> QED
    BY <2>8 DEF b
<1> QED
  BY <1>1, <1>2

\* In a text of any length, an edit leaves the caret between two characters and what is after it as
\* it was, and Backspace takes back what is typed (EditBuffer).
THEOREM CaretIsBetween == CaretBetween
<1> SUFFICES ASSUME NEW n \in 0 .. MaxText, NEW text \in [1 .. n -> DOMAIN Wd], NEW k \in 0 .. n
             PROVE  EditsFit(text, k)
  BY Zenon DEF CaretBetween
<1>0. n \in Nat /\ text \in Texts /\ Len(text) = n /\ k \in 0 .. Len(text) /\ 0 \in 0 .. Len(text) /\ n \in 0 .. Len(text)
  <2>1. n \in Nat
    BY InputAssumption
  <2> QED
    BY <2>1, FunctionIsSeq DEF Texts
<1> DEFINE b == Caret(text, k)
<1>1. \A c \in DOMAIN Wd :
        /\ Before(InsertChar(b, c)) # {} /\ Rest(InsertChar(b, c)) = Rest(b)
        /\ Backspace(InsertChar(b, c)) = b
  BY <1>0, TypedIsRight
<1>2. \A c, d \in DOMAIN Wd :
        LET x == PasteText(b, <<"CR", c, "LF", d>>)
        IN  (Before(x) # {} /\ Rest(x) = Rest(b)) /\ Backspace(Backspace(x)) = b
  BY <1>0, PastedIsRight
<1>3. Before(Backspace(b)) # {} /\ Rest(Backspace(b)) = Rest(b)
  BY <1>0, BackedIsRight
<1>5. /\ MoveHome(b) = Caret(text, 0) /\ MoveEnd(b) = Caret(text, n)
      /\ MoveLeft(b) = Caret(text, IF k = 0 THEN 0 ELSE k - 1)
      /\ MoveRight(b) = Caret(text, IF k = n THEN k ELSE k + 1)
  BY <1>0, MovesAre
<1>6. (IF k = 0 THEN 0 ELSE k - 1) \in 0 .. Len(text) /\ (IF k = n THEN k ELSE k + 1) \in 0 .. Len(text)
  BY <1>0
<1>7. \A j \in 0 .. Len(text) : Before(Caret(text, j)) # {} /\ Caret(text, j).text = text /\ At(Caret(text, j)) = j
  BY <1>0, RestIs, CaretIs
<1>8. /\ Before(MoveHome(b)) # {} /\ Before(MoveEnd(b)) # {} /\ Before(MoveLeft(b)) # {} /\ Before(MoveRight(b)) # {}
      /\ MoveLeft(b).text = text /\ MoveRight(b).text = text
  BY <1>0, <1>5, <1>6, <1>7
<1>9. MoveEnd(b) = Seeded(text)
  <2>1. To(text, Len(text)) = Bytes(text)
    BY <1>0, ToGrows
  <2> QED
    BY <1>0, <1>5, <2>1 DEF Caret, Seeded
<1>10. k > 0 => At(MoveLeft(b)) = k - 1 /\ MoveRight(MoveLeft(b)) = b
  <2> SUFFICES ASSUME k > 0 PROVE At(MoveLeft(b)) = k - 1 /\ MoveRight(MoveLeft(b)) = b
    OBVIOUS
  <2>1. k - 1 \in 0 .. Len(text) /\ k # 0 /\ k - 1 # Len(text) /\ (k - 1) + 1 = k
    BY <1>0
  <2>2. MoveLeft(b) = Caret(text, k - 1)
    BY <1>5, <2>1
  <2>3. MoveRight(Caret(text, k - 1)) = Caret(text, IF k - 1 = Len(text) THEN k - 1 ELSE (k - 1) + 1)
    BY <1>0, <2>1, MovesAre
  <2> QED
    BY <1>7, <2>1, <2>2, <2>3
<1> HIDE DEF b
<1>11. \A x \in Edits(b) : Before(x) # {}
  BY <1>3, <1>8 DEF Edits
<1>12. \A x \in {MoveLeft(b), MoveRight(b)} : x.text = text
  BY <1>8
<1> QED
  BY <1>1, <1>2, <1>3, <1>9, <1>10, <1>11, <1>12, Zenon DEF b, Caret, To, Rest, EditsFit

-----------------------------------------------------------------------------
(* The components of a path.                                               *)

\* Names of entries, and what has been read of a path: the components that are over, and the
\* one that is being read.
EntryNames(C)  == {c \in Seq(C \ {"/"}) : c # <<>> /\ c # <<".">>}
Parsed(C) == Seq(EntryNames(C)) \X Seq(C \ {"/"})

ReadOf(r, x) == IF x = "/" THEN <<Closed(r[1], r[2]), <<>>>> ELSE <<r[1], Append(r[2], x)>>

\* f reads s up to each position.
Reads(f, s) == f = [n \in 0 .. Len(s) |-> IF n = 0 THEN <<<<>>, <<>>>> ELSE ReadOf(f[n - 1], s[n])]

LEMMA ClosedIs == \A C : \A r \in Parsed(C) : Closed(r[1], r[2]) \in Seq(EntryNames(C))
<1> SUFFICES ASSUME NEW C, NEW r \in Parsed(C) PROVE Closed(r[1], r[2]) \in Seq(EntryNames(C))
  OBVIOUS
<1>1. r[1] \in Seq(EntryNames(C)) /\ r[2] \in Seq(C \ {"/"})
  BY DEF Parsed
<1>2. CASE r[2] \in {<<>>, <<".">>}
  BY <1>1, <1>2 DEF Closed
<1>3. CASE r[2] \notin {<<>>, <<".">>}
  <2>1. r[2] \in EntryNames(C)
    BY <1>1, <1>3 DEF EntryNames
  <2> QED
    BY <1>1, <1>3, <2>1, AppendProperties DEF Closed
<1> QED
  BY <1>2, <1>3

LEMMA ReadOfIs == \A C : \A r \in Parsed(C) : \A x \in C : ReadOf(r, x) \in Parsed(C)
<1> SUFFICES ASSUME NEW C, NEW r \in Parsed(C), NEW x \in C PROVE ReadOf(r, x) \in Parsed(C)
  OBVIOUS
<1>1. r[1] \in Seq(EntryNames(C)) /\ r[2] \in Seq(C \ {"/"}) /\ <<>> \in Seq(C \ {"/"})
  BY EmptySeq DEF Parsed
<1>2. CASE x = "/"
  <2>1. Closed(r[1], r[2]) \in Seq(EntryNames(C))
    BY ClosedIs
  <2> QED
    BY <1>1, <1>2, <2>1 DEF ReadOf, Parsed
<1>3. CASE x # "/"
  <2>1. Append(r[2], x) \in Seq(C \ {"/"})
    BY <1>1, <1>3, AppendProperties
  <2> QED
    BY <1>1, <1>3, <2>1 DEF ReadOf, Parsed
<1> QED
  BY <1>2, <1>3

LEMMA ReadRun ==
  ASSUME NEW C, NEW s \in Seq(C)
  PROVE  \E f : /\ Reads(f, s) /\ Read(s) = f[Len(s)]
                /\ \A i \in 0 .. Len(s) : f[i] \in Parsed(C)
<1> DEFINE n == Len(s)
           A == Parsed(C)
           a == <<<<>>, <<>>>>
           step == [p \in A \X (1 .. n) |-> ReadOf(p[1], s[p[2]])]
<1>0. n \in Nat /\ \A i \in 1 .. n : s[i] \in C
  BY LenProperties, ElementOfSeq
<1>4. a \in A
  <2>1. <<>> \in Seq(EntryNames(C)) /\ <<>> \in Seq(C \ {"/"})
    BY EmptySeq
  <2> QED
    BY <2>1 DEF Parsed
<1> HIDE DEF A
<1>1. \A x \in A : \A i \in 1 .. n : step[<<x, i>>] = ReadOf(x, s[i])
  OBVIOUS
<1>2. \A x \in A : \A i \in 1 .. n : step[<<x, i>>] \in A
  BY <1>0, <1>1, ReadOfIs DEF A
<1> HIDE DEF n, step, a
<1>3. PICK f : Runs(f, a, step, n)
  BY <1>0, RunExists
<1>5. \A i \in 0 .. n : f[i] \in A
  BY <1>0, <1>2, <1>3, <1>4, RunStays
<1>6. Reads(f, s)
  <2>1. ASSUME NEW i \in 0 .. n
        PROVE  f[i] = IF i = 0 THEN a ELSE ReadOf(f[i - 1], s[i])
    <3>1. f[i] = IF i = 0 THEN a ELSE step[<<f[i - 1], i>>]
      BY <1>3 DEF Runs
    <3>2. i # 0 => i \in 1 .. n /\ i - 1 \in 0 .. n
      BY <1>0
    <3> QED
      BY <1>1, <1>5, <3>1, <3>2
  <2>2. f = [i \in 0 .. n |-> f[i]]
    BY <1>3 DEF Runs
  <2> QED
    BY <2>1, <2>2 DEF Reads, n, a
<1> DEFINE g == CHOOSE h : Reads(h, s)
<1>7. Reads(g, s)
  BY <1>6
<1>8. Read(s) = g[n]
  BY DEF Read, Reads, ReadOf, n
<1> HIDE DEF g
<1>9. \A i \in 0 .. n : g[i] = f[i]
  <2> DEFINE S == {i \in 0 .. n : g[i] = f[i]}
  <2>1. 0 \in S
    <3>1. 0 \in 0 .. n
      BY <1>0
    <3>2. g[0] = a /\ f[0] = a
      BY <3>1, <1>6, <1>7 DEF Reads, n, a
    <3> QED
      BY <3>1, <3>2
  <2>2. ASSUME NEW i \in 1 .. n, i - 1 \in S PROVE i \in S
    <3>1. i \in 0 .. n /\ i # 0
      BY <1>0
    <3>2. g[i] = ReadOf(g[i - 1], s[i]) /\ f[i] = ReadOf(f[i - 1], s[i])
      BY <3>1, <1>6, <1>7 DEF Reads, n
    <3> QED
      BY <2>2, <3>1, <3>2
  <2> HIDE DEF S
  <2>3. \A i \in 0 .. n : i \in S
    BY <1>0, <2>1, <2>2, UpTo
  <2> QED
    BY <2>3 DEF S
<1>10. n \in 0 .. n
  BY <1>0
<1>11. Read(s) = f[n]
  BY <1>8, <1>9, <1>10
<1> QED
  BY <1>5, <1>6, <1>11 DEF n, A

LEMMA ReadIs == \A C : \A s \in Seq(C) : Read(s) \in Parsed(C)
<1> SUFFICES ASSUME NEW C, NEW s \in Seq(C) PROVE Read(s) \in Parsed(C)
  OBVIOUS
<1>1. PICK f : Read(s) = f[Len(s)] /\ \A i \in 0 .. Len(s) : f[i] \in Parsed(C)
  BY ReadRun
<1>2. Len(s) \in 0 .. Len(s)
  BY LenProperties
<1> QED
  BY <1>1, <1>2

LEMMA ReadNone == Read(<<>>) = <<<<>>, <<>>>>
<1>1. <<>> \in Seq({}) /\ Len(<<>>) = 0
  BY EmptySeq
<1>2. PICK f : Reads(f, <<>>) /\ Read(<<>>) = f[Len(<<>>)]
  BY <1>1, ReadRun
<1>3. f[0] = <<<<>>, <<>>>>
  BY <1>1, <1>2 DEF Reads
<1> QED
  BY <1>1, <1>2, <1>3

LEMMA ReadAppend ==
  ASSUME NEW C, NEW s \in Seq(C), NEW x \in C
  PROVE  Read(Append(s, x)) = ReadOf(Read(s), x)
<1> DEFINE t == Append(s, x)
           n == Len(s)
<1>1. /\ t \in Seq(C) /\ n \in Nat /\ Len(t) = n + 1
      /\ \A i \in 1 .. n : t[i] = s[i]
      /\ t[n + 1] = x
  BY AppendProperties, LenProperties
<1> HIDE DEF t
<1>2. PICK f : Reads(f, s) /\ Read(s) = f[n]
  BY ReadRun
<1>3. PICK g : Reads(g, t) /\ Read(t) = g[n + 1]
  BY <1>1, ReadRun
<1> DEFINE S == {i \in 0 .. n : g[i] = f[i]}
<1>4. 0 \in S
  <2>1. 0 \in 0 .. n /\ 0 \in 0 .. n + 1
    BY <1>1
  <2>2. g[0] = <<<<>>, <<>>>> /\ f[0] = <<<<>>, <<>>>>
    BY <1>1, <1>2, <1>3, <2>1 DEF Reads
  <2> QED
    BY <2>1, <2>2
<1>5. ASSUME NEW i \in 1 .. n, i - 1 \in S PROVE i \in S
  <2>1. i \in 0 .. n + 1 /\ i \in 0 .. n /\ i # 0
    BY <1>1
  <2>2. f[i] = ReadOf(f[i - 1], s[i])
    BY <2>1, <1>2 DEF Reads
  <2>3. g[i] = ReadOf(g[i - 1], t[i])
    BY <2>1, <1>1, <1>3 DEF Reads
  <2> QED
    BY <2>1, <2>2, <2>3, <1>1, <1>5
<1> HIDE DEF S
<1>6. \A i \in 0 .. n : i \in S
  BY <1>1, <1>4, <1>5, UpTo
<1>7. g[n] = f[n]
  <2>1. n \in 0 .. n
    BY <1>1
  <2> QED
    BY <2>1, <1>6 DEF S
<1>8. g[n + 1] = ReadOf(g[(n + 1) - 1], t[n + 1])
  <2>1. n + 1 \in 0 .. n + 1 /\ n + 1 # 0
    BY <1>1
  <2> QED
    BY <2>1, <1>1, <1>3 DEF Reads
<1>9. (n + 1) - 1 = n
  BY <1>1
<1> QED
  BY <1>1, <1>2, <1>3, <1>7, <1>8, <1>9 DEF t

LEMMA ConcatAppend ==
  ASSUME NEW X, NEW s \in Seq(X), NEW u \in Seq(X), NEW x \in X
  PROVE  s \o Append(u, x) = Append(s \o u, x)
<1> DEFINE one == <<x>>
<1>1. one \in Seq(X)
  OBVIOUS
<1>2. s \o u \in Seq(X)
  BY ConcatProperties
<1>3. Append(u, x) = u \o one /\ Append(s \o u, x) = (s \o u) \o one
  BY <1>2, AppendIsConcat
<1> HIDE DEF one
<1>4. (s \o u) \o one = s \o (u \o one)
  BY <1>1, ConcatAssociative
<1> QED
  BY <1>3, <1>4

\* A name is read into the last component.
LEMMA ReadName ==
  ASSUME NEW C, NEW s \in Seq(C), NEW c \in Seq(C \ {"/"})
  PROVE  Read(s \o c) = <<Read(s)[1], Read(s)[2] \o c>>
<1> DEFINE D == C \ {"/"}
           n == Len(c)
           a == Read(s)[1]
           b == Read(s)[2]
           S == {k \in 0 .. n : Read(s \o SubSeq(c, 1, k)) = <<a, b \o SubSeq(c, 1, k)>>}
<1>0. n \in Nat /\ c \in Seq(C) /\ b \in Seq(D) /\ Read(s) = <<a, b>> /\ D \subseteq C
  <2>1. Read(s) \in Parsed(C)
    BY ReadIs
  <2>2. c \in Seq(C)
    BY SeqMonotonic
  <2> QED
    BY <2>1, <2>2, LenProperties DEF Parsed
<1> HIDE DEF a, b, D
<1>1. 0 \in S
  <2>1. SubSeq(c, 1, 0) = <<>>
    BY SubSeqEmpty
  <2>2. s \o <<>> = s /\ b \o <<>> = b
    BY <1>0, ConcatEmptySeq
  <2>3. Read(s \o SubSeq(c, 1, 0)) = <<a, b \o SubSeq(c, 1, 0)>>
    BY <1>0, <2>1, <2>2, Zenon
  <2>4. 0 \in 0 .. n
    BY <1>0
  <2> QED
    BY <2>3, <2>4
<1>2. ASSUME NEW k \in 1 .. n, k - 1 \in S PROVE k \in S
  <2> DEFINE u == SubSeq(c, 1, k - 1)
  <2>1. u \in Seq(D) /\ c[k] \in D /\ SubSeq(c, 1, k) = Append(u, c[k])
    BY PrefixGrows DEF D
  <2>2. Read(s \o u) = <<a, b \o u>>
    BY <1>2
  <2> HIDE DEF u
  <2>3. u \in Seq(C) /\ c[k] \in C /\ c[k] # "/"
    BY <2>1, <1>0, SeqMonotonic DEF D
  <2>4. s \o Append(u, c[k]) = Append(s \o u, c[k]) /\ s \o u \in Seq(C)
    BY <2>3, ConcatAppend, ConcatProperties
  <2>5. b \o Append(u, c[k]) = Append(b \o u, c[k])
    BY <1>0, <2>1, ConcatAppend
  <2>6. Read(Append(s \o u, c[k])) = ReadOf(Read(s \o u), c[k])
    BY <2>3, <2>4, ReadAppend
  <2>7. Read(Append(s \o u, c[k])) = <<a, Append(b \o u, c[k])>>
    BY <2>2, <2>3, <2>6 DEF ReadOf
  <2>8. k \in 0 .. n
    BY <1>0
  <2> QED
    BY <2>1, <2>4, <2>5, <2>7, <2>8
<1> HIDE DEF S, n
<1>3. n \in S
  <2>1. \A k \in 0 .. n : k \in S
    BY <1>0, <1>1, <1>2, UpTo
  <2> QED
    BY <1>0, <2>1
<1>4. SubSeq(c, 1, n) = c
  BY SubSeqFull DEF n
<1> QED
  BY <1>3, <1>4 DEF S, a, b

-----------------------------------------------------------------------------
(* ".." of an absolute path.                                               *)

CleanOf(out, c) == IF c # Up THEN Append(out, c)
                   ELSE IF out # <<>> /\ out[Len(out)] # Up THEN SubSeq(out, 1, Len(out) - 1) ELSE out

\* f cleans comps up to each of them.
Cleans(f, comps) == f = [n \in 0 .. Len(comps) |-> IF n = 0 THEN <<>> ELSE CleanOf(f[n - 1], comps[n])]

LEMMA CleanOfIs == \A N : \A out \in Seq(N \ {Up}) : \A c \in N : CleanOf(out, c) \in Seq(N \ {Up})
<1> SUFFICES ASSUME NEW N, NEW out \in Seq(N \ {Up}), NEW c \in N PROVE CleanOf(out, c) \in Seq(N \ {Up})
  OBVIOUS
<1> DEFINE M == N \ {Up}
<1>1. c # Up => Append(out, c) \in Seq(M)
  BY AppendProperties
<1>2. SubSeq(out, 1, Len(out) - 1) \in Seq(M)
  <2>1. Len(out) \in Nat
    BY LenProperties
  <2>2. \A i \in 1 .. Len(out) - 1 : out[i] \in M
    BY <2>1, ElementOfSeq
  <2> HIDE DEF M
  <2> QED
    BY <2>1, <2>2, SubSeqProperties
<1> QED
  BY <1>1, <1>2 DEF CleanOf

LEMMA CleanRun ==
  ASSUME NEW N, NEW comps \in Seq(N)
  PROVE  \E f : /\ Cleans(f, comps) /\ LexicalClean(TRUE, comps) = f[Len(comps)]
                /\ \A i \in 0 .. Len(comps) : f[i] \in Seq(N \ {Up})
<1> DEFINE n == Len(comps)
           A == Seq(N \ {Up})
           a == <<>>
           step == [p \in A \X (1 .. n) |-> CleanOf(p[1], comps[p[2]])]
<1>0. n \in Nat /\ \A i \in 1 .. n : comps[i] \in N
  BY LenProperties, ElementOfSeq
<1>4. a \in A
  BY EmptySeq
<1> HIDE DEF A
<1>1. \A x \in A : \A i \in 1 .. n : step[<<x, i>>] = CleanOf(x, comps[i])
  OBVIOUS
<1>2. \A x \in A : \A i \in 1 .. n : step[<<x, i>>] \in A
  BY <1>0, <1>1, CleanOfIs DEF A
<1> HIDE DEF n, step, a
<1>3. PICK f : Runs(f, a, step, n)
  BY <1>0, RunExists
<1>5. \A i \in 0 .. n : f[i] \in A
  BY <1>0, <1>2, <1>3, <1>4, RunStays
<1>6. Cleans(f, comps)
  <2>1. ASSUME NEW i \in 0 .. n
        PROVE  f[i] = IF i = 0 THEN a ELSE CleanOf(f[i - 1], comps[i])
    <3>1. f[i] = IF i = 0 THEN a ELSE step[<<f[i - 1], i>>]
      BY <1>3 DEF Runs
    <3>2. i # 0 => i \in 1 .. n /\ i - 1 \in 0 .. n
      BY <1>0
    <3> QED
      BY <1>1, <1>5, <3>1, <3>2
  <2>2. f = [i \in 0 .. n |-> f[i]]
    BY <1>3 DEF Runs
  <2> QED
    BY <2>1, <2>2 DEF Cleans, n, a
<1> DEFINE g == CHOOSE h : Cleans(h, comps)
<1>7. Cleans(g, comps)
  BY <1>6
<1>8. LexicalClean(TRUE, comps) = g[n]
  BY DEF LexicalClean, Cleans, CleanOf, n
<1> HIDE DEF g
<1>9. \A i \in 0 .. n : g[i] = f[i]
  <2> DEFINE S == {i \in 0 .. n : g[i] = f[i]}
  <2>1. 0 \in S
    <3>1. 0 \in 0 .. n
      BY <1>0
    <3>2. g[0] = a /\ f[0] = a
      BY <3>1, <1>6, <1>7 DEF Cleans, n, a
    <3> QED
      BY <3>1, <3>2
  <2>2. ASSUME NEW i \in 1 .. n, i - 1 \in S PROVE i \in S
    <3>1. i \in 0 .. n /\ i # 0
      BY <1>0
    <3>2. g[i] = CleanOf(g[i - 1], comps[i]) /\ f[i] = CleanOf(f[i - 1], comps[i])
      BY <3>1, <1>6, <1>7 DEF Cleans, n
    <3> QED
      BY <2>2, <3>1, <3>2
  <2> HIDE DEF S
  <2>3. \A i \in 0 .. n : i \in S
    BY <1>0, <2>1, <2>2, UpTo
  <2> QED
    BY <2>3 DEF S
<1>10. n \in 0 .. n
  BY <1>0
<1>11. LexicalClean(TRUE, comps) = f[n]
  BY <1>8, <1>9, <1>10
<1> QED
  BY <1>5, <1>6, <1>11 DEF n, A

\* It leaves no "..", and a path without one as it is.
LEMMA CleanIs == \A N : \A comps \in Seq(N) : LexicalClean(TRUE, comps) \in Seq(N \ {Up})
<1> SUFFICES ASSUME NEW N, NEW comps \in Seq(N) PROVE LexicalClean(TRUE, comps) \in Seq(N \ {Up})
  OBVIOUS
<1>1. PICK f : LexicalClean(TRUE, comps) = f[Len(comps)] /\ \A i \in 0 .. Len(comps) : f[i] \in Seq(N \ {Up})
  BY CleanRun
<1>2. Len(comps) \in 0 .. Len(comps)
  BY LenProperties
<1> QED
  BY <1>1, <1>2

LEMMA CleanStays == \A N : \A comps \in Seq(N \ {Up}) : LexicalClean(TRUE, comps) = comps
<1> SUFFICES ASSUME NEW N, NEW comps \in Seq(N \ {Up}) PROVE LexicalClean(TRUE, comps) = comps
  OBVIOUS
<1> DEFINE n == Len(comps)
<1>0. n \in Nat
  BY LenProperties
<1>1. PICK f : Cleans(f, comps) /\ LexicalClean(TRUE, comps) = f[n]
  BY CleanRun
<1> DEFINE S == {k \in 0 .. n : f[k] = SubSeq(comps, 1, k)}
<1>2. 0 \in S
  <2>1. 0 \in 0 .. n /\ SubSeq(comps, 1, 0) = <<>>
    BY <1>0, SubSeqEmpty
  <2> QED
    BY <1>1, <2>1 DEF Cleans
<1>3. ASSUME NEW k \in 1 .. n, k - 1 \in S PROVE k \in S
  <2>1. k \in 0 .. n /\ k # 0
    BY <1>0
  <2>2. f[k] = CleanOf(f[k - 1], comps[k])
    BY <1>1, <2>1 DEF Cleans
  <2>3. comps[k] # Up /\ SubSeq(comps, 1, k) = Append(SubSeq(comps, 1, k - 1), comps[k])
    BY PrefixGrows
  <2> QED
    BY <1>3, <2>1, <2>2, <2>3 DEF CleanOf
<1> HIDE DEF S, n
<1>4. n \in S
  <2>1. \A k \in 0 .. n : k \in S
    BY <1>0, <1>2, <1>3, UpTo
  <2> QED
    BY <1>0, <2>1
<1>5. SubSeq(comps, 1, n) = comps
  BY SubSeqFull DEF n
<1> QED
  BY <1>1, <1>4, <1>5 DEF S

-----------------------------------------------------------------------------
(* The text of an absolute path.                                           *)

Slash == <<"/">>

\* f writes comps up to each of them.
Writes(f, comps) ==
  f = [n \in 0 .. Len(comps) |-> IF n = 0 THEN <<>> ELSE (f[n - 1] \o Slash) \o comps[n]]

LEMMA SlashIs == \A C : "/" \in C => Slash \in Seq(C) /\ Len(Slash) = 1 /\ Slash[1] = "/"
BY DEF Slash

LEMMA WriteStep ==
  ASSUME NEW C, "/" \in C, NEW x \in Seq(C), NEW c \in EntryNames(C)
  PROVE  (x \o Slash) \o c \in Seq(C) /\ c \in Seq(C) /\ x \o Slash \in Seq(C)
<1>1. Slash \in Seq(C)
  BY SlashIs
<1>2. c \in Seq(C \ {"/"})
  BY DEF EntryNames
<1>3. c \in Seq(C)
  BY <1>2, SeqMonotonic
<1>4. x \o Slash \in Seq(C)
  BY <1>1, ConcatProperties
<1> QED
  BY <1>3, <1>4, ConcatProperties

LEMMA WriteRun ==
  ASSUME NEW C, "/" \in C, NEW comps \in Seq(EntryNames(C))
  PROVE  \E f : /\ Writes(f, comps)
                /\ comps # <<>> => Text(TRUE, comps) = f[Len(comps)]
                /\ \A i \in 0 .. Len(comps) : f[i] \in Seq(C)
<1> DEFINE n == Len(comps)
           A == Seq(C)
           a == <<>>
           step == [p \in A \X (1 .. n) |-> (p[1] \o Slash) \o comps[p[2]]]
<1>0. n \in Nat /\ \A i \in 1 .. n : comps[i] \in EntryNames(C)
  BY LenProperties, ElementOfSeq
<1>4. a \in A
  BY EmptySeq
<1>12. \A x \in A : \A i \in 1 .. n : (x \o Slash) \o comps[i] \in A
  BY <1>0, WriteStep
<1> HIDE DEF A
<1>1. \A x \in A : \A i \in 1 .. n : step[<<x, i>>] = (x \o Slash) \o comps[i]
  OBVIOUS
<1>2. \A x \in A : \A i \in 1 .. n : step[<<x, i>>] \in A
  BY <1>1, <1>12
<1> HIDE DEF n, step, a
<1>3. PICK f : Runs(f, a, step, n)
  BY <1>0, RunExists
<1>5. \A i \in 0 .. n : f[i] \in A
  BY <1>0, <1>2, <1>3, <1>4, RunStays
<1>6. Writes(f, comps)
  <2>1. ASSUME NEW i \in 0 .. n
        PROVE  f[i] = IF i = 0 THEN a ELSE (f[i - 1] \o Slash) \o comps[i]
    <3>1. f[i] = IF i = 0 THEN a ELSE step[<<f[i - 1], i>>]
      BY <1>3 DEF Runs
    <3>2. i # 0 => i \in 1 .. n /\ i - 1 \in 0 .. n
      BY <1>0
    <3> QED
      BY <1>1, <1>5, <3>1, <3>2
  <2>2. f = [i \in 0 .. n |-> f[i]]
    BY <1>3 DEF Runs
  <2> QED
    BY <2>1, <2>2 DEF Writes, n, a
<1> DEFINE Spells(h) == h = [i \in 0 .. n |-> IF i = 0 THEN <<>>
                               ELSE h[i - 1] \o (IF i > 1 \/ TRUE THEN <<"/">> ELSE <<>>) \o comps[i]]
           g == CHOOSE h : Spells(h)
<1>13. Spells(f)
  <2>1. \A i \in 0 .. n : (IF i > 1 \/ TRUE THEN <<"/">> ELSE <<>>) = Slash
    BY DEF Slash
  <2> QED
    BY <1>6, <2>1 DEF Writes, n
<1>7. Spells(g)
  BY <1>13
<1>8. comps # <<>> => Text(TRUE, comps) = g[n]
  BY DEF Text, n
<1> HIDE DEF g
<1>9. \A i \in 0 .. n : g[i] = f[i]
  <2> DEFINE S == {i \in 0 .. n : g[i] = f[i]}
  <2>1. 0 \in S
    <3>1. 0 \in 0 .. n
      BY <1>0
    <3>2. g[0] = <<>> /\ f[0] = <<>>
      BY <3>1, <1>13, <1>7
    <3> QED
      BY <3>1, <3>2
  <2>2. ASSUME NEW i \in 1 .. n, i - 1 \in S PROVE i \in S
    <3>1. i \in 0 .. n /\ i # 0
      BY <1>0
    <3>2. /\ g[i] = g[i - 1] \o (IF i > 1 \/ TRUE THEN <<"/">> ELSE <<>>) \o comps[i]
          /\ f[i] = f[i - 1] \o (IF i > 1 \/ TRUE THEN <<"/">> ELSE <<>>) \o comps[i]
      BY <3>1, <1>13, <1>7
    <3> QED
      BY <2>2, <3>1, <3>2
  <2> HIDE DEF S
  <2>3. \A i \in 0 .. n : i \in S
    BY <1>0, <2>1, <2>2, UpTo
  <2> QED
    BY <2>3 DEF S
<1>10. n \in 0 .. n
  BY <1>0
<1>11. comps # <<>> => Text(TRUE, comps) = f[n]
  BY <1>8, <1>9, <1>10
<1> QED
  BY <1>5, <1>6, <1>11 DEF n, A

\* It begins with a slash, and is read as the components it was written from.
LEMMA TextIs ==
  ASSUME NEW C, "/" \in C, NEW comps \in Seq(EntryNames(C))
  PROVE  /\ Text(TRUE, comps) \in Seq(C) /\ Absolute(Text(TRUE, comps))
         /\ Components(Text(TRUE, comps)) = comps
<1> DEFINE n == Len(comps)
<1>0. n \in Nat /\ \A i \in 1 .. n : comps[i] \in EntryNames(C)
  BY LenProperties, ElementOfSeq
<1>1. Slash \in Seq(C) /\ <<>> \in Seq(C) /\ Len(Slash) = 1 /\ Slash[1] = "/"
  BY SlashIs, EmptySeq
<1>2. CASE comps = <<>>
  <2>1. Text(TRUE, comps) = Slash
    BY <1>2 DEF Text, Slash
  <2>2. Append(<<>>, "/") = Slash
    BY DEF Slash
  <2>3. Read(Slash) = ReadOf(<<<<>>, <<>>>>, "/")
    BY <1>1, <2>2, ReadAppend, ReadNone
  <2>4. Read(Slash) = <<<<>>, <<>>>>
    BY <2>3 DEF ReadOf, Closed
  <2>5. Components(Slash) = <<>>
    BY <2>4 DEF Components, Closed
  <2>6. Absolute(Slash)
    BY DEF Absolute, Slash
  <2> QED
    BY <1>1, <1>2, <2>1, <2>5, <2>6
<1>3. CASE comps # <<>>
  <2>0. n \in 1 .. n
    BY <1>0, <1>3, EmptySeq
  <2>1. PICK f : /\ Writes(f, comps) /\ Text(TRUE, comps) = f[n]
                 /\ \A i \in 0 .. n : f[i] \in Seq(C)
    BY <1>3, WriteRun
  <2>2. f[0] = <<>> /\ \A i \in 1 .. n : f[i] = (f[i - 1] \o Slash) \o comps[i]
    <3>1. 0 \in 0 .. n /\ \A i \in 1 .. n : i \in 0 .. n /\ i # 0
      BY <1>0
    <3> QED
      BY <2>1, <3>1 DEF Writes
  <2> HIDE DEF n
  <2> DEFINE S == {k \in 0 .. n : Components(f[k]) = SubSeq(comps, 1, k)}
  <2>3. 0 \in S
    <3>1. Components(<<>>) = <<>>
      BY ReadNone DEF Components, Closed
    <3>2. SubSeq(comps, 1, 0) = <<>> /\ 0 \in 0 .. n
      BY <1>0, SubSeqEmpty
    <3> QED
      BY <2>2, <3>1, <3>2
  <2>4. ASSUME NEW k \in 1 .. n, k - 1 \in S PROVE k \in S
    <3> DEFINE x == f[k - 1]
               c == comps[k]
    <3>1. x \in Seq(C) /\ c \in EntryNames(C) /\ Components(x) = SubSeq(comps, 1, k - 1) /\ k \in 0 .. n
      BY <1>0, <2>1, <2>4
    <3>2. f[k] = (x \o Slash) \o c
      BY <2>2
    <3> HIDE DEF x, c
    <3>3. x \o Slash \in Seq(C) /\ x \o Slash = Append(x, "/") /\ c \in Seq(C \ {"/"}) /\ c # <<>> /\ c # <<".">>
      BY <3>1, WriteStep, AppendIsConcat DEF Slash, EntryNames
    <3>4. Read(x \o Slash) = <<Components(x), <<>>>>
      <4>1. Read(Append(x, "/")) = ReadOf(Read(x), "/")
        BY <3>1, ReadAppend
      <4> QED
        BY <3>3, <4>1 DEF ReadOf, Components
    <3>5. Read(f[k]) = <<Components(x), c>>
      <4>1. Read((x \o Slash) \o c) = <<Read(x \o Slash)[1], Read(x \o Slash)[2] \o c>>
        BY <3>3, ReadName
      <4>2. <<>> \o c = c
        BY <3>3, ConcatEmptySeq
      <4> QED
        BY <3>2, <3>4, <4>1, <4>2
    <3>6. Components(f[k]) = Append(Components(x), c)
      BY <3>3, <3>5 DEF Components, Closed
    <3>7. SubSeq(comps, 1, k) = Append(SubSeq(comps, 1, k - 1), comps[k])
      BY PrefixGrows DEF n
    <3> QED
      BY <3>1, <3>6, <3>7 DEF c
  <2> HIDE DEF S
  <2>5. Components(f[n]) = SubSeq(comps, 1, n)
    <3>1. \A k \in 0 .. n : k \in S
      BY <1>0, <2>3, <2>4, UpTo
    <3> QED
      BY <1>0, <3>1 DEF S
  <2>6. SubSeq(comps, 1, n) = comps
    BY SubSeqFull DEF n
  <2> DEFINE T == {k \in 0 .. n : k = 0 \/ Absolute(f[k])}
  <2>7. 0 \in T
    BY <1>0
  <2>8. ASSUME NEW k \in 1 .. n, k - 1 \in T PROVE k \in T
    <3> DEFINE x == f[k - 1]
               c == comps[k]
               y == x \o Slash
    <3>1. x \in Seq(C) /\ c \in EntryNames(C) /\ k \in 0 .. n /\ (x = <<>> \/ Absolute(x))
      BY <1>0, <2>1, <2>2, <2>8
    <3>2. f[k] = y \o c
      BY <2>2
    <3> HIDE DEF x, c
    <3>3. y \in Seq(C) /\ c \in Seq(C)
      BY <3>1, WriteStep
    <3>4. Len(y) = Len(x) + 1 /\ Len(x) \in Nat /\ y[1] = IF 1 <= Len(x) THEN x[1] ELSE Slash[1 - Len(x)]
      <4>1. Len(x) \in Nat /\ 1 \in 1 .. Len(x) + Len(Slash)
        BY <1>1, <3>1, LenProperties
      <4>2. Len(x \o Slash) = Len(x) + Len(Slash)
            /\ \A i \in 1 .. Len(x) + Len(Slash) : (x \o Slash)[i] = IF i <= Len(x) THEN x[i] ELSE Slash[i - Len(x)]
        BY <1>1, <3>1, ConcatProperties
      <4> QED
        BY <1>1, <4>1, <4>2
    <3>5. y[1] = "/"
      <4>1. CASE x = <<>>
        <5>1. Len(x) = 0
          BY <4>1
        <5> QED
          BY <1>1, <3>4, <5>1
      <4>2. CASE x # <<>>
        <5>1. 1 <= Len(x) /\ x[1] = "/"
          BY <3>1, <4>2, EmptySeq DEF Absolute
        <5> QED
          BY <3>4, <5>1
      <4> QED
        BY <4>1, <4>2
    <3> HIDE DEF y
    <3>6. (y \o c)[1] = y[1] /\ Len(y \o c) # 0
      <4>1. Len(c) \in Nat /\ 1 <= Len(y) /\ Len(y) \in Nat /\ 1 \in 1 .. Len(y) + Len(c)
        BY <3>3, <3>4, LenProperties
      <4>2. Len(y \o c) = Len(y) + Len(c)
            /\ \A i \in 1 .. Len(y) + Len(c) : (y \o c)[i] = IF i <= Len(y) THEN y[i] ELSE c[i - Len(y)]
        BY <3>3, ConcatProperties
      <4> QED
        BY <4>1, <4>2
    <3>7. y \o c # <<>>
      BY <3>6
    <3> QED
      BY <3>1, <3>2, <3>5, <3>6, <3>7 DEF Absolute
  <2> HIDE DEF T
  <2>9. Absolute(f[n])
    <3>1. \A k \in 0 .. n : k \in T
      BY <1>0, <2>7, <2>8, UpTo
    <3>2. n \in T /\ n # 0
      BY <1>0, <2>0, <3>1
    <3> QED
      BY <3>2 DEF T
  <2>10. f[n] \in Seq(C)
    BY <1>0, <2>1
  <2> QED
    BY <2>1, <2>5, <2>6, <2>9, <2>10
<1> QED
  BY <1>2, <1>3

\* A directory that is cleaned is clean: absolute, without "..", and cleaned to itself.
LEMMA CleanPath ==
  ASSUME NEW C, "/" \in C, NEW s \in Seq(C), Absolute(s)
  PROVE  /\ Clean(s) \in Seq(C) /\ Absolute(Clean(s)) /\ Clean(Clean(s)) = Clean(s)
         /\ \A n \in DOMAIN Components(Clean(s)) : Components(Clean(s))[n] # Up
<1> DEFINE N == EntryNames(C)
           comps == LexicalClean(TRUE, Components(s))
           p == Text(TRUE, comps)
<1>1. Components(s) \in Seq(N)
  BY ReadIs, ClosedIs DEF Components
<1>2. comps \in Seq(N \ {Up})
  BY <1>1, CleanIs
<1>3. Clean(s) = p
  BY DEF Clean
<1> HIDE DEF comps, N
<1>4. comps \in Seq(N)
  BY <1>2, SeqMonotonic
<1>5. p \in Seq(C) /\ Absolute(p) /\ Components(p) = comps
  BY <1>4, TextIs DEF N
<1> HIDE DEF p
<1>6. Clean(p) = p
  <2>1. LexicalClean(TRUE, comps) = comps
    BY <1>2, CleanStays
  <2> QED
    BY <1>5, <2>1 DEF Clean, p
<1>7. \A n \in DOMAIN comps : comps[n] # Up
  <2>1. \A n \in 1 .. Len(comps) : comps[n] \in N \ {Up}
    BY <1>2, ElementOfSeq
  <2>2. DOMAIN comps = 1 .. Len(comps)
    BY <1>2, LenProperties
  <2> QED
    BY <2>1, <2>2
<1> QED
  BY <1>3, <1>5, <1>6, <1>7

\* A slash at its end is nothing.
LEMMA CleanSlash ==
  ASSUME NEW C, "/" \in C, NEW s \in Seq(C), Absolute(s)
  PROVE  s \o Slash \in Seq(C) /\ Absolute(s \o Slash) /\ Clean(s \o Slash) = Clean(s)
<1>0. Slash \in Seq(C) /\ Len(Slash) = 1
  BY SlashIs
<1>1. s \o Slash = Append(s, "/")
  BY AppendIsConcat DEF Slash
<1> DEFINE t == Append(s, "/")
<1>2. t \in Seq(C) /\ t # <<>> /\ \A i \in 1 .. Len(s) : t[i] = s[i]
  BY AppendProperties
<1>3. 1 \in 1 .. Len(s)
  BY EmptySeq DEF Absolute
<1>4. Read(t) = ReadOf(Read(s), "/")
  BY ReadAppend
<1> HIDE DEF t
<1>5. Absolute(t)
  BY <1>2, <1>3 DEF Absolute
<1>6. Components(t) = Components(s)
  BY <1>4 DEF Components, ReadOf, Closed
<1>7. Clean(t) = Clean(s)
  BY <1>5, <1>6 DEF Clean
<1> QED
  BY <1>1, <1>2, <1>5, <1>7 DEF t

-----------------------------------------------------------------------------
(* "~".                                                                    *)

Tilde == <<"~">>

\* "~" is the home again.
LEMMA TildeBack ==
  ASSUME NEW C, "~" \in C, NEW home \in Seq(C), home # NoHome, NEW rest \in Seq(C), AtBoundary(rest)
  PROVE  ExpandTilde(home, Tilde \o rest) = home \o rest
<1> DEFINE s == Tilde \o rest
<1>1. Tilde \in Seq(C) /\ Len(Tilde) = 1 /\ Tilde[1] = "~" /\ Len(rest) \in Nat
  BY LenProperties DEF Tilde
<1>2. s \in Seq(C) /\ Len(s) = 1 + Len(rest)
      /\ \A i \in 1 .. 1 + Len(rest) : s[i] = IF i <= 1 THEN Tilde[i] ELSE rest[i - 1]
  <2>1. Tilde \o rest \in Seq(C) /\ Len(Tilde \o rest) = Len(Tilde) + Len(rest)
        /\ \A i \in 1 .. Len(Tilde) + Len(rest) : (Tilde \o rest)[i] = IF i <= Len(Tilde) THEN Tilde[i] ELSE rest[i - Len(Tilde)]
    BY <1>1, ConcatProperties
  <2> QED
    BY <1>1, <2>1
<1> HIDE DEF s
<1>3. s # <<>> /\ s[1] = "~"
  <2>1. 1 \in 1 .. 1 + Len(rest) /\ Len(s) # 0
    BY <1>1, <1>2
  <2> QED
    BY <1>1, <1>2, <2>1
<1>4. Len(s) = 1 \/ s[2] = "/"
  <2>1. CASE rest = <<>>
    BY <1>2, <2>1
  <2>2. CASE rest # <<>>
    <3>1. rest[1] = "/" /\ 2 \in 1 .. 1 + Len(rest) /\ 2 - 1 = 1
      BY <1>1, <2>2, EmptySeq DEF AtBoundary
    <3> QED
      BY <1>2, <3>1
  <2> QED
    BY <2>1, <2>2
<1>5. From(s, 2) = rest
  <2> DEFINE u == SubSeq(s, 2, Len(s))
  <2>1. 2 \in Int /\ Len(s) \in Int /\ \A i \in 2 .. Len(s) : s[i] \in C
    BY <1>1, <1>2, ElementOfSeq
  <2>2. u \in Seq(C) /\ Len(u) = (IF 2 <= Len(s) THEN Len(s) - 2 + 1 ELSE 0)
        /\ \A i \in 1 .. Len(s) - 2 + 1 : u[i] = s[2 + i - 1]
    BY <2>1, SubSeqProperties
  <2> HIDE DEF u
  <2>3. Len(u) = Len(rest)
    BY <1>1, <1>2, <2>2
  <2>4. \A i \in 1 .. Len(rest) : i \in 1 .. Len(s) - 2 + 1 /\ 2 + i - 1 = i + 1 /\ i + 1 \in 1 .. 1 + Len(rest)
                                  /\ ~(i + 1 <= 1) /\ (i + 1) - 1 = i
    BY <1>1, <1>2
  <2>5. \A i \in 1 .. Len(u) : u[i] = rest[i]
    BY <1>2, <2>2, <2>3, <2>4
  <2>6. u = rest
    BY <2>2, <2>3, <2>5, SeqEqual
  <2> QED
    BY <2>6 DEF From, u
<1> QED
  BY <1>3, <1>4, <1>5 DEF ExpandTilde, s

LEMMA NoTilde == \A home, s : Absolute(s) => ExpandTilde(home, s) = s
BY DEF ExpandTilde, Absolute

\* What a label is: the path, or "~" and what follows the home.
LEMMA LossyText ==
  ASSUME NEW C, NEW s \in Seq(C), IsText(s)
  PROVE  Lossy(s) = s
<1>1. \A n \in 1 .. Len(s) : s[n] \notin Invalid
  BY LenProperties DEF IsText
<1>2. Lossy(s) = [n \in 1 .. Len(s) |-> s[n]]
  BY <1>1, LenProperties DEF Lossy
<1>3. s = [n \in 1 .. Len(s) |-> s[n]]
  BY LenProperties, SeqDef
<1> QED
  BY <1>2, <1>3

LEMMA LabelIs ==
  ASSUME NEW C, NEW home \in Seq(C) \cup {NoHome}, NEW s \in Seq(C), IsText(s)
  PROVE  \/ Abbreviate(home, s) = s
         \/ /\ home # NoHome /\ home \in Seq(C)
            /\ \E rest \in Seq(C) : AtBoundary(rest) /\ s = home \o rest /\ Abbreviate(home, s) = Tilde \o rest
<1> DEFINE rest == From(s, Len(home) + 1)
<1>0. Lossy(s) = s
  BY LossyText
<1> SUFFICES ASSUME home \notin {NoHome, <<>>}, Prefixed(home, s), AtBoundary(rest)
             PROVE  \E r \in Seq(C) : AtBoundary(r) /\ s = home \o r /\ Abbreviate(home, s) = Tilde \o r
  BY <1>0 DEF Abbreviate
<1>1. Abbreviate(home, s) = Tilde \o rest
  BY <1>0 DEF Abbreviate, Tilde
<1>2. Len(home) \in Nat /\ Len(s) \in Nat /\ Len(home) <= Len(s) /\ SubSeq(s, 1, Len(home)) = home
  BY LenProperties DEF Prefixed
<1>3. s = home \o rest
  <2>1. 1 \in 1 .. Len(s) + 1 /\ Len(home) \in 1 - 1 .. Len(s) /\ Len(s) \in Len(home) .. Len(s)
    BY <1>2
  <2>2. SubSeq(s, 1, Len(home)) \o SubSeq(s, Len(home) + 1, Len(s)) = SubSeq(s, 1, Len(s))
    BY <2>1, ConcatAdjacentSubSeq
  <2>3. SubSeq(s, 1, Len(s)) = s
    BY SubSeqFull
  <2> QED
    BY <1>2, <2>2, <2>3 DEF From
<1>4. rest \in Seq(C)
  <2>1. Len(home) + 1 \in Int /\ Len(s) \in Int /\ \A i \in Len(home) + 1 .. Len(s) : s[i] \in C
    BY <1>2, ElementOfSeq
  <2> QED
    BY <2>1, SubSeqProperties DEF From
<1> HIDE DEF rest
<1> QED
  BY <1>1, <1>3, <1>4

\* A label is expanded to its path, also with a slash at its end.
LEMMA LabelBack ==
  ASSUME NEW C, "/" \in C, "~" \in C, NEW home \in Seq(C) \cup {NoHome},
         NEW s \in Seq(C), Absolute(s), IsText(s)
  PROVE  /\ ExpandTilde(home, Abbreviate(home, s)) = s
         /\ ExpandTilde(home, Abbreviate(home, s) \o Slash) = s \o Slash
         /\ Abbreviate(home, s) \in Seq(C)
<1> DEFINE a == Abbreviate(home, s)
<1>1. CASE a = s
  <2>1. Absolute(s \o Slash)
    BY CleanSlash
  <2> HIDE DEF a
  <2> QED
    BY <1>1, <2>1, NoTilde DEF a
<1>2. CASE /\ home # NoHome /\ home \in Seq(C)
           /\ \E rest \in Seq(C) : AtBoundary(rest) /\ s = home \o rest /\ a = Tilde \o rest
  <2>0. home # NoHome /\ home \in Seq(C)
    BY <1>2
  <2>1. PICK rest \in Seq(C) : AtBoundary(rest) /\ s = home \o rest /\ a = Tilde \o rest
    BY <1>2
  <2> HIDE DEF a
  <2>2. Slash \in Seq(C) /\ Tilde \in Seq(C) /\ Len(Slash) = 1 /\ Slash[1] = "/"
    BY SlashIs DEF Tilde
  <2>3. ExpandTilde(home, a) = s
    BY <2>0, <2>1, TildeBack
  <2> DEFINE more == rest \o Slash
  <2>4. more \in Seq(C) /\ Len(more) = Len(rest) + 1
        /\ \A i \in 1 .. Len(rest) + 1 : more[i] = IF i <= Len(rest) THEN rest[i] ELSE Slash[i - Len(rest)]
    <3>1. rest \o Slash \in Seq(C) /\ Len(rest \o Slash) = Len(rest) + Len(Slash)
          /\ \A i \in 1 .. Len(rest) + Len(Slash) : (rest \o Slash)[i] = IF i <= Len(rest) THEN rest[i] ELSE Slash[i - Len(rest)]
      BY <2>2, ConcatProperties
    <3> QED
      BY <2>2, <3>1
  <2>5. a \o Slash = Tilde \o more /\ s \o Slash = home \o more
    <3>1. (Tilde \o rest) \o Slash = Tilde \o (rest \o Slash)
      BY <2>2, ConcatAssociative
    <3>2. (home \o rest) \o Slash = home \o (rest \o Slash)
      BY <2>0, <2>2, ConcatAssociative
    <3> QED
      BY <2>1, <3>1, <3>2
  <2> HIDE DEF more
  <2>6. AtBoundary(more)
    <3>1. CASE rest = <<>>
      <4>1. Len(rest) = 0
        BY <3>1
      <4>2. more[1] = Slash[1 - 0]
        BY <2>4, <4>1
      <4> QED
        BY <2>2, <4>2 DEF AtBoundary
    <3>2. CASE rest # <<>>
      <4>1. rest[1] = "/" /\ Len(rest) \in Nat /\ 1 <= Len(rest)
        BY <2>1, <3>2, EmptySeq DEF AtBoundary
      <4>2. 1 \in 1 .. Len(rest) + 1
        BY <4>1
      <4>3. more[1] = rest[1]
        BY <2>4, <4>1, <4>2
      <4> QED
        BY <4>1, <4>3 DEF AtBoundary
    <3> QED
      BY <3>1, <3>2
  <2>7. ExpandTilde(home, a \o Slash) = s \o Slash
    BY <2>0, <2>4, <2>5, <2>6, TildeBack
  <2>8. a \in Seq(C)
    BY <2>1, <2>2, ConcatProperties
  <2> QED
    BY <2>3, <2>7, <2>8 DEF a
<1>3. \/ Abbreviate(home, s) = s
      \/ /\ home # NoHome /\ home \in Seq(C)
         /\ \E rest \in Seq(C) : AtBoundary(rest) /\ s = home \o rest /\ Abbreviate(home, s) = Tilde \o rest
  BY LabelIs
<1> QED
  BY <1>1, <1>2, <1>3

\* What is typed is some text of C that resolves to a clean path.
LEMMA ResolveIs ==
  ASSUME NEW C, "/" \in C, "~" \in C, NEW home \in Seq(C) \cup {NoHome}, NEW base \in Seq(C), Absolute(base), NEW s \in Seq(C)
  PROVE  LET p == Resolve(home, base, s)
         IN  p \in Seq(C) /\ Absolute(p) /\ Clean(p) = p /\ \A n \in DOMAIN Components(p) : Components(p)[n] # Up
<1> DEFINE e == ExpandTilde(home, s)
           x == IF e = <<>> THEN base ELSE IF Absolute(e) THEN e ELSE base \o Slash \o e
<1>1. e \in Seq(C)
  <2>1. Len(s) \in Nat
    BY LenProperties
  <2>2. 2 \in Int /\ Len(s) \in Int /\ \A i \in 2 .. Len(s) : s[i] \in C
    BY <2>1, ElementOfSeq
  <2>3. From(s, 2) \in Seq(C)
    BY <2>2, SubSeqProperties DEF From
  <2>4. home # NoHome => home \o From(s, 2) \in Seq(C)
    BY <2>3, ConcatProperties
  <2> QED
    BY <2>4 DEF ExpandTilde
<1>2. Resolve(home, base, s) = Clean(x)
  BY DEF Resolve, Slash
<1> HIDE DEF e
<1>3. base \o Slash \o e \in Seq(C) /\ Absolute(base \o Slash \o e)
  <2> DEFINE y == base \o Slash
  <2>1. y \in Seq(C) /\ Absolute(y)
    BY CleanSlash
  <2> HIDE DEF y
  <2>2. y \o e \in Seq(C) /\ Len(y \o e) = Len(y) + Len(e)
        /\ \A i \in 1 .. Len(y) + Len(e) : (y \o e)[i] = IF i <= Len(y) THEN y[i] ELSE e[i - Len(y)]
    BY <1>1, <2>1, ConcatProperties
  <2>3. Len(y) \in Nat \ {0} /\ Len(e) \in Nat /\ y[1] = "/"
    BY <1>1, <2>1, EmptySeq, LenProperties DEF Absolute
  <2>4. 1 \in 1 .. Len(y) + Len(e) /\ 1 <= Len(y)
    BY <2>3
  <2>5. (y \o e)[1] = "/"
    BY <2>2, <2>3, <2>4
  <2>6. Len(y \o e) # 0
    BY <2>2, <2>3
  <2>7. Absolute(y \o e)
    BY <2>5, <2>6 DEF Absolute
  <2> QED
    BY <2>2, <2>7 DEF y
<1>4. x \in Seq(C) /\ Absolute(x)
  BY <1>1, <1>3
<1> HIDE DEF x
<1> QED
  BY <1>2, <1>4, CleanPath

-----------------------------------------------------------------------------
(* What is typed, cut at its last slash.                                   *)

LEMMA LargestNumber ==
  ASSUME NEW n \in Nat, NEW T, T \subseteq 1 .. n, T # {}
  PROVE  \E x \in T : \A y \in T : y <= x
<1> DEFINE U == {n - y : y \in T}
<1>1. U \subseteq Nat /\ U # {}
  <2>1. \A y \in T : n - y \in Nat
    OBVIOUS
  <2>2. PICK y \in T : TRUE
    OBVIOUS
  <2>3. n - y \in U
    BY <2>2
  <2> QED
    BY <2>1, <2>3
<1>2. PICK u \in U : \A v \in U : u <= v
  BY <1>1, LeastNatural
<1>3. PICK x \in T : u = n - x
  BY <1>2
<1>4. ASSUME NEW y \in T PROVE y <= x
  <2>1. n - x <= n - y
    BY <1>2, <1>3
  <2>2. x \in Nat /\ y \in Nat
    OBVIOUS
  <2> QED
    BY <2>1, <2>2
<1> QED
  BY <1>4

LEMMA SplitIs ==
  ASSUME NEW C, NEW s \in Seq(C)
  PROVE  \E end \in 0 .. Len(s) :
           /\ SplitInput(s) = <<SubSeq(s, 1, end), From(s, end + 1)>>
           /\ \A n \in 1 .. Len(s) : s[n] = "/" => n <= end
<1> DEFINE slash == {n \in DOMAIN s : s[n] = "/"}
           end == IF slash = {} THEN 0 ELSE CHOOSE n \in slash : \A m \in slash : m <= n
<1>0. Len(s) \in Nat /\ DOMAIN s = 1 .. Len(s)
  BY LenProperties
<1>1. SplitInput(s) = <<SubSeq(s, 1, end), From(s, end + 1)>>
  BY DEF SplitInput
<1>2. end \in 0 .. Len(s) /\ \A n \in 1 .. Len(s) : s[n] = "/" => n <= end
  <2>1. CASE slash = {}
    <3>1. end = 0
      BY <2>1
    <3>2. \A n \in 1 .. Len(s) : s[n] # "/"
      BY <1>0, <2>1
    <3> HIDE DEF end
    <3> QED
      BY <1>0, <3>1, <3>2
  <2>2. CASE slash # {}
    <3>0. slash \subseteq 1 .. Len(s)
      BY <1>0
    <3>1. \E n \in slash : \A m \in slash : m <= n
      <4> HIDE DEF slash
      <4> QED
        BY <1>0, <2>2, <3>0, LargestNumber
    <3>2. end \in slash /\ \A m \in slash : m <= end
      <4> HIDE DEF slash
      <4> QED
        BY <2>2, <3>1
    <3> HIDE DEF end
    <3> QED
      BY <1>0, <3>0, <3>2
  <2> QED
    BY <2>1, <2>2
<1> HIDE DEF end
<1> QED
  BY <1>1, <1>2

LEMMA SplitWhole ==
  ASSUME NEW C, NEW s \in Seq(C)
  PROVE  /\ SplitInput(s)[1] \o SplitInput(s)[2] = s
         /\ \A n \in DOMAIN SplitInput(s)[2] : SplitInput(s)[2][n] # "/"
<1>1. PICK end \in 0 .. Len(s) :
        /\ SplitInput(s) = <<SubSeq(s, 1, end), From(s, end + 1)>>
        /\ \A n \in 1 .. Len(s) : s[n] = "/" => n <= end
  BY SplitIs
<1> DEFINE u == SubSeq(s, end + 1, Len(s))
<1>0. Len(s) \in Nat
  BY LenProperties
<1>2. SubSeq(s, 1, end) \o u = s
  <2>1. 1 \in 1 .. Len(s) + 1 /\ end \in 1 - 1 .. Len(s) /\ Len(s) \in end .. Len(s)
    BY <1>0
  <2>2. SubSeq(s, 1, end) \o SubSeq(s, end + 1, Len(s)) = SubSeq(s, 1, Len(s))
    BY <2>1, ConcatAdjacentSubSeq
  <2> QED
    BY <2>2, SubSeqFull
<1>3. \A n \in DOMAIN u : u[n] # "/"
  <2>1. end + 1 \in Int /\ Len(s) \in Int /\ \A i \in end + 1 .. Len(s) : s[i] \in C
    BY <1>0, ElementOfSeq
  <2>2. u \in Seq(C) /\ Len(u) = (IF end + 1 <= Len(s) THEN Len(s) - (end + 1) + 1 ELSE 0)
        /\ \A i \in 1 .. Len(s) - (end + 1) + 1 : u[i] = s[(end + 1) + i - 1]
    BY <2>1, SubSeqProperties
  <2> HIDE DEF u
  <2>3. DOMAIN u = 1 .. Len(u)
    BY <2>2, LenProperties
  <2> SUFFICES ASSUME NEW n \in 1 .. Len(u) PROVE u[n] # "/"
    BY <2>3
  <2>4. n \in 1 .. Len(s) - (end + 1) + 1 /\ (end + 1) + n - 1 \in 1 .. Len(s) /\ ~((end + 1) + n - 1 <= end)
    BY <1>0, <2>2
  <2> QED
    BY <1>1, <2>2, <2>4
<1>4. SplitInput(s) = <<SubSeq(s, 1, end), u>>
  BY <1>1 DEF From
<1> HIDE DEF u
<1>5. SplitInput(s)[1] = SubSeq(s, 1, end) /\ SplitInput(s)[2] = u
  BY <1>4
<1> QED
  BY <1>2, <1>3, <1>5

\* A path with a slash at its end is a directory, and nothing that is searched for.
LEMMA SplitDir ==
  ASSUME NEW C, "/" \in C, NEW s \in Seq(C)
  PROVE  SplitInput(s \o Slash) = <<s \o Slash, <<>>>>
<1> DEFINE t == s \o Slash
           m == Len(s) + 1
<1>0. Slash \in Seq(C) /\ Len(s) \in Nat
  BY SlashIs, LenProperties
<1>1. t = Append(s, "/")
  BY AppendIsConcat DEF Slash
<1>2. t \in Seq(C) /\ Len(t) = m /\ t[m] = "/"
  <2>1. Append(s, "/") \in Seq(C) /\ Len(Append(s, "/")) = Len(s) + 1 /\ Append(s, "/")[Len(s) + 1] = "/"
    BY AppendProperties
  <2> HIDE DEF t
  <2> QED
    BY <1>1, <2>1
<1> HIDE DEF t
<1>3. PICK end \in 0 .. Len(t) :
        /\ SplitInput(t) = <<SubSeq(t, 1, end), From(t, end + 1)>>
        /\ \A n \in 1 .. Len(t) : t[n] = "/" => n <= end
  BY <1>2, SplitIs
<1>4. end = Len(t)
  <2>1. m \in 1 .. Len(t)
    BY <1>0, <1>2
  <2>2. m <= end
    BY <1>2, <1>3, <2>1
  <2> QED
    BY <1>0, <1>2, <2>2
<1>5. SubSeq(t, 1, Len(t)) = t
  BY <1>2, SubSeqFull
<1>6. SubSeq(t, Len(t) + 1, Len(t)) = <<>>
  <2>1. Len(t) + 1 \in Int /\ Len(t) \in Int /\ Len(t) < Len(t) + 1
    BY <1>0, <1>2
  <2> QED
    BY <2>1, SubSeqEmpty
<1> QED
  BY <1>3, <1>4, <1>5, <1>6 DEF From, t

\* The label of a directory whose name is text, and what the picker types for it, lead back to it;
\* what is typed resolves to a clean path, with and without a home (abbreviate, resolve,
\* split_input).
THEOREM LabelsAlwaysLeadBack == LabelsLeadBack
<1> SUFFICES ASSUME NEW home \in Homes, NEW base \in Bases, NEW s \in Inputs
             PROVE  LET p == Resolve(home, base, s)
                        split == SplitInput(s)
                        entered == SplitInput(EnterDir(home, p))
                    IN  /\ IsText(s) /\ Absolute(s) /\ Clean(s) = s => Resolve(home, base, Abbreviate(home, s)) = s
                        /\ Absolute(p) /\ Clean(p) = p /\ \A n \in DOMAIN Components(p) : Components(p)[n] # Up
                        /\ IsText(p) => Resolve(home, base, entered[1]) = p /\ entered[2] = <<>>
                        /\ split[1] \o split[2] = s /\ \A n \in DOMAIN split[2] : split[2][n] # "/"
  BY DEF LabelsLeadBack
<1> DEFINE of(x) == {x[n] : n \in DOMAIN x}
           C == (IF home = NoHome THEN {} ELSE of(home)) \cup of(base) \cup of(s) \cup {"/", "~"}
           p == Resolve(home, base, s)
<1>1. /\ home \in Seq(C) \cup {NoHome}
      /\ base \in Seq(C) /\ s \in Seq(C) /\ "/" \in C /\ "~" \in C /\ Absolute(base)
  <2>1. /\ home # NoHome => home \in Seq(of(home))
        /\ base \in Seq(of(base)) /\ s \in Seq(of(s)) /\ Absolute(base)
    BY PathsAssumption DEF Homes
  <2>2. (home # NoHome => of(home) \subseteq C) /\ of(base) \subseteq C /\ of(s) \subseteq C /\ "/" \in C /\ "~" \in C
    OBVIOUS
  <2> HIDE DEF of, C
  <2> QED
    BY <2>1, <2>2, SeqMonotonic
<1> HIDE DEF C
<1>2. p \in Seq(C) /\ Absolute(p) /\ Clean(p) = p /\ \A n \in DOMAIN Components(p) : Components(p)[n] # Up
  BY <1>1, ResolveIs
<1>3. ASSUME NEW e, NEW d, Absolute(e), ExpandTilde(home, d) = e PROVE Resolve(home, base, d) = Clean(e)
  BY <1>3 DEF Resolve, Absolute
<1>4. ASSUME IsText(s), Absolute(s), Clean(s) = s PROVE Resolve(home, base, Abbreviate(home, s)) = s
  <2>1. ExpandTilde(home, Abbreviate(home, s)) = s
    BY <1>1, <1>4, LabelBack
  <2> QED
    BY <1>3, <1>4, <2>1
<1> HIDE DEF p
<1>5. EnterDir(home, p) = Abbreviate(home, p) \o Slash
  BY DEF EnterDir, Slash
<1> DEFINE d == Abbreviate(home, p) \o Slash
<1>6. ASSUME IsText(p) PROVE ExpandTilde(home, d) = p \o Slash /\ Abbreviate(home, p) \in Seq(C)
  BY <1>1, <1>2, <1>6, LabelBack
<1>7. IsText(p) => SplitInput(d) = <<d, <<>>>>
  BY <1>1, <1>6, SplitDir
<1>8. Absolute(p \o Slash) /\ Clean(p \o Slash) = Clean(p)
  BY <1>1, <1>2, CleanSlash
<1> HIDE DEF d
<1>9. IsText(p) => Resolve(home, base, d) = p
  BY <1>2, <1>3, <1>6, <1>8
<1>10. IsText(p) => SplitInput(EnterDir(home, p)) = <<d, <<>>>>
  BY <1>5, <1>7 DEF d
<1>11. /\ SplitInput(s)[1] \o SplitInput(s)[2] = s
       /\ \A n \in DOMAIN SplitInput(s)[2] : SplitInput(s)[2][n] # "/"
  BY <1>1, SplitWhole
<1>12. IsText(p) => /\ Resolve(home, base, SplitInput(EnterDir(home, p))[1]) = p
                    /\ SplitInput(EnterDir(home, p))[2] = <<>>
  BY <1>9, <1>10
<1> QED
  BY <1>2, <1>4, <1>11, <1>12 DEF p

-----------------------------------------------------------------------------

\* What was typed reaches the child and the core as the user meant it, for any characters, modes,
\* cells of a screen, texts, pastes without a terminator behind an ESC, and directories whose name
\* is text.
THEOREM InputAlwaysReaches == Spec => []InputReaches
<1>1. InputReaches
  BY KeysAreApart, MouseAlwaysHits, PasteIsKept, BracketsAreKept, CaretIsBetween, LabelsAlwaysLeadBack
     DEF InputReaches
<1> QED
  BY <1>1, PTL
=============================================================================
