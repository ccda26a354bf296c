----------------------------- MODULE CaptureProofs -----------------------------
(***************************************************************************)
(* Proofs about recipes and agent capture (Recipes, Capture), for any      *)
(* number of names, conversations, processes, runs and daemons.            *)
(***************************************************************************)
EXTENDS Capture, SequenceTheorems, FiniteSetTheorems, TLAPS

-----------------------------------------------------------------------------
(* Recipes.                                                                *)

\* from_json undoes dirs_json on every entry, and accepts it.
LEMMA EntryReadsBack ==
  ASSUME NEW e \in Entries
  PROVE  IsMember(Member(e)) /\ EntryOf(Member(e)) = e
<1> USE RecipesAssumption
<1> DEFINE cmd == e.cmd  agent == e.agent  resume == e.resume
           group == e.group  name == e.name  marks == e.marks
<1>1. /\ cmd \in Command \cup {Absent} /\ agent \in Registered \cup {Absent}
      /\ resume \in Id \cup {Absent} /\ group \in Label \cup {Absent}
      /\ name \in Label \cup {Absent} /\ marks \in SUBSET Marks
      /\ IF agent = Absent THEN cmd # Absent /\ resume = Absent ELSE cmd = Absent
  BY DEF Entries
<1>2. e = Entry(cmd, agent, resume, group, name, marks)
  BY DEF Entries, Entry
<1> DEFINE at == Member(e).at
<1>3. /\ at["cmd"] = cmd /\ at["agent"] = agent /\ at["resume"] = resume
      /\ at["group"] = group /\ at["name"] = name
  BY <1>2 DEF Member, Texts, Marks
<1>4. \A f \in Marks : at[f] = IF f \in marks THEN "true" ELSE Absent
  BY <1>2 DEF Member, Texts, Marks
<1>5. Member(e).bare <=> e = Literal(cmd)
  BY DEF Member
<1>6. CASE Member(e).bare
  <2>1. e = Literal(cmd) /\ cmd # Absent
    BY <1>1, <1>2, <1>5, <1>6 DEF Literal, Entry
  <2>2. EntryOf(Member(e)) = Literal(cmd)
    BY <1>3, <1>6 DEF EntryOf
  <2>3. IsMember(Member(e))
    BY <1>1, <1>3, <1>6, <2>1 DEF IsMember, Text
  <2> QED BY <2>1, <2>2, <2>3
<1>7. CASE ~Member(e).bare
  <2>1. IsKind(at)
    BY <1>1, <1>3 DEF IsKind, Opt, Text, Null
  <2>2. IsOptText(at["group"]) /\ IsOptText(at["name"])
    BY <1>1, <1>3 DEF IsOptText, Text
  <2>3. \A f \in Marks : IsOptFlag(at[f])
    BY <1>4 DEF IsOptFlag
  <2>4. Opt(resume) = resume /\ Opt(group) = group /\ Opt(name) = name
    BY <1>1 DEF Opt, Null, Text
  <2>5. {f \in Marks : at[f] = "true"} = marks
    BY <1>1, <1>4
  <2>6. (IF at["agent"] = Absent THEN Absent ELSE Opt(at["resume"])) = resume
    BY <1>1, <1>3, <2>4
  <2>7. EntryOf(Member(e)) = Entry(cmd, agent, resume, group, name, marks)
    BY <1>3, <1>7, <2>4, <2>5, <2>6 DEF EntryOf
  <2>8. IsMember(Member(e))
    BY <1>7, <2>1, <2>2, <2>3 DEF IsMember
  <2> QED BY <1>2, <2>7, <2>8
<1> QED BY <1>6, <1>7

\* A task set of any length is read back as it was written.
LEMMA RoundTrip ==
  ASSUME NEW cfg \in Seq(Entries), NEW n \in Name,
         Cardinality(Flagships(cfg)) <= 1
  PROVE  Parsed(Written(n, cfg)) = {cfg} /\ StoredName(Written(n, cfg)) = n
<1> DEFINE file == Written(n, cfg)
<1>1. /\ file.wrapped /\ file.version = 2 /\ file.name = n
      /\ file.members = [i \in DOMAIN cfg |-> Member(cfg[i])]
  BY DEF Written
<1>2. \A i \in DOMAIN cfg : IsMember(file.members[i]) /\ EntryOf(file.members[i]) = cfg[i]
  <2>1. \A i \in DOMAIN cfg : cfg[i] \in Entries OBVIOUS
  <2> QED BY <1>1, <2>1, EntryReadsBack
<1>3. [i \in DOMAIN file.members |-> EntryOf(file.members[i])] = cfg
  <2>1. DOMAIN file.members = DOMAIN cfg BY <1>1
  <2>2. cfg = [i \in DOMAIN cfg |-> cfg[i]] OBVIOUS
  <2> QED BY <1>2, <2>1, <2>2
<1>4. IsOptText(file.name)
  BY <1>1 DEF IsOptText
<1>5. Parsed(file) = {cfg}
  BY <1>1, <1>2, <1>3, <1>4 DEF Parsed
<1>6. StoredName(file) = n
  BY <1>1 DEF StoredName
<1> QED BY <1>5, <1>6

LEMMA FlagshipIsFirst ==
  ASSUME NEW cfg, Flagships(cfg) \subseteq {1}
  PROVE  Cardinality(Flagships(cfg)) <= 1
<1>1. Flagships(cfg) = {} \/ Flagships(cfg) = {1} OBVIOUS
<1> QED BY <1>1, FS_EmptySet, FS_Singleton

\* Reading back what was written, for the task sets that the run enumerates.
LEMMA AllReadBack == ReadsBack
<1> USE RecipesAssumption
<1> SUFFICES ASSUME NEW cfg \in Cfgs, NEW n \in Name PROVE Parsed(Written(n, cfg)) = {cfg}
  BY DEF ReadsBack
<1>1. \A c \in Command : Literal(c) \in Entries /\ Literal(c).marks = {}
  <2> SUFFICES ASSUME NEW c \in Command PROVE Literal(c) \in Entries /\ Literal(c).marks = {}
    OBVIOUS
  <2>1. c # Absent BY DEF Text
  <2> QED BY <2>1 DEF Literal, Entry, Entries
<1>2. (\E e \in Entries : cfg = <<e>>) \/ (\E e \in Entries, c \in Command : cfg = <<e, Literal(c)>>)
  BY DEF Cfgs
<1>3. cfg \in Seq(Entries)
  <2>1. ASSUME NEW e \in Entries, cfg = <<e>> PROVE cfg \in Seq(Entries)
    BY <2>1
  <2>2. ASSUME NEW e \in Entries, NEW c \in Command, cfg = <<e, Literal(c)>>
        PROVE  cfg \in Seq(Entries)
    <3>1. Literal(c) \in Entries BY <1>1
    <3> QED BY <2>2, <3>1
  <2> QED BY <1>2, <2>1, <2>2
<1>4. Flagships(cfg) \subseteq {1}
  BY <1>1, <1>2 DEF Flagships
<1> QED BY <1>3, <1>4, RoundTrip, FlagshipIsFirst

-----------------------------------------------------------------------------
(* Types.                                                                  *)

LEMMA Agents == TypeOK => kind \in Registered /\ kind # None
BY RecipesAssumption, CaptureAssumption DEF TypeOK, Text, None

LEMMA ProcessTyped ==
  ASSUME TypeOK, NEW n \in DOMAIN procs
  PROVE  /\ procs[n] \in Process /\ procs[n].path \in Path /\ procs[n].pid \in Pid
         /\ procs[n].conv \in Conv /\ n \in Nat \ {0} /\ shown[n] \subseteq Conv
         /\ n \in DOMAIN shown
<1>1. procs[n] \in Process /\ n \in Nat \ {0} /\ n \in DOMAIN shown /\ shown[n] \subseteq Conv
  BY DEF TypeOK
<1> QED BY <1>1 DEF Process

\* from_json accepts no agent with a malformed ID.
LEMMA LoadedResume ==
  ASSUME TypeOK, NEW file, NEW cfg \in Parsed(file), NEW i \in DOMAIN cfg, cfg[i].agent = kind
  PROVE  cfg[i].resume \in Conv \cup {None}
<1> DEFINE m == file.members[i]
<1>1. /\ cfg = [j \in DOMAIN file.members |-> EntryOf(file.members[j])]
      /\ \A j \in DOMAIN file.members : IsMember(file.members[j])
  BY DEF Parsed
<1>2. cfg[i] = EntryOf(m) /\ IsMember(m)
  BY <1>1
<1>3. ~m.bare
  BY <1>2, Agents DEF EntryOf, Literal, Entry, None
<1>4. m.at["agent"] = kind /\ IsKind(m.at)
  BY <1>2, <1>3 DEF EntryOf, Entry, IsMember
<1>5. cfg[i].resume = Opt(m.at["resume"]) /\ Opt(m.at["resume"]) \in Id \cup {Absent}
  BY <1>2, <1>3, <1>4, Agents DEF EntryOf, Entry, IsKind, None
<1> QED BY <1>5 DEF Conv, None

\* What current_resume_id tells is the ID of the launch, or one of a conversation that the
\* process had on screen and that can be resumed, or one that went astray.
LEMMA CurrentIsOwn ==
  ASSUME TypeOK, HeardIsOwn, RecordsAreOwn
  PROVE  /\ Current \in Conv \cup {None}
         /\ Current # None /\ Current # row.resume => row.proc # 0 /\ Own(Current, row.proc)
<1> DEFINE n == row.proc
<1>1. CASE n = 0
  BY <1>1 DEF TypeOK, Current, CurrentOf
<1>2. CASE n # 0
  <2>1. /\ n \in DOMAIN procs /\ n \in DOMAIN shown
        /\ shown[n] \cup astray \subseteq Conv /\ procs[n] \in Process
    BY <1>2 DEF TypeOK
  <2> DEFINE a == Accepted(slot[procs[n].path], procs[n].pid)
  <2>2. a # None => Own(a, n)
    BY <2>1 DEF HeardIsOwn, Accepted
  <2>3. RecordedBy(n) # None => Own(RecordedBy(n), n)
    <3>1. SUFFICES ASSUME RecordedBy(n) # None PROVE Own(RecordedBy(n), n)
      OBVIOUS
    <3>2. kind = "claude" /\ RecordedBy(n) = record[procs[n].pid].conv /\ record[procs[n].pid].proc = n
      BY <3>1 DEF RecordedBy
    <3>3. procs[n].pid \in Pid BY <2>1 DEF Process
    <3> QED BY <1>2, <3>2, <3>3 DEF RecordsAreOwn, Own, CanResume, Pins
  <2>4. Current = OrElse(a, OrElse(RecordedBy(n), row.resume))
    BY <1>2 DEF Current, CurrentOf
  <2>5. row.resume \in Conv \cup {None}
    BY DEF TypeOK
  <2> HIDE DEF a
  <2>6. Current \in {a, RecordedBy(n), row.resume} /\ (a # None \/ RecordedBy(n) # None => Current \in {a, RecordedBy(n)} \ {None})
    BY <2>4 DEF OrElse
  <2>7. a = None /\ RecordedBy(n) = None => Current = row.resume
    BY <2>4 DEF OrElse
  <2> QED BY <1>2, <2>1, <2>2, <2>3, <2>5, <2>6, <2>7 DEF Own
<1> QED BY <1>1, <1>2

\* The record that the new process may take over.
Inherited ==
  \/ UNCHANGED <<record, astray>>
  \/ \E pid \in Pid : /\ record' = [record EXCEPT ![pid].proc = Len(procs) + 1]
                      /\ astray' = astray \cup {record[pid].conv}

\* spawn_task in one formula: the process that was started, and the ID that the row has of it.
Launched(id, run, resume, new, given) ==
  LET N == Len(procs) + 1
  IN /\ N \in Nat \ {0} /\ N \notin DOMAIN procs
     /\ new.path = <<life, id, run>>
     /\ procs' = Append(procs, new) /\ shown' = Append(shown, {new.conv})
     /\ DOMAIN procs' = DOMAIN procs \cup {N} /\ DOMAIN shown' = DOMAIN procs'
     /\ procs'[N] = new /\ shown'[N] = {new.conv}
     /\ \A n \in DOMAIN procs : procs'[n] = procs[n] /\ shown'[n] = shown[n]
     /\ row' = [id |-> id, run |-> run, proc |-> N, resume |-> given]
     /\ resume # None => given = resume
     /\ given # None => given = new.conv /\ (given = resume \/ Pins)
     /\ slot' = Reaped(Unlinked(slot))
     /\ writers' = {w \in writers : Writes(w)}
     /\ Inherited
     /\ UNCHANGED <<kind, life, files, mine, onDisk>>

LEMMA LaunchEffect ==
  ASSUME TypeOK, NEW id \in 1..MaxId, NEW run \in 0..MaxRun, NEW resume \in Conv \cup {None},
         Launch(id, run, resume)
  PROVE  \E new \in Process, given \in Conv \cup {None} : Launched(id, run, resume, new, given)
<1>1. PICK plan \in Plans(resume), channel \in Channels, pid \in Pid \ InUse, inherits \in Inherits :
        /\ procs' = Append(procs, [pid |-> pid, path |-> PathFor(id, run), conv |-> plan.conv,
                                   live |-> TRUE, channel |-> channel])
        /\ shown' = Append(shown, {plan.conv})
        /\ row' = [id |-> id, run |-> run, proc |-> Len(procs'), resume |-> plan.id]
        /\ slot' = Reaped(Unlinked(slot))
        /\ writers' = {w \in writers : Writes(w)}
        /\ record' = IF inherits THEN [record EXCEPT ![pid].proc = Len(procs')] ELSE record
        /\ astray' = IF inherits THEN astray \cup {record[pid].conv} ELSE astray
        /\ UNCHANGED <<kind, life, files, mine, onDisk>>
  BY DEF Launch, recipes
<1>2. channel \in BOOLEAN /\ pid \in Pid
  BY DEF Channels
<1>3. /\ plan.conv \in Conv /\ plan.id \in Conv \cup {None}
      /\ resume # None => plan.id = resume
      /\ plan.id # None => plan.id = plan.conv /\ (plan.id = resume \/ Pins)
  BY DEF Plans
<1> DEFINE new == [pid |-> pid, path |-> <<life, id, run>>, conv |-> plan.conv,
                   live |-> TRUE, channel |-> channel]
           N == Len(procs) + 1
<1>4. <<life, id, run>> \in Path
  BY DEF TypeOK, Path
<1>5. new \in Process /\ procs' = Append(procs, new)
  BY <1>1, <1>2, <1>3, <1>4 DEF Process, PathFor
<1>6. /\ procs \in Seq(Process) /\ shown \in Seq(SUBSET Conv) /\ Len(shown) = Len(procs)
      /\ {plan.conv} \in SUBSET Conv
  BY <1>3 DEF TypeOK
<1> HIDE DEF new
<1>7. /\ N \in Nat \ {0} /\ N \notin DOMAIN procs /\ Len(procs') = N
      /\ DOMAIN procs' = DOMAIN procs \cup {N}
      /\ procs'[N] = new /\ \A n \in DOMAIN procs : procs'[n] = procs[n]
  BY <1>5, <1>6
<1>8. /\ DOMAIN shown' = DOMAIN procs' /\ shown'[N] = {plan.conv}
      /\ \A n \in DOMAIN procs : shown'[n] = shown[n]
  BY <1>1, <1>6, <1>7
<1>9. row' = [id |-> id, run |-> run, proc |-> N, resume |-> plan.id]
  BY <1>1, <1>7
<1>10. new.conv = plan.conv /\ new.path = <<life, id, run>>
  BY DEF new
<1>12. Inherited
  <2>1. CASE inherits
    BY <1>1, <1>2, <1>7, <2>1 DEF Inherited
  <2>2. CASE ~inherits
    BY <1>1, <2>2 DEF Inherited
  <2> QED BY <2>1, <2>2
<1>11. Launched(id, run, resume, new, plan.id)
  BY <1>1, <1>3, <1>5, <1>7, <1>8, <1>9, <1>10, <1>12 DEF Launched
<1> QED BY <1>3, <1>5, <1>11

\* The row of a stopped entry, and what Load does with one.
StopsAt(resume) ==
  /\ row = NoRow /\ nextId \in 1..MaxId /\ nextId' = nextId + 1
  /\ row' = [id |-> nextId, run |-> 0, proc |-> 0, resume |-> resume]
  /\ UNCHANGED <<kind, life, recipes, world>>

\* spawn_agent, rerun and load as launches: of a new row, or of the next run of this one.
Launches(id, run, resume) ==
  /\ Launch(id, run, resume)
  /\ \/ row = NoRow /\ id = nextId /\ run = 0 /\ nextId' = nextId + 1
     \/ row.id # 0 /\ id = row.id /\ run = row.run + 1 /\ nextId' = nextId /\ resume = Current

LEMMA LoadEffect ==
  ASSUME TypeOK, Load
  PROVE  \E resume \in Conv \cup {None} :
           /\ FilesAreOwn /\ resume # None => resume \in Heard /\ CanResume(resume)
           /\ nextId \in 1..MaxId
           /\ StopsAt(resume) \/ Launches(nextId, 0, resume)
<1>0. PICK name \in Name : \E cfg \in LoadIn(name) : \E i \in DOMAIN cfg :
        cfg[i].agent = kind /\ Materialize(cfg[i])
  BY DEF Load
<1>1. PICK cfg \in LoadIn(name) : \E i \in DOMAIN cfg : cfg[i].agent = kind /\ Materialize(cfg[i])
  BY <1>0
<1>7. PICK i \in DOMAIN cfg : cfg[i].agent = kind /\ Materialize(cfg[i])
  BY <1>1
<1>2. PICK file \in files[sanitize[name]] : cfg \in Parsed(file)
  BY <1>1 DEF LoadIn
<1> DEFINE resume == cfg[i].resume
<1>3. resume \in Conv \cup {None}
  BY <1>7, <1>2, LoadedResume
<1>4. row = NoRow /\ nextId \in 1..MaxId /\ nextId' = nextId + 1
  BY DEF Load, TypeOK
<1>5. FilesAreOwn /\ resume # None => resume \in Heard /\ CanResume(resume)
  <2>1. sanitize[name] \in Stem BY RecipesAssumption
  <2> QED BY <1>7, <1>2, <2>1 DEF FilesAreOwn, ResumesOwn
<1>6. StopsAt(resume) \/ Launches(nextId, 0, resume)
  BY <1>7, <1>4 DEF Materialize, StopsAt, Launches
<1> QED BY <1>3, <1>4, <1>5, <1>6

LEMMA LaunchesTyped ==
  ASSUME TypeOK, HeardIsOwn, RecordsAreOwn, NEW id, NEW run, NEW resume, resume \in Conv \cup {None},
         Launches(id, run, resume), 
         (row = NoRow /\ nextId \in 1..MaxId) \/ (row.id # 0 /\ row.run < MaxRun)
  PROVE  id \in 1..MaxId /\ run \in 0..MaxRun /\ nextId' \in 1..MaxId + 1
<1>1. row.id \in 0..MaxId /\ row.run \in 0..MaxRun /\ nextId \in 1..MaxId + 1
  BY DEF TypeOK
<1>2. MaxId \in Nat \ {0} /\ MaxRun \in Nat \ {0}
  BY CaptureAssumption
<1>3. CASE row = NoRow /\ nextId \in 1..MaxId
  <2>1. row.id = 0 BY <1>3 DEF NoRow
  <2> QED BY <1>1, <1>2, <1>3, <2>1 DEF Launches
<1>4. CASE row.id # 0 /\ row.run < MaxRun
  <2>1. row # NoRow BY <1>4 DEF NoRow
  <2> QED BY <1>1, <1>2, <1>4, <2>1 DEF Launches
<1> QED BY <1>3, <1>4

\* What is a launch, and what is not.
LEMMA LaunchOrLoad ==
  ASSUME TypeOK, HeardIsOwn, RecordsAreOwn, SpawnAgent \/ Rerun \/ Load
  PROVE  \E resume \in Conv \cup {None} :
           /\ FilesAreOwn /\ ResumeIsOwn /\ resume # None => CanResume(resume)
           /\ \/ /\ StopsAt(resume)
                 /\ FilesAreOwn /\ resume # None => resume \in Heard
              \/ \E id \in 1..MaxId, run \in 0..MaxRun :
                   Launches(id, run, resume) /\ nextId' \in 1..MaxId + 1
<1>1. CASE SpawnAgent
  <2>1. Launches(nextId, 0, None) /\ row = NoRow /\ nextId \in 1..MaxId
    BY <1>1 DEF SpawnAgent, Launches, TypeOK
  <2> QED BY <2>1, LaunchesTyped
<1>2. CASE Rerun
  <2>1. /\ Launches(row.id, row.run + 1, Current) /\ Current \in Conv \cup {None}
        /\ row.id # 0 /\ row.run < MaxRun
    BY <1>2, CurrentIsOwn DEF Rerun, Launches
  <2>2. ResumeIsOwn /\ Current # None => CanResume(Current)
    BY CurrentIsOwn DEF ResumeIsOwn, Own
  <2> QED BY <2>1, <2>2, LaunchesTyped
<1>3. CASE Load
  <2>0. row = NoRow BY <1>3 DEF Load
  <2>1. PICK resume \in Conv \cup {None} :
           /\ FilesAreOwn /\ resume # None => resume \in Heard /\ CanResume(resume)
           /\ nextId \in 1..MaxId
           /\ StopsAt(resume) \/ Launches(nextId, 0, resume)
    BY <1>3, LoadEffect
  <2> QED BY <2>0, <2>1, LaunchesTyped
<1> QED BY <1>1, <1>2, <1>3

LEMMA LaunchKeepsTypes ==
  ASSUME TypeOK, NEW id \in 1..MaxId, NEW run \in 0..MaxRun, NEW resume \in Conv \cup {None},
         Launch(id, run, resume), nextId' \in 1..MaxId + 1
  PROVE  TypeOK'
<1>1. PICK new \in Process, given \in Conv \cup {None} : Launched(id, run, resume, new, given)
  BY LaunchEffect
<1>2. /\ procs' = Append(procs, new) /\ shown' = Append(shown, {new.conv}) /\ new.conv \in Conv
      /\ Len(procs) + 1 \in DOMAIN procs' /\ Len(procs) + 1 \in Nat
  BY <1>1 DEF Launched, Process
<1>3. procs' \in Seq(Process) /\ shown' \in Seq(SUBSET Conv) /\ Len(shown') = Len(procs')
  <2>1. procs \in Seq(Process) /\ shown \in Seq(SUBSET Conv) /\ Len(shown) = Len(procs)
    BY DEF TypeOK
  <2>2. {new.conv} \in SUBSET Conv BY <1>2
  <2> QED BY <1>2, <2>1, <2>2
<1>4. slot' \in [Path -> Payloads]
  <2>1. slot \in [Path -> Payloads] /\ Blank \in Payloads
    BY DEF TypeOK, Blank, Payloads
  <2>2. Unlinked(slot) \in [Path -> Payloads]
    BY <2>1 DEF Unlinked
  <2> QED BY <1>1, <2>1, <2>2 DEF Launched, Reaped
<1>5. row' \in [id : 0..MaxId, run : 0..MaxRun, proc : Nat, resume : Conv \cup {None}]
      /\ row'.proc \in DOMAIN procs'
  BY <1>1, <1>2 DEF Launched
<1>6. UNCHANGED <<kind, life, files, mine, onDisk>> /\ writers' \subseteq writers
  BY <1>1 DEF Launched
<1>7. record' \in [Pid -> [proc : Nat, conv : Conv]] /\ astray' \subseteq Conv
  <2>1. Inherited /\ record \in [Pid -> [proc : Nat, conv : Conv]] /\ astray \subseteq Conv
    BY <1>1 DEF Launched, TypeOK
  <2>2. ASSUME NEW pid \in Pid, record' = [record EXCEPT ![pid].proc = Len(procs) + 1],
               astray' = astray \cup {record[pid].conv}
        PROVE  record' \in [Pid -> [proc : Nat, conv : Conv]] /\ astray' \subseteq Conv
    <3> DEFINE N == Len(procs) + 1
    <3>1. N \in Nat /\ record[pid] \in [proc : Nat, conv : Conv]
      BY <1>2, <2>1
    <3> HIDE DEF N
    <3>2. [record[pid] EXCEPT !.proc = N] \in [proc : Nat, conv : Conv]
      BY <3>1
    <3>3. record' = [record EXCEPT ![pid] = [record[pid] EXCEPT !.proc = N]]
      BY <2>1, <2>2 DEF N
    <3> QED BY <2>1, <2>2, <3>1, <3>2, <3>3
  <2> QED BY <2>1, <2>2 DEF Inherited
<1> QED BY <1>3, <1>4, <1>5, <1>6, <1>7 DEF TypeOK

LEMMA RowKeepsTypes ==
  ASSUME TypeOK, Remove \/ Die \/ \E resume \in Conv \cup {None} : StopsAt(resume)
  PROVE  TypeOK'
<1>0. NoRow \in [id : 0..MaxId, run : 0..MaxRun, proc : Nat, resume : Conv \cup {None}] /\ NoRow.proc = 0
  BY CaptureAssumption DEF NoRow
<1>1. CASE Remove
  <2>1. slot \in [Path -> Payloads] /\ Blank \in Payloads
    BY DEF TypeOK, Blank, Payloads
  <2>2. slot' \in [Path -> Payloads]
    BY <1>1, <2>1 DEF Remove, Unlinked
  <2>3. /\ row' = NoRow /\ writers' \subseteq writers
        /\ UNCHANGED <<kind, life, nextId, recipes, procs, shown, record, onDisk, astray>>
    BY <1>1 DEF Remove
  <2> QED BY <1>0, <2>2, <2>3 DEF TypeOK, recipes
<1>2. CASE Die
  <2>1. slot \in [Path -> Payloads] /\ Blank \in Payloads
    BY DEF TypeOK, Blank, Payloads
  <2>2. slot' \in [Path -> Payloads]
    BY <1>2, <2>1 DEF Die
  <2>3. life' \in 1..MaxLife /\ nextId' \in 1..MaxId + 1
    BY <1>2, CaptureAssumption DEF Die, TypeOK
  <2>4. writers' \subseteq writers
    BY <1>2 DEF Die
  <2>5. row' = NoRow /\ UNCHANGED <<kind, recipes, procs, shown, record, onDisk, astray>>
    BY <1>2 DEF Die
  <2> QED BY <1>0, <2>2, <2>3, <2>4, <2>5 DEF TypeOK, recipes
<1>3. ASSUME NEW resume \in Conv \cup {None}, StopsAt(resume) PROVE TypeOK'
  <2>1. nextId' \in 1..MaxId + 1 /\ nextId \in 0..MaxId
    BY <1>3, CaptureAssumption DEF StopsAt
  <2>2. row' \in [id : 0..MaxId, run : 0..MaxRun, proc : Nat, resume : Conv \cup {None}]
        /\ row'.proc = 0
    BY <1>3, <2>1, CaptureAssumption DEF StopsAt
  <2> QED BY <1>3, <2>1, <2>2 DEF StopsAt, TypeOK, recipes, world
<1> QED BY <1>1, <1>2, <1>3

LEMMA FilesKeepTypes ==
  ASSUME TypeOK, Save \/ EditRecipe
  PROVE  TypeOK'
<1>1. DOMAIN files' = Stem /\ DOMAIN mine' = Name
  BY DEF TypeOK, Save, EditRecipe, SaveIn, Edit
<1>2. UNCHANGED <<kind, life, nextId, row, world>>
  BY DEF Save, EditRecipe
<1> QED BY <1>1, <1>2 DEF TypeOK, world

LEMMA AgentKeepsTypes ==
  ASSUME TypeOK, NEW n \in DOMAIN procs,
         \/ \E conv \in Conv : Switch(n, conv)
         \/ FirstTurn(n) \/ Exit(n) \/ UpdateRecord(n)
  PROVE  TypeOK'
<1>1. /\ procs \in Seq(Process) /\ shown \in Seq(SUBSET Conv) /\ Len(shown) = Len(procs)
      /\ procs[n] \in Process /\ n \in Nat /\ n \in DOMAIN shown
  BY DEF TypeOK
<1>2. ASSUME NEW conv \in Conv, Switch(n, conv) PROVE TypeOK'
  <2>1. [procs[n] EXCEPT !.conv = conv] \in Process
    BY <1>1 DEF Process
  <2>2. procs' \in Seq(Process) /\ DOMAIN procs' = DOMAIN procs /\ Len(procs') = Len(procs)
    BY <1>1, <1>2, <2>1 DEF Switch
  <2>3. shown' \in Seq(SUBSET Conv) /\ Len(shown') = Len(shown)
    BY <1>1, <1>2 DEF Switch
  <2> QED BY <1>1, <1>2, <2>2, <2>3 DEF Switch, TypeOK, core, recipes
<1>3. CASE FirstTurn(n)
  <2>1. onDisk' \subseteq Conv
    BY <1>1, <1>3 DEF FirstTurn, TypeOK, Process
  <2> QED BY <1>3, <2>1 DEF FirstTurn, TypeOK, core, recipes
<1>4. CASE Exit(n)
  <2>1. [procs[n] EXCEPT !.live = FALSE] \in Process
    BY <1>1 DEF Process
  <2>2. procs' \in Seq(Process) /\ DOMAIN procs' = DOMAIN procs /\ Len(procs') = Len(procs)
    BY <1>1, <1>4, <2>1 DEF Exit
  <2> QED BY <1>1, <1>4, <2>2 DEF Exit, TypeOK, core, recipes
<1>5. CASE UpdateRecord(n)
  <2>1. [proc |-> n, conv |-> procs[n].conv] \in [proc : Nat, conv : Conv]
    BY <1>1 DEF Process
  <2>2. record' \in [Pid -> [proc : Nat, conv : Conv]]
    BY <1>5, <2>1 DEF UpdateRecord, TypeOK
  <2> QED BY <1>5, <2>2 DEF UpdateRecord, TypeOK, core, recipes
<1> QED BY <1>2, <1>3, <1>4, <1>5

\* What notify reports is the ID of a conversation on screen that has a rollout.
LEMMA NotifiedRoot ==
  ASSUME TypeOK, NEW n \in DOMAIN procs, NEW thread \in {procs[n].conv, Sub, Title},
         NEW root \in RootThread(thread, procs[n].conv)
  PROVE  root = procs[n].conv /\ root \in onDisk
BY CaptureAssumption DEF RootThread, TypeOK

LEMMA PutKeepsTypes ==
  ASSUME TypeOK, NEW p \in Path, NEW s \in Payloads, Put(p, s), writers' \subseteq Writers
  PROVE  TypeOK'
<1>1. slot' \in [Path -> Payloads]
  BY DEF Put, TypeOK
<1>2. astray' \subseteq Conv
  <2>1. s.conv \in Conv \cup {None} BY DEF Payloads
  <2> QED BY <2>1 DEF Put, Strays, TypeOK
<1>3. UNCHANGED <<kind, core, procs, shown, record, onDisk>>
  BY DEF Put
<1> QED BY <1>1, <1>2, <1>3 DEF TypeOK, core, recipes

LEMMA StartKeepsTypes ==
  ASSUME TypeOK, NEW n \in DOMAIN procs, NEW stamp \in Pid \cup {None}, NEW conv \in Conv,
         Starts(n, stamp, conv)
  PROVE  writers' \subseteq Writers
<1>1. procs[n].path \in Path
  BY ProcessTyped
<1> DEFINE w == [path |-> procs[n].path, stamp |-> stamp, conv |-> conv, stamped |-> FALSE]
<1>2. w \in Writers
  BY <1>1 DEF Writers
<1>3. writers' = writers \cup {w} /\ writers \subseteq Writers
  BY DEF Starts, TypeOK
<1> HIDE DEF w
<1> QED BY <1>2, <1>3

LEMMA SlotKeepsTypes ==
  ASSUME TypeOK,
         \/ \E n \in DOMAIN procs : Hook(n) \/ ForkHook(n) \/ Notify(n) \/ Report(n)
         \/ \E w \in writers : Stamp(w) \/ Payload(w) \/ ReplaceSlot(w)
  PROVE  TypeOK'
<1>0. Blank \in Payloads /\ \A conv \in Conv : Unstamped(conv) \in Payloads
  BY DEF Blank, Unstamped, Payloads
<1>1. ASSUME NEW n \in DOMAIN procs, Hook(n) \/ ForkHook(n) \/ Notify(n) \/ Report(n) PROVE TypeOK'
  <2>1. procs[n].path \in Path /\ procs[n].pid \in Pid /\ procs[n].conv \in Conv
    BY ProcessTyped
  <2>2. ASSUME NEW pid \in Pid, NEW conv \in Conv, HookOf(n, pid, conv) PROVE TypeOK'
    <3>1. writers' \subseteq Writers
      BY <2>2, StartKeepsTypes DEF HookOf
    <3>2. Put(procs[n].path, Blank)
      BY <2>2 DEF HookOf
    <3> QED BY <1>0, <2>1, <3>1, <3>2, PutKeepsTypes
  <2>3. CASE Hook(n) \/ ForkHook(n)
    BY <2>1, <2>2, <2>3, CaptureAssumption DEF Hook, ForkHook
  <2>4. CASE Notify(n)
    <3>1. PICK thread \in {procs[n].conv, Sub, Title} :
            \E root \in RootThread(thread, procs[n].conv) : Starts(n, None, root)
      BY <2>4 DEF Notify
    <3>2. PICK root \in RootThread(thread, procs[n].conv) : Starts(n, None, root)
      BY <3>1
    <3>3. root \in Conv BY <2>1, NotifiedRoot
    <3>4. UNCHANGED <<kind, core, procs, shown, slot, record, onDisk, astray>> BY <2>4 DEF Notify
    <3>5. writers' \subseteq Writers
      BY <3>2, <3>3, StartKeepsTypes
    <3> QED BY <3>4, <3>5 DEF TypeOK, core, recipes
  <2>5. CASE Report(n)
    <3>1. Put(procs[n].path, Unstamped(procs[n].conv)) /\ writers' \subseteq Writers
      BY <2>5 DEF Report, TypeOK
    <3> QED BY <1>0, <2>1, <3>1, PutKeepsTypes
  <2> QED BY <1>1, <2>3, <2>4, <2>5
<1>2. ASSUME NEW w \in writers, Stamp(w) \/ Payload(w) \/ ReplaceSlot(w) PROVE TypeOK'
  <2>1. /\ w \in Writers /\ w.path \in Path /\ w.conv \in Conv /\ w.stamp \in Pid \cup {None}
        /\ writers \subseteq Writers
    BY DEF TypeOK, Writers
  <2>2. /\ slot[w.path].stamp \in Pid \cup {None} /\ slot[w.path].conv \in Conv \cup {None}
        /\ slot[w.path].by \in Pid \cup {None}
    BY <2>1 DEF TypeOK, Payloads
  <2>3. CASE Stamp(w)
    <3>1. PICK stamp \in Fits(w.stamp, slot[w.path].by) :
            Put(w.path, [stamp |-> stamp, conv |-> slot[w.path].conv, by |-> slot[w.path].by])
      BY <2>3 DEF Stamp
    <3>2. [stamp |-> stamp, conv |-> slot[w.path].conv, by |-> slot[w.path].by] \in Payloads
      BY <2>1, <2>2 DEF Fits, Payloads
    <3>3. writers' \subseteq Writers
      <4>1. [w EXCEPT !.stamped = TRUE] \in Writers
        BY <2>1 DEF Writers
      <4> QED BY <2>1, <2>3, <4>1 DEF Stamp
    <3> QED BY <2>1, <3>1, <3>2, <3>3, PutKeepsTypes
  <2>4. CASE Payload(w)
    <3>1. PICK stamp \in Fits(slot[w.path].stamp, w.stamp), conv \in {w.conv, None} :
            Put(w.path, [stamp |-> stamp, conv |-> conv, by |-> IF conv = None THEN None ELSE w.stamp])
      BY <2>4 DEF Payload
    <3>2. [stamp |-> stamp, conv |-> conv, by |-> IF conv = None THEN None ELSE w.stamp] \in Payloads
      BY <2>1, <2>2 DEF Fits, Payloads
    <3>3. writers' \subseteq Writers
      BY <2>1, <2>4 DEF Payload
    <3> QED BY <2>1, <3>1, <3>2, <3>3, PutKeepsTypes
  <2>5. CASE ReplaceSlot(w)
    <3>1. Put(w.path, Unstamped(w.conv)) /\ writers' \subseteq Writers
      BY <2>1, <2>5 DEF ReplaceSlot
    <3> QED BY <1>0, <2>1, <3>1, PutKeepsTypes
  <2> QED BY <1>2, <2>3, <2>4, <2>5
<1> QED BY <1>1, <1>2

LEMMA TypesKept ==
  ASSUME TypeOK, HeardIsOwn, RecordsAreOwn, [Next]_vars
  PROVE  TypeOK'
<1>1. CASE SpawnAgent \/ Rerun \/ Load
  <2>1. PICK resume \in Conv \cup {None} :
           \/ StopsAt(resume)
           \/ \E id \in 1..MaxId, run \in 0..MaxRun :
                Launches(id, run, resume) /\ nextId' \in 1..MaxId + 1
    BY <1>1, LaunchOrLoad
  <2> QED BY <2>1, RowKeepsTypes, LaunchKeepsTypes DEF Launches
<1>2. CASE Remove \/ Die
  BY <1>2, RowKeepsTypes
<1>3. CASE Save \/ EditRecipe
  BY <1>3, FilesKeepTypes
<1>4. ASSUME NEW n \in DOMAIN procs,
             \/ \E conv \in Conv : Switch(n, conv)
             \/ FirstTurn(n) \/ Exit(n) \/ UpdateRecord(n)
      PROVE  TypeOK'
  BY <1>4, AgentKeepsTypes
<1>5. CASE \/ \E n \in DOMAIN procs : Hook(n) \/ ForkHook(n) \/ Notify(n) \/ Report(n)
           \/ \E w \in writers : Stamp(w) \/ Payload(w) \/ ReplaceSlot(w)
  BY <1>5, SlotKeepsTypes
<1>6. CASE UNCHANGED vars
  BY <1>6 DEF vars, core, world, recipes, TypeOK
<1> QED BY <1>1, <1>2, <1>3, <1>4, <1>5, <1>6 DEF Next

-----------------------------------------------------------------------------
(* Capture files are those of one run.                                     *)

Unused(p) == \A n \in DOMAIN procs : procs[n].path # p

\* Slots and writers are kept or go; nothing comes to a file.
Fades ==
  /\ writers' \subseteq writers
  /\ \A p \in Path : slot'[p] = slot[p] \/ (slot'[p] = Blank /\ \A w \in writers' : w.path = p => kind = "codex")

LEMMA RetireFades ==
  ASSUME TypeOK, slot' = Unlinked(slot) \/ slot' = Reaped(Unlinked(slot)),
         writers' = {w \in writers : Writes(w)}
  PROVE  Fades
<1> SUFFICES ASSUME NEW p \in Path
             PROVE  slot'[p] = slot[p] \/ (slot'[p] = Blank /\ \A w \in writers' : w.path = p => kind = "codex")
  BY DEF Fades
<1>1. slot \in [Path -> Payloads] /\ (row.proc # 0 => procs[row.proc].path \in Path)
  BY ProcessTyped DEF TypeOK
<1>2. \/ Unlinked(slot)[p] = slot[p]
      \/ row.proc # 0 /\ p = procs[row.proc].path /\ Unlinked(slot)[p] = Blank
  BY <1>1 DEF Unlinked
<1>3. CASE slot'[p] = Unlinked(slot)[p]
  BY <1>2, <1>3 DEF Writes
<1>4. CASE p[1] < life /\ slot'[p] = Blank
  <2>1. p[1] # life BY <1>4 DEF TypeOK, Path
  <2> QED BY <1>4, <2>1 DEF Writes
<1> QED BY <1>3, <1>4 DEF Reaped

\* No process has had the file of a run that is launched.
LEMMA PathIsFresh ==
  ASSUME TypeOK, PathsAreOwn, NEW id \in 1..MaxId, NEW run \in 0..MaxRun, NEW resume,
         Launches(id, run, resume)
  PROVE  <<life, id, run>> \in Path /\ Unused(<<life, id, run>>)
<1> DEFINE q == <<life, id, run>>
<1>1. q \in Path /\ q[1] = life /\ q[2] = id /\ q[3] = run
  BY DEF TypeOK, Path
<1>2. nextId \in Nat /\ row.id \in Nat /\ row.run \in Nat
  BY CaptureAssumption DEF TypeOK
<1> SUFFICES ASSUME NEW n \in DOMAIN procs, procs[n].path = q PROVE FALSE
  BY <1>1 DEF Unused
<1>3. id < nextId /\ (id = row.id => run <= row.run)
  <2> HIDE DEF q
  <2> QED BY <1>1 DEF PathsAreOwn
<1> QED BY <1>2, <1>3 DEF Launches

LEMMA LaunchKeepsPaths ==
  ASSUME TypeOK, PathsAreOwn, NEW id \in 1..MaxId, NEW run \in 0..MaxRun,
         NEW resume \in Conv \cup {None}, Launches(id, run, resume)
  PROVE  PathsAreOwn'
<1>1. PICK new \in Process, given \in Conv \cup {None} : Launched(id, run, resume, new, given)
  BY LaunchEffect DEF Launches
<1> DEFINE N == Len(procs) + 1  q == <<life, id, run>>
<1>2. q \in Path /\ Unused(q) /\ q[1] = life /\ q[2] = id /\ q[3] = run
  BY PathIsFresh DEF TypeOK, Path
<1>3. nextId \in Nat /\ row.id \in Nat /\ row.run \in Nat /\ life \in Nat
  BY CaptureAssumption DEF TypeOK
<1>4. /\ DOMAIN procs' = DOMAIN procs \cup {N} /\ N \notin DOMAIN procs
      /\ procs'[N].path = q /\ \A n \in DOMAIN procs : procs'[n] = procs[n]
      /\ row'.id = id /\ row'.run = run /\ life' = life
  BY <1>1 DEF Launched
<1> HIDE DEF q, N
<1>5. \/ row = NoRow /\ id = nextId /\ nextId' = nextId + 1
      \/ row.id # 0 /\ id = row.id /\ run = row.run + 1 /\ nextId' = nextId
  BY DEF Launches
<1>6. row'.id < nextId'
  BY <1>3, <1>4, <1>5 DEF PathsAreOwn
<1>7. \A m, n \in DOMAIN procs' : m # n => procs'[m].path # procs'[n].path
  BY <1>2, <1>4 DEF PathsAreOwn, Unused
<1>8. \A n \in DOMAIN procs' : LET p == procs'[n].path IN
        /\ p[1] <= life'
        /\ p[1] = life' => p[2] < nextId' /\ (p[2] = row'.id => p[3] <= row'.run)
  <2>1. \A n \in DOMAIN procs : procs[n].path \in Path
    BY ProcessTyped
  <2> SUFFICES ASSUME NEW n \in DOMAIN procs', NEW p, p = procs'[n].path
               PROVE  /\ p[1] <= life'
                      /\ p[1] = life' => p[2] < nextId' /\ (p[2] = row'.id => p[3] <= row'.run)
    OBVIOUS
  <2>2. p \in Path
    BY <1>2, <1>4, <2>1
  <2>3. p[1] \in Nat /\ p[2] \in Nat /\ p[3] \in Nat
    BY <2>2, CaptureAssumption DEF Path
  <2>4. CASE n = N
    BY <1>2, <1>3, <1>4, <1>6, <2>4
  <2>5. CASE n \in DOMAIN procs
    <3>1. p = procs[n].path BY <1>4, <2>5
    <3>2. p[1] <= life /\ (p[1] = life => p[2] < nextId /\ (p[2] = row.id => p[3] <= row.run))
      BY <2>5, <3>1 DEF PathsAreOwn
    <3> QED BY <1>3, <1>4, <1>5, <2>3, <3>2
  <2> QED BY <1>4, <2>4, <2>5
<1>9. \A p \in Path : (\A n \in DOMAIN procs' : procs'[n].path # p)
        => slot'[p] = Blank /\ \A w \in writers' : w.path # p
  <2>1. Fades
    BY <1>1, RetireFades DEF Launched
  <2>2. \A p \in Path : (\A n \in DOMAIN procs' : procs'[n].path # p) => Unused(p)
    BY <1>4 DEF Unused
  <2> QED BY <2>1, <2>2 DEF Fades, PathsAreOwn, Unused
<1> QED BY <1>6, <1>7, <1>8, <1>9 DEF PathsAreOwn

\* The other steps launch nothing.
LEMMA PathsFrame ==
  ASSUME TypeOK, PathsAreOwn, DOMAIN procs' = DOMAIN procs,
         \A n \in DOMAIN procs : procs'[n].path = procs[n].path,
         \/ UNCHANGED <<life, nextId, row>>
         \/ row' = NoRow /\ (UNCHANGED <<life, nextId>> \/ (life' = life + 1 /\ nextId' = 1))
         \/ \E resume : StopsAt(resume),
         \A p \in Path : Unused(p) => slot'[p] = Blank /\ \A w \in writers' : w.path # p
  PROVE  PathsAreOwn'
<1>1. /\ nextId \in Nat \ {0} /\ row.id \in Nat /\ row.run \in Nat /\ life \in Nat
      /\ \A p \in Path : p[1] \in Nat /\ p[2] \in Nat \ {0} /\ p[3] \in Nat
  BY CaptureAssumption DEF TypeOK, Path
<1>2. row'.id < nextId'
  BY <1>1 DEF PathsAreOwn, NoRow, StopsAt
<1>3. \A m, n \in DOMAIN procs' : m # n => procs'[m].path # procs'[n].path
  BY DEF PathsAreOwn
<1>4. ASSUME NEW n \in DOMAIN procs', NEW p, p = procs'[n].path
      PROVE  /\ p[1] <= life'
             /\ p[1] = life' => p[2] < nextId' /\ (p[2] = row'.id => p[3] <= row'.run)
  <2>1. p \in Path /\ p = procs[n].path
    BY <1>4, ProcessTyped
  <2>2. p[1] <= life /\ (p[1] = life => p[2] < nextId /\ (p[2] = row.id => p[3] <= row.run))
    BY <1>4, <2>1 DEF PathsAreOwn
  <2>3. p[1] \in Nat /\ p[2] \in Nat \ {0} /\ p[3] \in Nat
    BY <1>1, <2>1
  <2>4. CASE UNCHANGED <<life, nextId, row>>
    BY <2>2, <2>4
  <2>5. CASE row' = NoRow /\ (UNCHANGED <<life, nextId>> \/ (life' = life + 1 /\ nextId' = 1))
    BY <1>1, <2>2, <2>3, <2>5 DEF NoRow
  <2>6. CASE \E resume : StopsAt(resume)
    BY <1>1, <2>2, <2>3, <2>6 DEF StopsAt
  <2> QED BY <2>4, <2>5, <2>6
<1>5. \A p \in Path : (\A n \in DOMAIN procs' : procs'[n].path # p)
        => slot'[p] = Blank /\ \A w \in writers' : w.path # p
  BY DEF Unused
<1> QED BY <1>2, <1>3, <1>4, <1>5 DEF PathsAreOwn

-----------------------------------------------------------------------------
(* What is told is one's own.                                              *)

\* Processes keep their PIDs and files, and what was on screen stays shown.
Grows ==
  /\ UNCHANGED kind /\ onDisk \subseteq onDisk' /\ astray \subseteq astray' /\ DOMAIN procs \subseteq DOMAIN procs'
  /\ \A n \in DOMAIN procs :
       /\ procs'[n].pid = procs[n].pid /\ procs'[n].path = procs[n].path
       /\ procs'[n].conv \in shown'[n] /\ shown[n] \subseteq shown'[n]

\* Own, after the step.
OwnNext(conv, n) == conv \in shown'[n] \cup astray' /\ (kind' \in {"claude", "grok"} \/ conv \in onDisk')

LEMMA OwnGrows ==
  ASSUME Grows, NEW n \in DOMAIN procs, NEW conv, Own(conv, n)
  PROVE  OwnNext(conv, n)
BY DEF Grows, Own, CanResume, Pins, OwnNext

LEMMA HeardFrame ==
  ASSUME TypeOK, PathsAreOwn, HeardIsOwn, Grows, Fades,
         \A n \in DOMAIN procs' \ DOMAIN procs :
           procs'[n].conv \in shown'[n] /\ procs'[n].path \in Path /\ Unused(procs'[n].path)
  PROVE  HeardIsOwn'
<1>1. ASSUME NEW n \in DOMAIN procs'
      PROVE  /\ procs'[n].conv \in shown'[n]
             /\ LET s == slot'[procs'[n].path] IN
                  s.conv # None /\ (kind' = "claude" => procs'[n].pid \in {s.stamp, s.by})
                    => OwnNext(s.conv, n)
             /\ \A w \in writers' :
                  w.path = procs'[n].path /\ (kind' = "claude" => w.stamp = procs'[n].pid)
                    => OwnNext(w.conv, n)
  <2>1. CASE n \in DOMAIN procs
    <3> DEFINE p == procs[n].path
    <3>1. p \in Path /\ procs'[n].path = p /\ procs'[n].pid = procs[n].pid
          /\ procs'[n].conv \in shown'[n] /\ kind' = kind
      BY <2>1, ProcessTyped DEF Grows
    <3>2. slot'[p] = slot[p] \/ slot'[p].conv = None
      BY <3>1 DEF Fades, Blank
    <3> HIDE DEF p
    <3>3. slot[p].conv # None /\ (kind = "claude" => procs[n].pid \in {slot[p].stamp, slot[p].by})
            => OwnNext(slot[p].conv, n)
      BY <2>1, OwnGrows DEF HeardIsOwn, p
    <3>4. \A w \in writers' :
            w.path = p /\ (kind = "claude" => w.stamp = procs[n].pid) => OwnNext(w.conv, n)
      BY <2>1, OwnGrows DEF HeardIsOwn, Fades, p
    <3> QED BY <3>1, <3>2, <3>3, <3>4
  <2>2. CASE n \notin DOMAIN procs
    <3> DEFINE p == procs'[n].path
    <3>1. p \in Path /\ Unused(p) /\ procs'[n].conv \in shown'[n]
      BY <2>2
    <3>2. slot[p] = Blank /\ \A w \in writers : w.path # p
      BY <3>1 DEF PathsAreOwn, Unused
    <3>3. slot'[p] = Blank /\ \A w \in writers' : w.path # p
      BY <3>1, <3>2 DEF Fades
    <3> HIDE DEF p
    <3>4. slot'[p].conv = None
      BY <3>3 DEF Blank
    <3> QED BY <3>1, <3>3, <3>4 DEF p
  <2> QED BY <2>1, <2>2
<1>3. HeardIsOwn'
  BY <1>1 DEF HeardIsOwn, Own, CanResume, Pins, OwnNext
<1> QED BY <1>3

LEMMA RecordsFrame ==
  ASSUME TypeOK, RecordsAreOwn, Grows, UNCHANGED record
  PROVE  RecordsAreOwn'
<1> SUFFICES ASSUME NEW p \in Pid, record[p].proc # 0
             PROVE  record[p].proc \in DOMAIN procs' /\ record[p].conv \in shown'[record[p].proc] \cup astray'
  BY DEF RecordsAreOwn
<1> QED BY DEF RecordsAreOwn, Grows

\* A record that a launch takes over is astray.
LEMMA RecordsInherited ==
  ASSUME TypeOK, RecordsAreOwn, Grows, Inherited, Len(procs) + 1 \in DOMAIN procs'
  PROVE  RecordsAreOwn'
<1>1. CASE UNCHANGED <<record, astray>>
  BY <1>1, RecordsFrame
<1>2. ASSUME NEW pid \in Pid, record' = [record EXCEPT ![pid].proc = Len(procs) + 1],
             astray' = astray \cup {record[pid].conv}
      PROVE  RecordsAreOwn'
  <2> DEFINE N == Len(procs) + 1
  <2>1. record \in [Pid -> [proc : Nat, conv : Conv]]
    BY DEF TypeOK
  <2> HIDE DEF N
  <2>2. record' = [record EXCEPT ![pid].proc = N] /\ N \in DOMAIN procs'
    BY <1>2 DEF N
  <2>3. /\ record'[pid].proc = N /\ record'[pid].conv = record[pid].conv
        /\ \A p \in Pid \ {pid} : record'[p] = record[p]
    BY <2>1, <2>2
  <2> SUFFICES ASSUME NEW p \in Pid, record'[p].proc # 0
               PROVE  /\ record'[p].proc \in DOMAIN procs'
                      /\ record'[p].conv \in shown'[record'[p].proc] \cup astray'
    BY DEF RecordsAreOwn
  <2>4. CASE p = pid
    BY <1>2, <2>2, <2>3, <2>4
  <2>5. CASE p # pid
    BY <2>3, <2>5 DEF RecordsAreOwn, Grows
  <2> QED BY <2>4, <2>5
<1> QED BY <1>1, <1>2 DEF Inherited

\* A hook or helper starts, ends or goes on; no file is written.
LEMMA StartStep ==
  ASSUME TypeOK, PathsAreOwn, HeardIsOwn,
         UNCHANGED <<kind, life, nextId, row, procs, shown, slot, onDisk>>, astray \subseteq astray',
         NEW n \in DOMAIN procs, NEW p \in Path, p = procs[n].path,
         \A w \in writers' : w \in writers
           \/ (w.path = p /\ ((kind = "claude" => w.stamp = procs[n].pid) => Own(w.conv, n)))
  PROVE  PathsAreOwn' /\ HeardIsOwn'
<1>1. PathsAreOwn'
  <2>1. ASSUME NEW q \in Path, Unused(q) PROVE slot'[q] = Blank /\ \A w \in writers' : w.path # q
    <3>1. q # p BY <2>1 DEF Unused
    <3>2. slot[q] = Blank /\ \A w \in writers : w.path # q
      BY <2>1 DEF PathsAreOwn, Unused
    <3> QED BY <3>1, <3>2
  <2> QED BY <2>1, PathsFrame
<1>2. Grows
  BY DEF Grows, HeardIsOwn
<1>3. HeardIsOwn'
  <2> SUFFICES ASSUME NEW m \in DOMAIN procs
      PROVE  /\ procs[m].conv \in shown[m]
             /\ LET t == slot[procs[m].path] IN
                  t.conv # None /\ (kind = "claude" => procs[m].pid \in {t.stamp, t.by}) => OwnNext(t.conv, m)
             /\ \A w \in writers' :
                  w.path = procs[m].path /\ (kind = "claude" => w.stamp = procs[m].pid) => OwnNext(w.conv, m)
    BY DEF HeardIsOwn, Own, CanResume, Pins, OwnNext
  <2>1. procs[m].conv \in shown[m]
    BY DEF HeardIsOwn
  <2>2. LET t == slot[procs[m].path] IN
          t.conv # None /\ (kind = "claude" => procs[m].pid \in {t.stamp, t.by}) => OwnNext(t.conv, m)
    BY <1>2, OwnGrows DEF HeardIsOwn
  <2>3. ASSUME NEW w \in writers', w.path = procs[m].path, kind = "claude" => w.stamp = procs[m].pid
        PROVE  Own(w.conv, m)
    BY <2>3 DEF HeardIsOwn, PathsAreOwn
  <2> QED BY <1>2, <2>1, <2>2, <2>3, OwnGrows
<1> QED BY <1>1, <1>3

\* A capture file is opened or written.
LEMMA PutStep ==
  ASSUME TypeOK, PathsAreOwn, HeardIsOwn, RecordsAreOwn,
         NEW n \in DOMAIN procs, NEW p \in Path, p = procs[n].path, NEW s, Put(p, s),
         s.conv # None /\ (kind = "claude" => s.by = procs[n].pid) => Own(s.conv, n),
         \A w \in writers' : w \in writers
           \/ (w.path = p /\ ((kind = "claude" => w.stamp = procs[n].pid) => Own(w.conv, n)))
  PROVE  PathsAreOwn' /\ HeardIsOwn' /\ RecordsAreOwn' /\ Grows
<1>0. /\ UNCHANGED <<kind, life, nextId, row, procs, shown, record, onDisk>>
      /\ slot' = [slot EXCEPT ![p] = s] /\ astray' = astray \cup Strays(p, s)
  BY DEF Put, core
<1>1. slot'[p] = s /\ \A q \in Path \ {p} : slot'[q] = slot[q]
  BY <1>0 DEF TypeOK
<1>2. PathsAreOwn'
  <2>1. ASSUME NEW q \in Path, Unused(q) PROVE slot'[q] = Blank /\ \A w \in writers' : w.path # q
    <3>1. q # p BY <2>1 DEF Unused
    <3>2. slot[q] = Blank /\ \A w \in writers : w.path # q
      BY <2>1 DEF PathsAreOwn, Unused
    <3> QED BY <1>1, <3>1, <3>2
  <2>2. UNCHANGED <<life, nextId, row>> /\ DOMAIN procs' = DOMAIN procs
        /\ \A m \in DOMAIN procs : procs'[m].path = procs[m].path
    BY <1>0
  <2> QED BY <2>1, <2>2, PathsFrame
<1>3. Grows
  BY <1>0 DEF Grows, HeardIsOwn
<1>4. s.conv # None /\ (kind = "claude" => procs[n].pid \in {s.stamp, s.by}) => OwnNext(s.conv, n)
  <2> SUFFICES ASSUME s.conv # None, kind = "claude" => procs[n].pid \in {s.stamp, s.by}
               PROVE  OwnNext(s.conv, n)
    OBVIOUS
  <2>1. CASE kind = "claude" => s.by = procs[n].pid
    BY <1>3, <2>1, OwnGrows
  <2>2. CASE kind = "claude" /\ s.by # procs[n].pid
    <3>1. s.conv \in Strays(p, s)
      BY <2>2 DEF Strays
    <3>2. s.conv \in astray' /\ kind' = "claude"
      BY <1>0, <2>2, <3>1
    <3> QED BY <3>2 DEF OwnNext
  <2> QED BY <2>1, <2>2
<1>5. HeardIsOwn'
  <2> SUFFICES ASSUME NEW m \in DOMAIN procs
      PROVE  /\ procs[m].conv \in shown[m]
             /\ LET t == slot'[procs[m].path] IN
                  t.conv # None /\ (kind = "claude" => procs[m].pid \in {t.stamp, t.by}) => OwnNext(t.conv, m)
             /\ \A w \in writers' :
                  w.path = procs[m].path /\ (kind = "claude" => w.stamp = procs[m].pid) => OwnNext(w.conv, m)
    BY <1>0 DEF HeardIsOwn, Own, CanResume, Pins, OwnNext
  <2>1. procs[m].conv \in shown[m]
    BY DEF HeardIsOwn
  <2>2. \A w \in writers' :
          w.path = procs[m].path /\ (kind = "claude" => w.stamp = procs[m].pid) => OwnNext(w.conv, m)
    <3>1. ASSUME NEW w \in writers', w.path = procs[m].path, kind = "claude" => w.stamp = procs[m].pid
          PROVE  Own(w.conv, m)
      BY <3>1 DEF HeardIsOwn, PathsAreOwn
    <3> QED BY <1>3, <3>1, OwnGrows
  <2>3. CASE m = n
    BY <1>1, <1>4, <2>1, <2>2, <2>3
  <2>4. CASE m # n
    <3>1. procs[m].path # p /\ procs[m].path \in Path
      BY <2>4, ProcessTyped DEF PathsAreOwn
    <3>2. slot'[procs[m].path] = slot[procs[m].path]
      BY <1>1, <3>1
    <3>3. LET t == slot[procs[m].path] IN
            t.conv # None /\ (kind = "claude" => procs[m].pid \in {t.stamp, t.by}) => OwnNext(t.conv, m)
      BY <1>3, OwnGrows DEF HeardIsOwn
    <3> QED BY <2>1, <2>2, <3>2, <3>3
  <2> QED BY <2>3, <2>4
<1>6. RecordsAreOwn'
  BY <1>0, <1>3, RecordsFrame
<1> QED BY <1>2, <1>3, <1>5, <1>6

LEMMA LaunchKeepsSlots ==
  ASSUME TypeOK, SlotInv, NEW id \in 1..MaxId, NEW run \in 0..MaxRun,
         NEW resume \in Conv \cup {None}, Launches(id, run, resume)
  PROVE  SlotInv' /\ Grows
<1>0. PathsAreOwn /\ HeardIsOwn /\ RecordsAreOwn
  BY DEF SlotInv
<1>1. PICK new \in Process, given \in Conv \cup {None} : Launched(id, run, resume, new, given)
  BY LaunchEffect DEF Launches
<1>2. Fades
  BY <1>1, RetireFades DEF Launched
<1>5. Inherited /\ Len(procs) + 1 \in DOMAIN procs'
  BY <1>1 DEF Launched
<1>3. Grows
  <2>1. astray \subseteq astray'
    BY <1>5 DEF Inherited
  <2> QED BY <1>0, <1>1, <2>1 DEF Launched, Grows, HeardIsOwn
<1>4. \A n \in DOMAIN procs' \ DOMAIN procs :
        procs'[n].conv \in shown'[n] /\ procs'[n].path \in Path /\ Unused(procs'[n].path)
  <2>1. /\ DOMAIN procs' = DOMAIN procs \cup {Len(procs) + 1} /\ new.path = <<life, id, run>>
        /\ procs'[Len(procs) + 1] = new /\ shown'[Len(procs) + 1] = {new.conv}
    BY <1>1 DEF Launched
  <2>2. <<life, id, run>> \in Path /\ Unused(<<life, id, run>>)
    BY <1>0, PathIsFresh
  <2> QED BY <2>1, <2>2
<1>6. RecordsAreOwn'
  BY <1>0, <1>3, <1>5, RecordsInherited
<1> QED BY <1>0, <1>2, <1>3, <1>4, <1>6, LaunchKeepsPaths, HeardFrame DEF SlotInv

\* Steps that launch nothing and write into no file.
LEMMA QuietKeepsSlots ==
  ASSUME TypeOK, SlotInv, Grows, Fades, DOMAIN procs' = DOMAIN procs,
         \/ UNCHANGED <<life, nextId, row>>
         \/ row' = NoRow /\ (UNCHANGED <<life, nextId>> \/ (life' = life + 1 /\ nextId' = 1))
         \/ \E resume : StopsAt(resume),
         UNCHANGED record
  PROVE  SlotInv'
<1>1. PathsAreOwn /\ HeardIsOwn /\ RecordsAreOwn
  BY DEF SlotInv
<1>2. ASSUME NEW p \in Path, Unused(p) PROVE slot'[p] = Blank /\ \A w \in writers' : w.path # p
  <2>1. slot[p] = Blank /\ \A w \in writers : w.path # p
    BY <1>1, <1>2 DEF PathsAreOwn, Unused
  <2> QED BY <2>1 DEF Fades
<1>3. \A n \in DOMAIN procs : procs'[n].path = procs[n].path
  BY DEF Grows
<1>4. PathsAreOwn'
  BY <1>1, <1>2, <1>3, PathsFrame
<1> QED BY <1>1, <1>4, HeardFrame, RecordsFrame DEF SlotInv

LEMMA StillGrows ==
  ASSUME HeardIsOwn, UNCHANGED <<kind, procs, shown, onDisk, astray>>
  PROVE  Grows
BY DEF Grows, HeardIsOwn

LEMMA RowKeepsSlots ==
  ASSUME TypeOK, SlotInv, Remove \/ Die \/ \E resume \in Conv \cup {None} : StopsAt(resume)
  PROVE  SlotInv' /\ Grows
<1>1. HeardIsOwn
  BY DEF SlotInv
<1>2. CASE Remove
  <2>1. Grows BY <1>1, <1>2, StillGrows DEF Remove
  <2>2. Fades BY <1>2, RetireFades DEF Remove
  <2>3. DOMAIN procs' = DOMAIN procs /\ UNCHANGED <<life, nextId, record>> /\ row' = NoRow
    BY <1>2 DEF Remove
  <2> QED BY <2>1, <2>2, <2>3, QuietKeepsSlots
<1>3. CASE Die
  <2>1. Grows BY <1>1, <1>3, StillGrows DEF Die
  <2>2. Fades
    <3>1. PICK dropped \in BOOLEAN :
           /\ slot' = IF dropped THEN [p \in Path |-> IF p[1] = life THEN Blank ELSE slot[p]] ELSE slot
           /\ writers' = IF dropped THEN {w \in writers : w.path[1] # life} ELSE writers
      BY <1>3 DEF Die
    <3> QED BY <3>1 DEF Fades
  <2>3. /\ DOMAIN procs' = DOMAIN procs /\ UNCHANGED record /\ row' = NoRow
        /\ life' = life + 1 /\ nextId' = 1
    BY <1>3 DEF Die
  <2> QED BY <2>1, <2>2, <2>3, QuietKeepsSlots
<1>4. ASSUME NEW resume \in Conv \cup {None}, StopsAt(resume) PROVE SlotInv' /\ Grows
  <2>1. Grows BY <1>1, <1>4, StillGrows DEF StopsAt, world
  <2>2. Fades /\ DOMAIN procs' = DOMAIN procs /\ UNCHANGED record
    BY <1>4 DEF Fades, StopsAt, world
  <2> QED BY <1>4, <2>1, <2>2, QuietKeepsSlots
<1> QED BY <1>2, <1>3, <1>4

LEMMA FilesKeepSlots ==
  ASSUME TypeOK, SlotInv, Save \/ EditRecipe \/ UNCHANGED vars
  PROVE  SlotInv' /\ Grows
<1>1. UNCHANGED <<kind, life, nextId, row, procs, shown, slot, writers, record, onDisk, astray>>
  BY DEF Save, EditRecipe, vars, core, world
<1>2. Grows /\ Fades
  BY <1>1, StillGrows DEF SlotInv, Fades
<1> QED BY <1>1, <1>2, QuietKeepsSlots

LEMMA AgentKeepsSlots ==
  ASSUME TypeOK, SlotInv, NEW n \in DOMAIN procs,
         \/ \E conv \in Conv : Switch(n, conv)
         \/ FirstTurn(n) \/ Exit(n) \/ UpdateRecord(n)
  PROVE  SlotInv' /\ Grows
<1>1. PathsAreOwn /\ HeardIsOwn /\ RecordsAreOwn
  BY DEF SlotInv
<1>2. n \in DOMAIN shown /\ DOMAIN shown = DOMAIN procs
  BY ProcessTyped DEF TypeOK
<1>3. ASSUME NEW conv \in Conv, Switch(n, conv) PROVE SlotInv' /\ Grows
  <2>1. /\ procs' = [procs EXCEPT ![n].conv = conv] /\ shown' = [shown EXCEPT ![n] = @ \cup {conv}]
        /\ UNCHANGED <<kind, life, nextId, row, slot, writers, record, onDisk, astray>>
    BY <1>3 DEF Switch, core
  <2>2. \A m \in DOMAIN procs :
          /\ procs'[m].pid = procs[m].pid /\ procs'[m].path = procs[m].path
          /\ procs'[m].conv \in shown'[m] /\ shown[m] \subseteq shown'[m]
    <3> SUFFICES ASSUME NEW m \in DOMAIN procs
                 PROVE  /\ procs'[m].pid = procs[m].pid /\ procs'[m].path = procs[m].path
                        /\ procs'[m].conv \in shown'[m] /\ shown[m] \subseteq shown'[m]
      OBVIOUS
    <3>1. procs[m] \in Process BY ProcessTyped
    <3>2. CASE m = n
      BY <1>2, <2>1, <3>1, <3>2 DEF Process
    <3>3. CASE m # n
      BY <1>1, <1>2, <2>1, <3>3 DEF HeardIsOwn
    <3> QED BY <3>2, <3>3
  <2>3. DOMAIN procs' = DOMAIN procs
    BY <2>1
  <2>4. Grows /\ Fades
    BY <2>1, <2>2, <2>3 DEF Grows, Fades
  <2> QED BY <2>1, <2>3, <2>4, QuietKeepsSlots
<1>4. CASE FirstTurn(n)
  <2>1. UNCHANGED <<kind, life, nextId, row, procs, shown, slot, writers, record, astray>> /\ onDisk \subseteq onDisk'
    BY <1>4 DEF FirstTurn, core
  <2>2. Grows /\ Fades
    BY <1>1, <2>1 DEF Grows, Fades, HeardIsOwn
  <2> QED BY <2>1, <2>2, QuietKeepsSlots
<1>5. CASE Exit(n)
  <2>1. /\ procs' = [procs EXCEPT ![n].live = FALSE]
        /\ UNCHANGED <<kind, life, nextId, row, shown, slot, writers, record, onDisk, astray>>
    BY <1>5 DEF Exit, core
  <2>2. DOMAIN procs' = DOMAIN procs /\ \A m \in DOMAIN procs :
          procs'[m].pid = procs[m].pid /\ procs'[m].path = procs[m].path /\ procs'[m].conv = procs[m].conv
    <3>1. \A m \in DOMAIN procs : procs[m] \in Process BY ProcessTyped
    <3> QED BY <2>1, <3>1 DEF Process
  <2>3. Grows /\ Fades
    BY <1>1, <2>1, <2>2 DEF Grows, Fades, HeardIsOwn
  <2> QED BY <2>1, <2>2, <2>3, QuietKeepsSlots
<1>6. CASE UpdateRecord(n)
  <2>1. /\ UNCHANGED <<kind, life, nextId, row, procs, shown, slot, writers, onDisk, astray>>
        /\ record' = [record EXCEPT ![procs[n].pid] = [proc |-> n, conv |-> procs[n].conv]]
    BY <1>6 DEF UpdateRecord, core
  <2>2. Grows
    BY <1>1, <2>1, StillGrows
  <2>3. PathsAreOwn' /\ HeardIsOwn'
    BY <1>1, <2>1 DEF PathsAreOwn, HeardIsOwn, Own, CanResume, Pins
  <2>4. RecordsAreOwn'
    <3>1. DOMAIN record = Pid /\ procs[n].conv \in shown[n]
      BY <1>1 DEF TypeOK, HeardIsOwn
    <3> QED BY <1>1, <2>1, <3>1 DEF RecordsAreOwn
  <2> QED BY <2>2, <2>3, <2>4 DEF SlotInv
<1> QED BY <1>3, <1>4, <1>5, <1>6

LEMMA HookKeepsSlots ==
  ASSUME TypeOK, SlotInv, NEW n \in DOMAIN procs, Hook(n) \/ ForkHook(n)
  PROVE  SlotInv' /\ Grows
<1>1. PathsAreOwn /\ HeardIsOwn /\ RecordsAreOwn
  BY DEF SlotInv
<1>2. PICK pid \in Pid, conv \in Conv :
        HookOf(n, pid, conv) /\ (pid = procs[n].pid => conv = procs[n].conv)
  <2>1. procs[n].pid \in Pid /\ procs[n].conv \in Conv
    BY ProcessTyped
  <2>2. CASE Hook(n)
    BY <2>1, <2>2 DEF Hook
  <2>3. CASE ForkHook(n)
    <3>1. PICK pid \in Pid \ InUse : HookOf(n, pid, Fork)
      BY <2>3 DEF ForkHook
    <3>2. procs[n].live
      BY <3>1 DEF HookOf, Starts, Ours
    <3>3. procs[n].pid \in InUse
      BY <3>2 DEF InUse
    <3> QED BY <3>1, <3>3, CaptureAssumption
  <2> QED BY <2>2, <2>3
<1> DEFINE p == procs[n].path
<1>3. /\ p \in Path /\ kind = "claude" /\ Put(p, Blank)
      /\ writers' = writers \cup {[path |-> p, stamp |-> pid, conv |-> conv, stamped |-> FALSE]}
  BY <1>2, ProcessTyped DEF HookOf, Starts
<1>4. pid = procs[n].pid => Own(conv, n)
  BY <1>1, <1>2, <1>3 DEF HeardIsOwn, Own, CanResume, Pins
<1>5. \A w \in writers' : w \in writers
           \/ (w.path = p /\ ((kind = "claude" => w.stamp = procs[n].pid) => Own(w.conv, n)))
  BY <1>3, <1>4
<1>6. Blank.conv = None
  BY DEF Blank
<1> HIDE DEF p
<1> QED BY <1>1, <1>3, <1>5, <1>6, PutStep DEF SlotInv, p

LEMMA NotifyKeepsSlots ==
  ASSUME TypeOK, SlotInv, NEW n \in DOMAIN procs, Notify(n) \/ Report(n)
  PROVE  SlotInv' /\ Grows
<1>1. PathsAreOwn /\ HeardIsOwn /\ RecordsAreOwn
  BY DEF SlotInv
<1> DEFINE p == procs[n].path
<1>2. p \in Path /\ procs[n].conv \in shown[n] /\ slot \in [Path -> Payloads]
  BY <1>1, ProcessTyped DEF HeardIsOwn, TypeOK
<1>3. CASE Notify(n)
  <2>1. PICK thread \in {procs[n].conv, Sub, Title} :
          \E root \in RootThread(thread, procs[n].conv) : Starts(n, None, root)
    BY <1>3 DEF Notify
  <2>2. PICK root \in RootThread(thread, procs[n].conv) : Starts(n, None, root)
    BY <2>1
  <2>3. Own(root, n)
    BY <1>2, NotifiedRoot DEF Own, CanResume
  <2>4. /\ UNCHANGED <<kind, life, nextId, row, procs, shown, slot, record, onDisk, astray>>
        /\ writers' = writers \cup {[path |-> p, stamp |-> None, conv |-> root, stamped |-> FALSE]}
    BY <1>3, <2>2 DEF Notify, Starts, core
  <2>5. \A w \in writers' : w \in writers
          \/ (w.path = p /\ ((kind = "claude" => w.stamp = procs[n].pid) => Own(w.conv, n)))
    BY <2>3, <2>4
  <2> HIDE DEF p
  <2>6. PathsAreOwn' /\ HeardIsOwn'
    BY <1>1, <1>2, <2>4, <2>5, StartStep DEF p
  <2>7. Grows
    BY <1>1, <2>4, StillGrows
  <2> QED BY <1>1, <2>4, <2>6, <2>7, RecordsFrame DEF SlotInv
<1>4. CASE Report(n)
  <2> DEFINE s == Unstamped(procs[n].conv)
  <2>1. /\ kind = "omp" /\ Put(p, s) /\ UNCHANGED writers /\ procs[n].conv \in onDisk
    BY <1>4 DEF Report
  <2>2. Own(s.conv, n)
    BY <1>2, <2>1 DEF Own, CanResume, Unstamped
  <2> HIDE DEF s, p
  <2> QED BY <1>1, <1>2, <2>1, <2>2, PutStep DEF SlotInv, p
<1> QED BY <1>3, <1>4

LEMMA LandingKeepsSlots ==
  ASSUME TypeOK, SlotInv, NEW w \in writers, Stamp(w) \/ Payload(w) \/ ReplaceSlot(w)
  PROVE  SlotInv' /\ Grows
<1>1. PathsAreOwn /\ HeardIsOwn /\ RecordsAreOwn
  BY DEF SlotInv
<1> DEFINE p == w.path
<1>2. p \in Path
  BY DEF TypeOK, Writers
<1>3. PICK n \in DOMAIN procs : p = procs[n].path
  BY <1>1, <1>2 DEF PathsAreOwn
<1>4. (kind = "claude" => w.stamp = procs[n].pid) => Own(w.conv, n)
  BY <1>1, <1>3 DEF HeardIsOwn
<1>5. CASE Stamp(w)
  <2>1. PICK stamp \in Fits(w.stamp, slot[p].by) :
          Put(p, [stamp |-> stamp, conv |-> slot[p].conv, by |-> slot[p].by])
    BY <1>5 DEF Stamp
  <2> DEFINE s == [stamp |-> stamp, conv |-> slot[p].conv, by |-> slot[p].by]
  <2>2. Put(p, s) /\ s.conv = slot[p].conv /\ s.by = slot[p].by /\ kind = "claude"
    BY <1>5, <2>1 DEF Stamp
  <2>3. s.conv # None /\ (kind = "claude" => s.by = procs[n].pid) => Own(s.conv, n)
    <3> HIDE DEF s
    <3> QED BY <1>1, <1>3, <2>2 DEF HeardIsOwn
  <2>4. \A v \in writers' : v \in writers
          \/ (v.path = p /\ ((kind = "claude" => v.stamp = procs[n].pid) => Own(v.conv, n)))
    <3> DEFINE v == [w EXCEPT !.stamped = TRUE]
    <3>1. writers' = (writers \ {w}) \cup {v}
      BY <1>5 DEF Stamp
    <3>2. v.path = p /\ v.stamp = w.stamp /\ v.conv = w.conv
      BY DEF TypeOK, Writers
    <3> HIDE DEF v
    <3> QED BY <1>4, <3>1, <3>2
  <2> HIDE DEF s, p
  <2> QED BY <1>1, <1>2, <1>3, <2>2, <2>3, <2>4, PutStep DEF SlotInv
<1>6. CASE Payload(w)
  <2>1. PICK stamp \in Fits(slot[p].stamp, w.stamp), conv \in {w.conv, None} :
          Put(p, [stamp |-> stamp, conv |-> conv, by |-> IF conv = None THEN None ELSE w.stamp])
    BY <1>6 DEF Payload
  <2> DEFINE s == [stamp |-> stamp, conv |-> conv, by |-> IF conv = None THEN None ELSE w.stamp]
  <2>2. Put(p, s) /\ s.conv = conv /\ (conv # None => s.by = w.stamp)
    BY <2>1
  <2>3. s.conv # None /\ (kind = "claude" => s.by = procs[n].pid) => Own(s.conv, n)
    <3> HIDE DEF s
    <3> QED BY <1>4, <2>1, <2>2
  <2>4. writers' \subseteq writers
    BY <1>6 DEF Payload
  <2> HIDE DEF s, p
  <2> QED BY <1>1, <1>2, <1>3, <2>2, <2>3, <2>4, PutStep DEF SlotInv
<1>7. CASE ReplaceSlot(w)
  <2> DEFINE s == Unstamped(w.conv)
  <2>1. kind = "codex" /\ Put(p, s) /\ s.conv = w.conv /\ writers' \subseteq writers
    BY <1>7 DEF ReplaceSlot, Unstamped
  <2> HIDE DEF s, p
  <2> QED BY <1>1, <1>2, <1>3, <1>4, <2>1, PutStep DEF SlotInv
<1> QED BY <1>5, <1>6, <1>7

LEMMA SlotsKept ==
  ASSUME TypeOK, SlotInv, [Next]_vars
  PROVE  SlotInv' /\ Grows
<1>1. CASE SpawnAgent \/ Rerun \/ Load
  <2>1. PICK resume \in Conv \cup {None} :
           \/ StopsAt(resume)
           \/ \E id \in 1..MaxId, run \in 0..MaxRun :
                Launches(id, run, resume) /\ nextId' \in 1..MaxId + 1
    BY <1>1, LaunchOrLoad DEF SlotInv
  <2> QED BY <2>1, RowKeepsSlots, LaunchKeepsSlots
<1>2. CASE Remove \/ Die
  BY <1>2, RowKeepsSlots
<1>3. CASE Save \/ EditRecipe \/ UNCHANGED vars
  BY <1>3, FilesKeepSlots
<1>4. ASSUME NEW n \in DOMAIN procs,
             \/ \E conv \in Conv : Switch(n, conv)
             \/ FirstTurn(n) \/ Exit(n) \/ UpdateRecord(n)
      PROVE  SlotInv' /\ Grows
  BY <1>4, AgentKeepsSlots
<1>5. ASSUME NEW n \in DOMAIN procs, Hook(n) \/ ForkHook(n) \/ Notify(n) \/ Report(n)
      PROVE  SlotInv' /\ Grows
  BY <1>5, HookKeepsSlots, NotifyKeepsSlots
<1>6. ASSUME NEW w \in writers, Stamp(w) \/ Payload(w) \/ ReplaceSlot(w)
      PROVE  SlotInv' /\ Grows
  BY <1>6, LandingKeepsSlots
<1> QED BY <1>1, <1>2, <1>3, <1>4, <1>5, <1>6 DEF Next

-----------------------------------------------------------------------------
(* What is saved is what is loaded.                                        *)

\* The row, saved, is read back as it was.
LEMMA RowReadsBack ==
  ASSUME TypeOK, SlotInv, NEW n \in Name
  PROVE  /\ Parsed(Written(n, <<RowEntry>>)) = {<<RowEntry>>}
         /\ StoredName(Written(n, <<RowEntry>>)) = n
<1>1. Current \in Conv \cup {None} /\ kind \in Registered /\ kind # None
  BY CurrentIsOwn, Agents DEF SlotInv
<1>2. PICK marks \in SUBSET Marks : RowEntry = Managed(kind, Current, marks) /\ "flagship" \notin marks
  BY DEF RowEntry, Marks
<1>3. RowEntry \in Entries /\ RowEntry.marks = marks
  BY <1>1, <1>2 DEF Managed, Entry, Entries, Conv, None
<1>4. <<RowEntry>> \in Seq(Entries)
  BY <1>3
<1>5. Flagships(<<RowEntry>>) \subseteq {1}
  BY DEF Flagships
<1> QED BY <1>4, <1>5, FlagshipIsFirst, RoundTrip

\* Only save and users write recipes.
LEMMA FilesStay ==
  ASSUME [Next]_vars, ~Save, ~EditRecipe
  PROVE  UNCHANGED <<files, mine>>
<1>1. CASE SpawnAgent \/ Rerun \/ Load
  BY <1>1 DEF SpawnAgent, Rerun, Load, Materialize, Launch, recipes
<1>2. CASE Remove \/ Die \/ UNCHANGED vars
  BY <1>2 DEF Remove, Die, vars, core, recipes
<1>3. ASSUME NEW n \in DOMAIN procs,
             \/ \E conv \in Conv : Switch(n, conv)
             \/ FirstTurn(n) \/ Exit(n) \/ UpdateRecord(n)
             \/ Hook(n) \/ ForkHook(n) \/ Notify(n) \/ Report(n)
      PROVE  UNCHANGED <<files, mine>>
  <2>1. UNCHANGED core
    BY <1>3 DEF Switch, FirstTurn, Exit, UpdateRecord, Hook, ForkHook, HookOf, Starts, Put, Notify, Report
  <2> QED BY <2>1 DEF core, recipes
<1>4. ASSUME NEW w \in writers, Stamp(w) \/ Payload(w) \/ ReplaceSlot(w) PROVE UNCHANGED <<files, mine>>
  BY <1>4 DEF Stamp, Payload, ReplaceSlot, Put, core, recipes
<1> QED BY <1>1, <1>2, <1>3, <1>4 DEF Next

LEMMA SavesKept ==
  ASSUME TypeOK, SlotInv, SavesStand, [Next]_vars
  PROVE  SavesStand'
<1> USE RecipesAssumption
<1>0. DOMAIN files = Stem /\ DOMAIN mine = Name
  BY DEF TypeOK
<1>1. CASE Save
  <2>1. PICK name \in Name : SaveIn(name, <<RowEntry>>)
    BY <1>1 DEF Save
  <2> DEFINE W == Written(name, <<RowEntry>>)  s == sanitize[name]
  <2>2. /\ ~Collides(name) /\ files' = [files EXCEPT ![s] = {W}]
        /\ mine' = [mine EXCEPT ![name] = {<<RowEntry>>}] /\ s \in Stem
    BY <2>1 DEF SaveIn
  <2>3. Parsed(W) = {<<RowEntry>>} /\ StoredName(W) = name
    BY RowReadsBack
  <2> HIDE DEF W
  <2>4. files'[s] = {W} /\ \A t \in Stem \ {s} : files'[t] = files[t]
    BY <1>0, <2>2
  <2> SUFFICES ASSUME NEW n \in Name, mine'[n] # {}
               PROVE  /\ UNION {Parsed(file) : file \in files'[sanitize[n]]} = mine'[n]
                      /\ \A file \in files'[sanitize[n]] : StoredName(file) = n
    BY DEF SavesStand, LoadIn
  <2>5. CASE n = name
    <3>1. mine'[n] = {<<RowEntry>>}
      BY <1>0, <2>2, <2>5
    <3> QED BY <2>3, <2>4, <2>5, <3>1
  <2>6. CASE n # name /\ sanitize[n] = s
    <3>1. mine[n] # {}
      BY <1>0, <2>2, <2>6
    <3>2. PICK file \in files[s] : StoredName(file) = n
      BY <2>6, <3>1 DEF SavesStand, LoadIn
    <3>3. n \notin {name, Absent}
      BY <2>6
    <3> QED BY <2>2, <3>2, <3>3 DEF Collides
  <2>7. CASE sanitize[n] # s
    <3>1. mine'[n] = mine[n] /\ files'[sanitize[n]] = files[sanitize[n]] /\ mine[n] # {}
      BY <1>0, <2>2, <2>4, <2>7
    <3> QED BY <3>1 DEF SavesStand, LoadIn
  <2> QED BY <2>5, <2>6, <2>7
<1>2. CASE EditRecipe
  <2>1. PICK stem \in Stem, file \in Edits : Edit(stem, file)
    BY <1>2 DEF EditRecipe
  <2> SUFFICES ASSUME NEW n \in Name, mine'[n] # {}
               PROVE  /\ UNION {Parsed(f) : f \in files'[sanitize[n]]} = mine'[n]
                      /\ \A f \in files'[sanitize[n]] : StoredName(f) = n
    BY DEF SavesStand, LoadIn
  <2>2. sanitize[n] # stem /\ mine'[n] = mine[n] /\ files'[sanitize[n]] = files[sanitize[n]]
    BY <1>0, <2>1 DEF Edit
  <2> QED BY <2>2 DEF SavesStand, LoadIn
<1>3. CASE ~Save /\ ~EditRecipe
  <2>1. UNCHANGED <<files, mine>>
    BY <1>3, FilesStay
  <2> QED BY <2>1 DEF SavesStand, LoadIn
<1> QED BY <1>1, <1>2, <1>3

-----------------------------------------------------------------------------
(* The task's own conversation.                                            *)

LEMMA KnownGrows ==
  ASSUME TypeOK, Grows, TypeOK'
  PROVE  Heard \subseteq Heard' /\ \A conv : CanResume(conv) => CanResume(conv)'
<1>1. \A n \in DOMAIN procs : n \in DOMAIN shown' /\ shown[n] \subseteq shown'[n]
  BY DEF Grows, TypeOK
<1>2. DOMAIN shown = DOMAIN procs
  BY DEF TypeOK
<1> QED BY <1>1, <1>2 DEF Heard, Known, Grows, CanResume, Pins

LEMMA OwnIsKnown ==
  ASSUME TypeOK, SlotInv, ResumeIsOwn, Current # None
  PROVE  /\ Current \in Heard /\ CanResume(Current)
         /\ row.proc # 0 => Current \in shown[row.proc] \cup astray
<1>1. Current # row.resume => row.proc # 0 /\ Own(Current, row.proc)
  BY CurrentIsOwn DEF SlotInv
<1>2. \/ row.proc # 0 /\ Own(Current, row.proc)
      \/ row.proc = 0 /\ Current \in Heard /\ CanResume(Current)
  BY <1>1 DEF ResumeIsOwn
<1>3. row.proc # 0 => row.proc \in DOMAIN shown
  BY DEF TypeOK
<1> QED BY <1>2, <1>3 DEF Own, Heard, Known

LEMMA RecipesStayOwn ==
  ASSUME TypeOK, TypeOK', SlotInv, ResumeIsOwn, FilesAreOwn, EditsNameNone, Grows, [Next]_vars
  PROVE  FilesAreOwn'
<1>1. Heard \subseteq Heard' /\ \A conv : CanResume(conv) => CanResume(conv)'
  BY KnownGrows
<1>2. kind' = kind
  BY DEF Grows
<1>3. ASSUME NEW file, ResumesOwn(file) PROVE ResumesOwn(file)'
  BY <1>1, <1>2, <1>3 DEF ResumesOwn
<1>4. ASSUME NEW s \in Stem, NEW file \in files'[s] PROVE ResumesOwn(file)'
  <2>0. DOMAIN files = Stem BY DEF TypeOK
  <2>1. CASE file \in files[s]
    BY <1>3, <2>1 DEF FilesAreOwn
  <2>2. CASE Save /\ file \notin files[s]
    <3>1. PICK name \in Name : SaveIn(name, <<RowEntry>>)
      BY <2>2 DEF Save
    <3>2. file = Written(name, <<RowEntry>>)
      BY <1>4, <2>0, <2>2, <3>1 DEF SaveIn
    <3>3. Parsed(file) = {<<RowEntry>>}
      BY <3>2, RowReadsBack
    <3>4. RowEntry.resume = Current
      BY DEF RowEntry, Managed, Entry
    <3>5. ResumesOwn(file)
      BY <3>3, <3>4, OwnIsKnown DEF ResumesOwn
    <3> QED BY <1>3, <3>5
  <2>3. CASE EditRecipe /\ file \notin files[s]
    <3>1. file \in Edits
      BY <1>4, <2>0, <2>3 DEF EditRecipe, Edit
    <3>2. ResumesOwn(file)
      BY <3>1 DEF EditsNameNone, ResumesOwn
    <3> QED BY <1>3, <3>2
  <2>4. CASE ~Save /\ ~EditRecipe
    BY <1>4, <2>1, <2>4, FilesStay
  <2> QED BY <2>1, <2>2, <2>3, <2>4
<1> QED BY <1>4 DEF FilesAreOwn

LEMMA ResumeStaysOwn ==
  ASSUME TypeOK, TypeOK', SlotInv, ResumeIsOwn, FilesAreOwn, Grows, [Next]_vars
  PROVE  ResumeIsOwn'
<1>1. Heard \subseteq Heard' /\ \A conv : CanResume(conv) => CanResume(conv)'
  BY KnownGrows
<1>2. CASE SpawnAgent \/ Rerun \/ Load
  <2>1. PICK resume \in Conv \cup {None} :
           /\ resume # None => CanResume(resume)
           /\ \/ StopsAt(resume) /\ (resume # None => resume \in Heard)
              \/ \E id \in 1..MaxId, run \in 0..MaxRun : Launches(id, run, resume)
    BY <1>2, LaunchOrLoad DEF SlotInv
  <2>2. CASE StopsAt(resume) /\ (resume # None => resume \in Heard)
    <3>1. row'.proc = 0 /\ row'.resume = resume
      BY <2>2 DEF StopsAt
    <3>2. resume # None => resume \in Heard' /\ CanResume(resume)'
      BY <1>1, <2>1, <2>2
    <3> QED BY <3>1, <3>2 DEF ResumeIsOwn
  <2>3. ASSUME NEW id \in 1..MaxId, NEW run \in 0..MaxRun, Launches(id, run, resume)
        PROVE  ResumeIsOwn'
    <3>1. PICK new \in Process, given \in Conv \cup {None} : Launched(id, run, resume, new, given)
      BY <2>3, LaunchEffect DEF Launches
    <3>2. /\ row'.proc = Len(procs) + 1 /\ row'.proc # 0 /\ row'.resume = given
          /\ shown'[row'.proc] = {new.conv} /\ kind' = kind
          /\ given # None => given = new.conv /\ (given = resume \/ Pins)
      BY <3>1 DEF Launched
    <3>3. given # None => CanResume(given)'
      <4>1. given # None => CanResume(given)
        BY <2>1, <3>2 DEF CanResume
      <4> QED BY <1>1, <4>1
    <3> QED BY <3>2, <3>3 DEF ResumeIsOwn, Own
  <2> QED BY <2>1, <2>2, <2>3
<1>3. CASE Remove \/ Die
  BY <1>3 DEF Remove, Die, ResumeIsOwn, NoRow
<1>4. CASE UNCHANGED row
  <2>1. CASE row.proc = 0
    BY <1>1, <1>4, <2>1 DEF ResumeIsOwn
  <2>2. CASE row.proc # 0
    <3>1. row.proc \in DOMAIN procs
      BY <2>2 DEF TypeOK
    <3>2. shown[row.proc] \cup astray \subseteq shown'[row.proc] \cup astray'
      BY <3>1 DEF Grows
    <3>3. \A conv : conv = row.resume /\ conv # None =>
                     conv \in shown[row.proc] \cup astray /\ CanResume(conv)
      BY <2>2 DEF ResumeIsOwn, Own
    <3>4. \A conv : conv = row.resume /\ conv # None =>
                     conv \in shown'[row.proc] \cup astray' /\ CanResume(conv)'
      BY <1>1, <3>2, <3>3
    <3> QED BY <1>4, <2>2, <3>4 DEF ResumeIsOwn, Own
  <2> QED BY <2>1, <2>2
<1>5. CASE \/ Save \/ EditRecipe \/ UNCHANGED vars
           \/ \E n \in DOMAIN procs :
                \/ \E conv \in Conv : Switch(n, conv)
                \/ FirstTurn(n) \/ Exit(n) \/ UpdateRecord(n)
                \/ Hook(n) \/ ForkHook(n) \/ Notify(n) \/ Report(n)
           \/ \E w \in writers : Stamp(w) \/ Payload(w) \/ ReplaceSlot(w)
  <2>1. UNCHANGED row
    BY <1>5 DEF Save, EditRecipe, vars, core, Switch, FirstTurn, Exit, UpdateRecord,
                Hook, ForkHook, HookOf, Starts, Put, Notify, Report, Stamp, Payload, ReplaceSlot
  <2> QED BY <1>4, <2>1
<1> QED BY <1>2, <1>3, <1>5 DEF Next

-----------------------------------------------------------------------------
(* The theorems.                                                           *)

LEMMA InitHolds == Init => TypeOK /\ CaptureInv
<1> SUFFICES ASSUME Init PROVE TypeOK /\ CaptureInv
  OBVIOUS
<1> USE CaptureAssumption, RecipesAssumption
<1>1. /\ kind \in Kind /\ life = 1 /\ nextId = 1 /\ row = NoRow
      /\ files = [s \in Stem |-> {}] /\ mine = [n \in Name |-> {}]
      /\ procs = <<>> /\ shown = <<>> /\ slot = [p \in Path |-> Blank] /\ writers = {}
      /\ record = [p \in Pid |-> [proc |-> 0, conv |-> Fork]] /\ onDisk = {} /\ astray = {}
  BY DEF Init, RecipesInit
<1>2. TypeOK
  <2>1. Blank \in Payloads
    BY DEF Blank, Payloads
  <2>2. NoRow \in [id : 0..MaxId, run : 0..MaxRun, proc : Nat, resume : Conv \cup {None}]
        /\ NoRow.proc = 0
    BY DEF NoRow
  <2>3. slot \in [Path -> Payloads] /\ record \in [Pid -> [proc : Nat, conv : Conv]]
    BY <1>1, <2>1
  <2> QED BY <1>1, <2>2, <2>3 DEF TypeOK
<1>3. SlotInv
  <2>1. DOMAIN procs = {} /\ row.id = 0
    BY <1>1 DEF NoRow
  <2> QED BY <1>1, <2>1 DEF SlotInv, PathsAreOwn, HeardIsOwn, RecordsAreOwn
<1>4. SavesStand /\ FilesAreOwn
  BY <1>1 DEF SavesStand, FilesAreOwn
<1>5. ResumeIsOwn
  BY <1>1 DEF ResumeIsOwn, NoRow
<1> QED BY <1>2, <1>3, <1>4, <1>5 DEF CaptureInv

\* Types, and what the capture files, the registry records and the recipes hold: a file is that
\* of one run; what is accepted from it is of a conversation its process had on screen, or is
\* counted as astray; what was saved under a name stands. Whatever users write into recipes.
THEOREM CaptureHolds == Spec => [](TypeOK /\ SlotInv /\ SavesStand)
<1>1. Init => TypeOK /\ SlotInv /\ SavesStand
  BY InitHolds DEF CaptureInv
<1>2. TypeOK /\ SlotInv /\ SavesStand /\ [Next]_vars => (TypeOK /\ SlotInv /\ SavesStand)'
  BY TypesKept, SlotsKept, SavesKept DEF SlotInv
<1> QED BY <1>1, <1>2, PTL DEF Spec

\* What is saved under a name is what the name loads, whatever is saved under names that share
\* its file, until a user edits the file; and every task set is read back as it was written.
THEOREM SavesAreLoaded == Spec => []SavedIsLoaded
<1>1. SavesStand => SavedIsLoaded
  BY AllReadBack DEF SavesStand, SavedIsLoaded
<1> QED BY <1>1, CaptureHolds, PTL

\* What a rerun resumes and a recipe records is a conversation that the task itself had on
\* screen, and one that can be resumed, as long as users write no conversation IDs into recipes
\* by hand: an ID they write is their own choice. Excepted are IDs that went astray: the payload
\* of another process's hook that landed behind the task's stamp while both had the file open,
\* and the record of another process that was taken over with its PID.
THEOREM ConversationIsOwn ==
  ASSUME EditsNameNone
  PROVE  Spec => []OwnConversation
<1> DEFINE Inv == TypeOK /\ CaptureInv
<1>1. Init => Inv
  BY InitHolds
<1>2. Inv /\ [Next]_vars => Inv'
  <2> SUFFICES ASSUME Inv, [Next]_vars PROVE Inv'
    OBVIOUS
  <2>1. TypeOK /\ SlotInv /\ SavesStand /\ ResumeIsOwn /\ FilesAreOwn
    BY DEF CaptureInv
  <2>2. TypeOK' /\ SlotInv' /\ SavesStand' /\ Grows
    BY <2>1, TypesKept, SlotsKept, SavesKept DEF SlotInv
  <2>3. ResumeIsOwn' /\ FilesAreOwn'
    BY <2>1, <2>2, ResumeStaysOwn, RecipesStayOwn
  <2> QED BY <2>2, <2>3 DEF CaptureInv
<1>3. Inv => OwnConversation
  <2> SUFFICES ASSUME Inv, Current \notin astray \cup {None}
               PROVE  /\ Current \in IF row.proc = 0 THEN Known ELSE shown[row.proc]
                      /\ Pins \/ Current \in onDisk
    BY DEF OwnConversation
  <2> QED BY OwnIsKnown DEF CaptureInv, CanResume, Heard
<1> QED BY <1>1, <1>2, <1>3, PTL DEF Spec

\* What the row was launched with is told when nothing else is.
LEMMA ResumeTells ==
  /\ row.resume # None => Current # None
  /\ row'.resume # None => Current' # None
BY DEF Current, CurrentOf, OrElse

\* An agent that reports by its slot is not silenced by anything but a launch.
LEMMA SlotTells ==
  ASSUME TypeOK, TypeOK', NEW p \in Path, kind # "claude", slot[p].conv # None, UNCHANGED row,
         [Next]_vars, ~Rerun, row.id # 0
  PROVE  slot'[p].conv # None
<1> USE CaptureAssumption, RecipesAssumption
<1>1. slot \in [Path -> Payloads] /\ None \notin Conv
  BY DEF TypeOK, Text, None, Conv
<1>2. CASE SpawnAgent \/ Load \/ Remove \/ Die
  BY <1>2 DEF SpawnAgent, Load, Remove, Die, NoRow
<1>3. CASE Save \/ EditRecipe \/ UNCHANGED vars
  BY <1>3 DEF Save, EditRecipe, vars, world
<1>4. ASSUME NEW n \in DOMAIN procs,
             \/ \E conv \in Conv : Switch(n, conv)
             \/ FirstTurn(n) \/ Exit(n) \/ UpdateRecord(n)
             \/ Hook(n) \/ ForkHook(n) \/ Notify(n)
      PROVE  UNCHANGED slot
  BY <1>4 DEF Switch, FirstTurn, Exit, UpdateRecord, Hook, ForkHook, HookOf, Notify
<1>5. ASSUME NEW n \in DOMAIN procs, Report(n) PROVE slot'[p].conv # None
  <2>1. procs[n].conv \in Conv /\ procs[n].path \in Path
    BY ProcessTyped
  <2> QED BY <1>1, <1>5, <2>1 DEF Report, Put, Unstamped
<1>6. ASSUME NEW w \in writers, Stamp(w) \/ Payload(w) \/ ReplaceSlot(w) PROVE slot'[p].conv # None
  <2>1. w.conv \in Conv /\ w.path \in Path
    BY DEF TypeOK, Writers
  <2> QED BY <1>1, <1>6, <2>1 DEF Stamp, Payload, ReplaceSlot, Put, Unstamped
<1> QED BY <1>2, <1>3, <1>4, <1>5, <1>6 DEF Next

\* KnownIsKept: no step of the agent, a hook, an exit, a rerun or a user makes the row forget
\* the conversation that it is in.
THEOREM ConversationIsKept == Spec => KnownIsKept
<1>1. ASSUME TypeOK, TypeOK', SlotInv, [Next]_vars, Grows,
             row.id # 0, row'.id = row.id, life' = life,
             Current # None, kind = "claude" => row.resume # None
      PROVE  Current' # None
  <2>1. CASE Rerun
    <3>1. Launch(row.id, row.run + 1, Current) /\ Current \in Conv \cup {None}
          /\ row.id \in 1..MaxId /\ row.run + 1 \in 0..MaxRun
      BY <1>1, <2>1, CurrentIsOwn, CaptureAssumption, SMTT(30) DEF Rerun, SlotInv, TypeOK
    <3>2. row'.resume = Current
      BY <1>1, <3>1, LaunchEffect DEF Launched
    <3> QED BY <1>1, <3>2, ResumeTells
  <2>2. CASE ~Rerun
    <3>1. UNCHANGED row
      <4>1. CASE SpawnAgent \/ Load \/ Remove \/ Die
        BY <1>1, <4>1 DEF SpawnAgent, Load, Remove, Die, NoRow
      <4>2. CASE \/ Save \/ EditRecipe \/ UNCHANGED vars
                 \/ \E n \in DOMAIN procs :
                      \/ \E conv \in Conv : Switch(n, conv)
                      \/ FirstTurn(n) \/ Exit(n) \/ UpdateRecord(n)
                      \/ Hook(n) \/ ForkHook(n) \/ Notify(n) \/ Report(n)
                 \/ \E w \in writers : Stamp(w) \/ Payload(w) \/ ReplaceSlot(w)
        BY <4>2 DEF Save, EditRecipe, vars, core, Switch, FirstTurn, Exit, UpdateRecord,
                    Hook, ForkHook, HookOf, Starts, Put, Notify, Report, Stamp, Payload, ReplaceSlot
      <4> QED BY <1>1, <2>2, <4>1, <4>2 DEF Next
    <3>2. CASE row.resume # None
      BY <3>1, <3>2, ResumeTells
    <3>3. CASE row.resume = None
      <4> DEFINE n == row.proc  p == procs[n].path
      <4>1. kind # "claude" /\ kind' = kind
        BY <1>1, <3>3 DEF Grows
      <4>2. n # 0 /\ kind # "grok" /\ slot[p].conv # None
        BY <1>1, <3>3, <4>1 DEF Current, CurrentOf, OrElse, Accepted, RecordedBy
      <4>3. n \in DOMAIN procs /\ p \in Path
        BY <1>1, <4>2, ProcessTyped DEF TypeOK
      <4>4. slot'[p].conv # None
        BY <1>1, <2>2, <3>1, <4>1, <4>2, <4>3, SlotTells
      <4>5. row'.proc = n /\ procs'[n].path = p
        BY <1>1, <3>1, <4>3 DEF Grows
      <4> QED BY <4>1, <4>2, <4>4, <4>5 DEF Current, CurrentOf, OrElse, Accepted
    <3> QED BY <3>2, <3>3
  <2> QED BY <2>1, <2>2
<1>2. (TypeOK /\ SlotInv) /\ (TypeOK /\ SlotInv)' /\ [Next]_vars =>
        [/\ row.id # 0 /\ row'.id = row.id /\ life' = life
         /\ Current # None /\ (kind = "claude" => row.resume # None)
         => Current' # None]_vars
  BY <1>1, SlotsKept
<1> QED BY <1>2, CaptureHolds, PTL DEF Spec, KnownIsKept
=============================================================================
