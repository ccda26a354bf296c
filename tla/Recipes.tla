-------------------------------- MODULE Recipes --------------------------------
(***************************************************************************)
(* Recipes (session.rs). dirs_json writes the entries of a task set, and   *)
(* from_json reads them back and rejects what it cannot mean; a recipe is  *)
(* saved under a sanitized name, which several names can share; users edit *)
(* the files. JSON values are members of small sets; a file holds one      *)
(* directory.                                                              *)
(***************************************************************************)
EXTENDS Naturals, Sequences, FiniteSets

CONSTANTS Command,     \* literal command texts
          Registered,  \* agent words of the harness registry
          Id,          \* conversation IDs: strict UUIDs
          Label,       \* group and name texts
          Odd,         \* other strings: unknown agents, malformed IDs
          Absent,      \* a field that is not there, an option that is None
          Name, Stem,  \* recipe names; file names without ".json"
          sanitize,    \* a function from the ones to the others
          Edits        \* bound: files that users write

Null   == "null"
Number == "number"  \* neither a string nor a boolean
Text   == Command \cup Registered \cup Id \cup Label \cup Odd

ASSUME RecipesAssumption ==
  /\ Odd \cap (Registered \cup Id) = {}
  /\ {Absent, Null, Number, "true", "false"} \cap (Text \cup Name) = {}
  /\ Absent \notin {Null, Number, "true", "false"}
  /\ sanitize \in [Name -> Stem]

Marks == {"tagged", "flagship", "stopped"}
Texts == {"cmd", "agent", "resume", "group", "name"}

\* SessionEntry: a literal has a command, a managed task an agent and perhaps an ID.
Entry(cmd, agent, resume, group, name, marks) ==
  [cmd |-> cmd, agent |-> agent, resume |-> resume, group |-> group, name |-> name, marks |-> marks]
Literal(cmd) == Entry(cmd, Absent, Absent, Absent, Absent, {})
Managed(agent, resume, marks) == Entry(Absent, agent, resume, Absent, Absent, marks)

-----------------------------------------------------------------------------
(* The file.                                                               *)

\* Mutant: an entry is a bare string although it is stopped.
MemberUnmarked(e) ==
  [bare |-> e.agent = Absent /\ e.group = Absent /\ e.name = Absent
            /\ e.marks \cap {"tagged", "flagship"} = {},
   at |-> [f \in Texts \cup Marks |->
             IF f \in Texts THEN e[f] ELSE IF f \in e.marks THEN "true" ELSE Absent]]

\* dirs_json: plain literals are bare strings, the rest objects with the fields that are set.
Member(e) ==
  [bare |-> e = Literal(e.cmd),
   at |-> [f \in Texts \cup Marks |->
             IF f \in Texts THEN e[f] ELSE IF f \in e.marks THEN "true" ELSE Absent]]

\* opt_str, bool_flag: null is as good as nothing.
IsOptText(v) == v \in Text \cup Name \cup {Absent, Null}
IsOptFlag(v) == v \in {Absent, Null, "true", "false"}
Opt(v) == IF v = Null THEN Absent ELSE v

\* An object is an agent, registered, with a well-formed ID or none, or else a command.
IsKind(a) ==
  IF a["agent"] # Absent
  THEN a["cmd"] = Absent /\ a["agent"] \in Registered /\ Opt(a["resume"]) \in Id \cup {Absent}
  ELSE a["cmd"] \in Text

IsMember(m) ==
  IF m.bare THEN m.at["cmd"] \in Text
  ELSE /\ IsKind(m.at)
       /\ \A f \in {"group", "name"} : IsOptText(m.at[f])
       /\ \A f \in Marks : IsOptFlag(m.at[f])

\* What from_json makes of a member. A literal's "resume" is not looked at.
EntryOf(m) ==
  IF m.bare THEN Literal(m.at["cmd"])
  ELSE Entry(m.at["cmd"], m.at["agent"],
             IF m.at["agent"] = Absent THEN Absent ELSE Opt(m.at["resume"]),
             Opt(m.at["group"]), Opt(m.at["name"]), {f \in Marks : m.at[f] = "true"})

\* to_json: version, name and directories; a file of old is flat, without a name.
Written(name, cfg) ==
  [wrapped |-> TRUE, version |-> 2, name |-> name, members |-> [i \in DOMAIN cfg |-> Member(cfg[i])]]

Flagships(cfg) == {i \in DOMAIN cfg : "flagship" \in cfg[i].marks}

\* from_json: one bad member, or a second flagship, rejects the whole file. A version that is
\* missing is 1; 0 stands for what is no version.
Parsed(file) ==
  LET cfg == [i \in DOMAIN file.members |-> EntryOf(file.members[i])]
  IN IF /\ file.version \in {1, 2}
        /\ file.wrapped => IsOptText(file.name)
        /\ \A i \in DOMAIN file.members : IsMember(file.members[i])
        /\ Cardinality(Flagships(cfg)) <= 1
     THEN {cfg} ELSE {}

\* stored_name, which looks at nothing but the wrapper.
StoredName(file) == IF file.wrapped /\ file.name \in Name \cup Text THEN file.name ELSE Absent

-----------------------------------------------------------------------------
(* The directory.                                                          *)

VARIABLES
  files,  \* the sessions directory: none or one file per stem
  mine    \* history: what was last saved under a name, until somebody edits the file
recipes == <<files, mine>>

\* Mutant: any file of that name is replaced.
CollidesNever(name) == FALSE

\* Distinct names can sanitize to one file: its stored name decides whose it is.
Collides(name) == \E file \in files[sanitize[name]] : StoredName(file) \notin {name, Absent}

\* save_in. A name that collides is refused; the rename is atomic.
SaveIn(name, cfg) ==
  /\ ~Collides(name)
  /\ files' = [files EXCEPT ![sanitize[name]] = {Written(name, cfg)}]
  /\ mine' = [mine EXCEPT ![name] = {cfg}]

\* load_in: the name on the file is not compared.
LoadIn(name) == UNION {Parsed(file) : file \in files[sanitize[name]]}

Edit(stem, file) ==
  /\ files' = [files EXCEPT ![stem] = {file}]
  /\ mine' = [n \in Name |-> IF sanitize[n] = stem THEN {} ELSE mine[n]]

RecipesInit == files = [s \in Stem |-> {}] /\ mine = [n \in Name |-> {}]

-----------------------------------------------------------------------------
(* Properties.                                                             *)

\* What a task set of the supervisor can hold.
Entries ==
  {e \in [cmd : Command \cup {Absent}, agent : Registered \cup {Absent}, resume : Id \cup {Absent},
          group : Label \cup {Absent}, name : Label \cup {Absent}, marks : SUBSET Marks] :
     IF e.agent = Absent THEN e.cmd # Absent /\ e.resume = Absent ELSE e.cmd = Absent}
Cfgs == {<<e>> : e \in Entries} \cup {<<e, Literal(c)>> : e \in Entries, c \in Command}

\* Every task set is read back as it was written.
ReadsBack == \A cfg \in Cfgs, n \in Name : Parsed(Written(n, cfg)) = {cfg}

\* What was saved under a name is what that name loads, whatever is saved under other names
\* that share its file, until somebody edits the file.
SavedIsLoaded == ReadsBack /\ \A n \in Name : mine[n] # {} => LoadIn(n) = mine[n]
=============================================================================
