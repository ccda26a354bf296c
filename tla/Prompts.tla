-------------------------------- MODULE Prompts --------------------------------
(***************************************************************************)
(* The prompts that pick from a list (app.rs): agents to spawn, directory, *)
(* group, find palette and sessions. What they offer is computed when they *)
(* open and when text is typed, from snapshots, agent lists and session    *)
(* lists that the core replaces at any time, also while they are open.     *)
(***************************************************************************)
EXTENDS Listing

CONSTANTS AgentLists,    \* what a core may announce, each in the registry's order
          SessionLists,  \* what a core may list: pairs of saved and recovery sessions
          Fleets,        \* the pairs of a mode and a snapshot that arrive; views have a command
          Below,         \* a function: a directory to those in it
          Hidden,        \* directories whose names begin with a dot
          Dotted,        \* texts that do
          Within,        \* a function: what is typed, to the texts that contain it
          MaxAsked       \* bound: session lists that are asked for and not yet there

\* A directory is not in itself, and has as many as can be listed.
ASSUME PromptsAssumption ==
  /\ Hidden \subseteq Labels /\ Dotted \subseteq Typed /\ Within[""] = Labels
  /\ Below \in [Labels -> SUBSET Labels]
  /\ \A d \in Labels : d \notin Below[d] /\ IsFiniteSet(Below[d])
  /\ \A l \in Fleets : /\ DOMAIN l = {"mode", "views"} /\ Snapshot(l.views)
                       /\ l.views = <<>> \/ l.mode = "Custom"
  /\ \A list \in AgentLists : list \in Seq({list[n] : n \in DOMAIN list})
  /\ \A s \in SessionLists, p \in 1 .. 2 : s[p] \in Seq({s[p][n] : n \in DOMAIN s[p]})

VARIABLES
  prompt,   \* Mode: what is open
  page,     \* spawn_page is Agent; session_page is Recovery
  agents, fleet,  \* what the core has announced; views and their grouping
  greeted,  \* this connection's list of agents has arrived
  asked,    \* replies to ListSessions that are due
  offer,    \* the rows of each list
  cursor,   \* in each, counting from zero
  query     \* the text of each picker; for directories, with what precedes its last slash

promptVars == <<prompt, page, agents, fleet, greeted, asked, query, offer, cursor>>

Pickers == {"agents", "group", "find", "dir"}
Rows    == Pickers \cup {"saved", "recovery"}

\* A text that is typed, below a directory that is, if there is a slash in it.
Input(dir, text) == [dir |-> dir, text |-> text]
NoInput == Input({}, "")

-----------------------------------------------------------------------------
(* What a picker offers for a text.                                        *)

\* task_matches, for names that are commands.
TaskMatches(v, text) == (v.group \cup {v.command}) \cap Within[text] # {}

\* The tasks that match, in the order of the dashboard.
FindCandidates(l, text) ==
  LET found == Ordered({i \in DOMAIN l.views : TaskMatches(l.views[i], text)}, SortKeys(l.mode, l.views))
  IN  [n \in DOMAIN found |-> l.views[found[n]].id]

\* in_use_dirs: of a set those that tasks are in, the newest task's first.
InUseDirs(views, S) ==
  LET dirs == {views[i].cwd : i \in DOMAIN views} \cap S
      newest(d) == The({views[i].id : i \in {i \in DOMAIN views :
                     views[i].cwd = d /\ \A j \in DOMAIN views : views[j].cwd = d => views[j].id <= views[i].id}})
      oldest == Ordered(dirs, [d \in dirs |-> <<newest(d)>>])
  IN  [n \in DOMAIN oldest |-> oldest[Cardinality(dirs) + 1 - n]]

\* list_dirs, in their order.
ListDirs(base, text) == {d \in Below[base] \cap Begins[text] : d \in Hidden => text \in Dotted}

DirRow(kind, d) == [kind |-> kind, dir |-> d]
DirRows(kind, ds) == [n \in DOMAIN ds |-> DirRow(kind, ds[n])]
Resolved(in) == IF in.dir = {} THEN Home ELSE The(in.dir)

\* Without a slash, those in use whose name contains the text.
Jumps(views, in) == IF in.dir # {} THEN <<>> ELSE InUseDirs(views, Within[in.text] \ {Resolved(in)})

\* Mutant: a subdirectory that a task uses has two rows.
DirCandidatesTwice(views, in) ==
  <<DirRow("use", Resolved(in))>> \o DirRows("jump", Jumps(views, in))
    \o DirRows("into", Ordered(ListDirs(Resolved(in), in.text), Collations))

\* refresh_dir_candidates
DirCandidates(views, in) ==
  LET jumps == Jumps(views, in)
      intos == {d \in ListDirs(Resolved(in), in.text) : \A n \in DOMAIN jumps : jumps[n] # d}
  IN  <<DirRow("use", Resolved(in))>> \o DirRows("jump", jumps) \o DirRows("into", Ordered(intos, Collations))

\* refresh_agent_candidates
AgentCandidates(list, text) == Only(list, {n \in DOMAIN list : list[n] \in Within[text]})

Offered(p, list, l, in) ==
  CASE p = "agents" -> AgentCandidates(list, in.text)
    [] p = "group"  -> GroupCandidates(l.views, in.text)
    [] p = "find"   -> FindCandidates(l, in.text)
    [] p = "dir"    -> DirCandidates(l.views, in)

-----------------------------------------------------------------------------
(* Opening, typing, moving.                                                *)

FirstRow(p, in, rows) ==
  IF p \in {"group", "dir"} THEN PreselectedRow(in.text = "", Len(rows)) ELSE 0

\* The text of p is replaced, and its rows with it; other pickers are closed.
Refresh(p, in) ==
  LET own(f, x, none) == [l \in DOMAIN f |-> IF l = p THEN x ELSE IF l \in Pickers THEN none ELSE f[l]]
  IN  \E rows \in {Offered(p, agents, fleet, in)} :
        /\ query' = own(query, in, NoInput) /\ offer' = own(offer, rows, <<>>)
        /\ cursor' = own(cursor, FirstRow(p, in, rows), 0)

\* open_spawn_prompt
OpenSpawn ==
  /\ prompt' = "spawn" /\ page' = [page EXCEPT !["spawn"] = FALSE]
  /\ Refresh("agents", NoInput)

Closed == prompt = "none"
Unheard == UNCHANGED <<agents, fleet, greeted>>

\* n, @, g and /: the last two need a task.
Open ==
  /\ Closed /\ Unheard /\ UNCHANGED asked
  /\ \/ OpenSpawn
     \/ \E p \in {"dir", "group", "find"} :
          /\ p = "dir" \/ fleet.views # <<>>
          /\ prompt' = p /\ Refresh(p, NoInput) /\ UNCHANGED page

\* o: the lists are cleared, and asked for.
OpenSessions ==
  /\ Closed /\ asked < MaxAsked
  /\ prompt' = "sessions" /\ page' = [page EXCEPT !["sessions"] = FALSE] /\ asked' = asked + 1
  /\ offer' = [offer EXCEPT !["saved"] = <<>>, !["recovery"] = <<>>]
  /\ cursor' = [cursor EXCEPT !["saved"] = 0, !["recovery"] = 0]
  /\ Unheard /\ UNCHANGED query

\* The picker that keys go to, and the list the cursor is in.
Picker == IF prompt = "spawn" THEN (IF page["spawn"] THEN {"agents"} ELSE {})
          ELSE {prompt} \cap Pickers
List == IF prompt = "sessions" THEN {IF page["sessions"] THEN "recovery" ELSE "saved"} ELSE Picker

\* Keys that edit, and pastes.
Type ==
  /\ \E p \in Picker, t \in Typed, d \in {{}} \cup {{l} : l \in Labels} :
       /\ p # "dir" => d = {}
       /\ Refresh(p, Input(d, t))
  /\ Unheard /\ UNCHANGED <<prompt, page, asked>>

Move ==
  /\ \E l \in List : \E to \in {StepUp(cursor[l]), StepDown(cursor[l], Len(offer[l]))} :
       cursor' = [cursor EXCEPT ![l] = to]
  /\ Unheard /\ UNCHANGED <<prompt, page, asked, query, offer>>

\* Tab, where there is something to turn to.
Turn ==
  /\ \/ prompt = "spawn" /\ agents # <<>>
     \/ prompt = "sessions" /\ offer["recovery"] # <<>>
  /\ page' = [page EXCEPT ![prompt] = ~@]
  /\ Unheard /\ UNCHANGED <<prompt, asked, query, offer, cursor>>

-----------------------------------------------------------------------------
(* Closing, with or without a choice.                                      *)

Row(l) == offer[l][cursor[l] + 1]
HasRow(l) == cursor[l] + 1 \in DOMAIN offer[l]

\* Each prompt clears its own text and rows, those of sessions excepted. (The agent's text
\* and rows, and any cursor, wait for the next opening, which replaces them unread.)
CloseClears ==
  /\ prompt' = "none"
  /\ query' = [p \in Pickers |-> NoInput]
  /\ offer' = [l \in Rows |-> IF l \in Pickers THEN <<>> ELSE offer[l]]
  /\ cursor' = [l \in Rows |-> IF l \in Pickers THEN 0 ELSE cursor[l]]

Escape ==
  /\ ~Closed /\ CloseClears
  /\ Unheard /\ UNCHANGED <<page, asked>>

\* An agent or a task needs a row; a group and a session close in any case, and so does
\* a command. (What is sent is Client's: OverlayEnter, LabelEnter, FindEnter.)
Enter ==
  /\ ~Closed /\ prompt # "dir"
  /\ \A l \in List \cap {"agents", "find"} : HasRow(l)
  /\ CloseClears
  /\ Unheard /\ UNCHANGED <<page, asked>>

Descend(d) ==
  /\ Refresh("dir", Input({d}, "")) /\ UNCHANGED <<prompt, page>>

\* The directory of the row is spawned in, or entered; Tab and Right only enter.
PickDir ==
  /\ prompt = "dir" /\ HasRow("dir")
  /\ \/ Row("dir").kind # "into" /\ OpenSpawn
     \/ Row("dir").kind # "use" /\ Descend(Row("dir").dir)
  /\ Unheard /\ UNCHANGED asked

-----------------------------------------------------------------------------
(* What arrives meanwhile (App::sync).                                     *)

\* Mutant: an open prompt keeps the agents of the daemon before.
AgentsArriveUnseen ==
  /\ ~greeted /\ greeted' = TRUE /\ agents' \in AgentLists
  /\ UNCHANGED <<prompt, page, fleet, asked, query, offer, cursor>>

AgentsArrive ==
  /\ ~greeted /\ greeted' = TRUE
  /\ \E a \in AgentLists :
       /\ agents' = a
       /\ IF prompt = "spawn"
            THEN /\ offer' = [offer EXCEPT !["agents"] = AgentCandidates(a, query["agents"].text)]
                 /\ cursor' = [cursor EXCEPT !["agents"] = 0]
                 /\ page' = [page EXCEPT !["spawn"] = @ /\ a # <<>>]
            ELSE UNCHANGED <<offer, cursor, page>>
  /\ UNCHANGED <<prompt, fleet, asked, query>>

TasksArrive ==
  /\ fleet' \in Fleets
  /\ UNCHANGED <<prompt, page, agents, greeted, asked, query, offer, cursor>>

\* Mutant: the cursor stays where it was.
SessionsArriveUnclamped ==
  /\ asked > 0 /\ asked' = asked - 1
  /\ \E s \in SessionLists :
       /\ offer' = [offer EXCEPT !["saved"] = s[1], !["recovery"] = s[2]]
       /\ page' = [page EXCEPT !["sessions"] = @ /\ s[2] # <<>>]
  /\ Unheard /\ UNCHANGED <<prompt, query, cursor>>

\* Also the reply to an earlier opening, and after the prompt was closed.
SessionsArrive ==
  /\ asked > 0 /\ asked' = asked - 1
  /\ \E s \in SessionLists :
       LET clamped(l, rows) == Least(cursor[l], IF rows = <<>> THEN 0 ELSE Len(rows) - 1)
       IN  /\ offer' = [offer EXCEPT !["saved"] = s[1], !["recovery"] = s[2]]
           /\ cursor' = [cursor EXCEPT !["saved"] = clamped("saved", s[1]),
                                       !["recovery"] = clamped("recovery", s[2])]
           /\ page' = [page EXCEPT !["sessions"] = @ /\ s[2] # <<>>]
  /\ Unheard /\ UNCHANGED <<prompt, query>>

\* The banner, and the reconnect, which clear no list but that of tasks.
Reconnected ==
  /\ CloseClears /\ greeted' = FALSE /\ asked' = 0
  /\ fleet' = [fleet EXCEPT !.views = <<>>]
  /\ UNCHANGED <<page, agents>>

-----------------------------------------------------------------------------
PromptInit ==
  /\ prompt = "none" /\ page = [p \in {"spawn", "sessions"} |-> FALSE]
  /\ agents = <<>> /\ fleet = [mode |-> "Custom", views |-> <<>>] /\ greeted = FALSE /\ asked = 0
  /\ query = [p \in Pickers |-> NoInput]
  /\ offer = [l \in Rows |-> <<>>] /\ cursor = [l \in Rows |-> 0]

PromptKeys == Open \/ OpenSessions \/ Type \/ Move \/ Turn \/ Escape \/ Enter \/ PickDir
PromptNext == PromptKeys \/ AgentsArrive \/ TasksArrive \/ SessionsArrive \/ Reconnected
PromptSpec == PromptInit /\ [][PromptNext]_promptVars

-----------------------------------------------------------------------------
(* Properties.                                                             *)

\* The cursor of an open prompt is on a row, if its list has any.
CursorOnRow == \A l \in List : offer[l] # <<>> => HasRow(l)

\* The spawn prompt offers the agents that the daemon has announced last, also after a
\* reconnect; a page that Tab does not lead to is not shown.
PagesLedTo ==
  /\ prompt = "spawn" => offer["agents"] = AgentCandidates(agents, query["agents"].text)
  /\ prompt = "spawn" /\ page["spawn"] => agents # <<>>
  /\ prompt = "sessions" /\ page["sessions"] => offer["recovery"] # <<>>

\* The directory picker begins with the directory that is typed, has no directory twice,
\* and offers to enter or to use each one there that begins as what was typed.
DirsOfferedOnce ==
  prompt = "dir" =>
    LET rows == offer["dir"]
        in == query["dir"]
    IN  /\ rows[1] = DirRow("use", Resolved(in))
        /\ \A m, n \in DOMAIN rows : rows[m].dir = rows[n].dir => m = n
        /\ \A d \in (Below[Resolved(in)] \cap Begins[in.text]) \ Hidden : \E n \in DOMAIN rows : rows[n].dir = d

PromptsHold == CursorOnRow /\ PagesLedTo /\ DirsOfferedOnce

\* The pickers offer what there is; and what Listing promises of every list, screen and drag
\* holds where it is relied on: of the dashboard and the attached view, which are bare while no
\* prompt is open (App::sections, select_wrap, scroll_window, Selection), and of the picker of groups.
DashboardHolds ==
  /\ PromptsHold
  /\ Closed => ListWhole /\ MotionsReach /\ WindowsHold /\ TextIsDragged
  /\ prompt = "group" => PickerHolds

\* What is typed names a directory or none, and lists are sequences.
PromptTypeOK ==
  /\ prompt \in {"none", "spawn", "sessions", "dir", "group", "find"}
  /\ page \in [{"spawn", "sessions"} -> BOOLEAN]
  /\ agents \in Seq({agents[n] : n \in DOMAIN agents})
  /\ DOMAIN fleet = {"mode", "views"} /\ Snapshot(fleet.views)
  /\ query \in [Pickers -> [dir : {{}} \cup {{l} : l \in Labels}, text : Typed]]
  /\ offer = [l \in Rows |-> offer[l]] /\ cursor \in [Rows -> Nat]
  /\ \A l \in Rows : offer[l] \in Seq({offer[l][n] : n \in DOMAIN offer[l]})
  /\ \A n \in DOMAIN offer["dir"] : offer["dir"][n].dir \in Labels

\* The cursor of each list is on a row, also of a list that is not shown.
PromptInv ==
  /\ \A l \in Rows : offer[l] # <<>> => HasRow(l)
  /\ PagesLedTo /\ DirsOfferedOnce
=============================================================================
