-------------------------------- MODULE Anchors --------------------------------
(***************************************************************************)
(* Where the adapters find an agent's status on its screen                 *)
(* (harness/summary.rs): which row, and by which rule. A row is what the   *)
(* matchers tell apart in it; what a status says is left out. What the     *)
(* conversation shows above may look like anything.                        *)
(***************************************************************************)
EXTENDS Naturals, FiniteSets, Sequences, SequencesExt

CONSTANTS BoxRows, MenuRows,           \* how far a box's top, a menu's head may be up
          ClaudeWindow, CodexWindow,   \* *_STATUS_WINDOW
          MaxAbove                     \* bound: rows of conversation on a screen

ASSUME AnchorsAssumption ==
  /\ {BoxRows, MenuRows, ClaudeWindow, CodexWindow, MaxAbove} \subseteq Nat
  /\ BoxRows > 1 /\ MenuRows > 2 /\ ClaudeWindow > 0

\* "hint" is any other indented row, "prose" any other row at column 0. "echo" is a message
\* of the user that begins with "1. ", which is a prompt and the head of a menu.
ClaudeRows == {"blank", "hint", "prose", "rule", "prompt", "echo", "pick", "option",
               "spinner", "waiting", "action"}
CodexRows  == {"blank", "hint", "prose", "composer", "menu", "option", "queued", "working",
               "ran", "worked"}
GrokRows   == {"blank", "hint", "prose", "top", "side", "bottom", "tasks", "spinner", "worked"}
Indented   == {"hint", "pick", "option", "worked"}

\* live_preview: the rule, and the row it is about.
Found(rule, row) == [rule |-> rule, row |-> row]
NotFound == Found("none", 0)

-----------------------------------------------------------------------------
\* Indices of rows; 0 is none.
Lowest(S)  == IF S = {} THEN 0 ELSE CHOOSE i \in S : \A j \in S : j <= i
Highest(S) == IF S = {} THEN 0 ELSE CHOOSE i \in S : \A j \in S : j >= i

OnScreen(rows)    == {i \in DOMAIN rows : rows[i] # "blank"}
NextUp(rows, i)    == Lowest({j \in OnScreen(rows) : j < i})
NextDown(rows, i)    == Highest({j \in OnScreen(rows) : j > i})
In(rows, i, S)    == i > 0 /\ rows[i] \in S
Count(rows, a, b) == Cardinality(OnScreen(rows) \cap a .. b)

\* claude_box_top, grok_input_box
BoxTop(rows, head, foot, inside) ==
  LET bottom == Lowest({i \in DOMAIN rows : rows[i] = foot})
      top == Lowest({i \in DOMAIN rows : i < bottom /\ bottom <= i + BoxRows /\ rows[i] = head})
  IN IF top > 0 /\ \E i \in top + 1 .. bottom - 1 : rows[i] \in inside THEN top ELSE 0

\* The first head of a menu in the last rows on screen.
MenuHead(rows, heads) ==
  LET last == Lowest(OnScreen(rows))
  IN Highest({i \in DOMAIN rows : i <= last /\ last < i + MenuRows /\ rows[i] \in heads})

-----------------------------------------------------------------------------
(* Claude Code.                                                            *)

\* claude_action_row
ClaudeWorking(rows, at) ==
  IF In(rows, NextUp(rows, at), {"action"}) THEN Found("claude:action-row", NextUp(rows, at))
                                            ELSE Found("claude:spinner", at)

\* Mutant: the scan goes on past what is no status.
ClaudeStatusPast(rows, top) ==
  LET at == Lowest({i \in OnScreen(rows) : i < top /\ rows[i] \in {"spinner", "waiting"}})
  IN IF at = 0 \/ Count(rows, at, top - 1) > ClaudeWindow THEN NotFound
     ELSE IF rows[at] = "spinner" THEN ClaudeWorking(rows, at) ELSE Found("claude:waiting", at)

\* claude_spinner_status: the first row at column 0 above the box decides.
ClaudeStatus(rows, top) ==
  LET at == Lowest({i \in OnScreen(rows) : i < top /\ rows[i] \notin Indented})
  IN IF at = 0 \/ Count(rows, at, top - 1) > ClaudeWindow THEN NotFound
     ELSE CASE rows[at] = "spinner" -> ClaudeWorking(rows, at)
            [] rows[at] = "waiting" -> Found("claude:waiting", at)
            [] OTHER -> NotFound

ClaudeApproval(rows) ==
  LET head == MenuHead(rows, {"pick", "echo"})
  IN IF head > 0 /\ In(rows, NextDown(rows, head), {"option"})
     THEN Found("claude:approval-menu", head) ELSE NotFound

ClaudeLive(rows) ==
  LET top == BoxTop(rows, "rule", "rule", {"prompt", "echo"})
  IN IF top > 0 THEN ClaudeStatus(rows, top) ELSE ClaudeApproval(rows)

-----------------------------------------------------------------------------
(* Codex.                                                                  *)

Siblings(rows, i) == {NextUp(rows, i), NextDown(rows, i)}

\* Mutant: a menu that is quoted above a composer counts.
CodexApprovalQuoted(rows) ==
  LET head == MenuHead(rows, {"menu"})
  IN IF head > 0 /\ \E i \in Siblings(rows, head) : In(rows, i, {"option"})
     THEN Found("codex:approval-menu", head) ELSE NotFound

CodexApproval(rows) ==
  LET head == MenuHead(rows, {"menu"})
  IN IF /\ head > 0 /\ \E i \in Siblings(rows, head) : In(rows, i, {"option"})
        /\ \A i \in DOMAIN rows : i > head => rows[i] # "composer"
     THEN Found("codex:approval-menu", head) ELSE NotFound

\* Mutant: the rows of a queue count as well.
CodexStatusCounting(rows, composer) ==
  LET at == Lowest({i \in OnScreen(rows) : i < composer
                                         /\ rows[i] \notin (Indented \ {"worked"}) \cup {"queued"}})
      crossed == Cardinality({i \in at + 1 .. composer - 1 : rows[i] \in Indented})
  IN IF at > 0 /\ crossed <= CodexWindow /\ rows[at] \in {"worked", "ran", "working"}
     THEN Found("codex:" \o rows[at], at) ELSE NotFound

\* codex_status: what decides is at column 0, or says that a turn is over. Of the indented
\* rows between, those of a queue do not count: below a queue's head.
CodexStatus(rows, composer) ==
  LET at == Lowest({i \in OnScreen(rows) : i < composer
                                         /\ rows[i] \notin (Indented \ {"worked"}) \cup {"queued"}})
      heads == {i \in at + 1 .. composer - 1 : rows[i] = "queued"}
      end == IF heads = {} THEN composer ELSE Highest(heads)
      crossed == Cardinality({i \in at + 1 .. end - 1 : rows[i] \in Indented})
  IN IF at > 0 /\ crossed <= CodexWindow /\ rows[at] \in {"worked", "ran", "working"}
     THEN Found("codex:" \o rows[at], at) ELSE NotFound

CodexLive(rows) ==
  LET composer == Lowest({i \in DOMAIN rows : rows[i] = "composer"})
  IN IF CodexApproval(rows) # NotFound THEN CodexApproval(rows)
     ELSE IF composer > 0 THEN CodexStatus(rows, composer) ELSE NotFound

-----------------------------------------------------------------------------
(* Grok.                                                                   *)

\* One row is looked at: the first above the box, or above its panel of tasks, if the rows
\* that end there are one.
GrokLive(rows) ==
  LET first == NextUp(rows, BoxTop(rows, "top", "bottom", {"side"}))
      header == Lowest({i \in 1 .. first : rows[i] = "tasks" /\ i .. first \subseteq OnScreen(rows)})
      probe == IF header > 0 THEN NextUp(rows, header) ELSE first
  IN IF In(rows, probe, {"spinner", "worked"}) THEN Found("grok:" \o rows[probe], probe) ELSE NotFound

-----------------------------------------------------------------------------
(* What the agents paint, below a conversation.                            *)

Conversations(shapes) == SeqOf(shapes, MaxAbove)
Gaps == SeqOf({"blank"}, 1)
Foot == {<<>>, <<"hint">>, <<"blank", "hint">>}
Attached(n) == {rows \in SeqOf({"blank", "hint"}, n + 1) : Count(rows, 1, Len(rows)) <= n}

ClaudeBoxes == {<<"rule", "prompt">> \o more \o <<"rule">> : more \in SeqOf({"hint"}, BoxRows - 2)}
CodexMenus  == {<<"menu", "option">>, <<"option", "menu">>, <<"option", "menu", "option">>}
CodexQueues == {<<>>} \cup {<<"queued">> \o more : more \in SeqOf({"hint"}, CodexWindow + 1)}
GrokPanels  == {<<>>} \cup {<<"tasks">> \o more \o <<"blank">> : more \in SeqOf({"prose"}, 2)}
GrokBox     == <<"top", "side", "bottom">>

\* A working Claude shows its action or its spinner, a waiting one what it waits for and an
\* idle one nothing, whatever status, box or menu the conversation above quotes or keeps.
ClaudeRead ==
  \A above \in Conversations(ClaudeRows), hints \in Attached(ClaudeWindow - 1),
     box \in ClaudeBoxes, foot \in Foot :
    LET n == Len(above) + 1
        found(row) == ClaudeLive(above \o <<row>> \o hints \o box \o foot)
    IN /\ found("waiting") = Found("claude:waiting", n)
       /\ found("prose") = NotFound
       /\ found("spinner") = IF In(above, NextUp(above, n), {"action"})
                             THEN Found("claude:action-row", NextUp(above, n))
                             ELSE Found("claude:spinner", n)

\* The conversation quotes an input box.
Boxed(rows) ==
  \E i, j, k \in DOMAIN rows :
    /\ i < j /\ j < k /\ k <= i + BoxRows
    /\ rows[i] = "rule" /\ rows[j] \in {"prompt", "echo"} /\ rows[k] = "rule"

\* It has the head of a menu among the rows in which one is looked for.
HeadAbove(above, heads, last) ==
  \E i \in DOMAIN above : above[i] \in heads /\ last < i + MenuRows

\* Its dialog takes the place of the box, and is reported below every conversation that quotes
\* no box and has no other head of a menu in reach: of those that do nothing is said, and the
\* code misreads some: a message that begins as a selector hides a dialog below it.
ClaudeAsks ==
  \A above \in Conversations(ClaudeRows), gap \in Gaps :
    LET n == Len(above) + 1
    IN  ~Boxed(above) /\ ~HeadAbove(above, {"pick", "echo"}, n + Len(gap) + 1)
          => ClaudeLive(above \o <<"pick">> \o gap \o <<"option">> \o gap)
               = Found("claude:approval-menu", n)

\* The same of Codex, over attachments and queues of any length, and above a composer in which
\* nothing is typed that begins as a menu does: codex_composer takes no such row for one.
CodexRead ==
  \A above \in Conversations(CodexRows), hints \in Attached(CodexWindow),
     queue \in CodexQueues, foot \in Foot :
    LET found(row) == CodexLive(above \o <<row>> \o hints \o queue \o <<"composer">> \o foot)
    IN /\ \A row \in {"working", "ran", "worked"} : found(row) = Found("codex:" \o row, Len(above) + 1)
       /\ found("prose") = NotFound

\* Its dialog, below every conversation that has no other head of a menu in reach.
CodexAsks ==
  \A above \in Conversations(CodexRows), menu \in CodexMenus, foot \in Gaps :
    LET rows == above \o menu \o foot
    IN  ~HeadAbove(above, {"menu"}, Len(above) + Len(menu))
          => CodexLive(rows)
               = Found("codex:approval-menu", Lowest({i \in DOMAIN rows : rows[i] = "menu"}))

\* The same of Grok, with and without tasks in the background.
GrokRead ==
  \A above \in Conversations(GrokRows), gap \in Gaps, panel \in GrokPanels :
    LET found(row) ==
          GrokLive(above \o <<"blank", row>> \o gap \o <<"blank">> \o panel \o GrokBox \o gap)
    IN /\ \A row \in {"spinner", "worked"} : found(row) = Found("grok:" \o row, Len(above) + 2)
       /\ found("prose") = NotFound

\* On the screens painted above, that is: with the exclusions of ClaudeAsks, CodexRead and
\* CodexAsks.
AnchorsHold == ClaudeRead /\ ClaudeAsks /\ CodexRead /\ CodexAsks /\ GrokRead
=============================================================================
