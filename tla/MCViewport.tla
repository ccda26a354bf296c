------------------------------ MODULE MCViewport ------------------------------
(* A small instance of Viewport: a child with history that changes its screen, and an *)
(* inline one without any. And of Listing: two labels that differ in case alone. *)
EXTENDS Viewport, Prompts, TLC

CONSTANTS a, b

MCShown  == {"p", "g", "G"}
MCLabels == MCShown \cup {".d"}
MCFold   == [p |-> 2, g |-> 1, G |-> 1] @@ (".d" :> 0)
MCExact  == [p |-> 3, g |-> 2, G |-> 1] @@ (".d" :> 0)
MCTyped  == {"", "g", "x", "."}
MCBegins == ("" :> MCLabels) @@ ("g" :> {"g", "G"}) @@ ("x" :> {}) @@ ("." :> {".d"})
MCWithin == [MCBegins EXCEPT !["x"] = {"p"}]
MCBelow  == [p |-> {"g", ".d"}, g |-> {"G"}, G |-> {}] @@ (".d" :> {"p"})
MCWidth  == ("a" :> 1) @@ ("W" :> 2) @@ ("m" :> 0) @@ (" " :> 1) @@ ("..." :> 1)

UpTo(S, n) == UNION {[1 .. k -> S] : k \in 0 .. n}
MCRows == [tagged : BOOLEAN, life : {"active", "idle", "ok"}, label : MCShown]
MCList(mode, rows) ==
  [mode |-> mode,
   views |-> [i \in DOMAIN rows |->
     [id |-> 5 - i, tagged |-> rows[i].tagged, life |-> rows[i].life, cwd |-> rows[i].label,
      group |-> IF mode = "Custom" THEN {rows[i].label} \ {"p"} ELSE {}]]]
MCLists ==
  {MCList("State", rows) : rows \in UpTo({r \in MCRows : r.label = "p"}, 3)}
    \cup {MCList(mode, rows) : mode \in {"Dir", "Custom"},
            rows \in UpTo({r \in MCRows : r.life # "ok" /\ (r.tagged => r.life = "idle" /\ r.label = "g")}, 3)}

MCScreens ==
  {<<line>> : line \in UpTo(DOMAIN MCWidth \ {"..."}, 3)}
    \cup UpTo({<<>>, <<"W", "m">>, <<" ", "a", " ">>, <<"m", "a">>}, 2)
MCCells == (0 .. 2) \X (0 .. 2)

MCTasks(rows) ==
  [i \in DOMAIN rows |->
     [id |-> 5 - i, tagged |-> FALSE, life |-> "active", cwd |-> rows[i][1], command |-> rows[i][2],
      group |-> rows[i][3]]]
MCFleets ==
  {[mode |-> "Custom", views |-> MCTasks(rows)] :
     rows \in {<<>>, <<<<"p", "g", {}>>>>, <<<<"g", "p", {"G"}>>, <<"G", "g", {}>>, <<"g", ".d", {"g"}>>>>}}
MCAgents   == {<<>>, <<"g">>, <<"G", "p">>}
MCSessions == {<<<<>>, <<>>>>, <<<<"p", "g">>, <<"G">>>>, <<<<"g">>, <<"G", "p">>>>}

\* Bound: the dashboard's prompts and the attached view share the mode and nothing that is here,
\* and are explored one beside the other: one moves while the other is at its start.
MCInit == ViewInit /\ PromptInit
MCNext ==
  \/ PromptInit /\ ViewNext /\ UNCHANGED promptVars
  \/ ViewInit /\ PromptNext /\ UNCHANGED viewVars
MCSpec == MCInit /\ [][MCNext]_<<viewVars, promptVars>>
=============================================================================
