----------------------------- MODULE MCSupervisor -----------------------------
(* Small instances of Supervisor. *)
EXTENDS Supervisor, TLC

CONSTANTS p1, p2, f1, c1, l1, l2

MCLive == [stopped |-> FALSE, flagship |-> TRUE, label |-> l1]
MCStopped == [stopped |-> TRUE, flagship |-> FALSE, label |-> l1]

MCRecipes == {<<MCStopped, MCLive>>}

MCForking == Run

MCPids == Permutations(Pid)
=============================================================================
