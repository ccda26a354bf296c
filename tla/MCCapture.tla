------------------------------- MODULE MCCapture -------------------------------
(* A small instance of Capture: two recipe names that share a file; a user replaces it by *)
(* one of old, without a name, or breaks it. *)
EXTENDS Capture, TLC

CONSTANTS c1, c2, fork, p1, p2

MCsanitize == [n \in Name |-> "a_b"]

MCFile(wrapped, id) ==
  [wrapped |-> wrapped, version |-> 1, name |-> Absent,
   members |-> <<[Member(Managed("claude", id, {})) EXCEPT !.at["tagged"] = Null]>>]
MCEdits == {MCFile(FALSE, Absent), MCFile(TRUE, "not a uuid")}

\* Bound: of Claude, whose hooks have the most interleavings, one name is saved under, nobody
\* edits its file, and two hooks have files open at once under the first daemon alone.
MCBound ==
  kind = "claude" =>
    /\ mine["a:b"] = {} /\ files["a_b"] \cap MCEdits = {}
    /\ \A v, w \in writers : v.path[1] = MaxLife /\ w.path[1] = MaxLife => v = w

Alike == Permutations(Conv \ {Fork}) \cup Permutations(Pid)
=============================================================================
