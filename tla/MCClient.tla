------------------------------- MODULE MCClient -------------------------------
(* Small instances of Client, of Input (a plain character, and characters whose control byte *)
(* is that of a key) and of Paths. *)
EXTENDS Client, TLC

MCControls == [i |-> "HT", m |-> "CR", a |-> "SOH"] @@ "[" :> "ESC"
MCWd       == [a |-> 1, e |-> 2, w |-> 3]
MCHomes    == {<<>>, <<"/">>, <<"/", "h">>, <<"/", "h", "/">>}
MCBases    == {<<"/">>, <<"/", "h">>, <<"/", "b1">>}
MCOdd      == UNION {[1 .. k -> {"/", "h", "b1", "b2"}] : k \in 0 .. 3}
MCInputs   == MCOdd \cup UNION {[1 .. k -> {"/", "h", ".", "~"}] : k \in 0 .. 5}
=============================================================================
