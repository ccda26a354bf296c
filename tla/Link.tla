---------------------------------- MODULE Link ----------------------------------
(* What a transport promises its client about commands: those it took reach   *)
(* the core in order, without gaps or repetitions, perhaps not all of them,   *)
(* and once it is down it takes no more.                                      *)
EXTENDS Naturals, Sequences

CONSTANT Command

VARIABLES sent, got, up

Init == sent = <<>> /\ got = <<>> /\ up = TRUE

Take(c) == up /\ sent' = Append(sent, c) /\ UNCHANGED <<got, up>>

Deliver ==
  /\ Len(got) < Len(sent)
  /\ got' = Append(got, sent[Len(got) + 1])
  /\ UNCHANGED <<sent, up>>

GoDown == up /\ up' = FALSE /\ UNCHANGED <<sent, got>>

Next == (\E c \in Command : Take(c)) \/ Deliver \/ GoDown

Spec == Init /\ [][Next]_<<sent, got, up>>
=============================================================================
