------------------------------- MODULE FleetLife -------------------------------
(***************************************************************************)
(* What the supervisor promises about the runs it gives its rows, without  *)
(* commands, timers or PIDs: a run is sent KILL only after it was asked to *)
(* stop, its leader is collected only after that KILL, and when the fleet  *)
(* is over every run it ever held has been sent KILL. The child of a       *)
(* launch that failed behind the fork is no such run.                      *)
(***************************************************************************)
CONSTANT Run

VARIABLES started, asked, killed, collected, over
vars == <<started, asked, killed, collected, over>>

Init ==
  /\ started = {} /\ asked = {} /\ killed = {} /\ collected = {}
  /\ over = FALSE

\* Requests start runs and ask runs that already exist to stop.
Serve ==
  /\ ~over /\ UNCHANGED <<over, killed, collected>>
  /\ started \subseteq started' /\ started' \subseteq Run
  /\ asked \subseteq asked' /\ asked' \subseteq started

\* A pass escalates to runs that were asked and collects runs that were killed.
Sweep ==
  /\ ~over /\ UNCHANGED <<over, started, asked>>
  /\ killed \subseteq killed' /\ killed' \subseteq killed \cup asked
  /\ collected \subseteq collected' /\ collected' \subseteq killed'

End ==
  /\ ~over /\ over' /\ UNCHANGED <<started, asked>>
  /\ killed' = started
  /\ collected \subseteq collected' /\ collected' \subseteq started

\* What is left is collected by init.
Bury ==
  /\ over /\ UNCHANGED <<over, started, asked, killed>>
  /\ collected \subseteq collected' /\ collected' \subseteq started

Next == Serve \/ Sweep \/ End \/ Bury

SafeSpec == Init /\ [][Next]_vars

\* Who was asked is eventually killed, and a fleet that is over is collected.
Promise ==
  /\ \A r \in Run : r \in asked ~> r \in killed
  /\ over ~> collected = started

Spec == SafeSpec /\ Promise
=============================================================================
