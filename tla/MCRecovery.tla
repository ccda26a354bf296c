------------------------------ MODULE MCRecovery ------------------------------
(* A small instance of Recovery: two dead writers, of which one started after Me, and a *)
(* writer that starts later. *)
EXTENDS Recovery, TLC

CONSTANTS r1, r2, x, y

Alike == Permutations(Recipe)

\* The years from 1970 to 1973, and around the ends of February and of the years 2000, 2100,
\* 2399 and 2400.
MCDays == (0 .. 1500) \cup (10950 .. 11400) \cup (47450 .. 47900) \cup (156600 .. 157500)
=============================================================================
