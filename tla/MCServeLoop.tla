----------------------------- MODULE MCServeLoop -----------------------------
(* A small instance of ServeLoop: a client may go from a task to another one *)
(* and back, and one of them produces output.                                *)
EXTENDS ServeLoop

CONSTANTS a, b

MCBig == {<<a, 0>>}
=============================================================================
