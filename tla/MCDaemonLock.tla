---------------------------- MODULE MCDaemonLock ----------------------------
(* Small instances of DaemonLock and Autostart. *)
EXTENDS Autostart

CONSTANTS d1, d2, k1, k2, c1
=============================================================================
