---------------------------- MODULE MCDaemonLink -------------------------------
(* Small instances of DaemonLink. *)
EXTENDS DaemonLink
===============================================================================
