---------------------------- MODULE MCServerTasks ----------------------------
(* Connections for the TLC runs of ServerTasks. *)
EXTENDS ServerTasks

CONSTANTS c1, c2
=============================================================================
