---------------------------- MODULE MCHashRing ----------------------------
(* Shards for the TLC run of HashRing. *)
EXTENDS HashRing

CONSTANTS n1, n2, n3
=============================================================================
