---------------------------- MODULE MCClusterPool ----------------------------
(* Requests, shards and batches for the TLC run of ClusterPool. *)
EXTENDS ClusterPool

CONSTANTS r1, r2, r3, s1, s2

\* Two requests compete for the first shard, the third opens another pool.
TwoShards == [r \in Requests |-> IF r = r3 THEN s2 ELSE s1]

\* The second request is a pipeline of two commands.
Pipelined == [r \in Requests |-> IF r = r2 THEN 2 ELSE 1]
=============================================================================
