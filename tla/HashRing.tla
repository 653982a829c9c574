------------------------------ MODULE HashRing ------------------------------
(***************************************************************************)
(* ConsistentHashRing (cluster.py): the dictionary _ring from hashes to    *)
(* nodes and the sorted list _sorted_hashes beside it, which add_node,     *)
(* remove_node and get_node keep and use together.                         *)
(*                                                                         *)
(* Hashes are numbers below Space.  The hash function is any function that *)
(* gives the virtual nodes different hashes (MD5, whose 2^128 values do    *)
(* not collide here); the hash of a key is any number.                     *)
(***************************************************************************)
EXTENDS Naturals, Functions, SequencesExt

CONSTANTS
    Nodes,          \* names of shards
    NoNode,         \* no shard: get_node raises ValueError
    VirtualNodes,   \* virtual_nodes
    Space           \* bound: the number of hashes

ASSUME RingAssumption ==
    /\ VirtualNodes \in Nat \ {0} /\ Space \in Nat
    /\ NoNode \notin Nodes

VARIABLES
    hash,    \* _hash of "node#i", for every node and index
    ring,    \* _ring
    sorted,  \* _sorted_hashes
    added    \* history: the nodes added and not removed since

vars == <<hash, ring, sorted, added>>

Hashes  == 0..(Space - 1)
Indices == 1..VirtualNodes

\* bisect_left and bisect on a sorted list, as the number of elements before.
BisectLeft(s, h)  == Cardinality({i \in DOMAIN s : s[i] < h})
BisectRight(s, h) == Cardinality({i \in DOMAIN s : s[i] <= h})

nodes == Range(ring)

-----------------------------------------------------------------------------
Insort(s, h) == InsertAt(s, BisectRight(s, h) + 1, h)

\* The list after each virtual node that add_node inserts into s.
Inserted(s, hs) ==
    LET list[i \in 0..VirtualNodes] == IF i = 0 THEN s ELSE Insort(list[i - 1], hs[i])
    IN  list

\* _ring with the points of n.
RingWith(n) ==
    LET points == Range(hash[n])
    IN  [h \in DOMAIN ring \cup points |-> IF h \in points THEN n ELSE ring[h]]

\* Mutant: a node that is already there is inserted again.
AddNodeAgain(n) ==
    /\ Len(sorted) <= VirtualNodes * Cardinality(Nodes)
    /\ ring' = RingWith(n)
    /\ sorted' = Inserted(sorted, hash[n])[VirtualNodes]
    /\ added' = added \cup {n}
    /\ UNCHANGED hash

AddNode(n) ==
    /\ n \notin nodes
    /\ ring' = RingWith(n)
    /\ sorted' = Inserted(sorted, hash[n])[VirtualNodes]
    /\ added' = added \cup {n}
    /\ UNCHANGED hash

\* Mutant: what is found at the position is not compared with h.
DeleteUnchecked(s, h) ==
    LET idx == BisectLeft(s, h) + 1
    IN  IF idx <= Len(s) THEN RemoveAt(s, idx) ELSE s

Delete(s, h) ==
    LET idx == BisectLeft(s, h) + 1
    IN  IF idx <= Len(s) /\ s[idx] = h THEN RemoveAt(s, idx) ELSE s

\* The list after each virtual node that remove_node takes out of s.
Deleted(s, hs) ==
    LET list[i \in 0..VirtualNodes] == IF i = 0 THEN s ELSE Delete(list[i - 1], hs[i])
    IN  list

\* Also for a node that is not in the ring, which changes nothing.
RemoveNode(n) ==
    /\ ring' = Restrict(ring, DOMAIN ring \ Range(hash[n]))
    /\ sorted' = Deleted(sorted, hash[n])[VirtualNodes]
    /\ added' = added \ {n}
    /\ UNCHANGED hash

\* Mutant: the ring does not wrap around at its end.
GetNodeLast(h) ==
    LET idx == BisectRight(sorted, h)
    IN  IF sorted = <<>> THEN NoNode
        ELSE ring[sorted[IF idx = Len(sorted) THEN idx ELSE idx + 1]]

\* get_node of a key whose hash is h.
GetNode(h) ==
    LET idx == BisectRight(sorted, h)
    IN  IF sorted = <<>> THEN NoNode
        ELSE ring[sorted[IF idx = Len(sorted) THEN 1 ELSE idx + 1]]

-----------------------------------------------------------------------------
Init ==
    /\ hash \in [Nodes -> [Indices -> Hashes]]
    /\ \A n, m \in Nodes, i, j \in Indices : hash[n][i] = hash[m][j] => n = m /\ i = j
    /\ ring = <<>> /\ sorted = <<>> /\ added = {}

Next == \E n \in Nodes : AddNode(n) \/ RemoveNode(n)

Spec == Init /\ [][Next]_vars
-----------------------------------------------------------------------------
\* The points of the nodes that should be in the ring.
Points == UNION {Range(hash[n]) : n \in added}

(***************************************************************************)
(* The dictionary and the list stay together through every sequence of     *)
(* add_node and remove_node, repeated ones included: the list is strictly  *)
(* ascending and both hold the points of the nodes added, so that get_node *)
(* never looks up a hash that the dictionary has lost.                     *)
(***************************************************************************)
RingConsistent ==
    /\ \A i, j \in DOMAIN sorted : i < j => sorted[i] < sorted[j]
    /\ Range(sorted) = Points /\ DOMAIN ring = Points
    /\ nodes = added

\* How far clockwise from h a point is; a point at h itself is a full circle away.
Clockwise(h, p) == IF p > h THEN p - h ELSE p + Space - h

(***************************************************************************)
(* Every client routes alike: get_node gives the owner of the first point  *)
(* clockwise of the key, which depends on the nodes in the ring and not on *)
(* the order in which they came and went.                                  *)
(***************************************************************************)
RoutesClockwise ==
    \A h \in Hashes :
        IF added = {} THEN GetNode(h) = NoNode
        ELSE \E p \in Range(hash[GetNode(h)]) :
                \A q \in Points : Clockwise(h, p) <= Clockwise(h, q)

(***************************************************************************)
(* Consistent hashing: a node that joins takes keys but moves none between *)
(* the others, and a node that leaves gives up its own keys only.          *)
(***************************************************************************)
MovesOnlyOwnKeys ==
    [][\A h \in Hashes : GetNode(h)' # GetNode(h) =>
          \/ GetNode(h) = NoNode
          \/ GetNode(h)' \in added' \ added
          \/ GetNode(h) \in added \ added']_vars
=============================================================================
