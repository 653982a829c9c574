--------------------------- MODULE MCReplication ---------------------------
(* Keys, command sets and sizes for the TLC runs of Replication. *)
EXTENDS Replication

CONSTANTS k1, k2, k3

OneKey == {k1}
TwoKeys == {k1, k2}
ThreeKeys == {k1, k2, k3}

NoCap == [cap |-> 0, policy |-> "allkeys-lru"]
CapTwo == [cap |-> 2, policy |-> "allkeys-lru"]

UnitCost(v) == 1

\* No deadlines: evictions and the link are what this is about.
PlainCommands ==
    {CmdSet(k, 1, None, "always") : k \in Keys} \cup {CmdIncr(k, 1) : k \in Keys}
    \cup {CmdGet(k) : k \in Keys}

\* Deadlines that are never put off: SET takes an absent key, EXPIRE brings the
\* end nearer.
DeadlineCommands ==
    {CmdSet(k, 2, 2, "NX") : k \in Keys}
    \cup {CmdSet(k, 1, None, "NX") : k \in Keys}
    \cup {CmdExpire(k, 1) : k \in Keys}
    \cup {CmdDel(k) : k \in Keys} \cup {CmdTtl(k) : k \in Keys}

SetCommands == {CmdSet(k, 1, None, "always") : k \in Keys}
=============================================================================
