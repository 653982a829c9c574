---------------------------- MODULE MCCacheNode ----------------------------
(* Keys, command sets and sizes for the TLC runs of CacheNode. *)
EXTENDS CacheNode, TLC

CONSTANTS k1, k2, k3

OneKey == {k1}
TwoKeys == {k1, k2}
ThreeKeys == {k1, k2, k3}

\* No cap; room for two of three small entries; and each policy with its own cap.
NoCap == {[cap |-> 0, policy |-> "allkeys-lru"]}
CapTwo == {[cap |-> 2, policy |-> "allkeys-lru"]}
EachPolicy == CapTwo \cup {[cap |-> 1, policy |-> "noeviction"]}

\* Keys are interchangeable; the third only where no command singles it out.
KeySymmetry == Permutations(Keys)
PairSymmetry == Permutations({k1, k2})

\* 0 and 1 print with one digit, 2 stands for the first number with two.
DigitCost(v) == IF v = 2 THEN 2 ELSE 1

\* Everything that concerns deadlines.
TtlCommands ==
    {CmdSet(k, 1, None, "XX") : k \in Keys}
    \cup {CmdSet(k, 1, 1, "NX") : k \in Keys}
    \cup {CmdIncr(k, 1) : k \in Keys}
    \cup {CmdExpire(k, 2) : k \in Keys}
    \cup {CmdPersist(k) : k \in Keys}
    \cup {CmdTtl(k) : k \in Keys}
    \cup {CmdKeys, CmdFlushdb}

\* Everything that concerns memory; writes of two keys may evict one another.
\* k3 is a counter and has no deadline.
MemoryCommands ==
    {CmdSet(k, 1, 1, "always") : k \in Keys \ {k3}}
    \cup {CmdMset(<<<<p[1], 1>>, <<p[2], 1>>>>) : p \in {q \in Keys \X Keys : q[1] # q[2]}}
    \cup {CmdIncr(k3, 1)}
    \cup {CmdGet(k) : k \in Keys}
=============================================================================
