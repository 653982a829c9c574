---------------------------- MODULE DurableStore ----------------------------
(***************************************************************************)
(* What a cache with an append-only file promises its clients, without the *)
(* file: writes become visible at once, are acknowledged, and come back    *)
(* after a crash.  AofLog.tla, with its lock, its threads, its flags and   *)
(* its rewrites, implements this (AofRefinement.tla).                      *)
(***************************************************************************)
EXTENDS Naturals

CONSTANT Strict     \* whether an acknowledged write survives a power loss

VARIABLES
    up,         \* the server is running
    executed,   \* the number of writes executed so far
    view,       \* the writes a reader sees
    acked,      \* the writes whose reply has been sent
    saved,      \* the writes that a stopped server will come back with
    losses      \* how often the machine lost its power

vars == <<up, executed, view, acked, saved, losses>>

Init ==
    /\ up = TRUE /\ executed = 0 /\ view = {} /\ acked = {}
    /\ saved = {} /\ losses = 0

Execute ==
    /\ up
    /\ executed' = executed + 1
    /\ view' = view \cup {executed'}
    /\ UNCHANGED <<up, acked, saved, losses>>

\* Only what can be read is acknowledged.
Acknowledge(n) ==
    /\ up
    /\ acked' = acked \cup {n}
    /\ UNCHANGED <<up, executed, view, saved, losses>>

\* Nothing comes back that a reader did not see before the crash.
Crash(kept) ==
    /\ up
    /\ up' = FALSE
    /\ saved' \in SUBSET view
    /\ kept \subseteq saved'
    /\ UNCHANGED <<executed, view, acked>>

\* The process dies: every acknowledged write that was visible comes back.
Kill == Crash(view \cap acked) /\ UNCHANGED losses

\* The machine dies: if Strict, every write ever acknowledged comes back.
PowerLoss == Crash(IF Strict THEN acked ELSE {}) /\ losses' = losses + 1

Recover ==
    /\ ~up
    /\ up' = TRUE
    /\ view' = saved
    /\ saved' = {}
    /\ UNCHANGED <<executed, acked, losses>>

Next ==
    \/ Execute
    \/ \E n \in view : Acknowledge(n)
    \/ Kill \/ PowerLoss
    \/ Recover

Spec == Init /\ [][Next]_vars
=============================================================================
