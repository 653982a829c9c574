---------------------------- MODULE Replication ----------------------------
(***************************************************************************)
(* A primary and a replica: the propagation of writes by the command loop  *)
(* (server.py), the link with its queue and pump task (_ReplicaLink,       *)
(* _serve_replica), and the replica's client (replication.py).             *)
(*                                                                         *)
(* The connection is a FIFO of commands that may break at any moment.  The *)
(* clocks of the two machines run at the same rate.  A link the replica    *)
(* has given up is forgotten by the primary at the same time: what would   *)
(* still be sent on it reaches nobody.                                     *)
(***************************************************************************)
EXTENDS Commands

CONSTANTS
    Commands,       \* the commands clients send to the primary
    PrimaryOptions, \* the options of the primary; a replica has no cap
    Limit,          \* REPLICA_BACKLOG_LIMIT, in payloads
    MaxNow,         \* bound: ticks of the clock
    MaxWrites,      \* bound: writes executed
    MaxLosses       \* bound: broken connections and restarts of the primary

ASSUME ReplicationAssumption ==
    /\ Commands \subseteq CommandType
    /\ PrimaryOptions \in Options /\ Limit \in Nat
    /\ MaxNow \in Nat /\ MaxWrites \in Nat /\ MaxLosses \in Nat

VARIABLES
    primary,    \* the primary's store
    replica,    \* the replica's store
    now,        \* the clocks
    link,       \* the primary has an open _ReplicaLink
    queue,      \* _queue of the link
    pending,    \* _pending, in payloads
    wire,       \* payloads written to the connection and not yet applied
    connected,  \* the replica is in _connect_and_stream
    writes, losses

linkVars  == <<link, queue, pending>>
boundVars == <<writes, losses>>
vars == <<primary, replica, now, linkVars, wire, connected, boundVars>>

-----------------------------------------------------------------------------
(***************************************************************************)
(* _ReplicaLink                                                            *)
(***************************************************************************)
Closed == [link |-> FALSE, queue |-> <<>>, pending |-> 0]

\* Mutant: a payload over the limit is skipped and the link stays open.
SendSkipping(l, c) ==
    IF ~l.link \/ l.pending + 1 > Limit THEN l
    ELSE [l EXCEPT !.queue = Append(@, c), !.pending = @ + 1]

\* Mutant: the limit is not enforced.
SendUnlimited(l, c) ==
    IF ~l.link THEN l
    ELSE [l EXCEPT !.queue = Append(@, c), !.pending = @ + 1]

\* send(): a link over its limit is closed, and its queue is lost with it.
Send(l, c) ==
    IF ~l.link THEN l
    ELSE IF l.pending + 1 > Limit THEN Closed
    ELSE [l EXCEPT !.queue = Append(@, c), !.pending = @ + 1]

\* _propagate, of several commands.
Propagate(commands) ==
    LET after[i \in 0..Len(commands)] ==
            IF i = 0 THEN [link |-> link, queue |-> queue, pending |-> pending]
            ELSE Send(after[i - 1], commands[i])
        last == after[Len(commands)]
    IN  link' = last.link /\ queue' = last.queue /\ pending' = last.pending

\* _pump: a payload is written; when the write has drained it is accounted.
Draining == pending > Len(queue)

PumpWrite ==
    /\ link /\ ~Draining /\ queue # <<>>
    /\ wire' = Append(wire, Head(queue))
    /\ queue' = Tail(queue)
    /\ UNCHANGED <<primary, replica, now, link, pending, connected, boundVars>>

PumpDrained ==
    /\ link /\ Draining
    /\ pending' = pending - 1
    /\ UNCHANGED <<primary, replica, now, link, queue, wire, connected, boundVars>>

\* _replica_heartbeat_loop, once a second.  Bound: one PING under way at a time.
Heartbeat ==
    /\ link /\ CmdPing \notin ToSet(queue \o wire)
    /\ Propagate(<<CmdPing>>)
    /\ UNCHANGED <<primary, replica, now, wire, connected, boundVars>>

-----------------------------------------------------------------------------
(***************************************************************************)
(* The primary's command loop, as in CacheNode: what is sent is the        *)
(* command and a DEL for every key it evicted.                             *)
(***************************************************************************)
\* Mutant: evictions are not propagated.
StreamWithoutEvictions(c, r) ==
    IF c.op # "SET" \/ r.wrote THEN <<ToReplication(c)>> ELSE <<>>

Stream(c, r) ==
    LET own == IF c.op # "SET" \/ r.wrote THEN <<ToReplication(c)>> ELSE <<>>
        del == [i \in 1..Len(r.store.evicted) |-> CmdDel(r.store.evicted[i])]
    IN  own \o del

\* The memory check, before the command is dispatched: an error, and no change.
Refused(c) ==
    /\ c.op \in DenyOom
    /\ primary.policy = "noeviction"
    /\ OverLimit(primary)

Write(c) ==
    LET r == Dispatch(primary, c, now)
    IN  /\ ~Refused(c)
        /\ c.op \in WriteCommands
        /\ writes < MaxWrites
        /\ writes' = writes + 1
        /\ r.ok
        /\ primary' = DrainEvictions(r.store)
        /\ Propagate(Stream(c, r))
        /\ UNCHANGED <<replica, now, wire, connected, losses>>

Read(c) ==
    LET r == Dispatch(primary, c, now)
    IN  /\ ~Refused(c)
        /\ c.op \notin WriteCommands \/ ~r.ok
        /\ primary' = r.store
        /\ UNCHANGED <<replica, now, linkVars, wire, connected, boundVars>>

SweepPrimary ==
    /\ primary' = Sweep(primary, now)
    /\ UNCHANGED <<replica, now, linkVars, wire, connected, boundVars>>

SweepReplica ==
    /\ replica' = Sweep(replica, now)
    /\ UNCHANGED <<primary, now, linkVars, wire, connected, boundVars>>

Tick ==
    /\ now < MaxNow
    /\ now' = now + 1
    /\ UNCHANGED <<primary, replica, linkVars, wire, connected, boundVars>>

-----------------------------------------------------------------------------
\* Mutant: forced payloads are not counted.
ConnectUncounted ==
    /\ ~connected
    /\ connected' = TRUE
    /\ primary' = Sweep(primary, now)
    /\ link' = TRUE
    /\ queue' = <<CmdFlushdb>> \o SnapshotCommands(primary', now)
    /\ pending' = 0
    /\ wire' = <<>>
    /\ UNCHANGED <<replica, now, boundVars>>

\* The replica connects and sends SYNC; _serve_replica queues FLUSHDB and a
\* snapshot, whatever the limit, and registers the link, all in one go.
Connect ==
    /\ ~connected
    /\ connected' = TRUE
    /\ primary' = Sweep(primary, now)
    /\ link' = TRUE
    /\ queue' = <<CmdFlushdb>> \o SnapshotCommands(primary', now)
    /\ pending' = Len(queue')
    /\ wire' = <<>>
    /\ UNCHANGED <<replica, now, boundVars>>

\* The replica's read loop.
Apply ==
    /\ connected /\ wire # <<>>
    /\ replica' = Dispatch(replica, Head(wire), now).store
    /\ wire' = Tail(wire)
    /\ UNCHANGED <<primary, now, linkVars, connected, boundVars>>

\* The primary has closed the connection and the replica has read it to its
\* end: run() goes on to reconnect.
StreamEnds ==
    /\ connected /\ ~link /\ wire = <<>>
    /\ connected' = FALSE
    /\ UNCHANGED <<primary, replica, now, linkVars, wire, boundVars>>

Loss == losses < MaxLosses /\ losses' = losses + 1

CloseLink == link' = FALSE /\ queue' = <<>> /\ pending' = 0

\* The connection breaks, or the replica's LINK_TIMEOUT passes.
LinkLost ==
    /\ connected
    /\ Loss
    /\ connected' = FALSE
    /\ wire' = <<>>
    /\ CloseLink
    /\ UNCHANGED <<primary, replica, now, writes>>

\* The primary gives the replica up (LINK_TIMEOUT, an error of the writer).
LinkDropped ==
    /\ link
    /\ Loss
    /\ CloseLink
    /\ UNCHANGED <<primary, replica, now, wire, connected, writes>>

\* The primary restarts without an append-only file.
PrimaryRestarts ==
    /\ Loss
    /\ primary' = Empty(PrimaryOptions)
    /\ CloseLink
    /\ UNCHANGED <<replica, now, wire, connected, writes>>

-----------------------------------------------------------------------------
Init ==
    /\ primary = Empty(PrimaryOptions) /\ replica = Empty([PrimaryOptions EXCEPT !.cap = 0])
    /\ now = 0
    /\ link = FALSE /\ queue = <<>> /\ pending = 0
    /\ wire = <<>> /\ connected = FALSE
    /\ writes = 0 /\ losses = 0

Next ==
    \/ \E c \in Commands : Write(c) \/ Read(c)
    \/ PumpWrite \/ PumpDrained \/ Heartbeat
    \/ Connect \/ Apply \/ StreamEnds
    \/ LinkLost \/ LinkDropped \/ PrimaryRestarts
    \/ SweepPrimary \/ SweepReplica \/ Tick

Spec == Init /\ [][Next]_vars

\* The pump and the replica's loops are tasks that always get their turn, and
\* a connection that does not break delivers.
Fairness ==
    /\ WF_vars(PumpWrite) /\ WF_vars(PumpDrained)
    /\ WF_vars(Apply) /\ WF_vars(StreamEnds) /\ WF_vars(Connect)

FairSpec == Spec /\ Fairness
-----------------------------------------------------------------------------
LiveKeys(s) == {k \in Keys : Live(s, k, now)}

Values(s) == {<<k, s.data[k].value>> : k \in LiveKeys(s)}

\* The accounting of the link and the shape of its state.
TypeOK ==
    /\ link \in BOOLEAN /\ connected \in BOOLEAN
    /\ pending \in Len(queue)..Len(queue) + 1
    /\ link => connected
    /\ ~link => queue = <<>> /\ pending = 0
    /\ replica.cap = 0 /\ replica.evicted = <<>> /\ primary.evicted = <<>>

(***************************************************************************)
(* Nothing is lost between the two: while the link is up, the replica, the *)
(* connection and the queue together make the primary's contents, however  *)
(* snapshot, evictions, overflows and reconnects interleave (no TTLs).     *)
(***************************************************************************)
InFlightFidelity ==
    (link /\ connected) =>
        Values(DispatchAll(replica, wire \o queue, now)) = Values(primary)

(***************************************************************************)
(* A slow replica costs the primary no more than the limit: after the      *)
(* snapshot that opens a link (which may be larger), writes with their     *)
(* evictions and heartbeats never make its backlog grow past it.           *)
(***************************************************************************)
BacklogBounded == [][link /\ pending' > pending => pending' <= Limit]_vars

\* The link is up and everything sent has been applied.
CaughtUp == link /\ connected /\ queue = <<>> /\ wire = <<>>

(***************************************************************************)
(* Relative TTLs drift in one direction only: as long as no command puts a *)
(* deadline off, a replica that has caught up shows every live key of the  *)
(* primary, with its value, and lets it expire no earlier than the primary *)
(* (to_replication_command, build_snapshot_commands).                      *)
(***************************************************************************)
LiveKeysReplicated ==
    CaughtUp =>
        \A k \in LiveKeys(primary) :
            /\ Live(replica, k, now)
            /\ replica.data[k].value = primary.data[k].value
            /\ \/ replica.data[k].expireAt = None /\ primary.data[k].expireAt = None
               \/ /\ replica.data[k].expireAt # None /\ primary.data[k].expireAt # None
                  /\ replica.data[k].expireAt >= primary.data[k].expireAt

(***************************************************************************)
(* Once writes and breakdowns stop, the replica converges to the primary's *)
(* contents for good: after overflow, loss or restart there is a resync.   *)
(***************************************************************************)
EventuallyConsistent == <>[](Values(replica) = Values(primary))
=============================================================================
