---------------------------- MODULE ClusterPool ----------------------------
(***************************************************************************)
(* The connection pools of ClusterClient (cluster.py): _run with its       *)
(* slots, idle connections, time-outs, cancellation and the retry of a     *)
(* reused connection, _connect with AUTH, and close().                     *)
(*                                                                         *)
(* A request is one call of _run, that of a single command (_roundtrip) or *)
(* of a shard's part of a pipeline (_execute_many), and writes Batch[r]    *)
(* commands at once.  The i-th command of the n-th attempt of r is the     *)
(* message <<r, n, i>>, AUTH being number 0, and a reply is the message it *)
(* answers.  The shards and the network are external: a shard executes     *)
(* what a connection carries in order, at any later time and also after    *)
(* the client has closed its end, and may drop a connection or send a      *)
(* reply that read_reply refuses.                                          *)
(***************************************************************************)
EXTENDS Naturals, FiniteSets, SequencesExt

CONSTANTS
    Requests,       \* calls of _run
    Shards,         \* node ids
    ShardOf,        \* the shard each request goes to
    Batch,          \* commands of each request
    Oversized,      \* requests with replies that may be over a limit of protocol.py
    PoolSize,       \* pool_size
    Password,       \* whether a password is given
    MaxConns,       \* bound: connections ever opened
    MaxBreaks       \* bound: connections a shard drops

ASSUME PoolAssumption ==
    /\ ShardOf \in [Requests -> Shards] /\ Batch \in [Requests -> Nat \ {0}]
    /\ Oversized \subseteq Requests
    /\ PoolSize \in Nat \ {0} /\ Password \in BOOLEAN
    /\ MaxConns \in Nat /\ MaxBreaks \in Nat

VARIABLES
    pc,         \* where each request stands
    tried,      \* per request: the connections of its attempts, in order
    fresh,      \* per request: the connection was opened by this attempt
    got,        \* per request: the replies read by this attempt
    order,      \* the keys of _pools, in the order of their insertion
    pool,       \* per shard: free slots, requests waiting for one, idle
    conns,      \* connections ever opened
    closed,     \* _closed
    closer,     \* close(): its state, position in _pools, size it started with
    breaks

reqVars == <<pc, tried, fresh, got>>
closeVars == <<order, closed, closer>>
vars == <<reqVars, pool, conns, closeVars, breaks>>

Ended == {"done", "failed", "cancelled"}
Active == {"connect", "auth", "read"}       \* holding a slot

-----------------------------------------------------------------------------
(***************************************************************************)
(* Connections.  open is the client's end; status is the shard's: "up",    *)
(* "gone" when it has dropped the connection, "spoilt" when it is there    *)
(* and has sent a reply that cannot be read, which hides all that follow.  *)
(* sent is what the shard has still to execute, replies what the client    *)
(* has still to read.                                                      *)
(***************************************************************************)
Conn(s) == [shard |-> s, open |-> TRUE, status |-> "up", sent |-> <<>>, replies |-> <<>>]

\* writer.write(); what cannot be answered any more goes nowhere.
Written(conn, msgs) == IF conn.status = "up" THEN [conn EXCEPT !.sent = @ \o msgs] ELSE conn

\* writer.close(); what the shard goes on to execute is seen by nobody.
Shut(conn) == [conn EXCEPT !.open = FALSE, !.sent = <<>>, !.replies = <<>>]

\* One reply has been read.
Consumed(conn) == [conn EXCEPT !.replies = Tail(@)]

\* The shard has executed and answered a command.
Executed(conn) == [conn EXCEPT !.sent = Tail(@), !.replies = Append(@, Head(conn.sent))]

\* read_reply refuses what the shard has answered: an array or a bulk string
\* over its limit, or a line that is too long.
Spoilt(conn) == [conn EXCEPT !.status = "spoilt", !.sent = <<>>]

\* The shard is gone, and the client has the first n replies still to read.
Cut(conn, n) == [conn EXCEPT !.status = "gone", !.sent = <<>>, !.replies = SubSeq(@, 1, n)]

\* The messages of attempt n of request r.
Messages(r, n) == [i \in 1..Batch[r] |-> <<r, n, i>>]

Mine(r) == Last(tried[r])

-----------------------------------------------------------------------------
(***************************************************************************)
(* The start of an attempt, on the pool p and the connections cs: a slot,  *)
(* the newest idle connection if there is one, and the commands are        *)
(* written.                                                                *)
(***************************************************************************)
Reuse(r, p, cs) ==
    LET c == Last(p.idle) IN
    /\ p.idle # <<>>
    /\ pool' = [pool EXCEPT ![ShardOf[r]] = [p EXCEPT !.slots = @ - 1, !.idle = Front(@)]]
    /\ tried' = [tried EXCEPT ![r] = Append(@, c)]
    /\ fresh' = [fresh EXCEPT ![r] = FALSE]
    /\ conns' = [cs EXCEPT ![c] = Written(@, Messages(r, Len(tried[r]) + 1))]
    /\ pc' = [pc EXCEPT ![r] = "read"]

Connect(r, p, cs) ==
    /\ pool' = [pool EXCEPT ![ShardOf[r]] = [p EXCEPT !.slots = @ - 1]]
    /\ fresh' = [fresh EXCEPT ![r] = TRUE]
    /\ pc' = [pc EXCEPT ![r] = "connect"]
    /\ conns' = cs
    /\ UNCHANGED tried

\* Mutant: every attempt opens a connection of its own.
BeginConnecting(r, p, cs) ==
    /\ got' = [got EXCEPT ![r] = <<>>]
    /\ Connect(r, p, cs)

Begin(r, p, cs) ==
    /\ got' = [got EXCEPT ![r] = <<>>]
    /\ \/ Reuse(r, p, cs)
       \/ p.idle = <<>> /\ Connect(r, p, cs)

\* await pool.slots.acquire(): at once, or in the queue of the semaphore.
Acquire(r, p, cs) ==
    \/ p.slots > 0 /\ p.waiters = <<>> /\ Begin(r, p, cs)
    \/ /\ p.slots = 0 \/ p.waiters # <<>>
       /\ pool' = [pool EXCEPT ![ShardOf[r]] = [p EXCEPT !.waiters = Append(@, r)]]
       /\ pc' = [pc EXCEPT ![r] = "wait"]
       /\ conns' = cs
       /\ UNCHANGED <<tried, fresh, got>>

Call(r) ==
    /\ pc[r] = "idle"
    /\ order' = IF ShardOf[r] \in ToSet(order) THEN order ELSE Append(order, ShardOf[r])
    /\ Acquire(r, pool[ShardOf[r]], conns)
    /\ UNCHANGED <<closed, closer, breaks>>

\* A released slot goes to the request that has waited longest.
Granted(r) ==
    LET p == pool[ShardOf[r]] IN
    /\ pc[r] = "wait"
    /\ p.slots > 0 /\ p.waiters # <<>> /\ Head(p.waiters) = r
    /\ Begin(r, [p EXCEPT !.waiters = Tail(@)], conns)
    /\ UNCHANGED <<closeVars, breaks>>

-----------------------------------------------------------------------------
(***************************************************************************)
(* _connect, with AUTH.                                                    *)
(***************************************************************************)
Connected(r) ==
    LET n == Len(tried[r]) + 1
        first == IF Password THEN <<<<r, n, 0>>>> ELSE Messages(r, n)
    IN
    /\ pc[r] = "connect"
    /\ Len(conns) < MaxConns
    /\ conns' = Append(conns, Written(Conn(ShardOf[r]), first))
    /\ tried' = [tried EXCEPT ![r] = Append(@, Len(conns) + 1)]
    /\ pc' = [pc EXCEPT ![r] = IF Password THEN "auth" ELSE "read"]
    /\ UNCHANGED <<fresh, got, pool, closeVars, breaks>>

\* The reply to AUTH is OK, and op() starts.
Authenticated(r) ==
    LET c == Mine(r) IN
    /\ pc[r] = "auth"
    /\ conns[c].replies # <<>>
    /\ conns' = [conns EXCEPT ![c] = Written(Consumed(@), Messages(r, Len(tried[r])))]
    /\ pc' = [pc EXCEPT ![r] = "read"]
    /\ UNCHANGED <<tried, fresh, got, pool, closeVars, breaks>>

-----------------------------------------------------------------------------
(***************************************************************************)
(* The ways out of an attempt.  The finally clause gives the slot back in  *)
(* every one of them, and the connection only after a reply.               *)
(***************************************************************************)
Freed(p) == [p EXCEPT !.slots = @ + 1]

\* With the slot, the connection c goes back to its pool.
Returned(p, c) == [p EXCEPT !.slots = @ + 1, !.idle = Append(@, c)]

Dropped(r) == IF pc[r] = "connect" THEN conns ELSE [conns EXCEPT ![Mine(r)] = Shut(@)]

\* Mutant: ok is set before the reply has been read.
GiveUpKeeping(r, how) ==
    LET keep == pc[r] # "connect" /\ ~closed IN
    /\ pc' = [pc EXCEPT ![r] = how]
    /\ pool' = [pool EXCEPT ![ShardOf[r]] =
                  IF keep THEN Returned(@, Mine(r)) ELSE Freed(@)]
    /\ conns' = IF keep THEN conns ELSE Dropped(r)
    /\ UNCHANGED <<tried, fresh, got, closeVars, breaks>>

\* Mutant: the slot is only given back with a connection.
GiveUpHolding(r, how) ==
    /\ pc' = [pc EXCEPT ![r] = how]
    /\ pool' = IF pc[r] = "connect" THEN pool ELSE [pool EXCEPT ![ShardOf[r]] = Freed(@)]
    /\ conns' = Dropped(r)
    /\ UNCHANGED <<tried, fresh, got, closeVars, breaks>>

GiveUp(r, how) ==
    /\ pc' = [pc EXCEPT ![r] = how]
    /\ pool' = [pool EXCEPT ![ShardOf[r]] = Freed(@)]
    /\ conns' = Dropped(r)
    /\ UNCHANGED <<tried, fresh, got, closeVars, breaks>>

Retry(r) ==
    /\ Acquire(r, Freed(pool[ShardOf[r]]), Dropped(r))
    /\ UNCHANGED <<closeVars, breaks>>

\* open_connection fails or times out; AUTH is refused, breaks or times out.
ConnectFailed(r) == pc[r] \in {"connect", "auth"} /\ GiveUp(r, "failed")

\* Mutant: TimeoutError, which is an OSError, is handled like one.
TimedOutRetrying(r) ==
    /\ pc[r] = "read"
    /\ IF fresh[r] THEN GiveUp(r, "failed") ELSE Retry(r)

\* No reply within read_timeout.
TimedOut(r) == pc[r] = "read" /\ GiveUp(r, "failed")

\* OSError, IncompleteReadError or ProtocolError: the connection is gone, or the
\* next reply cannot be read.  An error, or another attempt if it was reused.
Broken(r) ==
    /\ pc[r] = "read"
    /\ conns[Mine(r)].status # "up" /\ conns[Mine(r)].replies = <<>>
    /\ IF fresh[r] THEN GiveUp(r, "failed") ELSE Retry(r)

\* Mutant: a request cancelled in the queue gives back a slot it never had.
CancelReleasing(r) ==
    \/ pc[r] \in Active /\ GiveUp(r, "cancelled")
    \/ /\ pc[r] = "wait"
       /\ pc' = [pc EXCEPT ![r] = "cancelled"]
       /\ \E i \in 1..Len(pool[ShardOf[r]].waiters) :
             /\ pool[ShardOf[r]].waiters[i] = r
             /\ pool' = [pool EXCEPT ![ShardOf[r]] =
                           [Freed(@) EXCEPT !.waiters = RemoveAt(@, i)]]
       /\ UNCHANGED <<tried, fresh, got, conns, closeVars, breaks>>

\* The task is cancelled at the await where it stands; one that waits for a
\* slot leaves the queue of the semaphore.
Cancel(r) ==
    \/ pc[r] \in Active /\ GiveUp(r, "cancelled")
    \/ /\ pc[r] = "wait"
       /\ pc' = [pc EXCEPT ![r] = "cancelled"]
       /\ \E i \in 1..Len(pool[ShardOf[r]].waiters) :
             /\ pool[ShardOf[r]].waiters[i] = r
             /\ pool' = [pool EXCEPT ![ShardOf[r]].waiters = RemoveAt(@, i)]
       /\ UNCHANGED <<tried, fresh, got, conns, closeVars, breaks>>

\* Mutant: _closed is not looked at when a connection is given back.
AnsweredKeeping(r, conn) ==
    /\ conns' = [conns EXCEPT ![Mine(r)] = conn]
    /\ pool' = [pool EXCEPT ![ShardOf[r]] = Returned(@, Mine(r))]

\* The request has its result, and conn is what is left of its connection.
Answered(r, conn) ==
    \/ /\ ~closed
       /\ conns' = [conns EXCEPT ![Mine(r)] = conn]
       /\ pool' = [pool EXCEPT ![ShardOf[r]] = Returned(@, Mine(r))]
    \/ /\ closed
       /\ conns' = [conns EXCEPT ![Mine(r)] = Shut(conn)]
       /\ pool' = [pool EXCEPT ![ShardOf[r]] = Freed(@)]

\* read_reply, once per command of the batch.
ReadReply(r) ==
    LET c == Mine(r)
        rest == Consumed(conns[c])
    IN
    /\ pc[r] = "read"
    /\ conns[c].replies # <<>>
    /\ got' = [got EXCEPT ![r] = Append(@, Head(conns[c].replies))]
    /\ \/ /\ Len(got'[r]) < Batch[r]
          /\ conns' = [conns EXCEPT ![c] = rest]
          /\ UNCHANGED <<pc, pool>>
       \/ /\ Len(got'[r]) = Batch[r]
          /\ pc' = [pc EXCEPT ![r] = "done"]
          /\ Answered(r, rest)
    /\ UNCHANGED <<tried, fresh, closeVars, breaks>>

-----------------------------------------------------------------------------
(***************************************************************************)
(* close(): an iterator over _pools.values(), and an await after every     *)
(* connection it closes.  An iterator that finds its dictionary grown      *)
(* raises RuntimeError.                                                    *)
(***************************************************************************)
\* close() goes on at position i of _pools, of which it saw n.
CloseFrom(i, n) ==
    LET full == {j \in 1..Len(order) : j >= i /\ pool[order[j]].idle # <<>>}
        here == i \in full
        j == CHOOSE m \in full : \A k \in full : m <= k
        s == order[j]
        c == Last(pool[s].idle)
    IN
    \/ /\ here \/ (Len(order) = n /\ full # {})
       /\ closer' = [state |-> "await", at |-> j, size |-> n]
       /\ pool' = [pool EXCEPT ![s].idle = Front(@)]
       /\ conns' = [conns EXCEPT ![c] = Shut(@)]
    \/ /\ ~here /\ (Len(order) # n \/ full = {})
       /\ closer' = [closer EXCEPT !.state = IF Len(order) = n THEN "returned" ELSE "raised"]
       /\ UNCHANGED <<pool, conns>>

Close ==
    /\ closer.state = "no"
    /\ closed' = TRUE
    /\ CloseFrom(0, Len(order))
    /\ UNCHANGED <<reqVars, order, breaks>>

CloseResumes ==
    /\ closer.state = "await"
    /\ CloseFrom(closer.at, closer.size)
    /\ UNCHANGED <<reqVars, order, closed, breaks>>

-----------------------------------------------------------------------------
\* The shard executes the next command of a connection and answers it.  The
\* reply to AUTH, number 0, is short.
Execute(c) ==
    LET next == Head(conns[c].sent) IN
    /\ conns[c].status = "up" /\ conns[c].sent # <<>>
    /\ \/ conns' = [conns EXCEPT ![c] = Executed(@)]
       \/ /\ next[1] \in Oversized /\ next[3] > 0
          /\ conns' = [conns EXCEPT ![c] = Spoilt(@)]
    /\ UNCHANGED <<reqVars, pool, closeVars, breaks>>

\* The shard drops the connection (a restart, its idle time-out, the network),
\* and some of the replies with it.
Break(c) ==
    /\ conns[c].open /\ conns[c].status = "up"
    /\ breaks < MaxBreaks
    /\ breaks' = breaks + 1
    /\ \E n \in 0..Len(conns[c].replies) :
          conns' = [conns EXCEPT ![c] = Cut(@, n)]
    /\ UNCHANGED <<reqVars, pool, closeVars>>

-----------------------------------------------------------------------------
Init ==
    /\ pc = [r \in Requests |-> "idle"]
    /\ tried = [r \in Requests |-> <<>>]
    /\ fresh = [r \in Requests |-> FALSE]
    /\ got = [r \in Requests |-> <<>>]
    /\ order = <<>>
    /\ pool = [s \in Shards |-> [slots |-> PoolSize, waiters |-> <<>>, idle |-> <<>>]]
    /\ conns = <<>>
    /\ closed = FALSE
    /\ closer = [state |-> "no", at |-> 0, size |-> 0]
    /\ breaks = 0

\* What a request does without anybody else's decision.
Progress(r) ==
    \/ Granted(r) \/ Connected(r) \/ ConnectFailed(r) \/ Authenticated(r)
    \/ ReadReply(r) \/ TimedOut(r) \/ Broken(r)

Next ==
    \/ \E r \in Requests : Call(r) \/ Progress(r) \/ Cancel(r)
    \/ Close \/ CloseResumes
    \/ \E c \in 1..Len(conns) : Execute(c) \/ Break(c)

Spec == Init /\ [][Next]_vars

\* connect_timeout and read_timeout fire, and close() is resumed: nothing
\* depends on a shard, which may hang for ever.
Fairness ==
    /\ \A r \in Requests : WF_vars(Progress(r))
    /\ WF_vars(CloseResumes)

FairSpec == Spec /\ Fairness
-----------------------------------------------------------------------------
PoolType ==
    [slots : 0..PoolSize, waiters : Seq(Requests), idle : Seq(1..Len(conns))]

\* Every variable has its type; no slot is given back twice.
TypeOK ==
    /\ pc \in [Requests -> Ended \cup Active \cup {"idle", "wait"}]
    /\ pool \in [Shards -> PoolType]
    /\ tried \in [Requests -> Seq(1..Len(conns))]
    /\ fresh \in [Requests -> BOOLEAN] /\ closed \in BOOLEAN

(***************************************************************************)
(* A reply answers the request it is given to: the result of a request is  *)
(* the replies to its own commands, all of them and in their order, of the *)
(* attempt that succeeded, whatever time-outs, cancellations and retries   *)
(* came before it on the same connections (_run, its finally clause).      *)
(***************************************************************************)
ReplyIsOwn ==
    \A r \in Requests : pc[r] = "done" => got[r] = Messages(r, Len(tried[r]))

(***************************************************************************)
(* A pool has pool_size connections at most, the idle ones and those in    *)
(* use together, whatever the order in which requests come and go.         *)
(***************************************************************************)
PoolBounded ==
    \A s \in Shards :
        Cardinality({c \in 1..Len(conns) : conns[c].open /\ conns[c].shard = s}) <= PoolSize

(***************************************************************************)
(* Commands are sent again only when the connection they were sent on is   *)
(* of no use any more: the shard has dropped it, or has sent a reply that  *)
(* cannot be read (_run, the exceptions it catches).  That an answer is    *)
(* late, on a connection that could still bring it, is never a reason.     *)
(***************************************************************************)
NoBlindRetry ==
    \A r \in Requests : \A i \in 1..Len(tried[r]) - 1 : conns[tried[r][i]].status # "up"

(***************************************************************************)
(* Once close() has returned and the requests that were under way are over *)
(* no connection is left open (close against _run, which gives connections *)
(* back and opens pools while close() waits).                              *)
(***************************************************************************)
Quiet == \A r \in Requests : pc[r] \in Ended \cup {"idle"}

ClosedForGood ==
    (closer.state = "returned" /\ Quiet) => \A c \in 1..Len(conns) : ~conns[c].open

(***************************************************************************)
(* A hung shard holds nobody for ever: every request ends, those waiting   *)
(* for a slot as well, although shards need not answer.                    *)
(***************************************************************************)
RequestEnds == \A r \in Requests : pc[r] # "idle" ~> pc[r] \in Ended
=============================================================================
