---------------------------- MODULE ServerTasks ----------------------------
(***************************************************************************)
(* The tasks of a server (server.py): client handlers from the accept to   *)
(* the finally clause of _handle_client, with authentication, limits and   *)
(* time-outs, and the shutdown, stop(), that cancels the background tasks  *)
(* and the handlers one group after the other while the rest still runs.   *)
(*                                                                         *)
(* What commands do to the store is in CacheNode.tla and what the log does *)
(* with records in AofLog.tla; here a write makes the log dirty, and a     *)
(* command is what it means to the session.  Failing file operations are   *)
(* in AofLog.tla too.  The peer of a connection is external: it may stop   *)
(* reading, so that output stays buffered.                                 *)
(***************************************************************************)
EXTENDS Naturals, FiniteSets

CONSTANTS
    Conns,          \* connections; one may be used again once it is closed
    MaxClients,     \* --maxclients, 0 for no limit
    RequirePass,    \* whether --requirepass is given
    IsReplica,      \* whether --replica-of is given; a replica has no log
    Policies,       \* --aof-fsync, one of these; "off" without --aof
    MaxAccepts      \* bound: connections accepted

ASSUME ServerAssumption ==
    /\ MaxClients \in Nat /\ MaxAccepts \in Nat
    /\ {RequirePass, IsReplica} \subseteq BOOLEAN
    /\ Policies \subseteq {"always", "everysec", "no", "off"}

VARIABLES
    pc,         \* where the handler of each connection stands
    after,      \* where it goes when its reply has been sent
    authed,     \* its local variable authed
    lastAuth,   \* history: the latest AUTH of the session had the password
    buffered,   \* output the peer has not taken is in the transport
    count,      \* _client_count
    tasks,      \* _client_tasks
    links,      \* _replicas
    cancelled,  \* handlers with a CancelledError on its way to them
    awaited,    \* handlers that stop() waits for in gather()
    lost,       \* history: a handler's cancellation was lost
    stop,       \* how far stop() has come
    policy,     \* the fsync policy of this server
    rewrite,    \* _rewrite_task is running
    aofTask,    \* _aof_loop: sleeping, in sync_async, or ended
    thread,     \* the worker thread's step in AOFLog.sync, or "off"
    orphaned,   \* history: close() came between the thread's clear and fsync
    dirty,      \* _dirty
    unsynced,   \* some record in the file has not been fsynced
    fileOpen,   \* the log's file object is open
    accepts

sessionVars == <<after, authed, lastAuth, accepts>>
groupVars   == <<count, tasks, links, cancelled, awaited, lost>>
logVars     == <<policy, rewrite, aofTask, thread, orphaned, dirty, unsynced,
                 fileOpen>>
vars == <<pc, sessionVars, buffered, groupVars, stop, logVars>>

Serving == {"read", "send", "commit", "serve"}

HasAof == ~IsReplica /\ policy # "off"

-----------------------------------------------------------------------------
(***************************************************************************)
(* The connection: the limit, and the end.                                 *)
(***************************************************************************)
Full == MaxClients > 0 /\ count >= MaxClients

\* Mutant: connections are still accepted while the handlers are being stopped.
AcceptWhileStopping(c) ==
    /\ stop # "done" /\ pc[c] = "none"
    /\ ~Full
    /\ accepts < MaxAccepts
    /\ accepts' = accepts + 1
    /\ pc' = [pc EXCEPT ![c] = "read"]
    /\ authed' = [authed EXCEPT ![c] = ~RequirePass]
    /\ lastAuth' = [lastAuth EXCEPT ![c] = FALSE]
    /\ count' = count + 1
    /\ tasks' = tasks \cup {c}
    /\ UNCHANGED <<after, buffered, links, cancelled, awaited, lost, stop, logVars>>

\* A connection accepted just before the socket is closed starts its handler
\* while stop() waits for the first task it has cancelled.
Accept(c) ==
    /\ stop \in {"no", "tasks"} /\ pc[c] = "none"
    /\ ~Full
    /\ accepts < MaxAccepts
    /\ accepts' = accepts + 1
    /\ pc' = [pc EXCEPT ![c] = "read"]
    /\ authed' = [authed EXCEPT ![c] = ~RequirePass]
    /\ lastAuth' = [lastAuth EXCEPT ![c] = FALSE]
    /\ count' = count + 1
    /\ tasks' = tasks \cup {c}
    /\ UNCHANGED <<after, buffered, links, cancelled, awaited, lost, stop, logVars>>

\* Over the limit: an error is written and the connection closed, uncounted.
Reject(c) ==
    /\ stop \in {"no", "tasks"} /\ pc[c] = "none"
    /\ Full
    /\ accepts < MaxAccepts
    /\ accepts' = accepts + 1
    /\ pc' = [pc EXCEPT ![c] = "closing"]
    /\ \E left \in BOOLEAN : buffered' = [buffered EXCEPT ![c] = left]
    /\ UNCHANGED <<after, authed, lastAuth, groupVars, stop, logVars>>

\* Mutant: the early return of SYNC skips the counter.
FinishCounting(c) ==
    /\ pc' = [pc EXCEPT ![c] = "closing"]
    /\ count' = IF pc[c] = "serve" THEN count ELSE count - 1
    /\ tasks' = tasks \ {c}
    /\ links' = links \ {c}
    /\ cancelled' = cancelled \ {c}
    /\ UNCHANGED <<awaited, lost>>

\* The finally clauses of _handle_client and _serve_replica, up to the await.
Finish(c) ==
    /\ pc' = [pc EXCEPT ![c] = "closing"]
    /\ count' = count - 1
    /\ tasks' = tasks \ {c}
    /\ links' = links \ {c}
    /\ cancelled' = cancelled \ {c}
    /\ UNCHANGED <<awaited, lost>>

\* wait_closed() returns, when the output has been taken, and the task ends.
Closed(c) ==
    /\ pc[c] = "closing" /\ ~buffered[c]
    /\ pc' = [pc EXCEPT ![c] = "none"]
    /\ awaited' = awaited \ {c}
    /\ UNCHANGED <<sessionVars, buffered, count, tasks, links, cancelled, lost, stop, logVars>>

\* The peer takes the output, or its end of the connection is gone.
PeerReads(c) ==
    /\ buffered[c]
    /\ buffered' = [buffered EXCEPT ![c] = FALSE]
    /\ UNCHANGED <<pc, sessionVars, groupVars, stop, logVars>>

-----------------------------------------------------------------------------
(***************************************************************************)
(* _send, after which the handler goes on reading or ends.  What the peer  *)
(* does not take stays buffered; drain() waits for it or not, depending on *)
(* how much it is, and over client_output_limit the session ends.          *)
(***************************************************************************)
Continue(c, then) ==
    \/ then = "read" /\ pc' = [pc EXCEPT ![c] = "read"] /\ UNCHANGED groupVars
    \/ then = "end" /\ Finish(c)

Send(c, then) ==
    \/ Continue(c, then) /\ UNCHANGED <<after, buffered>>
    \/ /\ buffered' = [buffered EXCEPT ![c] = TRUE]
       /\ \/ Continue(c, then) /\ UNCHANGED after
          \/ Finish(c) /\ UNCHANGED after
          \/ /\ pc' = [pc EXCEPT ![c] = "send"]
             /\ after' = [after EXCEPT ![c] = then]
             /\ UNCHANGED groupVars

Drained(c) ==
    /\ pc[c] = "send" /\ c \notin cancelled
    /\ ~buffered[c]
    /\ Continue(c, after[c])
    /\ UNCHANGED <<sessionVars, buffered, stop, logVars>>

\* Mutant: drain() is awaited without a time-out.
WriteNeverTimesOut(c) == FALSE /\ UNCHANGED vars

\* CLIENT_WRITE_TIMEOUT
WriteTimedOut(c) ==
    /\ pc[c] = "send" /\ c \notin cancelled
    /\ Finish(c)
    /\ UNCHANGED <<sessionVars, buffered, stop, logVars>>

-----------------------------------------------------------------------------
(***************************************************************************)
(* The command loop.                                                       *)
(***************************************************************************)
Reads(c) == pc[c] = "read" /\ c \notin cancelled

\* The end of the input, a reset, or client_timeout.
Leave(c) ==
    /\ Reads(c)
    /\ Finish(c)
    /\ UNCHANGED <<sessionVars, buffered, stop, logVars>>

\* QUIT and a protocol error: a last reply.
Quit(c) ==
    /\ Reads(c)
    /\ Send(c, "end")
    /\ UNCHANGED <<authed, lastAuth, accepts, stop, logVars>>

\* Mutant: a wrong password leaves an earlier authentication in place.
AuthSticky(c, right) ==
    /\ Reads(c)
    /\ lastAuth' = [lastAuth EXCEPT ![c] = right]
    /\ authed' = [authed EXCEPT ![c] = IF RequirePass THEN authed[c] \/ right ELSE @]
    /\ Send(c, "read")
    /\ UNCHANGED <<accepts, stop, logVars>>

\* AUTH, with the right password or a wrong one.
Auth(c, right) ==
    /\ Reads(c)
    /\ lastAuth' = [lastAuth EXCEPT ![c] = right]
    /\ authed' = [authed EXCEPT ![c] = IF RequirePass THEN right ELSE @]
    /\ Send(c, "read")
    /\ UNCHANGED <<accepts, stop, logVars>>

\* NOAUTH, for every other command.
NoAuth(c) ==
    /\ Reads(c) /\ ~authed[c]
    /\ Send(c, "read")
    /\ UNCHANGED <<authed, lastAuth, accepts, stop, logVars>>

\* SYNC on a primary: the session becomes a replica's link.
Sync(c) ==
    /\ Reads(c) /\ authed[c] /\ ~IsReplica
    /\ pc' = [pc EXCEPT ![c] = "serve"]
    /\ links' = links \cup {c}
    /\ UNCHANGED <<sessionVars, buffered, count, tasks, cancelled, awaited, lost, stop, logVars>>

\* The link is closed under its handler: over its limit, or by a failing pump.
LinkClosed(c) ==
    /\ c \in links
    /\ links' = links \ {c}
    /\ \E left \in BOOLEAN : buffered' = [buffered EXCEPT ![c] = @ \/ left]
    /\ UNCHANGED <<pc, sessionVars, count, tasks, cancelled, awaited, lost, stop, logVars>>

\* The handler of a link finds it closed, or silent for LINK_TIMEOUT, or reset.
ServeEnds(c) ==
    /\ pc[c] = "serve" /\ c \notin cancelled
    /\ Finish(c)
    /\ \E left \in BOOLEAN : buffered' = [buffered EXCEPT ![c] = @ \/ left]
    /\ UNCHANGED <<sessionVars, stop, logVars>>

\* BGREWRITEAOF
Bgrewriteaof(c) ==
    /\ Reads(c) /\ authed[c]
    /\ rewrite' = HasAof
    /\ Send(c, "read")
    /\ UNCHANGED <<authed, lastAuth, accepts, stop, policy, aofTask, thread, orphaned,
                   dirty, unsynced, fileOpen>>

\* INFO, a read, or a command that is refused (READONLY, chained SYNC, OOM, an
\* error of dispatch).
Query(c) ==
    /\ Reads(c) /\ authed[c]
    /\ Send(c, "read")
    /\ UNCHANGED <<authed, lastAuth, accepts, stop, logVars>>

\* A write on a primary, up to commit(), which waits only with fsync always.
Write(c) ==
    /\ Reads(c) /\ authed[c] /\ ~IsReplica
    /\ \/ HasAof /\ dirty' = TRUE /\ unsynced' = TRUE
       \/ ~HasAof /\ UNCHANGED <<dirty, unsynced>>
    /\ \/ /\ policy = "always"
          /\ pc' = [pc EXCEPT ![c] = "commit"]
          /\ UNCHANGED <<after, buffered, groupVars>>
       \/ policy # "always" /\ Send(c, "read")
    /\ UNCHANGED <<authed, lastAuth, accepts, stop, policy, rewrite, aofTask, thread, orphaned, fileOpen>>

\* The fsync is over; another write may have come since it began.
Committed(c) ==
    /\ pc[c] = "commit" /\ c \notin cancelled
    /\ unsynced' \in {FALSE, unsynced}
    /\ Send(c, "read")
    /\ UNCHANGED <<authed, lastAuth, accepts, stop, policy, rewrite, aofTask, thread, orphaned, dirty,
                   fileOpen>>

\* Mutant: the finally clauses run before and after the cancellation is seen.
CancelDeliveredTwice(c) ==
    /\ c \in cancelled
    /\ pc' = [pc EXCEPT ![c] = "closing"]
    /\ count' = count - 2
    /\ tasks' = tasks \ {c} /\ links' = links \ {c} /\ cancelled' = cancelled \ {c}
    /\ UNCHANGED <<awaited, lost, buffered, sessionVars, stop, logVars>>

\* CancelledError reaches a handler at its await.
CancelDelivered(c) ==
    /\ c \in cancelled
    /\ Finish(c)
    /\ \E left \in BOOLEAN :
          buffered' = [buffered EXCEPT ![c] = @ \/ (left /\ pc[c] = "serve")]
    /\ UNCHANGED <<sessionVars, stop, logVars>>

\* In Python 3.11 wait_for() returns its result instead of raising when what it
\* waits for is done as the cancellation arrives: the handler goes on.
CancelLost(c) ==
    /\ c \in cancelled /\ pc[c] \in {"read", "send", "serve"}
    /\ pc[c] = "send" => ~buffered[c]
    /\ cancelled' = cancelled \ {c}
    /\ lost' = TRUE
    /\ UNCHANGED <<pc, sessionVars, buffered, count, tasks, links, awaited, stop, logVars>>

-----------------------------------------------------------------------------
(***************************************************************************)
(* The background tasks of the log.                                        *)
(***************************************************************************)
\* _aof_loop wakes up: with everysec, sync() starts in a thread, under the lock.
AofWakes ==
    /\ aofTask = "sleep" /\ policy = "everysec"
    /\ aofTask' = "sync"
    /\ thread' = "test"
    /\ UNCHANGED <<pc, sessionVars, buffered, groupVars, stop, policy, rewrite, orphaned, dirty,
                   unsynced, fileOpen>>

ThreadTest ==
    /\ thread = "test"
    /\ thread' = IF dirty /\ fileOpen THEN "clear" ELSE "off"
    /\ UNCHANGED <<pc, sessionVars, buffered, groupVars, stop, policy, rewrite, aofTask, orphaned,
                   dirty, unsynced, fileOpen>>

ThreadClear ==
    /\ thread = "clear"
    /\ thread' = "call"
    /\ dirty' = FALSE
    /\ UNCHANGED <<pc, sessionVars, buffered, groupVars, stop, policy, rewrite, aofTask, orphaned,
                   unsynced, fileOpen>>

\* fsync; on a file object that has been closed, fileno() raises.
ThreadCall ==
    /\ thread = "call"
    /\ thread' = "off"
    /\ unsynced' = (unsynced /\ ~fileOpen)
    /\ UNCHANGED <<pc, sessionVars, buffered, groupVars, stop, policy, rewrite, aofTask, orphaned,
                   dirty, fileOpen>>

\* The other half of its round: the log may have grown enough to be rewritten.
AofSleeps ==
    /\ aofTask = (IF policy = "everysec" THEN "sync" ELSE "sleep") /\ thread = "off"
    /\ aofTask' = "sleep"
    /\ rewrite' \in {rewrite, TRUE}
    /\ UNCHANGED <<pc, sessionVars, buffered, groupVars, stop, policy, thread, orphaned, dirty,
                   unsynced, fileOpen>>

\* The end of rewrite(), under the lock: fsync, rename and reopen, or failure.
RewriteEnds ==
    /\ rewrite /\ aofTask # "sync"
    /\ rewrite' = FALSE
    /\ \/ dirty' = FALSE /\ unsynced' = FALSE /\ fileOpen' = TRUE
       \/ UNCHANGED <<dirty, unsynced, fileOpen>>
    /\ UNCHANGED <<pc, sessionVars, buffered, groupVars, stop, policy, aofTask, thread, orphaned>>

-----------------------------------------------------------------------------
(***************************************************************************)
(* stop(), an action for each stretch between two awaits.                  *)
(***************************************************************************)
\* The listening socket is closed; sweeper, replica client and heartbeat go.
StopBegins ==
    /\ stop = "no"
    /\ stop' = "tasks"
    /\ UNCHANGED <<pc, sessionVars, buffered, groupVars, logVars>>

CancelAofTask ==
    /\ stop' = "aof"
    /\ aofTask' = "ended"

\* _cancel_task(_rewrite_task): returns at once when there is none.
StopsRewrite ==
    /\ stop = "tasks"
    /\ \/ /\ rewrite
          /\ rewrite' = FALSE
          /\ stop' = "rewrite"
          /\ UNCHANGED aofTask
       \/ ~rewrite /\ CancelAofTask /\ UNCHANGED rewrite
    /\ UNCHANGED <<pc, sessionVars, buffered, groupVars, policy, thread, orphaned, dirty,
                   unsynced, fileOpen>>

StopsAofTask ==
    /\ stop = "rewrite"
    /\ CancelAofTask
    /\ UNCHANGED <<pc, sessionVars, buffered, groupVars, policy, rewrite, thread, orphaned, dirty,
                   unsynced, fileOpen>>

\* Mutant: the handlers are waited for without being cancelled.
StopsNoClients ==
    /\ stop = "aof"
    /\ stop' = "clients"
    /\ awaited' = tasks
    /\ UNCHANGED <<pc, sessionVars, buffered, count, tasks, links, cancelled, lost, logVars>>

\* Every handler is cancelled and gather() waits for all of them.
StopsClients ==
    /\ stop = "aof"
    /\ stop' = "clients"
    /\ cancelled' = tasks
    /\ awaited' = tasks
    /\ UNCHANGED <<pc, sessionVars, buffered, count, tasks, links, lost, logVars>>

\* The links that are left are closed.
StopsLinks ==
    /\ stop = "clients" /\ awaited = {}
    /\ stop' = "server"
    /\ links' = {}
    /\ UNCHANGED <<pc, sessionVars, buffered, count, tasks, cancelled, awaited, lost, logVars>>

\* Mutant: close() leaves the fsync to the operating system.
StopEndsWithoutSync ==
    /\ stop = "server"
    /\ stop' = "done"
    /\ orphaned' = (thread = "call" /\ ~dirty)
    /\ fileOpen' = FALSE
    /\ UNCHANGED <<pc, sessionVars, buffered, groupVars, policy, rewrite, aofTask, thread, dirty,
                   unsynced>>

\* wait_closed(), which does not wait in Python 3.11; then AOFLog.close(): sync()
\* on the loop, and close.
StopEnds ==
    /\ stop = "server"
    /\ stop' = "done"
    /\ dirty' = FALSE
    /\ unsynced' = (unsynced /\ ~dirty)
    /\ orphaned' = (thread = "call" /\ ~dirty)
    /\ fileOpen' = FALSE
    /\ UNCHANGED <<pc, sessionVars, buffered, groupVars, policy, rewrite, aofTask, thread>>

-----------------------------------------------------------------------------
Init ==
    /\ pc = [c \in Conns |-> "none"] /\ after = [c \in Conns |-> "read"]
    /\ authed = [c \in Conns |-> FALSE] /\ lastAuth = [c \in Conns |-> FALSE]
    /\ buffered = [c \in Conns |-> FALSE]
    /\ count = 0 /\ tasks = {} /\ links = {} /\ cancelled = {} /\ awaited = {}
    /\ lost = FALSE /\ stop = "no" /\ policy \in Policies
    /\ rewrite = FALSE /\ aofTask = (IF HasAof THEN "sleep" ELSE "ended")
    /\ thread = "off" /\ orphaned = FALSE
    /\ dirty = FALSE /\ unsynced = FALSE /\ fileOpen = HasAof
    /\ accepts = 0

Handler(c) ==
    \/ Leave(c) \/ Quit(c) \/ NoAuth(c) \/ \E right \in BOOLEAN : Auth(c, right)
    \/ Sync(c) \/ LinkClosed(c) \/ ServeEnds(c) \/ Bgrewriteaof(c) \/ Query(c)
    \/ Write(c) \/ Committed(c) \/ Drained(c) \/ WriteTimedOut(c)

Log == AofWakes \/ ThreadTest \/ ThreadClear \/ ThreadCall \/ AofSleeps \/ RewriteEnds

Stop == StopBegins \/ StopsRewrite \/ StopsAofTask \/ StopsClients \/ StopsLinks \/ StopEnds

Next ==
    \/ \E c \in Conns :
          \/ Accept(c) \/ Reject(c) \/ Handler(c) \/ CancelDelivered(c) \/ CancelLost(c)
          \/ Closed(c) \/ PeerReads(c)
    \/ Log
    \/ Stop

Spec == Init /\ [][Next]_vars

\* The loop runs what is ready, threads return and CLIENT_WRITE_TIMEOUT fires.
\* Peers need not send, read or leave, and nobody has to ask for a shutdown.
Fairness ==
    /\ \A c \in Conns : /\ WF_vars(Drained(c) \/ WriteTimedOut(c))
                        /\ WF_vars(Committed(c)) /\ WF_vars(CancelDelivered(c))
                        /\ WF_vars(Closed(c))
    /\ WF_vars(ThreadTest \/ ThreadClear \/ ThreadCall \/ AofSleeps)
    /\ WF_vars(StopsRewrite \/ StopsAofTask \/ StopsClients \/ StopsLinks \/ StopEnds)

FairSpec == Spec /\ Fairness

\* In addition, a peer whose connection the server closes takes the rest of the
\* output or goes away.
PeerFairSpec ==
    FairSpec /\ \A c \in Conns : WF_vars(pc[c] = "closing" /\ PeerReads(c))
-----------------------------------------------------------------------------
GroupTypes ==
    /\ pc \in [Conns -> Serving \cup {"none", "closing"}]
    /\ count \in Nat
    /\ tasks \subseteq Conns /\ links \subseteq Conns
    /\ cancelled \subseteq Conns /\ awaited \subseteq Conns
    /\ lost \in BOOLEAN
    /\ stop \in {"no", "tasks", "rewrite", "aof", "clients", "server", "done"}

SessionTypes ==
    /\ after \in [Conns -> {"read", "end"}]
    /\ authed \in [Conns -> BOOLEAN] /\ lastAuth \in [Conns -> BOOLEAN]
    /\ buffered \in [Conns -> BOOLEAN]

LogTypes ==
    /\ aofTask \in {"sleep", "sync", "ended"} /\ thread \in {"off", "test", "clear", "call"}
    /\ policy \in Policies /\ rewrite \in BOOLEAN /\ orphaned \in BOOLEAN
    /\ dirty \in BOOLEAN /\ unsynced \in BOOLEAN /\ fileOpen \in BOOLEAN

\* Every variable has its type.
TypeOK == GroupTypes /\ SessionTypes /\ LogTypes

(***************************************************************************)
(* The client counter, the task set and the set of links agree with the    *)
(* handlers that run, through rejections, errors, time-outs, replicas and  *)
(* cancellation, and the counter never passes maxclients: no path through  *)
(* _handle_client counts a client twice or uncounts it twice.              *)
(***************************************************************************)
CountExact ==
    /\ tasks = {c \in Conns : pc[c] \in Serving}
    /\ links \subseteq {c \in Conns : pc[c] = "serve"}
    /\ count = Cardinality(tasks)
    /\ MaxClients > 0 => count <= MaxClients

(***************************************************************************)
(* With a password, nothing is done for a session whose latest AUTH did    *)
(* not have it, on a connection that may have been used before: no read,   *)
(* write, rewrite or replica link (_check_auth, authed).                   *)
(***************************************************************************)
AuthRequired ==
    [][RequirePass =>
         \A c \in Conns : Query(c) \/ Write(c) \/ Bgrewriteaof(c) \/ Sync(c) => lastAuth[c]]_vars

(***************************************************************************)
(* stop() leaves no client: when it has returned, every handler has left   *)
(* the counter and the task set and no replica is linked, whatever arrived *)
(* while it was waiting.  A handler may be left in wait_closed() only.     *)
(***************************************************************************)
StopDisconnects == stop = "done" => tasks = {} /\ links = {} /\ count = 0

(***************************************************************************)
(* A clean stop loses nothing: when stop() has returned every record is on *)
(* disk, unless close() came when the sync thread had cleared _dirty and   *)
(* not yet synced (AOFLog.close against writes that come until the last    *)
(* handler is gone, and against rewrites).                                 *)
(***************************************************************************)
StopSyncs == (stop = "done" /\ ~orphaned) => ~unsynced

(***************************************************************************)
(* A client that does not read its replies holds its place for             *)
(* CLIENT_WRITE_TIMEOUT at most (_send).                                   *)
(***************************************************************************)
SlowClientReleased == \A c \in Conns : pc[c] = "send" ~> pc[c] # "send"

(***************************************************************************)
(* stop() returns: what it waits for ends, if no cancellation was lost.    *)
(***************************************************************************)
StopReturns == stop = "tasks" ~> (stop = "done" \/ lost)
=============================================================================
