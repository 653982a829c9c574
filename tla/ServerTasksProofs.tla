------------------------- MODULE ServerTasksProofs -------------------------
(***************************************************************************)
(* TLAPS proofs of the safety properties of ServerTasks, for any set of    *)
(* connections and any limit of clients, with any fsync policy or without  *)
(* a log.                                                                  *)
(***************************************************************************)
EXTENDS ServerTasks, FiniteSetTheorems, TLAPS

-----------------------------------------------------------------------------
(***************************************************************************)
(* The inductive invariant.                                                *)
(***************************************************************************)
\* Only handlers that run are being cancelled, and there are finitely many.
GroupInv == CountExact /\ IsFiniteSet(tasks) /\ cancelled \subseteq tasks

\* Once stop() waits for handlers there are no others, and in the end none.
StopInv ==
    /\ stop = "clients" => tasks \subseteq awaited
    /\ stop \in {"server", "done"} => tasks = {}

\* A permission comes from the latest AUTH of the session.
AuthInv == RequirePass => \A c \in Conns : authed[c] => lastAuth[c]

\* Until close(), a record that is not on disk has left _dirty set, or the
\* sync thread is about to fsync it; the thread runs for _aof_loop alone, and
\* may outlive it.
SyncInv ==
    /\ ~HasAof => ~unsynced
    /\ ~fileOpen => stop = "done" \/ ~HasAof
    /\ thread # "off" => aofTask \in {"sync", "ended"}
    /\ stop # "done" /\ unsynced => dirty \/ thread = "call"
    /\ stop = "done" /\ ~orphaned => ~unsynced

IInv == TypeOK /\ GroupInv /\ StopInv /\ AuthInv /\ SyncInv

-----------------------------------------------------------------------------
(***************************************************************************)
(* What the handlers do to the counter and to the sets, whatever else they *)
(* do.                                                                     *)
(***************************************************************************)
\* What the steps of a handler preserve.
Group == GroupTypes /\ GroupInv /\ StopInv

\* The finally clauses take a running handler out, once.
LEMMA FinishKeeps ==
    ASSUME Group, NEW c \in Conns, pc[c] \in Serving, Finish(c), UNCHANGED stop
    PROVE  Group'
<1> USE DEF Group, GroupInv, CountExact, Finish, Serving
<1>1. c \in tasks /\ tasks' = tasks \ {c}
  OBVIOUS
<1>2. IsFiniteSet(tasks') /\ Cardinality(tasks') = Cardinality(tasks) - 1
  BY <1>1, FS_RemoveElement
<1>3. Cardinality(tasks) \in Nat /\ Cardinality(tasks') \in Nat
  BY <1>2, FS_CardinalityType
<1>4. count' = Cardinality(tasks') /\ count' <= count
  BY <1>2, <1>3
<1>5. GroupTypes'
  BY <1>3, <1>4 DEF GroupTypes
<1>6. tasks' = {d \in Conns : pc'[d] \in Serving}
  BY <1>1 DEF GroupTypes
<1>7. links' \subseteq {d \in Conns : pc'[d] = "serve"}
  BY DEF GroupTypes
<1>8. MaxClients > 0 => count' <= MaxClients
  BY <1>3, <1>4, ServerAssumption
<1>9. StopInv'
  BY DEF StopInv
<1> QED
  BY <1>2, <1>4, <1>5, <1>6, <1>7, <1>8, <1>9

\* A handler that goes on, and is no link, changes nothing of this.
LEMMA MoveKeeps ==
    ASSUME Group, NEW c \in Conns, pc[c] \in Serving \ {"serve"}, NEW p \in Serving,
           pc' = [pc EXCEPT ![c] = p], UNCHANGED groupVars, UNCHANGED stop
    PROVE  Group'
<1> USE DEF Group, GroupTypes, GroupInv, CountExact, StopInv, Serving, groupVars
<1>1. tasks' = {d \in Conns : pc'[d] \in Serving}
  OBVIOUS
<1>2. links' \subseteq {d \in Conns : pc'[d] = "serve"}
  OBVIOUS
<1>3. GroupTypes' /\ StopInv'
  OBVIOUS
<1> QED
  BY <1>1, <1>2, <1>3

\* _send, with all its outcomes.
LEMMA SendKeeps ==
    ASSUME Group, SessionTypes, NEW c \in Conns, pc[c] \in {"read", "commit"},
           NEW then \in {"read", "end"}, Send(c, then), UNCHANGED stop
    PROVE  /\ Group'
           /\ after' \in [Conns -> {"read", "end"}]
           /\ buffered' \in [Conns -> BOOLEAN]
<1>1. \/ Finish(c)
      \/ pc' = [pc EXCEPT ![c] = "read"] /\ UNCHANGED groupVars
      \/ pc' = [pc EXCEPT ![c] = "send"] /\ UNCHANGED groupVars
  BY DEF Send, Continue
<1>2. Group'
  BY <1>1, FinishKeeps, MoveKeeps DEF Serving
<1>3. after' \in [Conns -> {"read", "end"}] /\ buffered' \in [Conns -> BOOLEAN]
  BY DEF Send, SessionTypes
<1> QED
  BY <1>2, <1>3

\* Steps that leave the log and stop() alone.
LEMMA LogUnchanged ==
    ASSUME LogTypes, SyncInv, UNCHANGED <<stop, logVars>>
    PROVE  LogTypes' /\ SyncInv'
BY DEF LogTypes, SyncInv, HasAof, logVars

-----------------------------------------------------------------------------
(***************************************************************************)
(* The steps of a handler.                                                 *)
(***************************************************************************)
\* A new handler is counted, if there is room for it.
LEMMA AcceptStep ==
    ASSUME IInv, NEW c \in Conns, Accept(c)
    PROVE  IInv'
<1> USE DEF IInv, TypeOK, Accept
<1>1. c \notin tasks /\ tasks' = tasks \cup {c}
  BY DEF GroupInv, CountExact, Serving
<1>2. /\ IsFiniteSet(tasks') /\ Cardinality(tasks') = Cardinality(tasks) + 1
      /\ Cardinality(tasks) \in Nat
  BY <1>1, FS_AddElement, FS_CardinalityType DEF GroupInv
<1>3. count' = Cardinality(tasks') /\ (MaxClients > 0 => count' <= MaxClients)
  BY <1>2, ServerAssumption DEF GroupInv, CountExact, Full
<1>4. GroupTypes'
  BY DEF GroupTypes, Serving
<1>5. tasks' = {d \in Conns : pc'[d] \in Serving}
  BY <1>1 DEF GroupInv, CountExact, GroupTypes, Serving
<1>6. links' \subseteq {d \in Conns : pc'[d] = "serve"} /\ cancelled' \subseteq tasks'
  BY DEF GroupInv, CountExact, GroupTypes
<1>7. GroupInv'
  BY <1>2, <1>3, <1>5, <1>6 DEF GroupInv, CountExact
<1>8. StopInv'
  BY DEF StopInv
<1>9. SessionTypes' /\ AuthInv'
  BY ServerAssumption DEF SessionTypes, AuthInv
<1> QED
  BY <1>4, <1>7, <1>8, <1>9, LogUnchanged

\* A connection over the limit is closed without being counted, and so is one
\* whose handler is over.
LEMMA CloseStep ==
    ASSUME IInv, NEW c \in Conns, Reject(c) \/ Closed(c) \/ PeerReads(c)
    PROVE  IInv'
<1> USE DEF IInv, TypeOK, Reject, Closed, PeerReads, groupVars, sessionVars
<1>1. GroupTypes' /\ StopInv'
  BY DEF GroupTypes, StopInv, GroupInv, CountExact, Serving
<1>2. GroupInv'
  BY DEF GroupTypes, GroupInv, CountExact, Serving
<1>3. SessionTypes' /\ AuthInv'
  BY DEF SessionTypes, AuthInv
<1> QED
  BY <1>1, <1>2, <1>3, LogUnchanged

\* The handler ends, by itself or because it was cancelled.
LEMMA EndStep ==
    ASSUME IInv, NEW c \in Conns,
           \/ Leave(c) \/ WriteTimedOut(c) \/ ServeEnds(c) \/ CancelDelivered(c)
    PROVE  IInv'
<1> USE DEF IInv, TypeOK
<1>1. pc[c] \in Serving /\ Finish(c)
  BY DEF Leave, WriteTimedOut, ServeEnds, CancelDelivered, Reads, Serving, GroupInv, CountExact
<1>2. UNCHANGED <<sessionVars, stop, logVars>> /\ buffered' \in [Conns -> BOOLEAN]
  BY DEF Leave, WriteTimedOut, ServeEnds, CancelDelivered, SessionTypes
<1>3. Group'
  BY <1>1, <1>2, FinishKeeps DEF Group
<1>4. SessionTypes' /\ AuthInv'
  BY <1>2 DEF SessionTypes, AuthInv, sessionVars
<1> QED
  BY <1>2, <1>3, <1>4, LogUnchanged DEF Group

\* The output has been taken: the handler goes on, or ends after its last reply.
LEMMA DrainedStep ==
    ASSUME IInv, NEW c \in Conns, Drained(c)
    PROVE  IInv'
<1> USE DEF IInv, TypeOK, Drained
<1>1. Finish(c) \/ (pc' = [pc EXCEPT ![c] = "read"] /\ UNCHANGED groupVars)
  BY DEF Continue
<1>2. Group'
  BY <1>1, FinishKeeps, MoveKeeps DEF Group, Serving
<1>3. SessionTypes' /\ AuthInv'
  BY DEF SessionTypes, AuthInv, sessionVars
<1> QED
  BY <1>2, <1>3, LogUnchanged DEF Group

\* A reply, and nothing for the log.
LEMMA ReplyStep ==
    ASSUME IInv, NEW c \in Conns, Quit(c) \/ NoAuth(c) \/ Query(c)
    PROVE  IInv'
<1> USE DEF IInv, TypeOK
<1>1. /\ pc[c] = "read" /\ \E then \in {"read", "end"} : Send(c, then)
      /\ UNCHANGED <<authed, lastAuth, stop, logVars>>
  BY DEF Quit, NoAuth, Query, Reads
<1>2. Group' /\ SessionTypes'
  BY <1>1, SendKeeps DEF Group, SessionTypes
<1>3. AuthInv'
  BY <1>1 DEF AuthInv
<1> QED
  BY <1>1, <1>2, <1>3, LogUnchanged DEF Group

\* AUTH gives the permission and takes it away.
LEMMA AuthStep ==
    ASSUME IInv, NEW c \in Conns, NEW right \in BOOLEAN, Auth(c, right)
    PROVE  IInv'
<1> USE DEF IInv, TypeOK
<1>1. pc[c] = "read" /\ Send(c, "read") /\ UNCHANGED <<stop, logVars>>
  BY DEF Auth, Reads
<1>2. /\ Group' /\ after' \in [Conns -> {"read", "end"}]
      /\ buffered' \in [Conns -> BOOLEAN]
  BY <1>1, SendKeeps DEF Group
<1>3. authed' \in [Conns -> BOOLEAN] /\ lastAuth' \in [Conns -> BOOLEAN]
  BY DEF Auth, SessionTypes
<1>4. AuthInv'
  BY DEF Auth, SessionTypes, AuthInv
<1> QED
  BY <1>1, <1>2, <1>3, <1>4, LogUnchanged DEF Group, SessionTypes

\* A session becomes a link, and a link is closed under its handler.
LEMMA LinkStep ==
    ASSUME IInv, NEW c \in Conns, Sync(c) \/ LinkClosed(c) \/ CancelLost(c)
    PROVE  IInv'
<1> USE DEF IInv, TypeOK, Sync, LinkClosed, CancelLost, Reads, sessionVars
<1>1. GroupTypes' /\ StopInv'
  BY DEF GroupTypes, StopInv, Serving
<1>2. tasks' = {d \in Conns : pc'[d] \in Serving}
  BY DEF GroupTypes, GroupInv, CountExact, Serving
<1>3. links' \subseteq {d \in Conns : pc'[d] = "serve"}
  BY DEF GroupTypes, GroupInv, CountExact
<1>4. GroupInv'
  BY <1>2, <1>3 DEF GroupInv, CountExact
<1>5. SessionTypes' /\ AuthInv'
  BY DEF SessionTypes, AuthInv
<1> QED
  BY <1>1, <1>4, <1>5, LogUnchanged

\* BGREWRITEAOF
LEMMA BgrewriteaofStep ==
    ASSUME IInv, NEW c \in Conns, Bgrewriteaof(c)
    PROVE  IInv'
<1> USE DEF IInv, TypeOK
<1>1. pc[c] = "read" /\ Send(c, "read") /\ UNCHANGED <<authed, lastAuth, stop>>
  BY DEF Bgrewriteaof, Reads
<1>2. Group' /\ SessionTypes'
  BY <1>1, SendKeeps DEF Group, SessionTypes
<1>3. AuthInv'
  BY <1>1 DEF AuthInv
<1>4. LogTypes' /\ SyncInv'
  BY ServerAssumption DEF Bgrewriteaof, HasAof, LogTypes, SyncInv
<1> QED
  BY <1>2, <1>3, <1>4 DEF Group

\* A write leaves _dirty set, and is not possible any more when stop() is done.
LEMMA WriteStep ==
    ASSUME IInv, NEW c \in Conns, Write(c)
    PROVE  IInv'
<1> USE DEF IInv, TypeOK
<1>1. pc[c] = "read" /\ UNCHANGED <<authed, lastAuth, stop>>
  BY DEF Write, Reads
<1>2. Group' /\ SessionTypes'
  <2>1. CASE pc' = [pc EXCEPT ![c] = "commit"] /\ UNCHANGED <<after, buffered, groupVars>>
    BY <1>1, <2>1, MoveKeeps DEF Group, SessionTypes, Serving
  <2>2. CASE Send(c, "read")
    BY <1>1, <2>2, SendKeeps DEF Group, SessionTypes
  <2> QED
    BY <2>1, <2>2 DEF Write
<1>3. AuthInv'
  BY <1>1 DEF AuthInv
<1>4. stop # "done"
  BY <1>1 DEF StopInv, GroupInv, CountExact, Serving
<1>5. LogTypes' /\ SyncInv'
  <2>1. UNCHANGED <<policy, rewrite, aofTask, thread, orphaned, fileOpen, stop>>
    BY <1>1 DEF Write
  <2>2. CASE HasAof /\ dirty' = TRUE /\ unsynced' = TRUE
    BY ONLY IInv, <1>4, <2>1, <2>2 DEF IInv, TypeOK, LogTypes, SyncInv, HasAof
  <2>3. CASE UNCHANGED <<dirty, unsynced>>
    BY ONLY IInv, <2>1, <2>3 DEF IInv, TypeOK, LogTypes, SyncInv, HasAof
  <2> QED
    BY <2>2, <2>3 DEF Write
<1> QED
  BY <1>2, <1>3, <1>5 DEF Group

\* The end of a commit never takes a record off the disk.
LEMMA CommittedStep ==
    ASSUME IInv, NEW c \in Conns, Committed(c)
    PROVE  IInv'
<1> USE DEF IInv, TypeOK
<1>1. pc[c] = "commit" /\ Send(c, "read") /\ UNCHANGED <<authed, lastAuth, stop>>
  BY DEF Committed
<1>2. Group' /\ SessionTypes'
  BY <1>1, SendKeeps DEF Group, SessionTypes
<1>3. AuthInv'
  BY <1>1 DEF AuthInv
<1>4. CASE unsynced' = unsynced
  BY <1>1, <1>2, <1>3, <1>4, LogUnchanged DEF Committed, logVars, Group
<1>5. CASE unsynced' = FALSE
  <2>1. LogTypes' /\ SyncInv'
    BY <1>5 DEF Committed, LogTypes, SyncInv, HasAof
  <2> QED
    BY <1>2, <1>3, <2>1 DEF Group
<1> QED
  BY <1>4, <1>5 DEF Committed

-----------------------------------------------------------------------------
(***************************************************************************)
(* The tasks of the log, and stop().                                       *)
(***************************************************************************)
\* What these steps leave alone.
LEMMA OthersUnchanged ==
    ASSUME Group, SessionTypes, AuthInv,
           UNCHANGED <<pc, sessionVars, buffered, groupVars, stop>>
    PROVE  Group' /\ SessionTypes' /\ AuthInv'
BY DEF Group, GroupTypes, GroupInv, CountExact, StopInv, SessionTypes, AuthInv,
       sessionVars, groupVars

\* The sync thread clears _dirty only on the way to its fsync.
LEMMA LogStep ==
    ASSUME IInv, Log
    PROVE  IInv'
<1> USE DEF IInv, TypeOK
<1>1. UNCHANGED <<pc, sessionVars, buffered, groupVars, stop>>
  BY DEF Log, AofWakes, ThreadTest, ThreadClear, ThreadCall, AofSleeps, RewriteEnds
<1>2. LogTypes'
  BY DEF Log, AofWakes, ThreadTest, ThreadClear, ThreadCall, AofSleeps, RewriteEnds, LogTypes
<1>3. SyncInv'
  <2>1. CASE AofWakes
    BY <2>1 DEF AofWakes, SyncInv, LogTypes, HasAof
  <2>2. CASE ThreadTest \/ ThreadClear
    BY <2>2 DEF ThreadTest, ThreadClear, SyncInv, LogTypes, HasAof
  <2>3. CASE ThreadCall
    BY <2>3 DEF ThreadCall, SyncInv, LogTypes, HasAof
  <2>4. CASE AofSleeps
    BY <2>4 DEF AofSleeps, SyncInv, LogTypes, HasAof
  <2>5. CASE RewriteEnds
    BY <2>5 DEF RewriteEnds, SyncInv, LogTypes, HasAof
  <2> QED
    BY <2>1, <2>2, <2>3, <2>4, <2>5 DEF Log
<1> QED
  BY <1>1, <1>2, <1>3, OthersUnchanged DEF Group

\* Each stretch of stop() hands on what the next one relies on.
LEMMA StopStep ==
    ASSUME IInv, Stop
    PROVE  IInv'
<1> USE DEF IInv, TypeOK
<1>1. CASE StopBegins \/ StopsRewrite \/ StopsAofTask
  <2> USE <1>1 DEF StopBegins, StopsRewrite, StopsAofTask, CancelAofTask
  <2>1. /\ UNCHANGED <<pc, sessionVars, buffered, groupVars>>
        /\ stop' \in {"tasks", "rewrite", "aof"}
    OBVIOUS
  <2>2. Group'
    BY ONLY IInv, <2>1 DEF IInv, TypeOK, Group, GroupTypes, GroupInv, CountExact, StopInv, groupVars
  <2>3. SessionTypes' /\ AuthInv'
    BY ONLY IInv, <2>1 DEF IInv, TypeOK, SessionTypes, AuthInv, sessionVars
  <2>4. LogTypes' /\ SyncInv'
    <3>1. /\ UNCHANGED <<policy, thread, orphaned, dirty, unsynced, fileOpen>>
          /\ stop # "done" /\ stop' # "done"
          /\ rewrite' \in {rewrite, FALSE} /\ aofTask' \in {aofTask, "ended"}
      BY DEF logVars
    <3> QED
      BY ONLY IInv, <3>1 DEF IInv, TypeOK, LogTypes, SyncInv, HasAof
  <2> QED
    BY <2>2, <2>3, <2>4 DEF Group
<1>2. CASE StopsClients \/ StopsLinks
  <2> USE <1>2 DEF StopsClients, StopsLinks
  <2>1. GroupTypes' /\ StopInv'
    BY DEF GroupTypes, StopInv
  <2>2. GroupInv'
    BY DEF GroupInv, CountExact
  <2>3. SessionTypes' /\ AuthInv'
    BY DEF SessionTypes, AuthInv, sessionVars
  <2>4. LogTypes' /\ SyncInv'
    BY DEF LogTypes, SyncInv, HasAof, logVars
  <2> QED
    BY <2>1, <2>2, <2>3, <2>4
<1>3. CASE StopEnds
  <2> USE <1>3 DEF StopEnds
  <2>1. Group'
    BY DEF Group, GroupTypes, GroupInv, CountExact, StopInv, groupVars
  <2>2. SessionTypes' /\ AuthInv'
    BY DEF SessionTypes, AuthInv, sessionVars
  <2>3. LogTypes' /\ SyncInv'
    BY DEF LogTypes, SyncInv, HasAof
  <2> QED
    BY <2>1, <2>2, <2>3 DEF Group
<1> QED
  BY <1>1, <1>2, <1>3 DEF Stop

-----------------------------------------------------------------------------
\* The invariant holds initially.
LEMMA InitIInv == Init => IInv
<1> SUFFICES ASSUME Init
             PROVE  IInv
  OBVIOUS
<1> USE DEF Init
<1>1. GroupTypes /\ SessionTypes
  BY DEF GroupTypes, SessionTypes, Serving
<1>2. LogTypes
  BY ServerAssumption DEF LogTypes, HasAof
<1>3. GroupInv
  BY FS_EmptySet, ServerAssumption DEF GroupInv, CountExact, Serving
<1>4. StopInv /\ AuthInv
  BY DEF StopInv, AuthInv
<1>5. SyncInv
  BY ServerAssumption DEF SyncInv, HasAof
<1> QED
  BY <1>1, <1>2, <1>3, <1>4, <1>5 DEF IInv, TypeOK

\* Every step preserves the invariant.
LEMMA NextIInv == IInv /\ [Next]_vars => IInv'
<1> SUFFICES ASSUME IInv, [Next]_vars
             PROVE  IInv'
  OBVIOUS
<1>1. ASSUME NEW c \in Conns, Handler(c)
      PROVE  IInv'
  BY <1>1, EndStep, ReplyStep, AuthStep, LinkStep, BgrewriteaofStep, WriteStep,
     CommittedStep, DrainedStep DEF Handler
<1>2. ASSUME NEW c \in Conns,
             \/ Accept(c) \/ Reject(c) \/ CancelDelivered(c) \/ CancelLost(c)
             \/ Closed(c) \/ PeerReads(c)
      PROVE  IInv'
  BY <1>2, AcceptStep, CloseStep, EndStep, LinkStep
<1>3. CASE Log
  BY <1>3, LogStep
<1>4. CASE Stop
  BY <1>4, StopStep
<1>5. CASE UNCHANGED vars
  <2> USE <1>5 DEF vars, IInv, TypeOK
  <2>1. Group' /\ SessionTypes' /\ AuthInv'
    BY OthersUnchanged DEF Group
  <2>2. LogTypes' /\ SyncInv'
    BY LogUnchanged
  <2> QED
    BY <2>1, <2>2 DEF Group
<1> QED
  BY <1>1, <1>2, <1>3, <1>4, <1>5 DEF Next

\* The invariant holds for any number of connections, at any limit.
THEOREM Invariance == Spec => []IInv
BY InitIInv, NextIInv, PTL DEF Spec

-----------------------------------------------------------------------------
(***************************************************************************)
(* Every variable keeps its type; the client counter never goes below zero *)
(* (_handle_client).                                                       *)
(***************************************************************************)
THEOREM TypeCorrect == Spec => []TypeOK
<1>1. IInv => TypeOK
  BY DEF IInv
<1> QED
  BY <1>1, Invariance, PTL

(***************************************************************************)
(* The counter, the task set and the links always agree with the handlers  *)
(* that run, and the counter never passes maxclients: no path through      *)
(* _handle_client counts twice or uncounts twice.                          *)
(***************************************************************************)
THEOREM CounterExact == Spec => []CountExact
<1>1. IInv => CountExact
  BY DEF IInv, GroupInv
<1> QED
  BY <1>1, Invariance, PTL

(***************************************************************************)
(* When stop() has returned no handler is counted and no link is left,     *)
(* although connections were accepted while it waited and cancellations    *)
(* got lost; a handler may be left in wait_closed() only.                  *)
(***************************************************************************)
THEOREM NobodyLeft == Spec => []StopDisconnects
<1>1. IInv => StopDisconnects
  <2> SUFFICES ASSUME IInv, stop = "done"
               PROVE  tasks = {} /\ links = {} /\ count = 0
    BY DEF StopDisconnects
  <2>1. tasks = {}
    BY DEF IInv, StopInv
  <2>2. links = {}
    BY <2>1 DEF IInv, GroupInv, CountExact, Serving
  <2>3. count = 0
    BY <2>1, FS_EmptySet DEF IInv, GroupInv, CountExact
  <2> QED
    BY <2>1, <2>2, <2>3
<1> QED
  BY <1>1, Invariance, PTL

(***************************************************************************)
(* When stop() has returned every record is on disk, unless close() came   *)
(* when the sync thread had cleared _dirty and not yet synced (in close(), *)
(* after writes that came until the last handler was gone).                *)
(***************************************************************************)
THEOREM CleanStop == Spec => []StopSyncs
<1>1. IInv => StopSyncs
  BY DEF IInv, SyncInv, StopSyncs
<1> QED
  BY <1>1, Invariance, PTL

(***************************************************************************)
(* With a password, nothing is done for a session whose latest AUTH did    *)
(* not have it (_check_auth, the local variable authed).                   *)
(***************************************************************************)
THEOREM AuthNeeded == Spec => AuthRequired
<1>1. IInv /\ [Next]_vars =>
        [RequirePass =>
           \A c \in Conns : Query(c) \/ Write(c) \/ Bgrewriteaof(c) \/ Sync(c)
                            => lastAuth[c]]_vars
  BY DEF IInv, AuthInv, Query, Write, Bgrewriteaof, Sync
<1> QED
  BY <1>1, Invariance, PTL DEF Spec, AuthRequired
=============================================================================
