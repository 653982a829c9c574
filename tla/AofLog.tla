------------------------------- MODULE AofLog -------------------------------
(***************************************************************************)
(* The append-only file of mini_cache (aof.py, class AOFLog) with the      *)
(* tasks of the server that use it (server.py): client handlers that       *)
(* append and commit, the one-second sync loop, and the background         *)
(* rewrite.  They share one asyncio event loop and one asyncio.Lock, and   *)
(* they hand their fsyncs to worker threads that run beside the loop.      *)
(*                                                                         *)
(* A write is an identifier 1, 2, 3 ... in the order of execution, and a   *)
(* file is the set of writes it restores: all that is asked here is which  *)
(* writes survive, not what they say (CacheNode.tla models the contents).  *)
(* A snapshot of the store therefore stands for every write the store      *)
(* reflects.  One write may append several records; they are appended in   *)
(* one go and count as one write here.                                     *)
(***************************************************************************)
EXTENDS Naturals, Sequences

CONSTANTS
    Clients,        \* client connections of the primary
    Rewriter,       \* the task made by _start_rewrite
    Syncer,         \* the task _aof_loop
    None,           \* Python's None; also "nobody"
    Fsync,          \* --aof-fsync: "always", "everysec" or "no"
    MaxWrites,      \* bound: writes ever executed
    MaxFaults,      \* bound: failing file operations (OSError)
    MaxCrashes,     \* bound: process kills and power losses
    RenameDurable   \* whether os.replace survives a power loss on its own

Tasks == Clients \cup {Rewriter, Syncer}

ASSUME TaskAssumption ==
    /\ Rewriter \notin Clients
    /\ Syncer \notin Clients \cup {Rewriter}
    /\ None \notin Tasks

ASSUME PolicyAssumption ==
    /\ Fsync \in {"always", "everysec", "no"}
    /\ RenameDurable \in BOOLEAN
    /\ MaxWrites \in Nat /\ MaxFaults \in Nat /\ MaxCrashes \in Nat

VARIABLES
    up,         \* the server process is running
    loop,       \* the client whose append() occupies the event loop, or None
    pc,         \* where each task stands
    lock,       \* holder of _commit_lock, or None
    queue,      \* tasks waiting for _commit_lock, in the order they asked
    count,      \* writes executed so far, over all lives of the process
    logged,     \* logged[n]: the write that made _seq = n in this process
    unflushed,  \* writes left in the file object's buffer by a failed flush
    store,      \* writes the in-memory store reflects
    file,       \* the inode at the AOF path: writes it holds, writes fsynced
    shadow,     \* the inode a power loss may put back at the path, or None
    durable,    \* _durable_seq
    dirty,      \* _dirty
    target,     \* per client: the local seq of commit()
    upto,       \* the local upto of the commit() that holds the lock
    inflight,   \* writes the running fsync will make durable
    rewriting,  \* _rewrite_buffer is not None
    buffer,     \* the writes in _rewrite_buffer
    snap,       \* writes the snapshot payload of the rewrite stands for
    acked,      \* writes whose reply has been sent
    faults, crashes, losses     \* OSErrors; crashes, and the power losses among them

sharedVars  == <<logged, durable, dirty>>
diskVars    == <<file, shadow, unflushed>>
rewriteVars == <<rewriting, buffer, snap>>
commitVars  == <<target, upto, inflight>>
loopVars    == <<loop, count, store>>
boundVars   == <<faults, crashes, losses>>
vars == <<up, pc, lock, queue, acked, sharedVars, diskVars, rewriteVars,
          commitVars, loopVars, boundVars>>

seq == Len(logged)  \* _seq

File(writes, fsynced) == [written |-> writes, synced |-> fsynced]

\* The event loop is free to run the next callback.
LoopIdle == up /\ loop = None

\* A file operation raises OSError: any of them may, MaxFaults times.
Fault == faults < MaxFaults /\ faults' = faults + 1

-----------------------------------------------------------------------------
(***************************************************************************)
(* asyncio.Lock.  acquire() returns at once when nobody holds the lock and *)
(* nobody waits; otherwise the task joins the queue, and a released lock   *)
(* goes to the task at its head.                                           *)
(***************************************************************************)
LockFree == lock = None /\ queue = <<>>

Enqueue(t) ==
    /\ ~LockFree
    /\ queue' = Append(queue, t)
    /\ pc' = [pc EXCEPT ![t] = "wait"]
    /\ UNCHANGED lock

\* Task t is woken with the lock.
Granted(t) ==
    /\ LoopIdle
    /\ lock = None
    /\ queue # <<>>
    /\ t = Head(queue)
    /\ queue' = Tail(queue)

-----------------------------------------------------------------------------
(***************************************************************************)
(* A client's write: dispatch() changes the store, append() writes and     *)
(* flushes the record, and only then updates the buffer, _seq and _dirty.  *)
(* The two halves are two steps because a sync thread may run in between;  *)
(* no other task can, as the loop never yields inside append().            *)
(***************************************************************************)
BeginAppend(c) ==
    /\ LoopIdle
    /\ pc[c] = "idle"
    /\ count < MaxWrites
    /\ count' = count + 1
    /\ store' = store \cup {count'}
    /\ file' = [file EXCEPT !.written = @ \cup unflushed \cup {count'}]
    /\ unflushed' = {}
    /\ loop' = c
    /\ UNCHANGED <<up, pc, lock, queue, acked, sharedVars, shadow,
                   rewriteVars, commitVars, boundVars>>

\* The write or flush raises OSError: the store keeps the change, the file
\* object keeps the bytes, and the handler drops the connection.
AppendFailed(c) ==
    /\ LoopIdle
    /\ pc[c] = "idle"
    /\ count < MaxWrites
    /\ Fault
    /\ count' = count + 1
    /\ store' = store \cup {count'}
    /\ unflushed' = unflushed \cup {count'}
    /\ UNCHANGED <<up, pc, lock, queue, acked, sharedVars, file, shadow,
                   rewriteVars, commitVars, loop, crashes, losses>>

\* commit() goes on to fsync: what is in the file now will be durable.
StartFsync(c, s) ==
    /\ lock' = c
    /\ upto' = s
    /\ inflight' = file.written
    /\ pc' = [pc EXCEPT ![c] = "fsync"]

EndAppend(c) ==
    /\ up
    /\ loop = c
    /\ loop' = None
    /\ buffer' = IF rewriting THEN buffer \cup {count} ELSE buffer
    /\ logged' = Append(logged, count)
    /\ dirty' = TRUE
    /\ \/ /\ Fsync # "always"                           \* commit() returns
          /\ acked' = acked \cup {count}
          /\ UNCHANGED <<pc, lock, queue, commitVars>>
       \/ /\ Fsync = "always"
          /\ target' = [target EXCEPT ![c] = seq + 1]
          /\ \/ LockFree /\ StartFsync(c, seq + 1) /\ UNCHANGED queue
             \/ Enqueue(c) /\ UNCHANGED <<upto, inflight>>
          /\ UNCHANGED acked
    /\ UNCHANGED <<up, durable, diskVars, rewriting, snap, count, store, boundVars>>

\* The writer gets the lock: another fsync may have covered its write already.
CommitGranted(c) ==
    /\ Granted(c)
    /\ \/ /\ durable >= target[c]
          /\ acked' = acked \cup {logged[target[c]]}
          /\ pc' = [pc EXCEPT ![c] = "idle"]
          /\ UNCHANGED <<lock, upto, inflight>>
       \/ /\ durable < target[c]
          /\ StartFsync(c, seq)
          /\ UNCHANGED acked
    /\ UNCHANGED <<up, target, sharedVars, diskVars, rewriteVars, loopVars,
                   boundVars>>

\* Mutant: _durable_seq = _seq after the fsync, instead of the upto before it.
CommitFsyncedLate(c) ==
    /\ LoopIdle
    /\ pc[c] = "fsync"
    /\ file' = [file EXCEPT !.synced = @ \cup inflight]
    /\ durable' = seq
    /\ lock' = None
    /\ pc' = [pc EXCEPT ![c] = "idle"]
    /\ acked' = acked \cup {logged[target[c]]}
    /\ UNCHANGED <<up, queue, logged, dirty, shadow, unflushed, rewriteVars,
                   commitVars, loopVars, boundVars>>

\* The worker thread is done and the handler resumes, releases the lock and
\* sends the reply.
CommitFsynced(c) ==
    /\ LoopIdle
    /\ pc[c] = "fsync"
    /\ file' = [file EXCEPT !.synced = @ \cup inflight]
    /\ durable' = upto
    /\ lock' = None
    /\ pc' = [pc EXCEPT ![c] = "idle"]
    /\ acked' = acked \cup {logged[target[c]]}
    /\ UNCHANGED <<up, queue, logged, dirty, shadow, unflushed, rewriteVars,
                   commitVars, loopVars, boundVars>>

\* Mutant: acquire() and release() without async with, so that an exception
\* leaves the lock held.
CommitFailedHolding(c) ==
    /\ LoopIdle
    /\ pc[c] = "fsync"
    /\ Fault
    /\ pc' = [pc EXCEPT ![c] = "idle"]
    /\ UNCHANGED <<up, lock, queue, acked, sharedVars, diskVars, rewriteVars,
                   commitVars, loopVars, crashes, losses>>

\* os.fsync raises: the handler drops the connection without a reply.
CommitFailed(c) ==
    /\ LoopIdle
    /\ pc[c] = "fsync"
    /\ Fault
    /\ lock' = None
    /\ pc' = [pc EXCEPT ![c] = "idle"]
    /\ UNCHANGED <<up, queue, acked, sharedVars, diskVars, rewriteVars,
                   commitVars, loopVars, crashes, losses>>

-----------------------------------------------------------------------------
(***************************************************************************)
(* The sync loop.  sync() runs in a worker thread, under the lock: it      *)
(* tests _dirty, clears it, and then calls fsync, each a step of its own   *)
(* that may fall between the two halves of an append.                      *)
(***************************************************************************)
SyncAsk ==
    /\ LoopIdle
    /\ Fsync = "everysec"
    /\ pc[Syncer] = "idle"
    /\ \/ /\ LockFree
          /\ lock' = Syncer
          /\ pc' = [pc EXCEPT ![Syncer] = "test"]
          /\ UNCHANGED queue
       \/ Enqueue(Syncer)
    /\ UNCHANGED <<up, acked, sharedVars, diskVars, rewriteVars, commitVars,
                   loopVars, boundVars>>

SyncGranted ==
    /\ Granted(Syncer)
    /\ lock' = Syncer
    /\ pc' = [pc EXCEPT ![Syncer] = "test"]
    /\ UNCHANGED <<up, acked, sharedVars, diskVars, rewriteVars, commitVars,
                   loopVars, boundVars>>

SyncTest ==
    /\ up
    /\ pc[Syncer] = "test"
    /\ pc' = [pc EXCEPT ![Syncer] = IF dirty THEN "clear" ELSE "done"]
    /\ UNCHANGED <<up, lock, queue, acked, sharedVars, diskVars, rewriteVars,
                   commitVars, loopVars, boundVars>>

SyncClear ==
    /\ up
    /\ pc[Syncer] = "clear"
    /\ dirty' = FALSE
    /\ pc' = [pc EXCEPT ![Syncer] = "call"]
    /\ UNCHANGED <<up, lock, queue, acked, logged, durable, diskVars,
                   rewriteVars, commitVars, loopVars, boundVars>>

SyncCall ==
    /\ up
    /\ pc[Syncer] = "call"
    /\ inflight' = file.written
    /\ pc' = [pc EXCEPT ![Syncer] = "fsync"]
    /\ UNCHANGED <<up, lock, queue, acked, sharedVars, diskVars, rewriteVars,
                   target, upto, loopVars, boundVars>>

\* Mutant: _dirty is cleared after the fsync, not before it.
SyncFsyncedThenClear ==
    /\ up
    /\ pc[Syncer] = "fsync"
    /\ file' = [file EXCEPT !.synced = @ \cup inflight]
    /\ dirty' = FALSE
    /\ pc' = [pc EXCEPT ![Syncer] = "done"]
    /\ UNCHANGED <<up, lock, queue, acked, logged, durable, shadow, unflushed,
                   rewriteVars, commitVars, loopVars, boundVars>>

SyncFsynced ==
    /\ up
    /\ pc[Syncer] = "fsync"
    /\ file' = [file EXCEPT !.synced = @ \cup inflight]
    /\ pc' = [pc EXCEPT ![Syncer] = "done"]
    /\ UNCHANGED <<up, lock, queue, acked, sharedVars, shadow, unflushed,
                   rewriteVars, commitVars, loopVars, boundVars>>

\* Back on the loop: the lock is released and the task sleeps again.
SyncDone ==
    /\ LoopIdle
    /\ pc[Syncer] = "done"
    /\ lock' = None
    /\ pc' = [pc EXCEPT ![Syncer] = "idle"]
    /\ UNCHANGED <<up, queue, acked, sharedVars, diskVars, rewriteVars,
                   commitVars, loopVars, boundVars>>

\* fsync raises OSError: _aof_loop catches only CancelledError, so the task
\* ends, for good, and leaves _dirty cleared.
SyncFailed ==
    /\ LoopIdle
    /\ pc[Syncer] = "fsync"
    /\ Fault
    /\ lock' = None
    /\ pc' = [pc EXCEPT ![Syncer] = "ended"]
    /\ UNCHANGED <<up, queue, acked, sharedVars, diskVars, rewriteVars,
                   commitVars, loopVars, crashes, losses>>

-----------------------------------------------------------------------------
(***************************************************************************)
(* The rewrite: a snapshot taken on the loop, written and fsynced to a     *)
(* temporary file by a worker thread, and then, in one go under the lock,  *)
(* completed with the writes buffered meanwhile and renamed over the log.  *)
(***************************************************************************)
RewriteBegin ==
    /\ LoopIdle
    /\ pc[Rewriter] = "idle"
    /\ snap' = store
    /\ rewriting' = TRUE
    /\ buffer' = {}
    /\ pc' = [pc EXCEPT ![Rewriter] = "write"]
    /\ UNCHANGED <<up, lock, queue, acked, sharedVars, diskVars, commitVars,
                   loopVars, boundVars>>

\* Mutant: the tail (_rewrite_buffer) is not appended to the new file.
SwapWithoutTail ==
    /\ file' = File(snap, snap)
    /\ shadow' = IF RenameDurable THEN None ELSE file
    /\ unflushed' = {}
    /\ durable' = seq
    /\ dirty' = FALSE
    /\ rewriting' = FALSE
    /\ buffer' = {}
    /\ snap' = {}
    /\ pc' = [pc EXCEPT ![Rewriter] = "idle"]

\* Tail, fsync, close, os.replace, reopen: no await, so no other task runs.
Swap ==
    /\ file' = File(snap \cup buffer, snap \cup buffer)
    /\ shadow' = IF RenameDurable THEN None ELSE file
    /\ unflushed' = {}      \* close() flushes them to the inode being replaced
    /\ durable' = seq
    /\ dirty' = FALSE
    /\ rewriting' = FALSE
    /\ buffer' = {}
    /\ snap' = {}
    /\ pc' = [pc EXCEPT ![Rewriter] = "idle"]

\* _write_durable has returned.
RewriteWritten ==
    /\ LoopIdle
    /\ pc[Rewriter] = "write"
    /\ \/ LockFree /\ Swap /\ UNCHANGED <<lock, queue>>
       \/ Enqueue(Rewriter) /\ UNCHANGED <<diskVars, durable, dirty, rewriteVars>>
    /\ UNCHANGED <<up, logged, acked, commitVars, loopVars, boundVars>>

\* Mutant: the rewrite never lets the lock go.
RewriteGrantedHolding ==
    /\ Granted(Rewriter)
    /\ Swap
    /\ lock' = Rewriter
    /\ UNCHANGED <<up, logged, acked, commitVars, loopVars, boundVars>>

RewriteGranted ==
    /\ Granted(Rewriter)
    /\ Swap
    /\ UNCHANGED <<up, lock, logged, acked, commitVars, loopVars, boundVars>>

\* A step of the rewrite raises OSError: the temporary file is unlinked and
\* the log keeps its inode.  When it was os.replace that failed, close() has
\* flushed what earlier failures left in the file object.
RewriteFailed ==
    /\ LoopIdle
    /\ \/ /\ pc[Rewriter] = "write"                     \* the thread's write
          /\ UNCHANGED <<queue, diskVars>>
       \/ /\ \/ pc[Rewriter] = "write" /\ LockFree /\ UNCHANGED queue
             \/ Granted(Rewriter)
          /\ \/ UNCHANGED diskVars                      \* the tail
             \/ /\ file' = [file EXCEPT !.written = @ \cup unflushed]
                /\ unflushed' = {}
                /\ UNCHANGED shadow
    /\ Fault
    /\ rewriting' = FALSE
    /\ buffer' = {}
    /\ snap' = {}
    /\ pc' = [pc EXCEPT ![Rewriter] = "idle"]
    /\ UNCHANGED <<up, lock, acked, sharedVars, commitVars, loopVars, crashes, losses>>

-----------------------------------------------------------------------------
(***************************************************************************)
(* Failures of the process and of the machine, and the start that follows. *)
(***************************************************************************)
\* kill -9: memory is gone, the page cache is not.
Kill ==
    /\ up
    /\ crashes < MaxCrashes
    /\ crashes' = crashes + 1
    /\ up' = FALSE
    /\ UNCHANGED <<pc, lock, queue, acked, sharedVars, diskVars, rewriteVars,
                   commitVars, loopVars, faults, losses>>

\* Of an inode, everything fsynced survives, and of what came later a prefix;
\* replay() cuts off a record torn by the crash.
Survivors(f, n) == f.synced \cup {i \in f.written : i <= n}

\* The inodes a power loss may leave at the path.
Inodes == {file} \cup (IF shadow = None THEN {} ELSE {shadow})

PowerLoss ==
    /\ up
    /\ crashes < MaxCrashes
    /\ crashes' = crashes + 1 /\ losses' = losses + 1
    /\ up' = FALSE
    /\ \E f \in Inodes, n \in 0..count :
          file' = File(Survivors(f, n), Survivors(f, n))
    /\ shadow' = None
    /\ UNCHANGED <<pc, lock, queue, acked, sharedVars, unflushed, rewriteVars,
                   commitVars, loopVars, faults>>

\* AOFLog.__init__ and replay().
Start ==
    /\ ~up
    /\ up' = TRUE
    /\ store' = file.written
    /\ logged' = <<>> /\ durable' = 0 /\ dirty' = FALSE
    /\ unflushed' = {}
    /\ loop' = None /\ lock' = None /\ queue' = <<>>
    /\ pc' = [t \in Tasks |-> "idle"]
    /\ target' = [c \in Clients |-> 0] /\ upto' = 0 /\ inflight' = {}
    /\ rewriting' = FALSE /\ buffer' = {} /\ snap' = {}
    /\ UNCHANGED <<count, acked, file, shadow, boundVars>>

-----------------------------------------------------------------------------
Init ==
    /\ up = TRUE /\ loop = None /\ lock = None /\ queue = <<>>
    /\ pc = [t \in Tasks |-> "idle"]
    /\ count = 0 /\ store = {} /\ unflushed = {}
    /\ file = File({}, {}) /\ shadow = None
    /\ logged = <<>> /\ durable = 0 /\ dirty = FALSE
    /\ target = [c \in Clients |-> 0] /\ upto = 0 /\ inflight = {}
    /\ rewriting = FALSE /\ buffer = {} /\ snap = {}
    /\ acked = {} /\ faults = 0 /\ crashes = 0 /\ losses = 0

Client(c) ==
    \/ BeginAppend(c) \/ AppendFailed(c) \/ EndAppend(c)
    \/ CommitGranted(c) \/ CommitFsynced(c) \/ CommitFailed(c)

Sync ==
    \/ SyncAsk \/ SyncGranted \/ SyncTest \/ SyncClear \/ SyncCall
    \/ SyncFsynced \/ SyncDone \/ SyncFailed

Rewrite == RewriteBegin \/ RewriteWritten \/ RewriteGranted \/ RewriteFailed

Next ==
    \/ \E c \in Clients : Client(c)
    \/ Sync
    \/ Rewrite
    \/ Kill \/ PowerLoss \/ Start

Spec == Init /\ [][Next]_vars

\* A started append runs to its end; a task that has been granted the lock,
\* whose thread is running or has returned, goes on; _aof_loop wakes every
\* second.  Clients need not write, rewrites need not be requested, and
\* nothing has to fail.
Fairness ==
    /\ \A c \in Clients : WF_vars(EndAppend(c) \/ CommitGranted(c) \/ CommitFsynced(c))
    /\ WF_vars(SyncAsk \/ SyncGranted \/ SyncTest \/ SyncClear \/ SyncCall
               \/ SyncFsynced \/ SyncDone)
    /\ WF_vars(RewriteWritten \/ RewriteGranted)

FairSpec == Spec /\ Fairness
-----------------------------------------------------------------------------
Places == {"idle", "wait", "fsync", "write", "test", "clear", "call", "done", "ended"}

Inode == [written : SUBSET Nat, synced : SUBSET Nat]

TaskTypes ==
    /\ up \in BOOLEAN
    /\ loop \in Clients \cup {None}
    /\ pc \in [Tasks -> Places]
    /\ lock \in Clients \cup {Syncer, None}
    /\ queue \in Seq(Tasks)
    /\ target \in [Clients -> Nat] /\ upto \in Nat /\ inflight \in SUBSET Nat

MemoryTypes ==
    /\ count \in Nat /\ store \in SUBSET Nat /\ unflushed \in SUBSET Nat
    /\ logged \in Seq(Nat) /\ durable \in Nat /\ dirty \in BOOLEAN
    /\ rewriting \in BOOLEAN /\ buffer \in SUBSET Nat /\ snap \in SUBSET Nat

DiskTypes ==
    /\ file \in Inode
    /\ shadow = None \/ shadow \in Inode
    /\ acked \in SUBSET Nat
    /\ faults \in Nat /\ crashes \in Nat /\ losses \in Nat

\* Every variable has its type.
TypeOK == TaskTypes /\ MemoryTypes /\ DiskTypes

(***************************************************************************)
(* --aof-fsync always: a write whose reply has been sent is on disk, so    *)
(* that it survives a power loss at any moment, during a group commit or   *)
(* a rewrite and after a restart (AOFLog.commit, _durable_seq, rewrite).   *)
(***************************************************************************)
AckedIsDurable ==
    Fsync = "always" => \A f \in Inodes : acked \subseteq f.synced

(***************************************************************************)
(* The log restores what the running server shows: it holds no write the   *)
(* store does not reflect, and every acknowledged write the store          *)
(* reflects, in particular those that arrive during a rewrite              *)
(* (_rewrite_buffer), whether the rewrite succeeds, fails or is cut short. *)
(***************************************************************************)
LogMatchesStore ==
    up => /\ file.written \subseteq store
          /\ store \cap acked \subseteq file.written

(***************************************************************************)
(* The flag never hides a write from the sync loop: when _dirty is clear   *)
(* and no sync() is between clearing it and the end of its fsync, every    *)
(* record appended by this process has been fsynced (AOFLog.sync against   *)
(* a concurrent append, and rewrite's own reset of the flag).              *)
(***************************************************************************)
CleanMeansSynced ==
    (Fsync = "everysec" /\ up /\ ~dirty /\ pc[Syncer] \notin {"call", "fsync", "ended"})
        => \A n \in 1..seq : logged[n] \in file.synced

(***************************************************************************)
(* --aof-fsync everysec: every record appended reaches the disk by itself, *)
(* without another write having to come, unless the process or the sync    *)
(* task dies first (_aof_loop, AOFLog.sync).                               *)
(***************************************************************************)
EverySecondSynced ==
    \A i \in 1..MaxWrites :
        (\E n \in 1..seq : logged[n] = i)
            ~> (i \in file.synced \/ ~up \/ pc[Syncer] = "ended")

(***************************************************************************)
(* Group commit starves nobody: a writer waiting in commit() is released   *)
(* (its reply is sent or its connection dropped) unless the process dies.  *)
(***************************************************************************)
CommitReturns ==
    \A c \in Clients : (pc[c] \in {"wait", "fsync"}) ~> (pc[c] = "idle" \/ ~up)

=============================================================================
