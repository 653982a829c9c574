# mini_cache: verification project

mini_cache is a Redis-like cache: an asyncio server with an in-memory store, an
append-only file (AOF), primary/replica replication and a client that shards over
several servers. This directory holds TLA+ models of it, the TLC runs that check
them on small instances and the proofs TLAPS checks for every instance.

Source files are named relative to `src/src/mini_cache/`; "README" with a line
number is the repository's own README.

## 1. Inventory

| component | state | operations | properties that make it correct |
|---|---|---|---|
| store (`store.py`) | ordered dictionary of entries, expiry heap, `used_memory`, list of evicted keys | set, incr, delete, expire, persist, flush, get/exists/ttl (which expire lazily and touch), keys, snapshot, sweep, evict | exact accounting; cap respected; every deadline is in the heap; stale heap pairs are harmless; a write does not evict itself |
| commands (`commands.py`) | none | dispatch and the handlers | the effect on the store, errors leave it alone |
| records (`aof.py`, `replication.py`) | none | `to_aof_commands`, `build_rewrite_commands`, `to_replication_command`, `build_snapshot_commands`, `replay` | replaying gives what clients see |
| append-only file (`aof.py`, `_aof_loop` and `_rewrite_aof` of `server.py`) | file, `_seq`, `_durable_seq`, `_dirty`, `_rewrite_buffer`, `_commit_lock` | append, commit, sync, rewrite, replay, close | acknowledged writes are durable; rewrites lose nothing; no writer waits for ever |
| primary node (`server.py`, `_handle_client`) | store, log, clock | one command; sweep; rewrite; restart | restart restores the visible contents |
| replication (`server.py` `_ReplicaLink`, `_serve_replica`; `replication.py`) | per replica: queue, `_pending`, connection; the replica's store | SYNC with snapshot, propagate, pump, heartbeat, time-outs, reconnect, apply | nothing is lost or applied twice while the link is up; bounded backlog; convergence |
| client session (`_handle_client`) | `authed`, `_client_count`, `_client_tasks`, output buffer | accept, reject, AUTH, command, SYNC, time-outs, close | the counter is exact; nothing is done without the password; a slow reader is let go |
| lifecycle (`Server.start`, `stop`) | the tasks above, the log's file | start, stop | stop() disconnects everybody, leaves every record on disk, and returns |
| cluster client's pools (`cluster.py`, `_run`, `_connect`, `close`) | per shard slots, waiters and idle connections; `_closed` | run with retry, time-out, cancellation, close | a reply answers its own request; pool bound; no retry because an answer is late; nothing left open; nobody waits for ever |
| hash ring (`cluster.py`, `ConsistentHashRing`) | `_ring`, `_sorted_hashes` | add_node, remove_node, get_node | dictionary and list agree; routing depends on the nodes only; a node moves only its own keys |
| RESP (`protocol.py`), CLI (`__main__.py`), INFO | none across commands | parse, encode, format | not modelled, but for a reply that `read_reply` refuses |

**Interaction.** One asyncio loop runs a task per client, the sweeper, the sync loop,
a rewrite task, and per replica a pump and a reader. A client's write is
`dispatch` (store) -> `append` (file) -> `_propagate` (queues) -> evictions as DEL to
both -> `commit` (waits for fsync) -> reply. fsyncs and the rewrite's file run in worker
threads beside the loop; `_commit_lock` serialises commit, sync and swap. `stop()` ends
the tasks group by group, with an await after each. The cluster client is a program of
its own that talks to several servers, with requests of one event loop sharing a pool
per shard.

**Hard behaviours.** The thread of `sync()` against `append()`; the value of `_seq`
before and after an await; writes during a rewrite; failing writes and fsyncs; crash
between two records; replay at a later time and with another LRU order; overflow of a
replica's queue; broken links; lifetimes that start late; a shutdown while handlers,
the sync thread and rewrites go on; late answers and cancelled requests on connections
that are used again. `PROJECT.json` lists them under "hazards", each at its line.

## 2. Modules

| module | models | built on |
|---|---|---|
| `AofLog` | the AOF and its tasks: *when* a write is on disk | |
| `DurableStore` | abstract: what a cache with a log promises its clients | |
| `AofRefinement` | the mapping under which `AofLog` implements `DurableStore` | `AofLog`, `DurableStore` |
| `AofLogProofs` | inductive invariant, theorems, refinement proof | the modules above, TLAPS |
| `ServerTasksProofs` | the same for handlers and `stop()` | `ServerTasks`, TLAPS |
| `ClusterPoolProofs` | the invariant of the pools with what each kind of step does to it; the actions and theorems | `ClusterPool`, TLAPS |
| `HashRingProofs` | sorted lists, the loops of the ring, its theorems | `HashRing`, TLAPS |
| `StoreProofs` | lemmas: what every method of the store, every command and a replay do to it | `Commands`, TLAPS |
| `StoreEffects` | lemmas: what a command does to one entry, a sequence of commands to all of them, a snapshot that is replayed | `StoreProofs` |
| `CacheNodeProofs` | the theorems about a primary | `CacheNode`, `StoreEffects` |
| `ReplicationProofs` | the theorems about primary, link and replica | `Replication`, `StoreEffects` |
| `Store` | the store's methods as operators | |
| `Commands` | dispatch, record formats, replay | `Store` |
| `CacheNode` | a primary: *what* the log says | `Commands` |
| `Replication` | primary, link, connection, replica | `Commands` |
| `ServerTasks` | client handlers, background tasks of the log, `stop()` | |
| `ClusterPool` | the connection pools of the cluster client | |
| `HashRing` | the consistent hash ring | |
| `MC...` | keys, clients, requests and command sets of the runs | |

`AofLog`, `CacheNode` and `ServerTasks` look at the same server from three sides. The
first has writes without contents, all awaits of the log and all its failures; the
second has contents and one step per command; the third has neither, but every handler
and every await of the shutdown.

### AofLog

A write is a number, in the order of execution; a file is the set of writes it
restores, with the part that is fsynced. The contents are `CacheNode`'s business.
Each await of the code ends an action, and so does each point where a worker thread and
the loop can be seen by one another:

* `BeginAppend`/`EndAppend`: dispatch and the file write, then the Python
  variables. Between them only a thread can run (`loop` holds the client), which is what
  `sync()` in its thread may see. `AppendFailed` is the write or flush raising: store
  changed, bytes left in the file object (`unflushed`), no reply.
* `EndAppend`, `CommitGranted`, `CommitFsynced`, `CommitFailed`: `commit()`. asyncio's
  lock is FIFO (`queue`).
* `SyncAsk`, `SyncGranted`, `SyncTest`, `SyncClear`, `SyncCall`, `SyncFsynced`,
  `SyncDone`, `SyncFailed`: `sync_async` and, step by step, `sync` in its thread.
* `RewriteBegin`, `RewriteWritten`, `RewriteGranted`, `RewriteFailed`; `Swap` is the
  part without an await: tail, fsync, rename, reopen.
* `Kill`, `PowerLoss`, `Start`. A power loss keeps what is fsynced and a prefix of the
  rest, of the inode at the path or, if the rename was not durable (`shadow`), of the one
  before.

Assumed of the operating system: an fsync that returns has made the writes before it
durable; an fsync that failed is not relied on. Abstracted: several records of one
write count as one; the close and reopen of the file do not themselves fail; the size
trigger is "a rewrite may start at any time". `close()` at shutdown is in `ServerTasks`.
The `commit()` of a command that logged nothing is left out: it waits for the records of
others and acknowledges none of its own.

### DurableStore and AofRefinement

`DurableStore` has no file, lock or thread: writes are executed and visible, visible
writes may be acknowledged, a kill brings back at least the acknowledged writes that
were visible, a power loss with `Strict` at least every acknowledged write, and never
one that was not visible before. `AofRefinement` maps `view` to the store, `executed` to
the number of writes, `Strict` to `Fsync = "always"`, and `saved`, what a stopped server
will come back with, to the contents of the file. `losses` counts power losses in both,
so that a power loss cannot pass for a kill or the other way round. All of commit, sync
and rewrite are stuttering steps: that is the claim.

### Store and Commands

A store is a record: `data` and `order` (the OrderedDict), `heap` as a set of
pairs (two equal pairs in the code act like one: the second finds the entry gone),
`used`, `evicted`, `cap`. Integers are bounded by `IntMin..IntMax` as the
code bounds them by int64; a value INCR refuses is `Text`. `Cost` gives the bytes of
an entry; the runs use costs that grow when a number gains a digit. The wall clock and
the monotonic clock are one clock in ticks; rounding to milliseconds is below a tick.
The rebuild threshold of the heap (4 and 1024) is a pair of constants so that small
runs reach it. Store counters that only INFO shows are left out, as are commands
refused for their syntax: `CommandType` is the set of commands the parsers let through,
in which the lifetime of a SET is positive and an EXPIRE may have any integer. The
loops of the code (taking keys out of the order, MSET, replay, `_propagate`) are
recursive functions over the positions of a sequence, so that they can be proved about.

### CacheNode

State: the store, the records of the log, the clock and a running rewrite (snapshot
records and buffer). `ExecuteRead`, `ExecuteWrite` and `Refuse` are a pass through the
command loop from the memory check to the reply; `Records` is the code between dispatch and
commit. `SweepLoop`, `RewriteBegin/Finish/Fail` and `Restart`, which replays the
log, possibly without its last records, interleave with them.

### Replication

The link is `queue`, `pending` and `link` (open); `Draining` is the moment between a
write and the end of `drain()`. The connection (`wire`) is FIFO and may break
(`LinkLost`), be dropped by the primary (`LinkDropped`, and `Send` over its limit) or
go with the primary (`PrimaryRestarts`, without a log). `Connect` is `_serve_replica`
up to the registration, which has no await. Payloads have size 1 and the limit counts
payloads. Bound: one PING is under way at a time (they are one second apart). An old
half-open link of the primary is forgotten when the replica gives it up: what it still
queues reaches nobody. Lazy expiry by reads on the replica is a special case of its
sweep. The two clocks run at the same rate; only the delay of delivery is modelled.

### ServerTasks

A handler is at `read`, `send` (in `drain()`), `commit`, `serve` (a replica's link) or
`closing` (in `wait_closed()`, after the `finally` clause has left counter, task set and
links). A command is what it means to the session: AUTH, SYNC, BGREWRITEAOF, QUIT, a
write, anything else. `_send` is `Send`, with its three outcomes when the peer does not
read: it is little enough to go on, it passes `client_output_limit`, or `drain()` waits.
`stop()` is an action per stretch between two awaits (`StopBegins` to `StopEnds`), with
`Accept` still possible until the first await has returned. A cancelled handler runs its
`finally` clauses (`CancelDelivered`), or the cancellation is swallowed by `wait_for`
(`CancelLost`; Python 3.11, where `wait_for` returns a result that is ready). The log is
`dirty`, `unsynced` and the steps of `sync()` in its thread, which a cancelled
`_aof_loop` leaves running; `policy` is the fsync policy, or "off" without a log.
`start()` is the initial state. `StopDisconnects` is about the counter, the task set and
the links: `stop()` does not wait for a handler that was in `wait_closed()` before.

### ClusterPool

A request is one call of `_run`: a single command or a shard's part of a pipeline. Its
messages carry request, attempt and position, and a reply is the message it answers, so
that a reply given to the wrong request shows. `Call`, `Granted`, `Connected`,
`Authenticated` and `ReadReply` are the stretches between the awaits of `_run`;
`ConnectFailed`, `TimedOut`, `Broken` and `Cancel` are its ways out, all through the
`finally` clause. The semaphore is FIFO: a freed slot goes to the request that waits
longest, and a request that is cancelled leaves the queue wherever it stands. `CloseFrom` is `close()`: the iterator over the
dictionary, an await after every connection, and the RuntimeError of a dictionary that
has grown. Shards and network are external: commands of a connection are executed in
order and at any later time, and a connection may be dropped with a part of its replies
(`status` "gone"). A shard may also answer what `read_reply` refuses, such as an array
above `MAX_ARRAY_LENGTH` (`Spoilt`, `status` "spoilt", for the requests in `Oversized`): the
shard is there, but nothing can be read after the replies that came before. For `_run`
the two are the same, `Broken`. AUTH has a short reply.
A wrong reply to AUTH is one of the outcomes of `ConnectFailed`. How results of
several shards are put together is left out.

### HashRing

`_ring` and `_sorted_hashes` with insort and bisect as the code uses them; the loops of
`add_node` and `remove_node` over the virtual nodes are recursive functions (`Inserted`,
`Deleted`). `Init` takes
every assignment of different hashes to the virtual nodes; keys are all hashes.

## 3. Runs

| run | instance | shows |
|---|---|---|
| `AofAlways` | always; 3 clients, 3 writes, 1 fault, 2 crashes | `TypeOK`, `AckedIsDurable`, `LogMatchesStore`, `CommitReturns`, `ImplementsDurableStore` |
| `AofEverysec` | everysec; 2 clients, 3 writes, 1 fault, 2 crashes | `LogMatchesStore`, `CleanMeansSynced`, `EverySecondSynced`, `ImplementsDurableStore` |
| `NodeTtl` | 2 keys, no cap, 3 ticks, log of 3 and more records | `TypeOK`, `RestartFidelity`, `HeapCoversDeadlines`, `ReadsChangeNothing` |
| `NodeMemory` | 3 keys; allkeys-lru with cap 2 or noeviction with cap 1; MSET, a counter, lifetimes for the other two keys; up to one record lost per crash | `RestartFidelity`, `MemoryAccounting`, `MemoryBound`, `OvershootBounded`, `WrittenKeySurvives` |
| `NodeLate` | 1 key, deadlines | violated: `RestartExact` |
| `ReplStream` | 3 keys, cap 2, limit 4, 3 writes, 1 breakdown | `TypeOK`, `InFlightFidelity`, `BacklogBounded`, `EventuallyConsistent` |
| `ReplTtl` | 1 key, lifetimes, 4 ticks, limit 3, 1 breakdown | `LiveKeysReplicated` |
| `ReplBigSnapshot` | 2 keys, limit 2 | violated: `EventuallyConsistent` |
| `PoolRequests` | 3 requests, one a pipeline of 2, on 2 shards; pool size 1, password, 3 connections, 1 break, replies of one request too large | `TypeOK`, `ReplyIsOwn`, `PoolBounded`, `NoBlindRetry`, `ClosedForGood`, `RequestEnds` |
| `ServerStop` | 2 connections, maxclients 1, password, every fsync policy and no log, 3 accepts | `TypeOK`, `CountExact`, `StopDisconnects`, `StopSyncs`, `AuthRequired`, `SlowClientReleased`, `StopReturns` |
| `ServerHang` | the same with 2 accepts, and peers that need not read | violated: `StopReturns` |
| `RingRouting` | 3 nodes of 2 virtual nodes on 7 hashes, every placement | `RingConsistent`, `RoutesClockwise`, `MovesOnlyOwnKeys` |

Why the bounds are enough. Three clients are the least for group commit to matter: one
holds the lock, one waits, one appends while the fsync runs. One fault can fall on any
file operation, and two crashes allow a crash of a process that was itself restarted.
Three ticks let a lifetime be set, moved and passed with a restart before or after.
Three keys with room for two are the least for an eviction to have a choice. A limit of
four payloads is just above a full snapshot (FLUSHDB and two keys) and a PING, so that
overflow happens by writes and never by heartbeats alone; `ReplBigSnapshot` takes the
other side. In `ReplTtl` the limit of three is exceeded by a snapshot with a lifetime and
a write. `MaxLog` is a guard of `ExecuteWrite`: the last write may add several records.
Two requests for one slot let one wait, reuse what the other left behind and be retried
on it; the third opens a pool while `close()` waits; three connections allow a retry
after every kind of failure (a request that needs a fourth can only fail or time out,
which it may also do without the bound). Two connections at a limit of one make one of them
be rejected or wait until the other has gone; the third accept uses a connection again.
Six points on seven hashes leave a free hash at every place, also at the end.
Symmetry is used for keys in the Node runs (`KeySymmetry` in `NodeTtl`, `PairSymmetry` in
`NodeMemory`, where the third key is the counter; the command sets are closed under it and
none of these runs checks liveness). Deadlock is not checked where the
system may really stop: a client without further requests, a server that has stopped.

**Fairness.** `AofLog`: the event loop runs a task that is ready, worker threads
return, `_aof_loop` wakes up each second; so weak fairness on the continuation of each
task, and none on clients' writes, requests for rewrites, faults or crashes.
`Replication`: weak fairness on the pump, the replica's read loop and its reconnect
loop (`run()` never stops trying); none on writes, heartbeats, time or breakdowns, which
the bounds make finite. Heartbeats may go on for ever. `ClusterPool`: the time-outs
that the code sets fire, a request that can go on does, and `close()` is resumed; shards
need never answer. `ServerTasks`, `FairSpec`: the loop runs what is ready, threads
return, `CLIENT_WRITE_TIMEOUT` fires and a cancellation arrives; nobody has to send, read,
leave or ask for a shutdown. `PeerFairSpec` adds what the code needs and does not
enforce, that the peer of a connection being closed takes the rest of the output or goes
away; `ServerHang` is the same property without it.

### Disagreements between code and documentation

Each violated run states a sentence of the documentation and shows a behaviour of the
code against it; `PROJECT.json` quotes them under "findings". In short: a key whose
deadline was moved in time is gone after a restart past the old deadline (`NodeLate`); a
snapshot above the backlog limit makes a replica resync for ever (`ReplBigSnapshot`); a
client that neither reads nor leaves keeps `stop()` from returning (`ServerHang`).

Further observations, each one change of a run away and not kept as a run of its own:

* One failing fsync ends `_aof_loop`, which catches only CancelledError
  (`server.py:552`): without the exception for `pc[Syncer] = "ended"`,
  `EverySecondSynced` fails in `AofEverysec`. README line 186 promises an fsync every second.
* Replay under maxmemory evicts other keys than the primary did, since reads are not
  logged: `RestartExact` fails with `CapTwo` and SET and GET.
* An MSET that evicts one of its own keys and sets it again diverges on the replica,
  because evictions are sent after the command: with MSET among the commands of
  `ReplStream`, `InFlightFidelity` fails.
* `os.replace` (`aof.py:153`) without an fsync of the directory: with
  `RenameDurable = FALSE`, `AofAlways` violates `AckedIsDurable`. All else is proved
  under the assumption that the rename is durable.
* A SET with a lifetime is two records (`aof.py:56`): a crash between them leaves the key
  without a deadline.
* Replay brings an expired counter back. SET k with a lifetime, INCR k, the deadline
  passes, the sweep removes k and other keys take its room; a restart replays the INCR
  on the expired key and makes it a key without a deadline. Replay checks no memory
  (`aof.py:188` dispatches without `_handle_client`'s test), so with noeviction the live
  entries may exceed the cap by more than one command. `OvershootBounded` excepts it by
  `CountersLast` and fails without it in `NodeMemory` with SET with a lifetime and INCR
  of all three keys as the only commands, unit costs and `MaxLog = 5`: three live
  entries with a cap of one.
  The cause is that of `NodeLate`.
* A PERSIST, or an EXPIRE that extends, which reaches the replica after the old deadline
  finds no key there: with PERSIST in `DeadlineCommands`, `ReplTtl` violates
  `LiveKeysReplicated`. An INCR of a key that has expired on the primary and not on the
  replica leaves different values. The repository's README admits a drift of the
  lifetimes (line 230), not of the contents.
* An append that raises has changed the store but is not propagated (`server.py:418`): the
  primary shows a write that its replicas miss until the next resync.
* `ClusterClient.close()` raises RuntimeError ("dictionary changed size during
  iteration") when a request opens a pool while it waits, and leaves the idle connections of
  the pools it has not reached: in `ClosedForGood`, `closer.state = "raised"` in place of
  "returned" fails with three shards.
  `tests/integration_tests/test_hardening_integration.py:269` expects the connections
  of a closed client to be closed.
* A reused connection that breaks is retried even if the shard executed the command
  (`cluster.py:371`): an INCR may count twice.
* The same line catches the ProtocolError of a reply that is too large (`protocol.py:147`):
  a KEYS with more keys than `MAX_ARRAY_LENGTH` is executed by a shard that is well once
  for every idle connection and once on a new one before the error is raised.
  `NoBlindRetry` says what is left: a connection that could still bring the answer is
  never given up for another attempt, so a time-out is no reason to retry.
* `stop()` cancels `_aof_loop` while its thread is between clearing `_dirty` and the
  fsync; `close()` finds the flag clear, skips its own fsync and closes the file, and
  the thread's fsync fails. `StopSyncs` without `~orphaned` fails.
* A rewrite started after `stop()` has cancelled `_rewrite_task` is cancelled by nobody; its end
  reopens the file after `close()` (`RewriteEnds` after `StopEnds`).
* Connections in `wait_closed()` have left the counter: more than `maxclients`
  connections may be open (README line 191 says "maximum simultaneous connections").
* A cancellation that `wait_for` swallows (Python 3.11) leaves `stop()` waiting for a
  handler that goes on serving; `StopReturns` excepts it by `lost`.
* In Python 3.12 `serve_forever` itself awaits the end of all connections when it is
  cancelled, before `stop()` is called, and `wait_closed()` waits too. The model is that of 3.11.

## 4. Proofs

TLAPS checks the following for every value of the constants that satisfies the named
assumptions. Each proof has the same shape: an inductive invariant `IInv`, a lemma for
the initial states, one lemma per action (or per group of actions that do the same to
it), `Invariance`, and the theorems that follow from it.

### The append-only file

`AofLogProofs`, for any set of clients, any number of writes,
faults and crashes and every fsync policy:

| theorem | statement |
|---|---|
| `Invariance` | `Spec => []IInv` |
| `TypeCorrect` | `Spec => []TypeOK` |
| `AckedDurable` | if renames are durable, `Spec => []AckedIsDurable` |
| `LogRestoresStore` | `Spec => []LogMatchesStore` |
| `CleanIsSynced` | `Spec => []CleanMeansSynced` |
| `AofImplementsDurableStore` | if renames are durable, `Spec => ImplementsDurableStore` |

Assumptions: the constants' own (`TaskAssumption`, `PolicyAssumption`), and
`RenameDurable` for `AckedDurable` and `AofImplementsDurableStore`.

None of the three safety properties is inductive. That a waiting writer may be
acknowledged without an fsync of its own needs to know that the records up to
`_durable_seq` are synced; that an fsync covers `upto` needs to know that its
`inflight` contains the records up to `upto`; that a swap loses nothing needs to know
that snapshot and buffer together contain every record logged since the rewrite began,
except what a failed append left in the file object; and that a clear `_dirty` hides
nothing needs to follow the sync thread through test, clear and call, with an append
half done beside it. `IInv` is the conjunction of these facts, each a named definition
with a comment. The actions share `EnqueueKeeps`, `GrantedKeeps`, `LoggedGrows` and
`SwapKeeps`.

The refinement rests on `IInv` and on `NoShadow` (with durable renames only one inode
can come back): `LogInv` gives that what is acknowledged is in the store, that a kill
keeps the acknowledged part of it and that nothing else comes back; `DurableInv` gives that
a power loss keeps what was acknowledged. Every action of `Next` maps to one of
`DurableStore` or to a stuttering step, with one step of the proof each.

### Handlers and shutdown

`ServerTasksProofs`, for any connections, any `maxclients`, with and without a password, a
log or a primary, under `ServerAssumption`:

| theorem | statement |
|---|---|
| `TypeCorrect` | `Spec => []TypeOK` |
| `CounterExact` | `Spec => []CountExact` |
| `NobodyLeft` | `Spec => []StopDisconnects` |
| `CleanStop` | `Spec => []StopSyncs` |
| `AuthNeeded` | `Spec => AuthRequired` |

`GroupInv` is `CountExact` with the finiteness of the task set: the counter is a number and
the set a set, and only for finite sets does taking one handler out take one off.
`StopInv` is what makes `StopDisconnects` inductive: from the moment `stop()` waits for
handlers there are none but those it waits for, so that an accept cannot slip in
between the snapshot of the tasks and the end. `AuthInv` ties the flag of a session to its
latest AUTH. `SyncInv` follows a record that is not on disk: until `close()` `_dirty` is set, or the
sync thread has cleared it and has its fsync ahead, whether `_aof_loop` is still there or
not; `close()` coming in that window is the flag `orphaned`, and with it the promise ends.

### The connection pools

`ClusterPoolProofs`, for any requests, pipelines of any length, any shards
and pool size, under `PoolAssumption`:

| theorem | statement |
|---|---|
| `TypeCorrect` | `Spec => []TypeOK` |
| `RepliesOwn` | `Spec => []ReplyIsOwn` |
| `RetryNotBlind` | `Spec => []NoBlindRetry` |
| `ClosedAtEnd` | `Spec => []ClosedForGood` |
| `BoundedPools` | `Spec => []PoolBounded` |

`ReplyIsOwn` needs the whole invariant. A connection is idle in one pool or used by one
request, never both (`IdleInv`, `UseInv`); what is under way on an idle connection is
nothing, and on a used one it is exactly the rest of what the request has not read yet, in
order (`InOrder`, `ReplyInv`): so the next message read is the next one expected.
`SlotInv` counts: slots left, requests that hold one and idle connections make up
`pool_size`; `OpenInv` says that an open connection is idle or used, which turns the
count into `PoolBounded`. `DeadInv` says that a connection an earlier attempt used is
gone or spoilt. `CloseInv` follows `close()` along the dictionary. A retry gives a slot back and
takes one in one step, so the invariant is stated over values (`Inv(pcs, trs, gts, sl,
idl, cs)`) and the lemmas about values are applied one after the other, through
the state in between.

### The hash ring

`HashRingProofs`, for any nodes, number of virtual nodes and size of the hash space,
under `RingAssumption`:

| theorem | statement |
|---|---|
| `RingStaysConsistent` | `Spec => []RingConsistent` |
| `RoutingIsClockwise` | `Spec => []RoutesClockwise` |
| `OnlyOwnKeysMove` | `Spec => MovesOnlyOwnKeys` |

The invariant: the hashes are different (`HashInv`, from `Init`), `_sorted_hashes` is
strictly ascending and holds the points of the nodes added, and `_ring` gives every
point its node (`RingInv`). Below it are facts about sorted lists: bisect counts a
prefix, insort keeps the order and adds its argument, the deletion takes out its argument
and nothing else. The loops are induction over the virtual nodes. The library's induction
theorems take an operator, which the provers cannot instantiate; `Induction` here is
about a set (`0 \in S` and closed under `+ 1`), derived from the theorem on minimal
elements of well-founded relations, and instantiates at first order. `MovesOnlyOwnKeys`
needs that the nearest point of a key is unique.

### The store and the primary

`StoreProofs`, `StoreEffects` and `CacheNodeProofs`, for any finite set of keys, any
values, costs, options and set of well-formed commands, and any length of time and of the log:

| theorem | statement |
|---|---|
| `TypeCorrect` | `Spec => []TypeOK` |
| `MemoryAccounted` | `Spec => []MemoryAccounting` |
| `MemoryBounded` | `Spec => []MemoryBound` |
| `DeadlinesCovered` | `Spec => []HeapCoversDeadlines` |
| `ReadsHarmless` | `Spec => ReadsChangeNothing` |
| `WritesSurvive` | `Spec => WrittenKeySurvives` |
| `RestartsFaithful` | `Spec => []RestartFidelity` |
| `OvershootLimited` | `Spec => []OvershootBounded` |

Assumptions: `StoreAssumption` (finitely many keys, a positive cost for every value,
the range of integers contains 0), `NoneAssumption` (Python's None is neither an entry nor a number) and
`NodeAssumption` (the commands are in `CommandType`, the options are those `Store.__init__`
accepts).

Everything rests on `Good(s)`, the invariant of one store, which every public method and
every command preserves (`SetGood` to `DispatchGood`):

* `Sound`: the types; every entry has the cost of its value (`Costed`); the order lists
  exactly the keys that are there, each once (`Listed`); `used` is the sum of the sizes
  (`Accounted`). The parts need each other: removing a key takes its size off the sum
  only if the key is in the sum once, and eviction, which takes a prefix of the order,
  removes the sizes it has counted only because the prefix has no key twice.
* `Covered`: every deadline has its pair in the heap. A method that sets a deadline
  breaks this between `_put` and `_schedule`, so the lemmas speak of the keys that are
  covered: all but the one being written in between, all of them at the end. `_schedule`
  may rebuild the heap, and then it must do so from the entries as they are now.
* `Bounded`: the cap with allkeys-lru. It is a conjunct and not a consequence, because a
  sweep or a read has no eviction pass: they keep it because they only remove.

Each lemma also says what the method leaves alone (`Shows`: live keys keep their
entries), which is `ReadsChangeNothing`, and that the key written is live at the end,
which is `WrittenKeySurvives`: it is the last of the order, and the eviction pass never
takes the last. A restart makes the store from the log, so the invariant of the node has to say that
every record of the log, of a rewrite's snapshot and of its buffer is a command again
(`ToAofType`, `RewriteType`): a replay keeps the store good because of that, and whatever
the deadlines in the records are, passed ones included.

**What a restart brings back.** `RestartFidelity` says what replaying the log *now* would
show, and a restart may happen at any later time, so the invariant (`FidelityInv`)
quantifies over the time of the replay: `Tells(d, o, l, at)` is that replaying `l` at any
time from `at` on shows what is left of `d` at that time (`Faithful`), unless the log
goes on about a key after a deadline that has passed by then (`Touched`, the exception
`NodeLate` is about); and that the latest deadline the log gives a key is the one the
store has (`Dated`), without which the exception could not be carried through the next
command. The log tells of the store, and so does what a running rewrite will put in its
place, the snapshot's records followed by the buffer. `StoreEffects` supplies what the
steps need: the entry a command leaves for each key as a function of the entry before, in
a store that evicts nothing (`After`, `Assigned`), the same for a sequence of commands,
and that the records of a snapshot replayed on an empty store give its live entries.
A crash that loses records needs no argument of its own: the store after it is the
replay of what is left.

**Overshoot.** The bound is on the store, but a restart builds one without a memory check,
from a log that may have lost its end, and possibly long after it was written. `OverInv`
therefore bounds every store a restart could build: replaying any prefix of the log, now or
later, takes at most the cap and one command (`Capped`). A command that adds a record
passed the memory check on the real store and not on the replayed one; `Follow` relates
the two: a replay at a later time shows for each key nothing or what the store
has, and for a counter exactly what it has. That is where `CountersLast` is needed, and the
attempt to do without it gave the observation about expired counters above. The
records a rewrite puts in place only copy live entries, so every prefix of them is bounded
too. `Growth` is what one command can add (`WriteGrows`); for MSET it is what the command
leaves in an empty store, where a key named twice counts once.

Three things are induction, all through the first-order `Induction`: the sum over a
set of keys, on its cardinality (that the sum does not depend on the order in which
`MapThenSumSet` takes the keys is `SumAny`); `Without`, `DispatchMset`, `DispatchAll` and
`FlattenSeq`, on positions. For each recursive function it is first proved that a
function satisfying the recursion exists, since a definition by CHOOSE says nothing
otherwise.

### Replication

`ReplicationProofs`, for any commands, options and limit, and any number of writes,
breakdowns and ticks, under `ReplicationAssumption` and the assumptions on the store:

| theorem | statement |
|---|---|
| `TypeCorrect` | `Spec => []TypeOK` |
| `BacklogLimited` | `Spec => BacklogBounded` |
| `NothingLost` | if `AllStreamable`, `Spec => []InFlightFidelity` |
| `ReplicaOutlives` | if `AllRelayable`, `Spec /\ [][NeverPutOff]_vars => []LiveKeysReplicated` |

Both stores are `Good` (`StoresInv`); that the replica never evicts, and so never
diverges by a choice of its own, is a consequence of its having no cap. `LinkInv` is the
accounting of `_ReplicaLink`: `_pending` is the length of the queue, or one more between a
write and the end of its drain, and a link that is closed has neither. `Sent` is what
`send()` promises: the backlog does not grow, or it grows within the limit, or the link is
closed. A command that evicts sends several payloads, so `BacklogBounded` is proved by induction over
them (`PropagateSteps`, `PropagateKeeps`): a payload in the middle may close the link,
and the rest must then be dropped.

`NothingLost`: the replica's store after everything under way (`Arriving`, which
is `wire \o queue` applied to it) has the primary's contents while the link is up
(`FlowInv`). A command with its evictions reaches the queue completely or closes the link
(`PropagateAppends`), and the DELs sent for the evictions remove exactly what the
primary's store lost. `AllStreamable` says what the observations show to be necessary:
the commands give no deadlines (a lifetime counts from its arrival, so the two stores
differ), and MSET is left to a primary that never evicts,
because its DELs are sent after all of its pairs. The commands of `ReplStream`
satisfy it.

`ReplicaOutlives`: a lifetime starts again when it arrives, so with deadlines the stores
differ, and only in one direction: the replica keeps a key longer. The
invariant (`RelayInv`) says that every live key of the primary is vouched for (`Vouched`):
the replica has it and nothing under way takes it or shortens it (`Stays`), or a command
under way gives it and nothing behind that command takes it again (`Given`). Both parts
speak of deadlines no earlier than the primary's, whatever the time of arrival.
`AllRelayable` leaves out INCR and PERSIST, which act differently on a key that has
expired on the primary and not on the replica, and MSET with eviction;
`NeverPutOff` leaves out behaviours in which an EXPIRE moves the deadline of a live key to
a later time, and the observations show why. The commands of `ReplTtl` satisfy the first and
its behaviours the second.

### Only model-checked

Liveness (`CommitReturns`, `EverySecondSynced`, `EventuallyConsistent`, `RequestEnds`,
`SlowClientReleased`, `StopReturns`), which the prover does not support. Every invariant
and every safety action property of the passing runs is a theorem, under the hypotheses
named above.

## 5. Plan

Done: all the models, and the proofs of all safety properties of the passing runs. Open:
a primary whose log can fail in `Replication` (`server.py:418`), the one interaction of
two components that is described above and not modelled.

## 6. Not modelled

The RESP encoding (`protocol.py`: stateless, byte level; that `read_reply` refuses a reply is
in `ClusterPool`), the command line
(`__main__.py`), INFO and its counters, logging, `verify_cluster.py` and the benchmark
scripts, and how the cluster client assembles the results of several shards (pure, no
state across requests). On the server: a start that fails (a port in use, a damaged
log), and Python 3.12's `serve_forever`, described above.
