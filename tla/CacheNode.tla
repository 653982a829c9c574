----------------------------- MODULE CacheNode -----------------------------
(***************************************************************************)
(* A primary with an append-only file: the command loop of server.py       *)
(* (_handle_client from the memory check to commit), its background        *)
(* sweeper, the rewrite of the log and the restart that replays it.        *)
(*                                                                         *)
(* AofLog.tla models when a record is on disk; here a record is appended   *)
(* atomically and what matters is what the records say.                    *)
(***************************************************************************)
EXTENDS Commands

CONSTANTS
    Commands,       \* the commands clients send
    ServerOptions,  \* the memory options the server may be started with
    MaxNow,         \* bound: ticks of the clock
    MaxLog,         \* bound: no write is executed with a log this long
    MaxLost         \* bound: records a crash may cut off the end of the log

ASSUME NodeAssumption ==
    /\ Commands \subseteq CommandType
    /\ ServerOptions \subseteq Options /\ MaxNow \in Nat /\ MaxLog \in Nat /\ MaxLost \in Nat
    /\ None \notin Keys /\ Text # None

VARIABLES
    store,      \* Server.store
    log,        \* records of the append-only file
    now,        \* the clocks
    rewrite     \* None, or the running rewrite: snapshot records and buffer

vars == <<store, log, now, rewrite>>

OptionsOf(s) == [cap |-> s.cap, policy |-> s.policy]

-----------------------------------------------------------------------------
Logged(records) ==
    /\ log' = log \o records
    /\ rewrite' = IF rewrite = None THEN None
                  ELSE [rewrite EXCEPT !.buffer = @ \o records]

\* Mutant: MSET is the only command checked.
RefusedMsetOnly(c) ==
    /\ c.op = "MSET"
    /\ store.policy = "noeviction"
    /\ OverLimit(store)

\* _handle_client, the memory check: an OOM error and nothing else.
Refused(c) ==
    /\ c.op \in DenyOom
    /\ store.policy = "noeviction"
    /\ OverLimit(store)

\* What a command that has been dispatched adds to the log: its own records,
\* unless it is a SET that did nothing, and a DEL for every evicted key.
Records(c, r) ==
    LET own == IF c.op # "SET" \/ r.wrote THEN ToAof(c, now) ELSE <<>>
        del == [i \in 1..Len(r.store.evicted) |-> CmdDel(r.store.evicted[i])]
    IN  own \o del

\* A read, or a write that ends in an error: nothing is logged.
ExecuteRead(c) ==
    LET r == Dispatch(store, c, now)
    IN  /\ c.op \notin WriteCommands \/ ~r.ok
        /\ store' = r.store
        /\ UNCHANGED <<log, now, rewrite>>

ExecuteWrite(c) ==
    LET r == Dispatch(store, c, now)
    IN  /\ c.op \in WriteCommands
        /\ Len(log) < MaxLog
        /\ r.ok
        /\ store' = DrainEvictions(r.store)
        /\ Logged(Records(c, r))
        /\ UNCHANGED now

Execute(c) == ~Refused(c) /\ (ExecuteRead(c) \/ ExecuteWrite(c))

Refuse(c) == Refused(c) /\ UNCHANGED vars

\* _sweep_loop
SweepLoop ==
    /\ store' = Sweep(store, now)
    /\ UNCHANGED <<log, now, rewrite>>

Tick ==
    /\ now < MaxNow
    /\ now' = now + 1
    /\ UNCHANGED <<store, log, rewrite>>

-----------------------------------------------------------------------------
\* AOFLog.rewrite: the snapshot (which sweeps) and the end, when it and the
\* buffer replace the log.
RewriteBegin ==
    /\ rewrite = None
    /\ store' = Sweep(store, now)
    /\ rewrite' = [snapshot |-> RewriteCommands(store', now), buffer |-> <<>>]
    /\ UNCHANGED <<log, now>>

RewriteFinish ==
    /\ rewrite # None
    /\ log' = rewrite.snapshot \o rewrite.buffer
    /\ rewrite' = None
    /\ UNCHANGED <<store, now>>

RewriteFail ==
    /\ rewrite # None
    /\ rewrite' = None
    /\ UNCHANGED <<store, log, now>>

\* A stop or crash and the next start: the log, less the records a power loss
\* took with it, is replayed.
Restart ==
    \E lost \in 0..MaxLost :
        /\ lost <= Len(log)
        /\ log' = SubSeq(log, 1, Len(log) - lost)
        /\ store' = Replay(OptionsOf(store), log', now)
        /\ rewrite' = None
        /\ UNCHANGED now

-----------------------------------------------------------------------------
Init ==
    /\ \E options \in ServerOptions : store = Empty(options)
    /\ log = <<>>
    /\ now = 0
    /\ rewrite = None

Next ==
    \/ \E c \in Commands : Execute(c) \/ Refuse(c)
    \/ SweepLoop
    \/ Tick
    \/ RewriteBegin \/ RewriteFinish \/ RewriteFail
    \/ Restart

Spec == Init /\ [][Next]_vars
-----------------------------------------------------------------------------
TypeOK ==
    /\ \A k \in Keys : Has(store, k) =>
          /\ store.data[k].value \in Value
          /\ store.data[k].expireAt = None \/ store.data[k].expireAt \in Int
          /\ store.data[k].size = Cost(store.data[k].value)
    /\ \A i, j \in DOMAIN store.order : store.order[i] = store.order[j] => i = j
    /\ ToSet(store.order) = {k \in Keys : Has(store, k)}
    /\ store.heap \subseteq (Int \X Keys)
    /\ store.evicted = <<>> /\ OptionsOf(store) \in ServerOptions
    /\ now \in 0..MaxNow

\* What clients can read: live keys with their values and deadlines.
Visible(s) ==
    {<<k, s.data[k].value, s.data[k].expireAt>> : k \in {j \in Keys : Live(s, j, now)}}

\* What follows this record does not depend on what k was before.
Resets(c, k) ==
    \/ c.op \in {"SET", "DEL"} /\ c.key = k
    \/ c.op = "MSET" /\ \E i \in DOMAIN c.pairs : c.pairs[i][1] = k
    \/ c.op = "FLUSHDB"

\* A record of l gives k a deadline that has passed by now, and a later one
\* builds on that k: it may have been executed before the deadline.
TouchedAfterDeadline(l) ==
    \E i, j \in DOMAIN l :
        /\ i < j
        /\ l[i].op = "PEXPIREAT" /\ l[i].at <= now
        /\ l[j].op \in {"PEXPIREAT", "PERSIST", "INCR"} /\ l[j].key = l[i].key
        /\ \A m \in i + 1..j - 1 : ~Resets(l[m], l[i].key)

\* The store evicts by a use order that the log does not know: reads and
\* their order are not logged.
EvictsByUse == store.policy = "allkeys-lru" /\ store.cap > 0

(***************************************************************************)
(* Fidelity of the log: replaying it now gives clients exactly what they   *)
(* can read now (to_aof_commands, build_rewrite_commands, replay), while   *)
(* commands, sweeps, rewrites and restarts interleave.  Excepted are a log *)
(* that goes on about a key after a deadline that has since passed, and    *)
(* eviction by use.                                                        *)
(***************************************************************************)
RestartFidelity ==
    ~TouchedAfterDeadline(log) /\ ~EvictsByUse =>
        Visible(Replay(OptionsOf(store), log, now)) = Visible(store)

(***************************************************************************)
(* The README's words, "replay and replicas reproduce exactly what the     *)
(* primary did", without the exceptions.                                   *)
(***************************************************************************)
RestartExact == Visible(Replay(OptionsOf(store), log, now)) = Visible(store)

(***************************************************************************)
(* used_memory is the sum of the sizes of the entries, through overwrites, *)
(* in-place INCR, lazy expiry, sweeps, evictions and replay.               *)
(***************************************************************************)
MemoryAccounting == store.used = SizeOf(store, Keys)

(***************************************************************************)
(* allkeys-lru: the cap is respected after every command, unless a single  *)
(* entry alone exceeds it (_evict keeps the last one).                     *)
(***************************************************************************)
MemoryBound ==
    store.policy = "allkeys-lru" => ~OverLimit(store) \/ Len(store.order) <= 1

\* What a command can add to the memory in use; MSET, what it leaves in an
\* empty store.
Growth(c) ==
    CASE c.op = "MSET" -> DispatchMset(Empty([cap |-> 0, policy |-> "noeviction"]), c, 0).used
      [] c.op = "SET"  -> Cost(c.value)
      [] c.op = "INCR" -> Max({Cost(v) : v \in Value})
      [] OTHER         -> 0

\* No command gives a deadline to a key that another one counts: replayed after
\* the deadline, INCR would bring the key back.
CountersLast ==
    \A c, d \in Commands :
        /\ c.op = "INCR"
        /\ d.op \in {"EXPIRE", "PEXPIREAT"} \/ (d.op = "SET" /\ d.ttl # None)
        => d.key # c.key

(***************************************************************************)
(* noeviction: the cap may be overshot once, by the entries of one command *)
(* and no further write is accepted while the excess lasts, also after a   *)
(* restart, which checks no memory, and whatever records it has lost.      *)
(* What has expired does not count: replay brings it back until the next   *)
(* sweep.                                                                  *)
(***************************************************************************)
OvershootBounded ==
    (CountersLast /\ store.policy = "noeviction" /\ store.cap > 0) =>
        SizeOf(store, {k \in Keys : Live(store, k, now)})
            <= store.cap + Max({0} \cup {Growth(c) : c \in Commands})

(***************************************************************************)
(* The sweeper can find every key that will expire: its deadline is in the *)
(* heap, through refreshes, PERSIST, overwrites and rebuilds (_schedule,   *)
(* sweep_expired).  Without it a key never read again would never go.      *)
(***************************************************************************)
HeapCoversDeadlines == Deadlines(store) \subseteq store.heap

(***************************************************************************)
(* Only a write changes what clients can read: reads, the sweeper and the  *)
(* snapshot of a rewrite leave every live key as it is, however many stale *)
(* pairs of it the heap holds.                                             *)
(***************************************************************************)
ReadsChangeNothing ==
    [][SweepLoop \/ RewriteBegin \/ (\E c \in Commands : ExecuteRead(c))
         => \A k \in Keys : Live(store, k, now) => store'.data[k] = store.data[k]]_vars

(***************************************************************************)
(* A write survives its own eviction pass: the key that SET has just set   *)
(* or INCR has just counted is there when the reply is sent.               *)
(***************************************************************************)
WrittenKeySurvives ==
    [][\A c \in Commands :
         (c.op \in {"SET", "INCR"} /\ ExecuteWrite(c) /\ ~Refused(c)
            /\ Dispatch(store, c, now).wrote = (c.op = "SET"))
         => Live(store', c.key, now)]_vars
=============================================================================
