------------------------------ MODULE Commands ------------------------------
(***************************************************************************)
(* Commands (commands.py) and the forms in which they are logged (aof.py)  *)
(* and replicated (replication.py).                                        *)
(*                                                                         *)
(* A command is a record whose op is its name.  EXPIRE also stands for     *)
(* PEXPIRE, INCR for its three relatives, GET for MGET and EXISTS, KEYS    *)
(* for DBSIZE, PING for ECHO: they do the same to the store.  DEL has one  *)
(* key.  Commands the dispatcher refuses (arity, syntax) change nothing    *)
(* and are left out.                                                       *)
(***************************************************************************)
EXTENDS Store, SequencesExt

CmdSet(k, v, ttl, mode) == [op |-> "SET", key |-> k, value |-> v, ttl |-> ttl, mode |-> mode]
CmdMset(pairs)          == [op |-> "MSET", pairs |-> pairs]
CmdIncr(k, d)           == [op |-> "INCR", key |-> k, delta |-> d]
CmdDel(k)               == [op |-> "DEL", key |-> k]
CmdExpire(k, ttl)       == [op |-> "EXPIRE", key |-> k, ttl |-> ttl]
CmdPexpireat(k, at)     == [op |-> "PEXPIREAT", key |-> k, at |-> at]
CmdPersist(k)           == [op |-> "PERSIST", key |-> k]
CmdFlushdb              == [op |-> "FLUSHDB"]
CmdGet(k)               == [op |-> "GET", key |-> k]
CmdTtl(k)               == [op |-> "TTL", key |-> k]
CmdKeys                 == [op |-> "KEYS"]
CmdPing                 == [op |-> "PING"]

PlainSet(k, v) == CmdSet(k, v, None, "always")

\* Commands with arguments the parsers of commands.py let through: a lifetime
\* of SET is positive.
CommandType ==
    [op : {"SET"}, key : Keys, value : Value, ttl : (Nat \ {0}) \cup {None},
     mode : {"always", "NX", "XX"}]
    \cup [op : {"MSET"}, pairs : Seq(Keys \X Value)]
    \cup [op : {"INCR"}, key : Keys, delta : Int]
    \cup [op : {"EXPIRE"}, key : Keys, ttl : Int]
    \cup [op : {"PEXPIREAT"}, key : Keys, at : Int]
    \cup [op : {"DEL", "PERSIST", "GET", "TTL"}, key : Keys]
    \cup [op : {"FLUSHDB", "KEYS", "PING"}]

WriteCommands == {"SET", "MSET", "DEL", "INCR", "EXPIRE", "PEXPIREAT", "PERSIST", "FLUSHDB"}
DenyOom == {"SET", "MSET", "INCR"}

\* What dispatch() leaves: the store, whether the reply is not an error, and
\* whether a SET was carried out (Store.writes has moved).
Result(s, ok, wrote) == [store |-> s, ok |-> ok, wrote |-> wrote]

\* _cmd_set: exists() first, which also touches the key.
DispatchSet(s, c, now) ==
    LET t == Get(s, c.key, now)
        refused == \/ c.mode = "NX" /\ Has(t, c.key)
                   \/ c.mode = "XX" /\ ~Has(t, c.key)
    IN  IF refused THEN Result(t, TRUE, FALSE)
                   ELSE Result(Set(t, c.key, c.value, c.ttl, now), TRUE, TRUE)

\* _incr
DispatchIncr(s, c, now) ==
    LET r == Incr(s, c.key, c.delta, now) IN Result(r.store, r.ok, FALSE)

\* _cmd_mset: one set() after the other.
DispatchMset(s, c, now) ==
    LET after[i \in 0..Len(c.pairs)] ==
            IF i = 0 THEN s
            ELSE Set(after[i - 1], c.pairs[i][1], c.pairs[i][2], None, now)
    IN  after[Len(c.pairs)]

\* dispatch() and the handlers of commands that cannot fail.
Dispatch(s, c, now) ==
    CASE c.op = "SET"       -> DispatchSet(s, c, now)
      [] c.op = "INCR"      -> DispatchIncr(s, c, now)
      [] c.op = "MSET"      -> Result(DispatchMset(s, c, now), TRUE, FALSE)
      [] c.op = "DEL"       -> Result(Delete(s, c.key), TRUE, FALSE)
      [] c.op = "EXPIRE"    -> Result(Expire(s, c.key, now + c.ttl, now), TRUE, FALSE)
      [] c.op = "PEXPIREAT" -> Result(Expire(s, c.key, c.at, now), TRUE, FALSE)
      [] c.op = "PERSIST"   -> Result(Persist(s, c.key, now), TRUE, FALSE)
      [] c.op = "FLUSHDB"   -> Result(Flush(s), TRUE, FALSE)
      [] c.op = "GET"       -> Result(Get(s, c.key, now), TRUE, FALSE)
      [] c.op = "TTL"       -> Result(Ttl(s, c.key, now), TRUE, FALSE)
      [] c.op = "KEYS"      -> Result(Sweep(s, now), TRUE, FALSE)
      [] c.op = "PING"      -> Result(s, TRUE, FALSE)

-----------------------------------------------------------------------------
\* Mutant: a SET with a lifetime is logged without its deadline.
ToAofForgettingTtl(c, now) ==
    CASE c.op = "SET"    -> <<PlainSet(c.key, c.value)>>
      [] c.op = "EXPIRE" -> <<CmdPexpireat(c.key, now + c.ttl)>>
      [] OTHER           -> <<c>>

\* to_aof_commands: options dropped, lifetimes turned into deadlines.
ToAof(c, now) ==
    CASE c.op = "SET" /\ c.ttl = None -> <<PlainSet(c.key, c.value)>>
      [] c.op = "SET" /\ c.ttl # None -> <<PlainSet(c.key, c.value),
                                           CmdPexpireat(c.key, now + c.ttl)>>
      [] c.op = "EXPIRE"              -> <<CmdPexpireat(c.key, now + c.ttl)>>
      [] OTHER                        -> <<c>>

\* build_rewrite_commands
RewriteCommands(s, now) ==
    LET restore(e) == IF e.expireAt = None
                      THEN <<PlainSet(e.key, e.value)>>
                      ELSE <<PlainSet(e.key, e.value), CmdPexpireat(e.key, e.expireAt)>>
        entries == Snapshot(s, now)
    IN  FlattenSeq([i \in 1..Len(entries) |-> restore(entries[i])])

\* Mutant: a SET is sent without its lifetime.
ToReplicationForgettingTtl(c) ==
    IF c.op = "SET" THEN PlainSet(c.key, c.value) ELSE c

\* to_replication_command: options dropped, the lifetime stays relative.
ToReplication(c) ==
    IF c.op = "SET" THEN CmdSet(c.key, c.value, c.ttl, "always") ELSE c

\* build_snapshot_commands: a lifetime in whole ticks, rounded up past the end.
SnapshotCommands(s, now) ==
    LET restore(e) == IF e.expireAt = None
                      THEN <<PlainSet(e.key, e.value)>>
                      ELSE <<PlainSet(e.key, e.value),
                             CmdExpire(e.key, e.expireAt - now + 1)>>
        entries == Snapshot(s, now)
    IN  FlattenSeq([i \in 1..Len(entries) |-> restore(entries[i])])

\* A store after a sequence of commands.
DispatchAll(s, commands, now) ==
    LET after[i \in 0..Len(commands)] ==
            IF i = 0 THEN s ELSE Dispatch(after[i - 1], commands[i], now).store
    IN  after[Len(commands)]

\* AOFLog.replay: every record is dispatched, evictions are not logged again.
Replay(options, commands, now) ==
    DrainEvictions(DispatchAll(Empty(options), commands, now))
=============================================================================
