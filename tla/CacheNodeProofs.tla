-------------------------- MODULE CacheNodeProofs --------------------------
(***************************************************************************)
(* Proofs about CacheNode, for any keys, values, commands, memory options, *)
(* and any length of time and log: the memory accounting and the cap, the  *)
(* coverage of deadlines by the heap, what reads and writes leave, what a  *)
(* replay of the log gives back and how much it can bring, all through     *)
(* commands, sweeps, rewrites and restarts.                                *)
(***************************************************************************)
EXTENDS CacheNode, StoreEffects

(***************************************************************************)
(* The inductive invariant.  A restart builds the store from the log, and  *)
(* a rewrite builds the log from its snapshot and its buffer: the records  *)
(* of all three must be commands, or nothing is known of what is replayed. *)
(***************************************************************************)
StoreInv == Good(store) /\ store.evicted = <<>> /\ OptionsOf(store) \in ServerOptions

Rewriting == [snapshot : Seq(CommandType), buffer : Seq(CommandType)]

LogInv ==
    /\ log \in Seq(CommandType)
    /\ rewrite = None \/ rewrite \in Rewriting

IInv == StoreInv /\ LogInv /\ now \in 0..MaxNow

-----------------------------------------------------------------------------
LEMMA OptionsKept ==
    ASSUME StoreInv, NEW t, Good(t), SameOptions(t, store), t.evicted = <<>>, store' = t
    PROVE  StoreInv'
BY DEF StoreInv, SameOptions, OptionsOf

LEMMA NowInt == ASSUME IInv PROVE now \in Int
BY NodeAssumption DEF IInv

LEMMA InitIInv == Init => IInv
<1> SUFFICES ASSUME Init
             PROVE  IInv
  OBVIOUS
<1>1. PICK options \in ServerOptions : store = Empty(options)
  BY DEF Init
<1>2. options \in Options
  BY NodeAssumption
<1>3. /\ Good(store) /\ store.evicted = <<>>
      /\ store.cap = options.cap /\ store.policy = options.policy
  BY <1>1, <1>2, NewStoreGood
<1>4. OptionsOf(store) = options
  BY <1>2, <1>3 DEF OptionsOf, Options
<1>5. StoreInv
  BY <1>3, <1>4 DEF StoreInv
<1>6. LogInv
  BY DEF Init, LogInv
<1>7. now \in 0..MaxNow
  BY NodeAssumption DEF Init
<1> QED
  BY <1>5, <1>6, <1>7 DEF IInv

LEMMA ReadKeeps ==
    ASSUME IInv, NEW c \in Commands, ExecuteRead(c)
    PROVE  IInv' /\ Shows(store', store, now)
<1> DEFINE r == Dispatch(store, c, now)
<1>0. c \in CommandType /\ now \in Int /\ Good(store)
  BY NodeAssumption, NowInt DEF IInv, StoreInv
<1>1. /\ Reached(r.store, store) /\ r.ok \in BOOLEAN
      /\ c.op \notin WriteCommands \/ ~r.ok => Harmless(r.store, store, now)
      /\ (c.op = "SET" /\ r.wrote) \/ (c.op = "INCR" /\ r.ok) => Live(r.store, c.key, now)
  BY <1>0, DispatchGood
<1>2. /\ c.op \notin WriteCommands \/ ~r.ok
      /\ store' = r.store
      /\ UNCHANGED <<log, now, rewrite>>
  BY DEF ExecuteRead
<1> HIDE DEF r
<1>3. StoreInv'
  BY <1>1, <1>2, OptionsKept DEF IInv, StoreInv, Reached, Harmless
<1>4. LogInv' /\ (now \in 0..MaxNow)'
  BY <1>2 DEF IInv, LogInv
<1> QED
  BY <1>1, <1>2, <1>3, <1>4 DEF IInv, Harmless

LEMMA LoggedKeeps ==
    ASSUME LogInv, NEW records \in Seq(CommandType), Logged(records)
    PROVE  LogInv'
<1>1. log' \in Seq(CommandType)
  BY DEF LogInv, Logged
<1>2. CASE rewrite = None
  BY <1>1, <1>2 DEF LogInv, Logged
<1>3. CASE rewrite # None
  <2>1. rewrite \in Rewriting
    BY <1>3 DEF LogInv
  <2>2. rewrite.buffer \in Seq(CommandType)
    BY <2>1 DEF Rewriting
  <2>3. rewrite.buffer \o records \in Seq(CommandType)
    BY <2>2
  <2>4. rewrite' = [rewrite EXCEPT !.buffer = rewrite.buffer \o records]
    BY <1>3 DEF Logged
  <2>5. rewrite' \in Rewriting
    BY <2>1, <2>3, <2>4 DEF Rewriting
  <2> QED
    BY <1>1, <2>5 DEF LogInv
<1> QED
  BY <1>2, <1>3

LEMMA RecordsType ==
    ASSUME NEW c \in CommandType, now \in Int, NEW r, r.store.evicted \in Seq(Keys)
    PROVE  Records(c, r) \in Seq(CommandType)
<1> DEFINE own == IF c.op # "SET" \/ r.wrote THEN ToAof(c, now) ELSE <<>>
           del == [i \in 1..Len(r.store.evicted) |-> CmdDel(r.store.evicted[i])]
<1>1. ToAof(c, now) \in Seq(CommandType) /\ <<>> \in Seq(CommandType)
  BY ToAofType
<1>2. own \in Seq(CommandType)
  BY <1>1
<1>3. \A i \in 1..Len(r.store.evicted) : CmdDel(r.store.evicted[i]) \in CommandType
  BY CommandTypes
<1>4. del \in Seq(CommandType)
  BY <1>3
<1> HIDE DEF own, del
<1>5. own \o del \in Seq(CommandType)
  BY <1>2, <1>4
<1> QED
  BY <1>5 DEF Records, own, del

LEMMA WriteKeeps ==
    ASSUME IInv, NEW c \in Commands, ExecuteWrite(c)
    PROVE  /\ IInv'
           /\ (c.op = "SET" /\ Dispatch(store, c, now).wrote) \/ c.op = "INCR" =>
                 Live(store', c.key, now)
<1> DEFINE r == Dispatch(store, c, now)
<1>0. c \in CommandType /\ now \in Int /\ Good(store)
  BY NodeAssumption, NowInt DEF IInv, StoreInv
<1>1. /\ Reached(r.store, store) /\ r.ok \in BOOLEAN
      /\ c.op \notin WriteCommands \/ ~r.ok => Harmless(r.store, store, now)
      /\ (c.op = "SET" /\ r.wrote) \/ (c.op = "INCR" /\ r.ok) => Live(r.store, c.key, now)
  BY <1>0, DispatchGood
<1>2. /\ r.ok
      /\ store' = DrainEvictions(r.store)
      /\ Logged(Records(c, r))
      /\ UNCHANGED now
  BY DEF ExecuteWrite
<1> HIDE DEF r
<1>3. Good(r.store) /\ SameOptions(r.store, store)
  BY <1>1 DEF Reached
<1>4. Good(store') /\ SameOptions(store', r.store) /\ store'.data = r.store.data /\ store'.evicted = <<>>
  BY <1>2, <1>3, DrainGood
<1>5. StoreInv'
  <2>1. SameOptions(store', store)
    BY <1>3, <1>4 DEF SameOptions
  <2> QED
    BY <1>4, <2>1 DEF IInv, StoreInv, SameOptions, OptionsOf
<1>6. Records(c, r) \in Seq(CommandType)
  <2>1. r.store.evicted \in Seq(Keys)
    BY <1>3 DEF Good, Sound, StoreType
  <2> QED
    BY <1>0, <2>1, RecordsType
<1>7. LogInv'
  BY <1>2, <1>6, LoggedKeeps DEF IInv
<1>8. (c.op = "SET" /\ r.wrote) \/ c.op = "INCR" => Live(store', c.key, now)
  BY <1>1, <1>2, <1>4 DEF Live, Has
<1> QED
  BY <1>2, <1>5, <1>7, <1>8 DEF IInv, r

LEMMA SweepKeeps ==
    ASSUME IInv, store' = Sweep(store, now)
    PROVE  StoreInv' /\ Shows(store', store, now)
<1>0. now \in Int /\ Good(store)
  BY NowInt DEF IInv, StoreInv
<1>1. Good(store') /\ SameOptions(store', store) /\ Shows(store', store, now) /\ store'.evicted = store.evicted
  BY <1>0, SweepGood
<1> QED
  BY <1>1 DEF IInv, StoreInv, SameOptions, OptionsOf

LEMMA SweepLoopKeeps ==
    ASSUME IInv, SweepLoop
    PROVE  IInv' /\ Shows(store', store, now)
<1>1. StoreInv' /\ Shows(store', store, now)
  BY SweepKeeps DEF SweepLoop
<1> QED
  BY <1>1 DEF SweepLoop, IInv, LogInv

LEMMA RewriteBeginKeeps ==
    ASSUME IInv, RewriteBegin
    PROVE  IInv' /\ Shows(store', store, now)
<1>1. StoreInv' /\ Shows(store', store, now)
  BY SweepKeeps DEF RewriteBegin
<1>2. RewriteCommands(store', now) \in Seq(CommandType) /\ <<>> \in Seq(CommandType)
  BY <1>1, NowInt, RewriteType DEF StoreInv
<1>3. rewrite' \in Rewriting
  BY <1>2 DEF RewriteBegin, Rewriting
<1> QED
  BY <1>1, <1>3 DEF RewriteBegin, IInv, LogInv

LEMMA RewriteEndKeeps ==
    ASSUME IInv, RewriteFinish \/ RewriteFail
    PROVE  IInv'
<1>1. rewrite \in Rewriting
  BY DEF RewriteFinish, RewriteFail, IInv, LogInv
<1>2. rewrite.snapshot \o rewrite.buffer \in Seq(CommandType)
  <2>1. rewrite.snapshot \in Seq(CommandType) /\ rewrite.buffer \in Seq(CommandType)
    BY <1>1 DEF Rewriting
  <2> QED
    BY <2>1
<1>3. LogInv' /\ UNCHANGED <<store, now>>
  BY <1>2 DEF RewriteFinish, RewriteFail, IInv, LogInv
<1> QED
  BY <1>3 DEF IInv, StoreInv, OptionsOf

LEMMA RestartKeeps ==
    ASSUME IInv, Restart
    PROVE  IInv'
<1>1. PICK lost \in 0..MaxLost :
        /\ lost <= Len(log)
        /\ log' = SubSeq(log, 1, Len(log) - lost)
        /\ store' = Replay(OptionsOf(store), log', now)
        /\ rewrite' = None
        /\ UNCHANGED now
  BY DEF Restart
<1>2. log' \in Seq(CommandType)
  <2>1. lost \in Nat /\ log \in Seq(CommandType) /\ Len(log) \in Nat
    BY NodeAssumption DEF IInv, LogInv
  <2>2. Len(log) - lost \in Nat /\ Len(log) - lost <= Len(log)
    BY <1>1, <2>1
  <2> DEFINE n == Len(log) - lost
  <2>3. SubSeq(log, 1, n) \in Seq(CommandType)
    <3>1. \A i \in 1..n : log[i] \in CommandType
      BY <2>1, <2>2
    <3>2. n \in Nat /\ n <= Len(log)
      BY <2>2
    <3> HIDE DEF n
    <3> QED
      BY <2>1, <3>1, <3>2
  <2> QED
    BY <1>1, <2>3
<1>3. OptionsOf(store) \in Options /\ OptionsOf(store) \in ServerOptions /\ now \in Int
  BY NodeAssumption, NowInt DEF IInv, StoreInv
<1>4. /\ Good(store') /\ store'.evicted = <<>>
      /\ store'.cap = OptionsOf(store).cap /\ store'.policy = OptionsOf(store).policy
  <2> DEFINE o == OptionsOf(store)
             l == log'
             s == store'
  <2>1. o \in Options /\ l \in Seq(CommandType) /\ now \in Int /\ s = Replay(o, l, now)
    BY <1>1, <1>2, <1>3
  <2> HIDE DEF o, l, s
  <2>2. Good(s) /\ s.evicted = <<>> /\ s.cap = o.cap /\ s.policy = o.policy
    BY <2>1, ReplayGood
  <2> QED
    BY <2>2 DEF o, s
<1>5. OptionsOf(store)' = OptionsOf(store)
  BY <1>4 DEF OptionsOf
<1>6. StoreInv'
  BY <1>3, <1>4, <1>5 DEF StoreInv
<1> QED
  BY <1>1, <1>2, <1>6 DEF IInv, LogInv

LEMMA NextIInv == IInv /\ [Next]_vars => IInv'
<1> SUFFICES ASSUME IInv, [Next]_vars
             PROVE  IInv'
  OBVIOUS
<1>1. CASE UNCHANGED vars
  BY <1>1 DEF vars, IInv, StoreInv, LogInv, OptionsOf
<1>2. ASSUME NEW c \in Commands, Execute(c) \/ Refuse(c)
      PROVE  IInv'
  <2>1. CASE ExecuteRead(c)
    BY <2>1, ReadKeeps
  <2>2. CASE ExecuteWrite(c)
    BY <2>2, WriteKeeps
  <2>3. CASE Refuse(c)
    BY <2>3 DEF Refuse, vars, IInv, StoreInv, LogInv, OptionsOf
  <2> QED
    BY <1>2, <2>1, <2>2, <2>3 DEF Execute
<1>3. CASE SweepLoop
  BY <1>3, SweepLoopKeeps
<1>4. CASE Tick
  BY <1>4, NodeAssumption DEF Tick, IInv, StoreInv, LogInv, OptionsOf
<1>5. CASE RewriteBegin
  BY <1>5, RewriteBeginKeeps
<1>6. CASE RewriteFinish \/ RewriteFail
  BY <1>6, RewriteEndKeeps
<1>7. CASE Restart
  BY <1>7, RestartKeeps
<1> QED
  BY <1>1, <1>2, <1>3, <1>4, <1>5, <1>6, <1>7 DEF Next

\* The inductive invariant holds in every reachable state.
THEOREM Invariance == Spec => []IInv
BY InitIInv, NextIInv, PTL DEF Spec

-----------------------------------------------------------------------------
(***************************************************************************)
(* Entries, order, heap and clock keep their types, and the order lists    *)
(* exactly the keys that are there, each once (the OrderedDict of Store).  *)
(***************************************************************************)
THEOREM TypeCorrect == Spec => []TypeOK
<1>1. IInv => TypeOK
  <2> SUFFICES ASSUME IInv
               PROVE  TypeOK
    OBVIOUS
  <2>1. /\ store \in StoreType /\ Costed(store) /\ Listed(store) /\ store.evicted = <<>>
        /\ OptionsOf(store) \in ServerOptions /\ now \in 0..MaxNow
    BY DEF IInv, StoreInv, Good, Sound
  <2>2. store.data \in DataType /\ store.order \in Seq(Keys) /\ store.heap \subseteq (Int \X Keys)
    BY <2>1 DEF StoreType
  <2>3. ASSUME NEW k \in Keys, Has(store, k)
        PROVE  /\ store.data[k].value \in Value
               /\ store.data[k].expireAt = None \/ store.data[k].expireAt \in Int
               /\ store.data[k].size = Cost(store.data[k].value)
    <3>1. store.data[k] \in Entry
      BY <2>2, <2>3 DEF DataType, Has
    <3> QED
      BY <2>1, <2>3, <3>1 DEF Entry, Costed
  <2>4. DOMAIN store.order = 1..Len(store.order)
    BY <2>2
  <2>5. \A i, j \in DOMAIN store.order : store.order[i] = store.order[j] => i = j
    BY <2>1, <2>4 DEF Listed, Distinct
  <2>6. ToSet(store.order) = {k \in Keys : Has(store, k)}
    <3>1. ASSUME NEW i \in 1..Len(store.order)
          PROVE  store.order[i] \in Keys /\ In(store.order, store.order[i])
      BY <2>2 DEF In
    <3>2. \A i \in 1..Len(store.order) : store.order[i] \in Keys /\ Has(store, store.order[i])
      BY <2>1, <3>1 DEF Listed
    <3>3. \A k \in Keys : Has(store, k) => \E i \in 1..Len(store.order) : store.order[i] = k
      BY <2>1 DEF Listed, In
    <3> QED
      BY <2>4, <3>2, <3>3 DEF ToSet
  <2> QED
    BY <2>1, <2>2, <2>3, <2>5, <2>6 DEF TypeOK
<1> QED
  BY <1>1, Invariance, PTL

(***************************************************************************)
(* used_memory is exactly the sum of the sizes of the entries, whatever is *)
(* overwritten, counted, expired, evicted or replayed (_put, _remove).     *)
(***************************************************************************)
THEOREM MemoryAccounted == Spec => []MemoryAccounting
<1>1. IInv => MemoryAccounting
  BY DEF IInv, StoreInv, Good, Sound, Accounted, MemoryAccounting
<1> QED
  BY <1>1, Invariance, PTL

(***************************************************************************)
(* With allkeys-lru the memory in use is within maxmemory after every      *)
(* command and every replay, or one entry is left (_evict).                *)
(***************************************************************************)
THEOREM MemoryBounded == Spec => []MemoryBound
<1>1. IInv => MemoryBound
  BY DEF IInv, StoreInv, Good, Bounded, MemoryBound
<1> QED
  BY <1>1, Invariance, PTL

(***************************************************************************)
(* Every deadline is in the heap, so the sweeper finds every key that is   *)
(* to expire (_schedule with its rebuild, sweep_expired).                  *)
(***************************************************************************)
THEOREM DeadlinesCovered == Spec => []HeapCoversDeadlines
<1>1. IInv => HeapCoversDeadlines
  BY DEF IInv, StoreInv, Good, Covered, HeapCoversDeadlines, Deadlines
<1> QED
  BY <1>1, Invariance, PTL

(***************************************************************************)
(* Reads, failed commands, the sweeper and the snapshot of a rewrite leave *)
(* every live key as it is, whatever stale pairs the heap holds (get, ttl, *)
(* sweep_expired, snapshot).                                               *)
(***************************************************************************)
THEOREM ReadsHarmless == Spec => ReadsChangeNothing
<1> DEFINE A == SweepLoop \/ RewriteBegin \/ (\E c \in Commands : ExecuteRead(c))
                  => \A k \in Keys : Live(store, k, now) => store'.data[k] = store.data[k]
<1>1. IInv /\ [Next]_vars => [A]_vars
  <2> SUFFICES ASSUME IInv, SweepLoop \/ RewriteBegin \/ (\E c \in Commands : ExecuteRead(c)),
                      NEW k \in Keys, Live(store, k, now)
               PROVE  store'.data[k] = store.data[k]
    OBVIOUS
  <2>1. Shows(store', store, now)
    BY SweepLoopKeeps, RewriteBeginKeeps, ReadKeeps
  <2> QED
    BY <2>1 DEF Shows
<1>2. Spec => [][A]_vars
  BY <1>1, Invariance, PTL DEF Spec
<1> QED
  BY <1>2 DEF ReadsChangeNothing

(***************************************************************************)
(* The key a SET has set or an INCR has counted is live when the command   *)
(* is done: its own eviction pass does not take it (set, incr, _evict).    *)
(***************************************************************************)
THEOREM WritesSurvive == Spec => WrittenKeySurvives
<1> DEFINE A == \A c \in Commands :
                  (c.op \in {"SET", "INCR"} /\ ExecuteWrite(c) /\ ~Refused(c)
                     /\ Dispatch(store, c, now).wrote = (c.op = "SET"))
                  => Live(store', c.key, now)
<1>1. IInv /\ [Next]_vars => [A]_vars
  <2> SUFFICES ASSUME IInv, NEW c \in Commands, c.op \in {"SET", "INCR"}, ExecuteWrite(c),
                      Dispatch(store, c, now).wrote = (c.op = "SET")
               PROVE  Live(store', c.key, now)
    OBVIOUS
  <2>1. (c.op = "SET" /\ Dispatch(store, c, now).wrote) \/ c.op = "INCR" => Live(store', c.key, now)
    BY WriteKeeps
  <2> QED
    BY <2>1
<1>2. Spec => [][A]_vars
  BY <1>1, Invariance, PTL DEF Spec
<1> QED
  BY <1>2 DEF WrittenKeySurvives

-----------------------------------------------------------------------------
(***************************************************************************)
(* What a log tells.  RestartFidelity speaks of a replay at this moment;   *)
(* the invariant must speak of a replay at any later one, because a record *)
(* appended now will be replayed then, and the deadlines in between have   *)
(* passed for the log and not for the store it was written by.             *)
(***************************************************************************)
\* The forms in which to_aof_commands and build_rewrite_commands write.
Recorded ==
    {c \in CommandType :
        /\ c.op \in {"SET", "MSET", "INCR", "DEL", "PEXPIREAT", "PERSIST", "FLUSHDB"}
        /\ c.op = "SET" => c.ttl = None /\ c.mode = "always"}

Building == {"PEXPIREAT", "PERSIST", "INCR"}

\* TouchedAfterDeadline, at the time n.
Touched(l, n) ==
    \E i, j \in 1..Len(l) :
        /\ i < j
        /\ l[i].op = "PEXPIREAT" /\ l[i].at <= n
        /\ l[j].op \in Building /\ l[j].key = l[i].key
        /\ \A m \in i + 1..j - 1 : ~Resets(l[m], l[i].key)

\* The last deadline l gives k is at, if k is there.
Dates(l, k, at) ==
    \E i \in 1..Len(l) :
        /\ l[i].op = "PEXPIREAT" /\ l[i].key = k /\ l[i].at = at
        /\ \A m \in i + 1..Len(l) : ~Resets(l[m], k)

Dated(d, l) == \A k \in Keys : d[k] # None /\ d[k].expireAt # None => Dates(l, k, d[k].expireAt)

\* Replaying l at the time n shows what is left of d then.
ShowsAt(d, o, l, n) ==
    \A k \in Keys : Fresh(DispatchAll(Empty(o), l, n).data[k], n) = Fresh(d[k], n)

Faithful(d, o, l, at) == \A n \in Int : n >= at /\ ~Touched(l, n) => ShowsAt(d, o, l, n)

Tells(d, o, l, at) == l \in Seq(Recorded) /\ Dated(d, l) /\ Faithful(d, o, l, at)

-----------------------------------------------------------------------------
LEMMA RecordedCommands == \A l \in Seq(Recorded) : l \in Seq(CommandType)
<1>1. Recorded \subseteq CommandType
  BY DEF Recorded
<1> QED
  BY <1>1

LEMMA TouchedGrows ==
    ASSUME NEW l \in Seq(Recorded), NEW c \in Recorded, NEW n, Touched(l, n)
    PROVE  Touched(Append(l, c), n)
<1> DEFINE p == Append(l, c)
<1>1. Len(l) \in Nat /\ Len(p) = Len(l) + 1 /\ \A i \in 1..Len(l) : p[i] = l[i]
  OBVIOUS
<1>2. PICK i \in 1..Len(l), j \in 1..Len(l) :
        /\ i < j
        /\ l[i].op = "PEXPIREAT" /\ l[i].at <= n
        /\ l[j].op \in Building /\ l[j].key = l[i].key
        /\ \A m \in i + 1..j - 1 : ~Resets(l[m], l[i].key)
  BY DEF Touched
<1> HIDE DEF p
<1>3. i \in 1..Len(p) /\ j \in 1..Len(p) /\ p[i] = l[i] /\ p[j] = l[j]
  BY <1>1
<1>4. \A m \in i + 1..j - 1 : m \in 1..Len(l)
  BY <1>1
<1>5. \A m \in i + 1..j - 1 : ~Resets(p[m], p[i].key)
  BY <1>1, <1>2, <1>3, <1>4
<1>6. Touched(p, n)
  BY <1>2, <1>3, <1>5 DEF Touched
<1> QED
  BY <1>6 DEF p

\* A record that builds on a key whose deadline has passed by n.
LEMMA TouchedNow ==
    ASSUME NEW l \in Seq(Recorded), NEW c \in Recorded, NEW n, NEW k, NEW at, Dates(l, k, at),
           at <= n, c.op \in Building, c.key = k
    PROVE  Touched(Append(l, c), n)
<1> DEFINE p == Append(l, c)
           j == Len(l) + 1
<1>1. Len(l) \in Nat /\ Len(p) = j /\ p[j] = c /\ \A i \in 1..Len(l) : p[i] = l[i]
  OBVIOUS
<1>2. PICK i \in 1..Len(l) : /\ l[i].op = "PEXPIREAT" /\ l[i].key = k /\ l[i].at = at
                             /\ \A m \in i + 1..Len(l) : ~Resets(l[m], k)
  BY DEF Dates
<1> HIDE DEF p
<1>3. i \in 1..Len(p) /\ j \in 1..Len(p) /\ i < j /\ p[i] = l[i]
  BY <1>1
<1>4. \A m \in i + 1..j - 1 : m \in 1..Len(l) /\ m \in i + 1..Len(l)
  BY <1>1
<1>5. \A m \in i + 1..j - 1 : ~Resets(p[m], p[i].key)
  BY <1>1, <1>2, <1>3, <1>4
<1> HIDE DEF j
<1>6. Touched(p, n)
  BY <1>1, <1>2, <1>3, <1>5 DEF Touched
<1> QED
  BY <1>6 DEF p

LEMMA DatesKept ==
    ASSUME NEW l \in Seq(Recorded), NEW c \in Recorded, NEW k, NEW at, Dates(l, k, at), ~Resets(c, k)
    PROVE  Dates(Append(l, c), k, at)
<1> DEFINE p == Append(l, c)
           j == Len(l) + 1
<1>1. Len(l) \in Nat /\ Len(p) = j /\ p[j] = c /\ \A i \in 1..Len(l) : p[i] = l[i]
  OBVIOUS
<1>2. PICK i \in 1..Len(l) : /\ l[i].op = "PEXPIREAT" /\ l[i].key = k /\ l[i].at = at
                             /\ \A m \in i + 1..Len(l) : ~Resets(l[m], k)
  BY DEF Dates
<1> HIDE DEF p
<1>3. i \in 1..Len(p) /\ p[i] = l[i]
  BY <1>1
<1>4. \A m \in i + 1..j : (m \in 1..Len(l) /\ m \in i + 1..Len(l)) \/ m = j
  BY <1>1
<1>5. \A m \in i + 1..Len(p) : ~Resets(p[m], k)
  BY <1>1, <1>2, <1>4
<1>6. Dates(p, k, at)
  BY <1>2, <1>3, <1>5 DEF Dates
<1> QED
  BY <1>6 DEF p

LEMMA DatesNew ==
    ASSUME NEW l \in Seq(Recorded), NEW c \in Recorded, c.op = "PEXPIREAT"
    PROVE  Dates(Append(l, c), c.key, c.at)
<1> DEFINE p == Append(l, c)
           j == Len(l) + 1
<1>1. Len(l) \in Nat /\ Len(p) = j /\ p[j] = c
  OBVIOUS
<1> HIDE DEF p
<1>2. j \in 1..Len(p) /\ \A m \in j + 1..Len(p) : FALSE
  BY <1>1
<1>3. Dates(p, c.key, c.at)
  BY <1>1, <1>2 DEF Dates
<1> QED
  BY <1>3 DEF p

\* One record, for one key: e is its entry in the store, x in a replay at n.
LEMMA EntryStep ==
    ASSUME NEW e, NEW x, NEW c \in Recorded, NEW k, NEW at, NEW n,
           NEW d, NEW y, Becomes(d, e, c, k, at), Becomes(y, x, c, k, n),
           Fresh(x, n) = Fresh(e, n),
           c.op \in Building /\ c.key = k => Fresh(e, at) = Fresh(e, n)
    PROVE  Fresh(y, n) = Fresh(d, n)
<1>0. c \in CommandType /\ Absolute(c)
  BY DEF Recorded, Absolute
<1>1. CASE c.op \in Keyed /\ c.key # k
  BY <1>1 DEF Becomes
<1>2. CASE c.op \in Building /\ c.key = k
  <2>1. c.op \in Keyed
    BY <1>2 DEF Keyed, Building
  <2>2. d = After(e, c, at) /\ y = After(x, c, n)
    BY <1>2, <2>1 DEF Becomes
  <2>3. Fresh(e, at) = Fresh(x, n)
    BY <1>2
  <2>4. d = y
    BY <1>0, <2>1, <2>2, <2>3, SameAfter
  <2> QED
    BY <2>4
<1>3. CASE c.op \in {"SET", "DEL"} /\ c.key = k
  <2>1. c.op \in Keyed
    BY <1>3 DEF Keyed
  <2>2. d = After(e, c, at) /\ y = After(x, c, n)
    BY <1>3, <2>1 DEF Becomes
  <2>3. CASE c.op = "DEL"
    BY <2>2, <2>3 DEF After
  <2>4. CASE c.op = "SET"
    BY <2>2, <2>4 DEF After, SetRefused, Recorded
  <2> QED
    BY <1>3, <2>3, <2>4
<1>4. CASE c.op = "MSET"
  <2>1. c.pairs \in Seq(Keys \X Value)
    BY <1>0, <1>4 DEF CommandType
  <2>2. Assigned(d, e, c.pairs, k) /\ Assigned(y, x, c.pairs, k)
    BY <1>4 DEF Becomes
  <2>3. CASE \E i \in 1..Len(c.pairs) : c.pairs[i][1] = k
    BY <2>1, <2>2, <2>3, AssignedSame
  <2>4. CASE ~\E i \in 1..Len(c.pairs) : c.pairs[i][1] = k
    BY <2>2, <2>4 DEF Assigned
  <2> QED
    BY <2>3, <2>4
<1>5. CASE c.op = "FLUSHDB"
  BY <1>5 DEF Becomes
<1> QED
  BY <1>1, <1>2, <1>3, <1>4, <1>5 DEF Recorded, Keyed, Building

LEMMA DatedStep ==
    ASSUME NEW l \in Seq(Recorded), NEW c \in Recorded, NEW k, NEW at, NEW e, NEW d,
           e = None \/ e \in Entry, Becomes(d, e, c, k, at),
           e # None /\ e.expireAt # None => Dates(l, k, e.expireAt),
           d # None, d.expireAt # None
    PROVE  Dates(Append(l, c), k, d.expireAt)
<1>0. c \in CommandType
  BY DEF Recorded
<1>a. ASSUME d = e, ~Resets(c, k)
      PROVE  Dates(Append(l, c), k, d.expireAt)
  BY <1>a, DatesKept
<1>b. \A v : NewEntry(v, None).expireAt = None
  BY DEF NewEntry
<1> DEFINE f == Fresh(e, at)
<1>c. f = None \/ (f = e /\ e \in Entry)
  BY DEF Fresh
<1>1. CASE c.op \in Keyed /\ c.key # k
  <2>1. d = e
    BY <1>1 DEF Becomes
  <2>2. ~Resets(c, k)
    BY <1>1 DEF Resets, Keyed
  <2> QED
    BY <1>a, <2>1, <2>2
<1>2. CASE c.op \in Keyed /\ c.key = k
  <2>1. d = After(e, c, at)
    BY <1>2 DEF Becomes
  <2>2. CASE c.op = "SET"
    <3>1. d = NewEntry(c.value, None)
      BY <2>1, <2>2 DEF After, SetRefused, Recorded
    <3> QED
      BY <1>b, <3>1
  <2>3. CASE c.op = "DEL"
    BY <2>1, <2>3 DEF After
  <2>4. CASE c.op = "PEXPIREAT"
    <3>1. d = Redated(f, c.at)
      BY <2>1, <2>4 DEF After
    <3> HIDE DEF f
    <3>2. d.expireAt = c.at
      BY <1>c, <3>1 DEF Redated, Entry
    <3> QED
      BY <1>2, <2>4, <3>2, DatesNew
  <2>5. CASE c.op = "PERSIST"
    <3>1. d = Redated(f, None)
      BY <2>1, <2>5 DEF After
    <3> HIDE DEF f
    <3>2. d.expireAt = None
      BY <1>c, <3>1 DEF Redated, Entry
    <3> QED
      BY <3>2
  <2>6. CASE c.op = "INCR"
    <3>1. d = f \/ d = Counted(f, c.delta)
      BY <2>1, <2>6 DEF After
    <3> HIDE DEF f
    <3>2. f # None /\ d.expireAt = f.expireAt
      BY <3>1 DEF Counted, NewEntry
    <3>3. d.expireAt = e.expireAt /\ e # None
      BY <1>c, <3>2
    <3>4. ~Resets(c, k)
      BY <2>6 DEF Resets
    <3> QED
      BY <3>3, <3>4, DatesKept
  <2> QED
    BY <1>2, <2>2, <2>3, <2>4, <2>5, <2>6 DEF Recorded, Keyed
<1>3. CASE c.op = "MSET"
  <2>1. c.pairs \in Seq(Keys \X Value) /\ DOMAIN c.pairs = 1..Len(c.pairs)
    BY <1>0, <1>3 DEF CommandType
  <2>2. Assigned(d, e, c.pairs, k)
    BY <1>3 DEF Becomes
  <2>3. CASE \E i \in 1..Len(c.pairs) : c.pairs[i][1] = k
    BY <1>b, <2>2, <2>3 DEF Assigned
  <2>4. CASE ~\E i \in 1..Len(c.pairs) : c.pairs[i][1] = k
    <3>1. d = e
      BY <2>2, <2>4 DEF Assigned
    <3>2. ~Resets(c, k)
      BY <1>3, <2>1, <2>4 DEF Resets
    <3> QED
      BY <1>a, <3>1, <3>2
  <2> QED
    BY <2>3, <2>4
<1>4. CASE c.op = "FLUSHDB"
  BY <1>4 DEF Becomes
<1> QED
  BY <1>1, <1>2, <1>3, <1>4 DEF Recorded, Keyed

\* Every key of d2 is what c makes of it in d.
AllBecome(d2, d, c, at) == \A k \in Keys : Becomes(d2[k], d[k], c, k, at)

Unevicting(o) == o.cap = 0 \/ o.policy = "noeviction"

LEMMA EmptyStill ==
    ASSUME NEW o \in Options, Unevicting(o)
    PROVE  Still(Empty(o)) /\ \A k \in Keys : Empty(o).data[k] = None
<1> DEFINE e == Empty(o)
<1>1. /\ Good(e) /\ e.evicted = <<>>
      /\ e.cap = o.cap /\ e.policy = o.policy
  BY NewStoreGood
<1>2. \A k \in Keys : e.data[k] = None
  BY DEF Empty
<1> HIDE DEF e
<1>3. Still(e)
  BY <1>1 DEF Still, NoEviction, Unevicting
<1> QED
  BY <1>2, <1>3 DEF e

LEMMA DataEntry ==
    ASSUME NEW d \in DataType, NEW k \in Keys
    PROVE  d[k] = None \/ d[k] \in Entry
BY DEF DataType

\* A record is appended for a command that has been executed.
LEMMA RecordStep ==
    ASSUME NEW o \in Options, Unevicting(o), NEW d \in DataType, NEW l, NEW at \in Int,
           Tells(d, o, l, at), NEW c \in Recorded, NEW d2, AllBecome(d2, d, c, at)
    PROVE  Tells(d2, o, Append(l, c), at)
<1> DEFINE p == Append(l, c)
<1>0. l \in Seq(Recorded) /\ c \in CommandType
  BY DEF Tells, Recorded
<1>1. p \in Seq(Recorded) /\ l \in Seq(CommandType)
  BY <1>0, RecordedCommands
<1> HIDE DEF p
<1>2. Dated(d2, p)
  <2> SUFFICES ASSUME NEW k \in Keys, d2[k] # None, d2[k].expireAt # None
               PROVE  Dates(p, k, d2[k].expireAt)
    BY DEF Dated
  <2>1. d[k] = None \/ d[k] \in Entry
    BY DataEntry
  <2>2. Becomes(d2[k], d[k], c, k, at)
    BY DEF AllBecome
  <2>3. d[k] # None /\ d[k].expireAt # None => Dates(l, k, d[k].expireAt)
    BY DEF Tells, Dated
  <2> DEFINE e == d[k]
             f == d2[k]
  <2> HIDE DEF e, f
  <2> QED
    BY <1>0, <2>1, <2>2, <2>3, DatedStep DEF p, e, f
<1>3. ASSUME NEW n \in Int, n >= at, ~Touched(p, n)
      PROVE  ShowsAt(d2, o, p, n)
  <2> DEFINE E == Empty(o)
             R == DispatchAll(E, l, n)
             r == Dispatch(R, c, n).store
  <2>1. ShowsAt(d, o, l, n)
    <3>1. ~Touched(l, n)
      BY <1>0, <1>3, TouchedGrows DEF p
    <3> QED
      BY <1>3, <3>1 DEF Tells, Faithful
  <2>2. Still(R)
    <3>1. Still(E)
      BY EmptyStill
    <3> HIDE DEF E
    <3> QED
      BY <1>1, <3>1, DispatchAllStill
  <2>3. r = DispatchAll(E, p, n)
    <3>1. p = l \o <<c>> /\ <<c>> \in Seq(CommandType)
      BY <1>0, <1>1 DEF p
    <3>2. DispatchAll(E, l \o <<c>>, n) = DispatchAll(R, <<c>>, n)
      <4> DEFINE b == <<c>>
      <4>1. b \in Seq(CommandType)
        BY <3>1
      <4> HIDE DEF b, E
      <4>2. DispatchAll(E, l \o b, n) = DispatchAll(DispatchAll(E, l, n), b, n)
        BY <1>1, <4>1, DispatchConcat
      <4> QED
        BY <4>2 DEF b
    <3>3. DispatchAll(R, <<c>>, n) = r
      BY <1>0, DispatchOne
    <3> QED
      BY <3>1, <3>2, <3>3
  <2>4. \A k \in Keys : Fresh(R.data[k], n) = Fresh(d[k], n)
    BY <2>1 DEF ShowsAt
  <2> HIDE DEF R, E
  <2>5. \A k \in Keys : Becomes(r.data[k], R.data[k], c, k, n)
    BY <1>0, <2>2, DispatchEffect
  <2> HIDE DEF r
  <2>6. ASSUME NEW k \in Keys
        PROVE  Fresh(r.data[k], n) = Fresh(d2[k], n)
    <3> DEFINE e == d[k]
               f == d2[k]
               x == R.data[k]
               y == r.data[k]
    <3>1. Becomes(f, e, c, k, at) /\ Becomes(y, x, c, k, n) /\ Fresh(x, n) = Fresh(e, n)
      BY <2>4, <2>5 DEF AllBecome
    <3>2. e = None \/ e \in Entry
      BY DataEntry
    <3>3. e # None /\ e.expireAt # None => Dates(l, k, e.expireAt)
      BY DEF Tells, Dated
    <3> HIDE DEF e, f, x, y
    <3>4. c.op \in Building /\ c.key = k => Fresh(e, at) = Fresh(e, n)
      <4> SUFFICES ASSUME c.op \in Building, c.key = k, Fresh(e, at) # Fresh(e, n)
                   PROVE  FALSE
        OBVIOUS
      <4>1. e # None /\ e.expireAt # None
        BY DEF Fresh, IsExpired
      <4>2. e.expireAt \in Int
        BY <3>2, <4>1 DEF Entry
      <4>3. e.expireAt <= n
        BY <1>3, <4>1, <4>2 DEF Fresh, IsExpired
      <4>4. Touched(Append(l, c), n)
        BY <1>0, <3>3, <4>1, <4>3, TouchedNow
      <4> QED
        BY <1>3, <4>4 DEF p
    <3>5. Fresh(y, n) = Fresh(f, n)
      BY <3>1, <3>4, EntryStep
    <3> QED
      BY <3>5 DEF y, f
  <2> QED
    BY <2>3, <2>6 DEF ShowsAt, E
<1>4. Faithful(d2, o, p, at)
  BY <1>3 DEF Faithful
<1> QED
  BY <1>1, <1>2, <1>4 DEF Tells, p

\* Keys may be dropped after their deadline, and time may pass.
LEMMA TellsKept ==
    ASSUME NEW o, NEW d \in DataType, NEW l, NEW at \in Int, Tells(d, o, l, at),
           NEW d2, \A k \in Keys : Kept(d2[k], d[k], at)
    PROVE  Tells(d2, o, l, at)
<1>1. Dated(d2, l)
  BY DEF Tells, Dated, Kept, Fresh
<1>2. ASSUME NEW n \in Int, n >= at, NEW k \in Keys
      PROVE  Fresh(d2[k], n) = Fresh(d[k], n)
  <2>1. Fresh(Fresh(d[k], at), n) = Fresh(d[k], n)
    <3>1. at <= n /\ (d[k] = None \/ d[k] \in Entry)
      BY <1>2, DataEntry
    <3> QED
      BY <3>1, FreshLater
  <2> QED
    BY <2>1 DEF Kept
<1>3. Faithful(d2, o, l, at)
  BY <1>2 DEF Tells, Faithful, ShowsAt
<1> QED
  BY <1>1, <1>3 DEF Tells

LEMMA TellsLater ==
    ASSUME NEW o, NEW d, NEW l, NEW at \in Int, NEW n \in Int, at <= n, Tells(d, o, l, at)
    PROVE  Tells(d, o, l, n)
<1>1. \A m \in Int : m >= n => m >= at
  OBVIOUS
<1> QED
  BY <1>1 DEF Tells, Faithful

\* A store that has just been replayed.
LEMMA ReplayTells ==
    ASSUME NEW o \in Options, Unevicting(o), NEW l \in Seq(Recorded), NEW at \in Int
    PROVE  Tells(DispatchAll(Empty(o), l, at).data, o, l, at)
<1> DEFINE E == Empty(o)
           L == Len(l)
<1>0. l \in Seq(CommandType) /\ L \in Nat /\ (\A i \in 1..L : l[i] \in Recorded)
  BY RecordedCommands
<1>1. Still(E) /\ \A k \in Keys : E.data[k] = None
  BY EmptyStill
<1>2. PICK f : OneByOne(f, E, l, at)
  BY <1>0, DispatchSteps
<1>3. /\ f[0] = E /\ DispatchAll(E, l, at) = f[L]
      /\ \A n \in Nat : n + 1 <= L => f[n + 1] = Dispatch(f[n], l[n + 1], at).store
  BY <1>2 DEF OneByOne
<1> DEFINE first(n) == SubSeq(l, 1, n)
           Holds(n) == Still(f[n]) /\ Tells(f[n].data, o, first(n), at)
           N == {n \in Nat : n <= L => Holds(n)}
<1>4. 0 \in N
  <2>1. first(0) = <<>> /\ <<>> \in Seq(Recorded) /\ <<>> \in Seq(CommandType)
    OBVIOUS
  <2>2. Dated(E.data, <<>>)
    BY <1>1 DEF Dated
  <2>3. Faithful(E.data, o, <<>>, at)
    <3>1. \A n \in Int : DispatchAll(E, <<>>, n) = E
      BY DispatchNothing
    <3> QED
      BY <3>1 DEF Faithful, ShowsAt
  <2>4. Tells(E.data, o, <<>>, at)
    BY <2>1, <2>2, <2>3 DEF Tells
  <2> QED
    BY <1>1, <1>3, <2>1, <2>4
<1> HIDE DEF L, E
<1>5. \A n \in Nat : n \in N => n + 1 \in N
  <2> SUFFICES ASSUME NEW n \in Nat, Holds(n), n + 1 <= L
               PROVE  Holds(n + 1)
    <3> HIDE DEF Holds
    <3> QED
      BY <1>0
  <2> DEFINE a == first(n)
             c == l[n + 1]
             x == f[n]
             y == f[n + 1]
  <2>1. c \in Recorded /\ y = Dispatch(x, c, at).store
    BY <1>0, <1>3
  <2>2. first(n + 1) = Append(a, c)
    BY <1>0 DEF L
  <2>3. Still(x) /\ Tells(x.data, o, a, at)
    OBVIOUS
  <2> HIDE DEF a, c, x, y
  <2>4. c \in CommandType
    BY <2>1 DEF Recorded
  <2>5. Still(y) /\ \A k \in Keys : Becomes(y.data[k], x.data[k], c, k, at)
    BY <2>1, <2>3, <2>4, DispatchEffect
  <2>6. AllBecome(y.data, x.data, c, at) /\ x.data \in DataType
    BY <2>3, <2>5 DEF AllBecome, Still, Good, Sound, StoreType
  <2>7. Tells(y.data, o, Append(a, c), at)
    BY <2>1, <2>3, <2>6, RecordStep
  <2> QED
    BY <2>2, <2>5, <2>7 DEF y
<1> HIDE DEF N
<1>6. L \in N
  BY <1>0, <1>4, <1>5, Induction
<1>7. Holds(L)
  <2> HIDE DEF Holds
  <2> QED
    BY <1>0, <1>6 DEF N
<1>8. first(L) = l
  BY DEF L
<1> QED
  BY <1>3, <1>7, <1>8 DEF E

\* The records of one command, appended to any log that tells.
LEMMA WriteTells ==
    ASSUME NEW o \in Options, Unevicting(o), NEW s, Still(s), NEW l, NEW c \in CommandType, now \in Int,
           Tells(s.data, o, l, now), NEW r, r = Dispatch(s, c, now), c.op \in WriteCommands, r.ok
    PROVE  Tells(r.store.data, o, l \o Records(c, r), now)
<1> DEFINE d == s.data
           d2 == r.store.data
           own == IF c.op # "SET" \/ r.wrote THEN ToAof(c, now) ELSE <<>>
<1>0. d \in DataType /\ l \in Seq(Recorded) /\ Good(s) /\ s.evicted = <<>> /\ NoEviction(s)
  BY DEF Still, Good, Sound, StoreType, Tells
<1>1. Still(r.store) /\ SameOptions(r.store, s) /\ \A k \in Keys : Becomes(r.store.data[k], s.data[k], c, k, now)
  BY DispatchEffect
<1>2. AllBecome(d2, d, c, now)
  BY <1>1 DEF AllBecome
<1>3. l \o Records(c, r) = l \o own
  <2> DEFINE q == r.store.evicted
             del == [i \in 1..Len(q) |-> CmdDel(q[i])]
  <2>1. q = <<>>
    BY <1>1 DEF Still
  <2> HIDE DEF q
  <2>2. del = <<>>
    BY <2>1
  <2>3. own \in Seq(CommandType)
    BY ToAofType
  <2>4. Records(c, r) = own \o del
    BY DEF Records, q
  <2> HIDE DEF own, del
  <2>5. own \o del = own
    BY <2>2, <2>3
  <2> QED
    BY <2>4, <2>5
<1> HIDE DEF d, d2
<1>4. \A x \in Recorded : l \o <<x>> = Append(l, x)
  BY <1>0
<1>5. CASE c.op = "SET"
  <2> DEFINE p == PlainSet(c.key, c.value)
             a == now + c.ttl
             q == CmdPexpireat(c.key, a)
             f(k) == Fresh(d[k], now)
  <2>0. c.key \in Keys /\ c.value \in Value /\ c.ttl \in (Nat \ {0}) \cup {None} /\ c.op \in Keyed
    BY <1>5 DEF CommandType, Keyed
  <2>1. /\ p \in CommandType /\ p.op = "SET" /\ p.key = c.key /\ p.value = c.value
        /\ p.ttl = None /\ p.mode = "always"
    BY <2>0, CommandTypes DEF PlainSet, CmdSet
  <2>2. r.wrote = ~SetRefused(f(c.key), c)
    BY <1>0, <1>5, <2>0, KeyedEffect DEF d
  <2>3. \A k \in Keys : d2[k] = IF k = c.key THEN After(d[k], c, now) ELSE d[k]
    BY <1>2, <2>0 DEF AllBecome, Becomes
  <2>4. p \in Recorded
    BY <2>1 DEF Recorded
  <2> HIDE DEF p
  <2>5. \A e, k, x : x = (IF k = c.key THEN NewEntry(c.value, None) ELSE e) => Becomes(x, e, p, k, now)
    <3>1. \A e : After(e, p, now) = NewEntry(c.value, None)
      BY <2>1 DEF After, SetRefused
    <3> QED
      BY <2>1, <3>1 DEF Becomes
  <2>6. CASE ~r.wrote
    <3>1. \A k \in Keys : Kept(d2[k], d[k], now)
      BY <1>5, <2>2, <2>3, <2>6 DEF Kept, After
    <3>2. Tells(d2, o, l, now)
      BY <1>0, <3>1, TellsKept DEF d
    <3>3. l \o own = l
      BY <1>0, <1>5, <2>6
    <3> QED
      BY <1>3, <3>2, <3>3 DEF d2
  <2>7. CASE r.wrote /\ c.ttl = None
    <3>1. \A k \in Keys : d2[k] = IF k = c.key THEN NewEntry(c.value, None) ELSE d[k]
      BY <1>5, <2>2, <2>3, <2>7 DEF After
    <3>2. AllBecome(d2, d, p, now)
      BY <2>5, <3>1 DEF AllBecome
    <3>3. Tells(d2, o, Append(l, p), now)
      BY <1>0, <2>4, <3>2, RecordStep DEF d
    <3>4. own = <<p>>
      BY <1>5, <2>7 DEF ToAof, p
    <3> QED
      BY <1>3, <1>4, <2>4, <3>3, <3>4 DEF d2
  <2>8. CASE r.wrote /\ c.ttl # None
    <3> DEFINE d1 == [k \in Keys |-> IF k = c.key THEN NewEntry(c.value, None) ELSE d[k]]
               b == Append(l, p)
    <3>0. a \in Int /\ a # None
      <4>1. c.ttl \in Int
        BY <2>0, <2>8
      <4>2. a \in Int
        BY <4>1
      <4> HIDE DEF a
      <4> QED
        BY <4>2, NoneAssumption
    <3>1. q \in CommandType /\ q.op = "PEXPIREAT" /\ q.key = c.key /\ q.at = a
      BY <2>0, <3>0, CommandTypes DEF CmdPexpireat
    <3>2. q \in Recorded
      BY <3>1 DEF Recorded
    <3>3. \A k \in Keys : d2[k] = IF k = c.key THEN NewEntry(c.value, a) ELSE d[k]
      BY <1>5, <2>2, <2>3, <2>8 DEF After
    <3> HIDE DEF a, q
    <3>4. AllBecome(d1, d, p, now)
      BY <2>5 DEF AllBecome
    <3>5. \A v \in Value : NewEntry(v, None) \in Entry
      BY StoreAssumption DEF NewEntry, Entry, Value
    <3>6. d1 \in DataType
      BY <1>0, <2>0, <3>5 DEF DataType
    <3>7. AllBecome(d2, d1, q, now)
      <4>1. q.op \in Keyed /\ \A e : After(e, q, now) = Redated(Fresh(e, now), a)
        BY <3>1 DEF After, Keyed
      <4>2. NewEntry(c.value, None) # None
        BY <2>0, <3>5, NoneAssumption
      <4>3. Redated(Fresh(NewEntry(c.value, None), now), a) = NewEntry(c.value, a)
        BY <4>2 DEF Redated, Fresh, IsExpired, NewEntry
      <4>4. \A k \in Keys : d1[k] = IF k = c.key THEN NewEntry(c.value, None) ELSE d[k]
        OBVIOUS
      <4> HIDE DEF d1
      <4>5. \A k \in Keys : d2[k] = IF k = q.key THEN After(d1[k], q, now) ELSE d1[k]
        BY <3>1, <3>3, <4>1, <4>3, <4>4
      <4> QED
        BY <3>1, <4>1, <4>5 DEF AllBecome, Becomes
    <3> HIDE DEF d1
    <3>8. Tells(d1, o, b, now)
      BY <1>0, <2>4, <3>4, RecordStep DEF d
    <3>9. b \in Seq(Recorded)
      BY <1>0, <2>4
    <3> HIDE DEF b
    <3>10. Tells(d2, o, Append(b, q), now)
      BY <3>2, <3>6, <3>7, <3>8, RecordStep
    <3>11. own = <<p, q>>
      BY <1>5, <2>8 DEF ToAof, p, q, a
    <3>12. l \o <<p, q>> = Append(b, q)
      BY <1>0, <2>4, <3>2 DEF b
    <3> QED
      BY <1>3, <3>10, <3>11, <3>12 DEF d2
  <2> QED
    BY <2>6, <2>7, <2>8
<1>6. CASE c.op = "EXPIRE"
  <2> DEFINE a == now + c.ttl
             q == CmdPexpireat(c.key, a)
  <2>0. c.key \in Keys /\ a \in Int /\ c.op \in Keyed
    BY <1>6 DEF CommandType, Keyed
  <2>1. q \in CommandType /\ q.op = "PEXPIREAT" /\ q.key = c.key /\ q.at = a
    BY <2>0, CommandTypes DEF CmdPexpireat
  <2>2. q \in Recorded
    BY <2>1 DEF Recorded
  <2>3. \A e : After(e, c, now) = Redated(Fresh(e, now), a)
    BY <1>6 DEF After
  <2>4. own = <<q>>
    BY <1>6 DEF ToAof
  <2> HIDE DEF a, q
  <2>5. q.op \in Keyed /\ \A e : After(e, q, now) = Redated(Fresh(e, now), a)
    BY <2>1 DEF After, Keyed
  <2>6. \A k \in Keys : d2[k] = IF k = c.key THEN After(d[k], c, now) ELSE d[k]
    BY <1>2, <2>0 DEF AllBecome, Becomes
  <2>7. AllBecome(d2, d, q, now)
    BY <2>1, <2>3, <2>5, <2>6 DEF AllBecome, Becomes
  <2>8. Tells(d2, o, Append(l, q), now)
    BY <1>0, <2>2, <2>7, RecordStep DEF d
  <2> QED
    BY <1>3, <1>4, <2>2, <2>4, <2>8 DEF d2
<1>7. CASE c.op \notin {"SET", "EXPIRE"}
  <2>1. c \in Recorded
    BY <1>7 DEF Recorded, WriteCommands
  <2>2. own = <<c>>
    BY <1>7 DEF ToAof
  <2>3. Tells(d2, o, Append(l, c), now)
    BY <1>0, <1>2, <2>1, RecordStep DEF d
  <2> QED
    BY <1>3, <1>4, <2>1, <2>2, <2>3 DEF d2
<1> QED
  BY <1>5, <1>6, <1>7

LEMMA RewriteRecords ==
    ASSUME NEW s, Good(s), NEW at \in Int
    PROVE  RewriteCommands(s, at) \in Seq(Recorded)
<1> DEFINE es == Snapshot(s, at)
           restore(e) == IF e.expireAt = None
                         THEN <<PlainSet(e.key, e.value)>>
                         ELSE <<PlainSet(e.key, e.value), CmdPexpireat(e.key, e.expireAt)>>
           q == [i \in 1..Len(es) |-> restore(es[i])]
<1>1. RewriteCommands(s, at) = FlattenSeq(q)
  BY DEF RewriteCommands
<1>2. es \in Seq(SnapshotEntry)
  BY SnapshotType
<1> HIDE DEF es
<1>3. ASSUME NEW e \in SnapshotEntry
      PROVE  restore(e) \in Seq(Recorded)
  <2>1. e.key \in Keys /\ e.value \in Value /\ (e.expireAt # None => e.expireAt \in Int)
    BY DEF SnapshotEntry, Deadline
  <2>2. PlainSet(e.key, e.value) \in Recorded
    BY <2>1, CommandTypes DEF Recorded, PlainSet, CmdSet
  <2>3. e.expireAt # None => CmdPexpireat(e.key, e.expireAt) \in Recorded
    BY <2>1, CommandTypes DEF Recorded, CmdPexpireat
  <2> QED
    BY <2>2, <2>3
<1> HIDE DEF restore
<1>4. q \in Seq(Seq(Recorded))
  BY <1>2, <1>3
<1> HIDE DEF q
<1> QED
  BY <1>1, <1>4, FlattenType

\* The records of a rewrite tell of the store they were taken from.
LEMMA RewriteTells ==
    ASSUME NEW o \in Options, Unevicting(o), NEW s, Good(s), NEW at \in Int,
           \A k \in Keys : s.data[k] = Fresh(s.data[k], at)
    PROVE  Tells(s.data, o, RewriteCommands(s, at), at)
<1> DEFINE l == RewriteCommands(s, at)
           E == Empty(o)
           y == DispatchAll(E, l, at)
<1>1. l \in Seq(Recorded)
  BY RewriteRecords
<1>2. Still(E) /\ \A k \in Keys : E.data[k] = None
  BY EmptyStill
<1>3. Tells(y.data, o, l, at)
  <2> HIDE DEF l
  <2> QED
    BY <1>1, ReplayTells
<1> HIDE DEF E
<1>4. \A k \in Keys : y.data[k] = IF Live(s, k, at) THEN s.data[k] ELSE None
  BY <1>2, RewriteReplay
<1>5. \A k \in Keys : y.data[k] = s.data[k]
  BY <1>4 DEF Live, Has, Fresh
<1> HIDE DEF l, y
<1>6. Tells(s.data, o, l, at)
  BY <1>3, <1>5 DEF Tells, Dated, Faithful, ShowsAt
<1> QED
  BY <1>6 DEF l

-----------------------------------------------------------------------------
(***************************************************************************)
(* The invariant: the log tells of the store, and so does what a running   *)
(* rewrite will put in its place.                                          *)
(***************************************************************************)
Rewritten == rewrite.snapshot \o rewrite.buffer

FidelityInv ==
    NoEviction(store) =>
        /\ Tells(store.data, OptionsOf(store), log, now)
        /\ rewrite # None => Tells(store.data, OptionsOf(store), Rewritten, now)

LEMMA StillStore ==
    ASSUME IInv, NoEviction(store)
    PROVE  /\ Still(store) /\ now \in Int /\ OptionsOf(store) \in Options /\ Unevicting(OptionsOf(store))
           /\ store.data \in DataType
<1>1. Still(store) /\ OptionsOf(store) \in Options /\ store.data \in DataType
  BY NodeAssumption DEF IInv, StoreInv, Still, Good, Sound, StoreType
<1>2. Unevicting(OptionsOf(store))
  BY DEF Unevicting, NoEviction, OptionsOf
<1> QED
  BY <1>1, <1>2, NowInt

\* A step that at most drops keys whose deadline has passed.
LEMMA QuietStep ==
    ASSUME IInv, FidelityInv, UNCHANGED <<log, now, rewrite>>, SameOptions(store', store),
           NoEviction(store) => \A k \in Keys : Kept(store'.data[k], store.data[k], now)
    PROVE  FidelityInv'
<1>1. OptionsOf(store)' = OptionsOf(store) /\ (NoEviction(store)' <=> NoEviction(store))
  BY DEF SameOptions, OptionsOf, NoEviction
<1>2. ASSUME NoEviction(store)
      PROVE  /\ Tells(store'.data, OptionsOf(store), log, now)
             /\ rewrite # None => Tells(store'.data, OptionsOf(store), Rewritten, now)
  <2> DEFINE d == store.data
             d2 == store'.data
             o == OptionsOf(store)
  <2>1. d \in DataType /\ now \in Int
    BY <1>2, StillStore
  <2>2. \A k \in Keys : Kept(d2[k], d[k], now)
    BY <1>2
  <2>3. Tells(d, o, log, now) /\ (rewrite # None => Tells(d, o, Rewritten, now))
    BY <1>2 DEF FidelityInv
  <2> HIDE DEF d, d2, o
  <2> QED
    BY <2>1, <2>2, <2>3, TellsKept DEF d2, o
<1>3. Rewritten' = Rewritten
  BY DEF Rewritten
<1> QED
  BY <1>1, <1>2, <1>3 DEF FidelityInv

\* What is not logged changes nothing.
LEMMA ReadEntries ==
    ASSUME IInv, NEW c \in Commands, ExecuteRead(c)
    PROVE  /\ UNCHANGED <<log, now, rewrite>> /\ SameOptions(store', store)
           /\ NoEviction(store) => \A k \in Keys : Kept(store'.data[k], store.data[k], now)
<1> DEFINE r == Dispatch(store, c, now)
<1>0. c \in CommandType /\ now \in Int /\ Good(store) /\ store.evicted = <<>>
  BY NodeAssumption, NowInt DEF IInv, StoreInv
<1>1. /\ Reached(r.store, store) /\ r.ok \in BOOLEAN
      /\ c.op \notin WriteCommands \/ ~r.ok => Harmless(r.store, store, now)
      /\ (c.op = "SET" /\ r.wrote) \/ (c.op = "INCR" /\ r.ok) => Live(r.store, c.key, now)
  BY <1>0, DispatchGood
<1>2. /\ c.op \notin WriteCommands \/ ~r.ok
      /\ store' = r.store
      /\ UNCHANGED <<log, now, rewrite>>
  BY DEF ExecuteRead
<1>3. SameOptions(store', store)
  BY <1>1, <1>2 DEF Reached
<1>4. ASSUME NoEviction(store), NEW k \in Keys
      PROVE  Kept(store'.data[k], store.data[k], now)
  <2>1. Still(store)
    BY <1>4, StillStore
  <2> DEFINE t == r.store
  <2>2. \A j \in Keys : Becomes(t.data[j], store.data[j], c, j, now)
    BY <1>0, <2>1, DispatchEffect
  <2>3. Becomes(store'.data[k], store.data[k], c, k, now)
    BY <1>2, <2>2
  <2>4. CASE c.op \in Keyed
    <3>1. /\ c.op \notin {"SET", "INCR"} => r.ok = TRUE
          /\ c.op = "SET" => r.ok = TRUE
          /\ c.op = "INCR" => r.ok = CanCount(Fresh(store.data[c.key], now), c.delta)
      BY <1>0, <2>4, KeyedEffect
    <3> HIDE DEF r
    <3>2. c.op \in {"GET", "TTL"} \/ (c.op = "INCR" /\ ~r.ok)
      BY <1>2, <2>4, <3>1 DEF Keyed, WriteCommands
    <3>3. CASE k # c.key
      BY <2>3, <2>4, <3>3 DEF Becomes, Kept
    <3>4. CASE k = c.key
      <4>1. store'.data[k] = After(store.data[k], c, now)
        BY <2>3, <2>4, <3>4 DEF Becomes
      <4>2. CASE c.op \in {"GET", "TTL"}
        BY <4>1, <4>2 DEF After, Kept
      <4>3. CASE c.op = "INCR" /\ ~r.ok
        BY <3>1, <3>4, <4>1, <4>3 DEF After, Kept
      <4> QED
        BY <3>2, <4>2, <4>3
    <3> QED
      BY <3>3, <3>4
  <2>5. CASE c.op \in {"KEYS", "PING"}
    BY <2>3, <2>5 DEF Becomes, Kept
  <2>6. CASE c.op \in {"MSET", "FLUSHDB"}
    <3>1. r.ok = TRUE
      BY <2>6 DEF Dispatch, Result
    <3> QED
      BY <1>2, <2>6, <3>1 DEF WriteCommands
  <2> QED
    BY <1>0, <2>4, <2>5, <2>6 DEF CommandType, Keyed
<1> QED
  BY <1>2, <1>3, <1>4

LEMMA ReadFidelity ==
    ASSUME IInv, FidelityInv, NEW c \in Commands, ExecuteRead(c)
    PROVE  FidelityInv'
BY ReadEntries, QuietStep

\* What a write leaves, and what it appends to the log and to the buffer.
LEMMA WriteEntries ==
    ASSUME IInv, NEW c \in Commands, ExecuteWrite(c)
    PROVE  LET r == Dispatch(store, c, now)
               q == Records(c, r)
           IN  /\ c \in CommandType /\ c.op \in WriteCommands /\ r.ok /\ now' = now
               /\ Good(r.store) /\ store'.data = r.store.data /\ SameOptions(store', store)
               /\ log' = log \o q
               /\ rewrite' # None => rewrite # None /\ Rewritten' = Rewritten \o q
<1> DEFINE r == Dispatch(store, c, now)
           q == Records(c, r)
<1>0. c \in CommandType /\ now \in Int /\ Good(store) /\ store.evicted = <<>>
  BY NodeAssumption, NowInt DEF IInv, StoreInv
<1>1. /\ Reached(r.store, store) /\ r.ok \in BOOLEAN
      /\ c.op \notin WriteCommands \/ ~r.ok => Harmless(r.store, store, now)
      /\ (c.op = "SET" /\ r.wrote) \/ (c.op = "INCR" /\ r.ok) => Live(r.store, c.key, now)
  BY <1>0, DispatchGood
<1>2. /\ c.op \in WriteCommands /\ r.ok
      /\ store' = DrainEvictions(r.store)
      /\ Logged(q)
      /\ UNCHANGED now
  BY DEF ExecuteWrite
<1>3. q \in Seq(CommandType)
  <2>1. r.store.evicted \in Seq(Keys)
    BY <1>1 DEF Reached, Good, Sound, StoreType
  <2> HIDE DEF r
  <2> QED
    BY <1>0, <2>1, RecordsType
<1>4. store'.data = r.store.data /\ SameOptions(store', store)
  <2> DEFINE t == r.store
             u == store'
  <2>1. Good(t) /\ SameOptions(t, store) /\ u = DrainEvictions(t)
    BY <1>1, <1>2 DEF Reached
  <2> HIDE DEF t, u
  <2>2. SameOptions(u, t) /\ u.data = t.data
    BY <2>1, DrainGood
  <2> QED
    BY <2>1, <2>2 DEF t, u, SameOptions
<1>5. log' = log \o q
  BY <1>2 DEF Logged
<1>6. rewrite' # None => rewrite # None /\ Rewritten' = Rewritten \o q
  <2> SUFFICES ASSUME rewrite' # None
               PROVE  rewrite # None /\ Rewritten' = Rewritten \o q
    OBVIOUS
  <2> HIDE DEF q
  <2>1. rewrite # None /\ rewrite' = [rewrite EXCEPT !.buffer = rewrite.buffer \o q]
    BY <1>2 DEF Logged
  <2> DEFINE a == rewrite.snapshot
             b == rewrite.buffer
  <2>2. rewrite \in Rewriting /\ a \in Seq(CommandType) /\ b \in Seq(CommandType)
    BY <2>1 DEF IInv, LogInv, Rewriting
  <2>3. rewrite'.snapshot = a /\ rewrite'.buffer = b \o q
    BY <2>1, <2>2 DEF Rewriting
  <2> HIDE DEF a, b
  <2>4. a \o (b \o q) = (a \o b) \o q
    BY <1>3, <2>2
  <2> QED
    BY <2>1, <2>3, <2>4 DEF Rewritten, a, b
<1>7. Good(r.store)
  BY <1>1 DEF Reached
<1> HIDE DEF r, q
<1> QED
  BY <1>0, <1>2, <1>4, <1>5, <1>6, <1>7 DEF r, q

LEMMA WriteFidelity ==
    ASSUME IInv, FidelityInv, NEW c \in Commands, ExecuteWrite(c)
    PROVE  FidelityInv'
<1> DEFINE r == Dispatch(store, c, now)
           q == Records(c, r)
<1>1. /\ c \in CommandType /\ c.op \in WriteCommands /\ r.ok /\ now' = now
      /\ store'.data = r.store.data /\ SameOptions(store', store)
      /\ log' = log \o q
      /\ rewrite' # None => rewrite # None /\ Rewritten' = Rewritten \o q
  BY WriteEntries
<1>2. OptionsOf(store)' = OptionsOf(store) /\ (NoEviction(store)' <=> NoEviction(store))
  BY <1>1 DEF SameOptions, OptionsOf, NoEviction
<1>3. ASSUME NoEviction(store), NEW l, Tells(store.data, OptionsOf(store), l, now)
      PROVE  Tells(store'.data, OptionsOf(store), l \o q, now)
  <2> DEFINE o == OptionsOf(store)
             s == store
  <2>1. o \in Options /\ Unevicting(o) /\ Still(s) /\ now \in Int /\ Tells(s.data, o, l, now)
    BY <1>3, StillStore
  <2> HIDE DEF o
  <2>2. Tells(r.store.data, o, l \o Records(c, r), now)
    BY <1>1, <2>1, WriteTells
  <2> QED
    BY <1>1, <2>2 DEF o
<1> HIDE DEF r, q
<1> QED
  BY <1>1, <1>2, <1>3 DEF FidelityInv

LEMMA SweptEntries ==
    ASSUME IInv, store' = Sweep(store, now)
    PROVE  /\ SameOptions(store', store)
           /\ \A k \in Keys : store'.data[k] = Fresh(store.data[k], now)
<1>0. now \in Int /\ Good(store) /\ Sound(store) /\ Covered(store, Keys)
  BY NowInt DEF IInv, StoreInv, Good
<1> DEFINE t == store'
<1>1. t = Sweep(store, now)
  OBVIOUS
<1> HIDE DEF t
<1>2. SameOptions(t, store)
  BY <1>0, <1>1, SweepGood
<1>3. \A k \in Keys : t.data[k] = Fresh(store.data[k], now)
  BY <1>0, <1>1, SweepEntries
<1> QED
  BY <1>2, <1>3 DEF t

LEMMA RewriteBeginFidelity ==
    ASSUME IInv, FidelityInv, RewriteBegin
    PROVE  FidelityInv'
<1>0. /\ store' = Sweep(store, now) /\ UNCHANGED <<log, now>> /\ now \in Int
      /\ rewrite' = [snapshot |-> RewriteCommands(store', now), buffer |-> <<>>]
  BY NowInt DEF RewriteBegin
<1>1. SameOptions(store', store) /\ \A k \in Keys : store'.data[k] = Fresh(store.data[k], now)
  BY <1>0, SweptEntries
<1>2. OptionsOf(store)' = OptionsOf(store) /\ (NoEviction(store)' <=> NoEviction(store))
  BY <1>1 DEF SameOptions, OptionsOf, NoEviction
<1>3. StoreInv'
  BY <1>0, SweepKeeps
<1>4. Rewritten' = RewriteCommands(store', now)
  <2>1. RewriteCommands(store', now) \in Seq(CommandType)
    BY <1>0, <1>3, RewriteType DEF StoreInv
  <2> QED
    BY <1>0, <2>1 DEF Rewritten
<1>5. ASSUME NoEviction(store)
      PROVE  /\ Tells(store'.data, OptionsOf(store), log, now)
             /\ Tells(store'.data, OptionsOf(store), RewriteCommands(store', now), now)
  <2> DEFINE o == OptionsOf(store)
             t == store'
             d == store.data
  <2>1. o \in Options /\ Unevicting(o) /\ d \in DataType /\ Tells(d, o, log, now)
    BY <1>5, StillStore DEF FidelityInv
  <2>2. Good(t) /\ \A k \in Keys : t.data[k] = Fresh(d[k], now)
    BY <1>1, <1>3 DEF StoreInv
  <2> HIDE DEF o, t, d
  <2>3. \A k \in Keys : Kept(t.data[k], d[k], now) /\ t.data[k] = Fresh(t.data[k], now)
    BY <2>2 DEF Kept, Fresh
  <2>4. Tells(t.data, o, log, now)
    BY <1>0, <2>1, <2>3, TellsKept
  <2>5. Tells(t.data, o, RewriteCommands(t, now), now)
    BY <1>0, <2>1, <2>2, <2>3, RewriteTells
  <2> QED
    BY <2>4, <2>5 DEF o, t
<1> QED
  BY <1>0, <1>2, <1>4, <1>5 DEF FidelityInv

\* A restart builds the store from a prefix of the log.
LEMMA RestartEntries ==
    ASSUME IInv, Restart
    PROVE  /\ \E n \in 0..Len(log) : log' = SubSeq(log, 1, n)
           /\ rewrite' = None /\ now' = now /\ SameOptions(store', store)
           /\ store'.data = DispatchAll(Empty(OptionsOf(store)), log', now).data
<1>1. PICK lost \in 0..MaxLost :
        /\ lost <= Len(log)
        /\ log' = SubSeq(log, 1, Len(log) - lost)
        /\ store' = Replay(OptionsOf(store), log', now)
        /\ rewrite' = None
        /\ UNCHANGED now
  BY DEF Restart
<1>2. IInv'
  BY RestartKeeps
<1> DEFINE o == OptionsOf(store)
           l == log'
           s == store'
           u == DispatchAll(Empty(o), l, now)
<1>3. o \in Options /\ l \in Seq(CommandType) /\ now \in Int /\ s = Replay(o, l, now)
  BY <1>1, <1>2, NodeAssumption, NowInt DEF IInv, StoreInv, LogInv
<1>4. s.cap = o.cap /\ s.policy = o.policy
  <2> HIDE DEF o, l, s
  <2> QED
    BY <1>3, ReplayGood
<1>5. SameOptions(store', store)
  BY <1>4 DEF OptionsOf, SameOptions
<1>6. s.data = u.data
  <2> DEFINE e == Empty(o)
  <2>1. Good(e)
    <3> HIDE DEF o
    <3> QED
      BY <1>3, NewStoreGood
  <2>2. Reached(u, e)
    <3> HIDE DEF e, l
    <3>1. Reached(DispatchAll(e, l, now), e)
      BY <1>3, <2>1, DispatchAllGood
    <3> QED
      BY <3>1 DEF e
  <2>3. s = DrainEvictions(u) /\ Good(u)
    BY <1>3, <2>2 DEF Replay, Reached
  <2> HIDE DEF s, u
  <2> QED
    BY <2>3, DrainGood
<1>7. \E n \in 0..Len(log) : log' = SubSeq(log, 1, n)
  <2>1. Len(log) \in Nat /\ lost \in Nat
    BY NodeAssumption DEF IInv, LogInv
  <2>2. Len(log) - lost \in 0..Len(log)
    BY <1>1, <2>1
  <2> QED
    BY <1>1, <2>2
<1> QED
  BY <1>1, <1>5, <1>6, <1>7

LEMMA RestartFidelityKept ==
    ASSUME IInv, FidelityInv, Restart
    PROVE  FidelityInv'
<1> DEFINE o == OptionsOf(store)
           l == log'
           u == DispatchAll(Empty(o), l, now)
<1>1. /\ \E n \in 0..Len(log) : l = SubSeq(log, 1, n)
      /\ rewrite' = None /\ now' = now /\ SameOptions(store', store) /\ store'.data = u.data
  BY RestartEntries
<1>2. OptionsOf(store)' = o /\ (NoEviction(store)' <=> NoEviction(store))
  BY <1>1 DEF OptionsOf, NoEviction, SameOptions
<1>3. ASSUME NoEviction(store)
      PROVE  Tells(u.data, o, l, now)
  <2>1. o \in Options /\ Unevicting(o) /\ now \in Int /\ log \in Seq(Recorded)
    BY <1>3, StillStore DEF FidelityInv, Tells
  <2>2. l \in Seq(Recorded)
    <3> HIDE DEF l
    <3> QED
      BY <1>1, <2>1
  <2> HIDE DEF o, l
  <2> QED
    BY <2>1, <2>2, ReplayTells
<1> HIDE DEF o, u
<1> QED
  BY <1>1, <1>2, <1>3 DEF FidelityInv

LEMMA NextFidelity == IInv /\ FidelityInv /\ [Next]_vars => FidelityInv'
<1> SUFFICES ASSUME IInv, FidelityInv, [Next]_vars
             PROVE  FidelityInv'
  OBVIOUS
<1>a. ASSUME UNCHANGED vars
      PROVE  FidelityInv'
  BY <1>a DEF vars, FidelityInv, Rewritten, OptionsOf
<1>1. ASSUME NEW c \in Commands, Execute(c) \/ Refuse(c)
      PROVE  FidelityInv'
  BY <1>1, <1>a, ReadFidelity, WriteFidelity DEF Execute, Refuse
<1>2. CASE SweepLoop
  <2>1. SameOptions(store', store) /\ \A k \in Keys : store'.data[k] = Fresh(store.data[k], now)
    BY <1>2, SweptEntries DEF SweepLoop
  <2> QED
    BY <1>2, <2>1, QuietStep DEF SweepLoop, Kept
<1>3. CASE Tick
  <2>1. now \in Int /\ now' \in Int /\ now <= now' /\ UNCHANGED <<store, log, rewrite>>
    BY <1>3, NowInt DEF Tick
  <2>2. \A d, o, l : Tells(d, o, l, now) => Tells(d, o, l, now')
    BY <2>1, TellsLater
  <2> QED
    BY <2>1, <2>2 DEF FidelityInv, Rewritten, OptionsOf
<1>4. CASE RewriteBegin
  BY <1>4, RewriteBeginFidelity
<1>5. CASE RewriteFinish \/ RewriteFail
  BY <1>5 DEF RewriteFinish, RewriteFail, FidelityInv, Rewritten, OptionsOf
<1>6. CASE Restart
  BY <1>6, RestartFidelityKept
<1> QED
  BY <1>1, <1>2, <1>3, <1>4, <1>5, <1>6, <1>a DEF Next

LEMMA InitFidelity == Init => FidelityInv
<1> SUFFICES ASSUME Init, NoEviction(store)
             PROVE  Tells(store.data, OptionsOf(store), log, now) /\ rewrite = None
  BY DEF FidelityInv
<1>1. PICK options \in ServerOptions : store = Empty(options)
  BY DEF Init
<1>2. options \in Options
  BY NodeAssumption
<1>3. OptionsOf(store) = options
  BY <1>1, <1>2 DEF OptionsOf, Options, Empty
<1>4. Unevicting(options)
  BY <1>1, <1>2 DEF NoEviction, Unevicting, Empty
<1>5. log = <<>> /\ now = 0 /\ rewrite = None /\ <<>> \in Seq(Recorded) /\ 0 \in Int
  BY DEF Init
<1>6. Tells(DispatchAll(Empty(options), <<>>, 0).data, options, <<>>, 0)
  BY <1>2, <1>4, <1>5, ReplayTells
<1>7. DispatchAll(Empty(options), <<>>, 0) = Empty(options)
  BY DispatchNothing
<1> QED
  BY <1>1, <1>3, <1>5, <1>6, <1>7

(***************************************************************************)
(* Replaying the log now gives exactly what clients can read now, through  *)
(* any commands, sweeps, rewrites, crashes and restarts (to_aof_commands,  *)
(* build_rewrite_commands, replay), unless keys are evicted by use or the  *)
(* log goes on about a key after a deadline that has passed since.         *)
(***************************************************************************)
THEOREM RestartsFaithful == Spec => []RestartFidelity
<1>1. IInv /\ FidelityInv => RestartFidelity
  <2> SUFFICES ASSUME IInv, FidelityInv, ~TouchedAfterDeadline(log), ~EvictsByUse
               PROVE  Visible(Replay(OptionsOf(store), log, now)) = Visible(store)
    BY DEF RestartFidelity
  <2> DEFINE o == OptionsOf(store)
             E == Empty(o)
             u == DispatchAll(E, log, now)
             R == Replay(o, log, now)
  <2>1. NoEviction(store)
    BY DEF EvictsByUse, NoEviction, IInv, StoreInv, Good, Sound, StoreType
  <2>2. Tells(store.data, o, log, now) /\ now \in Int /\ log \in Seq(CommandType)
    BY <2>1, NowInt DEF FidelityInv, IInv, LogInv
  <2>3. ~Touched(log, now)
    BY <2>2 DEF Touched, TouchedAfterDeadline, Building
  <2>4. \A k \in Keys : Fresh(u.data[k], now) = Fresh(store.data[k], now)
    BY <2>2, <2>3 DEF Tells, Faithful, ShowsAt
  <2>5. R.data = u.data
    <3>1. o \in Options
      BY <2>1, StillStore
    <3>2. Good(E)
      <4> HIDE DEF o
      <4> QED
        BY <3>1, NewStoreGood
    <3>3. Reached(u, E)
      <4> HIDE DEF E
      <4> QED
        BY <2>2, <3>2, DispatchAllGood
    <3>4. R = DrainEvictions(u) /\ Good(u)
      BY <3>3 DEF Replay, Reached
    <3> HIDE DEF R, u
    <3> QED
      BY <3>4, DrainGood
  <2> HIDE DEF u, R
  <2>6. \A k \in Keys : /\ Live(R, k, now) <=> Live(store, k, now)
                        /\ Live(store, k, now) => R.data[k] = store.data[k]
    BY <2>4, <2>5 DEF Live, Has, Fresh
  <2>7. Visible(R) = Visible(store)
    BY <2>6 DEF Visible
  <2> QED
    BY <2>7 DEF R
<1> QED
  BY <1>1, Invariance, InitFidelity, NextFidelity, PTL DEF Spec

-----------------------------------------------------------------------------
(***************************************************************************)
(* The memory of noeviction: sums of different stores, and what one        *)
(* command adds.                                                           *)
(***************************************************************************)
LEMMA SumAtMost ==
    ASSUME NEW s, s.data \in DataType, NEW t, t.data \in DataType, NEW S, S \subseteq Keys,
           \A k \in S : Size(t.data, k) <= Size(s.data, k)
    PROVE  SizeOf(t, S) <= SizeOf(s, S)
<1> DEFINE N == {n \in Nat : \A T \in SUBSET S : Cardinality(T) = n => SizeOf(t, T) <= SizeOf(s, T)}
<1>1. \A T \in SUBSET S : IsFiniteSet(T) /\ Cardinality(T) \in Nat
  BY StoreAssumption, FS_Subset, FS_CardinalityType
<1>2. \A T \in SUBSET S : Cardinality(T) = 0 <=> T = {}
  BY <1>1, FS_EmptySet
<1>3. \A T \in SUBSET S : \A x \in T : T \ {x} \in SUBSET S /\ Cardinality(T \ {x}) = Cardinality(T) - 1
  BY <1>1, FS_RemoveElement
<1>4. 0 \in N
  <2>1. SizeOf(s, {}) = 0 /\ SizeOf(t, {}) = 0
    BY SumChosen
  <2> QED
    BY <1>2, <2>1
<1>5. \A n \in Nat : n \in N => n + 1 \in N
  <2> SUFFICES ASSUME NEW n \in Nat, n \in N, NEW T \in SUBSET S, Cardinality(T) = n + 1
               PROVE  SizeOf(t, T) <= SizeOf(s, T)
    OBVIOUS
  <2>1. PICK x \in T : TRUE
    BY <1>2
  <2> DEFINE U == T \ {x}
  <2>2. SizeOf(t, U) <= SizeOf(s, U)
    BY <1>3, <2>1
  <2>3. SizeOf(s, T) = Size(s.data, x) + SizeOf(s, U)
    BY <2>1, SumAny
  <2>4. SizeOf(t, T) = Size(t.data, x) + SizeOf(t, U)
    BY <2>1, SumAny
  <2>5. SizeOf(s, U) \in Nat /\ SizeOf(t, U) \in Nat
    BY SumAny
  <2>6. Size(t.data, x) <= Size(s.data, x) /\ Size(t.data, x) \in Nat /\ Size(s.data, x) \in Nat
    BY <2>1, SizeType
  <2> HIDE DEF U
  <2> QED
    BY <2>2, <2>3, <2>4, <2>5, <2>6
<1> HIDE DEF N
<1>6. Cardinality(S) \in N
  BY <1>1, <1>4, <1>5, Induction
<1> QED
  BY <1>6 DEF N

\* What t has in A, s has in B.
LEMMA SumWithin ==
    ASSUME NEW s, s.data \in DataType, NEW t, t.data \in DataType,
           NEW A, A \subseteq Keys, NEW B, B \subseteq Keys,
           \A k \in A : t.data[k] # None => k \in B /\ Size(t.data, k) <= Size(s.data, k)
    PROVE  SizeOf(t, A) <= SizeOf(s, B)
<1> DEFINE C == {k \in A : t.data[k] # None}
<1>1. C \subseteq A /\ C \subseteq B /\ C \subseteq Keys /\ A \ C \subseteq Keys /\ B \ C \subseteq Keys
  OBVIOUS
<1>2. (\A k \in C : Size(t.data, k) <= Size(s.data, k)) /\ (\A k \in A \ C : t.data[k] = None)
  OBVIOUS
<1> HIDE DEF C
<1>3. SizeOf(t, A) = SizeOf(t, C) + SizeOf(t, A \ C)
  BY <1>1, SumSplit
<1>4. SizeOf(s, B) = SizeOf(s, C) + SizeOf(s, B \ C)
  BY <1>1, SumSplit
<1>5. SizeOf(t, C) <= SizeOf(s, C)
  BY <1>1, <1>2, SumAtMost
<1>6. SizeOf(t, A \ C) = 0
  BY <1>1, <1>2, SumNone
<1>7. SizeOf(s, C) \in Nat /\ SizeOf(s, B \ C) \in Nat /\ SizeOf(t, C) \in Nat
  BY <1>1, SumAny
<1> QED
  BY <1>3, <1>4, <1>5, <1>6, <1>7

\* One entry has been written, of this size at most.
LEMMA SumPut ==
    ASSUME NEW s, s.data \in DataType, NEW t, t.data \in DataType, NEW k \in Keys, NEW g \in Nat,
           Size(t.data, k) <= g, \A j \in Keys : j = k \/ t.data[j] = s.data[j]
    PROVE  SizeOf(t, Keys) <= SizeOf(s, Keys) + g
<1> DEFINE U == Keys \ {k}
<1>1. U \subseteq Keys /\ \A j \in U : t.data[j] # None => j \in Keys /\ Size(t.data, j) <= Size(s.data, j)
  <2> SUFFICES ASSUME NEW j \in U
               PROVE  Size(t.data, j) <= Size(s.data, j)
    OBVIOUS
  <2>1. Size(t.data, j) = Size(s.data, j) /\ Size(s.data, j) \in Nat
    BY SizeType DEF Size
  <2> QED
    BY <2>1
<1>2. SizeOf(t, Keys) = Size(t.data, k) + SizeOf(t, U)
  BY SumAny
<1> HIDE DEF U
<1>3. SizeOf(t, U) <= SizeOf(s, Keys)
  BY <1>1, SumWithin
<1>4. SizeOf(t, U) \in Nat /\ SizeOf(s, Keys) \in Nat /\ Size(t.data, k) \in Nat
  BY <1>1, SumAny, SizeType
<1> QED
  BY <1>2, <1>3, <1>4

LEMMA Maximum ==
    ASSUME NEW S, S \subseteq Nat, S # {}, NEW m \in Nat, \A y \in S : y <= m
    PROVE  Max(S) \in S /\ \A y \in S : y <= Max(S)
<1> DEFINE T == {x \in Nat : \A y \in S : y <= x}
           x == Min(T)
<1>1. T \subseteq Nat /\ T # {}
  OBVIOUS
<1>2. x \in T /\ \A y \in T : x <= y
  <2> HIDE DEF T
  <2> QED
    BY <1>1, Minimum
<1>3. x \in Nat /\ \A y \in S : y <= x
  BY <1>2
<1>4. x \in S
  <2> SUFFICES ASSUME x \notin S
               PROVE  FALSE
    OBVIOUS
  <2>1. \A y \in S : y \in Nat /\ y <= x /\ y # x
    BY <1>3
  <2> HIDE DEF x
  <2>a. PICK y \in S : TRUE
    OBVIOUS
  <2>2. y \in Nat /\ y < x
    BY <1>3, <2>1, <2>a
  <2>3. x - 1 \in Nat /\ \A z \in S : z <= x - 1
    BY <1>3, <2>1, <2>2
  <2>4. x - 1 \in T
    BY <2>3
  <2> QED
    BY <1>2, <1>3, <2>4 DEF x
<1> HIDE DEF x
<1>5. \A y \in S : x >= y
  BY <1>3
<1>6. \E z \in S : \A y \in S : z >= y
  BY <1>4, <1>5
<1>7. Max(S) \in S /\ \A y \in S : Max(S) >= y
  BY <1>6 DEF Max
<1> QED
  BY <1>7

-----------------------------------------------------------------------------
TopCost == Max({Cost(v) : v \in Value})

LEMMA CostsLimited ==
    \E m \in Nat : \A v \in Value : Cost(v) <= m
<1> DEFINE Upto(n) == \E m \in Nat : \A v \in IntMin..(IntMin + n) : v <= IntMax => Cost(v) <= m
           N == {n \in Nat : Upto(n)}
<1>0. /\ IntMin \in Int /\ IntMax \in Int /\ IntMin <= IntMax
      /\ \A v \in IntMin..IntMax : Cost(v) \in Nat
      /\ Cost(Text) \in Nat
  <2>1. /\ IntMin \in Int /\ IntMax \in Int /\ 0 \in IntMin..IntMax
        /\ \A v \in (IntMin..IntMax) \cup {Text} : Cost(v) \in Nat
    BY StoreAssumption
  <2>2. IntMin <= IntMax
    BY <2>1
  <2> QED
    BY <2>1, <2>2
<1>1. 0 \in N
  <2>1. Cost(IntMin) \in Nat /\ \A v \in IntMin..(IntMin + 0) : v = IntMin
    BY <1>0
  <2>2. \A v \in IntMin..(IntMin + 0) : v <= IntMax => Cost(v) <= Cost(IntMin)
    BY <2>1
  <2> QED
    BY <2>1, <2>2
<1>2. \A n \in Nat : n \in N => n + 1 \in N
  <2> SUFFICES ASSUME NEW n \in Nat, Upto(n)
               PROVE  Upto(n + 1)
    <3> HIDE DEF Upto
    <3> QED
      OBVIOUS
  <2>1. PICK m \in Nat : \A v \in IntMin..(IntMin + n) : v <= IntMax => Cost(v) <= m
    OBVIOUS
  <2> DEFINE w == IntMin + (n + 1)
  <2>2. w \in Int /\ \A v \in IntMin..w : v = w \/ v \in IntMin..(IntMin + n)
    BY <1>0
  <2>3. w <= IntMax => Cost(w) \in Nat
    BY <1>0
  <2> HIDE DEF w
  <2>4. CASE w <= IntMax
    <3>1. m + Cost(w) \in Nat /\ m <= m + Cost(w) /\ Cost(w) <= m + Cost(w)
      BY <2>3, <2>4
    <3>2. \A v \in IntMin..w : v <= IntMax => Cost(v) <= m + Cost(w)
      <4> TAKE v \in IntMin..w
      <4> HAVE v <= IntMax
      <4>1. CASE v = w
        BY <3>1, <4>1
      <4>2. CASE v \in IntMin..(IntMin + n)
        <5>1. Cost(v) <= m /\ Cost(v) \in Nat
          BY <1>0, <2>1, <4>2
        <5> QED
          BY <2>3, <2>4, <5>1
      <4> QED
        BY <2>2, <4>1, <4>2
    <3> QED
      BY <3>1, <3>2 DEF w
  <2>5. CASE ~(w <= IntMax)
    <3>1. \A v \in IntMin..w : v <= IntMax => Cost(v) <= m
      BY <2>1, <2>2, <2>5
    <3> QED
      BY <3>1 DEF w
  <2> QED
    BY <2>4, <2>5
<1> HIDE DEF N
<1>3. IntMax - IntMin \in N
  BY <1>0, <1>1, <1>2, Induction
<1>4. PICK m \in Nat : \A v \in IntMin..IntMax : Cost(v) <= m
  <2>1. IntMin + (IntMax - IntMin) = IntMax
    BY <1>0
  <2>2. Upto(IntMax - IntMin)
    BY <1>3 DEF N
  <2> QED
    BY <1>0, <2>1, <2>2
<1>5. m + Cost(Text) \in Nat /\ Cost(Text) <= m + Cost(Text)
  BY <1>0
<1>6. \A v \in IntMin..IntMax : Cost(v) <= m + Cost(Text)
  BY <1>0, <1>4
<1> QED
  BY <1>5, <1>6 DEF Value

LEMMA TopCostIs ==
    /\ TopCost \in Nat /\ (\A v \in Value : Cost(v) <= TopCost)
          /\ \E v \in Value : Cost(v) = TopCost
<1> DEFINE S == {Cost(v) : v \in Value}
<1>1. PICK m \in Nat : \A v \in Value : Cost(v) <= m
  BY CostsLimited
<1>2. S \subseteq Nat /\ S # {} /\ \A y \in S : y <= m
  BY <1>1, StoreAssumption DEF Value
<1> HIDE DEF S
<1>3. Max(S) \in S /\ \A y \in S : y <= Max(S)
  BY <1>2, Maximum
<1> QED
  BY <1>2, <1>3 DEF S, TopCost

NoLimit == [cap |-> 0, policy |-> "noeviction"]

LEMMA NoLimitStill ==
    Still(Empty(NoLimit)) /\ \A k \in Keys : Empty(NoLimit).data[k] = None
<1>1. NoLimit \in Options /\ Unevicting(NoLimit)
  BY DEF NoLimit, Options, Unevicting
<1> QED
  BY <1>1, EmptyStill

LEMMA SizeLimited ==
    ASSUME NEW s, Good(s), NEW k \in Keys
    PROVE  Size(s.data, k) <= TopCost
<1>0. s.data \in DataType /\ Costed(s)
  BY DEF Good, Sound, StoreType
<1>1. CASE s.data[k] = None
  BY <1>1, TopCostIs DEF Size
<1>2. CASE s.data[k] # None
  <2>1. s.data[k] \in Entry
    BY <1>0, <1>2, DataEntry
  <2>2. s.data[k].value \in Value /\ s.data[k].size = Cost(s.data[k].value)
    BY <1>0, <1>2, <2>1 DEF Costed, Entry, Has
  <2> QED
    BY <1>2, <2>2, TopCostIs DEF Size
<1> QED
  BY <1>1, <1>2

LEMMA MsetMemory ==
    ASSUME NEW c \in CommandType, c.op = "MSET", NEW u, u = DispatchMset(Empty(NoLimit), c, 0)
    PROVE  /\ Growth(c) = SizeOf(u, Keys) /\ u.data \in DataType
           /\ \A k \in Keys : Size(u.data, k) <= TopCost
           /\ \A k \in Keys : Assigned(u.data[k], None, c.pairs, k)
<1> DEFINE e == Empty(NoLimit)
<1>1. Still(e) /\ (\A k \in Keys : e.data[k] = None) /\ c.pairs \in Seq(Keys \X Value) /\ 0 \in Int
  BY NoLimitStill DEF CommandType
<1>2. u = DispatchMset(e, c, 0) /\ Growth(c) = u.used
  BY DEF Growth, NoLimit
<1> HIDE DEF e
<1>3. Still(u) /\ \A k \in Keys : Assigned(u.data[k], e.data[k], c.pairs, k)
  BY <1>1, <1>2, MsetEffect
<1>4. Good(u) /\ u.data \in DataType /\ u.used = SizeOf(u, Keys)
  BY <1>3 DEF Still, Good, Sound, Accounted, StoreType
<1>5. \A k \in Keys : Size(u.data, k) <= TopCost
  BY <1>4, SizeLimited
<1> QED
  BY <1>1, <1>2, <1>3, <1>4, <1>5

LEMMA GrowthLimited ==
    \E m \in Nat : \A c \in CommandType : Growth(c) \in Nat /\ Growth(c) <= m
<1>1. PICK w \in Value : Cost(w) = TopCost
  BY TopCostIs
<1> DEFINE e == NewEntry(w, None)
           d == [k \in Keys |-> e]
           full == [data |-> d]
           b == SizeOf(full, Keys)
<1>2. e \in Entry /\ e # None /\ e.size = TopCost
  BY <1>1, TopCostIs, NoneAssumption DEF NewEntry, Entry
<1>3. d \in DataType /\ \A k \in Keys : Size(d, k) = TopCost
  <2> HIDE DEF e
  <2> QED
    BY <1>2 DEF DataType, Size
<1>4. full.data \in DataType /\ \A k \in Keys : Size(full.data, k) = TopCost
  <2> HIDE DEF d
  <2> QED
    BY <1>3
<1> HIDE DEF full
<1>5. b \in Nat /\ TopCost \in Nat
  BY <1>4, SumAny, TopCostIs
<1>6. ASSUME NEW c \in CommandType
      PROVE  Growth(c) \in Nat /\ Growth(c) <= b + TopCost
  <2>1. CASE c.op = "MSET"
    <3> DEFINE u == DispatchMset(Empty(NoLimit), c, 0)
    <3>1. /\ Growth(c) = SizeOf(u, Keys) /\ u.data \in DataType
          /\ \A k \in Keys : Size(u.data, k) <= TopCost
      BY <2>1, MsetMemory
    <3> HIDE DEF u
    <3>2. SizeOf(u, Keys) <= b
      BY <1>4, <3>1, SumAtMost
    <3>3. SizeOf(u, Keys) \in Nat
      BY <3>1, SumAny
    <3> QED
      BY <1>5, <3>1, <3>2, <3>3
  <2>2. CASE c.op = "SET"
    <3>1. c.value \in Value /\ Growth(c) = Cost(c.value)
      BY <2>2 DEF CommandType, Growth
    <3>2. Cost(c.value) <= TopCost /\ Cost(c.value) \in Nat
      BY <3>1, TopCostIs, StoreAssumption DEF Value
    <3> QED
      BY <1>5, <3>1, <3>2
  <2>3. CASE c.op = "INCR"
    BY <1>5, <2>3 DEF Growth, TopCost
  <2>4. CASE c.op \notin {"MSET", "SET", "INCR"}
    BY <1>5, <2>4 DEF Growth
  <2> QED
    BY <2>1, <2>2, <2>3, <2>4
<1> QED
  BY <1>5, <1>6

\* What the property allows above the cap.
Excess == Max({0} \cup {Growth(c) : c \in Commands})

LEMMA ExcessIs ==
    Excess \in Nat /\ \A c \in Commands : Growth(c) \in Nat /\ Growth(c) <= Excess
<1> DEFINE S == {0} \cup {Growth(c) : c \in Commands}
<1>1. PICK m \in Nat : \A c \in CommandType : Growth(c) \in Nat /\ Growth(c) <= m
  BY GrowthLimited
<1>2. Commands \subseteq CommandType
  BY NodeAssumption
<1>3. S \subseteq Nat /\ S # {} /\ \A y \in S : y <= m
  BY <1>1, <1>2
<1> HIDE DEF S
<1>4. Max(S) \in S /\ \A y \in S : y <= Max(S)
  BY <1>3, Maximum
<1> QED
  BY <1>3, <1>4 DEF S, Excess

-----------------------------------------------------------------------------
\* The memory that counts: what has not expired.
LiveSize(s, n) == SizeOf(s, {k \in Keys : Live(s, k, n)})

LEMMA LiveLess ==
    ASSUME NEW s, s.data \in DataType, NEW t, t.data \in DataType, NEW n, NEW m,
           \A k \in Keys : Live(t, k, n) => Live(s, k, m) /\ Size(t.data, k) <= Size(s.data, k)
    PROVE  LiveSize(t, n) <= LiveSize(s, m)
<1> DEFINE A == {k \in Keys : Live(t, k, n)}
           B == {k \in Keys : Live(s, k, m)}
<1>1. A \subseteq Keys /\ B \subseteq Keys
  OBVIOUS
<1>2. \A k \in A : k \in B /\ Size(t.data, k) <= Size(s.data, k)
  OBVIOUS
<1> HIDE DEF A, B
<1>3. SizeOf(t, A) <= SizeOf(s, B)
  BY <1>1, <1>2, SumWithin
<1> QED
  BY <1>3 DEF LiveSize, A, B

LEMMA LiveSizeType ==
    ASSUME NEW s, s.data \in DataType, NEW n
    PROVE  LiveSize(s, n) \in Nat /\ SizeOf(s, Keys) \in Nat /\ LiveSize(s, n) <= SizeOf(s, Keys)
<1> DEFINE A == {k \in Keys : Live(s, k, n)}
<1>1. A \subseteq Keys /\ \A k \in Keys : Size(s.data, k) \in Nat
  BY SizeType
<1>2. \A k \in A : k \in Keys /\ Size(s.data, k) <= Size(s.data, k)
  BY <1>1
<1> HIDE DEF A
<1>3. SizeOf(s, A) <= SizeOf(s, Keys)
  BY <1>1, <1>2, SumWithin
<1>4. SizeOf(s, A) \in Nat /\ SizeOf(s, Keys) \in Nat
  BY <1>1, SumAny
<1> QED
  BY <1>3, <1>4 DEF LiveSize, A

LEMMA SameLiveSize ==
    ASSUME NEW s, s.data \in DataType, NEW t, t.data = s.data, NEW n
    PROVE  LiveSize(t, n) = LiveSize(s, n)
<1>1. t.data \in DataType
  OBVIOUS
<1>2. \A k \in Keys : /\ Live(t, k, n) <=> Live(s, k, n)
                      /\ Size(t.data, k) = Size(s.data, k) /\ Size(s.data, k) \in Nat
  BY SizeType DEF Live, Has
<1>3. \A k \in Keys : Size(t.data, k) <= Size(s.data, k) /\ Size(s.data, k) <= Size(t.data, k)
  BY <1>2
<1>4. LiveSize(t, n) <= LiveSize(s, n)
  BY <1>1, <1>2, <1>3, LiveLess
<1>5. LiveSize(s, n) <= LiveSize(t, n)
  BY <1>1, <1>2, <1>3, LiveLess
<1>6. LiveSize(s, n) \in Nat /\ LiveSize(t, n) \in Nat
  BY <1>1, LiveSizeType
<1> QED
  BY <1>4, <1>5, <1>6

\* A command that may be refused for lack of memory.
LEMMA WriteGrows ==
    ASSUME NEW s, Good(s), NEW t, Good(t), NEW c \in CommandType, c.op \in DenyOom, NEW n,
           AllBecome(t.data, s.data, c, n)
    PROVE  SizeOf(t, Keys) <= SizeOf(s, Keys) + Growth(c)
<1>0. s.data \in DataType /\ t.data \in DataType /\ \A k \in Keys : Becomes(t.data[k], s.data[k], c, k, n)
  BY DEF Good, Sound, StoreType, AllBecome
<1>a. SizeOf(t, Keys) \in Nat /\ SizeOf(s, Keys) \in Nat /\ Growth(c) \in Nat
  BY <1>0, SumAny, GrowthLimited
<1>1. CASE c.op = "INCR"
  <2>1. c.key \in Keys /\ Growth(c) = TopCost /\ c.op \in Keyed
    BY <1>1 DEF CommandType, Growth, TopCost, Keyed
  <2>2. Size(t.data, c.key) <= TopCost /\ TopCost \in Nat
    BY <2>1, SizeLimited, TopCostIs
  <2>3. \A j \in Keys : j = c.key \/ t.data[j] = s.data[j]
    BY <1>0, <2>1 DEF Becomes
  <2>4. SizeOf(t, Keys) <= SizeOf(s, Keys) + TopCost
    BY <1>0, <2>1, <2>2, <2>3, SumPut
  <2> QED
    BY <2>1, <2>4
<1>2. CASE c.op = "SET"
  <2> DEFINE g == Cost(c.value)
             k == c.key
  <2>1. k \in Keys /\ c.value \in Value /\ g \in Nat /\ Growth(c) = g /\ c.op \in Keyed
    BY <1>2, StoreAssumption DEF CommandType, Growth, Keyed, Value
  <2>2. \A j \in Keys : j = k \/ t.data[j] = s.data[j]
    BY <1>0, <2>1 DEF Becomes
  <2>3. t.data[k] = After(s.data[k], c, n)
    BY <1>0, <2>1 DEF Becomes
  <2> DEFINE a == IF c.ttl = None THEN None ELSE n + c.ttl
  <2>4. t.data[k] = NewEntry(c.value, a) \/ t.data[k] = Fresh(s.data[k], n)
    BY <1>2, <2>3 DEF After
  <2> HIDE DEF g, k, a
  <2>5. CASE t.data[k] = NewEntry(c.value, a)
    <3>1. t.data[k].size = g
      BY <2>5 DEF NewEntry, g
    <3>2. Size(t.data, k) <= g
      BY <2>1, <3>1 DEF Size
    <3>3. SizeOf(t, Keys) <= SizeOf(s, Keys) + g
      BY <1>0, <2>1, <2>2, <3>2, SumPut
    <3> QED
      BY <2>1, <3>3
  <2>6. CASE t.data[k] = Fresh(s.data[k], n)
    <3>1. ASSUME NEW j \in Keys, t.data[j] # None
          PROVE  Size(t.data, j) <= Size(s.data, j)
      <4>1. t.data[j] = s.data[j]
        BY <2>2, <2>6, <3>1 DEF Fresh
      <4>2. Size(t.data, j) = Size(s.data, j) /\ Size(s.data, j) \in Nat
        BY <1>0, <4>1, SizeType DEF Size
      <4> QED
        BY <4>2
    <3>2. SizeOf(t, Keys) <= SizeOf(s, Keys)
      BY <1>0, <3>1, SumWithin
    <3> QED
      BY <1>a, <3>2
  <2> QED
    BY <2>4, <2>5, <2>6
<1>3. CASE c.op = "MSET"
  <2> DEFINE q == c.pairs
             P == {k \in Keys : \E i \in 1..Len(q) : q[i][1] = k}
             R == Keys \ P
             u == DispatchMset(Empty(NoLimit), c, 0)
  <2>1. /\ Growth(c) = SizeOf(u, Keys) /\ u.data \in DataType
        /\ \A k \in Keys : Assigned(u.data[k], None, q, k)
    BY <1>3, MsetMemory
  <2>2. q \in Seq(Keys \X Value) /\ \A k \in Keys : Assigned(t.data[k], s.data[k], q, k)
    BY <1>0, <1>3 DEF Becomes, CommandType
  <2> HIDE DEF u, q
  <2>3. \A k \in P : t.data[k] = u.data[k]
    BY <2>1, <2>2, AssignedSame
  <2>4. \A k \in R : t.data[k] = s.data[k]
    BY <2>2 DEF Assigned
  <2>5. P \subseteq Keys /\ R \subseteq Keys
    OBVIOUS
  <2>6. SizeOf(t, Keys) = SizeOf(t, P) + SizeOf(t, R)
    <3> HIDE DEF P
    <3> QED
      BY <1>0, <2>5, SumSplit
  <2> HIDE DEF P, R
  <2>7. SizeOf(t, P) <= SizeOf(u, Keys)
    <3>1. \A k \in P : k \in Keys /\ Size(t.data, k) <= Size(u.data, k)
      <4> TAKE k \in P
      <4>1. Size(t.data, k) = Size(u.data, k) /\ Size(u.data, k) \in Nat
        BY <2>1, <2>3, <2>5, SizeType DEF Size
      <4> QED
        BY <2>5, <4>1
    <3> QED
      BY <1>0, <2>1, <2>5, <3>1, SumWithin
  <2>8. SizeOf(t, R) <= SizeOf(s, Keys)
    <3>1. \A k \in R : k \in Keys /\ Size(t.data, k) <= Size(s.data, k)
      <4> TAKE k \in R
      <4>1. Size(t.data, k) = Size(s.data, k) /\ Size(s.data, k) \in Nat
        BY <1>0, <2>4, <2>5, SizeType DEF Size
      <4> QED
        BY <2>5, <4>1
    <3> QED
      BY <1>0, <2>5, <3>1, SumWithin
  <2>9. SizeOf(t, P) \in Nat /\ SizeOf(t, R) \in Nat
    BY <1>0, <2>5, SumAny
  <2> QED
    BY <1>a, <2>1, <2>6, <2>7, <2>8, <2>9
<1> QED
  BY <1>1, <1>2, <1>3 DEF DenyOom

\* The other writes make nothing live and nothing larger.
LEMMA WriteKeepsSize ==
    ASSUME NEW s, Good(s), NEW t, Good(t), NEW c \in CommandType,
           c.op \in {"DEL", "EXPIRE", "PEXPIREAT", "PERSIST", "FLUSHDB"}, NEW n,
           AllBecome(t.data, s.data, c, n)
    PROVE  LiveSize(t, n) <= LiveSize(s, n)
<1>0. s.data \in DataType /\ t.data \in DataType /\ \A k \in Keys : Becomes(t.data[k], s.data[k], c, k, n)
  BY DEF Good, Sound, StoreType, AllBecome
<1>1. ASSUME NEW k \in Keys, Live(t, k, n)
      PROVE  Live(s, k, n) /\ Size(t.data, k) <= Size(s.data, k)
  <2> DEFINE e == s.data[k]
             f == t.data[k]
  <2>0. Becomes(f, e, c, k, n) /\ f # None /\ ~IsExpired(f, n) /\ (e = None \/ e \in Entry)
    BY <1>0, <1>1, DataEntry DEF Live, Has
  <2>1. Size(s.data, k) \in Nat
    BY <1>0, SizeType
  <2>2. Live(s, k, n) <=> (e # None /\ ~IsExpired(e, n))
    BY DEF Live, Has
  <2>3. (e # None => Size(s.data, k) = e.size) /\ Size(t.data, k) = f.size
    BY <2>0 DEF Size
  <2> HIDE DEF e, f
  <2>4. e # None /\ ~IsExpired(e, n) /\ f.size = e.size
    <3>1. f = e \/ \E a : f = Redated(Fresh(e, n), a)
      BY <2>0 DEF Becomes, After, Keyed
    <3>2. CASE f = e
      BY <2>0, <3>2
    <3>3. ASSUME NEW a, f = Redated(Fresh(e, n), a)
          PROVE  e # None /\ ~IsExpired(e, n) /\ f.size = e.size
      <4>1. e # None /\ ~IsExpired(e, n) /\ f = [e EXCEPT !.expireAt = a]
        BY <2>0, <3>3 DEF Redated, Fresh
      <4> QED
        BY <2>0, <4>1 DEF Entry
    <3> QED
      BY <3>1, <3>2, <3>3
  <2> QED
    BY <2>1, <2>2, <2>3, <2>4
<1> QED
  BY <1>0, <1>1, LiveLess

-----------------------------------------------------------------------------
(***************************************************************************)
(* What a log can bring back.  No memory is checked in a replay, so the    *)
(* invariant bounds every store a restart may build, now or later and from *)
(* any prefix of the log: what is live in it was live in the store, or is  *)
(* of an earlier store, which was bounded too.                             *)
(***************************************************************************)
\* The keys that are counted.
Counters == {c.key : c \in {d \in Commands : d.op = "INCR"}}

\* The records of a log, when counters get no deadline.
Steady ==
    {c \in Recorded : /\ c.op = "INCR" => c.key \in Counters
                      /\ c.op = "PEXPIREAT" => c.key \notin Counters}

Undated(e) == e = None \/ e.expireAt = None

\* The entry x of k in a replay at n, and its entry e in the store.
Follows(x, e, k, n) ==
    /\ Fresh(x, n) \in {None, Fresh(e, n)}
    /\ k \in Counters => x = e /\ Undated(e)

FollowsAt(d, o, l, n) == \A k \in Keys : Follows(DispatchAll(Empty(o), l, n).data[k], d[k], k, n)

Follow(d, o, l, at) == \A n \in Int : n >= at => FollowsAt(d, o, l, n)

\* Replaying the first records of l, at the time at or later, takes b at most.
Capped(o, l, at, b) ==
    \A j \in 0..Len(l) : \A n \in Int :
        n >= at => LiveSize(DispatchAll(Empty(o), SubSeq(l, 1, j), n), n) <= b

Limits(d, o, l, at, b) == l \in Seq(Steady) /\ Follow(d, o, l, at) /\ Capped(o, l, at, b)

-----------------------------------------------------------------------------
LEMMA SteadyRecorded == \A l \in Seq(Steady) : l \in Seq(Recorded) /\ l \in Seq(CommandType)
<1>1. Steady \subseteq Recorded
  BY DEF Steady
<1>2. \A l \in Seq(Steady) : l \in Seq(Recorded)
  BY <1>1
<1> QED
  BY <1>2, RecordedCommands

LEMMA FreshEarlier ==
    ASSUME NEW e, e = None \/ e \in Entry, NEW n \in Int, NEW m \in Int, n <= m, Fresh(e, m) # None
    PROVE  Fresh(e, m) = e /\ Fresh(e, n) = e
<1>1. Fresh(Fresh(e, n), m) = Fresh(e, m)
  BY FreshLater
<1> QED
  BY <1>1 DEF Fresh

\* One record, for one key.
LEMMA FollowsStep ==
    ASSUME NEW e, e = None \/ e \in Entry, NEW x, NEW c \in Steady, NEW k, NEW at \in Int, NEW n \in Int,
           at <= n, NEW d, NEW y, Becomes(d, e, c, k, at), Becomes(y, x, c, k, n), Follows(x, e, k, n)
    PROVE  Follows(y, d, k, n)
<1>0. c \in Recorded /\ c \in CommandType /\ Absolute(c)
  BY DEF Steady, Recorded, Absolute
<1>1. CASE c.op \in Keyed /\ c.key # k
  BY <1>1 DEF Becomes
<1>2. CASE c.op \in {"PEXPIREAT", "PERSIST"} /\ c.key = k
  <2> DEFINE a == IF c.op = "PERSIST" THEN None ELSE c.at
  <2>1. d = Redated(Fresh(e, at), a) /\ y = Redated(Fresh(x, n), a)
    BY <1>2 DEF Becomes, After, Keyed
  <2>2. k \in Counters => c.op = "PERSIST" /\ a = None
    BY <1>2 DEF Steady
  <2> HIDE DEF a
  <2>3. k \in Counters => y = d /\ Undated(d)
    <3> SUFFICES ASSUME k \in Counters
                 PROVE  y = d /\ Undated(d)
      OBVIOUS
    <3>1. x = e /\ Undated(e)
      BY DEF Follows
    <3>2. Fresh(e, at) = e /\ Fresh(x, n) = e
      BY <3>1 DEF Undated, Fresh, IsExpired
    <3>3. CASE e = None
      BY <2>1, <3>2, <3>3 DEF Redated, Undated
    <3>4. CASE e # None
      <4>1. e \in Entry /\ d = [e EXCEPT !.expireAt = None] /\ y = d
        BY <2>1, <2>2, <3>2, <3>4 DEF Redated
      <4> QED
        BY <4>1 DEF Undated, Entry
    <3> QED
      BY <3>3, <3>4
  <2>4. Fresh(y, n) \in {None, Fresh(d, n)}
    <3>1. CASE Fresh(x, n) = None
      BY <2>1, <3>1 DEF Redated, Fresh
    <3>2. CASE Fresh(x, n) # None
      <4>1. Fresh(x, n) = Fresh(e, n)
        BY <3>2 DEF Follows
      <4>2. Fresh(e, n) = Fresh(e, at)
        BY <3>2, <4>1, FreshEarlier
      <4>3. y = d
        BY <2>1, <4>1, <4>2
      <4> QED
        BY <4>3
    <3> QED
      BY <3>1, <3>2
  <2> QED
    BY <2>3, <2>4 DEF Follows
<1>3. CASE c.op = "INCR" /\ c.key = k
  <2>1. k \in Counters /\ c.op \in Keyed
    BY <1>3 DEF Steady, Keyed
  <2>2. x = e /\ Undated(e)
    BY <2>1 DEF Follows
  <2>3. Fresh(e, at) = e /\ Fresh(x, n) = e
    BY <2>2 DEF Undated, Fresh, IsExpired
  <2>4. d = After(e, c, at) /\ y = After(x, c, n)
    BY <1>3, <2>1 DEF Becomes
  <2>5. d = y
    BY <1>0, <2>1, <2>3, <2>4, SameAfter
  <2>6. Undated(d)
    BY <1>3, <2>2, <2>3, <2>4 DEF After, Counted, NewEntry, Undated
  <2> QED
    BY <2>5, <2>6 DEF Follows
<1>4. CASE c.op \in {"SET", "DEL"} /\ c.key = k
  <2>1. d = After(e, c, at) /\ y = After(x, c, n)
    BY <1>4 DEF Becomes, Keyed
  <2>2. CASE c.op = "DEL"
    BY <2>1, <2>2 DEF After, Follows, Undated
  <2>3. CASE c.op = "SET"
    <3>1. d = NewEntry(c.value, None) /\ y = d
      BY <1>0, <2>1, <2>3 DEF After, SetRefused, Recorded
    <3> QED
      BY <3>1 DEF Follows, Undated, NewEntry
  <2> QED
    BY <1>4, <2>2, <2>3
<1>5. CASE c.op = "MSET"
  <2>1. c.pairs \in Seq(Keys \X Value)
    BY <1>0, <1>5 DEF CommandType
  <2>2. Assigned(d, e, c.pairs, k) /\ Assigned(y, x, c.pairs, k)
    BY <1>5 DEF Becomes
  <2>3. CASE \E i \in 1..Len(c.pairs) : c.pairs[i][1] = k
    <3>1. d = y
      BY <2>1, <2>2, <2>3, AssignedSame
    <3>2. Undated(d)
      BY <2>2, <2>3 DEF Assigned, NewEntry, Undated
    <3> QED
      BY <3>1, <3>2 DEF Follows
  <2>4. CASE ~\E i \in 1..Len(c.pairs) : c.pairs[i][1] = k
    BY <2>2, <2>4 DEF Assigned
  <2> QED
    BY <2>3, <2>4
<1>6. CASE c.op = "FLUSHDB"
  BY <1>6 DEF Becomes, Follows, Undated
<1> QED
  BY <1>0, <1>1, <1>2, <1>3, <1>4, <1>5, <1>6 DEF Recorded, Keyed

\* A replay, one record further.
LEMMA ReplayOneMore ==
    ASSUME NEW o \in Options, Unevicting(o), NEW l \in Seq(CommandType), NEW c \in CommandType, NEW n \in Int,
           NEW R, R = DispatchAll(Empty(o), l, n), NEW r, r = DispatchAll(Empty(o), Append(l, c), n)
    PROVE  Still(R) /\ Still(r) /\ \A k \in Keys : Becomes(r.data[k], R.data[k], c, k, n)
<1> DEFINE E == Empty(o)
<1>1. Still(E) /\ R = DispatchAll(E, l, n) /\ r = DispatchAll(E, Append(l, c), n)
  BY EmptyStill
<1> HIDE DEF E
<1>2. Still(R)
  BY <1>1, DispatchAllStill
<1>3. r = Dispatch(R, c, n).store
  <2> DEFINE b == <<c>>
  <2>1. b \in Seq(CommandType) /\ Append(l, c) = l \o b
    OBVIOUS
  <2> HIDE DEF b
  <2>2. DispatchAll(E, l \o b, n) = DispatchAll(DispatchAll(E, l, n), b, n)
    BY <2>1, DispatchConcat
  <2>3. DispatchAll(R, <<c>>, n) = Dispatch(R, c, n).store
    BY DispatchOne
  <2> QED
    BY <1>1, <2>1, <2>2, <2>3 DEF b
<1> QED
  BY <1>2, <1>3, DispatchEffect

LEMMA RecordFollows ==
    ASSUME NEW o \in Options, Unevicting(o), NEW d \in DataType, NEW l \in Seq(Steady), NEW at \in Int,
           Follow(d, o, l, at), NEW c \in Steady, NEW d2, AllBecome(d2, d, c, at)
    PROVE  Follow(d2, o, Append(l, c), at)
<1>0. l \in Seq(CommandType) /\ c \in CommandType
  BY SteadyRecorded DEF Steady, Recorded
<1> SUFFICES ASSUME NEW n \in Int, n >= at
             PROVE  FollowsAt(d2, o, Append(l, c), n)
  BY DEF Follow
<1> DEFINE R == DispatchAll(Empty(o), l, n)
           r == DispatchAll(Empty(o), Append(l, c), n)
<1>1. \A k \in Keys : Follows(R.data[k], d[k], k, n)
  BY DEF Follow, FollowsAt
<1>2. \A k \in Keys : Becomes(r.data[k], R.data[k], c, k, n)
  BY <1>0, ReplayOneMore
<1> HIDE DEF R, r
<1>3. ASSUME NEW k \in Keys
      PROVE  Follows(r.data[k], d2[k], k, n)
  <2> DEFINE e == d[k]
             f == d2[k]
             x == R.data[k]
             y == r.data[k]
  <2>1. Becomes(f, e, c, k, at) /\ Becomes(y, x, c, k, n) /\ Follows(x, e, k, n) /\ at <= n
    BY <1>1, <1>2 DEF AllBecome
  <2>2. e = None \/ e \in Entry
    BY DataEntry
  <2> HIDE DEF e, f, x, y
  <2>3. Follows(y, f, k, n)
    BY <2>1, <2>2, FollowsStep
  <2> QED
    BY <2>3 DEF y, f
<1> QED
  BY <1>3 DEF FollowsAt, r

\* A store that has just been replayed.
LEMMA ReplayFollows ==
    ASSUME NEW o \in Options, Unevicting(o), NEW l \in Seq(Steady), NEW at \in Int
    PROVE  Follow(DispatchAll(Empty(o), l, at).data, o, l, at)
<1> DEFINE E == Empty(o)
           L == Len(l)
           first(n) == SubSeq(l, 1, n)
           At(n) == DispatchAll(E, first(n), at)
           Holds(n) == first(n) \in Seq(Steady) /\ Follow(At(n).data, o, first(n), at)
           N == {n \in Nat : n <= L => Holds(n)}
<1>0. L \in Nat /\ (\A i \in 1..L : l[i] \in Steady)
  OBVIOUS
<1>1. Still(E) /\ \A k \in Keys : E.data[k] = None
  BY EmptyStill
<1>2. 0 \in N
  <2>1. first(0) = <<>> /\ <<>> \in Seq(Steady)
    OBVIOUS
  <2>2. \A n \in Int : DispatchAll(E, <<>>, n) = E
    BY DispatchNothing
  <2>3. \A k \in Keys, n \in Int : Follows(E.data[k], E.data[k], k, n)
    BY <1>1 DEF Follows, Undated
  <2>4. Follow(E.data, o, <<>>, at)
    BY <2>2, <2>3 DEF Follow, FollowsAt
  <2>5. At(0) = E
    BY <2>1, <2>2
  <2> QED
    BY <2>1, <2>4, <2>5
<1>3. \A n \in Nat : n \in N => n + 1 \in N
  <2> HIDE DEF L
  <2> SUFFICES ASSUME NEW n \in Nat, Holds(n), n + 1 <= L
               PROVE  Holds(n + 1)
    <3> HIDE DEF Holds
    <3> QED
      BY <1>0
  <2> DEFINE a == first(n)
             c == l[n + 1]
             x == At(n)
             y == At(n + 1)
  <2>1. c \in Steady
    BY <1>0
  <2>2. first(n + 1) = Append(a, c)
    BY <1>0 DEF L
  <2>3. a \in Seq(Steady) /\ Follow(x.data, o, a, at)
    OBVIOUS
  <2>4. x = DispatchAll(Empty(o), a, at) /\ y = DispatchAll(Empty(o), Append(a, c), at)
    BY <2>2
  <2> HIDE DEF a, c, x, y
  <2>5. c \in CommandType /\ a \in Seq(CommandType)
    BY <2>1, <2>3, SteadyRecorded DEF Steady, Recorded
  <2>6. Still(x) /\ \A k \in Keys : Becomes(y.data[k], x.data[k], c, k, at)
    BY <2>4, <2>5, ReplayOneMore
  <2>7. AllBecome(y.data, x.data, c, at) /\ x.data \in DataType
    BY <2>6 DEF AllBecome, Still, Good, Sound, StoreType
  <2>8. Follow(y.data, o, Append(a, c), at)
    BY <2>1, <2>3, <2>7, RecordFollows
  <2>9. Append(a, c) \in Seq(Steady)
    BY <2>1, <2>3
  <2> QED
    BY <2>2, <2>8, <2>9 DEF y
<1> HIDE DEF N
<1>4. L \in N
  BY <1>0, <1>2, <1>3, Induction
<1>5. Holds(L)
  <2> HIDE DEF Holds
  <2> QED
    BY <1>0, <1>4 DEF N
<1>6. first(L) = l
  OBVIOUS
<1> QED
  BY <1>5, <1>6

LEMMA FollowKept ==
    ASSUME NEW o, NEW d \in DataType, NEW l, NEW at \in Int, Follow(d, o, l, at),
           NEW d2, \A k \in Keys : Kept(d2[k], d[k], at)
    PROVE  Follow(d2, o, l, at)
<1> SUFFICES ASSUME NEW n \in Int, n >= at, NEW k \in Keys
             PROVE  Follows(DispatchAll(Empty(o), l, n).data[k], d2[k], k, n)
  BY DEF Follow, FollowsAt
<1> DEFINE x == DispatchAll(Empty(o), l, n).data[k]
           e == d[k]
           f == d2[k]
<1>1. Follows(x, e, k, n) /\ Kept(f, e, at) /\ at <= n
  BY DEF Follow, FollowsAt
<1>2. e = None \/ e \in Entry
  BY DataEntry
<1> HIDE DEF x, e, f
<1>3. Fresh(f, n) = Fresh(e, n)
  BY <1>1, <1>2, FreshLater DEF Kept
<1>4. Undated(e) => f = e
  BY <1>1 DEF Kept, Undated, Fresh, IsExpired
<1>5. Follows(x, f, k, n)
  BY <1>1, <1>3, <1>4 DEF Follows
<1> QED
  BY <1>5 DEF x, f

LEMMA LimitsKept ==
    ASSUME NEW o, NEW d \in DataType, NEW l, NEW at \in Int, NEW b, Limits(d, o, l, at, b),
           NEW d2, \A k \in Keys : Kept(d2[k], d[k], at)
    PROVE  Limits(d2, o, l, at, b)
BY FollowKept DEF Limits

LEMMA LimitsLater ==
    ASSUME NEW o, NEW d, NEW l, NEW at \in Int, NEW n \in Int, at <= n, NEW b, Limits(d, o, l, at, b)
    PROVE  Limits(d, o, l, n, b)
<1>1. \A m \in Int : m >= n => m >= at
  OBVIOUS
<1> QED
  BY <1>1 DEF Limits, Follow, Capped

\* What is live in a replay was live in the store.
LEMMA ReplaySmaller ==
    ASSUME NEW o \in Options, Unevicting(o), NEW s, Good(s), NEW l \in Seq(CommandType), NEW at \in Int,
           NEW n \in Int, n >= at, Follow(s.data, o, l, at)
    PROVE  LiveSize(DispatchAll(Empty(o), l, n), n) <= LiveSize(s, at)
<1> DEFINE E == Empty(o)
           R == DispatchAll(E, l, n)
<1>1. \A k \in Keys : Follows(R.data[k], s.data[k], k, n)
  BY DEF Follow, FollowsAt
<1>2. Still(E)
  BY EmptyStill
<1> HIDE DEF E
<1>3. Still(R)
  BY <1>2, DispatchAllStill
<1> HIDE DEF R
<1>4. R.data \in DataType /\ s.data \in DataType
  BY <1>3 DEF Still, Good, Sound, StoreType
<1>5. ASSUME NEW k \in Keys, Live(R, k, n)
      PROVE  Live(s, k, at) /\ Size(R.data, k) <= Size(s.data, k)
  <2> DEFINE x == R.data[k]
             e == s.data[k]
  <2>1. x # None /\ ~IsExpired(x, n) /\ Follows(x, e, k, n) /\ (e = None \/ e \in Entry) /\ at <= n
    BY <1>1, <1>4, <1>5, DataEntry DEF Live, Has
  <2>2. Live(s, k, at) <=> (e # None /\ ~IsExpired(e, at))
    BY DEF Live, Has
  <2>3. Size(s.data, k) \in Nat
    BY <1>4, SizeType
  <2>4. (x = e => Size(R.data, k) = Size(s.data, k))
    BY DEF Size
  <2> HIDE DEF x, e
  <2>5. Fresh(x, n) = x /\ Fresh(e, n) = x
    BY <2>1 DEF Fresh, Follows
  <2>6. Fresh(e, n) = e /\ Fresh(e, at) = e
    BY <2>1, <2>5, FreshEarlier
  <2>7. x = e /\ ~IsExpired(e, at)
    BY <2>1, <2>5, <2>6 DEF Fresh
  <2> QED
    BY <2>1, <2>2, <2>3, <2>4, <2>7
<1>6. LiveSize(R, n) <= LiveSize(s, at)
  BY <1>4, <1>5, LiveLess
<1> QED
  BY <1>6 DEF R, E

LEMMA RecordCapped ==
    ASSUME NEW o \in Options, Unevicting(o), NEW t, Good(t), NEW l \in Seq(Steady), NEW c \in Steady,
           NEW at \in Int, NEW b \in Int, Capped(o, l, at, b), Follow(t.data, o, Append(l, c), at),
           LiveSize(t, at) <= b
    PROVE  Capped(o, Append(l, c), at, b)
<1> DEFINE p == Append(l, c)
           L == Len(l)
<1>0. /\ p \in Seq(Steady) /\ L \in Nat /\ Len(p) = L + 1 /\ SubSeq(p, 1, L + 1) = p
      /\ \A j \in 0..L : SubSeq(p, 1, j) = SubSeq(l, 1, j)
  OBVIOUS
<1>1. \A j \in 0..Len(p) : j \in 0..L \/ j = L + 1
  BY <1>0
<1>2. p \in Seq(CommandType)
  <2> HIDE DEF p
  <2> QED
    BY <1>0, SteadyRecorded
<1>3. Follow(t.data, o, p, at)
  OBVIOUS
<1> HIDE DEF p, L
<1> SUFFICES ASSUME NEW j \in 0..Len(p), NEW n \in Int, n >= at
             PROVE  LiveSize(DispatchAll(Empty(o), SubSeq(p, 1, j), n), n) <= b
  BY DEF Capped, p
<1>4. CASE j \in 0..L
  BY <1>0, <1>4 DEF Capped, L
<1>5. CASE j = L + 1
  <2> DEFINE R == DispatchAll(Empty(o), p, n)
             E == Empty(o)
  <2>1. LiveSize(R, n) <= LiveSize(t, at)
    BY <1>2, <1>3, ReplaySmaller
  <2>2. Still(E)
    BY EmptyStill
  <2>3. R.data \in DataType
    <3> HIDE DEF E
    <3>1. Still(DispatchAll(E, p, n))
      BY <1>2, <2>2, DispatchAllStill
    <3> QED
      BY <3>1 DEF Still, Good, Sound, StoreType, E
  <2>4. t.data \in DataType
    BY DEF Good, Sound, StoreType
  <2> HIDE DEF R
  <2>5. LiveSize(R, n) \in Nat /\ LiveSize(t, at) \in Nat
    BY <2>3, <2>4, LiveSizeType
  <2>6. LiveSize(R, n) <= b
    BY <2>1, <2>5
  <2> QED
    BY <1>0, <1>5, <2>6 DEF R
<1> QED
  BY <1>1, <1>4, <1>5

\* A record is appended for a command that has been executed.
LEMMA RecordLimits ==
    ASSUME NEW o \in Options, Unevicting(o), NEW s, Good(s), NEW t, Good(t), NEW l, NEW at \in Int,
           NEW b \in Int, Limits(s.data, o, l, at, b), NEW c \in Steady, AllBecome(t.data, s.data, c, at),
           LiveSize(t, at) <= b
    PROVE  Limits(t.data, o, Append(l, c), at, b)
<1>1. l \in Seq(Steady) /\ Follow(s.data, o, l, at) /\ Capped(o, l, at, b) /\ s.data \in DataType
  BY DEF Limits, Good, Sound, StoreType
<1>2. Follow(t.data, o, Append(l, c), at)
  BY <1>1, RecordFollows
<1>3. Capped(o, Append(l, c), at, b)
  BY <1>1, <1>2, RecordCapped
<1>4. Append(l, c) \in Seq(Steady)
  BY <1>1
<1> QED
  BY <1>2, <1>3, <1>4 DEF Limits

\* The records of one command, appended to any log that limits what it brings.
LEMMA WriteLimits ==
    ASSUME CountersLast, NEW o \in Options, Unevicting(o), NEW s, Still(s), NEW l, NEW c \in Commands,
           c \in CommandType, now \in Int, NEW b \in Int, Limits(s.data, o, l, now, b), NEW r,
           r = Dispatch(s, c, now), c.op \in WriteCommands, r.ok, LiveSize(r.store, now) <= b,
           c.op \in DenyOom => SizeOf(s, Keys) + Growth(c) <= b
    PROVE  Limits(r.store.data, o, l \o Records(c, r), now, b)
<1> DEFINE t == r.store
           own == IF c.op # "SET" \/ r.wrote THEN ToAof(c, now) ELSE <<>>
<1>0. s.data \in DataType /\ l \in Seq(Steady) /\ Good(s) /\ s.evicted = <<>> /\ NoEviction(s)
  BY DEF Still, Good, Sound, StoreType, Limits
<1>1. Still(t) /\ SameOptions(t, s) /\ \A k \in Keys : Becomes(t.data[k], s.data[k], c, k, now)
  BY DispatchEffect
<1>2. AllBecome(t.data, s.data, c, now) /\ Good(t)
  BY <1>1 DEF AllBecome, Still
<1>3. l \o Records(c, r) = l \o own
  <2> DEFINE q == t.evicted
             del == [i \in 1..Len(q) |-> CmdDel(q[i])]
  <2>1. q = <<>>
    BY <1>1 DEF Still
  <2> HIDE DEF q
  <2>2. del = <<>>
    BY <2>1
  <2>3. own \in Seq(CommandType)
    BY ToAofType
  <2>4. Records(c, r) = own \o del
    BY DEF Records, q
  <2> HIDE DEF own, del
  <2>5. own \o del = own
    BY <2>2, <2>3
  <2> QED
    BY <2>4, <2>5
<1>4. \A x \in Steady : l \o <<x>> = Append(l, x)
  BY <1>0
<1>5. c.op \in {"EXPIRE", "PEXPIREAT"} \/ (c.op = "SET" /\ c.ttl # None) => c.key \notin Counters
  <2> SUFFICES ASSUME c.op \in {"EXPIRE", "PEXPIREAT"} \/ (c.op = "SET" /\ c.ttl # None),
                      NEW i \in Commands, i.op = "INCR"
               PROVE  c.key # i.key
    BY DEF Counters
  <2> QED
    BY DEF CountersLast
<1> HIDE DEF t
<1>6. CASE c.op = "SET"
  <2> DEFINE p == PlainSet(c.key, c.value)
             a == now + c.ttl
             q == CmdPexpireat(c.key, a)
             f(k) == Fresh(s.data[k], now)
  <2>0. c.key \in Keys /\ c.value \in Value /\ c.ttl \in (Nat \ {0}) \cup {None} /\ c.op \in Keyed
    BY <1>6 DEF CommandType, Keyed
  <2>1. /\ p \in CommandType /\ p.op = "SET" /\ p.key = c.key /\ p.value = c.value
        /\ p.ttl = None /\ p.mode = "always"
    BY <2>0, CommandTypes DEF PlainSet, CmdSet
  <2>2. r.wrote = ~SetRefused(f(c.key), c)
    BY <1>0, <1>6, <2>0, KeyedEffect
  <2>3. \A k \in Keys : t.data[k] = IF k = c.key THEN After(s.data[k], c, now) ELSE s.data[k]
    BY <1>2, <2>0 DEF AllBecome, Becomes
  <2>4. p \in Steady
    BY <2>1 DEF Recorded, Steady
  <2> HIDE DEF p
  <2>5. \A e, k, x : x = (IF k = c.key THEN NewEntry(c.value, None) ELSE e) <=> Becomes(x, e, p, k, now)
    <3>1. \A e : After(e, p, now) = NewEntry(c.value, None)
      BY <2>1 DEF After, SetRefused
    <3>2. p.op \in Keyed
      BY <2>1 DEF Keyed
    <3> QED
      BY <2>1, <3>1, <3>2 DEF Becomes
  <2>6. CASE ~r.wrote
    <3>1. \A k \in Keys : Kept(t.data[k], s.data[k], now)
      BY <1>6, <2>2, <2>3, <2>6 DEF Kept, After
    <3>2. Limits(t.data, o, l, now, b)
      BY <1>0, <3>1, LimitsKept
    <3>3. l \o own = l
      BY <1>0, <1>6, <2>6
    <3> QED
      BY <1>3, <3>2, <3>3 DEF t
  <2>7. CASE r.wrote /\ c.ttl = None
    <3>1. \A k \in Keys : t.data[k] = IF k = c.key THEN NewEntry(c.value, None) ELSE s.data[k]
      BY <1>6, <2>2, <2>3, <2>7 DEF After
    <3>2. AllBecome(t.data, s.data, p, now)
      BY <2>5, <3>1 DEF AllBecome
    <3>3. Limits(t.data, o, Append(l, p), now, b)
      BY <1>0, <1>2, <2>4, <3>2, RecordLimits DEF t
    <3>4. own = <<p>>
      BY <1>6, <2>7 DEF ToAof, p
    <3> QED
      BY <1>3, <1>4, <2>4, <3>3, <3>4 DEF t
  <2>8. CASE r.wrote /\ c.ttl # None
    <3> DEFINE u == Dispatch(s, p, now).store
               m == Append(l, p)
    <3>0. a \in Int /\ a # None
      <4>1. c.ttl \in Int
        BY <2>0, <2>8
      <4>2. a \in Int
        BY <4>1
      <4> HIDE DEF a
      <4> QED
        BY <4>2, NoneAssumption
    <3>1. q \in CommandType /\ q.op = "PEXPIREAT" /\ q.key = c.key /\ q.at = a
      BY <2>0, <3>0, CommandTypes DEF CmdPexpireat
    <3>2. q \in Steady
      BY <1>5, <1>6, <2>8, <3>1 DEF Recorded, Steady
    <3>3. \A k \in Keys : t.data[k] = IF k = c.key THEN NewEntry(c.value, a) ELSE s.data[k]
      BY <1>6, <2>2, <2>3, <2>8 DEF After
    <3> HIDE DEF a, q
    <3>4. Still(u) /\ \A k \in Keys : Becomes(u.data[k], s.data[k], p, k, now)
      BY <2>1, DispatchEffect
    <3> HIDE DEF u
    <3>5. Good(u) /\ u.data \in DataType /\ AllBecome(u.data, s.data, p, now)
      BY <3>4 DEF Still, Good, Sound, StoreType, AllBecome
    <3>6. LiveSize(u, now) <= b
      <4>1. Growth(p) = Growth(c) /\ p.op \in DenyOom
        BY <1>6, <2>1 DEF Growth, DenyOom
      <4>2. SizeOf(u, Keys) <= SizeOf(s, Keys) + Growth(p)
        BY <1>0, <2>1, <3>5, <4>1, WriteGrows
      <4>3. LiveSize(u, now) \in Nat /\ SizeOf(u, Keys) \in Nat /\ LiveSize(u, now) <= SizeOf(u, Keys)
        BY <3>5, LiveSizeType
      <4>4. SizeOf(s, Keys) \in Nat /\ Growth(c) \in Nat
        BY <1>0, SumAny, GrowthLimited
      <4>5. SizeOf(s, Keys) + Growth(c) <= b
        BY <1>6 DEF DenyOom
      <4> QED
        BY <4>1, <4>2, <4>3, <4>4, <4>5
    <3>7. AllBecome(t.data, u.data, q, now)
      <4>1. q.op \in Keyed /\ \A e : After(e, q, now) = Redated(Fresh(e, now), a)
        BY <3>1 DEF After, Keyed
      <4>2. NewEntry(c.value, None) # None
        <5>1. NewEntry(c.value, None) \in Entry
          BY <2>0, StoreAssumption DEF NewEntry, Entry, Value
        <5> QED
          BY <5>1, NoneAssumption
      <4>3. Redated(Fresh(NewEntry(c.value, None), now), a) = NewEntry(c.value, a)
        BY <4>2 DEF Redated, Fresh, IsExpired, NewEntry
      <4>4. \A k \in Keys : u.data[k] = IF k = c.key THEN NewEntry(c.value, None) ELSE s.data[k]
        BY <2>5, <3>4
      <4>5. \A k \in Keys : t.data[k] = IF k = q.key THEN After(u.data[k], q, now) ELSE u.data[k]
        BY <3>1, <3>3, <4>1, <4>3, <4>4
      <4> QED
        BY <3>1, <4>1, <4>5 DEF AllBecome, Becomes
    <3>8. Limits(u.data, o, m, now, b)
      BY <1>0, <2>4, <3>5, <3>6, RecordLimits
    <3>9. m \in Seq(Steady)
      BY <1>0, <2>4
    <3> HIDE DEF m
    <3>10. Limits(t.data, o, Append(m, q), now, b)
      BY <1>2, <3>2, <3>5, <3>7, <3>8, RecordLimits DEF t
    <3>11. own = <<p, q>>
      BY <1>6, <2>8 DEF ToAof, p, q, a
    <3>12. l \o <<p, q>> = Append(m, q)
      BY <1>0, <2>4, <3>2 DEF m
    <3> QED
      BY <1>3, <3>10, <3>11, <3>12 DEF t
  <2> QED
    BY <2>6, <2>7, <2>8
<1>7. CASE c.op = "EXPIRE"
  <2> DEFINE a == now + c.ttl
             q == CmdPexpireat(c.key, a)
  <2>0. c.key \in Keys /\ a \in Int /\ c.op \in Keyed
    BY <1>7 DEF CommandType, Keyed
  <2>1. q \in CommandType /\ q.op = "PEXPIREAT" /\ q.key = c.key /\ q.at = a
    BY <2>0, CommandTypes DEF CmdPexpireat
  <2>2. q \in Steady
    BY <1>5, <1>7, <2>1 DEF Recorded, Steady
  <2>3. \A e : After(e, c, now) = Redated(Fresh(e, now), a)
    BY <1>7 DEF After
  <2>4. own = <<q>>
    BY <1>7 DEF ToAof
  <2> HIDE DEF a, q
  <2>5. q.op \in Keyed /\ \A e : After(e, q, now) = Redated(Fresh(e, now), a)
    BY <2>1 DEF After, Keyed
  <2>6. \A k \in Keys : t.data[k] = IF k = c.key THEN After(s.data[k], c, now) ELSE s.data[k]
    BY <1>2, <2>0 DEF AllBecome, Becomes
  <2>7. AllBecome(t.data, s.data, q, now)
    BY <2>1, <2>3, <2>5, <2>6 DEF AllBecome, Becomes
  <2>8. Limits(t.data, o, Append(l, q), now, b)
    BY <1>0, <1>2, <2>2, <2>7, RecordLimits DEF t
  <2> QED
    BY <1>3, <1>4, <2>2, <2>4, <2>8 DEF t
<1>8. CASE c.op \notin {"SET", "EXPIRE"}
  <2>1. c \in Recorded
    BY <1>8 DEF Recorded, WriteCommands
  <2>2. c.op = "INCR" => c.key \in Counters
    BY DEF Counters
  <2>3. c \in Steady
    BY <1>5, <2>1, <2>2 DEF Steady
  <2>4. own = <<c>>
    BY <1>8 DEF ToAof
  <2>5. Limits(t.data, o, Append(l, c), now, b)
    BY <1>0, <1>2, <2>3, RecordLimits DEF t
  <2> QED
    BY <1>3, <1>4, <2>3, <2>4, <2>5 DEF t
<1> QED
  BY <1>6, <1>7, <1>8

\* The records of a rewrite say only this of the store they were taken from.
Restoring(s, at) ==
    {c \in Recorded :
        \/ c.op = "SET" /\ Live(s, c.key, at) /\ c.value = s.data[c.key].value
        \/ c.op = "PEXPIREAT" /\ Has(s, c.key) /\ ~Undated(s.data[c.key])}

LEMMA RewriteRestores ==
    ASSUME NEW s, Good(s), NEW at \in Int
    PROVE  RewriteCommands(s, at) \in Seq(Restoring(s, at))
<1> DEFINE es == Snapshot(s, at)
           ks == SnapshotKeys(s, at)
           S == Restoring(s, at)
           restore(e) == IF e.expireAt = None
                         THEN <<PlainSet(e.key, e.value)>>
                         ELSE <<PlainSet(e.key, e.value), CmdPexpireat(e.key, e.expireAt)>>
           q == [i \in 1..Len(es) |-> restore(es[i])]
<1>1. RewriteCommands(s, at) = FlattenSeq(q)
  BY DEF RewriteCommands
<1>2. /\ es \in Seq(SnapshotEntry) /\ Len(es) = Len(ks)
      /\ \A i \in 1..Len(ks) :
            /\ ks[i] \in Keys /\ Live(s, ks[i], at) /\ s.data[ks[i]] \in Entry
            /\ es[i] = [key |-> ks[i], value |-> s.data[ks[i]].value,
                        expireAt |-> s.data[ks[i]].expireAt]
  BY SnapshotLists
<1> HIDE DEF es, ks
<1>3. ASSUME NEW i \in 1..Len(es)
      PROVE  restore(es[i]) \in Seq(S)
  <2> DEFINE k == ks[i]
             d == s.data[k]
             p == PlainSet(k, d.value)
             x == CmdPexpireat(k, d.expireAt)
  <2>1. k \in Keys /\ Live(s, k, at) /\ d \in Entry
    BY <1>2, <1>3
  <2>2. es[i] = [key |-> k, value |-> d.value, expireAt |-> d.expireAt]
    BY <1>2, <1>3
  <2>3. d.value \in Value /\ (d.expireAt # None => d.expireAt \in Int) /\ Has(s, k) /\ d # None
    BY <2>1 DEF Entry, Live, Has
  <2>4. p \in Recorded /\ p.op = "SET" /\ p.key = k /\ p.value = d.value
    BY <2>1, <2>3, CommandTypes DEF Recorded, PlainSet, CmdSet
  <2>5. p \in S
    BY <2>1, <2>4 DEF Restoring
  <2>6. d.expireAt # None => x \in Recorded /\ x.op = "PEXPIREAT" /\ x.key = k
    BY <2>1, <2>3, CommandTypes DEF Recorded, CmdPexpireat
  <2>7. d.expireAt # None => x \in S
    BY <2>3, <2>6 DEF Restoring, Undated
  <2>8. restore(es[i]) = IF d.expireAt = None THEN <<p>> ELSE <<p, x>>
    BY <2>2
  <2> HIDE DEF restore, p, x, S
  <2> QED
    BY <2>5, <2>7, <2>8
<1> HIDE DEF restore, S
<1>4. q \in Seq(Seq(S))
  BY <1>2, <1>3
<1> HIDE DEF q
<1>5. FlattenSeq(q) \in Seq(S)
  BY <1>4, FlattenType
<1> QED
  BY <1>1, <1>5 DEF S

\* The entries such records make, at any time and however many there are.
LEMMA RestoringEntries ==
    ASSUME NEW s, Good(s), NEW at \in Int, NEW o \in Options, Unevicting(o), NEW l \in Seq(Restoring(s, at)),
           NEW n \in Int, NEW R, R = DispatchAll(Empty(o), l, n)
    PROVE  /\ R.data \in DataType
           /\ \A k \in Keys : R.data[k] # None => Live(s, k, at) /\ R.data[k].size = s.data[k].size
<1> DEFINE E == Empty(o)
           S == Restoring(s, at)
           L == Len(l)
<1>0. l \in Seq(CommandType) /\ L \in Nat /\ \A i \in 1..L : l[i] \in S
  <2>1. S \subseteq CommandType
    BY DEF Restoring, Recorded
  <2> HIDE DEF S
  <2>2. l \in Seq(S)
    BY DEF S
  <2> QED
    BY <2>1, <2>2
<1>1. Still(E) /\ \A k \in Keys : E.data[k] = None
  BY EmptyStill
<1>2. PICK f : OneByOne(f, E, l, n)
  BY <1>0, DispatchSteps
<1>3. /\ f[0] = E /\ DispatchAll(E, l, n) = f[L]
      /\ \A i \in Nat : i + 1 <= L => f[i + 1] = Dispatch(f[i], l[i + 1], n).store
  BY <1>2 DEF OneByOne
<1> DEFINE Copy(x, k) == x # None => Live(s, k, at) /\ x.size = s.data[k].size
           Holds(i) == Still(f[i]) /\ \A k \in Keys : Copy(f[i].data[k], k)
           N == {i \in Nat : i <= L => Holds(i)}
<1>4. 0 \in N
  BY <1>1, <1>3
<1> HIDE DEF L, E
<1>5. \A i \in Nat : i \in N => i + 1 \in N
  <2> SUFFICES ASSUME NEW i \in Nat, Holds(i), i + 1 <= L
               PROVE  Holds(i + 1)
    <3> HIDE DEF Holds
    <3> QED
      BY <1>0
  <2> DEFINE c == l[i + 1]
             x == f[i]
             y == f[i + 1]
  <2>1. c \in S /\ y = Dispatch(x, c, n).store /\ Still(x) /\ \A k \in Keys : Copy(x.data[k], k)
    BY <1>0, <1>3
  <2> HIDE DEF c, x, y, Copy
  <2>2. /\ c \in CommandType /\ c.op \in Keyed /\ c.op \in {"SET", "PEXPIREAT"}
        /\ c.op = "SET" => /\ c.ttl = None /\ c.mode = "always"
                           /\ Live(s, c.key, at) /\ c.value = s.data[c.key].value
    BY <2>1 DEF Restoring, Recorded, Keyed
  <2>3. Still(y) /\ \A k \in Keys : Becomes(y.data[k], x.data[k], c, k, n)
    BY <2>1, <2>2, DispatchEffect
  <2>4. x.data \in DataType
    BY <2>1 DEF Still, Good, Sound, StoreType
  <2>5. ASSUME NEW k \in Keys
        PROVE  Copy(y.data[k], k)
    <3> DEFINE e == x.data[k]
               d == y.data[k]
    <3>1. Becomes(d, e, c, k, n) /\ Copy(e, k) /\ (e = None \/ e \in Entry)
      BY <2>1, <2>3, <2>4, DataEntry
    <3> SUFFICES Copy(d, k)
      OBVIOUS
    <3> HIDE DEF e, d
    <3>2. CASE k # c.key
      BY <2>2, <3>1, <3>2 DEF Becomes
    <3>3. CASE k = c.key /\ c.op = "SET"
      <4>1. d = NewEntry(c.value, None)
        BY <2>2, <3>1, <3>3 DEF Becomes, After, SetRefused
      <4>2. Live(s, k, at) /\ c.value = s.data[k].value
        BY <2>2, <3>3
      <4>3. s.data[k].size = Cost(s.data[k].value)
        BY <4>2 DEF Good, Sound, Costed, Live
      <4> QED
        BY <4>1, <4>2, <4>3 DEF Copy, NewEntry
    <3>4. CASE k = c.key /\ c.op = "PEXPIREAT"
      <4>1. d = Redated(Fresh(e, n), c.at)
        BY <2>2, <3>1, <3>4 DEF Becomes, After
      <4>2. d # None => e # None /\ e \in Entry /\ d = [e EXCEPT !.expireAt = c.at]
        BY <3>1, <4>1 DEF Redated, Fresh
      <4>3. d # None => d.size = e.size
        BY <4>2 DEF Entry
      <4> QED
        BY <3>1, <4>2, <4>3 DEF Copy
    <3> QED
      BY <2>2, <3>2, <3>3, <3>4
  <2> QED
    BY <2>3, <2>5 DEF y
<1> HIDE DEF N
<1>6. L \in N
  BY <1>0, <1>4, <1>5, Induction
<1>7. Holds(L)
  <2> HIDE DEF Holds
  <2> QED
    BY <1>0, <1>6 DEF N
<1>8. R = f[L]
  BY <1>3 DEF E
<1> QED
  BY <1>7, <1>8 DEF Still, Good, Sound, StoreType

\* The records of a rewrite limit what they bring, as the store does.
LEMMA RewriteLimits ==
    ASSUME NEW o \in Options, Unevicting(o), NEW s, Good(s), NEW at \in Int, NEW b \in Int,
           \A k \in Keys : s.data[k] = Fresh(s.data[k], at),
           \A k \in Keys : k \in Counters => Undated(s.data[k]),
           LiveSize(s, at) <= b
    PROVE  Limits(s.data, o, RewriteCommands(s, at), at, b)
<1> DEFINE l == RewriteCommands(s, at)
           E == Empty(o)
           y == DispatchAll(E, l, at)
           S == Restoring(s, at)
<1>1. l \in Seq(S)
  BY RewriteRestores
<1>2. l \in Seq(Steady)
  <2>1. \A c \in S : c \in Steady
    <3> TAKE c \in S
    <3>1. c \in Recorded /\ c.op # "INCR" /\ (c.op = "PEXPIREAT" => ~Undated(s.data[c.key]))
      BY DEF Restoring
    <3>2. c.op = "PEXPIREAT" => c.key \in Keys
      BY <3>1 DEF Recorded, CommandType
    <3> QED
      BY <3>1, <3>2 DEF Steady
  <2> HIDE DEF S, l
  <2> QED
    BY <1>1, <2>1
<1>3. Still(E) /\ \A k \in Keys : E.data[k] = None
  BY EmptyStill
<1>4. Follow(y.data, o, l, at)
  <2> HIDE DEF l
  <2> QED
    BY <1>2, ReplayFollows
<1>5. \A k \in Keys : y.data[k] = IF Live(s, k, at) THEN s.data[k] ELSE None
  <2> HIDE DEF E
  <2> QED
    BY <1>3, RewriteReplay
<1>6. \A k \in Keys : y.data[k] = s.data[k]
  BY <1>5 DEF Live, Has, Fresh
<1> HIDE DEF l, y, S
<1>7. Follow(s.data, o, l, at)
  BY <1>4, <1>6 DEF Follow, FollowsAt
<1>8. ASSUME NEW j \in 0..Len(l), NEW n \in Int
      PROVE  LiveSize(DispatchAll(E, SubSeq(l, 1, j), n), n) <= b
  <2> DEFINE q == SubSeq(l, 1, j)
             R == DispatchAll(E, q, n)
  <2>1. q \in Seq(Restoring(s, at))
    BY <1>1 DEF S
  <2> HIDE DEF q
  <2>2. /\ R.data \in DataType
        /\ \A k \in Keys : R.data[k] # None => Live(s, k, at) /\ R.data[k].size = s.data[k].size
    BY <2>1, RestoringEntries
  <2>3. s.data \in DataType /\ LiveSize(s, at) \in Nat
    BY LiveSizeType DEF Good, Sound, StoreType
  <2> HIDE DEF R
  <2>4. ASSUME NEW k \in Keys, Live(R, k, n)
        PROVE  Live(s, k, at) /\ Size(R.data, k) <= Size(s.data, k)
    <3>1. R.data[k] # None /\ Live(s, k, at) /\ R.data[k].size = s.data[k].size
      BY <2>2, <2>4 DEF Live, Has
    <3>2. Size(R.data, k) = Size(s.data, k) /\ Size(s.data, k) \in Nat
      BY <2>3, <3>1, SizeType DEF Size, Live, Has
    <3> QED
      BY <3>1, <3>2
  <2>5. LiveSize(R, n) <= LiveSize(s, at)
    BY <2>2, <2>3, <2>4, LiveLess
  <2>6. LiveSize(R, n) \in Nat
    BY <2>2, LiveSizeType
  <2>7. LiveSize(R, n) <= b
    BY <2>3, <2>5, <2>6
  <2> QED
    BY <2>7 DEF R, q
<1>9. Capped(o, l, at, b)
  BY <1>8 DEF Capped, E
<1> QED
  BY <1>2, <1>7, <1>9 DEF Limits, l

-----------------------------------------------------------------------------
(***************************************************************************)
(* The invariant: what is live is limited, and so is what any prefix of    *)
(* the log, or of what a running rewrite will put in its place, can bring. *)
(***************************************************************************)
Guarded == CountersLast /\ store.policy = "noeviction" /\ store.cap > 0

Allowed == store.cap + Excess

OverInv ==
    Guarded =>
        /\ LiveSize(store, now) <= Allowed
        /\ Limits(store.data, OptionsOf(store), log, now, Allowed)
        /\ rewrite # None => Limits(store.data, OptionsOf(store), Rewritten, now, Allowed)

LEMMA GuardedStore ==
    ASSUME IInv, Guarded
    PROVE  /\ Still(store) /\ Good(store) /\ now \in Int /\ OptionsOf(store) \in Options
           /\ Unevicting(OptionsOf(store)) /\ store.data \in DataType
           /\ Allowed \in Int /\ CountersLast /\ NoEviction(store)
<1>1. NoEviction(store) /\ CountersLast
  BY DEF NoEviction, Guarded
<1>2. store.cap \in Nat
  BY DEF IInv, StoreInv, Good, Sound, StoreType
<1>3. Allowed \in Int
  BY <1>2, ExcessIs DEF Allowed
<1> QED
  BY <1>1, <1>3, StillStore DEF Still

LEMMA SameGuard ==
    ASSUME SameOptions(store', store)
    PROVE  (Guarded' <=> Guarded) /\ Allowed' = Allowed /\ OptionsOf(store)' = OptionsOf(store)
BY DEF SameOptions, Guarded, CountersLast, Allowed, OptionsOf, Excess, Growth

LEMMA QuietOver ==
    ASSUME IInv, OverInv, UNCHANGED <<log, now, rewrite>>, SameOptions(store', store), StoreInv',
           NoEviction(store) => \A k \in Keys : Kept(store'.data[k], store.data[k], now)
    PROVE  OverInv'
<1>1. (Guarded' <=> Guarded) /\ Allowed' = Allowed /\ OptionsOf(store)' = OptionsOf(store)
  BY SameGuard
<1>2. ASSUME Guarded
      PROVE  /\ LiveSize(store', now) <= Allowed
             /\ Limits(store'.data, OptionsOf(store), log, now, Allowed)
             /\ rewrite # None => Limits(store'.data, OptionsOf(store), Rewritten, now, Allowed)
  <2> DEFINE s == store
             t == store'
             o == OptionsOf(store)
             b == Allowed
  <2>1. s.data \in DataType /\ now \in Int /\ b \in Int /\ t.data \in DataType
    BY <1>2, GuardedStore DEF StoreInv, Good, Sound, StoreType
  <2>2. \A k \in Keys : Kept(t.data[k], s.data[k], now)
    BY <1>2, GuardedStore
  <2>3. /\ LiveSize(s, now) <= b /\ Limits(s.data, o, log, now, b)
        /\ rewrite # None => Limits(s.data, o, Rewritten, now, b)
    BY <1>2 DEF OverInv
  <2> HIDE DEF s, t, o, b
  <2>4. Limits(t.data, o, log, now, b) /\ (rewrite # None => Limits(t.data, o, Rewritten, now, b))
    BY <2>1, <2>2, <2>3, LimitsKept
  <2>5. ASSUME NEW k \in Keys, Live(t, k, now)
        PROVE  Live(s, k, now) /\ Size(t.data, k) <= Size(s.data, k)
    <3>1. t.data[k] = s.data[k]
      BY <2>2, <2>5 DEF Kept, Fresh, Live, Has
    <3>2. Size(t.data, k) = Size(s.data, k) /\ Size(s.data, k) \in Nat
      BY <2>1, <3>1, SizeType DEF Size
    <3> QED
      BY <2>5, <3>1, <3>2 DEF Live, Has
  <2>6. LiveSize(t, now) <= LiveSize(s, now)
    BY <2>1, <2>5, LiveLess
  <2>7. LiveSize(t, now) \in Nat /\ LiveSize(s, now) \in Nat
    BY <2>1, LiveSizeType
  <2>8. LiveSize(t, now) <= b
    BY <2>1, <2>3, <2>6, <2>7
  <2> QED
    BY <2>4, <2>8 DEF t, o, b
<1>3. Rewritten' = Rewritten
  BY DEF Rewritten
<1> QED
  BY <1>1, <1>2, <1>3 DEF OverInv

LEMMA WriteOver ==
    ASSUME IInv, OverInv, NEW c \in Commands, ExecuteWrite(c), ~Refused(c)
    PROVE  OverInv'
<1> DEFINE r == Dispatch(store, c, now)
           q == Records(c, r)
<1>1. /\ c \in CommandType /\ c.op \in WriteCommands /\ r.ok /\ now' = now
      /\ Good(r.store) /\ store'.data = r.store.data /\ SameOptions(store', store)
      /\ log' = log \o q
      /\ rewrite' # None => rewrite # None /\ Rewritten' = Rewritten \o q
  BY WriteEntries
<1>2. (Guarded' <=> Guarded) /\ Allowed' = Allowed /\ OptionsOf(store)' = OptionsOf(store)
  BY <1>1, SameGuard
<1>3. ASSUME Guarded
      PROVE  /\ LiveSize(r.store, now) <= Allowed
             /\ \A l : Limits(store.data, OptionsOf(store), l, now, Allowed) =>
                          Limits(r.store.data, OptionsOf(store), l \o q, now, Allowed)
  <2> DEFINE s == store
             o == OptionsOf(store)
             b == Allowed
             t == r.store
  <2>1. /\ Still(s) /\ Good(s) /\ now \in Int /\ o \in Options /\ Unevicting(o) /\ s.data \in DataType
        /\ b \in Int /\ CountersLast
    BY <1>3, GuardedStore
  <2>2. LiveSize(s, now) <= b
    BY <1>3 DEF OverInv
  <2>3. t = Dispatch(s, c, now).store /\ Good(t) /\ t.data \in DataType
    BY <1>1 DEF Good, Sound, StoreType
  <2>4. c.op \in DenyOom => SizeOf(s, Keys) + Growth(c) <= b
    <3> SUFFICES ASSUME c.op \in DenyOom
                 PROVE  SizeOf(s, Keys) + Growth(c) <= b
      OBVIOUS
    <3>1. ~OverLimit(s) /\ s.cap > 0
      BY <1>3 DEF Refused, Guarded
    <3>2. s.used = SizeOf(s, Keys) /\ s.used \in Int /\ s.cap \in Nat
      BY <2>1 DEF Good, Sound, Accounted, StoreType
    <3>3. s.used <= s.cap
      BY <3>1, <3>2 DEF OverLimit
    <3>4. Growth(c) \in Nat /\ Growth(c) <= Excess /\ Excess \in Nat /\ b = s.cap + Excess
      BY ExcessIs DEF Allowed
    <3> HIDE DEF b, s
    <3> QED
      BY <3>2, <3>3, <3>4
  <2> HIDE DEF s, o, b, t
  <2>5. AllBecome(t.data, s.data, c, now)
    BY <1>1, <2>1, <2>3, DispatchEffect DEF AllBecome
  <2>6. LiveSize(t, now) \in Nat /\ SizeOf(t, Keys) \in Nat /\ LiveSize(t, now) <= SizeOf(t, Keys)
    BY <2>3, LiveSizeType
  <2>7. LiveSize(s, now) \in Nat /\ SizeOf(s, Keys) \in Nat /\ Growth(c) \in Nat
    BY <1>1, <2>1, LiveSizeType, GrowthLimited
  <2>8. LiveSize(t, now) <= b
    <3>1. CASE c.op \in DenyOom
      <4>1. SizeOf(t, Keys) <= SizeOf(s, Keys) + Growth(c)
        BY <1>1, <2>1, <2>3, <2>5, <3>1, WriteGrows
      <4> QED
        BY <2>1, <2>4, <2>6, <2>7, <3>1, <4>1
    <3>2. CASE c.op \notin DenyOom
      <4>1. c.op \in {"DEL", "EXPIRE", "PEXPIREAT", "PERSIST", "FLUSHDB"}
        BY <1>1, <3>2 DEF WriteCommands, DenyOom
      <4>2. LiveSize(t, now) <= LiveSize(s, now)
        BY <1>1, <2>1, <2>3, <2>5, <4>1, WriteKeepsSize
      <4> QED
        BY <2>1, <2>2, <2>6, <2>7, <4>2
    <3> QED
      BY <3>1, <3>2
  <2>9. ASSUME NEW l, Limits(s.data, o, l, now, b)
        PROVE  Limits(t.data, o, l \o q, now, b)
    <3>1. r = Dispatch(s, c, now) /\ LiveSize(r.store, now) <= b
      BY <2>8 DEF s, t
    <3>2. r.ok /\ c.op \in WriteCommands /\ c \in CommandType
      BY <1>1
    <3> HIDE DEF r
    <3>3. Limits(r.store.data, o, l \o Records(c, r), now, b)
      BY <2>1, <2>4, <2>9, <3>1, <3>2, WriteLimits
    <3> QED
      BY <3>3 DEF t
  <2> HIDE DEF r, q
  <2> QED
    BY <2>8, <2>9 DEF s, o, b, t
<1>4. LiveSize(store, now)' = LiveSize(r.store, now)
  <2> DEFINE t == r.store
             u == store'
  <2>1. t.data \in DataType /\ u.data = t.data
    BY <1>1 DEF Good, Sound, StoreType
  <2> HIDE DEF t, u
  <2>2. LiveSize(u, now) = LiveSize(t, now)
    BY <2>1, SameLiveSize
  <2> QED
    BY <1>1, <2>2 DEF t, u
<1> HIDE DEF r, q
<1> QED
  BY <1>1, <1>2, <1>3, <1>4 DEF OverInv

LEMMA RewriteBeginOver ==
    ASSUME IInv, OverInv, RewriteBegin
    PROVE  OverInv'
<1>0. /\ rewrite = None /\ store' = Sweep(store, now) /\ UNCHANGED <<log, now>> /\ now \in Int
      /\ rewrite' = [snapshot |-> RewriteCommands(store', now), buffer |-> <<>>]
  BY NowInt DEF RewriteBegin
<1>1. SameOptions(store', store) /\ \A k \in Keys : store'.data[k] = Fresh(store.data[k], now)
  BY <1>0, SweptEntries
<1>2. (Guarded' <=> Guarded) /\ Allowed' = Allowed /\ OptionsOf(store)' = OptionsOf(store)
  BY <1>1, SameGuard
<1>3. StoreInv'
  BY <1>0, SweepKeeps
<1>4. Rewritten' = RewriteCommands(store', now)
  <2>1. RewriteCommands(store', now) \in Seq(CommandType)
    BY <1>0, <1>3, RewriteType DEF StoreInv
  <2> QED
    BY <1>0, <2>1 DEF Rewritten
<1>5. ASSUME Guarded
      PROVE  /\ LiveSize(store', now) <= Allowed
             /\ Limits(store'.data, OptionsOf(store), log, now, Allowed)
             /\ Limits(store'.data, OptionsOf(store), RewriteCommands(store', now), now, Allowed)
  <2> DEFINE o == OptionsOf(store)
             s == store
             t == store'
             b == Allowed
  <2>1. /\ o \in Options /\ Unevicting(o) /\ s.data \in DataType /\ Limits(s.data, o, log, now, b)
        /\ b \in Int /\ LiveSize(s, now) <= b
    BY <1>5, GuardedStore DEF OverInv
  <2>2. Good(t) /\ \A k \in Keys : t.data[k] = Fresh(s.data[k], now)
    BY <1>1, <1>3 DEF StoreInv
  <2> HIDE DEF o, s, t, b
  <2>3. \A k \in Keys : Kept(t.data[k], s.data[k], now) /\ t.data[k] = Fresh(t.data[k], now)
    BY <2>2 DEF Kept, Fresh
  <2>4. Limits(t.data, o, log, now, b)
    BY <1>0, <2>1, <2>3, LimitsKept
  <2>5. \A k \in Keys : k \in Counters => Undated(t.data[k])
    <3>1. now \in Int /\ now >= now /\ Follow(t.data, o, log, now)
      BY <1>0, <2>4 DEF Limits
    <3>2. FollowsAt(t.data, o, log, now)
      BY <3>1 DEF Follow
    <3> QED
      BY <3>2 DEF FollowsAt, Follows
  <2>6. t.data \in DataType
    BY <2>2 DEF Good, Sound, StoreType
  <2>7. ASSUME NEW k \in Keys, Live(t, k, now)
        PROVE  Live(s, k, now) /\ Size(t.data, k) <= Size(s.data, k)
    <3>1. t.data[k] = s.data[k]
      BY <2>3, <2>7 DEF Kept, Fresh, Live, Has
    <3>2. Size(t.data, k) = Size(s.data, k) /\ Size(s.data, k) \in Nat
      BY <2>1, <3>1, SizeType DEF Size
    <3> QED
      BY <2>7, <3>1, <3>2 DEF Live, Has
  <2>8. LiveSize(t, now) <= LiveSize(s, now)
    BY <2>1, <2>6, <2>7, LiveLess
  <2>9. LiveSize(t, now) \in Nat /\ LiveSize(s, now) \in Nat
    BY <2>1, <2>6, LiveSizeType
  <2>10. LiveSize(t, now) <= b
    BY <2>1, <2>8, <2>9
  <2>11. Limits(t.data, o, RewriteCommands(t, now), now, b)
    BY <1>0, <2>1, <2>2, <2>3, <2>5, <2>10, RewriteLimits
  <2> QED
    BY <2>4, <2>10, <2>11 DEF o, t, b
<1> QED
  BY <1>0, <1>2, <1>4, <1>5 DEF OverInv

\* A restart brings back what a prefix of the log does.
LEMMA RestartOver ==
    ASSUME IInv, OverInv, Restart
    PROVE  OverInv'
<1> DEFINE o == OptionsOf(store)
           l == log'
           u == DispatchAll(Empty(o), l, now)
           b == Allowed
<1>1. /\ \E n \in 0..Len(log) : l = SubSeq(log, 1, n)
      /\ rewrite' = None /\ now' = now /\ SameOptions(store', store) /\ store'.data = u.data
  BY RestartEntries
<1>2. (Guarded' <=> Guarded) /\ Allowed' = b /\ OptionsOf(store)' = o
  BY <1>1, SameGuard
<1>3. PICK n \in 0..Len(log) : l = SubSeq(log, 1, n)
  BY <1>1
<1>4. ASSUME Guarded
      PROVE  LiveSize(u, now) <= b /\ Limits(u.data, o, l, now, b)
  <2>1. o \in Options /\ Unevicting(o) /\ now \in Int /\ log \in Seq(Steady) /\ Capped(o, log, now, b)
    BY <1>4, GuardedStore DEF OverInv, Limits
  <2> HIDE DEF o, l, b
  <2>2. l \in Seq(Steady)
    BY <1>3, <2>1
  <2>3. Follow(u.data, o, l, now)
    BY <2>1, <2>2, ReplayFollows
  <2>4. LiveSize(u, now) <= b
    BY <1>3, <2>1 DEF Capped
  <2>5. Capped(o, l, now, b)
    <3>1. Len(log) \in Nat /\ n \in Nat /\ n <= Len(log) /\ Len(l) = n
      BY <1>3, <2>1
    <3>2. \A j \in 0..n : j \in 0..Len(log) /\ SubSeq(l, 1, j) = SubSeq(log, 1, j)
      BY <1>3, <2>1, <3>1
    <3> QED
      BY <2>1, <3>1, <3>2 DEF Capped
  <2> QED
    BY <2>2, <2>3, <2>4, <2>5 DEF Limits
<1>5. LiveSize(store, now)' = LiveSize(u, now)
  <2> DEFINE t == store'
  <2>1. IInv'
    BY RestartKeeps
  <2>2. t.data \in DataType /\ u.data = t.data
    BY <1>1, <2>1 DEF IInv, StoreInv, Good, Sound, StoreType
  <2> HIDE DEF t, u
  <2>3. LiveSize(u, now) = LiveSize(t, now)
    BY <2>2, SameLiveSize
  <2> QED
    BY <1>1, <2>3 DEF t
<1> HIDE DEF o, u, b
<1> QED
  BY <1>1, <1>2, <1>4, <1>5 DEF OverInv

LEMMA NextOver == IInv /\ OverInv /\ [Next]_vars => OverInv'
<1> SUFFICES ASSUME IInv, OverInv, [Next]_vars
             PROVE  OverInv'
  OBVIOUS
<1>0. IInv'
  BY NextIInv
<1>a. ASSUME UNCHANGED vars
      PROVE  OverInv'
  <2>1. SameOptions(store', store) /\ UNCHANGED <<log, now, rewrite>>
    BY <1>a DEF vars, SameOptions
  <2>2. \A k \in Keys : Kept(store'.data[k], store.data[k], now)
    BY <1>a DEF vars, Kept
  <2> QED
    BY <1>0, <2>1, <2>2, QuietOver DEF IInv
<1>1. ASSUME NEW c \in Commands, Execute(c) \/ Refuse(c)
      PROVE  OverInv'
  <2>1. CASE ExecuteRead(c)
    BY <1>0, <2>1, ReadEntries, QuietOver DEF IInv
  <2>2. CASE ExecuteWrite(c) /\ ~Refused(c)
    BY <2>2, WriteOver
  <2> QED
    BY <1>1, <1>a, <2>1, <2>2 DEF Execute, Refuse
<1>2. CASE SweepLoop
  <2>1. SameOptions(store', store) /\ \A k \in Keys : store'.data[k] = Fresh(store.data[k], now)
    BY <1>2, SweptEntries DEF SweepLoop
  <2> QED
    BY <1>0, <1>2, <2>1, QuietOver DEF SweepLoop, Kept, IInv
<1>3. CASE Tick
  <2>1. now \in Int /\ now' \in Int /\ now <= now' /\ UNCHANGED <<store, log, rewrite>>
    BY <1>3, NowInt DEF Tick
  <2>2. \A d, o, l, b : Limits(d, o, l, now, b) => Limits(d, o, l, now', b)
    BY <2>1, LimitsLater
  <2>3. (Guarded' <=> Guarded) /\ Allowed' = Allowed /\ OptionsOf(store)' = OptionsOf(store)
    BY <2>1, SameGuard DEF SameOptions
  <2>4. ASSUME Guarded
        PROVE  LiveSize(store, now') <= Allowed
    <3> DEFINE m == now'
               b == Allowed
               s == store
    <3>1. s.data \in DataType /\ LiveSize(s, now) <= b /\ b \in Int
      BY <2>4, GuardedStore DEF OverInv
    <3>2. m \in Int /\ now \in Int /\ now <= m
      BY <2>1
    <3> HIDE DEF m, b, s
    <3>3. ASSUME NEW k \in Keys, Live(s, k, m)
          PROVE  Live(s, k, now) /\ Size(s.data, k) <= Size(s.data, k)
      <4> DEFINE e == s.data[k]
      <4>1. e # None /\ e \in Entry /\ ~IsExpired(e, m) /\ Size(s.data, k) \in Nat
        BY <3>1, <3>3, DataEntry, SizeType DEF Live, Has
      <4>2. Live(s, k, now) <=> (e # None /\ ~IsExpired(e, now))
        BY DEF Live, Has
      <4> HIDE DEF e
      <4>3. e.expireAt = None \/ e.expireAt \in Int
        BY <4>1 DEF Entry
      <4>4. ~IsExpired(e, now)
        BY <3>2, <4>1, <4>3 DEF IsExpired
      <4> QED
        BY <4>1, <4>2, <4>4
    <3>4. LiveSize(s, m) <= LiveSize(s, now)
      BY <3>1, <3>3, LiveLess
    <3>5. LiveSize(s, m) \in Nat /\ LiveSize(s, now) \in Nat
      BY <3>1, LiveSizeType
    <3>6. LiveSize(s, m) <= b
      BY <3>1, <3>4, <3>5
    <3> QED
      BY <3>6 DEF s, m, b
  <2>5. Rewritten' = Rewritten /\ LiveSize(store, now)' = LiveSize(store, now')
    BY <2>1 DEF Rewritten
  <2> QED
    BY <2>1, <2>2, <2>3, <2>4, <2>5 DEF OverInv
<1>4. CASE RewriteBegin
  BY <1>4, RewriteBeginOver
<1>5. CASE RewriteFinish \/ RewriteFail
  <2>1. (Guarded' <=> Guarded) /\ Allowed' = Allowed /\ OptionsOf(store)' = OptionsOf(store)
    BY <1>5, SameGuard DEF SameOptions, RewriteFinish, RewriteFail
  <2>2. UNCHANGED <<store, now>> /\ rewrite' = None /\ (log' = log \/ (rewrite # None /\ log' = Rewritten))
    BY <1>5 DEF RewriteFinish, RewriteFail, Rewritten
  <2> QED
    BY <2>1, <2>2 DEF OverInv
<1>6. CASE Restart
  BY <1>6, RestartOver
<1> QED
  BY <1>1, <1>2, <1>3, <1>4, <1>5, <1>6, <1>a DEF Next

LEMMA InitOver == Init => OverInv
<1> SUFFICES ASSUME Init, Guarded
             PROVE  /\ LiveSize(store, now) <= Allowed /\ rewrite = None
                    /\ Limits(store.data, OptionsOf(store), log, now, Allowed)
  BY DEF OverInv
<1>0. IInv
  BY InitIInv
<1> DEFINE o == OptionsOf(store)
           E == Empty(o)
           b == Allowed
<1>1. PICK options \in ServerOptions : store = Empty(options)
  BY DEF Init
<1>2. options \in Options
  BY NodeAssumption
<1>3. o = options /\ store = E
  BY <1>1, <1>2 DEF OptionsOf, Options, Empty
<1>4. o \in Options /\ Unevicting(o) /\ b \in Int /\ store.data \in DataType
  BY <1>0, GuardedStore
<1>5. log = <<>> /\ now = 0 /\ rewrite = None /\ <<>> \in Seq(Steady) /\ 0 \in Int
  BY DEF Init
<1>6. b \in Nat
  <2>1. store.cap \in Nat /\ b = store.cap + Excess
    BY <1>0 DEF IInv, StoreInv, Good, Sound, StoreType, Allowed
  <2> QED
    BY <2>1, ExcessIs
<1>7. Still(E) /\ \A k \in Keys : E.data[k] = None
  <2> HIDE DEF o
  <2> QED
    BY <1>4, EmptyStill
<1>8. \A n \in Int : DispatchAll(E, <<>>, n) = E
  BY DispatchNothing
<1> HIDE DEF b, E, o
<1>9. \A n \in Int : LiveSize(E, n) <= b
  <2> TAKE n \in Int
  <2> DEFINE A == {k \in Keys : Live(E, k, n)}
  <2>1. E.data \in DataType /\ A \subseteq Keys /\ \A k \in A : E.data[k] = None
    BY <1>3, <1>4, <1>7
  <2> HIDE DEF A
  <2>2. SizeOf(E, A) = 0
    BY <2>1, SumNone
  <2> QED
    BY <1>6, <2>2 DEF LiveSize, A
<1>10. Follow(E.data, o, <<>>, 0)
  <2>1. Follow(DispatchAll(Empty(o), <<>>, 0).data, o, <<>>, 0)
    BY <1>4, <1>5, ReplayFollows
  <2> QED
    BY <1>5, <1>8, <2>1 DEF E
<1>11. Capped(o, <<>>, 0, b)
  <2>1. \A j \in 0..Len(<<>>) : SubSeq(<<>>, 1, j) = <<>>
    OBVIOUS
  <2> QED
    BY <1>8, <1>9, <2>1 DEF Capped, E
<1>12. Limits(E.data, o, <<>>, 0, b)
  BY <1>5, <1>10, <1>11 DEF Limits
<1> QED
  BY <1>3, <1>5, <1>9, <1>12 DEF b, o

(***************************************************************************)
(* With noeviction the live entries exceed the cap by one command at most  *)
(* (the memory check of _handle_client), through any commands, sweeps,     *)
(* rewrites, crashes that lose records, and restarts, which check no       *)
(* memory, if no key that is counted is ever given a deadline.             *)
(***************************************************************************)
THEOREM OvershootLimited == Spec => []OvershootBounded
<1>1. IInv /\ OverInv => OvershootBounded
  BY DEF OverInv, Guarded, OvershootBounded, LiveSize, Allowed, Excess
<1> QED
  BY <1>1, Invariance, InitOver, NextOver, PTL DEF Spec

=============================================================================
