------------------------------- MODULE Store -------------------------------
(***************************************************************************)
(* The in-memory store (store.py, class Store) as operators: each maps a   *)
(* store, its arguments and the time to the store the method leaves.       *)
(*                                                                         *)
(* A store is a record: data and order are the OrderedDict (its contents   *)
(* and, from least to most recently used, the order of its keys), heap is  *)
(* _expiry_heap as the set of its pairs, used is used_memory, evicted is   *)
(* _evicted, cap and policy are its options.  A value is an integer, or    *)
(* Text for one that INCR refuses.  Time is counted in ticks; the          *)
(* monotonic clock and the wall clock advance together.                    *)
(***************************************************************************)
EXTENDS Integers, Sequences, FiniteSets, FiniteSetsExt

CONSTANTS
    Keys,           \* keys
    None,           \* Python's None: no entry, no deadline
    Text,           \* a value that is not an integer
    Cost(_),        \* bytes accounted for an entry with this value
    IntMin, IntMax, \* the range of stored integers (int64)
    HeapFactor,     \* the heap is rebuilt above HeapFactor * keys + HeapSlack
    HeapSlack       \* (4 and 1024 in the code)

ASSUME StoreAssumption ==
    /\ IsFiniteSet(Keys)
    /\ IntMin \in Int /\ IntMax \in Int /\ 0 \in IntMin..IntMax
    /\ \A v \in (IntMin..IntMax) \cup {Text} : Cost(v) \in Nat \ {0}
    /\ HeapFactor \in Nat /\ HeapSlack \in Nat

Value == (IntMin..IntMax) \cup {Text}

\* _Entry, with its deadline
Entry == [value : Value, expireAt : Int \cup {None}, size : Nat]

ASSUME NoneAssumption == None \notin Entry \cup Int

\* --maxmemory (0: no limit) and --maxmemory-policy
Options == [cap : Nat, policy : {"allkeys-lru", "noeviction"}]

Empty(options) ==
    [data |-> [k \in Keys |-> None], order |-> <<>>, heap |-> {}, used |-> 0,
     evicted |-> <<>>, cap |-> options.cap, policy |-> options.policy]

Has(s, k) == s.data[k] # None

IsExpired(e, now) == e.expireAt # None /\ e.expireAt <= now

\* What a client can still read.
Live(s, k, now) == Has(s, k) /\ ~IsExpired(s.data[k], now)

-----------------------------------------------------------------------------
(***************************************************************************)
(* The private helpers.                                                    *)
(***************************************************************************)
SizeOf(s, ks) == LET size(k) == IF Has(s, k) THEN s.data[k].size ELSE 0
                 IN  MapThenSumSet(size, ks)

\* What is left of a sequence of keys when those in ks are taken out.
Without(keys, ks) ==
    LET left[i \in 0..Len(keys)] ==
            IF i = 0 THEN <<>>
            ELSE IF keys[i] \in ks THEN left[i - 1] ELSE Append(left[i - 1], keys[i])
    IN  left[Len(keys)]

\* _remove, of all the keys in ks.
RemoveKeys(s, ks) ==
    [s EXCEPT !.data = [k \in Keys |-> IF k \in ks THEN None ELSE @[k]],
              !.order = Without(@, ks),
              !.used = @ - SizeOf(s, ks)]

\* The lazy expiry every access starts with.
Purge(s, k, now) ==
    IF Has(s, k) /\ IsExpired(s.data[k], now) THEN RemoveKeys(s, {k}) ELSE s

\* OrderedDict.move_to_end
MoveToEnd(s, k) ==
    [s EXCEPT !.order = Append(Without(@, {k}), k)]

\* Mutant: the entry keeps the size it had.
PutKeepingSize(s, k, value, expireAt) ==
    LET size == IF Has(s, k) THEN s.data[k].size ELSE Cost(value)
        new == [value |-> value, expireAt |-> expireAt, size |-> size]
    IN  MoveToEnd([s EXCEPT !.data[k] = new,
                            !.used = @ - SizeOf(s, {k}) + new.size], k)

\* Mutant: the size of the entry that is replaced stays in used_memory.
PutKeepingOldSize(s, k, value, expireAt) ==
    LET new == [value |-> value, expireAt |-> expireAt, size |-> Cost(value)]
    IN  MoveToEnd([s EXCEPT !.data[k] = new, !.used = @ + new.size], k)

\* _put, and the in-place update of incr
Put(s, k, value, expireAt) ==
    LET new == [value |-> value, expireAt |-> expireAt, size |-> Cost(value)]
    IN  MoveToEnd([s EXCEPT !.data[k] = new,
                            !.used = @ - SizeOf(s, {k}) + new.size], k)

OverLimit(s) == s.cap > 0 /\ s.used > s.cap

\* Mutant: an entry popped from the heap is removed even if its deadline has
\* changed since it was pushed.
SweepStale(s, now) ==
    LET due == {h \in s.heap : h[1] <= now}
    IN  [RemoveKeys(s, {k \in Keys : \E h \in due : h[2] = k}) EXCEPT !.heap = @ \ due]

\* sweep_expired: pops what is due, and removes the entries whose deadline is
\* still the one popped.
Sweep(s, now) ==
    LET due == {h \in s.heap : h[1] <= now}
        gone == {k \in Keys : Has(s, k) /\ <<s.data[k].expireAt, k>> \in due}
    IN  [RemoveKeys(s, gone) EXCEPT !.heap = @ \ due]

\* The n least recently used keys go.
EvictFirst(s, n) ==
    LET lru == SubSeq(s.order, 1, n)
    IN  [RemoveKeys(s, {lru[i] : i \in 1..n}) EXCEPT !.evicted = @ \o lru]

\* Mutant: the most recently used keys go.
EvictNewest(s, now) ==
    IF s.policy # "allkeys-lru" \/ ~OverLimit(s)
    THEN s
    ELSE LET t == Sweep(s, now)
             keep == CHOOSE n \in 0..Len(t.order) :
                        LET out == SubSeq(t.order, n + 1, Len(t.order))
                        IN  ~OverLimit(RemoveKeys(t, {out[i] : i \in DOMAIN out}))
             out == SubSeq(t.order, keep + 1, Len(t.order))
         IN  [RemoveKeys(t, {out[i] : i \in DOMAIN out}) EXCEPT !.evicted = @ \o out]

\* Mutant: the loop stops one key too early.
EvictTooFew(s, now) ==
    IF s.policy # "allkeys-lru" \/ ~OverLimit(s)
    THEN s
    ELSE LET t == Sweep(s, now)
             enough == {n \in 0..Len(t.order) : \/ ~OverLimit(EvictFirst(t, n))
                                               \/ Len(t.order) - n <= 2}
         IN  EvictFirst(t, Min(enough))

\* _evict: expired keys first, then as many as it takes, but never the last.
Evict(s, now) ==
    IF s.policy # "allkeys-lru" \/ ~OverLimit(s)
    THEN s
    ELSE LET t == Sweep(s, now)
             enough == {n \in 0..Len(t.order) : \/ ~OverLimit(EvictFirst(t, n))
                                               \/ Len(t.order) - n <= 1}
         IN  EvictFirst(t, Min(enough))

Deadlines(s) == {<<s.data[k].expireAt, k>> :
                    k \in {j \in Keys : Has(s, j) /\ s.data[j].expireAt # None}}

\* Mutant: the rebuilt heap replaces the old one without the new pair.
ScheduleLosingPair(s, k, at) ==
    LET pushed == s.heap \cup {<<at, k>>}
    IN  IF Cardinality(pushed) > HeapFactor * Len(s.order) + HeapSlack
        THEN [s EXCEPT !.heap = Deadlines(s) \ {<<at, k>>}]
        ELSE [s EXCEPT !.heap = pushed]

\* _schedule: pushes the pair; a heap with too many stale pairs is rebuilt.
Schedule(s, k, at) ==
    LET pushed == s.heap \cup {<<at, k>>}
    IN  [s EXCEPT !.heap =
            IF Cardinality(pushed) > HeapFactor * Len(s.order) + HeapSlack
            THEN Deadlines(s)
            ELSE pushed]

-----------------------------------------------------------------------------
(***************************************************************************)
(* The public methods.                                                     *)
(***************************************************************************)
Set(s, k, value, ttl, now) ==
    IF ttl = None
    THEN Evict(Put(s, k, value, None), now)
    ELSE Evict(Schedule(Put(s, k, value, now + ttl), k, now + ttl), now)

\* incr: [store, ok]; ok is FALSE when the ValueError is raised.
Incr(s, k, delta, now) ==
    LET t == Purge(s, k, now)
        current == IF Has(t, k) THEN t.data[k].value ELSE 0
        expireAt == IF Has(t, k) THEN t.data[k].expireAt ELSE None
    IN  IF current # Text /\ current + delta \in IntMin..IntMax
        THEN [store |-> Evict(Put(t, k, current + delta, expireAt), now), ok |-> TRUE]
        ELSE [store |-> t, ok |-> FALSE]

Delete(s, k) == RemoveKeys(s, {k})

\* expire and expire_at_unix, with the deadline the ttl amounts to.
Expire(s, k, at, now) ==
    LET t == Purge(s, k, now)
    IN  IF Has(t, k)
        THEN Schedule([t EXCEPT !.data[k].expireAt = at], k, at)
        ELSE t

Persist(s, k, now) ==
    LET t == Purge(s, k, now)
    IN  IF Has(t, k) THEN [t EXCEPT !.data[k].expireAt = None] ELSE t

Flush(s) == [s EXCEPT !.data = [k \in Keys |-> None], !.order = <<>>,
                      !.heap = {}, !.used = 0]

\* get and exists; also the value it returns, None when there is none.
Get(s, k, now) ==
    LET t == Purge(s, k, now)
    IN  IF Has(t, k) THEN MoveToEnd(t, k) ELSE t

\* ttl
Ttl(s, k, now) == Purge(s, k, now)

DrainEvictions(s) == [s EXCEPT !.evicted = <<>>]

\* snapshot, of a store that has been swept: (key, value, deadline) in order.
Snapshot(s, now) ==
    LET live == Without(s.order, {k \in Keys : Has(s, k) /\ IsExpired(s.data[k], now)})
    IN  [i \in 1..Len(live) |-> [key |-> live[i], value |-> s.data[live[i]].value,
                                 expireAt |-> s.data[live[i]].expireAt]]
=============================================================================
