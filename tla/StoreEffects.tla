---------------------------- MODULE StoreEffects ----------------------------
(***************************************************************************)
(* What a command does to the entry of one key, and a sequence of commands *)
(* to all of them, for any keys, values and costs.  The theorems that      *)
(* compare two stores (a primary and its log, a primary and a replica)     *)
(* rest on these lemmas.                                                   *)
(***************************************************************************)
EXTENDS StoreProofs

\* The store never evicts.
NoEviction(s) == s.cap = 0 \/ s.policy = "noeviction"

\* The entry a command finds: none, if it has expired.
Fresh(e, now) == IF e # None /\ IsExpired(e, now) THEN None ELSE e

\* The entry d is e, which may have been dropped after its deadline.
Kept(d, e, now) == d = e \/ d = Fresh(e, now)

-----------------------------------------------------------------------------
(***************************************************************************)
(* Sweeping and evicting.                                                  *)
(***************************************************************************)
LEMMA SweepEntries ==
    ASSUME NEW s, Sound(s), NEW now \in Int, NEW t, t = Sweep(s, now)
    PROVE  /\ \A k \in Keys : Kept(t.data[k], s.data[k], now)
           /\ Covered(s, Keys) => \A k \in Keys : t.data[k] = Fresh(s.data[k], now)
<1> DEFINE due == {h \in s.heap : h[1] <= now}
           gone == {k \in Keys : Has(s, k) /\ <<s.data[k].expireAt, k>> \in due}
           r == RemoveKeys(s, gone)
<1>0. s \in StoreType /\ gone \subseteq Keys
  BY DEF Sound
<1>1. t = [r EXCEPT !.heap = r.heap \ due]
  BY DEF Sweep
<1>2. /\ r \in StoreType
      /\ \A k \in Keys : r.data[k] = IF k \in gone THEN None ELSE s.data[k]
      /\ r.order = Without(s.order, gone) /\ r.used = s.used - SizeOf(s, gone)
      /\ r.heap = s.heap /\ r.evicted = s.evicted /\ SameOptions(r, s)
  <2> HIDE DEF gone, r
  <2> QED
    BY <1>0, RemoveFields DEF r
<1> HIDE DEF r
<1>3. t.data = r.data
  BY <1>1, <1>2 DEF StoreType
<1>4. ASSUME NEW k \in Keys, k \in gone
      PROVE  s.data[k] # None /\ IsExpired(s.data[k], now)
  <2>1. s.data[k] # None /\ <<s.data[k].expireAt, k>> \in s.heap /\ s.data[k].expireAt <= now
    BY <1>4 DEF Has
  <2>2. s.data[k].expireAt \in Int
    BY <1>0, <2>1 DEF StoreType
  <2> QED
    BY <2>1, <2>2, NoneAssumption DEF IsExpired
<1>5. ASSUME NEW k \in Keys, Covered(s, Keys), s.data[k] # None, IsExpired(s.data[k], now)
      PROVE  k \in gone
  BY <1>5 DEF Covered, Has, IsExpired
<1> HIDE DEF gone
<1> QED
  BY <1>2, <1>3, <1>4, <1>5 DEF Fresh, Kept

\* The keys of x have been evicted from d, and others may have expired.
Trimmed(t, d, x, now) ==
    \A k \in Keys : IF In(x, k) THEN t.data[k] = None ELSE Kept(t.data[k], d[k], now)

LEMMA EvictFirstEntries ==
    ASSUME NEW s, Sound(s), NEW n \in 0..Len(s.order), NEW t, t = EvictFirst(s, n)
    PROVE  /\ t.evicted = s.evicted \o SubSeq(s.order, 1, n)
           /\ \A k \in Keys : t.data[k] = IF In(SubSeq(s.order, 1, n), k) THEN None ELSE s.data[k]
<1> DEFINE lru == SubSeq(s.order, 1, n)
           ks == {lru[i] : i \in 1..n}
           r == RemoveKeys(s, ks)
<1>0. s \in StoreType /\ s.order \in Seq(Keys) /\ Len(s.order) \in Nat
  BY DEF Sound, StoreType
<1>1. lru \in Seq(Keys) /\ Len(lru) = n /\ \A i \in 1..n : lru[i] \in Keys
  BY <1>0
<1>2. ks \subseteq Keys
  BY <1>1
<1>3. t = [r EXCEPT !.evicted = r.evicted \o lru]
  BY DEF EvictFirst
<1>4. \A k : k \in ks <=> In(lru, k)
  BY <1>1 DEF In
<1> HIDE DEF lru, ks
<1>5. /\ r \in StoreType
      /\ \A k \in Keys : r.data[k] = IF k \in ks THEN None ELSE s.data[k]
      /\ r.order = Without(s.order, ks) /\ r.used = s.used - SizeOf(s, ks)
      /\ r.heap = s.heap /\ r.evicted = s.evicted /\ SameOptions(r, s)
  BY <1>0, <1>2, RemoveFields
<1> HIDE DEF r
<1>6. t.data = r.data /\ t.evicted = s.evicted \o lru
  BY <1>3, <1>5 DEF StoreType
<1> QED
  BY <1>4, <1>5, <1>6 DEF lru

LEMMA EvictEntries ==
    ASSUME NEW s, Sound(s), s.evicted = <<>>, NEW now \in Int, NEW t, t = Evict(s, now)
    PROVE  Trimmed(t, s.data, t.evicted, now) /\ (NoEviction(s) => t = s)
<1>0. s \in StoreType /\ s.cap \in Nat /\ s.policy \in {"allkeys-lru", "noeviction"}
  BY DEF Sound, StoreType
<1>1. CASE s.policy # "allkeys-lru" \/ ~OverLimit(s)
  <2>1. t = s
    BY <1>1 DEF Evict
  <2>2. \A k : ~In(<<>>, k)
    BY DEF In
  <2> QED
    BY <2>1, <2>2 DEF Trimmed, Kept
<1>2. CASE s.policy = "allkeys-lru" /\ OverLimit(s)
  <2> DEFINE u == Sweep(s, now)
             enough == {n \in 0..Len(u.order) : \/ ~OverLimit(EvictFirst(u, n))
                                               \/ Len(u.order) - n <= 1}
             m == Min(enough)
             lru == SubSeq(u.order, 1, m)
  <2>1. t = EvictFirst(u, m)
    BY <1>2 DEF Evict
  <2>2. Sound(u) /\ u.evicted = s.evicted
    BY SweepSound
  <2>3. \A k \in Keys : Kept(u.data[k], s.data[k], now)
    BY SweepEntries
  <2> HIDE DEF u
  <2>4. u.order \in Seq(Keys) /\ Len(u.order) \in Nat
    BY <2>2 DEF Sound, StoreType
  <2>5. enough \subseteq Nat /\ Len(u.order) \in enough
    BY <2>4
  <2>6. m \in enough
    BY <2>5, Minimum
  <2>7. m \in 0..Len(u.order)
    BY <2>6
  <2> HIDE DEF m, enough
  <2>8. /\ t.evicted = u.evicted \o lru
        /\ \A k \in Keys : t.data[k] = IF In(lru, k) THEN None ELSE u.data[k]
    BY <2>1, <2>2, <2>7, EvictFirstEntries
  <2>9. t.evicted = lru
    <3>1. lru \in Seq(Keys)
      BY <2>4, <2>7
    <3> QED
      BY <2>2, <2>8, <3>1
  <2>10. ~NoEviction(s)
    BY <1>0, <1>2 DEF NoEviction, OverLimit
  <2> HIDE DEF lru
  <2> QED
    BY <2>3, <2>8, <2>9, <2>10 DEF Trimmed
<1> QED
  BY <1>0, <1>1, <1>2

-----------------------------------------------------------------------------
(***************************************************************************)
(* One command, for the key it names.                                      *)
(***************************************************************************)
\* _cmd_set answers nil, f being the entry that is found.
SetRefused(f, c) == (c.mode = "NX" /\ f # None) \/ (c.mode = "XX" /\ f = None)

\* incr() does not raise.
CanCount(f, delta) ==
    IF f # None THEN f.value # Text /\ f.value + delta \in IntMin..IntMax
                ELSE 0 # Text /\ 0 + delta \in IntMin..IntMax

Counted(f, delta) ==
    IF f # None THEN NewEntry(f.value + delta, f.expireAt) ELSE NewEntry(0 + delta, None)

Redated(f, at) == IF f = None THEN None ELSE [f EXCEPT !.expireAt = at]

\* What the commands that name one key make of its entry e.
After(e, c, now) ==
    CASE c.op = "SET" ->
            IF SetRefused(Fresh(e, now), c) THEN Fresh(e, now)
            ELSE NewEntry(c.value, IF c.ttl = None THEN None ELSE now + c.ttl)
      [] c.op = "INCR" ->
            IF CanCount(Fresh(e, now), c.delta) THEN Counted(Fresh(e, now), c.delta)
            ELSE Fresh(e, now)
      [] c.op = "DEL"       -> None
      [] c.op = "EXPIRE"    -> Redated(Fresh(e, now), now + c.ttl)
      [] c.op = "PEXPIREAT" -> Redated(Fresh(e, now), c.at)
      [] c.op = "PERSIST"   -> Redated(Fresh(e, now), None)
      [] c.op = "GET"       -> Fresh(e, now)
      [] c.op = "TTL"       -> Fresh(e, now)

Keyed == {"SET", "INCR", "DEL", "EXPIRE", "PEXPIREAT", "PERSIST", "GET", "TTL"}

LEMMA PurgeEntries ==
    ASSUME NEW s \in StoreType, NEW k \in Keys, NEW now, NEW t, t = Purge(s, k, now)
    PROVE  \A j \in Keys : t.data[j] = IF j = k THEN Fresh(s.data[k], now) ELSE s.data[j]
<1>1. CASE Has(s, k) /\ IsExpired(s.data[k], now)
  <2>1. t = RemoveKeys(s, {k}) /\ {k} \subseteq Keys
    BY <1>1 DEF Purge
  <2>2. /\ t \in StoreType
        /\ \A j \in Keys : t.data[j] = IF j \in {k} THEN None ELSE s.data[j]
        /\ t.order = Without(s.order, {k}) /\ t.used = s.used - SizeOf(s, {k})
        /\ t.heap = s.heap /\ t.evicted = s.evicted /\ SameOptions(t, s)
    BY <2>1, RemoveFields
  <2> QED
    BY <1>1, <2>2 DEF Fresh, Has
<1>2. CASE ~(Has(s, k) /\ IsExpired(s.data[k], now))
  BY <1>2 DEF Purge, Fresh, Has
<1> QED
  BY <1>1, <1>2

LEMMA GetEntries ==
    ASSUME NEW s, Good(s), NEW k \in Keys, NEW now \in Int, NEW t, t = Get(s, k, now)
    PROVE  \A j \in Keys : t.data[j] = IF j = k THEN Fresh(s.data[k], now) ELSE s.data[j]
<1> DEFINE u == Purge(s, k, now)
<1>1. s \in StoreType
  BY DEF Good, Sound
<1>2. \A j \in Keys : u.data[j] = IF j = k THEN Fresh(s.data[k], now) ELSE s.data[j]
  BY <1>1, PurgeEntries
<1>3. Good(u)
  BY PurgeGood
<1>4. t = IF Has(u, k) THEN MoveToEnd(u, k) ELSE u
  BY DEF Get
<1> HIDE DEF u
<1>5. CASE Has(u, k)
  <2>1. t.data = u.data
    BY <1>3, <1>4, <1>5, MoveGood
  <2> QED
    BY <1>2, <2>1
<1> QED
  BY <1>2, <1>4, <1>5

\* What set() puts, before the eviction pass.
SetData(d, s, k, v, at) == \A j \in Keys : d[j] = IF j = k THEN NewEntry(v, at) ELSE s.data[j]

LEMMA SetEntries ==
    ASSUME NEW s, Good(s), s.evicted = <<>>, NEW k \in Keys, NEW v \in Value,
           NEW ttl \in Lifetime, NEW now \in Int, NEW t, t = Set(s, k, v, ttl, now)
    PROVE  \E d : /\ SetData(d, s, k, v, IF ttl = None THEN None ELSE now + ttl)
                  /\ Trimmed(t, d, t.evicted, now)
                  /\ NoEviction(s) => t.data = d /\ t.evicted = <<>>
<1>0. s \in StoreType /\ Sound(s)
  BY DEF Good, Sound
<1>1. CASE ttl = None
  <2> DEFINE p == Put(s, k, v, None)
  <2>0. None \in Deadline /\ t = Evict(p, now)
    BY <1>1 DEF Deadline, Set
  <2>1. IsPut(p, s, k, v, None)
    BY <1>0, <2>0, PutFields
  <2>2. Sound(p)
    BY <1>0, <2>0, PutSound
  <2> HIDE DEF p
  <2>3. p.evicted = <<>> /\ SetData(p.data, s, k, v, None) /\ (NoEviction(s) => NoEviction(p))
    BY <2>1 DEF IsPut, SetData, NoEviction, SameOptions
  <2>4. Trimmed(t, p.data, t.evicted, now) /\ (NoEviction(p) => t = p)
    BY <2>0, <2>2, <2>3, EvictEntries
  <2> QED
    BY <1>1, <2>3, <2>4
<1>2. CASE ttl \in Nat \ {0}
  <2> DEFINE at == now + ttl
             p == Put(s, k, v, at)
             u == Schedule(p, k, at)
  <2>0. at \in Int /\ at \in Deadline /\ ~(at <= now) /\ ttl # None
    BY <1>2, NoneAssumption DEF Deadline
  <2>1. t = Evict(u, now)
    BY <2>0 DEF Set
  <2> HIDE DEF at
  <2>2. IsPut(p, s, k, v, at)
    BY <1>0, <2>0, PutFields
  <2>3. /\ Sound(p) /\ SameOptions(p, s) /\ p.evicted = s.evicted
        /\ p.order # <<>> /\ p.order[Len(p.order)] = k
        /\ Has(p, k) /\ p.data[k].expireAt = at /\ Live(p, k, now)
        /\ Covered(p, Keys \ {k})
        /\ at = None \/ <<at, k>> \in s.heap => Covered(p, Keys)
    BY <2>0, PutGood
  <2> HIDE DEF p
  <2>4. /\ Sound(u) /\ Covered(u, Keys)
        /\ u.data = p.data /\ u.order = p.order /\ u.used = p.used /\ u.evicted = p.evicted
        /\ SameOptions(u, p)
    BY <2>0, <2>3, ScheduleSound
  <2> HIDE DEF u
  <2>5. u.evicted = <<>> /\ SetData(u.data, s, k, v, at) /\ (NoEviction(s) => NoEviction(u))
    BY <2>2, <2>4 DEF IsPut, SetData, NoEviction, SameOptions
  <2>6. Trimmed(t, u.data, t.evicted, now) /\ (NoEviction(u) => t = u)
    BY <2>1, <2>4, <2>5, EvictEntries
  <2>7. SetData(u.data, s, k, v, IF ttl = None THEN None ELSE now + ttl)
    BY <2>0, <2>5 DEF at
  <2> QED
    BY <2>5, <2>6, <2>7
<1> QED
  BY <1>1, <1>2 DEF Lifetime

LEMMA IncrEntries ==
    ASSUME NEW s, Good(s), s.evicted = <<>>, NEW k \in Keys, NEW delta \in Int,
           NEW now \in Int, NEW r, r = Incr(s, k, delta, now)
    PROVE  LET f == Fresh(s.data[k], now)
           IN  /\ r.ok = CanCount(f, delta)
               /\ r.ok => \E d : /\ \A j \in Keys : d[j] = IF j = k THEN Counted(f, delta)
                                                           ELSE s.data[j]
                                 /\ Trimmed(r.store, d, r.store.evicted, now)
                                 /\ NoEviction(s) => r.store.data = d /\ r.store.evicted = <<>>
               /\ ~r.ok => /\ \A j \in Keys : r.store.data[j] = IF j = k THEN f ELSE s.data[j]
                           /\ r.store.evicted = <<>>
<1> DEFINE f == Fresh(s.data[k], now)
           t == Purge(s, k, now)
           current == IF Has(t, k) THEN t.data[k].value ELSE 0
           expireAt == IF Has(t, k) THEN t.data[k].expireAt ELSE None
           counts == current # Text /\ current + delta \in IntMin..IntMax
           v == current + delta
           p == Put(t, k, v, expireAt)
<1>0. s \in StoreType
  BY DEF Good, Sound
<1>1. r = IF counts THEN [store |-> Evict(p, now), ok |-> TRUE] ELSE [store |-> t, ok |-> FALSE]
  BY DEF Incr
<1>2. /\ Good(t) /\ Fewer(t, s) /\ Shows(t, s, now) /\ t.evicted = s.evicted
      /\ Has(t, k) => Live(t, k, now)
  BY PurgeGood
<1>3. \A j \in Keys : t.data[j] = IF j = k THEN Fresh(s.data[k], now) ELSE s.data[j]
  BY <1>0, PurgeEntries
<1> HIDE DEF t
<1>4. t \in StoreType /\ t.data \in DataType /\ Sound(t)
  BY <1>2 DEF Good, Sound, StoreType
<1>5. t.data[k] = f /\ (\A j \in Keys : j # k => t.data[j] = s.data[j])
  BY <1>3
<1>6. counts = CanCount(f, delta)
  BY <1>5 DEF Has, CanCount
<1>7. NewEntry(v, expireAt) = Counted(f, delta)
  BY <1>5 DEF Has, Counted
<1> HIDE DEF f
<1>8. CASE ~counts
  <2>1. r.store = t /\ r.ok = FALSE
    BY <1>1, <1>8
  <2> QED
    BY <1>2, <1>5, <1>6, <1>8, <2>1 DEF f
<1>9. CASE counts
  <2>1. r.store = Evict(p, now) /\ r.ok = TRUE
    BY <1>1, <1>9
  <2>2. v \in Value
    BY <1>9 DEF Value
  <2>3. expireAt \in Deadline
    BY <1>4 DEF DataType, Deadline, Has, Entry
  <2> HIDE DEF current, expireAt, v
  <2>4. IsPut(p, t, k, v, expireAt)
    BY <1>4, <2>2, <2>3, PutFields
  <2>5. Sound(p)
    BY <1>4, <2>2, <2>3, PutSound
  <2> HIDE DEF p
  <2>6. /\ p.evicted = <<>> /\ (NoEviction(s) => NoEviction(p))
        /\ \A j \in Keys : p.data[j] = IF j = k THEN Counted(f, delta) ELSE s.data[j]
    BY <1>2, <1>5, <1>7, <2>4 DEF IsPut, NoEviction, SameOptions, Fewer
  <2>7. Trimmed(r.store, p.data, r.store.evicted, now) /\ (NoEviction(p) => r.store = p)
    BY <2>1, <2>5, <2>6, EvictEntries
  <2> QED
    BY <1>6, <1>9, <2>1, <2>6, <2>7 DEF f
<1> QED
  BY <1>8, <1>9

LEMMA ExpireEntries ==
    ASSUME NEW s, Good(s), NEW k \in Keys, NEW at \in Int, NEW now \in Int,
           NEW t, t = Expire(s, k, at, now)
    PROVE  \A j \in Keys : t.data[j] = IF j = k THEN Redated(Fresh(s.data[k], now), at)
                                       ELSE s.data[j]
<1> DEFINE u == Purge(s, k, now)
           p == [u EXCEPT !.data[k].expireAt = at]
<1>0. s \in StoreType
  BY DEF Good, Sound
<1>1. Good(u)
  BY PurgeGood
<1>2. \A j \in Keys : u.data[j] = IF j = k THEN Fresh(s.data[k], now) ELSE s.data[j]
  BY <1>0, PurgeEntries
<1>3. t = IF Has(u, k) THEN Schedule(p, k, at) ELSE u
  BY DEF Expire
<1> HIDE DEF u
<1>4. u \in StoreType /\ u.data \in DataType
  BY <1>1 DEF Good, Sound, StoreType
<1>5. CASE Has(u, k)
  <2>1. at \in Deadline
    BY DEF Deadline
  <2>2. /\ Sound(p) /\ SameOptions(p, u) /\ p.evicted = u.evicted
        /\ p.order = u.order /\ p.used = u.used
        /\ Has(p, k) /\ p.data[k].expireAt = at /\ Covered(p, Keys \ {k})
        /\ at = None => Covered(p, Keys)
    BY <1>1, <1>5, <2>1, RedateSound
  <2>3. \A j \in Keys : p.data[j] = IF j = k THEN [u.data[k] EXCEPT !.expireAt = at] ELSE u.data[j]
    BY <1>4 DEF StoreType, DataType
  <2> HIDE DEF p
  <2>4. t.data = p.data
    BY <1>3, <1>5, <2>2, ScheduleSound
  <2> QED
    BY <1>2, <1>5, <2>3, <2>4 DEF Redated, Has
<1>6. CASE ~Has(u, k)
  BY <1>2, <1>3, <1>6 DEF Redated, Has
<1> QED
  BY <1>5, <1>6

LEMMA PersistEntries ==
    ASSUME NEW s, Good(s), NEW k \in Keys, NEW now \in Int, NEW t, t = Persist(s, k, now)
    PROVE  \A j \in Keys : t.data[j] = IF j = k THEN Redated(Fresh(s.data[k], now), None)
                                       ELSE s.data[j]
<1> DEFINE u == Purge(s, k, now)
<1>0. s \in StoreType
  BY DEF Good, Sound
<1>1. Good(u)
  BY PurgeGood
<1>2. \A j \in Keys : u.data[j] = IF j = k THEN Fresh(s.data[k], now) ELSE s.data[j]
  BY <1>0, PurgeEntries
<1>3. t = IF Has(u, k) THEN [u EXCEPT !.data[k].expireAt = None] ELSE u
  BY DEF Persist
<1> HIDE DEF u
<1>4. u \in StoreType /\ u.data \in DataType
  BY <1>1 DEF Good, Sound, StoreType
<1>5. CASE Has(u, k)
  <2>1. \A j \in Keys : t.data[j] = IF j = k THEN [u.data[k] EXCEPT !.expireAt = None] ELSE u.data[j]
    BY <1>3, <1>4, <1>5 DEF StoreType, DataType
  <2> QED
    BY <1>2, <1>5, <2>1 DEF Redated, Has
<1>6. CASE ~Has(u, k)
  BY <1>2, <1>3, <1>6 DEF Redated, Has
<1> QED
  BY <1>5, <1>6

LEMMA DeleteEntries ==
    ASSUME NEW s, Good(s), NEW k \in Keys, NEW t, t = Delete(s, k)
    PROVE  \A j \in Keys : t.data[j] = IF j = k THEN None ELSE s.data[j]
<1>0. s \in StoreType /\ t = RemoveKeys(s, {k}) /\ {k} \subseteq Keys
  BY DEF Good, Sound, Delete
<1>1. /\ t \in StoreType
      /\ \A j \in Keys : t.data[j] = IF j \in {k} THEN None ELSE s.data[j]
      /\ t.order = Without(s.order, {k}) /\ t.used = s.used - SizeOf(s, {k})
      /\ t.heap = s.heap /\ t.evicted = s.evicted /\ SameOptions(t, s)
  BY <1>0, RemoveFields
<1> QED
  BY <1>1

Updated(s, c, now, k) == IF k = c.key THEN After(s.data[k], c, now) ELSE s.data[k]

\* t is s with the effect of c, and nothing else has changed.
Exactly(t, s, c, now) ==
    t.evicted = <<>> /\ \A k \in Keys : t.data[k] = Updated(s, c, now, k)

\* The same, but for the evicted keys and some that have expired.
Roughly(t, s, c, now) ==
    \A k \in Keys : IF In(t.evicted, k) THEN t.data[k] = None
                    ELSE Kept(t.data[k], Updated(s, c, now, k), now)

LEMMA ExactIsRough ==
    ASSUME NEW t, NEW s, NEW c, NEW now, Exactly(t, s, c, now)
    PROVE  Roughly(t, s, c, now)
BY DEF Exactly, Roughly, Kept, In

LEMMA SetEffect ==
    ASSUME NEW s, Good(s), s.evicted = <<>>, NEW c, c.op = "SET", c.key \in Keys,
           c.value \in Value, c.ttl \in Lifetime, NEW now \in Int, NEW r, r = DispatchSet(s, c, now)
    PROVE  /\ r.ok = TRUE /\ r.wrote = ~SetRefused(Fresh(s.data[c.key], now), c)
           /\ Roughly(r.store, s, c, now)
           /\ NoEviction(s) \/ ~r.wrote => Exactly(r.store, s, c, now)
<1> DEFINE t == Get(s, c.key, now)
           f == Fresh(s.data[c.key], now)
           at == IF c.ttl = None THEN None ELSE now + c.ttl
           u == Set(t, c.key, c.value, c.ttl, now)
<1>1. Good(t) /\ SameOptions(t, s) /\ t.evicted = <<>>
  BY GetGood
<1>2. \A j \in Keys : t.data[j] = IF j = c.key THEN Fresh(s.data[c.key], now) ELSE s.data[j]
  BY GetEntries
<1>3. r = IF SetRefused(t.data[c.key], c) THEN Result(t, TRUE, FALSE) ELSE Result(u, TRUE, TRUE)
  BY DEF DispatchSet, SetRefused, Has
<1> HIDE DEF t
<1>4. t.data[c.key] = f /\ (\A j \in Keys : j # c.key => t.data[j] = s.data[j])
  BY <1>2
<1>5. \A k \in Keys : Updated(s, c, now, k) = IF k # c.key THEN s.data[k]
                                             ELSE IF SetRefused(f, c) THEN f
                                             ELSE NewEntry(c.value, at)
  BY DEF Updated, After
<1> HIDE DEF f, at
<1>6. CASE SetRefused(f, c)
  <2>1. r.store = t /\ r.ok = TRUE /\ r.wrote = FALSE
    BY <1>3, <1>4, <1>6 DEF Result
  <2>2. Exactly(r.store, s, c, now)
    BY <1>1, <1>4, <1>5, <1>6, <2>1 DEF Exactly
  <2> QED
    BY <1>6, <2>1, <2>2, ExactIsRough DEF f
<1>7. CASE ~SetRefused(f, c)
  <2>1. r.store = u /\ r.ok = TRUE /\ r.wrote = TRUE
    BY <1>3, <1>4, <1>7 DEF Result
  <2>2. PICK d : /\ SetData(d, t, c.key, c.value, at)
                 /\ Trimmed(u, d, u.evicted, now)
                 /\ NoEviction(t) => u.data = d /\ u.evicted = <<>>
    BY <1>1, SetEntries DEF at
  <2> HIDE DEF u
  <2>3. \A k \in Keys : d[k] = Updated(s, c, now, k)
    BY <1>4, <1>5, <1>7, <2>2 DEF SetData
  <2>4. Roughly(u, s, c, now)
    BY <2>2, <2>3 DEF Roughly, Trimmed
  <2>5. NoEviction(s) => Exactly(u, s, c, now)
    BY <1>1, <2>2, <2>3 DEF NoEviction, SameOptions, Exactly
  <2> QED
    BY <1>7, <2>1, <2>4, <2>5 DEF f
<1> QED
  BY <1>6, <1>7

LEMMA IncrEffect ==
    ASSUME NEW s, Good(s), s.evicted = <<>>, NEW c, c.op = "INCR", c.key \in Keys,
           c.delta \in Int, NEW now \in Int, NEW r, r = DispatchIncr(s, c, now)
    PROVE  /\ r.ok = CanCount(Fresh(s.data[c.key], now), c.delta)
           /\ Roughly(r.store, s, c, now)
           /\ NoEviction(s) \/ ~r.ok => Exactly(r.store, s, c, now)
<1> DEFINE f == Fresh(s.data[c.key], now)
           i == Incr(s, c.key, c.delta, now)
<1>1. r.store = i.store /\ r.ok = i.ok
  BY DEF DispatchIncr, Result
<1>2. /\ i.ok = CanCount(f, c.delta)
      /\ i.ok => \E d : /\ \A j \in Keys : d[j] = IF j = c.key THEN Counted(f, c.delta)
                                                  ELSE s.data[j]
                        /\ Trimmed(i.store, d, i.store.evicted, now)
                        /\ NoEviction(s) => i.store.data = d /\ i.store.evicted = <<>>
      /\ ~i.ok => /\ \A j \in Keys : i.store.data[j] = IF j = c.key THEN f ELSE s.data[j]
                  /\ i.store.evicted = <<>>
  BY IncrEntries
<1> HIDE DEF i
<1>3. \A k \in Keys : Updated(s, c, now, k) = IF k # c.key THEN s.data[k]
                                             ELSE IF CanCount(f, c.delta)
                                             THEN Counted(f, c.delta) ELSE f
  BY DEF Updated, After
<1> HIDE DEF f
<1>4. CASE ~i.ok
  <2>1. Exactly(r.store, s, c, now)
    BY <1>1, <1>2, <1>3, <1>4 DEF Exactly
  <2> QED
    BY <1>1, <1>2, <2>1, ExactIsRough DEF f
<1>5. CASE i.ok
  <2>1. PICK d : /\ \A j \in Keys : d[j] = IF j = c.key THEN Counted(f, c.delta)
                                           ELSE s.data[j]
                 /\ Trimmed(i.store, d, i.store.evicted, now)
                 /\ NoEviction(s) => i.store.data = d /\ i.store.evicted = <<>>
    BY <1>2, <1>5
  <2>2. \A k \in Keys : d[k] = Updated(s, c, now, k)
    BY <1>2, <1>3, <1>5, <2>1
  <2>3. Roughly(r.store, s, c, now)
    BY <1>1, <2>1, <2>2 DEF Roughly, Trimmed
  <2>4. NoEviction(s) => Exactly(r.store, s, c, now)
    BY <1>1, <2>1, <2>2 DEF Exactly
  <2> QED
    BY <1>1, <1>2, <1>5, <2>3, <2>4 DEF f
<1> QED
  BY <1>4, <1>5

\* dispatch() of a command that names one key.
LEMMA KeyedEffect ==
    ASSUME NEW s, Good(s), s.evicted = <<>>, NEW c \in CommandType, c.op \in Keyed,
           NEW now \in Int, NEW r, r = Dispatch(s, c, now)
    PROVE  /\ c.key \in Keys
           /\ Roughly(r.store, s, c, now)
           /\ NoEviction(s) => Exactly(r.store, s, c, now)
           /\ c.op \notin {"SET", "INCR"} => Exactly(r.store, s, c, now) /\ r.ok = TRUE
           /\ c.op = "SET" => /\ r.ok = TRUE /\ r.wrote = ~SetRefused(Fresh(s.data[c.key], now), c)
                              /\ ~r.wrote => Exactly(r.store, s, c, now)
           /\ c.op = "INCR" => /\ r.ok = CanCount(Fresh(s.data[c.key], now), c.delta)
                               /\ ~r.ok => Exactly(r.store, s, c, now)
<1>0. s \in StoreType
  BY DEF Good, Sound
<1>1. CASE c.op = "SET"
  <2>1. c.key \in Keys /\ c.value \in Value /\ c.ttl \in Lifetime
    BY <1>1 DEF CommandType, Lifetime
  <2>2. r = DispatchSet(s, c, now)
    BY <1>1 DEF Dispatch
  <2>3. /\ r.ok = TRUE /\ r.wrote = ~SetRefused(Fresh(s.data[c.key], now), c)
        /\ Roughly(r.store, s, c, now)
        /\ NoEviction(s) \/ ~r.wrote => Exactly(r.store, s, c, now)
    BY <1>1, <2>1, <2>2, SetEffect
  <2> QED
    BY <1>1, <2>1, <2>3
<1>2. CASE c.op = "INCR"
  <2>1. c.key \in Keys /\ c.delta \in Int
    BY <1>2 DEF CommandType
  <2>2. r = DispatchIncr(s, c, now)
    BY <1>2 DEF Dispatch
  <2>3. /\ r.ok = CanCount(Fresh(s.data[c.key], now), c.delta)
        /\ Roughly(r.store, s, c, now)
        /\ NoEviction(s) \/ ~r.ok => Exactly(r.store, s, c, now)
    BY <1>2, <2>1, <2>2, IncrEffect
  <2> QED
    BY <1>2, <2>1, <2>3
<1>3. CASE c.op = "DEL"
  <2>1. c.key \in Keys
    BY <1>3 DEF CommandType
  <2>2. r.store = Delete(s, c.key) /\ r.ok = TRUE
    BY <1>3 DEF Dispatch, Result
  <2>3. r.store.evicted = s.evicted
    BY <2>1, <2>2, DeleteGood
  <2>4. \A j \in Keys : r.store.data[j] = IF j = c.key THEN None ELSE s.data[j]
    BY <2>1, <2>2, DeleteEntries
  <2>5. Exactly(r.store, s, c, now)
    BY <1>3, <2>3, <2>4 DEF Exactly, Updated, After
  <2> QED
    BY <1>3, <2>1, <2>2, <2>5, ExactIsRough
<1>4. CASE c.op \in {"EXPIRE", "PEXPIREAT"}
  <2> DEFINE at == IF c.op = "EXPIRE" THEN now + c.ttl ELSE c.at
  <2>1. c.key \in Keys /\ at \in Int
    BY <1>4 DEF CommandType
  <2>2. r.store = Expire(s, c.key, at, now) /\ r.ok = TRUE
    BY <1>4 DEF Dispatch, Result
  <2>3. \A k \in Keys : Updated(s, c, now, k) = IF k = c.key THEN Redated(Fresh(s.data[k], now), at)
                                               ELSE s.data[k]
    BY <1>4 DEF Updated, After
  <2> HIDE DEF at
  <2>4. r.store.evicted = s.evicted
    BY <2>1, <2>2, ExpireGood
  <2>5. \A j \in Keys : r.store.data[j] = IF j = c.key THEN Redated(Fresh(s.data[c.key], now), at)
                                          ELSE s.data[j]
    BY <2>1, <2>2, ExpireEntries
  <2>6. Exactly(r.store, s, c, now)
    BY <2>3, <2>4, <2>5 DEF Exactly
  <2> QED
    BY <1>4, <2>1, <2>2, <2>6, ExactIsRough
<1>5. CASE c.op = "PERSIST"
  <2>1. c.key \in Keys
    BY <1>5 DEF CommandType
  <2>2. r.store = Persist(s, c.key, now) /\ r.ok = TRUE
    BY <1>5 DEF Dispatch, Result
  <2>3. r.store.evicted = s.evicted
    BY <2>1, <2>2, PersistGood
  <2>4. \A j \in Keys : r.store.data[j] = IF j = c.key THEN Redated(Fresh(s.data[c.key], now), None)
                                          ELSE s.data[j]
    BY <2>1, <2>2, PersistEntries
  <2>5. Exactly(r.store, s, c, now)
    BY <1>5, <2>3, <2>4 DEF Exactly, Updated, After
  <2> QED
    BY <1>5, <2>1, <2>2, <2>5, ExactIsRough
<1>6. CASE c.op = "GET"
  <2>1. c.key \in Keys
    BY <1>6 DEF CommandType
  <2>2. r.store = Get(s, c.key, now) /\ r.ok = TRUE
    BY <1>6 DEF Dispatch, Result
  <2>3. r.store.evicted = s.evicted
    BY <2>1, <2>2, GetGood
  <2>4. \A j \in Keys : r.store.data[j] = IF j = c.key THEN Fresh(s.data[c.key], now) ELSE s.data[j]
    BY <2>1, <2>2, GetEntries
  <2>5. Exactly(r.store, s, c, now)
    BY <1>6, <2>3, <2>4 DEF Exactly, Updated, After
  <2> QED
    BY <1>6, <2>1, <2>2, <2>5, ExactIsRough
<1>7. CASE c.op = "TTL"
  <2>1. c.key \in Keys
    BY <1>7 DEF CommandType
  <2>2. r.store = Purge(s, c.key, now) /\ r.ok = TRUE
    BY <1>7 DEF Dispatch, Result, Ttl
  <2>3. r.store.evicted = s.evicted
    BY <2>1, <2>2, PurgeGood
  <2>4. \A j \in Keys : r.store.data[j] = IF j = c.key THEN Fresh(s.data[c.key], now) ELSE s.data[j]
    BY <1>0, <2>1, <2>2, PurgeEntries
  <2>5. Exactly(r.store, s, c, now)
    BY <1>7, <2>3, <2>4 DEF Exactly, Updated, After
  <2> QED
    BY <1>7, <2>1, <2>2, <2>5, ExactIsRough
<1> QED
  BY <1>1, <1>2, <1>3, <1>4, <1>5, <1>6, <1>7 DEF Keyed

-----------------------------------------------------------------------------
(***************************************************************************)
(* Any command, in a store that does not evict.                            *)
(***************************************************************************)
\* The i-th pair is the last one for k.
LastPair(pairs, k, i) == pairs[i][1] = k /\ \A j \in 1..Len(pairs) : j > i => pairs[j][1] # k

\* The entry of k is e before an MSET and d after it.
Assigned(d, e, pairs, k) ==
    IF \E i \in 1..Len(pairs) : pairs[i][1] = k
    THEN \E i \in 1..Len(pairs) : LastPair(pairs, k, i) /\ d = NewEntry(pairs[i][2], None)
    ELSE d = e

\* The entry of k is e before a command and d after it.
Becomes(d, e, c, k, now) ==
    /\ c.op \in Keyed   => d = IF k = c.key THEN After(e, c, now) ELSE e
    /\ c.op = "MSET"    => Assigned(d, e, c.pairs, k)
    /\ c.op = "FLUSHDB" => d = None
    /\ c.op = "KEYS"    => d = Fresh(e, now)
    /\ c.op = "PING"    => d = e

\* A store that does not evict, between two commands.
Still(s) == Good(s) /\ NoEviction(s) /\ s.evicted = <<>>

LEMMA MsetEffect ==
    ASSUME NEW s, Still(s), NEW c, c.pairs \in Seq(Keys \X Value), NEW now \in Int,
           NEW t, t = DispatchMset(s, c, now)
    PROVE  Still(t) /\ \A k \in Keys : Assigned(t.data[k], s.data[k], c.pairs, k)
<1> DEFINE q == c.pairs
           L == Len(q)
<1>0. q \in Seq(Keys \X Value) /\ L \in Nat
  OBVIOUS
<1>1. PICK f : SetsOneByOne(f, s, c, now)
  BY MsetSteps
<1>2. /\ f[0] = s /\ t = f[L]
      /\ \A n \in Nat : n + 1 <= L => f[n + 1] = Set(f[n], q[n + 1][1], q[n + 1][2], None, now)
  BY <1>1 DEF SetsOneByOne
<1> HIDE DEF q
<1> DEFINE Of(k, n) ==
             \/ (\A i \in 1..n : q[i][1] # k) /\ f[n].data[k] = s.data[k]
             \/ \E i \in 1..n : /\ q[i][1] = k /\ f[n].data[k] = NewEntry(q[i][2], None)
                               /\ \A j \in 1..n : j > i => q[j][1] # k
           N == {n \in Nat : n <= L => Still(f[n]) /\ \A k \in Keys : Of(k, n)}
<1>3. 0 \in N
  BY <1>2
<1>4. \A n \in Nat : n \in N => n + 1 \in N
  <2> SUFFICES ASSUME NEW n \in Nat, n + 1 <= L, Still(f[n]), \A k \in Keys : Of(k, n)
               PROVE  Still(f[n + 1]) /\ \A k \in Keys : Of(k, n + 1)
    <3> HIDE DEF Of, L
    <3> QED
      BY <1>0
  <2> DEFINE a == q[n + 1][1]
             v == q[n + 1][2]
             x == f[n]
             y == f[n + 1]
  <2>0. q[n + 1] \in Keys \X Value
    BY <1>0
  <2>1. a \in Keys /\ v \in Value /\ None \in Lifetime /\ y = Set(x, a, v, None, now)
    BY <1>2, <2>0 DEF Lifetime
  <2>2. Good(x) /\ x.evicted = <<>> /\ NoEviction(x)
    BY DEF Still
  <2> HIDE DEF a, v, x, y
  <2>3. Good(y) /\ SameOptions(y, x)
    BY <2>1, <2>2, SetGood
  <2>4. PICK d : /\ SetData(d, x, a, v, IF None = None THEN None ELSE now + None)
                 /\ Trimmed(y, d, y.evicted, now)
                 /\ NoEviction(x) => y.data = d /\ y.evicted = <<>>
    BY <2>1, <2>2, SetEntries
  <2>5. y.evicted = <<>> /\ \A k \in Keys : y.data[k] = IF k = a THEN NewEntry(v, None) ELSE x.data[k]
    BY <2>2, <2>4 DEF SetData
  <2>6. Still(y)
    BY <2>2, <2>3, <2>5 DEF Still, NoEviction, SameOptions
  <2>7. ASSUME NEW k \in Keys
        PROVE  Of(k, n + 1)
    <3>1. CASE k = a
      <4>1. n + 1 \in 1..(n + 1) /\ q[n + 1][1] = k /\ f[n + 1].data[k] = NewEntry(q[n + 1][2], None)
        BY <2>5, <3>1 DEF a, v, y
      <4>2. \A j \in 1..(n + 1) : ~(j > n + 1)
        OBVIOUS
      <4> QED
        BY <4>1, <4>2
    <3>2. CASE k # a
      <4>0. f[n + 1].data[k] = f[n].data[k] /\ q[n + 1][1] # k
        BY <2>5, <3>2 DEF a, x, y
      <4>1. \A j \in 1..(n + 1) : j \in 1..n \/ j = n + 1
        OBVIOUS
      <4>2. Of(k, n)
        OBVIOUS
      <4>3. CASE (\A i \in 1..n : q[i][1] # k) /\ f[n].data[k] = s.data[k]
        BY <4>0, <4>1, <4>3
      <4>4. ASSUME NEW i \in 1..n, q[i][1] = k, f[n].data[k] = NewEntry(q[i][2], None),
                   \A j \in 1..n : j > i => q[j][1] # k
            PROVE  Of(k, n + 1)
        <5>1. i \in 1..(n + 1) /\ \A j \in 1..(n + 1) : j > i => q[j][1] # k
          BY <4>0, <4>1, <4>4
        <5> QED
          BY <4>0, <4>4, <5>1
      <4> QED
        BY <4>2, <4>3, <4>4
    <3> QED
      BY <3>1, <3>2
  <2> QED
    BY <2>6, <2>7 DEF y
<1> HIDE DEF N
<1>5. L \in N
  BY <1>0, <1>3, <1>4, Induction
<1>6. Still(t) /\ \A k \in Keys : Of(k, L)
  BY <1>0, <1>2, <1>5 DEF N
<1>7. ASSUME NEW k \in Keys
      PROVE  Assigned(t.data[k], s.data[k], q, k)
  BY <1>2, <1>6 DEF Assigned, LastPair
<1> QED
  BY <1>6, <1>7 DEF q

LEMMA DispatchEffect ==
    ASSUME NEW s, Still(s), NEW c \in CommandType, NEW now \in Int,
           NEW t, t = Dispatch(s, c, now).store
    PROVE  Still(t) /\ SameOptions(t, s) /\ \A k \in Keys : Becomes(t.data[k], s.data[k], c, k, now)
<1> DEFINE r == Dispatch(s, c, now)
<1>0. Good(s) /\ NoEviction(s) /\ s.evicted = <<>> /\ Sound(s) /\ Covered(s, Keys)
  BY DEF Still, Good
<1>1. Reached(r.store, s)
  BY <1>0, DispatchGood
<1>2. Good(t) /\ SameOptions(t, s) /\ NoEviction(t)
  BY <1>0, <1>1 DEF Reached, NoEviction, SameOptions
<1>3. CASE c.op \in Keyed
  <2>1. Exactly(r.store, s, c, now)
    BY <1>0, <1>3, KeyedEffect
  <2>2. t.evicted = <<>> /\ \A k \in Keys : t.data[k] = IF k = c.key THEN After(s.data[k], c, now)
                                                      ELSE s.data[k]
    BY <2>1 DEF Exactly, Updated
  <2>3. c.op \notin {"MSET", "FLUSHDB", "KEYS", "PING"}
    BY <1>3 DEF Keyed
  <2> QED
    BY <1>2, <2>2, <2>3 DEF Still, Becomes
<1>4. CASE c.op = "MSET"
  <2>1. c.pairs \in Seq(Keys \X Value)
    BY <1>4 DEF CommandType
  <2>2. t = DispatchMset(s, c, now)
    BY <1>4 DEF Dispatch, Result
  <2>3. Still(t) /\ \A k \in Keys : Assigned(t.data[k], s.data[k], c.pairs, k)
    BY <2>1, <2>2, MsetEffect
  <2> QED
    BY <1>2, <1>4, <2>3 DEF Becomes, Keyed
<1>5. CASE c.op = "FLUSHDB"
  <2>1. t = Flush(s)
    BY <1>5 DEF Dispatch, Result
  <2>2. t.evicted = <<>> /\ \A k \in Keys : t.data[k] = None
    BY <1>0, <2>1 DEF Flush, Sound, StoreType
  <2> QED
    BY <1>2, <1>5, <2>2 DEF Becomes, Still, Keyed
<1>6. CASE c.op = "KEYS"
  <2>1. t = Sweep(s, now)
    BY <1>6 DEF Dispatch, Result
  <2>2. t.evicted = <<>>
    BY <1>0, <2>1, SweepGood
  <2>3. \A k \in Keys : t.data[k] = Fresh(s.data[k], now)
    BY <1>0, <2>1, SweepEntries
  <2> QED
    BY <1>2, <1>6, <2>2, <2>3 DEF Becomes, Still, Keyed
<1>7. CASE c.op = "PING"
  <2>1. t = s
    BY <1>7 DEF Dispatch, Result
  <2> QED
    BY <1>2, <1>7, <2>1 DEF Becomes, Keyed
<1>8. c.op \in Keyed \/ c.op \in {"MSET", "FLUSHDB", "KEYS", "PING"}
  BY DEF CommandType, Keyed
<1> QED
  BY <1>3, <1>4, <1>5, <1>6, <1>7, <1>8

\* A command has one effect.
LEMMA BecomesOnce ==
    ASSUME NEW d, NEW x, NEW e, NEW c \in CommandType, NEW k, NEW now,
           Becomes(d, e, c, k, now), Becomes(x, e, c, k, now)
    PROVE  d = x
<1>1. CASE c.op = "MSET"
  <2> DEFINE q == c.pairs
             L == Len(q)
  <2>1. q \in Seq(Keys \X Value) /\ L \in Nat
    BY <1>1 DEF CommandType
  <2>2. Assigned(d, e, q, k) /\ Assigned(x, e, q, k)
    BY <1>1 DEF Becomes, Keyed
  <2> HIDE DEF q
  <2>3. CASE ~\E i \in 1..L : q[i][1] = k
    BY <2>2, <2>3 DEF Assigned
  <2>4. CASE \E i \in 1..L : q[i][1] = k
    <3>1. PICK i \in 1..L : LastPair(q, k, i) /\ d = NewEntry(q[i][2], None)
      BY <2>2, <2>4 DEF Assigned
    <3>2. PICK j \in 1..L : LastPair(q, k, j) /\ x = NewEntry(q[j][2], None)
      BY <2>2, <2>4 DEF Assigned
    <3>3. ~(i > j) /\ ~(j > i)
      BY <3>1, <3>2 DEF LastPair
    <3>4. i = j
      BY <2>1, <3>3
    <3> QED
      BY <3>1, <3>2, <3>4
  <2> QED
    BY <2>3, <2>4
<1>2. CASE c.op # "MSET"
  <2>1. c.op \in Keyed \/ c.op \in {"FLUSHDB", "KEYS", "PING"}
    BY <1>2 DEF CommandType, Keyed
  <2> QED
    BY <1>2, <2>1 DEF Becomes, Keyed
<1> QED
  BY <1>1, <1>2

-----------------------------------------------------------------------------
(***************************************************************************)
(* Sequences of commands.                                                  *)
(***************************************************************************)
Walks(f, q, now) == \A n \in Nat : n + 1 <= Len(q) => f[n + 1] = Dispatch(f[n], q[n + 1], now).store

LEMMA WalkEnds ==
    ASSUME NEW q \in Seq(CommandType), NEW now, NEW f, Walks(f, q, now)
    PROVE  DispatchAll(f[0], q, now) = f[Len(q)]
<1>1. PICK g : OneByOne(g, f[0], q, now)
  BY DispatchSteps
<1>2. /\ g[0] = f[0] /\ DispatchAll(f[0], q, now) = g[Len(q)]
      /\ \A n \in Nat : n + 1 <= Len(q) => g[n + 1] = Dispatch(g[n], q[n + 1], now).store
  BY <1>1 DEF OneByOne
<1> DEFINE N == {n \in Nat : n <= Len(q) => g[n] = f[n]}
<1>3. 0 \in N
  BY <1>2
<1>4. \A n \in Nat : n \in N => n + 1 \in N
  <2> SUFFICES ASSUME NEW n \in Nat, n <= Len(q) => g[n] = f[n], n + 1 <= Len(q)
               PROVE  g[n + 1] = f[n + 1]
    OBVIOUS
  <2>1. g[n] = f[n]
    <3>1. Len(q) \in Nat
      OBVIOUS
    <3> QED
      BY <3>1
  <2>2. f[n + 1] = Dispatch(f[n], q[n + 1], now).store
    BY DEF Walks
  <2> QED
    BY <1>2, <2>1, <2>2
<1> HIDE DEF N
<1>5. Len(q) \in Nat /\ Len(q) \in N
  BY <1>3, <1>4, Induction
<1> QED
  BY <1>2, <1>5 DEF N

LEMMA DispatchNothing ==
    ASSUME NEW s, NEW now
    PROVE  DispatchAll(s, <<>>, now) = s
<1> DEFINE f == [n \in {0} |-> s]
<1>1. <<>> \in Seq(CommandType) /\ Len(<<>>) = 0
  OBVIOUS
<1>2. Walks(f, <<>>, now)
  BY <1>1 DEF Walks
<1>3. f[0] = s
  OBVIOUS
<1> HIDE DEF f
<1> QED
  BY <1>1, <1>2, <1>3, WalkEnds

LEMMA DispatchOne ==
    ASSUME NEW s, NEW c \in CommandType, NEW now
    PROVE  DispatchAll(s, <<c>>, now) = Dispatch(s, c, now).store
<1> DEFINE f == [n \in {0, 1} |-> IF n = 0 THEN s ELSE Dispatch(s, c, now).store]
<1>1. <<c>> \in Seq(CommandType) /\ Len(<<c>>) = 1 /\ <<c>>[1] = c
  OBVIOUS
<1>2. f[0] = s /\ f[1] = Dispatch(s, c, now).store
  OBVIOUS
<1> HIDE DEF f
<1>3. Walks(f, <<c>>, now)
  <2> SUFFICES ASSUME NEW n \in Nat, n + 1 <= 1
               PROVE  f[n + 1] = Dispatch(f[n], <<c>>[n + 1], now).store
    BY <1>1 DEF Walks
  <2>1. n = 0
    OBVIOUS
  <2> QED
    BY <1>1, <1>2, <2>1
<1> QED
  BY <1>1, <1>2, <1>3, WalkEnds

LEMMA DispatchTwo ==
    ASSUME NEW s, NEW a \in CommandType, NEW b \in CommandType, NEW now
    PROVE  DispatchAll(s, <<a, b>>, now) = Dispatch(Dispatch(s, a, now).store, b, now).store
<1> DEFINE t == Dispatch(s, a, now).store
           u == Dispatch(t, b, now).store
           f == [n \in {0, 1, 2} |-> IF n = 0 THEN s ELSE IF n = 1 THEN t ELSE u]
<1>1. <<a, b>> \in Seq(CommandType) /\ Len(<<a, b>>) = 2 /\ <<a, b>>[1] = a /\ <<a, b>>[2] = b
  OBVIOUS
<1>2. f[0] = s /\ f[1] = Dispatch(f[0], a, now).store /\ f[2] = Dispatch(f[1], b, now).store /\ f[2] = u
  OBVIOUS
<1> HIDE DEF f, u
<1>3. Walks(f, <<a, b>>, now)
  <2> SUFFICES ASSUME NEW n \in Nat, n + 1 <= 2
               PROVE  f[n + 1] = Dispatch(f[n], <<a, b>>[n + 1], now).store
    BY <1>1 DEF Walks
  <2>1. CASE n = 0
    BY <1>1, <1>2, <2>1
  <2>2. CASE n = 1
    <3>1. n + 1 = 2
      BY <2>2
    <3> QED
      BY <1>1, <1>2, <2>2, <3>1
  <2> QED
    BY <2>1, <2>2
<1> QED
  BY <1>1, <1>2, <1>3, WalkEnds DEF u

LEMMA DispatchConcat ==
    ASSUME NEW s, NEW q \in Seq(CommandType), NEW r \in Seq(CommandType), NEW now
    PROVE  DispatchAll(s, q \o r, now) = DispatchAll(DispatchAll(s, q, now), r, now)
<1> DEFINE p == q \o r
<1>0. /\ p \in Seq(CommandType) /\ Len(q) \in Nat /\ Len(r) \in Nat /\ Len(p) = Len(q) + Len(r)
      /\ \A i \in 1..Len(q) : p[i] = q[i]
      /\ \A i \in 1..Len(r) : p[Len(q) + i] = r[i]
  OBVIOUS
<1> HIDE DEF p
<1>1. PICK f : OneByOne(f, s, p, now)
  BY <1>0, DispatchSteps
<1>2. /\ f[0] = s /\ DispatchAll(s, p, now) = f[Len(p)]
      /\ \A n \in Nat : n + 1 <= Len(p) => f[n + 1] = Dispatch(f[n], p[n + 1], now).store
  BY <1>1 DEF OneByOne
<1>3. DispatchAll(s, q, now) = f[Len(q)]
  <2>1. ASSUME NEW n \in Nat, n + 1 <= Len(q)
        PROVE  f[n + 1] = Dispatch(f[n], q[n + 1], now).store
    <3>1. n + 1 <= Len(p) /\ n + 1 \in 1..Len(q)
      BY <1>0, <2>1
    <3> QED
      BY <1>0, <1>2, <3>1
  <2>2. Walks(f, q, now)
    BY <2>1 DEF Walks
  <2> QED
    BY <1>2, <2>2, WalkEnds
<1> DEFINE g == [n \in Nat |-> f[Len(q) + n]]
<1>4. g[0] = f[Len(q)] /\ g[Len(r)] = f[Len(p)]
  BY <1>0
<1>5. Walks(g, r, now)
  <2> SUFFICES ASSUME NEW n \in Nat, n + 1 <= Len(r)
               PROVE  g[n + 1] = Dispatch(g[n], r[n + 1], now).store
    BY DEF Walks
  <2> DEFINE m == Len(q) + n
  <2>1. m \in Nat /\ m + 1 <= Len(p) /\ m + 1 = Len(q) + (n + 1) /\ n + 1 \in 1..Len(r)
    BY <1>0
  <2>2. g[n + 1] = f[Len(q) + (n + 1)] /\ g[n] = f[m]
    OBVIOUS
  <2>3. p[m + 1] = r[n + 1] /\ g[n + 1] = f[m + 1]
    <3> HIDE DEF g, m
    <3> QED
      BY <1>0, <2>1, <2>2
  <2> HIDE DEF m, g
  <2> QED
    BY <1>2, <2>1, <2>2, <2>3
<1> HIDE DEF g
<1>6. DispatchAll(g[0], r, now) = g[Len(r)]
  BY <1>5, WalkEnds
<1> QED
  BY <1>2, <1>3, <1>4, <1>6 DEF p

LEMMA DispatchAllStill ==
    ASSUME NEW s, Still(s), NEW q \in Seq(CommandType), NEW now \in Int
    PROVE  Still(DispatchAll(s, q, now)) /\ SameOptions(DispatchAll(s, q, now), s)
<1>1. PICK f : OneByOne(f, s, q, now)
  BY DispatchSteps
<1>2. /\ f[0] = s /\ DispatchAll(s, q, now) = f[Len(q)]
      /\ \A n \in Nat : n + 1 <= Len(q) => f[n + 1] = Dispatch(f[n], q[n + 1], now).store
  BY <1>1 DEF OneByOne
<1> DEFINE N == {n \in Nat : n <= Len(q) => Still(f[n]) /\ SameOptions(f[n], s)}
<1>3. 0 \in N
  BY <1>2 DEF SameOptions
<1>4. \A n \in Nat : n \in N => n + 1 \in N
  <2> SUFFICES ASSUME NEW n \in Nat, Still(f[n]), SameOptions(f[n], s), n + 1 <= Len(q)
               PROVE  Still(f[n + 1]) /\ SameOptions(f[n + 1], s)
    OBVIOUS
  <2> DEFINE x == f[n]
             c == q[n + 1]
             y == f[n + 1]
  <2>1. c \in CommandType /\ y = Dispatch(x, c, now).store
    BY <1>2
  <2> HIDE DEF x, c, y
  <2>2. Still(y) /\ SameOptions(y, x)
    BY <2>1, DispatchEffect DEF x
  <2> QED
    BY <2>2 DEF SameOptions, x, y
<1> HIDE DEF N
<1>5. Len(q) \in Nat /\ Len(q) \in N
  BY <1>3, <1>4, Induction
<1> QED
  BY <1>2, <1>5 DEF N

-----------------------------------------------------------------------------
(***************************************************************************)
(* A snapshot, dispatched at the moment it is taken.                       *)
(***************************************************************************)
\* The i-th sequence of q makes the entry of the i-th key what it is in d.
Restores(q, ks, d, now) ==
    \A i \in 1..Len(ks) : \A x :
        Still(x) => \A k \in Keys : DispatchAll(x, q[i], now).data[k] = IF k = ks[i] THEN d[k]
                                                                        ELSE x.data[k]

LEMMA SnapshotReplay ==
    ASSUME NEW x, Still(x), NEW ks \in Seq(Keys), NEW q \in Seq(Seq(CommandType)), Len(q) = Len(ks),
           NEW d, NEW now \in Int, Restores(q, ks, d, now),
           NEW y, y = DispatchAll(x, FlattenSeq(q), now)
    PROVE  \A k \in Keys : y.data[k] = IF In(ks, k) THEN d[k] ELSE x.data[k]
<1>1. PICK f : Joins(f, q, CommandType)
  BY FlattenSteps
<1>2. /\ f[0] = <<>> /\ FlattenSeq(q) = f[Len(q)]
      /\ \A n \in Nat : n <= Len(q) => f[n] \in Seq(CommandType)
      /\ \A n \in Nat : n + 1 <= Len(q) => f[n + 1] = f[n] \o q[n + 1]
  BY <1>1 DEF Joins
<1> DEFINE L == Len(q)
<1>0. /\ L \in Nat /\ L = Len(ks) /\ \A i \in 1..L : q[i] \in Seq(CommandType)
      /\ f[0] = <<>> /\ FlattenSeq(q) = f[L]
      /\ \A n \in Nat : n <= L => f[n] \in Seq(CommandType)
      /\ \A n \in Nat : n + 1 <= L => f[n + 1] = f[n] \o q[n + 1]
  <2>1. L \in Nat /\ L = Len(ks)
    OBVIOUS
  <2>2. \A i \in 1..L : q[i] \in Seq(CommandType)
    OBVIOUS
  <2> QED
    BY <1>2, <2>1, <2>2
<1> HIDE DEF L
<1> DEFINE At(n) == DispatchAll(x, f[n], now)
           Done(k, n) == At(n).data[k] = IF \E i \in 1..n : ks[i] = k THEN d[k] ELSE x.data[k]
           Holds(n) == \A k \in Keys : Done(k, n)
           N == {n \in Nat : n <= L => Holds(n)}
<1>3. 0 \in N
  <2>1. At(0) = x
    BY <1>2, DispatchNothing
  <2> QED
    BY <2>1
<1>4. \A n \in Nat : n \in N => n + 1 \in N
  <2> SUFFICES ASSUME NEW n \in Nat, Holds(n), n + 1 <= L
               PROVE  Holds(n + 1)
    <3> HIDE DEF Holds
    <3> QED
      BY <1>0
  <2> DEFINE a == f[n]
             b == q[n + 1]
             u == DispatchAll(x, a, now)
             v == DispatchAll(u, b, now)
  <2>1. a \in Seq(CommandType) /\ b \in Seq(CommandType) /\ f[n + 1] = a \o b
    <3>1. n <= L /\ n + 1 \in 1..L
      BY <1>0
    <3> QED
      BY <1>0, <3>1
  <2> HIDE DEF a
  <2>2. DispatchAll(x, a \o b, now) = v
    BY <2>1, DispatchConcat
  <2>3. Still(u)
    BY <2>1, DispatchAllStill
  <2>4. n + 1 \in 1..Len(ks)
    BY <1>0
  <2>5. \A k \in Keys : v.data[k] = IF k = ks[n + 1] THEN d[k] ELSE u.data[k]
    BY <2>3, <2>4 DEF Restores
  <2>6. At(n + 1) = v /\ At(n) = u
    BY <2>1, <2>2 DEF a
  <2> HIDE DEF v, u, At
  <2> SUFFICES ASSUME NEW k \in Keys
               PROVE  Done(k, n + 1)
    OBVIOUS
  <2>7. Done(k, n)
    OBVIOUS
  <2>8. \A i \in 1..(n + 1) : i \in 1..n \/ i = n + 1
    OBVIOUS
  <2>9. \A i \in 1..n : i \in 1..(n + 1)
    OBVIOUS
  <2>10. n + 1 \in 1..(n + 1)
    OBVIOUS
  <2> QED
    BY <2>5, <2>6, <2>7, <2>8, <2>9, <2>10
<1> HIDE DEF N
<1>5. L \in N
  BY <1>0, <1>3, <1>4, Induction
<1>6. Holds(L)
  <2> HIDE DEF Holds
  <2> QED
    BY <1>0, <1>5 DEF N
<1>7. y = At(L)
  BY <1>0
<1> HIDE DEF At
<1> QED
  BY <1>0, <1>6, <1>7 DEF In

\* The keys a snapshot lists: those that are live.
SnapshotKeys(s, now) == Without(s.order, {k \in Keys : Has(s, k) /\ IsExpired(s.data[k], now)})

LEMMA SnapshotLists ==
    ASSUME NEW s, Good(s), NEW now \in Int
    PROVE  /\ SnapshotKeys(s, now) \in Seq(Keys)
           /\ \A k \in Keys : In(SnapshotKeys(s, now), k) <=> Live(s, k, now)
           /\ Snapshot(s, now) \in Seq(SnapshotEntry) /\ Len(Snapshot(s, now)) = Len(SnapshotKeys(s, now))
           /\ \A i \in 1..Len(SnapshotKeys(s, now)) :
                LET k == SnapshotKeys(s, now)[i]
                IN  /\ k \in Keys /\ Live(s, k, now) /\ s.data[k] \in Entry
                    /\ Snapshot(s, now)[i] = [key |-> k, value |-> s.data[k].value,
                                              expireAt |-> s.data[k].expireAt]
<1> DEFINE out == {k \in Keys : Has(s, k) /\ IsExpired(s.data[k], now)}
           live == SnapshotKeys(s, now)
<1>0. s.order \in Seq(Keys) /\ s.data \in DataType /\ \A k \in Keys : In(s.order, k) <=> Has(s, k)
  BY DEF Good, Sound, StoreType, Listed
<1>1. live \in Seq(Keys) /\ \A k : In(live, k) <=> In(s.order, k) /\ k \notin out
  BY <1>0, WithoutKeys DEF SnapshotKeys
<1>2. \A k \in Keys : In(live, k) <=> Live(s, k, now)
  BY <1>0, <1>1 DEF Live
<1>3. Snapshot(s, now) = [i \in 1..Len(live) |-> [key |-> live[i], value |-> s.data[live[i]].value,
                                                  expireAt |-> s.data[live[i]].expireAt]]
  BY DEF Snapshot, SnapshotKeys
<1>4. Snapshot(s, now) \in Seq(SnapshotEntry)
  BY SnapshotType
<1> HIDE DEF live
<1>5. Len(live) \in Nat /\ Len(Snapshot(s, now)) = Len(live)
  BY <1>1, <1>3
<1>6. ASSUME NEW i \in 1..Len(live)
      PROVE  /\ live[i] \in Keys /\ Live(s, live[i], now) /\ s.data[live[i]] \in Entry
             /\ Snapshot(s, now)[i] = [key |-> live[i], value |-> s.data[live[i]].value,
                                       expireAt |-> s.data[live[i]].expireAt]
  <2>1. live[i] \in Keys /\ In(live, live[i])
    BY <1>1 DEF In
  <2>2. Live(s, live[i], now)
    BY <1>2, <2>1
  <2>3. s.data[live[i]] \in Entry
    BY <1>0, <2>1, <2>2 DEF DataType, Has, Live
  <2> QED
    BY <1>3, <2>1, <2>2, <2>3
<1> QED
  BY <1>1, <1>2, <1>4, <1>5, <1>6 DEF live

LEMMA PlainSetEntries ==
    ASSUME NEW x, Still(x), NEW k \in Keys, NEW v \in Value, NEW now \in Int,
           NEW y, y = DispatchAll(x, <<PlainSet(k, v)>>, now)
    PROVE  Still(y) /\ \A j \in Keys : y.data[j] = IF j = k THEN NewEntry(v, None) ELSE x.data[j]
<1> DEFINE c == PlainSet(k, v)
<1>1. c \in CommandType /\ c.op = "SET" /\ c.key = k /\ c.value = v /\ c.ttl = None /\ c.mode = "always"
  BY CommandTypes DEF PlainSet, CmdSet
<1> HIDE DEF c
<1>2. y = Dispatch(x, c, now).store
  BY <1>1, DispatchOne DEF c
<1>3. Still(y) /\ \A j \in Keys : Becomes(y.data[j], x.data[j], c, j, now)
  BY <1>1, <1>2, DispatchEffect
<1>4. c.op \in Keyed /\ \A e : After(e, c, now) = NewEntry(v, None)
  BY <1>1 DEF Keyed, After, SetRefused
<1> QED
  BY <1>1, <1>3, <1>4 DEF Becomes

LEMMA SetRedatedEntries ==
    ASSUME NEW x, Still(x), NEW k \in Keys, NEW v \in Value, NEW now \in Int,
           NEW c \in CommandType, c.op \in {"EXPIRE", "PEXPIREAT"}, c.key = k,
           NEW at, at = IF c.op = "EXPIRE" THEN now + c.ttl ELSE c.at,
           NEW y, y = DispatchAll(x, <<PlainSet(k, v), c>>, now)
    PROVE  \A j \in Keys : y.data[j] = IF j = k THEN NewEntry(v, at) ELSE x.data[j]
<1> DEFINE p == PlainSet(k, v)
           z == Dispatch(x, p, now).store
<1>0. p \in CommandType /\ z = DispatchAll(x, <<p>>, now)
  BY CommandTypes, DispatchOne
<1>1. Still(z) /\ \A j \in Keys : z.data[j] = IF j = k THEN NewEntry(v, None) ELSE x.data[j]
  BY <1>0, PlainSetEntries
<1>3. y = Dispatch(z, c, now).store
  <2> HIDE DEF p
  <2> QED
    BY <1>0, DispatchTwo DEF p
<1> HIDE DEF z
<1>4. \A j \in Keys : Becomes(y.data[j], z.data[j], c, j, now)
  BY <1>1, <1>3, DispatchEffect
<1>5. c.op \in Keyed /\ \A e : After(e, c, now) = Redated(Fresh(e, now), at)
  BY DEF Keyed, After
<1>6. NewEntry(v, None) # None
  <2>1. NewEntry(v, None) \in Entry
    BY StoreAssumption DEF NewEntry, Entry, Value
  <2> QED
    BY <2>1, NoneAssumption
<1>7. Redated(Fresh(NewEntry(v, None), now), at) = NewEntry(v, at)
  BY <1>6 DEF Redated, Fresh, IsExpired, NewEntry
<1> QED
  BY <1>1, <1>4, <1>5, <1>7 DEF Becomes

\* The deadline a snapshot gives a replica, and the one a rewrite keeps.
LaterEntry(e) == IF e.expireAt = None THEN e ELSE NewEntry(e.value, e.expireAt + 1)

LEMMA EntryIsNew ==
    ASSUME NEW s, Good(s), NEW k \in Keys, Has(s, k)
    PROVE  s.data[k] = NewEntry(s.data[k].value, s.data[k].expireAt)
<1>1. s.data[k] \in Entry /\ s.data[k].size = Cost(s.data[k].value)
  BY DEF Good, Sound, StoreType, DataType, Costed, Has
<1> QED
  BY <1>1 DEF Entry, NewEntry

LEMMA RewriteReplay ==
    ASSUME NEW x, Still(x), \A k \in Keys : x.data[k] = None, NEW s, Good(s), NEW now \in Int,
           NEW y, y = DispatchAll(x, RewriteCommands(s, now), now)
    PROVE  \A k \in Keys : y.data[k] = IF Live(s, k, now) THEN s.data[k] ELSE None
<1> DEFINE es == Snapshot(s, now)
           ks == SnapshotKeys(s, now)
           restore(e) == IF e.expireAt = None
                         THEN <<PlainSet(e.key, e.value)>>
                         ELSE <<PlainSet(e.key, e.value), CmdPexpireat(e.key, e.expireAt)>>
           q == [i \in 1..Len(es) |-> restore(es[i])]
<1>1. RewriteCommands(s, now) = FlattenSeq(q)
  BY DEF RewriteCommands
<1>2. /\ ks \in Seq(Keys) /\ es \in Seq(SnapshotEntry) /\ Len(es) = Len(ks)
      /\ \A k \in Keys : In(ks, k) <=> Live(s, k, now)
      /\ \A i \in 1..Len(ks) :
            /\ ks[i] \in Keys /\ Live(s, ks[i], now) /\ s.data[ks[i]] \in Entry
            /\ es[i] = [key |-> ks[i], value |-> s.data[ks[i]].value,
                        expireAt |-> s.data[ks[i]].expireAt]
  BY SnapshotLists
<1> HIDE DEF es, ks
<1>3. ASSUME NEW e \in SnapshotEntry
      PROVE  restore(e) \in Seq(CommandType)
  <2>1. e.key \in Keys /\ e.value \in Value /\ (e.expireAt # None => e.expireAt \in Int)
    BY DEF SnapshotEntry, Deadline
  <2> QED
    BY <2>1, CommandTypes
<1>4. Restores(q, ks, s.data, now)
  <2> SUFFICES ASSUME NEW i \in 1..Len(ks), NEW z, Still(z), NEW k \in Keys
               PROVE  DispatchAll(z, q[i], now).data[k] = IF k = ks[i] THEN s.data[k] ELSE z.data[k]
    BY DEF Restores
  <2> DEFINE j == ks[i]
             v == s.data[j].value
             at == s.data[j].expireAt
             c == CmdPexpireat(j, at)
  <2>1. /\ j \in Keys /\ Has(s, j) /\ v \in Value /\ (at # None => at \in Int)
        /\ es[i].key = j /\ es[i].value = v /\ es[i].expireAt = at
    <3>1. /\ j \in Keys /\ Live(s, j, now) /\ s.data[j] \in Entry
          /\ es[i] = [key |-> j, value |-> v, expireAt |-> at]
      BY <1>2
    <3>2. v \in Value /\ (at # None => at \in Int)
      <4> HIDE DEF j
      <4> QED
        BY <3>1 DEF Entry
    <3> HIDE DEF v, at, j
    <3> QED
      BY <3>1, <3>2 DEF Live
  <2>2. q[i] = IF at = None THEN <<PlainSet(j, v)>> ELSE <<PlainSet(j, v), c>>
    BY <1>2, <2>1
  <2>3. s.data[j] = NewEntry(v, at)
    BY <2>1, EntryIsNew
  <2> HIDE DEF q, j, v, at
  <2>4. CASE at = None
    BY <2>1, <2>2, <2>3, <2>4, PlainSetEntries DEF j
  <2>5. CASE at # None
    <3>1. c \in CommandType /\ c.op = "PEXPIREAT" /\ c.key = j /\ c.at = at
      BY <2>1, <2>5, CommandTypes DEF CmdPexpireat
    <3> HIDE DEF c
    <3> DEFINE y2 == DispatchAll(z, <<PlainSet(j, v), c>>, now)
    <3>2. \A l \in Keys : y2.data[l] = IF l = j THEN NewEntry(v, at) ELSE z.data[l]
      BY <2>1, <3>1, SetRedatedEntries
    <3> QED
      BY <2>2, <2>3, <2>5, <3>2 DEF j
  <2> QED
    BY <2>4, <2>5
<1> HIDE DEF restore
<1>5. q \in Seq(Seq(CommandType)) /\ Len(q) = Len(ks)
  BY <1>2, <1>3
<1> HIDE DEF q
<1>6. \A k \in Keys : y.data[k] = IF In(ks, k) THEN s.data[k] ELSE x.data[k]
  BY <1>1, <1>2, <1>4, <1>5, SnapshotReplay
<1> QED
  BY <1>2, <1>6

LEMMA ReplicaSnapshotReplay ==
    ASSUME NEW x, Still(x), \A k \in Keys : x.data[k] = None, NEW s, Good(s), NEW now \in Int,
           NEW y, y = DispatchAll(x, SnapshotCommands(s, now), now)
    PROVE  \A k \in Keys : y.data[k] = IF Live(s, k, now) THEN LaterEntry(s.data[k]) ELSE None
<1> DEFINE es == Snapshot(s, now)
           ks == SnapshotKeys(s, now)
           restore(e) == IF e.expireAt = None
                         THEN <<PlainSet(e.key, e.value)>>
                         ELSE <<PlainSet(e.key, e.value), CmdExpire(e.key, e.expireAt - now + 1)>>
           q == [i \in 1..Len(es) |-> restore(es[i])]
           d == [k \in Keys |-> LaterEntry(s.data[k])]
<1>1. SnapshotCommands(s, now) = FlattenSeq(q)
  BY DEF SnapshotCommands
<1>2. /\ ks \in Seq(Keys) /\ es \in Seq(SnapshotEntry) /\ Len(es) = Len(ks)
      /\ \A k \in Keys : In(ks, k) <=> Live(s, k, now)
      /\ \A i \in 1..Len(ks) :
            /\ ks[i] \in Keys /\ Live(s, ks[i], now) /\ s.data[ks[i]] \in Entry
            /\ es[i] = [key |-> ks[i], value |-> s.data[ks[i]].value,
                        expireAt |-> s.data[ks[i]].expireAt]
  BY SnapshotLists
<1> HIDE DEF es, ks
<1>3. ASSUME NEW e \in SnapshotEntry
      PROVE  restore(e) \in Seq(CommandType)
  <2>1. e.key \in Keys /\ e.value \in Value /\ (e.expireAt # None => e.expireAt \in Int)
    BY DEF SnapshotEntry, Deadline
  <2>2. e.expireAt # None => e.expireAt - now + 1 \in Int
    BY <2>1
  <2> QED
    BY <2>1, <2>2, CommandTypes
<1>4. Restores(q, ks, d, now)
  <2> SUFFICES ASSUME NEW i \in 1..Len(ks), NEW z, Still(z), NEW k \in Keys
               PROVE  DispatchAll(z, q[i], now).data[k] = IF k = ks[i] THEN d[k] ELSE z.data[k]
    BY DEF Restores
  <2> DEFINE j == ks[i]
             v == s.data[j].value
             at == s.data[j].expireAt
             ttl == at - now + 1
             c == CmdExpire(j, ttl)
  <2>1. /\ j \in Keys /\ Has(s, j) /\ v \in Value /\ (at # None => at \in Int)
        /\ es[i].key = j /\ es[i].value = v /\ es[i].expireAt = at
    <3>1. /\ j \in Keys /\ Live(s, j, now) /\ s.data[j] \in Entry
          /\ es[i] = [key |-> j, value |-> v, expireAt |-> at]
      BY <1>2
    <3>2. v \in Value /\ (at # None => at \in Int)
      <4> HIDE DEF j
      <4> QED
        BY <3>1 DEF Entry
    <3> HIDE DEF v, at, j
    <3> QED
      BY <3>1, <3>2 DEF Live
  <2>2. q[i] = IF at = None THEN <<PlainSet(j, v)>> ELSE <<PlainSet(j, v), c>>
    BY <1>2, <2>1
  <2>3. s.data[j] = NewEntry(v, at) /\ d[j] = LaterEntry(s.data[j])
    BY <2>1, EntryIsNew
  <2>4. d[j] = NewEntry(v, IF at = None THEN None ELSE at + 1)
    <3> HIDE DEF d, v, at, j
    <3> QED
      BY <2>3 DEF LaterEntry, NewEntry
  <2> HIDE DEF q, j, v, at, d, ttl
  <2>5. CASE at = None
    BY <2>1, <2>2, <2>4, <2>5, PlainSetEntries DEF j
  <2>6. CASE at # None
    <3>1. ttl \in Int /\ now + ttl = at + 1
      BY <2>1, <2>6 DEF ttl
    <3>2. c \in CommandType /\ c.op = "EXPIRE" /\ c.key = j /\ c.ttl = ttl
      BY <2>1, <3>1, CommandTypes DEF CmdExpire
    <3> HIDE DEF c
    <3> DEFINE y2 == DispatchAll(z, <<PlainSet(j, v), c>>, now)
    <3>3. \A l \in Keys : y2.data[l] = IF l = j THEN NewEntry(v, at + 1) ELSE z.data[l]
      BY <2>1, <3>1, <3>2, SetRedatedEntries
    <3> QED
      BY <2>2, <2>4, <2>6, <3>3 DEF j
  <2> QED
    BY <2>5, <2>6
<1>5. \A k \in Keys : d[k] = LaterEntry(s.data[k])
  OBVIOUS
<1> HIDE DEF restore, d
<1>6. q \in Seq(Seq(CommandType)) /\ Len(q) = Len(ks)
  BY <1>2, <1>3
<1> HIDE DEF q
<1>7. \A k \in Keys : y.data[k] = IF In(ks, k) THEN d[k] ELSE x.data[k]
  BY <1>1, <1>2, <1>4, <1>6, SnapshotReplay
<1> QED
  BY <1>2, <1>5, <1>7

-----------------------------------------------------------------------------
(***************************************************************************)
(* Commands that do not count from the present time.                       *)
(***************************************************************************)
Absolute(c) == c.op # "EXPIRE" /\ (c.op = "SET" => c.ttl = None)

\* Their effect is a matter of the entry they find.
LEMMA SameAfter ==
    ASSUME NEW e, NEW d, NEW n, NEW m, Fresh(e, n) = Fresh(d, m), NEW c, c.op \in Keyed, Absolute(c)
    PROVE  After(e, c, n) = After(d, c, m)
<1> DEFINE f == Fresh(e, n)
<1>0. f = Fresh(e, n) /\ f = Fresh(d, m)
  OBVIOUS
<1> HIDE DEF f
<1>1. CASE c.op = "SET"
  BY <1>0, <1>1 DEF After, Absolute
<1>2. CASE c.op = "INCR"
  BY <1>0, <1>2 DEF After
<1>3. CASE c.op = "DEL"
  BY <1>3 DEF After
<1>4. CASE c.op = "PEXPIREAT"
  BY <1>0, <1>4 DEF After
<1>5. CASE c.op = "PERSIST"
  BY <1>0, <1>5 DEF After
<1>6. CASE c.op \in {"GET", "TTL"}
  BY <1>0, <1>6 DEF After
<1> QED
  BY <1>1, <1>2, <1>3, <1>4, <1>5, <1>6 DEF Keyed, Absolute

LEMMA FreshLater ==
    ASSUME NEW e, e = None \/ e \in Entry, NEW n \in Int, NEW m \in Int, n <= m
    PROVE  Fresh(Fresh(e, n), m) = Fresh(e, m)
<1>1. CASE e = None
  BY <1>1 DEF Fresh
<1>2. CASE e \in Entry
  <2>1. e.expireAt = None \/ e.expireAt \in Int
    BY <1>2 DEF Entry
  <2>2. IsExpired(e, n) => IsExpired(e, m)
    BY <2>1 DEF IsExpired
  <2> QED
    BY <2>2 DEF Fresh
<1> QED
  BY <1>1, <1>2

\* An MSET of k leaves the same, whatever was there.
LEMMA AssignedSame ==
    ASSUME NEW q \in Seq(Keys \X Value), NEW k, NEW d, NEW e, NEW x, NEW y,
           Assigned(d, e, q, k), Assigned(y, x, q, k), \E i \in 1..Len(q) : q[i][1] = k
    PROVE  d = y
<1> DEFINE L == Len(q)
<1>0. L \in Nat
  OBVIOUS
<1>1. PICK i \in 1..L : LastPair(q, k, i) /\ d = NewEntry(q[i][2], None)
  BY DEF Assigned
<1>2. PICK j \in 1..L : LastPair(q, k, j) /\ y = NewEntry(q[j][2], None)
  BY DEF Assigned
<1>3. ~(i > j) /\ ~(j > i)
  BY <1>1, <1>2 DEF LastPair
<1>4. i = j
  BY <1>0, <1>3
<1> QED
  BY <1>1, <1>2, <1>4

=============================================================================
