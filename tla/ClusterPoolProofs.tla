------------------------- MODULE ClusterPoolProofs -------------------------
(***************************************************************************)
(* TLAPS proofs of the safety properties of ClusterPool, for any requests, *)
(* shards, batches and pool size, with or without a password: the          *)
(* inductive invariant, that each kind of step keeps it, that each action  *)
(* is made of such steps, and the properties.                              *)
(*                                                                         *)
(* The invariant is stated of given values and not of the variables, so    *)
(* that it can be used of the state between the two halves of _run's       *)
(* retry, where the slot has been given back and the next attempt has not  *)
(* begun.  A pool is seen as two functions, of its free slots and of its   *)
(* idle connections; who waits for a slot does not matter.                 *)
(***************************************************************************)
EXTENDS ClusterPool, FiniteSetTheorems, SequenceTheorems, WellFoundedInduction, TLAPS

Slots == [s \in Shards |-> pool[s].slots]
Idle == [s \in Shards |-> pool[s].idle]

InUse == {"auth", "read"}       \* an attempt that has its connection
Unsent == {"idle", "wait", "connect"}       \* before the next one has

PcType == [Requests -> Ended \cup Active \cup {"idle", "wait"}]
Message == Requests \X Nat \X Nat
GotType == [Requests -> Seq(Message)]
ConnType ==
    [shard : Shards, open : BOOLEAN, status : {"up", "gone", "spoilt"}, sent : Seq(Message), replies : Seq(Message)]

Shard(conn) == conn.shard
Open(conn) == conn.open
Alive(conn) == conn.status = "up"
Sent(conn) == conn.sent
Replies(conn) == conn.replies

-----------------------------------------------------------------------------
(***************************************************************************)
(* The inductive invariant, of the requests' states pcs, connections trs   *)
(* and replies gts, the slots sl, the idle connections idl and all         *)
(* connections cs.                                                         *)
(***************************************************************************)
Types(pcs, trs, gts, sl, idl, cs) ==
    /\ pcs \in PcType
    /\ trs \in [Requests -> Seq(1..Len(cs))]
    /\ gts \in GotType
    /\ sl \in [Shards -> Nat]
    /\ idl \in [Shards -> Seq(1..Len(cs))]
    /\ cs \in Seq(ConnType)

Holders(pcs, s) == {r \in Requests : ShardOf[r] = s /\ pcs[r] \in Active}

\* A slot is free or held, and there is one for every idle connection.
SlotInv(pcs, sl, idl) ==
    \A s \in Shards :
        /\ IsFiniteSet(Holders(pcs, s))
        /\ sl[s] + Cardinality(Holders(pcs, s)) = PoolSize
        /\ Len(idl[s]) <= sl[s]

\* Nothing is under way on an idle connection, and it is idle once.
IdleInv(idl, cs) ==
    \A s \in Shards : \A i \in 1..Len(idl[s]) :
        /\ Shard(cs[idl[s][i]]) = s
        /\ Sent(cs[idl[s][i]]) = <<>> /\ Replies(cs[idl[s][i]]) = <<>>
        /\ \A j \in 1..Len(idl[s]) : idl[s][i] = idl[s][j] => i = j

\* A connection in use is used by one request, and is not idle.
UseInv(pcs, trs, idl, cs) ==
    \A r \in Requests : pcs[r] \in InUse =>
        /\ trs[r] # <<>> /\ Shard(cs[Last(trs[r])]) = ShardOf[r]
        /\ \A q \in Requests : pcs[q] \in InUse /\ Last(trs[q]) = Last(trs[r]) => q = r
        /\ \A s \in Shards : \A i \in 1..Len(idl[s]) : idl[s][i] # Last(trs[r])

\* The replies got by the attempt, those that have arrived and the commands
\* the shard has still to execute follow each other without a gap.
InOrder(r, n, g, re, se) ==
    /\ Len(g) < Batch[r] /\ Len(g) + Len(re) + Len(se) <= Batch[r]
    /\ \A i \in 1..Len(g) : g[i] = <<r, n, i>>
    /\ \A i \in 1..Len(re) : re[i] = <<r, n, Len(g) + i>>
    /\ \A i \in 1..Len(se) : se[i] = <<r, n, Len(g) + Len(re) + i>>

ReplyInv(pcs, trs, gts, cs) ==
    \A r \in Requests :
        /\ pcs[r] \in {"connect", "auth"} => gts[r] = <<>>
        /\ pcs[r] = "auth" => Len(Replies(cs[Last(trs[r])])) + Len(Sent(cs[Last(trs[r])])) <= 1
        /\ pcs[r] = "read" => InOrder(r, Len(trs[r]), gts[r], Replies(cs[Last(trs[r])]),
                                      Sent(cs[Last(trs[r])]))
        /\ pcs[r] = "done" => gts[r] = Messages(r, Len(trs[r]))

\* A request goes on to another attempt only from a connection that is dead.
DeadInv(pcs, trs, cs) ==
    \A r \in Requests : \A i \in 1..Len(trs[r]) :
        i < Len(trs[r]) \/ pcs[r] \in Unsent => ~Alive(cs[trs[r][i]])

\* An open connection is in use or idle.
OpenInv(pcs, trs, idl, cs) ==
    \A c \in 1..Len(cs) : Open(cs[c]) =>
        \/ \E r \in Requests : pcs[r] \in InUse /\ Last(trs[r]) = c
        \/ \E i \in 1..Len(idl[Shard(cs[c])]) : idl[Shard(cs[c])][i] = c

Inv(pcs, trs, gts, sl, idl, cs) ==
    /\ Types(pcs, trs, gts, sl, idl, cs)
    /\ SlotInv(pcs, sl, idl)
    /\ IdleInv(idl, cs)
    /\ UseInv(pcs, trs, idl, cs)
    /\ ReplyInv(pcs, trs, gts, cs)
    /\ DeadInv(pcs, trs, cs)
    /\ OpenInv(pcs, trs, idl, cs)

\* close() has emptied the pools before the one it stands at, and no pool is
\* missing from its list that could have an idle connection.
CloseInv ==
    /\ order \in Seq(Shards) /\ closed \in BOOLEAN
    /\ closer \in [state : {"no", "await", "returned", "raised"}, at : Nat, size : Nat]
    /\ closed <=> closer.state # "no"
    /\ \A r \in Requests : pc[r] # "idle" => \E j \in 1..Len(order) : order[j] = ShardOf[r]
    /\ \A s \in Shards : Idle[s] # <<>> => \E j \in 1..Len(order) : order[j] = s
    /\ closer.state = "await" => \A j \in 1..Len(order) : j < closer.at => Idle[order[j]] = <<>>
    /\ closer.state = "returned" => \A s \in Shards : Idle[s] = <<>>

PoolRec(n) == [slots : Nat, waiters : Seq(Requests), idle : Seq(1..n)]

RestTypes == fresh \in [Requests -> BOOLEAN] /\ pool \in [Shards -> PoolRec(Len(conns))]

IInv == Inv(pc, tried, got, Slots, Idle, conns) /\ RestTypes /\ CloseInv

-----------------------------------------------------------------------------
(***************************************************************************)
(* Messages, sequences and sets of holders.                                *)
(***************************************************************************)
LEMMA MessagesType ==
    ASSUME NEW r \in Requests, NEW n \in Nat
    PROVE  /\ Messages(r, n) \in Seq(Message)
           /\ Len(Messages(r, n)) = Batch[r]
           /\ \A i \in 1..Batch[r] : Messages(r, n)[i] = <<r, n, i>>
<1>1. Batch[r] \in Nat
  BY PoolAssumption
<1>2. \A i \in 1..Batch[r] : <<r, n, i>> \in Message
  BY <1>1 DEF Message
<1> QED
  BY <1>1, <1>2 DEF Messages

\* A prefix of a sequence.
LEMMA Prefix ==
    ASSUME NEW S, NEW q \in Seq(S), NEW n \in 0..Len(q)
    PROVE  /\ SubSeq(q, 1, n) \in Seq(S) /\ Len(SubSeq(q, 1, n)) = n
           /\ \A i \in 1..n : SubSeq(q, 1, n)[i] = q[i]
<1>1. SubSeq(q, 1, n) \in Seq(S)
  OBVIOUS
<1>2. Len(SubSeq(q, 1, n)) = n
  OBVIOUS
<1>3. \A i \in 1..n : SubSeq(q, 1, n)[i] = q[i]
  OBVIOUS
<1> QED
  BY <1>1, <1>2, <1>3

\* The last element of a sequence and what is before it.
LEMMA FrontLast ==
    ASSUME NEW S, NEW q \in Seq(S), q # <<>>
    PROVE  /\ Last(q) \in S /\ Last(q) = q[Len(q)] /\ Len(q) \in 1..Len(q)
           /\ Front(q) \in Seq(S) /\ Len(Front(q)) = Len(q) - 1
           /\ \A i \in 1..Len(q) - 1 : Front(q)[i] = q[i]
<1>1. Len(q) \in 1..Len(q) /\ Len(q) - 1 \in 0..Len(q)
  BY EmptySeq
<1>2. Last(q) = q[Len(q)] /\ Last(q) \in S
  BY <1>1 DEF Last
<1>3. /\ Front(q) \in Seq(S) /\ Len(Front(q)) = Len(q) - 1
      /\ \A i \in 1..Len(q) - 1 : Front(q)[i] = q[i]
  BY <1>1, Prefix DEF Front
<1> QED
  BY <1>1, <1>2, <1>3

\* Steps on the requests' states, the slots and the idle connections.
PcSet(pcs, r, p, pcs2) == pcs2 = [pcs EXCEPT ![r] = p]
SlotsType == [Shards -> Nat]
SlotLess(sl, s, sl2) == sl2 = [sl EXCEPT ![s] = @ - 1]
SlotMore(sl, s, sl2) == sl2 = [sl EXCEPT ![s] = @ + 1]
Pushed(idl, s, c, idl2) == idl2 = [idl EXCEPT ![s] = Append(@, c)]
GotSame(gts, r, gts2) == gts2 \in GotType /\ \A q \in Requests : q # r => gts2[q] = gts[q]
SameBut(idl, s, idl2) == \A t \in Shards : t # s => idl2[t] = idl[t]
LenBelow(idl, s, n) == Len(idl[s]) <= n

\* A request takes a slot.
LEMMA SlotTaken ==
    ASSUME NEW pcs, NEW sl, sl \in SlotsType, NEW idl, NEW idl2, SlotInv(pcs, sl, idl),
           pcs \in PcType,
           NEW r, r \in Requests, pcs[r] \notin Active, NEW p, p \in Active,
           NEW pcs2, PcSet(pcs, r, p, pcs2),
           SameBut(idl, ShardOf[r], idl2),
           LenBelow(idl2, ShardOf[r], sl[ShardOf[r]] - 1),
           NEW sl2, SlotLess(sl, ShardOf[r], sl2)
    PROVE  SlotInv(pcs2, sl2, idl2)
<1> USE DEF PcSet, SlotsType, SlotLess, SameBut, LenBelow
<1>1. Holders(pcs2, ShardOf[r]) = Holders(pcs, ShardOf[r]) \cup {r} /\ r \notin Holders(pcs, ShardOf[r])
  BY DEF Holders, PcType
<1>2. \A s \in Shards \ {ShardOf[r]} : Holders(pcs2, s) = Holders(pcs, s)
  BY DEF Holders, PcType
<1>3. ShardOf[r] \in Shards /\ PoolSize \in Nat
  BY PoolAssumption
<1>4. IsFiniteSet(Holders(pcs, ShardOf[r])) /\ Cardinality(Holders(pcs, ShardOf[r])) \in Nat
  BY <1>3, FS_CardinalityType DEF SlotInv
<1>5. /\ IsFiniteSet(Holders(pcs2, ShardOf[r]))
      /\ Cardinality(Holders(pcs2, ShardOf[r])) = Cardinality(Holders(pcs, ShardOf[r])) + 1
  BY ONLY <1>1, <1>4, FS_AddElement
<1> SUFFICES ASSUME NEW s \in Shards
             PROVE  /\ IsFiniteSet(Holders(pcs2, s))
                    /\ sl2[s] + Cardinality(Holders(pcs2, s)) = PoolSize
                    /\ Len(idl2[s]) <= sl2[s]
  BY DEF SlotInv
<1>6. CASE s = ShardOf[r]
  BY <1>3, <1>4, <1>5, <1>6 DEF SlotInv
<1>7. CASE s # ShardOf[r]
  BY <1>2, <1>7 DEF SlotInv
<1> QED
  BY <1>6, <1>7

\* A request gives its slot back.
LEMMA SlotFreed ==
    ASSUME NEW pcs, NEW sl, sl \in SlotsType, NEW idl, NEW idl2, SlotInv(pcs, sl, idl),
           pcs \in PcType,
           NEW r, r \in Requests, pcs[r] \in Active, NEW p, p \notin Active,
           NEW pcs2, PcSet(pcs, r, p, pcs2),
           SameBut(idl, ShardOf[r], idl2),
           LenBelow(idl2, ShardOf[r], sl[ShardOf[r]] + 1),
           NEW sl2, SlotMore(sl, ShardOf[r], sl2)
    PROVE  SlotInv(pcs2, sl2, idl2)
<1> USE DEF PcSet, SlotsType, SlotMore, SameBut, LenBelow
<1>1. Holders(pcs2, ShardOf[r]) = Holders(pcs, ShardOf[r]) \ {r} /\ r \in Holders(pcs, ShardOf[r])
  BY DEF Holders, PcType
<1>2. \A s \in Shards \ {ShardOf[r]} : Holders(pcs2, s) = Holders(pcs, s)
  BY DEF Holders, PcType
<1>3. ShardOf[r] \in Shards /\ PoolSize \in Nat
  BY PoolAssumption
<1>4. IsFiniteSet(Holders(pcs, ShardOf[r])) /\ Cardinality(Holders(pcs, ShardOf[r])) \in Nat
  BY <1>3, FS_CardinalityType DEF SlotInv
<1>5. /\ IsFiniteSet(Holders(pcs2, ShardOf[r]))
      /\ Cardinality(Holders(pcs2, ShardOf[r])) = Cardinality(Holders(pcs, ShardOf[r])) - 1
  BY ONLY <1>1, <1>4, FS_RemoveElement
<1> SUFFICES ASSUME NEW s \in Shards
             PROVE  /\ IsFiniteSet(Holders(pcs2, s))
                    /\ sl2[s] + Cardinality(Holders(pcs2, s)) = PoolSize
                    /\ Len(idl2[s]) <= sl2[s]
  BY DEF SlotInv
<1>6. CASE s = ShardOf[r]
  BY <1>3, <1>4, <1>5, <1>6 DEF SlotInv
<1>7. CASE s # ShardOf[r]
  BY <1>2, <1>7 DEF SlotInv
<1> QED
  BY <1>6, <1>7

-----------------------------------------------------------------------------
(***************************************************************************)
(* The steps, on given values.                                             *)
(***************************************************************************)
\* The connection of an attempt is one of cs.
LEMMA OwnConn ==
    ASSUME NEW pcs, NEW trs, NEW gts, NEW sl, NEW idl, NEW cs, Inv(pcs, trs, gts, sl, idl, cs),
           NEW r \in Requests, pcs[r] \in InUse
    PROVE  /\ trs[r] # <<>> /\ Last(trs[r]) \in 1..Len(cs) /\ Last(trs[r]) = trs[r][Len(trs[r])]
           /\ Len(trs[r]) \in Nat \ {0} /\ cs[Last(trs[r])] \in ConnType
<1>1. trs[r] \in Seq(1..Len(cs)) /\ trs[r] # <<>> /\ cs \in Seq(ConnType)
  BY DEF Inv, Types, UseInv
<1>2. Last(trs[r]) \in 1..Len(cs) /\ Last(trs[r]) = trs[r][Len(trs[r])] /\ Len(trs[r]) \in Nat \ {0}
  BY <1>1, FrontLast, EmptySeq
<1> QED
  BY <1>1, <1>2

\* One connection of cs has become x.
Updated(cs, c, x, cs2) ==
    /\ cs2 \in Seq(ConnType) /\ Len(cs2) = Len(cs) /\ cs2[c] = x
    /\ \A d \in 1..Len(cs) : d # c => cs2[d] = cs[d]

LEMMA UpdatedBy ==
    ASSUME NEW cs \in Seq(ConnType), NEW c \in 1..Len(cs), NEW x \in ConnType
    PROVE  Updated(cs, c, x, [cs EXCEPT ![c] = x])
BY ExceptSeq DEF Updated

\* What is kept when a connection changes and its client end is not reopened.
LEMMA UpdateKeeps ==
    ASSUME NEW pcs, NEW trs, NEW gts, NEW sl, NEW idl, NEW cs, Inv(pcs, trs, gts, sl, idl, cs),
           NEW c \in 1..Len(cs), NEW x \in ConnType, Shard(x) = Shard(cs[c]),
           Open(x) => Open(cs[c]), Alive(x) => Alive(cs[c]),
           NEW cs2, Updated(cs, c, x, cs2),
           NEW pcs2 \in PcType,
           \A r \in Requests : pcs2[r] = pcs[r] \/ (pcs2[r] \in InUse /\ pcs[r] \in InUse),
           NEW gts2 \in GotType
    PROVE  /\ Types(pcs2, trs, gts2, sl, idl, cs2) /\ SlotInv(pcs2, sl, idl)
           /\ UseInv(pcs2, trs, idl, cs2) /\ OpenInv(pcs2, trs, idl, cs2)
           /\ DeadInv(pcs2, trs, cs2)
<1>1. /\ cs \in Seq(ConnType) /\ cs2 \in Seq(ConnType) /\ Len(cs2) = Len(cs) /\ cs2[c] = x
      /\ \A d \in 1..Len(cs) : d # c => cs2[d] = cs[d]
  BY DEF Inv, Types, Updated
<1>2. \A d \in 1..Len(cs) : /\ Shard(cs2[d]) = Shard(cs[d])
                            /\ Open(cs2[d]) => Open(cs[d])
                            /\ Alive(cs2[d]) => Alive(cs[d])
  BY <1>1
<1>3. \A r \in Requests : /\ pcs2[r] \in InUse <=> pcs[r] \in InUse
                          /\ pcs2[r] \in Unsent <=> pcs[r] \in Unsent
                          /\ pcs2[r] \in Active <=> pcs[r] \in Active
  BY DEF InUse, Unsent, Active
<1>4. Types(pcs2, trs, gts2, sl, idl, cs2)
  BY <1>1 DEF Inv, Types
<1>5. SlotInv(pcs2, sl, idl)
  <2>1. \A s \in Shards : Holders(pcs2, s) = Holders(pcs, s)
    BY <1>3 DEF Holders
  <2> QED
    BY <2>1 DEF Inv, SlotInv
<1>6. UseInv(pcs2, trs, idl, cs2)
  <2>1. ASSUME NEW r \in Requests, pcs2[r] \in InUse
        PROVE  /\ trs[r] # <<>> /\ Shard(cs2[Last(trs[r])]) = ShardOf[r]
               /\ \A q \in Requests : pcs[q] \in InUse /\ Last(trs[q]) = Last(trs[r]) => q = r
               /\ \A s \in Shards : \A i \in 1..Len(idl[s]) : idl[s][i] # Last(trs[r])
    <3>1. pcs[r] \in InUse
      BY <1>3, <2>1
    <3>2. Last(trs[r]) \in 1..Len(cs)
      BY <3>1, OwnConn
    <3>3. Shard(cs2[Last(trs[r])]) = Shard(cs[Last(trs[r])])
      BY <1>2, <3>2
    <3> QED
      BY <3>1, <3>3 DEF Inv, UseInv
  <2> QED
    BY <1>3, <2>1 DEF UseInv
<1>7. OpenInv(pcs2, trs, idl, cs2)
  BY <1>1, <1>2, <1>3 DEF Inv, OpenInv
<1>8. DeadInv(pcs2, trs, cs2)
  <2>1. trs \in [Requests -> Seq(1..Len(cs))]
    BY DEF Inv, Types
  <2> QED
    BY <1>2, <1>3, <2>1 DEF Inv, DeadInv
<1> QED
  BY <1>1, <1>4, <1>5, <1>6, <1>7, <1>8

\* A change of a connection that the one request using it, if any, expects.
LEMMA ConnKeeps ==
    ASSUME NEW pcs, NEW trs, NEW gts, NEW sl, NEW idl, NEW cs, Inv(pcs, trs, gts, sl, idl, cs),
           NEW c \in 1..Len(cs), NEW x \in ConnType, Shard(x) = Shard(cs[c]),
           Open(x) => Open(cs[c]), Alive(x) => Alive(cs[c]),
           NEW cs2, Updated(cs, c, x, cs2),
           NEW pcs2 \in PcType,
           NEW gts2 \in GotType,
           \A r \in Requests :
               \/ pcs2[r] = pcs[r] /\ gts2[r] = gts[r]
               \/ pcs2[r] \in InUse /\ pcs[r] \in InUse /\ Last(trs[r]) = c,
           \A r \in Requests : (pcs2[r] \in InUse /\ Last(trs[r]) = c) =>
               /\ pcs2[r] = "auth" => gts2[r] = <<>> /\ Len(Replies(x)) + Len(Sent(x)) <= 1
               /\ pcs2[r] = "read" => InOrder(r, Len(trs[r]), gts2[r], Replies(x), Sent(x)),
           \/ Sent(x) = <<>> /\ Replies(x) = <<>>
           \/ \A s \in Shards : \A i \in 1..Len(idl[s]) : idl[s][i] # c
    PROVE  Inv(pcs2, trs, gts2, sl, idl, cs2)
<1>1. /\ Types(pcs2, trs, gts2, sl, idl, cs2) /\ SlotInv(pcs2, sl, idl)
      /\ UseInv(pcs2, trs, idl, cs2) /\ OpenInv(pcs2, trs, idl, cs2)
      /\ DeadInv(pcs2, trs, cs2)
  <2>1. \A r \in Requests : pcs2[r] = pcs[r] \/ (pcs2[r] \in InUse /\ pcs[r] \in InUse)
    OBVIOUS
  <2> QED
    BY <2>1, UpdateKeeps
<1>2. /\ idl \in [Shards -> Seq(1..Len(cs))] /\ cs \in Seq(ConnType)
      /\ cs2[c] = x /\ \A d \in 1..Len(cs) : d # c => cs2[d] = cs[d]
  BY DEF Inv, Types, Updated
<1>3. IdleInv(idl, cs2)
  <2>1. ASSUME NEW s \in Shards, NEW i \in 1..Len(idl[s])
        PROVE  /\ Shard(cs2[idl[s][i]]) = s
               /\ Sent(cs2[idl[s][i]]) = <<>> /\ Replies(cs2[idl[s][i]]) = <<>>
    <3>1. /\ idl[s][i] \in 1..Len(cs) /\ Shard(cs[idl[s][i]]) = s
          /\ Sent(cs[idl[s][i]]) = <<>> /\ Replies(cs[idl[s][i]]) = <<>>
      BY <1>2 DEF Inv, IdleInv
    <3> QED
      BY <1>2, <3>1
  <2> QED
    BY <2>1 DEF Inv, IdleInv
<1>4. ASSUME NEW r \in Requests
      PROVE  /\ pcs2[r] \in {"connect", "auth"} => gts2[r] = <<>>
             /\ pcs2[r] = "auth" =>
                    Len(Replies(cs2[Last(trs[r])])) + Len(Sent(cs2[Last(trs[r])])) <= 1
             /\ pcs2[r] = "read" => InOrder(r, Len(trs[r]), gts2[r], Replies(cs2[Last(trs[r])]),
                                            Sent(cs2[Last(trs[r])]))
             /\ pcs2[r] = "done" => gts2[r] = Messages(r, Len(trs[r]))
  <2>1. CASE pcs2[r] \in InUse /\ Last(trs[r]) = c
    BY <1>2, <2>1 DEF InUse
  <2>2. CASE pcs2[r] \in InUse /\ Last(trs[r]) # c
    <3>1. pcs2[r] = pcs[r] /\ gts2[r] = gts[r]
      BY <2>2
    <3>2. Last(trs[r]) \in 1..Len(cs)
      BY <2>2, <3>1, OwnConn
    <3>3. cs2[Last(trs[r])] = cs[Last(trs[r])]
      BY <1>2, <2>2, <3>2
    <3> QED
      BY <2>2, <3>1, <3>3 DEF Inv, ReplyInv, InUse
  <2>3. CASE pcs2[r] \notin InUse
    <3>1. pcs2[r] = pcs[r] /\ gts2[r] = gts[r]
      BY <2>3
    <3> QED
      BY <2>3, <3>1 DEF Inv, ReplyInv, InUse
  <2> QED
    BY <2>1, <2>2, <2>3
<1>5. ReplyInv(pcs2, trs, gts2, cs2)
  BY <1>4 DEF ReplyInv
<1> QED
  BY <1>1, <1>3, <1>5 DEF Inv

\* A reply moves on: the shard answers a command, the client reads.
LEMMA ExecuteOrder ==
    ASSUME NEW r \in Requests, NEW n \in Nat, NEW g \in Seq(Message), NEW re \in Seq(Message),
           NEW se \in Seq(Message), se # <<>>, InOrder(r, n, g, re, se)
    PROVE  InOrder(r, n, g, Append(re, Head(se)), Tail(se))
<1> DEFINE re2 == Append(re, Head(se))
           se2 == Tail(se)
<1>1. /\ Len(se2) = Len(se) - 1 /\ Len(re2) = Len(re) + 1
      /\ \A i \in 1..Len(se2) : se2[i] = se[i + 1]
      /\ \A i \in 1..Len(re) : re2[i] = re[i]
      /\ re2[Len(re) + 1] = se[1]
      /\ Len(se) \in Nat \ {0} /\ Len(re) \in Nat /\ Len(g) \in Nat /\ Batch[r] \in Nat
  BY PoolAssumption
<1> HIDE DEF re2, se2
<1>2. Len(g) < Batch[r] /\ Len(g) + Len(re2) + Len(se2) <= Batch[r]
  BY <1>1 DEF InOrder
<1>3. \A i \in 1..Len(re2) : re2[i] = <<r, n, Len(g) + i>>
  <2> TAKE i \in 1..Len(re2)
  <2>1. CASE i \in 1..Len(re)
    BY <1>1, <2>1 DEF InOrder
  <2>2. CASE i = Len(re) + 1
    BY <1>1, <2>2 DEF InOrder
  <2> QED
    BY <1>1, <2>1, <2>2
<1>4. \A i \in 1..Len(se2) : se2[i] = <<r, n, Len(g) + Len(re2) + i>>
  <2> TAKE i \in 1..Len(se2)
  <2>1. i + 1 \in 1..Len(se) /\ Len(g) + Len(re) + (i + 1) = Len(g) + Len(re2) + i
    BY <1>1
  <2>2. se[i + 1] = <<r, n, Len(g) + Len(re) + (i + 1)>>
    BY <2>1 DEF InOrder
  <2> QED
    BY <1>1, <2>1, <2>2
<1> QED
  BY <1>2, <1>3, <1>4 DEF InOrder, re2, se2

LEMMA ExecuteAlone ==
    ASSUME NEW re \in Seq(Message), NEW se \in Seq(Message), se # <<>>, Len(re) + Len(se) <= 1
    PROVE  Len(Append(re, Head(se))) + Len(Tail(se)) <= 1
OBVIOUS

\* What is left of the replies of a connection that breaks is the first of them.
LEMMA BreakOrder ==
    ASSUME NEW re \in Seq(Message), NEW se \in Seq(Message), NEW k \in 0..Len(re)
    PROVE  /\ re = <<>> => SubSeq(re, 1, k) = <<>>
           /\ Len(re) + Len(se) <= 1 => Len(SubSeq(re, 1, k)) + Len(<<>>) <= 1
           /\ \A r \in Requests, n \in Nat, g \in Seq(Message) :
                 InOrder(r, n, g, re, se) => InOrder(r, n, g, SubSeq(re, 1, k), <<>>)
<1> DEFINE re2 == SubSeq(re, 1, k)
<1>1. re2 \in Seq(Message) /\ Len(re2) = k
  BY Prefix
<1>2. \A i \in 1..k : re2[i] = re[i]
  BY Prefix
<1> HIDE DEF re2
<1>3. re = <<>> => re2 = <<>>
  BY <1>1, EmptySeq
<1>4. Len(re) + Len(se) <= 1 => Len(re2) + Len(<<>>) <= 1
  BY <1>1
<1>5. ASSUME NEW r \in Requests, NEW n \in Nat, NEW g \in Seq(Message), InOrder(r, n, g, re, se)
      PROVE  InOrder(r, n, g, re2, <<>>)
  <2>1. Batch[r] \in Nat
    BY PoolAssumption
  <2>2. Len(g) + Len(re2) + Len(<<>>) <= Batch[r]
    BY <1>1, <1>5, <2>1 DEF InOrder
  <2>3. \A i \in 1..Len(re2) : re2[i] = <<r, n, Len(g) + i>>
    <3> TAKE i \in 1..Len(re2)
    <3>1. i \in 1..k /\ i \in 1..Len(re)
      BY <1>1
    <3>2. re[i] = <<r, n, Len(g) + i>>
      BY <1>5, <3>1 DEF InOrder
    <3> QED
      BY <1>2, <3>1, <3>2
  <2> QED
    BY <1>5, <2>2, <2>3 DEF InOrder
<1> QED
  BY <1>3, <1>4, <1>5 DEF re2

\* The last reply of an attempt, and nothing is left of it.
LastRead(r, n, g, re, se) ==
    Len(g) + 1 = Batch[r] => Append(g, Head(re)) = Messages(r, n) /\ Tail(re) = <<>> /\ se = <<>>

LEMMA ReadOrder ==
    ASSUME NEW r \in Requests, NEW n \in Nat, NEW g \in Seq(Message), NEW re \in Seq(Message),
           NEW se \in Seq(Message), re # <<>>, InOrder(r, n, g, re, se)
    PROVE  /\ Len(g) + 1 < Batch[r] => InOrder(r, n, Append(g, Head(re)), Tail(re), se)
           /\ LastRead(r, n, g, re, se)
           /\ Append(g, Head(re)) \in Seq(Message) /\ Len(Append(g, Head(re))) = Len(g) + 1
<1> DEFINE g2 == Append(g, Head(re))
           re2 == Tail(re)
<1>1. /\ g2 \in Seq(Message) /\ Len(re2) = Len(re) - 1 /\ Len(g2) = Len(g) + 1
      /\ re2 \in Seq(Message)
      /\ \A i \in 1..Len(re2) : re2[i] = re[i + 1]
      /\ \A i \in 1..Len(g) : g2[i] = g[i]
      /\ g2[Len(g) + 1] = re[1]
      /\ Len(se) \in Nat /\ Len(re) \in Nat \ {0} /\ Len(g) \in Nat /\ Batch[r] \in Nat
  BY PoolAssumption
<1> HIDE DEF g2, re2
<1>2. \A i \in 1..Len(g2) : g2[i] = <<r, n, i>>
  <2> TAKE i \in 1..Len(g2)
  <2>1. CASE i \in 1..Len(g)
    BY <1>1, <2>1 DEF InOrder
  <2>2. CASE i = Len(g) + 1
    BY <1>1, <2>2 DEF InOrder
  <2> QED
    BY <1>1, <2>1, <2>2
<1>3. ASSUME Len(g) + 1 < Batch[r]
      PROVE  InOrder(r, n, g2, re2, se)
  <2>1. Len(g2) < Batch[r] /\ Len(g2) + Len(re2) + Len(se) <= Batch[r]
    BY <1>1, <1>3 DEF InOrder
  <2>2. \A i \in 1..Len(re2) : re2[i] = <<r, n, Len(g2) + i>>
    <3> TAKE i \in 1..Len(re2)
    <3>1. i + 1 \in 1..Len(re) /\ Len(g) + (i + 1) = Len(g2) + i
      BY <1>1
    <3>2. re[i + 1] = <<r, n, Len(g) + (i + 1)>>
      BY <3>1 DEF InOrder
    <3> QED
      BY <1>1, <3>1, <3>2
  <2>3. \A i \in 1..Len(se) : se[i] = <<r, n, Len(g2) + Len(re2) + i>>
    <3> TAKE i \in 1..Len(se)
    <3>1. Len(g) + Len(re) + i = Len(g2) + Len(re2) + i
      BY <1>1
    <3> QED
      BY <3>1 DEF InOrder
  <2> QED
    BY <1>2, <2>1, <2>2, <2>3 DEF InOrder
<1>4. ASSUME Len(g) + 1 = Batch[r]
      PROVE  g2 = Messages(r, n) /\ re2 = <<>> /\ se = <<>>
  <2>1. Len(re2) = 0 /\ Len(se) = 0
    BY <1>1, <1>4 DEF InOrder
  <2>2. re2 = <<>> /\ se = <<>>
    BY <1>1, <2>1, EmptySeq
  <2>3. g2 = Messages(r, n)
    <3>1. /\ Messages(r, n) \in Seq(Message) /\ Len(Messages(r, n)) = Len(g2)
          /\ \A i \in 1..Len(g2) : Messages(r, n)[i] = <<r, n, i>>
      <4>1. Len(g2) = Batch[r]
        BY <1>1, <1>4
      <4> QED
        BY <4>1, MessagesType
    <3>2. \A i \in 1..Len(g2) : g2[i] = Messages(r, n)[i]
      BY <1>2, <3>1
    <3> QED
      BY ONLY <1>1, <3>1, <3>2, SeqEqual
  <2> QED
    BY <2>2, <2>3
<1> QED
  BY <1>1, <1>3, <1>4 DEF g2, re2, LastRead

\* A shard executes a command.
LEMMA ExecuteKeeps ==
    ASSUME NEW pcs, NEW trs, NEW gts, NEW sl, NEW idl, NEW cs, Inv(pcs, trs, gts, sl, idl, cs),
           NEW c \in 1..Len(cs), Sent(cs[c]) # <<>>, NEW x \in ConnType,
           Sent(x) = Tail(Sent(cs[c])), Replies(x) = Append(Replies(cs[c]), Head(Sent(cs[c]))),
           Shard(x) = Shard(cs[c]), Open(x) = Open(cs[c]), Alive(x) = Alive(cs[c]),
           NEW cs2, Updated(cs, c, x, cs2)
    PROVE  Inv(pcs, trs, gts, sl, idl, cs2)
<1>1. cs[c] \in ConnType /\ pcs \in PcType
      /\ gts \in GotType /\ trs \in [Requests -> Seq(1..Len(cs))]
  BY DEF Inv, Types
<1>2. Sent(cs[c]) \in Seq(Message) /\ Replies(cs[c]) \in Seq(Message)
  BY <1>1 DEF ConnType, Sent, Replies
<1>3. Len(Replies(cs[c])) + Len(Sent(cs[c])) <= 1 => Len(Replies(x)) + Len(Sent(x)) <= 1
  BY <1>2, ExecuteAlone
<1>4. \A s \in Shards : \A i \in 1..Len(idl[s]) : idl[s][i] # c
  BY DEF Inv, IdleInv
<1>5. ASSUME NEW r \in Requests, pcs[r] = "read", Last(trs[r]) = c
      PROVE  InOrder(r, Len(trs[r]), gts[r], Replies(x), Sent(x))
  <2>1. InOrder(r, Len(trs[r]), gts[r], Replies(cs[c]), Sent(cs[c]))
    BY <1>5 DEF Inv, ReplyInv
  <2>2. Len(trs[r]) \in Nat /\ gts[r] \in Seq(Message)
    BY <1>1 DEF GotType
  <2> QED
    BY <1>2, <2>1, <2>2, ExecuteOrder
<1>6. ASSUME NEW r \in Requests, pcs[r] = "auth", Last(trs[r]) = c
      PROVE  gts[r] = <<>> /\ Len(Replies(x)) + Len(Sent(x)) <= 1
  <2>1. gts[r] = <<>> /\ Len(Replies(cs[c])) + Len(Sent(cs[c])) <= 1
    BY <1>6 DEF Inv, ReplyInv
  <2> QED
    BY <1>3, <2>1
<1>7. \A r \in Requests : (pcs[r] \in InUse /\ Last(trs[r]) = c) =>
               /\ pcs[r] = "auth" => gts[r] = <<>> /\ Len(Replies(x)) + Len(Sent(x)) <= 1
               /\ pcs[r] = "read" => InOrder(r, Len(trs[r]), gts[r], Replies(x), Sent(x))
  BY <1>5, <1>6
<1>8. (Open(x) => Open(cs[c])) /\ (Alive(x) => Alive(cs[c]))
  OBVIOUS
<1> QED
  BY ONLY Inv(pcs, trs, gts, sl, idl, cs), c \in 1..Len(cs), x \in ConnType,
          Shard(x) = Shard(cs[c]), Updated(cs, c, x, cs2), <1>1, <1>4, <1>7, <1>8, ConnKeeps

\* A shard drops a connection.
LEMMA BreakKeeps ==
    ASSUME NEW pcs, NEW trs, NEW gts, NEW sl, NEW idl, NEW cs, Inv(pcs, trs, gts, sl, idl, cs),
           NEW c \in 1..Len(cs), NEW n \in 0..Len(Replies(cs[c])), NEW x \in ConnType,
           ~Alive(x), Sent(x) = <<>>, Replies(x) = SubSeq(Replies(cs[c]), 1, n),
           Shard(x) = Shard(cs[c]), Open(x) = Open(cs[c]),
           NEW cs2, Updated(cs, c, x, cs2)
    PROVE  Inv(pcs, trs, gts, sl, idl, cs2)
<1>1. cs[c] \in ConnType /\ pcs \in PcType
      /\ gts \in GotType /\ trs \in [Requests -> Seq(1..Len(cs))]
  BY DEF Inv, Types
<1>2. Sent(cs[c]) \in Seq(Message) /\ Replies(cs[c]) \in Seq(Message) /\ Replies(x) \in Seq(Message)
  BY <1>1 DEF ConnType, Sent, Replies
<1>3. /\ Replies(cs[c]) = <<>> => Replies(x) = <<>>
      /\ Len(Replies(cs[c])) + Len(Sent(cs[c])) <= 1 => Len(Replies(x)) + Len(Sent(x)) <= 1
      /\ \A r \in Requests, m \in Nat, g \in Seq(Message) :
            InOrder(r, m, g, Replies(cs[c]), Sent(cs[c])) => InOrder(r, m, g, Replies(x), Sent(x))
  BY <1>2, BreakOrder
<1>4. \/ Sent(x) = <<>> /\ Replies(x) = <<>>
      \/ \A s \in Shards : \A i \in 1..Len(idl[s]) : idl[s][i] # c
  BY <1>3 DEF Inv, IdleInv
<1>5. ASSUME NEW r \in Requests, pcs[r] = "read", Last(trs[r]) = c
      PROVE  InOrder(r, Len(trs[r]), gts[r], Replies(x), Sent(x))
  <2>1. InOrder(r, Len(trs[r]), gts[r], Replies(cs[c]), Sent(cs[c]))
    BY <1>5 DEF Inv, ReplyInv
  <2>2. Len(trs[r]) \in Nat /\ gts[r] \in Seq(Message)
    BY <1>1 DEF GotType
  <2> QED
    BY <1>3, <2>1, <2>2
<1>6. ASSUME NEW r \in Requests, pcs[r] = "auth", Last(trs[r]) = c
      PROVE  gts[r] = <<>> /\ Len(Replies(x)) + Len(Sent(x)) <= 1
  <2>1. gts[r] = <<>> /\ Len(Replies(cs[c])) + Len(Sent(cs[c])) <= 1
    BY <1>6 DEF Inv, ReplyInv
  <2> QED
    BY <1>3, <2>1
<1>7. \A r \in Requests : (pcs[r] \in InUse /\ Last(trs[r]) = c) =>
               /\ pcs[r] = "auth" => gts[r] = <<>> /\ Len(Replies(x)) + Len(Sent(x)) <= 1
               /\ pcs[r] = "read" => InOrder(r, Len(trs[r]), gts[r], Replies(x), Sent(x))
  BY <1>5, <1>6
<1>8. (Open(x) => Open(cs[c])) /\ (Alive(x) => Alive(cs[c]))
  OBVIOUS
<1> QED
  BY ONLY Inv(pcs, trs, gts, sl, idl, cs), c \in 1..Len(cs), x \in ConnType,
          Shard(x) = Shard(cs[c]), Updated(cs, c, x, cs2), <1>1, <1>4, <1>7, <1>8, ConnKeeps

\* A client reads a reply that is not the last one.
LEMMA ReadKeeps ==
    ASSUME NEW pcs, NEW trs, NEW gts, NEW sl, NEW idl, NEW cs, Inv(pcs, trs, gts, sl, idl, cs),
           NEW r \in Requests, pcs[r] = "read", NEW c, c = Last(trs[r]),
           Replies(cs[c]) # <<>>, Len(gts[r]) + 1 < Batch[r], NEW x \in ConnType,
           Sent(x) = Sent(cs[c]), Replies(x) = Tail(Replies(cs[c])),
           Shard(x) = Shard(cs[c]), Open(x) = Open(cs[c]), Alive(x) = Alive(cs[c]),
           NEW cs2, Updated(cs, c, x, cs2),
           NEW gts2 \in GotType, gts2[r] = Append(gts[r], Head(Replies(cs[c]))),
           \A q \in Requests : q # r => gts2[q] = gts[q]
    PROVE  Inv(pcs, trs, gts2, sl, idl, cs2)
<1>1. /\ c \in 1..Len(cs) /\ Len(trs[r]) \in Nat /\ cs[c] \in ConnType
      /\ pcs[r] \in InUse
  BY OwnConn DEF InUse
<1>2. /\ Sent(cs[c]) \in Seq(Message) /\ Replies(cs[c]) \in Seq(Message)
      /\ gts[r] \in Seq(Message) /\ pcs \in PcType
  BY <1>1 DEF ConnType, Sent, Replies, Inv, Types, GotType
<1>3. InOrder(r, Len(trs[r]), gts[r], Replies(cs[c]), Sent(cs[c]))
  BY DEF Inv, ReplyInv
<1>4. InOrder(r, Len(trs[r]), gts2[r], Replies(x), Sent(x))
  BY <1>1, <1>2, <1>3, ReadOrder
<1>5. /\ \A q \in Requests : pcs[q] \in InUse /\ Last(trs[q]) = c => q = r
      /\ \A s \in Shards : \A i \in 1..Len(idl[s]) : idl[s][i] # c
  BY <1>1 DEF Inv, UseInv
<1>6. \A q \in Requests : (pcs[q] \in InUse /\ Last(trs[q]) = c) =>
               /\ pcs[q] = "auth" => gts2[q] = <<>> /\ Len(Replies(x)) + Len(Sent(x)) <= 1
               /\ pcs[q] = "read" => InOrder(q, Len(trs[q]), gts2[q], Replies(x), Sent(x))
  BY <1>4, <1>5
<1>7. \A q \in Requests : \/ pcs[q] = pcs[q] /\ gts2[q] = gts[q]
                          \/ pcs[q] \in InUse /\ pcs[q] \in InUse /\ Last(trs[q]) = c
  BY <1>1
<1>8. (Open(x) => Open(cs[c])) /\ (Alive(x) => Alive(cs[c])) /\ Shard(x) = Shard(cs[c])
  OBVIOUS
<1>9. c \in 1..Len(cs) /\ pcs \in PcType /\ gts2 \in GotType
      /\ \A s \in Shards : \A i \in 1..Len(idl[s]) : idl[s][i] # c
  BY <1>1, <1>2, <1>5
<1> QED
  BY ONLY Inv(pcs, trs, gts, sl, idl, cs), x \in ConnType, Updated(cs, c, x, cs2),
          <1>6, <1>7, <1>8, <1>9, ConnKeeps

\* The messages of an attempt that has just been written, or not.
LEMMA WrittenOrder ==
    ASSUME NEW r \in Requests, NEW n \in Nat
    PROVE  InOrder(r, n, <<>>, <<>>, Messages(r, n)) /\ InOrder(r, n, <<>>, <<>>, <<>>)
<1>1. Batch[r] \in Nat \ {0}
  BY PoolAssumption
<1>2. /\ Messages(r, n) \in Seq(Message) /\ Len(Messages(r, n)) = Batch[r]
      /\ \A i \in 1..Batch[r] : Messages(r, n)[i] = <<r, n, i>>
  BY MessagesType
<1> QED
  BY <1>1, <1>2 DEF InOrder

\* AUTH has been answered and the commands are written.
LEMMA AuthKeeps ==
    ASSUME NEW pcs, NEW trs, NEW gts, NEW sl, NEW idl, NEW cs, Inv(pcs, trs, gts, sl, idl, cs),
           NEW r \in Requests, pcs[r] = "auth", NEW c, c = Last(trs[r]), NEW x \in ConnType,
           Sent(x) = <<>> \/ Sent(x) = Messages(r, Len(trs[r])), Replies(x) = <<>>,
           Shard(x) = Shard(cs[c]), Open(x) = Open(cs[c]), Alive(x) = Alive(cs[c]),
           NEW cs2, Updated(cs, c, x, cs2)
    PROVE  Inv([pcs EXCEPT ![r] = "read"], trs, gts, sl, idl, cs2)
<1> DEFINE pcs2 == [pcs EXCEPT ![r] = "read"]
<1>1. c \in 1..Len(cs) /\ Len(trs[r]) \in Nat /\ pcs[r] \in InUse
  BY OwnConn DEF InUse
<1>2. pcs \in PcType /\ gts \in GotType /\ gts[r] = <<>>
  BY DEF Inv, Types, ReplyInv
<1>3. pcs2 \in PcType /\ pcs2[r] = "read" /\ \A q \in Requests : q # r => pcs2[q] = pcs[q]
  BY <1>2 DEF PcType, Active
<1> HIDE DEF pcs2
<1>4. InOrder(r, Len(trs[r]), gts[r], Replies(x), Sent(x))
  BY <1>1, <1>2, WrittenOrder
<1>5. /\ \A q \in Requests : pcs[q] \in InUse /\ Last(trs[q]) = c => q = r
      /\ \A s \in Shards : \A i \in 1..Len(idl[s]) : idl[s][i] # c
  BY <1>1 DEF Inv, UseInv
<1>6. \A q \in Requests : (pcs2[q] \in InUse /\ Last(trs[q]) = c) =>
               /\ pcs2[q] = "auth" => gts[q] = <<>> /\ Len(Replies(x)) + Len(Sent(x)) <= 1
               /\ pcs2[q] = "read" => InOrder(q, Len(trs[q]), gts[q], Replies(x), Sent(x))
  BY <1>3, <1>4, <1>5
<1>7. \A q \in Requests : \/ pcs2[q] = pcs[q] /\ gts[q] = gts[q]
                          \/ pcs2[q] \in InUse /\ pcs[q] \in InUse /\ Last(trs[q]) = c
  BY <1>1, <1>3 DEF InUse
<1>8. (Open(x) => Open(cs[c])) /\ (Alive(x) => Alive(cs[c])) /\ Shard(x) = Shard(cs[c])
  OBVIOUS
<1>9. Inv(pcs2, trs, gts, sl, idl, cs2)
  BY ONLY Inv(pcs, trs, gts, sl, idl, cs), x \in ConnType, Updated(cs, c, x, cs2),
          <1>1, <1>2, <1>3, <1>5, <1>6, <1>7, <1>8, ConnKeeps
<1> QED
  BY <1>9 DEF pcs2

\* The connection of request r, if it has one, is closed and no other changes.
ClosedBy(pcs, trs, cs, r, cs2) ==
    /\ cs2 \in Seq(ConnType) /\ Len(cs2) = Len(cs)
    /\ \A d \in 1..Len(cs) :
          /\ Shard(cs2[d]) = Shard(cs[d]) /\ Alive(cs2[d]) = Alive(cs[d])
          /\ Open(cs2[d]) => Open(cs[d])
          /\ cs2[d] = cs[d] \/ (pcs[r] \in InUse /\ d = Last(trs[r]))
    /\ pcs[r] \in InUse => ~Open(cs2[Last(trs[r])])

\* An attempt ends, and its connection with it; p = "wait" is a retry.
LEMMA DropKeeps ==
    ASSUME NEW pcs, NEW trs, NEW gts, NEW sl, NEW idl, NEW cs, Inv(pcs, trs, gts, sl, idl, cs),
           NEW r \in Requests, pcs[r] \in Active, NEW p \in Ended \cup {"wait"},
           p = "wait" => pcs[r] \in InUse /\ ~Alive(cs[Last(trs[r])]),
           NEW cs2, ClosedBy(pcs, trs, cs, r, cs2),
           NEW gts2, GotSame(gts, r, gts2), p = "done" => gts2[r] = Messages(r, Len(trs[r])),
           NEW pcs2, PcSet(pcs, r, p, pcs2),
           NEW sl2, SlotMore(sl, ShardOf[r], sl2)
    PROVE  Inv(pcs2, trs, gts2, sl2, idl, cs2)
<1>11. gts2 \in GotType /\ \A q \in Requests : q # r => gts2[q] = gts[q]
  BY DEF GotSame
<1>1. /\ pcs \in PcType /\ trs \in [Requests -> Seq(1..Len(cs))] /\ sl \in [Shards -> Nat]
      /\ idl \in [Shards -> Seq(1..Len(cs))] /\ cs \in Seq(ConnType)
  BY DEF Inv, Types
<1>2. /\ pcs2 \in PcType /\ pcs2[r] = p /\ \A q \in Requests : q # r => pcs2[q] = pcs[q]
      /\ p \notin Active /\ p \notin InUse
  BY <1>1 DEF PcType, Active, InUse, Ended, PcSet
<1>3. Types(pcs2, trs, gts2, sl2, idl, cs2)
  <2>1. sl2 \in [Shards -> Nat]
    BY <1>1, PoolAssumption DEF SlotMore
  <2> QED
    BY <1>1, <1>2, <1>11, <2>1 DEF Types, ClosedBy
<1>4. SlotInv(pcs2, sl2, idl)
  <2>1. SlotInv(pcs, sl, idl) /\ ShardOf[r] \in Shards
    BY PoolAssumption DEF Inv
  <2>2. LenBelow(idl, ShardOf[r], sl[ShardOf[r]] + 1) /\ SameBut(idl, ShardOf[r], idl)
    BY <1>1, <2>1 DEF SlotInv, LenBelow, SameBut
  <2>3. sl \in SlotsType /\ pcs \in PcType /\ p \notin Active
    BY <1>1, <1>2 DEF SlotsType
  <2> QED
    BY ONLY r \in Requests, pcs[r] \in Active, PcSet(pcs, r, p, pcs2),
            SlotMore(sl, ShardOf[r], sl2), <2>1, <2>2, <2>3, SlotFreed
<1>5. IdleInv(idl, cs2)
  <2>1. ASSUME NEW s \in Shards, NEW i \in 1..Len(idl[s])
        PROVE  cs2[idl[s][i]] = cs[idl[s][i]]
    <3>1. idl[s][i] \in 1..Len(cs)
      BY <1>1
    <3>2. pcs[r] \in InUse => idl[s][i] # Last(trs[r])
      BY DEF Inv, UseInv
    <3> QED
      BY <3>1, <3>2 DEF ClosedBy
  <2> QED
    BY <2>1 DEF Inv, IdleInv
<1>6. ASSUME NEW q \in Requests, pcs2[q] \in InUse
      PROVE  /\ q # r /\ pcs[q] = pcs2[q] /\ gts2[q] = gts[q]
             /\ cs2[Last(trs[q])] = cs[Last(trs[q])]
  <2>1. q # r /\ pcs[q] = pcs2[q] /\ gts2[q] = gts[q]
    BY <1>2, <1>6, <1>11
  <2>2. Last(trs[q]) \in 1..Len(cs)
    BY <1>6, <2>1, OwnConn
  <2>3. pcs[r] \in InUse => Last(trs[q]) # Last(trs[r])
    BY <1>6, <2>1 DEF Inv, UseInv
  <2> QED
    BY <2>1, <2>2, <2>3 DEF ClosedBy
<1>7. UseInv(pcs2, trs, idl, cs2)
  BY <1>6 DEF Inv, UseInv
<1>8. ReplyInv(pcs2, trs, gts2, cs2)
  <2> SUFFICES ASSUME NEW q \in Requests
               PROVE  /\ pcs2[q] \in {"connect", "auth"} => gts2[q] = <<>>
                      /\ pcs2[q] = "auth" =>
                           Len(Replies(cs2[Last(trs[q])])) + Len(Sent(cs2[Last(trs[q])])) <= 1
                      /\ pcs2[q] = "read" =>
                           InOrder(q, Len(trs[q]), gts2[q], Replies(cs2[Last(trs[q])]),
                                   Sent(cs2[Last(trs[q])]))
                      /\ pcs2[q] = "done" => gts2[q] = Messages(q, Len(trs[q]))
    BY DEF ReplyInv
  <2>1. CASE q = r
    BY <1>2, <2>1 DEF InUse, Active
  <2>2. CASE q # r /\ pcs2[q] \in InUse
    BY <1>6, <2>2 DEF Inv, ReplyInv, InUse
  <2>3. CASE q # r /\ pcs2[q] \notin InUse
    BY <1>2, <1>11, <2>3 DEF Inv, ReplyInv, InUse
  <2> QED
    BY <2>1, <2>2, <2>3
<1>9. DeadInv(pcs2, trs, cs2)
  <2> SUFFICES ASSUME NEW q \in Requests, NEW i \in 1..Len(trs[q]),
                      i < Len(trs[q]) \/ pcs2[q] \in Unsent
               PROVE  ~Alive(cs2[trs[q][i]])
    BY DEF DeadInv
  <2>1. trs[q][i] \in 1..Len(cs) /\ Len(trs[q]) \in Nat
    BY <1>1
  <2>2. CASE i < Len(trs[q]) \/ pcs[q] \in Unsent
    BY <2>1, <2>2 DEF Inv, DeadInv, ClosedBy
  <2>3. CASE i = Len(trs[q]) /\ pcs[q] \notin Unsent
    <3>1. q = r /\ p = "wait"
      BY <1>2, <2>1, <2>3 DEF Unsent, Ended
    <3>2. Last(trs[r]) = trs[r][Len(trs[r])]
      BY DEF Last
    <3> QED
      BY <2>1, <2>3, <3>1, <3>2 DEF ClosedBy
  <2> QED
    BY <2>1, <2>2, <2>3
<1>10. OpenInv(pcs2, trs, idl, cs2)
  <2> SUFFICES ASSUME NEW d \in 1..Len(cs), Open(cs2[d])
               PROVE  \/ \E q \in Requests : pcs2[q] \in InUse /\ Last(trs[q]) = d
                      \/ \E i \in 1..Len(idl[Shard(cs2[d])]) : idl[Shard(cs2[d])][i] = d
    BY DEF OpenInv, ClosedBy
  <2>1. Open(cs[d]) /\ Shard(cs2[d]) = Shard(cs[d]) /\ (pcs[r] \in InUse => d # Last(trs[r]))
    BY DEF ClosedBy
  <2> QED
    BY <1>2, <2>1 DEF Inv, OpenInv
<1> QED
  BY <1>3, <1>4, <1>5, <1>7, <1>8, <1>9, <1>10 DEF Inv

\* The last reply has been read and the connection goes back to its pool.
LEMMA ReturnKeeps ==
    ASSUME NEW pcs, NEW trs, NEW gts, NEW sl, NEW idl, NEW cs, Inv(pcs, trs, gts, sl, idl, cs),
           NEW r \in Requests, pcs[r] = "read", NEW c, c = Last(trs[r]),
           NEW x \in ConnType, Sent(x) = <<>>, Replies(x) = <<>>,
           Shard(x) = Shard(cs[c]), Open(x) = Open(cs[c]), Alive(x) = Alive(cs[c]),
           NEW cs2, Updated(cs, c, x, cs2),
           NEW gts2, GotSame(gts, r, gts2), gts2[r] = Messages(r, Len(trs[r])),
           NEW pcs2, PcSet(pcs, r, "done", pcs2),
           NEW sl2, SlotMore(sl, ShardOf[r], sl2),
           NEW idl2, Pushed(idl, ShardOf[r], c, idl2)
    PROVE  Inv(pcs2, trs, gts2, sl2, idl2, cs2)
<1>13. gts2 \in GotType /\ \A q \in Requests : q # r => gts2[q] = gts[q]
  BY DEF GotSame
<1>1. /\ pcs \in PcType /\ trs \in [Requests -> Seq(1..Len(cs))] /\ sl \in [Shards -> Nat]
      /\ idl \in [Shards -> Seq(1..Len(cs))] /\ cs \in Seq(ConnType) /\ ShardOf[r] \in Shards
      /\ cs2 \in Seq(ConnType) /\ Len(cs2) = Len(cs) /\ cs2[c] = x
      /\ \A d \in 1..Len(cs) : d # c => cs2[d] = cs[d]
  BY PoolAssumption DEF Inv, Types, Updated
<1>2. pcs2 \in PcType /\ pcs2[r] = "done" /\ \A q \in Requests : q # r => pcs2[q] = pcs[q]
  BY <1>1 DEF PcType, Ended, PcSet
<1>3. /\ c \in 1..Len(cs) /\ pcs[r] \in InUse /\ Shard(cs[c]) = ShardOf[r]
      /\ \A q \in Requests : pcs[q] \in InUse /\ Last(trs[q]) = c => q = r
      /\ \A s \in Shards : \A i \in 1..Len(idl[s]) : idl[s][i] # c
  BY OwnConn DEF Inv, UseInv, InUse
<1>4. /\ idl2 \in [Shards -> Seq(1..Len(cs))]
      /\ \A s \in Shards : s # ShardOf[r] => idl2[s] = idl[s]
      /\ Len(idl2[ShardOf[r]]) = Len(idl[ShardOf[r]]) + 1 /\ Len(idl[ShardOf[r]]) \in Nat
      /\ idl2[ShardOf[r]][Len(idl[ShardOf[r]]) + 1] = c
      /\ \A i \in 1..Len(idl[ShardOf[r]]) : idl2[ShardOf[r]][i] = idl[ShardOf[r]][i]
  <2>1. idl[ShardOf[r]] \in Seq(1..Len(cs)) /\ idl2[ShardOf[r]] = Append(idl[ShardOf[r]], c)
    BY <1>1 DEF Pushed
  <2> QED
    BY <1>1, <1>3, <2>1, AppendProperties DEF Pushed
<1>14. ASSUME NEW s \in Shards, NEW i \in 1..Len(idl2[s])
       PROVE  \/ i \in 1..Len(idl[s]) /\ idl2[s][i] = idl[s][i] /\ idl[s][i] \in 1..Len(cs)
              \/ s = ShardOf[r] /\ i = Len(idl[s]) + 1 /\ idl2[s][i] = c
  <2>1. idl[s] \in Seq(1..Len(cs))
    BY <1>1
  <2>2. CASE s # ShardOf[r]
    <3>1. idl2[s] = idl[s] /\ i \in 1..Len(idl[s])
      BY <1>4, <2>2
    <3>2. idl[s][i] \in 1..Len(cs)
      BY <2>1, <3>1
    <3> QED
      BY <3>1, <3>2
  <2>3. CASE s = ShardOf[r]
    <3>1. i \in 1..Len(idl[s]) \/ i = Len(idl[s]) + 1
      BY <1>4, <2>3
    <3>2. CASE i \in 1..Len(idl[s])
      <4>1. idl[s][i] \in 1..Len(cs)
        BY <2>1, <3>2
      <4> QED
        BY <1>4, <2>3, <3>2, <4>1
    <3>3. CASE i = Len(idl[s]) + 1
      BY <1>4, <2>3, <3>3
    <3> QED
      BY <3>1, <3>2, <3>3
  <2> QED
    BY <2>2, <2>3
<1>15. ASSUME NEW s \in Shards, NEW i \in 1..Len(idl[s])
       PROVE  i \in 1..Len(idl2[s]) /\ idl2[s][i] = idl[s][i]
  <2>1. CASE s # ShardOf[r]
    BY <1>4, <2>1
  <2>2. CASE s = ShardOf[r]
    BY <1>4, <2>2
  <2> QED
    BY <2>1, <2>2
<1>5. Types(pcs2, trs, gts2, sl2, idl2, cs2)
  <2>1. sl2 \in [Shards -> Nat]
    BY <1>1 DEF SlotMore
  <2> QED
    BY <1>1, <1>2, <1>4, <1>13, <2>1 DEF Types
<1>6. SlotInv(pcs2, sl2, idl2)
  <2>1. SlotInv(pcs, sl, idl) /\ pcs[r] \in Active /\ "done" \notin Active
    BY DEF Inv, Active
  <2>2. LenBelow(idl2, ShardOf[r], sl[ShardOf[r]] + 1) /\ SameBut(idl, ShardOf[r], idl2)
    BY <1>1, <1>4, <2>1 DEF SlotInv, LenBelow, SameBut
  <2>3. sl \in SlotsType /\ pcs \in PcType
    BY <1>1 DEF SlotsType
  <2> QED
    BY ONLY r \in Requests, PcSet(pcs, r, "done", pcs2), SlotMore(sl, ShardOf[r], sl2),
            <2>1, <2>2, <2>3, SlotFreed
<1>7. IdleInv(idl2, cs2)
  <2> SUFFICES ASSUME NEW s \in Shards, NEW i \in 1..Len(idl2[s])
               PROVE  /\ Shard(cs2[idl2[s][i]]) = s
                      /\ Sent(cs2[idl2[s][i]]) = <<>> /\ Replies(cs2[idl2[s][i]]) = <<>>
                      /\ \A j \in 1..Len(idl2[s]) : idl2[s][i] = idl2[s][j] => i = j
    BY DEF IdleInv
  <2>1. CASE i \in 1..Len(idl[s]) /\ idl2[s][i] = idl[s][i] /\ idl[s][i] \in 1..Len(cs)
    <3>1. idl[s][i] # c /\ cs2[idl[s][i]] = cs[idl[s][i]]
      BY <1>1, <1>3, <2>1
    <3>2. /\ Shard(cs2[idl2[s][i]]) = s
          /\ Sent(cs2[idl2[s][i]]) = <<>> /\ Replies(cs2[idl2[s][i]]) = <<>>
      BY <2>1, <3>1 DEF Inv, IdleInv
    <3>3. ASSUME NEW j \in 1..Len(idl2[s]), idl2[s][i] = idl2[s][j]
          PROVE  i = j
      <4>1. j \in 1..Len(idl[s]) /\ idl2[s][j] = idl[s][j]
        BY <1>14, <2>1, <3>1, <3>3
      <4> QED
        BY <2>1, <3>3, <4>1 DEF Inv, IdleInv
    <3> QED
      BY <3>2, <3>3
  <2>2. CASE s = ShardOf[r] /\ i = Len(idl[s]) + 1 /\ idl2[s][i] = c
    <3>1. ASSUME NEW j \in 1..Len(idl2[s]), idl2[s][i] = idl2[s][j]
          PROVE  i = j
      BY <1>3, <1>14, <2>2, <3>1
    <3> QED
      BY <1>1, <1>3, <2>2, <3>1
  <2> QED
    BY <1>14, <2>1, <2>2
<1>8. ASSUME NEW q \in Requests, pcs2[q] \in InUse
      PROVE  /\ q # r /\ pcs[q] = pcs2[q] /\ gts2[q] = gts[q] /\ Last(trs[q]) # c
             /\ cs2[Last(trs[q])] = cs[Last(trs[q])]
  <2>1. q # r /\ pcs[q] = pcs2[q] /\ gts2[q] = gts[q]
    BY <1>2, <1>8, <1>13 DEF InUse
  <2>2. Last(trs[q]) \in 1..Len(cs) /\ Last(trs[q]) # c
    BY <1>3, <1>8, <2>1, OwnConn
  <2> QED
    BY <1>1, <2>1, <2>2
<1>9. UseInv(pcs2, trs, idl2, cs2)
  <2> SUFFICES ASSUME NEW q \in Requests, pcs2[q] \in InUse
               PROVE  /\ trs[q] # <<>> /\ Shard(cs2[Last(trs[q])]) = ShardOf[q]
                      /\ \A o \in Requests :
                            pcs2[o] \in InUse /\ Last(trs[o]) = Last(trs[q]) => o = q
                      /\ \A s \in Shards : \A i \in 1..Len(idl2[s]) : idl2[s][i] # Last(trs[q])
    BY DEF UseInv
  <2>1. /\ trs[q] # <<>> /\ Shard(cs2[Last(trs[q])]) = ShardOf[q]
        /\ \A o \in Requests : pcs2[o] \in InUse /\ Last(trs[o]) = Last(trs[q]) => o = q
        /\ \A s \in Shards : \A i \in 1..Len(idl[s]) : idl[s][i] # Last(trs[q])
    BY <1>8 DEF Inv, UseInv
  <2>2. ASSUME NEW s \in Shards, NEW i \in 1..Len(idl2[s])
        PROVE  idl2[s][i] # Last(trs[q])
    <3>1. \/ i \in 1..Len(idl[s]) /\ idl2[s][i] = idl[s][i]
          \/ idl2[s][i] = c
      BY <1>14
    <3> QED
      BY <1>8, <2>1, <3>1
  <2> QED
    BY <2>1, <2>2
<1>10. ReplyInv(pcs2, trs, gts2, cs2)
  <2> SUFFICES ASSUME NEW q \in Requests
               PROVE  /\ pcs2[q] \in {"connect", "auth"} => gts2[q] = <<>>
                      /\ pcs2[q] = "auth" =>
                           Len(Replies(cs2[Last(trs[q])])) + Len(Sent(cs2[Last(trs[q])])) <= 1
                      /\ pcs2[q] = "read" =>
                           InOrder(q, Len(trs[q]), gts2[q], Replies(cs2[Last(trs[q])]),
                                   Sent(cs2[Last(trs[q])]))
                      /\ pcs2[q] = "done" => gts2[q] = Messages(q, Len(trs[q]))
    BY DEF ReplyInv
  <2>1. CASE q = r
    BY <1>2, <2>1
  <2>2. CASE q # r /\ pcs2[q] \in InUse
    BY <1>8, <2>2 DEF Inv, ReplyInv, InUse
  <2>3. CASE q # r /\ pcs2[q] \notin InUse
    BY <1>2, <1>13, <2>3 DEF Inv, ReplyInv, InUse
  <2> QED
    BY <2>1, <2>2, <2>3
<1>11. DeadInv(pcs2, trs, cs2)
  <2> SUFFICES ASSUME NEW q \in Requests, NEW i \in 1..Len(trs[q]),
                      i < Len(trs[q]) \/ pcs2[q] \in Unsent
               PROVE  ~Alive(cs2[trs[q][i]])
    BY DEF DeadInv
  <2>1. trs[q][i] \in 1..Len(cs)
    BY <1>1
  <2>2. i < Len(trs[q]) \/ pcs[q] \in Unsent
    BY <1>2 DEF Unsent
  <2>3. ~Alive(cs[trs[q][i]])
    BY <2>2 DEF Inv, DeadInv
  <2> QED
    BY <1>1, <2>1, <2>3
<1>12. OpenInv(pcs2, trs, idl2, cs2)
  <2> SUFFICES ASSUME NEW d \in 1..Len(cs), Open(cs2[d])
               PROVE  \/ \E q \in Requests : pcs2[q] \in InUse /\ Last(trs[q]) = d
                      \/ \E i \in 1..Len(idl2[Shard(cs2[d])]) : idl2[Shard(cs2[d])][i] = d
    BY <1>1 DEF OpenInv
  <2>1. CASE d = c
    <3>1. Shard(cs2[d]) = ShardOf[r]
      BY <1>1, <1>3, <2>1
    <3>2. Len(idl[ShardOf[r]]) + 1 \in 1..Len(idl2[ShardOf[r]])
      BY <1>4
    <3> QED
      BY <1>4, <2>1, <3>1, <3>2
  <2>2. CASE d # c
    <3>4. cs2[d] = cs[d] /\ cs[d] \in ConnType
      BY <1>1, <2>2
    <3>1. cs2[d] = cs[d] /\ Open(cs[d]) /\ Shard(cs[d]) \in Shards
      BY <3>4 DEF ConnType, Shard
    <3>2. CASE \E q \in Requests : pcs[q] \in InUse /\ Last(trs[q]) = d
      BY <1>2, <2>2, <3>2
    <3>3. CASE \E i \in 1..Len(idl[Shard(cs[d])]) : idl[Shard(cs[d])][i] = d
      <4> PICK i \in 1..Len(idl[Shard(cs[d])]) : idl[Shard(cs[d])][i] = d
        BY <3>3
      <4>1. i \in 1..Len(idl2[Shard(cs[d])]) /\ idl2[Shard(cs[d])][i] = d
        BY <1>15, <3>1
      <4> QED
        BY <3>1, <4>1
    <3> QED
      BY <3>1, <3>2, <3>3 DEF Inv, OpenInv
  <2> QED
    BY <2>1, <2>2
<1> QED
  BY <1>5, <1>6, <1>7, <1>9, <1>10, <1>11, <1>12 DEF Inv

Popped(idl, s, idl2) == idl2 = [idl EXCEPT ![s] = Front(@)]

\* Connection c has left the pool of shard s: nobody uses it.
Taken(pcs, trs, idl, cs, s, c, idl2) ==
    /\ c \in 1..Len(cs) /\ Shard(cs[c]) = s /\ Sent(cs[c]) = <<>> /\ Replies(cs[c]) = <<>>
    /\ idl2 \in [Shards -> Seq(1..Len(cs))]
    /\ \A t \in Shards : t # s => idl2[t] = idl[t]
    /\ Len(idl2[s]) = Len(idl[s]) - 1
    /\ \A t \in Shards : \A i \in 1..Len(idl2[t]) :
          /\ i \in 1..Len(idl[t]) /\ idl2[t][i] = idl[t][i]
          /\ idl[t][i] \in 1..Len(cs) /\ idl[t][i] # c
    /\ \A d \in 1..Len(cs), t \in Shards :
          d # c /\ (\E i \in 1..Len(idl[t]) : idl[t][i] = d)
             => \E i \in 1..Len(idl2[t]) : idl2[t][i] = d
    /\ \A q \in Requests : pcs[q] \in InUse => Last(trs[q]) # c

\* The newest idle connection is taken out of its pool.
LEMMA IdlePop ==
    ASSUME NEW pcs, NEW trs, NEW gts, NEW sl, NEW idl, NEW cs, Inv(pcs, trs, gts, sl, idl, cs),
           NEW s \in Shards, idl[s] # <<>>, NEW c, c = Last(idl[s]),
           NEW x, NEW cs2, Updated(cs, c, x, cs2), NEW idl2, Popped(idl, s, idl2)
    PROVE  Taken(pcs, trs, idl, cs, s, c, idl2) /\ IdleInv(idl2, cs2)
<1>1. /\ idl \in [Shards -> Seq(1..Len(cs))] /\ cs \in Seq(ConnType)
      /\ \A d \in 1..Len(cs) : d # c => cs2[d] = cs[d]
  BY DEF Inv, Types, Updated
<1>2. /\ c \in 1..Len(cs) /\ c = idl[s][Len(idl[s])] /\ Len(idl[s]) \in 1..Len(idl[s])
      /\ idl2 \in [Shards -> Seq(1..Len(cs))]
      /\ \A t \in Shards : t # s => idl2[t] = idl[t]
      /\ Len(idl2[s]) = Len(idl[s]) - 1
      /\ \A i \in 1..Len(idl[s]) - 1 : idl2[s][i] = idl[s][i]
  <2>1. idl[s] \in Seq(1..Len(cs)) /\ idl2[s] = Front(idl[s])
    BY <1>1 DEF Popped
  <2> QED
    BY <1>1, <2>1, FrontLast DEF Popped
<1>3. Shard(cs[c]) = s /\ Sent(cs[c]) = <<>> /\ Replies(cs[c]) = <<>>
  BY <1>2 DEF Inv, IdleInv
<1>4. ASSUME NEW t \in Shards, NEW i \in 1..Len(idl2[t])
      PROVE  /\ i \in 1..Len(idl[t]) /\ idl2[t][i] = idl[t][i]
             /\ idl[t][i] \in 1..Len(cs) /\ idl[t][i] # c
  <2>1. i \in 1..Len(idl[t]) /\ idl2[t][i] = idl[t][i] /\ idl[t][i] \in 1..Len(cs)
    <3>1. CASE t # s
      BY <1>1, <1>2, <3>1
    <3>2. CASE t = s
      <4>1. Len(idl[s]) \in Nat /\ i \in 1..Len(idl[s]) - 1 /\ i \in 1..Len(idl[s])
        BY <1>1, <1>2, <3>2
      <4>2. idl[s][i] \in 1..Len(cs)
        BY <1>1, <4>1
      <4> QED
        BY <1>2, <3>2, <4>1, <4>2
    <3> QED
      BY <3>1, <3>2
  <2>2. CASE t = s
    <3>1. i # Len(idl[s])
      BY <1>1, <1>2, <2>2
    <3> QED
      BY <1>2, <2>1, <2>2, <3>1 DEF Inv, IdleInv
  <2>3. CASE t # s
    BY <1>3, <2>1, <2>3 DEF Inv, IdleInv
  <2> QED
    BY <2>1, <2>2, <2>3
<1>5. ASSUME NEW d \in 1..Len(cs), NEW t \in Shards, d # c,
             NEW i \in 1..Len(idl[t]), idl[t][i] = d
      PROVE  i \in 1..Len(idl2[t]) /\ idl2[t][i] = d
  <2>1. CASE t # s
    BY <1>2, <1>5, <2>1
  <2>2. CASE t = s
    <3>1. Len(idl[s]) \in Nat /\ i \in 1..Len(idl[s]) /\ i # Len(idl[s])
      BY <1>1, <1>2, <1>5, <2>2
    <3>2. i \in 1..Len(idl[s]) - 1
      BY <3>1
    <3> QED
      BY <1>2, <1>5, <2>2, <3>2
  <2> QED
    BY <2>1, <2>2
<1>6. \A q \in Requests : pcs[q] \in InUse => Last(trs[q]) # c
  BY <1>2 DEF Inv, UseInv
<1>7. IdleInv(idl2, cs2)
  <2> SUFFICES ASSUME NEW t \in Shards, NEW i \in 1..Len(idl2[t])
               PROVE  /\ Shard(cs2[idl2[t][i]]) = t
                      /\ Sent(cs2[idl2[t][i]]) = <<>> /\ Replies(cs2[idl2[t][i]]) = <<>>
                      /\ \A j \in 1..Len(idl2[t]) : idl2[t][i] = idl2[t][j] => i = j
    BY DEF IdleInv
  <2>1. cs2[idl2[t][i]] = cs[idl[t][i]]
    BY <1>1, <1>4
  <2> QED
    BY <1>4, <2>1 DEF Inv, IdleInv
<1> QED
  BY <1>2, <1>3, <1>4, <1>5, <1>6, <1>7 DEF Taken

\* close() takes a connection out of a pool and closes it.
LEMMA CloseKeeps ==
    ASSUME NEW pcs, NEW trs, NEW gts, NEW sl, NEW idl, NEW cs, Inv(pcs, trs, gts, sl, idl, cs),
           NEW s \in Shards, idl[s] # <<>>, NEW c, c = Last(idl[s]),
           NEW x \in ConnType, Shard(x) = Shard(cs[c]), ~Open(x), Alive(x) = Alive(cs[c]),
           NEW cs2, Updated(cs, c, x, cs2),
           NEW idl2, Popped(idl, s, idl2)
    PROVE  Inv(pcs, trs, gts, sl, idl2, cs2)
<1>1. /\ pcs \in PcType /\ trs \in [Requests -> Seq(1..Len(cs))] /\ sl \in [Shards -> Nat]
      /\ idl \in [Shards -> Seq(1..Len(cs))] /\ cs \in Seq(ConnType) /\ gts \in GotType
      /\ cs2 \in Seq(ConnType) /\ Len(cs2) = Len(cs) /\ cs2[c] = x
      /\ \A d \in 1..Len(cs) : d # c => cs2[d] = cs[d]
  BY DEF Inv, Types, Updated
<1>11. Taken(pcs, trs, idl, cs, s, c, idl2) /\ IdleInv(idl2, cs2)
  BY IdlePop
<1>2. /\ idl2 \in [Shards -> Seq(1..Len(cs))]
      /\ \A t \in Shards : t # s => idl2[t] = idl[t]
      /\ Len(idl2[s]) = Len(idl[s]) - 1
  BY <1>11 DEF Taken
<1>3. /\ \A t \in Shards : \A i \in 1..Len(idl2[t]) :
            i \in 1..Len(idl[t]) /\ idl2[t][i] = idl[t][i]
      /\ \A d \in 1..Len(cs), t \in Shards :
            d # c /\ (\E i \in 1..Len(idl[t]) : idl[t][i] = d)
               => \E i \in 1..Len(idl2[t]) : idl2[t][i] = d
      /\ \A q \in Requests : pcs[q] \in InUse => Last(trs[q]) # c
      /\ IdleInv(idl2, cs2)
  BY <1>11 DEF Taken
<1>4. Types(pcs, trs, gts, sl, idl2, cs2)
  BY <1>1, <1>2 DEF Types
<1>5. SlotInv(pcs, sl, idl2)
  <2>1. \A t \in Shards : Len(idl2[t]) <= sl[t]
    <3> TAKE t \in Shards
    <3>1. Len(idl[t]) <= sl[t] /\ Len(idl[t]) \in Nat /\ sl[t] \in Nat
      BY <1>1 DEF Inv, SlotInv
    <3>2. CASE t = s
      BY <1>2, <3>1, <3>2
    <3>3. CASE t # s
      BY <1>2, <3>1, <3>3
    <3> QED
      BY <3>2, <3>3
  <2> QED
    BY <2>1 DEF Inv, SlotInv
<1>6. ASSUME NEW q \in Requests, pcs[q] \in InUse
      PROVE  /\ cs2[Last(trs[q])] = cs[Last(trs[q])]
             /\ \A t \in Shards : \A i \in 1..Len(idl2[t]) : idl2[t][i] # Last(trs[q])
  <2>1. Last(trs[q]) \in 1..Len(cs) /\ Last(trs[q]) # c
    BY <1>3, <1>6, OwnConn
  <2>2. \A t \in Shards : \A i \in 1..Len(idl[t]) : idl[t][i] # Last(trs[q])
    BY <1>6 DEF Inv, UseInv
  <2>3. cs2[Last(trs[q])] = cs[Last(trs[q])]
    BY <1>1, <2>1
  <2> QED
    BY <1>3, <2>2, <2>3
<1>7. UseInv(pcs, trs, idl2, cs2)
  BY <1>6 DEF Inv, UseInv
<1>8. ReplyInv(pcs, trs, gts, cs2)
  BY <1>6 DEF Inv, ReplyInv, InUse
<1>9. DeadInv(pcs, trs, cs2)
  <2> SUFFICES ASSUME NEW q \in Requests, NEW i \in 1..Len(trs[q]),
                      i < Len(trs[q]) \/ pcs[q] \in Unsent
               PROVE  ~Alive(cs2[trs[q][i]])
    BY DEF DeadInv
  <2>1. trs[q][i] \in 1..Len(cs)
    BY <1>1
  <2>2. ~Alive(cs[trs[q][i]])
    BY DEF Inv, DeadInv
  <2> QED
    BY <1>1, <2>1, <2>2
<1>10. OpenInv(pcs, trs, idl2, cs2)
  <2> SUFFICES ASSUME NEW d \in 1..Len(cs), Open(cs2[d])
               PROVE  \/ \E q \in Requests : pcs[q] \in InUse /\ Last(trs[q]) = d
                      \/ \E i \in 1..Len(idl2[Shard(cs2[d])]) : idl2[Shard(cs2[d])][i] = d
    BY <1>1 DEF OpenInv
  <2>1. d # c /\ cs2[d] = cs[d] /\ cs[d] \in ConnType
    BY <1>1
  <2>2. Open(cs[d]) /\ Shard(cs[d]) \in Shards
    BY <2>1 DEF ConnType, Shard
  <2>3. CASE \E q \in Requests : pcs[q] \in InUse /\ Last(trs[q]) = d
    BY <2>3
  <2>4. CASE \E i \in 1..Len(idl[Shard(cs[d])]) : idl[Shard(cs[d])][i] = d
    BY <1>3, <2>1, <2>2, <2>4
  <2> QED
    BY <2>2, <2>3, <2>4 DEF Inv, OpenInv
<1> QED
  BY <1>3, <1>4, <1>5, <1>7, <1>8, <1>9, <1>10 DEF Inv

\* An attempt begins without an idle connection.
LEMMA ConnectKeeps ==
    ASSUME NEW pcs, NEW trs, NEW gts, NEW sl, NEW idl, NEW cs, Inv(pcs, trs, gts, sl, idl, cs),
           NEW r \in Requests, pcs[r] \in {"idle", "wait"}, sl[ShardOf[r]] > 0,
           idl[ShardOf[r]] = <<>>,
           NEW gts2, gts2 = [gts EXCEPT ![r] = <<>>],
           NEW pcs2, pcs2 = [pcs EXCEPT ![r] = "connect"],
           NEW sl2, sl2 = [sl EXCEPT ![ShardOf[r]] = @ - 1]
    PROVE  Inv(pcs2, trs, gts2, sl2, idl, cs)
<1>1. pcs \in PcType /\ sl \in [Shards -> Nat] /\ gts \in GotType /\ ShardOf[r] \in Shards
  BY PoolAssumption DEF Inv, Types
<1>2. /\ pcs2 \in PcType /\ pcs2[r] = "connect" /\ \A q \in Requests : q # r => pcs2[q] = pcs[q]
      /\ gts2 \in GotType /\ gts2[r] = <<>> /\ \A q \in Requests : q # r => gts2[q] = gts[q]
  BY <1>1 DEF PcType, Active, GotType
<1>3. \A q \in Requests : pcs2[q] \in InUse => pcs2[q] = pcs[q] /\ q # r
  BY <1>2 DEF InUse
<1>4. \A q \in Requests : pcs[q] \in InUse => pcs2[q] = pcs[q] /\ q # r
  BY <1>2 DEF InUse
<1>5. Types(pcs2, trs, gts2, sl2, idl, cs)
  <2>1. sl2 \in [Shards -> Nat]
    BY <1>1
  <2> QED
    BY <1>2, <2>1 DEF Inv, Types
<1>6. SlotInv(pcs2, sl2, idl)
  <2>1. SlotInv(pcs, sl, idl) /\ pcs[r] \notin Active /\ "connect" \in Active
    BY DEF Inv, Active
  <2>2. LenBelow(idl, ShardOf[r], sl[ShardOf[r]] - 1) /\ SameBut(idl, ShardOf[r], idl)
    BY <1>1 DEF LenBelow, SameBut
  <2>3. sl \in SlotsType /\ PcSet(pcs, r, "connect", pcs2) /\ SlotLess(sl, ShardOf[r], sl2)
    BY <1>1 DEF SlotsType, PcSet, SlotLess
  <2> QED
    BY ONLY r \in Requests, <1>1, <2>1, <2>2, <2>3, SlotTaken
<1>7. IdleInv(idl, cs) /\ UseInv(pcs2, trs, idl, cs) /\ OpenInv(pcs2, trs, idl, cs)
  BY <1>3, <1>4 DEF Inv, UseInv, OpenInv
<1>8. ReplyInv(pcs2, trs, gts2, cs)
  BY <1>2 DEF Inv, ReplyInv
<1>9. DeadInv(pcs2, trs, cs)
  BY <1>2 DEF Inv, DeadInv, Unsent
<1> QED
  BY <1>5, <1>6, <1>7, <1>8, <1>9 DEF Inv

\* A request waits for a slot.
LEMMA WaitKeeps ==
    ASSUME NEW pcs, NEW trs, NEW gts, NEW sl, NEW idl, NEW cs, Inv(pcs, trs, gts, sl, idl, cs),
           NEW r \in Requests, pcs[r] \in {"idle", "wait"}, NEW p \in {"wait", "cancelled"},
           NEW pcs2, pcs2 = [pcs EXCEPT ![r] = p]
    PROVE  Inv(pcs2, trs, gts, sl, idl, cs)
<1>1. pcs \in PcType
  BY DEF Inv, Types
<1>2. pcs2 \in PcType /\ pcs2[r] = p /\ \A q \in Requests : q # r => pcs2[q] = pcs[q]
  BY <1>1 DEF PcType, Ended
<1>3. \A q \in Requests : /\ pcs2[q] \in InUse <=> pcs[q] \in InUse
                          /\ pcs2[q] \in Active <=> pcs[q] \in Active
                          /\ pcs2[q] \in Unsent => pcs[q] \in Unsent
  BY <1>2 DEF InUse, Active, Unsent
<1>4. Types(pcs2, trs, gts, sl, idl, cs)
  BY <1>2 DEF Inv, Types
<1>5. SlotInv(pcs2, sl, idl)
  <2>1. \A s \in Shards : Holders(pcs2, s) = Holders(pcs, s)
    BY <1>3 DEF Holders
  <2> QED
    BY <2>1 DEF Inv, SlotInv
<1>6. IdleInv(idl, cs) /\ UseInv(pcs2, trs, idl, cs) /\ OpenInv(pcs2, trs, idl, cs)
  BY <1>3 DEF Inv, UseInv, OpenInv
<1>7. ReplyInv(pcs2, trs, gts, cs)
  BY <1>2 DEF Inv, ReplyInv
<1>8. DeadInv(pcs2, trs, cs)
  BY <1>3 DEF Inv, DeadInv
<1> QED
  BY <1>4, <1>5, <1>6, <1>7, <1>8 DEF Inv

\* Request r has appended connection c to its attempts.
TriedType(n) == [Requests -> Seq(1..n)]

TriedNext(trs, r, c, trs2) ==
    /\ Len(trs2[r]) = Len(trs[r]) + 1 /\ Last(trs2[r]) = c
    /\ \A i \in 1..Len(trs[r]) : trs2[r][i] = trs[r][i]
    /\ \A q \in Requests : q # r => trs2[q] = trs[q]

TriedMore(trs, r, c, trs2) == trs2 = [trs EXCEPT ![r] = Append(@, c)]

LEMMA TriedAppend ==
    ASSUME NEW n \in Nat, NEW m \in Nat, n <= m, NEW trs \in TriedType(n),
           NEW r \in Requests, NEW c \in 1..m, NEW trs2, TriedMore(trs, r, c, trs2)
    PROVE  TriedNext(trs, r, c, trs2) /\ trs2 \in TriedType(m) /\ trs2[r] # <<>>
<1> USE DEF TriedType, TriedMore
<1>1. \A q \in Requests : trs[q] \in Seq(1..m)
  <2>1. 1..n \subseteq 1..m
    OBVIOUS
  <2> QED
    BY <2>1, SeqMonotonic
<1>2. trs2[r] = Append(trs[r], c) /\ \A q \in Requests : q # r => trs2[q] = trs[q]
  OBVIOUS
<1>3. /\ trs2[r] \in Seq(1..m) /\ trs2[r] # <<>> /\ Len(trs2[r]) = Len(trs[r]) + 1
      /\ trs2[r][Len(trs[r]) + 1] = c /\ \A i \in 1..Len(trs[r]) : trs2[r][i] = trs[r][i]
  BY <1>1, <1>2, AppendProperties
<1>4. trs2 \in [Requests -> Seq(1..m)]
  BY <1>1, <1>2, <1>3
<1> QED
  BY <1>2, <1>3, <1>4 DEF TriedNext, Last

\* Request r has no reply yet.
GotNone(gts, r, gts2) == gts2 = [gts EXCEPT ![r] = <<>>]

\* An attempt begins on the newest idle connection.
LEMMA ReuseKeeps ==
    ASSUME NEW pcs, NEW trs, NEW gts, NEW sl, NEW idl, NEW cs, Inv(pcs, trs, gts, sl, idl, cs),
           NEW r \in Requests, pcs[r] \in {"idle", "wait"}, sl[ShardOf[r]] > 0,
           idl[ShardOf[r]] # <<>>, NEW c, c = Last(idl[ShardOf[r]]),
           NEW x \in ConnType, Shard(x) = Shard(cs[c]), Alive(x) = Alive(cs[c]),
           Replies(x) = <<>>, Sent(x) = <<>> \/ Sent(x) = Messages(r, Len(trs[r]) + 1),
           NEW cs2, Updated(cs, c, x, cs2),
           NEW trs2, TriedMore(trs, r, c, trs2),
           NEW gts2, GotNone(gts, r, gts2),
           NEW pcs2, PcSet(pcs, r, "read", pcs2),
           NEW sl2, SlotLess(sl, ShardOf[r], sl2),
           NEW idl2, Popped(idl, ShardOf[r], idl2)
    PROVE  Inv(pcs2, trs2, gts2, sl2, idl2, cs2)
<1>1. /\ pcs \in PcType /\ trs \in [Requests -> Seq(1..Len(cs))] /\ sl \in [Shards -> Nat]
      /\ idl \in [Shards -> Seq(1..Len(cs))] /\ cs \in Seq(ConnType) /\ gts \in GotType
      /\ cs2 \in Seq(ConnType) /\ Len(cs2) = Len(cs) /\ cs2[c] = x
      /\ \A d \in 1..Len(cs) : d # c => cs2[d] = cs[d]
      /\ ShardOf[r] \in Shards
  BY PoolAssumption DEF Inv, Types, Updated
<1>13. Taken(pcs, trs, idl, cs, ShardOf[r], c, idl2) /\ IdleInv(idl2, cs2)
  BY <1>1, IdlePop
<1>2. /\ c \in 1..Len(cs) /\ idl2 \in [Shards -> Seq(1..Len(cs))] /\ Shard(cs[c]) = ShardOf[r]
      /\ \A t \in Shards : t # ShardOf[r] => idl2[t] = idl[t]
      /\ Len(idl2[ShardOf[r]]) = Len(idl[ShardOf[r]]) - 1
  BY <1>13 DEF Taken
<1>3. /\ \A t \in Shards : \A i \in 1..Len(idl2[t]) :
            i \in 1..Len(idl[t]) /\ idl2[t][i] = idl[t][i] /\ idl[t][i] # c
      /\ \A d \in 1..Len(cs), t \in Shards :
            d # c /\ (\E i \in 1..Len(idl[t]) : idl[t][i] = d)
               => \E i \in 1..Len(idl2[t]) : idl2[t][i] = d
      /\ \A q \in Requests : pcs[q] \in InUse => Last(trs[q]) # c
      /\ IdleInv(idl2, cs2)
  BY <1>13 DEF Taken
<1>4. TriedNext(trs, r, c, trs2) /\ trs2 \in [Requests -> Seq(1..Len(cs))] /\ trs2[r] # <<>>
  <2>1. Len(cs) \in Nat /\ Len(cs) <= Len(cs) /\ trs \in TriedType(Len(cs))
    BY <1>1 DEF TriedType
  <2>2. TriedNext(trs, r, c, trs2) /\ trs2 \in TriedType(Len(cs)) /\ trs2[r] # <<>>
    BY <1>2, <2>1, TriedAppend
  <2> QED
    BY <2>2 DEF TriedType
<1>5. /\ pcs2 \in PcType /\ pcs2[r] = "read" /\ \A q \in Requests : q # r => pcs2[q] = pcs[q]
      /\ gts2 \in GotType /\ gts2[r] = <<>> /\ \A q \in Requests : q # r => gts2[q] = gts[q]
  BY <1>1 DEF PcType, Active, GotType, PcSet, GotNone
<1>6. Types(pcs2, trs2, gts2, sl2, idl2, cs2)
  <2>1. sl2 \in [Shards -> Nat]
    BY <1>1 DEF SlotLess
  <2> QED
    BY <1>1, <1>2, <1>4, <1>5, <2>1 DEF Types
<1>7. SlotInv(pcs2, sl2, idl2)
  <2>1. /\ SlotInv(pcs, sl, idl) /\ pcs[r] \notin Active /\ "read" \in Active
        /\ pcs \in PcType
    BY <1>1 DEF Inv, Active
  <2>2. LenBelow(idl2, ShardOf[r], sl[ShardOf[r]] - 1)
    BY <1>1, <1>2, <2>1 DEF SlotInv, LenBelow
  <2>3. SameBut(idl, ShardOf[r], idl2)
    BY <1>2 DEF SameBut
  <2>4. sl \in SlotsType /\ PcSet(pcs, r, "read", pcs2) /\ SlotLess(sl, ShardOf[r], sl2)
    BY <1>1 DEF SlotsType
  <2> QED
    BY ONLY r \in Requests, <2>1, <2>2, <2>3, <2>4, SlotTaken
<1>8. ASSUME NEW q \in Requests, q # r, pcs2[q] \in InUse
      PROVE  /\ pcs[q] = pcs2[q] /\ gts2[q] = gts[q] /\ trs2[q] = trs[q] /\ Last(trs[q]) # c
             /\ cs2[Last(trs[q])] = cs[Last(trs[q])]
  <2>1. pcs[q] = pcs2[q] /\ gts2[q] = gts[q] /\ trs2[q] = trs[q]
    BY <1>4, <1>5, <1>8 DEF TriedNext
  <2>2. Last(trs[q]) \in 1..Len(cs) /\ Last(trs[q]) # c
    BY <1>3, <1>8, <2>1, OwnConn
  <2> QED
    BY <1>1, <2>1, <2>2
<1>9. UseInv(pcs2, trs2, idl2, cs2)
  <2> SUFFICES ASSUME NEW q \in Requests, pcs2[q] \in InUse
               PROVE  /\ trs2[q] # <<>> /\ Shard(cs2[Last(trs2[q])]) = ShardOf[q]
                      /\ \A o \in Requests :
                            pcs2[o] \in InUse /\ Last(trs2[o]) = Last(trs2[q]) => o = q
                      /\ \A s \in Shards : \A i \in 1..Len(idl2[s]) : idl2[s][i] # Last(trs2[q])
    BY DEF UseInv
  <2>1. CASE q = r
    <3>1. Last(trs2[r]) = c
      BY <1>4 DEF TriedNext
    <3>2. Shard(cs2[Last(trs2[q])]) = ShardOf[q]
      BY <1>1, <1>2, <2>1, <3>1
    <3>3. \A o \in Requests : pcs2[o] \in InUse /\ Last(trs2[o]) = Last(trs2[q]) => o = q
      BY <1>8, <2>1, <3>1
    <3>4. \A s \in Shards : \A i \in 1..Len(idl2[s]) : idl2[s][i] # Last(trs2[q])
      BY <1>3, <2>1, <3>1
    <3> QED
      BY <1>4, <2>1, <3>2, <3>3, <3>4
  <2>2. CASE q # r
    <3>1. /\ trs2[q] # <<>> /\ Shard(cs2[Last(trs2[q])]) = ShardOf[q]
          /\ \A s \in Shards : \A i \in 1..Len(idl[s]) : idl[s][i] # Last(trs[q])
      BY <1>8, <2>2 DEF Inv, UseInv
    <3>2. \A o \in Requests : pcs2[o] \in InUse /\ Last(trs2[o]) = Last(trs2[q]) => o = q
      <4> TAKE o \in Requests
      <4>1. CASE o = r
        BY <1>4, <1>8, <2>2, <4>1 DEF TriedNext
      <4>2. CASE o # r
        BY <1>8, <2>2, <4>2 DEF Inv, UseInv
      <4> QED
        BY <4>1, <4>2
    <3> QED
      BY <1>3, <1>8, <2>2, <3>1, <3>2
  <2> QED
    BY <2>1, <2>2
<1>10. ReplyInv(pcs2, trs2, gts2, cs2)
  <2> SUFFICES ASSUME NEW q \in Requests
               PROVE  /\ pcs2[q] \in {"connect", "auth"} => gts2[q] = <<>>
                      /\ pcs2[q] = "auth" =>
                           Len(Replies(cs2[Last(trs2[q])])) + Len(Sent(cs2[Last(trs2[q])])) <= 1
                      /\ pcs2[q] = "read" =>
                           InOrder(q, Len(trs2[q]), gts2[q], Replies(cs2[Last(trs2[q])]),
                                   Sent(cs2[Last(trs2[q])]))
                      /\ pcs2[q] = "done" => gts2[q] = Messages(q, Len(trs2[q]))
    BY DEF ReplyInv
  <2>1. CASE q = r
    <3>1. Last(trs2[r]) = c /\ Len(trs2[r]) = Len(trs[r]) + 1 /\ Len(trs2[r]) \in Nat
      BY <1>1, <1>4 DEF TriedNext
    <3>2. InOrder(r, Len(trs2[r]), gts2[r], Replies(x), Sent(x))
      BY <1>5, <3>1, WrittenOrder
    <3> QED
      BY <1>1, <1>5, <2>1, <3>1, <3>2
  <2>2. CASE q # r /\ pcs2[q] \in InUse
    BY <1>8, <2>2 DEF Inv, ReplyInv, InUse
  <2>3. CASE q # r /\ pcs2[q] \notin InUse
    BY <1>4, <1>5, <2>3 DEF Inv, ReplyInv, InUse, TriedNext
  <2> QED
    BY <2>1, <2>2, <2>3
<1>11. DeadInv(pcs2, trs2, cs2)
  <2> SUFFICES ASSUME NEW q \in Requests, NEW i \in 1..Len(trs2[q]),
                      i < Len(trs2[q]) \/ pcs2[q] \in Unsent
               PROVE  ~Alive(cs2[trs2[q][i]])
    BY DEF DeadInv
  <2>1. /\ i \in 1..Len(trs[q]) /\ trs2[q][i] = trs[q][i]
        /\ i < Len(trs[q]) \/ pcs[q] \in Unsent
    <3>1. CASE q = r
      <4>1. i < Len(trs2[r]) /\ pcs[r] \in Unsent /\ Len(trs[r]) \in Nat
        BY <1>1, <1>5, <3>1 DEF Unsent
      <4>2. Len(trs2[r]) = Len(trs[r]) + 1 /\ \A k \in 1..Len(trs[r]) : trs2[r][k] = trs[r][k]
        BY <1>4 DEF TriedNext
      <4>3. i \in 1..Len(trs[r])
        BY <3>1, <4>1, <4>2
      <4> QED
        BY <3>1, <4>1, <4>2, <4>3
    <3>2. CASE q # r
      BY <1>4, <1>5, <3>2 DEF TriedNext
    <3> QED
      BY <3>1, <3>2
  <2>4. trs[q] \in Seq(1..Len(cs)) /\ i \in 1..Len(trs[q])
    BY <1>1, <2>1
  <2>2. trs[q][i] \in 1..Len(cs)
    BY <2>4
  <2>3. ~Alive(cs[trs[q][i]])
    BY <2>1 DEF Inv, DeadInv
  <2> QED
    BY <1>1, <2>1, <2>2, <2>3
<1>12. OpenInv(pcs2, trs2, idl2, cs2)
  <2> SUFFICES ASSUME NEW d \in 1..Len(cs), Open(cs2[d])
               PROVE  \/ \E q \in Requests : pcs2[q] \in InUse /\ Last(trs2[q]) = d
                      \/ \E i \in 1..Len(idl2[Shard(cs2[d])]) : idl2[Shard(cs2[d])][i] = d
    BY <1>1 DEF OpenInv
  <2>1. CASE d = c
    BY <1>4, <1>5, <2>1 DEF TriedNext, InUse
  <2>2. CASE d # c
    <3>1. cs2[d] = cs[d] /\ cs[d] \in ConnType
      BY <1>1, <2>2
    <3>2. Open(cs[d]) /\ Shard(cs[d]) \in Shards
      BY <3>1 DEF ConnType, Shard
    <3>3. CASE \E q \in Requests : pcs[q] \in InUse /\ Last(trs[q]) = d
      <4> PICK q \in Requests : pcs[q] \in InUse /\ Last(trs[q]) = d
        BY <3>3
      <4>1. q # r
        BY DEF InUse
      <4> QED
        BY <1>4, <1>5, <4>1 DEF TriedNext
    <3>4. CASE \E i \in 1..Len(idl[Shard(cs[d])]) : idl[Shard(cs[d])][i] = d
      BY <1>3, <2>2, <3>1, <3>2, <3>4
    <3> QED
      BY <3>2, <3>3, <3>4 DEF Inv, OpenInv
  <2> QED
    BY <2>1, <2>2
<1> QED
  BY <1>3, <1>6, <1>7, <1>9, <1>10, <1>11, <1>12 DEF Inv

\* A connection is opened.
Opened(cs, x, cs2) ==
    /\ cs2 \in Seq(ConnType) /\ Len(cs2) = Len(cs) + 1 /\ cs2[Len(cs) + 1] = x
    /\ \A d \in 1..Len(cs) : cs2[d] = cs[d]

\* An attempt has its new connection; AUTH or its commands are on their way.
LEMMA ConnectedKeeps ==
    ASSUME NEW pcs, NEW trs, NEW gts, NEW sl, NEW idl, NEW cs, Inv(pcs, trs, gts, sl, idl, cs),
           NEW r \in Requests, pcs[r] = "connect", NEW p \in InUse,
           NEW x \in ConnType, Shard(x) = ShardOf[r], Replies(x) = <<>>,
           p = "auth" => Len(Sent(x)) = 1,
           p = "read" => Sent(x) = Messages(r, Len(trs[r]) + 1),
           NEW cs2, Opened(cs, x, cs2),
           NEW c, c = Len(cs) + 1,
           NEW trs2, TriedMore(trs, r, c, trs2),
           NEW pcs2, PcSet(pcs, r, p, pcs2)
    PROVE  Inv(pcs2, trs2, gts, sl, idl, cs2)
<1>1. /\ pcs \in PcType /\ trs \in [Requests -> Seq(1..Len(cs))] /\ sl \in [Shards -> Nat]
      /\ idl \in [Shards -> Seq(1..Len(cs))] /\ cs \in Seq(ConnType) /\ gts \in GotType
  BY DEF Inv, Types
<1>2. /\ cs2 \in Seq(ConnType) /\ Len(cs2) = Len(cs) + 1 /\ cs2[c] = x
      /\ Len(cs) \in Nat /\ c \in 1..Len(cs2) /\ c \notin 1..Len(cs) /\ Len(cs2) \in Nat
      /\ \A d \in 1..Len(cs) : cs2[d] = cs[d]
      /\ \A d \in 1..Len(cs2) : d = c \/ d \in 1..Len(cs)
  BY <1>1 DEF Opened
<1>3. TriedNext(trs, r, c, trs2) /\ trs2 \in [Requests -> Seq(1..Len(cs2))] /\ trs2[r] # <<>>
  <2>1. Len(cs) <= Len(cs2) /\ trs \in TriedType(Len(cs))
    BY <1>1, <1>2 DEF TriedType
  <2>2. TriedNext(trs, r, c, trs2) /\ trs2 \in TriedType(Len(cs2)) /\ trs2[r] # <<>>
    BY <1>2, <2>1, TriedAppend
  <2> QED
    BY <2>2 DEF TriedType
<1>4. /\ pcs2 \in PcType /\ pcs2[r] = p /\ \A q \in Requests : q # r => pcs2[q] = pcs[q]
  BY <1>1 DEF PcType, Active, InUse, PcSet
<1>5. Types(pcs2, trs2, gts, sl, idl, cs2)
  <2>1. 1..Len(cs) \subseteq 1..Len(cs2)
    BY <1>2
  <2>2. \A s \in Shards : idl[s] \in Seq(1..Len(cs2))
    BY <1>1, <2>1, SeqMonotonic
  <2>3. idl \in [Shards -> Seq(1..Len(cs2))]
    BY <1>1, <2>2
  <2> QED
    BY <1>1, <1>2, <1>3, <1>4, <2>3 DEF Types
<1>6. SlotInv(pcs2, sl, idl)
  <2>1. \A q \in Requests : pcs2[q] \in Active <=> pcs[q] \in Active
    BY <1>4 DEF InUse, Active
  <2>2. \A s \in Shards : Holders(pcs2, s) = Holders(pcs, s)
    BY <2>1 DEF Holders
  <2> QED
    BY <2>2 DEF Inv, SlotInv
<1>7. \A s \in Shards : \A i \in 1..Len(idl[s]) : idl[s][i] \in 1..Len(cs)
  BY <1>1
<1>8. IdleInv(idl, cs2)
  <2>1. \A s \in Shards : \A i \in 1..Len(idl[s]) : cs2[idl[s][i]] = cs[idl[s][i]]
    BY <1>2, <1>7
  <2> QED
    BY <2>1 DEF Inv, IdleInv
<1>9. ASSUME NEW q \in Requests, q # r, pcs2[q] \in InUse
      PROVE  /\ pcs[q] = pcs2[q] /\ trs2[q] = trs[q] /\ Last(trs[q]) # c
             /\ cs2[Last(trs[q])] = cs[Last(trs[q])]
  <2>1. pcs[q] = pcs2[q] /\ trs2[q] = trs[q]
    BY <1>3, <1>4, <1>9 DEF TriedNext
  <2>2. Last(trs[q]) \in 1..Len(cs)
    BY <1>9, <2>1, OwnConn
  <2> QED
    BY <1>2, <2>1, <2>2
<1>10. Last(trs2[r]) = c /\ Len(trs2[r]) = Len(trs[r]) + 1 /\ Len(trs[r]) \in Nat
  BY <1>1, <1>3 DEF TriedNext
<1>11. UseInv(pcs2, trs2, idl, cs2)
  <2> SUFFICES ASSUME NEW q \in Requests, pcs2[q] \in InUse
               PROVE  /\ trs2[q] # <<>> /\ Shard(cs2[Last(trs2[q])]) = ShardOf[q]
                      /\ \A o \in Requests :
                            pcs2[o] \in InUse /\ Last(trs2[o]) = Last(trs2[q]) => o = q
                      /\ \A s \in Shards : \A i \in 1..Len(idl[s]) : idl[s][i] # Last(trs2[q])
    BY DEF UseInv
  <2>1. CASE q = r
    <3>1. \A o \in Requests : pcs2[o] \in InUse /\ Last(trs2[o]) = Last(trs2[q]) => o = q
      BY <1>9, <1>10, <2>1
    <3>2. \A s \in Shards : \A i \in 1..Len(idl[s]) : idl[s][i] # Last(trs2[q])
      BY <1>2, <1>7, <1>10, <2>1
    <3> QED
      BY <1>2, <1>3, <1>10, <2>1, <3>1, <3>2
  <2>2. CASE q # r
    <3>1. /\ trs2[q] # <<>> /\ Shard(cs2[Last(trs2[q])]) = ShardOf[q]
          /\ \A s \in Shards : \A i \in 1..Len(idl[s]) : idl[s][i] # Last(trs2[q])
      BY <1>9, <2>2 DEF Inv, UseInv
    <3>2. \A o \in Requests : pcs2[o] \in InUse /\ Last(trs2[o]) = Last(trs2[q]) => o = q
      <4> TAKE o \in Requests
      <4>1. CASE o = r
        BY <1>9, <1>10, <2>2, <4>1
      <4>2. CASE o # r
        BY <1>9, <2>2, <4>2 DEF Inv, UseInv
      <4> QED
        BY <4>1, <4>2
    <3> QED
      BY <3>1, <3>2
  <2> QED
    BY <2>1, <2>2
<1>12. ReplyInv(pcs2, trs2, gts, cs2)
  <2> SUFFICES ASSUME NEW q \in Requests
               PROVE  /\ pcs2[q] \in {"connect", "auth"} => gts[q] = <<>>
                      /\ pcs2[q] = "auth" =>
                           Len(Replies(cs2[Last(trs2[q])])) + Len(Sent(cs2[Last(trs2[q])])) <= 1
                      /\ pcs2[q] = "read" =>
                           InOrder(q, Len(trs2[q]), gts[q], Replies(cs2[Last(trs2[q])]),
                                   Sent(cs2[Last(trs2[q])]))
                      /\ pcs2[q] = "done" => gts[q] = Messages(q, Len(trs2[q]))
    BY DEF ReplyInv
  <2>1. CASE q = r
    <3>1. gts[r] = <<>> /\ cs2[Last(trs2[r])] = x
      BY <1>2, <1>10 DEF Inv, ReplyInv
    <3>2. p = "read" => InOrder(r, Len(trs2[r]), gts[r], Replies(x), Sent(x))
      BY <1>10, <3>1, WrittenOrder
    <3>3. p = "auth" => Len(Replies(x)) + Len(Sent(x)) <= 1
      <4>1. Len(Replies(x)) = 0
        OBVIOUS
      <4>2. HAVE p = "auth"
      <4>3. Len(Sent(x)) = 1
        BY <4>2
      <4> QED
        BY ONLY <4>1, <4>3
    <3> QED
      BY <1>4, <2>1, <3>1, <3>2, <3>3 DEF InUse
  <2>2. CASE q # r /\ pcs2[q] \in InUse
    BY <1>9, <2>2 DEF Inv, ReplyInv, InUse
  <2>3. CASE q # r /\ pcs2[q] \notin InUse
    BY <1>3, <1>4, <2>3 DEF Inv, ReplyInv, InUse, TriedNext
  <2> QED
    BY <2>1, <2>2, <2>3
<1>13. DeadInv(pcs2, trs2, cs2)
  <2> SUFFICES ASSUME NEW q \in Requests, NEW i \in 1..Len(trs2[q]),
                      i < Len(trs2[q]) \/ pcs2[q] \in Unsent
               PROVE  ~Alive(cs2[trs2[q][i]])
    BY DEF DeadInv
  <2>1. /\ i \in 1..Len(trs[q]) /\ trs2[q][i] = trs[q][i]
        /\ i < Len(trs[q]) \/ pcs[q] \in Unsent
    <3>1. CASE q = r
      <4>1. i < Len(trs2[r]) /\ pcs[r] \in Unsent /\ Len(trs[r]) \in Nat
        BY <1>4, <1>10, <3>1 DEF Unsent, InUse
      <4>2. Len(trs2[r]) = Len(trs[r]) + 1 /\ \A k \in 1..Len(trs[r]) : trs2[r][k] = trs[r][k]
        BY <1>3 DEF TriedNext
      <4>3. i \in 1..Len(trs[r])
        BY <3>1, <4>1, <4>2
      <4> QED
        BY <3>1, <4>1, <4>2, <4>3
    <3>2. CASE q # r
      BY <1>3, <1>4, <3>2 DEF TriedNext
    <3> QED
      BY <3>1, <3>2
  <2>4. trs[q] \in Seq(1..Len(cs)) /\ i \in 1..Len(trs[q])
    BY <1>1, <2>1
  <2>2. trs[q][i] \in 1..Len(cs)
    BY <2>4
  <2>3. ~Alive(cs[trs[q][i]])
    BY <2>1 DEF Inv, DeadInv
  <2> QED
    BY <1>2, <2>1, <2>2, <2>3
<1>14. OpenInv(pcs2, trs2, idl, cs2)
  <2> SUFFICES ASSUME NEW d \in 1..Len(cs2), Open(cs2[d])
               PROVE  \/ \E q \in Requests : pcs2[q] \in InUse /\ Last(trs2[q]) = d
                      \/ \E i \in 1..Len(idl[Shard(cs2[d])]) : idl[Shard(cs2[d])][i] = d
    BY DEF OpenInv
  <2>1. CASE d = c
    BY <1>4, <1>10, <2>1
  <2>2. CASE d \in 1..Len(cs)
    <3>1. cs2[d] = cs[d] /\ Open(cs[d])
      BY <1>2, <2>2
    <3>2. CASE \E q \in Requests : pcs[q] \in InUse /\ Last(trs[q]) = d
      <4> PICK q \in Requests : pcs[q] \in InUse /\ Last(trs[q]) = d
        BY <3>2
      <4>1. q # r
        BY DEF InUse
      <4>2. pcs2[q] = pcs[q] /\ trs2[q] = trs[q]
        BY <1>3, <1>4, <4>1 DEF TriedNext
      <4> QED
        BY <4>2
    <3>3. CASE \E i \in 1..Len(idl[Shard(cs[d])]) : idl[Shard(cs[d])][i] = d
      BY <3>1, <3>3
    <3> QED
      BY <2>2, <3>1, <3>2, <3>3 DEF Inv, OpenInv
  <2> QED
    BY <1>2, <2>1, <2>2
<1> QED
  BY <1>5, <1>6, <1>8, <1>11, <1>12, <1>13, <1>14 DEF Inv

-----------------------------------------------------------------------------
\* The invariant of the requests, pools and connections after a step, and a
\* pool that has an idle connection had one before.
KeepsInv == Inv(pc', tried', got', Slots', Idle', conns') /\ RestTypes'
NoneAdded == \A s \in Shards : Idle'[s] # <<>> => Idle[s] # <<>>

-----------------------------------------------------------------------------
(***************************************************************************)
(* What the operators on connections and pools do to the invariant's view  *)
(* of them.                                                                *)
(***************************************************************************)
LEMMA WrittenConn ==
    ASSUME NEW y \in ConnType, NEW m \in Seq(Message), NEW x, x = Written(y, m)
    PROVE  /\ x \in ConnType /\ Shard(x) = Shard(y) /\ Open(x) = Open(y) /\ Alive(x) = Alive(y)
           /\ Replies(x) = Replies(y)
           /\ Sent(y) = <<>> => Sent(x) = <<>> \/ Sent(x) = m
           /\ Sent(y) = <<>> /\ Alive(y) => Sent(x) = m
<1>1. y.sent \in Seq(Message) /\ y.sent \o m \in Seq(Message) /\ <<>> \o m = m
  BY DEF ConnType
<1> USE DEF Written, ConnType, Shard, Open, Alive, Replies, Sent
<1>2. CASE y.status = "up"
  BY <1>1, <1>2
<1>3. CASE y.status # "up"
  BY <1>3
<1> QED
  BY <1>2, <1>3

LEMMA ShutConn ==
    ASSUME NEW y \in ConnType, NEW x, x = Shut(y)
    PROVE  /\ x \in ConnType /\ Shard(x) = Shard(y) /\ ~Open(x) /\ Alive(x) = Alive(y)
           /\ Replies(x) = <<>> /\ Sent(x) = <<>>
<1>1. <<>> \in Seq(Message)
  OBVIOUS
<1> QED
  BY <1>1 DEF Shut, ConnType, Shard, Open, Alive, Replies, Sent

\* The changes of one pool.
LEMMA PoolParts ==
    ASSUME NEW n \in Nat, NEW p \in PoolRec(n)
    PROVE  /\ p.slots \in Nat /\ p.waiters \in Seq(Requests) /\ p.idle \in Seq(1..n)
           /\ p = [slots |-> p.slots, waiters |-> p.waiters, idle |-> p.idle]
BY DEF PoolRec

IsPool(p, n, slots, idle) == p \in PoolRec(n) /\ p.slots = slots /\ p.idle = idle

LEMMA PoolEdit ==
    ASSUME NEW n \in Nat, NEW p \in PoolRec(n)
    PROVE  /\ IsPool(Freed(p), n, p.slots + 1, p.idle)
           /\ p.slots > 0 => IsPool([p EXCEPT !.slots = @ - 1], n, p.slots - 1, p.idle)
           /\ p.idle # <<>> => IsPool([p EXCEPT !.idle = Front(@)], n, p.slots, Front(p.idle))
           /\ (p.slots > 0 /\ p.idle # <<>>) =>
                 IsPool([p EXCEPT !.slots = @ - 1, !.idle = Front(@)], n, p.slots - 1, Front(p.idle))
           /\ \A r \in Requests : IsPool([p EXCEPT !.waiters = Append(@, r)], n, p.slots, p.idle)
           /\ p.waiters # <<>> => IsPool([p EXCEPT !.waiters = Tail(@)], n, p.slots, p.idle)
           /\ \A i \in 1..Len(p.waiters) :
                 IsPool([p EXCEPT !.waiters = RemoveAt(@, i)], n, p.slots, p.idle)
           /\ \A c \in 1..n :
                 IsPool(Returned(p, c), n, p.slots + 1, Append(p.idle, c))
<1>1. p.slots \in Nat /\ p.waiters \in Seq(Requests) /\ p.idle \in Seq(1..n)
  BY DEF PoolRec
<1>2. p.idle # <<>> => Front(p.idle) \in Seq(1..n)
  BY <1>1, FrontLast
<1>3. p.waiters # <<>> => Tail(p.waiters) \in Seq(Requests)
  BY <1>1
<1>4. \A r \in Requests : Append(p.waiters, r) \in Seq(Requests)
  BY <1>1
<1>5. \A c \in 1..n : Append(p.idle, c) \in Seq(1..n)
  BY <1>1
<1>6. \A i \in 1..Len(p.waiters) : RemoveAt(p.waiters, i) \in Seq(Requests)
  BY <1>1 DEF RemoveAt
<1>7. p.slots + 1 \in Nat /\ (p.slots > 0 => p.slots - 1 \in Nat)
  BY <1>1
<1> USE DEF IsPool, PoolRec
<1>8. IsPool(Freed(p), n, p.slots + 1, p.idle)
  BY <1>7 DEF Freed
<1>9. p.slots > 0 => IsPool([p EXCEPT !.slots = @ - 1], n, p.slots - 1, p.idle)
  BY <1>7
<1>10. p.idle # <<>> => IsPool([p EXCEPT !.idle = Front(@)], n, p.slots, Front(p.idle))
  BY <1>2
<1>11. (p.slots > 0 /\ p.idle # <<>>) =>
         IsPool([p EXCEPT !.slots = @ - 1, !.idle = Front(@)], n, p.slots - 1, Front(p.idle))
  BY <1>2, <1>7
<1>12. \A r \in Requests : IsPool([p EXCEPT !.waiters = Append(@, r)], n, p.slots, p.idle)
  BY <1>4
<1>13. p.waiters # <<>> => IsPool([p EXCEPT !.waiters = Tail(@)], n, p.slots, p.idle)
  BY <1>3
<1>14. \A i \in 1..Len(p.waiters) :
         IsPool([p EXCEPT !.waiters = RemoveAt(@, i)], n, p.slots, p.idle)
  BY <1>6
<1>15. \A c \in 1..n :
         IsPool(Returned(p, c), n, p.slots + 1, Append(p.idle, c))
  BY <1>5, <1>7 DEF Returned
<1> QED
  BY <1>8, <1>9, <1>10, <1>11, <1>12, <1>13, <1>14, <1>15

LEMMA PoolViews ==
    ASSUME RestTypes
    PROVE  \A s \in Shards : /\ pool[s] \in PoolRec(Len(conns))
                             /\ Slots[s] = pool[s].slots /\ Idle[s] = pool[s].idle
BY DEF RestTypes, Slots, Idle

\* One pool changes.
LEMMA PoolSet ==
    ASSUME RestTypes, NEW s \in Shards, NEW p \in PoolRec(Len(conns)),
           pool' = [pool EXCEPT ![s] = p]
    PROVE  /\ Slots' = [Slots EXCEPT ![s] = p.slots] /\ Idle' = [Idle EXCEPT ![s] = p.idle]
           /\ pool' \in [Shards -> PoolRec(Len(conns))]
BY DEF RestTypes, Slots, Idle

-----------------------------------------------------------------------------
(***************************************************************************)
(* The start of an attempt of r on the pool p, after the first half of a   *)
(* retry or from the state as it is: pcs, sl and cs are the requests'      *)
(* states, the slots and the connections at that point.                    *)
(***************************************************************************)
Ready(r, pcs, sl, cs, p) ==
    /\ Inv(pcs, tried, got, sl, Idle, cs) /\ Len(cs) = Len(conns) /\ pc \in PcType
    /\ pcs[r] \in {"idle", "wait"} /\ \A q \in Requests : q # r => pcs[q] = pc[q]
    /\ sl \in SlotsType /\ \A s \in Shards : s # ShardOf[r] => sl[s] = Slots[s]
    /\ p \in PoolRec(Len(conns)) /\ p.slots = sl[ShardOf[r]] /\ p.idle = Idle[ShardOf[r]]

\* Request r moves on to v.
LEMMA ReadyPc ==
    ASSUME NEW r \in Requests, NEW pcs, NEW sl, NEW cs, NEW p, Ready(r, pcs, sl, cs, p), NEW v
    PROVE  [pc EXCEPT ![r] = v] = [pcs EXCEPT ![r] = v]
<1>1. pcs \in PcType
  BY DEF Ready, Inv, Types
<1> QED
  BY <1>1 DEF Ready, PcType

LEMMA BeginKeeps ==
    ASSUME RestTypes, NEW r \in Requests, NEW pcs, NEW sl, NEW cs, NEW p,
           Ready(r, pcs, sl, cs, p), p.slots > 0, Begin(r, p, cs)
    PROVE  KeepsInv /\ NoneAdded
<1> DEFINE s == ShardOf[r]
<1>1. /\ s \in Shards /\ Inv(pcs, tried, got, sl, Idle, cs) /\ cs \in Seq(ConnType)
      /\ Len(cs) = Len(conns) /\ got' = [got EXCEPT ![r] = <<>>] /\ sl[s] > 0
      /\ p \in PoolRec(Len(conns)) /\ pcs[r] \in {"idle", "wait"} /\ p.idle = Idle[s]
      /\ tried[r] \in Seq(1..Len(cs)) /\ Len(tried[r]) \in Nat /\ Len(conns) \in Nat
  BY PoolAssumption DEF Ready, Begin, Inv, Types
<1>2. [Slots EXCEPT ![s] = p.slots - 1] = [sl EXCEPT ![s] = @ - 1]
  BY DEF Ready, SlotsType, Slots
<1>3. ASSUME Reuse(r, p, cs)
      PROVE  KeepsInv /\ NoneAdded
  <2> DEFINE c == Last(p.idle)
             x == Written(cs[c], Messages(r, Len(tried[r]) + 1))
             p2 == [p EXCEPT !.slots = @ - 1, !.idle = Front(@)]
  <2>1. /\ p.idle # <<>> /\ pool' = [pool EXCEPT ![s] = p2]
        /\ tried' = [tried EXCEPT ![r] = Append(@, c)]
        /\ fresh' = [fresh EXCEPT ![r] = FALSE]
        /\ conns' = [cs EXCEPT ![c] = x]
        /\ pc' = [pc EXCEPT ![r] = "read"]
    BY <1>3 DEF Reuse
  <2>2. /\ p.idle \in Seq(1..Len(cs)) /\ p.slots \in Nat \ {0} /\ p.waiters \in Seq(Requests)
        /\ c \in 1..Len(cs) /\ Front(p.idle) \in Seq(1..Len(cs))
    <3>1. p.idle \in Seq(1..Len(cs)) /\ p.slots \in Nat \ {0} /\ p.waiters \in Seq(Requests)
      BY <1>1 DEF PoolRec
    <3> QED
      BY <2>1, <3>1, FrontLast
  <2>3. p2 \in PoolRec(Len(conns)) /\ p2.slots = p.slots - 1 /\ p2.idle = Front(p.idle)
    <3>1. IsPool(p2, Len(conns), p.slots - 1, Front(p.idle))
      BY <1>1, <2>1, <2>2, PoolEdit
    <3> QED
      BY <3>1 DEF IsPool
  <2> HIDE DEF p2
  <2>4. /\ Slots' = [Slots EXCEPT ![s] = p2.slots] /\ Idle' = [Idle EXCEPT ![s] = p2.idle]
        /\ pool' \in [Shards -> PoolRec(Len(conns))]
    BY <1>1, <2>1, <2>3, PoolSet
  <2>5. Slots' = [sl EXCEPT ![s] = @ - 1] /\ Popped(Idle, s, Idle')
    BY <1>1, <1>2, <2>3, <2>4 DEF Popped
  <2>6. cs[c] \in ConnType /\ Replies(cs[c]) = <<>> /\ Sent(cs[c]) = <<>>
    <3>1. Len(Idle[s]) \in 1..Len(Idle[s]) /\ c = Idle[s][Len(Idle[s])]
      BY <1>1, <2>1, <2>2, FrontLast
    <3>2. IdleInv(Idle, cs)
      BY <1>1 DEF Inv
    <3>3. Replies(cs[c]) = <<>> /\ Sent(cs[c]) = <<>>
      BY <1>1, <3>1, <3>2 DEF IdleInv
    <3> QED
      BY <1>1, <2>2, <3>3
  <2>7. Messages(r, Len(tried[r]) + 1) \in Seq(Message)
    <3>1. Len(tried[r]) + 1 \in Nat
      BY <1>1
    <3> QED
      BY <3>1, MessagesType
  <2>8. /\ x \in ConnType /\ Shard(x) = Shard(cs[c]) /\ Alive(x) = Alive(cs[c])
        /\ Replies(x) = <<>> /\ (Sent(x) = <<>> \/ Sent(x) = Messages(r, Len(tried[r]) + 1))
    BY <2>6, <2>7, WrittenConn
  <2> HIDE DEF x
  <2>9. Updated(cs, c, x, conns')
    BY <1>1, <2>1, <2>2, <2>8, UpdatedBy
  <2>10. TriedMore(tried, r, c, tried') /\ Idle[s] # <<>> /\ c = Last(Idle[s])
    BY <1>1, <2>1 DEF TriedMore
  <2>11. pc' = [pcs EXCEPT ![r] = "read"]
    BY <2>1, ReadyPc
  <2> HIDE DEF c
  <2>12. Inv(pc', tried', got', Slots', Idle', conns')
    <3>1. GotNone(got, r, got') /\ PcSet(pcs, r, "read", pc') /\ SlotLess(sl, s, Slots')
      BY <1>1, <2>5, <2>11 DEF GotNone, PcSet, SlotLess
    <3>2. Popped(Idle, s, Idle')
      BY <2>5
    <3>3. Inv(pcs, tried, got, sl, Idle, cs) /\ pcs[r] \in {"idle", "wait"} /\ sl[s] > 0
      BY <1>1
    <3> QED
      BY ONLY r \in Requests, <2>8, <2>9, <2>10, <3>1, <3>2, <3>3, ReuseKeeps
  <2>13. RestTypes'
    <3>1. Len(conns') = Len(conns)
      BY <1>1, <2>9 DEF Updated
    <3> QED
      BY <2>1, <2>4, <3>1 DEF RestTypes
  <2>14. NoneAdded
    BY <1>1, <2>4, <2>10 DEF NoneAdded, Idle
  <2> QED
    BY <2>12, <2>13, <2>14 DEF KeepsInv
<1>4. ASSUME p.idle = <<>>, Connect(r, p, cs)
      PROVE  KeepsInv /\ NoneAdded
  <2> DEFINE p2 == [p EXCEPT !.slots = @ - 1]
  <2>1. /\ pool' = [pool EXCEPT ![s] = p2]
        /\ tried' = tried /\ conns' = cs
        /\ fresh' = [fresh EXCEPT ![r] = TRUE]
        /\ pc' = [pc EXCEPT ![r] = "connect"]
    BY <1>4 DEF Connect
  <2>2. p2 \in PoolRec(Len(conns)) /\ p2.slots = p.slots - 1 /\ p2.idle = p.idle
    <3>1. IsPool(p2, Len(conns), p.slots - 1, p.idle)
      BY <1>1, PoolEdit
    <3> QED
      BY <3>1 DEF IsPool
  <2> HIDE DEF p2
  <2>3. /\ Slots' = [Slots EXCEPT ![s] = p2.slots] /\ Idle' = [Idle EXCEPT ![s] = p2.idle]
        /\ pool' \in [Shards -> PoolRec(Len(conns))]
    BY <1>1, <2>1, <2>2, PoolSet
  <2>4. Slots' = [sl EXCEPT ![s] = @ - 1] /\ Idle' = Idle
    BY <1>1, <1>2, <2>2, <2>3 DEF Idle
  <2>5. pc' = [pcs EXCEPT ![r] = "connect"]
    BY <2>1, ReadyPc
  <2>6. Inv(pc', tried, got', Slots', Idle, cs)
    BY ONLY r \in Requests, <1>1, <1>4, <2>4, <2>5, ConnectKeeps
  <2>7. RestTypes'
    BY <1>1, <2>1, <2>3 DEF RestTypes
  <2> QED
    BY <2>1, <2>4, <2>6, <2>7 DEF KeepsInv, NoneAdded
<1> QED
  BY <1>3, <1>4 DEF Begin

LEMMA AcquireKeeps ==
    ASSUME RestTypes, NEW r \in Requests, NEW pcs, NEW sl, NEW cs, NEW p,
           Ready(r, pcs, sl, cs, p), Acquire(r, p, cs)
    PROVE  KeepsInv /\ NoneAdded
<1> DEFINE s == ShardOf[r]
           p2 == [p EXCEPT !.waiters = Append(@, r)]
<1>1. CASE p.slots > 0 /\ Begin(r, p, cs)
  BY <1>1, BeginKeeps
<1>2. CASE /\ pool' = [pool EXCEPT ![s] = p2]
           /\ pc' = [pc EXCEPT ![r] = "wait"] /\ conns' = cs
           /\ UNCHANGED <<tried, fresh, got>>
  <2>1. /\ s \in Shards /\ Inv(pcs, tried, got, sl, Idle, cs) /\ Len(cs) = Len(conns)
        /\ p \in PoolRec(Len(conns)) /\ pcs[r] \in {"idle", "wait"} /\ p.idle = Idle[s]
        /\ Len(conns) \in Nat
    BY PoolAssumption DEF Ready, Inv, Types
  <2>2. p2 \in PoolRec(Len(conns)) /\ p2.slots = p.slots /\ p2.idle = p.idle
    <3>1. IsPool(p2, Len(conns), p.slots, p.idle)
      BY <2>1, PoolEdit
    <3> QED
      BY <3>1 DEF IsPool
  <2> HIDE DEF p2
  <2>3. /\ Slots' = [Slots EXCEPT ![s] = p2.slots] /\ Idle' = [Idle EXCEPT ![s] = p2.idle]
        /\ pool' \in [Shards -> PoolRec(Len(conns))]
    BY <1>2, <2>1, <2>2, PoolSet
  <2>4. Slots' = sl /\ Idle' = Idle
    <3>1. Idle' = Idle
      BY <2>1, <2>2, <2>3 DEF Idle
    <3>2. [Slots EXCEPT ![s] = sl[s]] = sl
      BY DEF Ready, SlotsType, Slots
    <3> QED
      BY <2>2, <2>3, <3>1, <3>2 DEF Ready
  <2>5. pc' = [pcs EXCEPT ![r] = "wait"]
    BY <1>2, ReadyPc
  <2>6. Inv(pc', tried, got, sl, Idle, cs)
    BY ONLY r \in Requests, <2>1, <2>5, WaitKeeps
  <2>7. RestTypes'
    BY <1>2, <2>1, <2>3 DEF RestTypes
  <2> QED
    BY <1>2, <2>4, <2>6, <2>7 DEF KeepsInv, NoneAdded
<1> QED
  BY <1>1, <1>2 DEF Acquire

\* The state as it is.
LEMMA ReadyNow ==
    ASSUME IInv, NEW r \in Requests, pc[r] \in {"idle", "wait"}, NEW p,
           IsPool(p, Len(conns), pool[ShardOf[r]].slots, pool[ShardOf[r]].idle)
    PROVE  Ready(r, pc, Slots, conns, p)
<1>1. ShardOf[r] \in Shards /\ RestTypes
  BY PoolAssumption DEF IInv
<1>2. Slots[ShardOf[r]] = pool[ShardOf[r]].slots /\ Idle[ShardOf[r]] = pool[ShardOf[r]].idle
  BY <1>1, PoolViews
<1>3. Slots \in SlotsType /\ pc \in PcType
  BY DEF IInv, Inv, Types, SlotsType
<1> QED
  BY <1>2, <1>3 DEF Ready, IInv, IsPool

LEMMA CallKeeps ==
    ASSUME IInv, NEW r \in Requests, Call(r)
    PROVE  KeepsInv /\ NoneAdded
<1>1. pool[ShardOf[r]] \in PoolRec(Len(conns))
  BY PoolAssumption, PoolViews DEF IInv
<1>2. Ready(r, pc, Slots, conns, pool[ShardOf[r]])
  BY <1>1, ReadyNow DEF Call, IsPool
<1> QED
  BY <1>2, AcquireKeeps DEF Call, IInv

LEMMA GrantedKeeps ==
    ASSUME IInv, NEW r \in Requests, Granted(r)
    PROVE  KeepsInv /\ NoneAdded
<1> DEFINE p == pool[ShardOf[r]]
           p2 == [p EXCEPT !.waiters = Tail(@)]
<1>1. p \in PoolRec(Len(conns)) /\ Len(conns) \in Nat
  BY PoolAssumption, PoolViews DEF IInv, Inv, Types
<1>2. pc[r] = "wait" /\ p.slots > 0 /\ p.waiters # <<>> /\ Begin(r, p2, conns)
  BY DEF Granted
<1>3. IsPool(p2, Len(conns), p.slots, p.idle)
  BY <1>1, <1>2, PoolEdit
<1> HIDE DEF p2
<1>4. Ready(r, pc, Slots, conns, p2) /\ p2.slots > 0
  BY <1>2, <1>3, ReadyNow DEF IsPool
<1> QED
  BY <1>2, <1>4, BeginKeeps DEF IInv

-----------------------------------------------------------------------------
(***************************************************************************)
(* The ways out of an attempt.                                             *)
(***************************************************************************)
LEMMA DroppedBy ==
    ASSUME IInv, NEW r \in Requests, pc[r] \in Active
    PROVE  ClosedBy(pc, tried, conns, r, Dropped(r))
<1>1. Inv(pc, tried, got, Slots, Idle, conns) /\ conns \in Seq(ConnType)
  BY DEF IInv, Inv, Types
<1>2. CASE pc[r] = "connect"
  BY <1>1, <1>2 DEF ClosedBy, Dropped, InUse
<1>3. CASE pc[r] # "connect"
  <2> DEFINE c == Last(tried[r])
             x == Shut(conns[c])
  <2>1. pc[r] \in InUse /\ Dropped(r) = [conns EXCEPT ![c] = x]
    BY <1>3 DEF Active, InUse, Dropped, Mine
  <2>2. c \in 1..Len(conns) /\ conns[c] \in ConnType
    BY <1>1, <2>1, OwnConn
  <2>3. x \in ConnType /\ Shard(x) = Shard(conns[c]) /\ ~Open(x) /\ Alive(x) = Alive(conns[c])
    BY <2>2, ShutConn
  <2> HIDE DEF x, c
  <2>4. Updated(conns, c, x, Dropped(r))
    BY <1>1, <2>1, <2>2, <2>3, UpdatedBy
  <2> QED
    BY <2>1, <2>3, <2>4 DEF ClosedBy, Updated, c
<1> QED
  BY <1>2, <1>3

LEMMA GiveUpKeeps ==
    ASSUME IInv, NEW r \in Requests, pc[r] \in Active, NEW how \in {"failed", "cancelled"},
           GiveUp(r, how)
    PROVE  KeepsInv /\ NoneAdded
<1> DEFINE s == ShardOf[r]
<1>1. /\ s \in Shards /\ Inv(pc, tried, got, Slots, Idle, conns) /\ RestTypes
      /\ pool[s] \in PoolRec(Len(conns)) /\ Len(conns) \in Nat /\ got \in GotType
  BY PoolAssumption, PoolViews DEF IInv, Inv, Types
<1>2. /\ pc' = [pc EXCEPT ![r] = how] /\ pool' = [pool EXCEPT ![s] = Freed(pool[s])]
      /\ conns' = Dropped(r) /\ tried' = tried /\ fresh' = fresh /\ got' = got
  BY DEF GiveUp
<1>3. /\ Freed(pool[s]) \in PoolRec(Len(conns)) /\ Freed(pool[s]).slots = pool[s].slots + 1
      /\ Freed(pool[s]).idle = pool[s].idle
  BY <1>1, PoolEdit DEF IsPool
<1>4. /\ Slots' = [Slots EXCEPT ![s] = pool[s].slots + 1]
      /\ Idle' = [Idle EXCEPT ![s] = pool[s].idle] /\ pool' \in [Shards -> PoolRec(Len(conns))]
  <2>1. /\ Slots' = [Slots EXCEPT ![s] = Freed(pool[s]).slots]
        /\ Idle' = [Idle EXCEPT ![s] = Freed(pool[s]).idle]
        /\ pool' \in [Shards -> PoolRec(Len(conns))]
    BY <1>1, <1>2, <1>3, PoolSet
  <2> QED
    BY <1>3, <2>1
<1>5. Slots' = [Slots EXCEPT ![s] = @ + 1] /\ Idle' = Idle
  BY <1>1, <1>4, PoolViews DEF Slots, Idle
<1>6. ClosedBy(pc, tried, conns, r, conns')
  BY <1>2, DroppedBy
<1>7. Inv(pc', tried, got, Slots', Idle, conns')
  <2>1. how \in Ended \cup {"wait"} /\ how # "wait" /\ how # "done"
    BY DEF Ended
  <2>2. GotSame(got, r, got) /\ PcSet(pc, r, how, pc') /\ SlotMore(Slots, s, Slots')
    BY <1>1, <1>2, <1>5 DEF GotSame, PcSet, SlotMore
  <2> QED
    BY ONLY r \in Requests, pc[r] \in Active, <1>1, <1>6, <2>1, <2>2, DropKeeps
<1>8. RestTypes'
  <2>1. Len(conns') = Len(conns)
    BY <1>6 DEF ClosedBy
  <2> QED
    BY <1>1, <1>2, <1>4, <2>1 DEF RestTypes
<1> QED
  BY <1>2, <1>5, <1>7, <1>8 DEF KeepsInv, NoneAdded

LEMMA RetryKeeps ==
    ASSUME IInv, NEW r \in Requests, pc[r] = "read", conns[Mine(r)].status # "up", Retry(r)
    PROVE  KeepsInv /\ NoneAdded
<1> DEFINE s == ShardOf[r]
           pcs == [pc EXCEPT ![r] = "wait"]
           sl == [Slots EXCEPT ![s] = @ + 1]
<1>1. /\ s \in Shards /\ Inv(pc, tried, got, Slots, Idle, conns) /\ RestTypes
      /\ pool[s] \in PoolRec(Len(conns)) /\ Len(conns) \in Nat /\ got \in GotType
      /\ pc \in PcType /\ Slots \in [Shards -> Nat]
  BY PoolAssumption, PoolViews DEF IInv, Inv, Types
<1>2. pc[r] \in Active /\ pc[r] \in InUse /\ ~Alive(conns[Last(tried[r])])
  BY DEF Active, InUse, Mine, Alive
<1>3. ClosedBy(pc, tried, conns, r, Dropped(r))
  BY <1>2, DroppedBy
<1>4. Inv(pcs, tried, got, sl, Idle, Dropped(r))
  <2>1. GotSame(got, r, got) /\ PcSet(pc, r, "wait", pcs) /\ SlotMore(Slots, s, sl)
    BY <1>1 DEF GotSame, PcSet, SlotMore
  <2> HIDE DEF pcs, sl
  <2> QED
    BY <1>1, <1>2, <1>3, <2>1, DropKeeps
<1>5. IsPool(Freed(pool[s]), Len(conns), pool[s].slots + 1, pool[s].idle)
  BY <1>1, PoolEdit
<1>6. Slots[s] = pool[s].slots /\ Idle[s] = pool[s].idle
  BY <1>1, PoolViews
<1>7. /\ pcs[r] \in {"idle", "wait"} /\ \A q \in Requests : q # r => pcs[q] = pc[q]
      /\ sl \in SlotsType /\ sl[s] = pool[s].slots + 1
      /\ \A t \in Shards : t # s => sl[t] = Slots[t]
  BY <1>1, <1>6 DEF PcType, SlotsType
<1> HIDE DEF pcs, sl
<1>8. Ready(r, pcs, sl, Dropped(r), Freed(pool[s]))
  BY <1>1, <1>3, <1>4, <1>5, <1>6, <1>7 DEF Ready, ClosedBy, IsPool
<1> QED
  BY <1>1, <1>8, AcquireKeeps DEF Retry

LEMMA BrokenKeeps ==
    ASSUME IInv, NEW r \in Requests, Broken(r)
    PROVE  KeepsInv /\ NoneAdded
<1>1. pc[r] = "read" /\ pc[r] \in Active /\ conns[Mine(r)].status # "up"
  BY DEF Broken, Active
<1>2. CASE GiveUp(r, "failed")
  BY <1>1, <1>2, GiveUpKeeps
<1>3. CASE Retry(r)
  BY <1>1, <1>3, RetryKeeps
<1> QED
  BY <1>2, <1>3 DEF Broken

LEMMA CancelKeeps ==
    ASSUME IInv, NEW r \in Requests, Cancel(r)
    PROVE  KeepsInv /\ NoneAdded
<1> DEFINE s == ShardOf[r]
<1>1. CASE pc[r] \in Active /\ GiveUp(r, "cancelled")
  BY <1>1, GiveUpKeeps
<1>2. CASE pc[r] = "wait"
  <2>1. /\ s \in Shards /\ Inv(pc, tried, got, Slots, Idle, conns) /\ RestTypes
        /\ pool[s] \in PoolRec(Len(conns)) /\ Len(conns) \in Nat
        /\ Slots \in [Shards -> Nat] /\ Idle[s] = pool[s].idle /\ Slots[s] = pool[s].slots
    BY PoolAssumption, PoolViews DEF IInv, Inv, Types
  <2>2. /\ pc' = [pc EXCEPT ![r] = "cancelled"]
        /\ tried' = tried /\ fresh' = fresh /\ got' = got /\ conns' = conns
        /\ \E i \in 1..Len(pool[s].waiters) :
              pool' = [pool EXCEPT ![s].waiters = RemoveAt(@, i)]
    BY <1>2 DEF Cancel, Active
  <2>3. PICK i \in 1..Len(pool[s].waiters) : pool' = [pool EXCEPT ![s].waiters = RemoveAt(@, i)]
    BY <2>2
  <2> DEFINE p == [pool[s] EXCEPT !.waiters = RemoveAt(@, i)]
  <2>4. pool' = [pool EXCEPT ![s] = p]
    BY <2>3
  <2>5. IsPool(p, Len(conns), pool[s].slots, pool[s].idle)
    BY <2>1, PoolEdit
  <2> HIDE DEF p
  <2>6. p \in PoolRec(Len(conns)) /\ p.slots = Slots[s] /\ p.idle = Idle[s]
    BY <2>1, <2>5 DEF IsPool
  <2>7. /\ Slots' = [Slots EXCEPT ![s] = p.slots] /\ Idle' = [Idle EXCEPT ![s] = p.idle]
        /\ pool' \in [Shards -> PoolRec(Len(conns))]
    BY <2>1, <2>4, <2>6, PoolSet
  <2>8. Slots' = Slots /\ Idle' = Idle
    BY <2>1, <2>6, <2>7 DEF Slots, Idle
  <2>9. Inv(pc', tried, got, Slots, Idle, conns)
    BY <1>2, <2>1, <2>2, WaitKeeps
  <2>10. RestTypes'
    BY <2>1, <2>2, <2>7 DEF RestTypes
  <2> QED
    BY <2>2, <2>8, <2>9, <2>10 DEF KeepsInv, NoneAdded
<1> QED
  BY <1>1, <1>2 DEF Cancel

-----------------------------------------------------------------------------
(***************************************************************************)
(* _connect and read_reply.                                                *)
(***************************************************************************)
LEMMA ConnectedInv ==
    ASSUME IInv, NEW r \in Requests, Connected(r)
    PROVE  KeepsInv /\ NoneAdded
<1> DEFINE n == Len(tried[r]) + 1
           first == IF Password THEN <<<<r, n, 0>>>> ELSE Messages(r, n)
           x == Written(Conn(ShardOf[r]), first)
           p == IF Password THEN "auth" ELSE "read"
           c == Len(conns) + 1
<1>1. /\ Inv(pc, tried, got, Slots, Idle, conns) /\ RestTypes /\ conns \in Seq(ConnType)
      /\ n \in Nat /\ ShardOf[r] \in Shards /\ Len(conns) \in Nat /\ Password \in BOOLEAN
  BY PoolAssumption DEF IInv, Inv, Types
<1>2. /\ pc[r] = "connect" /\ conns' = Append(conns, x)
      /\ tried' = [tried EXCEPT ![r] = Append(@, c)]
      /\ pc' = [pc EXCEPT ![r] = p]
      /\ fresh' = fresh /\ got' = got /\ pool' = pool
  BY DEF Connected
<1>3. first \in Seq(Message) /\ (Password => Len(first) = 1) /\ (~Password => first = Messages(r, n))
  <2>1. CASE Password
    <3>1. <<r, n, 0>> \in Message
      BY <1>1 DEF Message
    <3> QED
      BY <2>1, <3>1
  <2>2. CASE ~Password
    BY <1>1, <2>2, MessagesType
  <2> QED
    BY <2>1, <2>2
<1>4. Conn(ShardOf[r]) \in ConnType /\ Sent(Conn(ShardOf[r])) = <<>> /\ Alive(Conn(ShardOf[r]))
      /\ Shard(Conn(ShardOf[r])) = ShardOf[r] /\ Replies(Conn(ShardOf[r])) = <<>>
  BY <1>1 DEF Conn, ConnType, Sent, Alive, Shard, Replies
<1> HIDE DEF first
<1>5. x \in ConnType /\ Shard(x) = ShardOf[r] /\ Replies(x) = <<>> /\ Sent(x) = first
  BY <1>3, <1>4, WrittenConn
<1> HIDE DEF x
<1>6. Opened(conns, x, conns')
  BY <1>1, <1>2, <1>5, AppendProperties DEF Opened
<1>7. /\ p \in InUse /\ (p = "auth" => Len(Sent(x)) = 1) /\ (p = "read" => Sent(x) = Messages(r, n))
  BY <1>1, <1>3, <1>5 DEF InUse
<1> HIDE DEF p, c
<1>8. TriedMore(tried, r, c, tried') /\ PcSet(pc, r, p, pc') /\ c = Len(conns) + 1
  BY <1>2 DEF TriedMore, PcSet, c
<1>9. Inv(pc', tried', got, Slots, Idle, conns')
  BY ONLY r \in Requests, <1>1, <1>2, <1>5, <1>6, <1>7, <1>8, ConnectedKeeps
<1>10. RestTypes'
  <2>1. Len(conns') = Len(conns) + 1 /\ 1..Len(conns) \subseteq 1..Len(conns')
    BY <1>1, <1>6 DEF Opened
  <2>2. Seq(1..Len(conns)) \subseteq Seq(1..Len(conns'))
    BY <2>1, SeqMonotonic
  <2>3. PoolRec(Len(conns)) \subseteq PoolRec(Len(conns'))
    BY <2>2 DEF PoolRec
  <2> QED
    BY <1>1, <1>2, <2>3 DEF RestTypes
<1>11. Slots' = Slots /\ Idle' = Idle
  BY <1>2 DEF Slots, Idle
<1> QED
  BY <1>2, <1>9, <1>10, <1>11 DEF KeepsInv, NoneAdded

\* A reply has been read.
LEMMA TailConn ==
    ASSUME NEW y \in ConnType, Replies(y) # <<>>, NEW x, x = Consumed(y)
    PROVE  /\ x \in ConnType /\ Shard(x) = Shard(y) /\ Open(x) = Open(y) /\ Alive(x) = Alive(y)
           /\ Replies(x) = Tail(Replies(y)) /\ Sent(x) = Sent(y)
<1>1. y.replies \in Seq(Message)
  BY DEF ConnType
<1>2. Tail(y.replies) \in Seq(Message)
  BY <1>1 DEF Replies
<1> QED
  BY <1>2 DEF Consumed, ConnType, Shard, Open, Alive, Replies, Sent

\* With one message under way and a reply to read there is nothing else.
LEMMA OnlyReply ==
    ASSUME NEW re \in Seq(Message), NEW se \in Seq(Message), re # <<>>, Len(re) + Len(se) <= 1
    PROVE  Tail(re) = <<>> /\ se = <<>>
<1>1. Len(re) \in Nat \ {0} /\ Len(se) \in Nat
  BY EmptySeq
<1>2. Len(re) = 1 /\ Len(se) = 0
  <2>1. \A a \in Nat \ {0}, b \in Nat : a + b <= 1 => a = 1 /\ b = 0
    OBVIOUS
  <2> QED
    BY <1>1, <2>1
<1>3. Tail(re) \in Seq(Message) /\ Len(Tail(re)) = 0
  BY <1>2
<1> QED
  BY <1>2, <1>3, EmptySeq

LEMMA AuthenticatedInv ==
    ASSUME IInv, NEW r \in Requests, Authenticated(r)
    PROVE  KeepsInv /\ NoneAdded
<1> DEFINE c == Last(tried[r])
           y == Consumed(conns[c])
           m == Messages(r, Len(tried[r]))
           x == Written(y, m)
<1>1. Inv(pc, tried, got, Slots, Idle, conns) /\ RestTypes /\ conns \in Seq(ConnType)
  BY DEF IInv, Inv, Types
<1>2. /\ pc[r] = "auth" /\ pc[r] \in InUse /\ Replies(conns[c]) # <<>>
      /\ conns' = [conns EXCEPT ![c] = x] /\ pc' = [pc EXCEPT ![r] = "read"]
      /\ tried' = tried /\ fresh' = fresh /\ got' = got /\ pool' = pool
  <2>1. /\ pc[r] = "auth" /\ Replies(conns[c]) # <<>> /\ pc' = [pc EXCEPT ![r] = "read"]
        /\ tried' = tried /\ fresh' = fresh /\ got' = got /\ pool' = pool
    BY DEF Authenticated, Mine, Replies
  <2>2. conns' = [conns EXCEPT ![c] = x]
    BY DEF Authenticated, Mine
  <2> QED
    BY <2>1, <2>2 DEF InUse
<1>3. c \in 1..Len(conns) /\ conns[c] \in ConnType /\ Len(tried[r]) \in Nat
  BY <1>1, <1>2, OwnConn
<1>4. Replies(conns[c]) \in Seq(Message) /\ Sent(conns[c]) \in Seq(Message)
  BY <1>3 DEF ConnType, Replies, Sent
<1>5. Len(Replies(conns[c])) + Len(Sent(conns[c])) <= 1
  BY <1>1, <1>2 DEF Inv, ReplyInv
<1>6. Tail(Replies(conns[c])) = <<>> /\ Sent(conns[c]) = <<>>
  BY <1>2, <1>4, <1>5, OnlyReply
<1>7. /\ y \in ConnType /\ Shard(y) = Shard(conns[c]) /\ Open(y) = Open(conns[c])
      /\ Alive(y) = Alive(conns[c]) /\ Replies(y) = <<>> /\ Sent(y) = <<>>
  BY <1>2, <1>3, <1>6, TailConn
<1> HIDE DEF y
<1>8. m \in Seq(Message)
  BY <1>3, MessagesType
<1> HIDE DEF m
<1>9. /\ x \in ConnType /\ Shard(x) = Shard(conns[c]) /\ Open(x) = Open(conns[c])
      /\ Alive(x) = Alive(conns[c]) /\ Replies(x) = <<>> /\ (Sent(x) = <<>> \/ Sent(x) = m)
  BY <1>7, <1>8, WrittenConn
<1> HIDE DEF x
<1>10. Updated(conns, c, x, conns')
  BY <1>1, <1>2, <1>3, <1>9, UpdatedBy
<1>11. Inv(pc', tried, got, Slots, Idle, conns')
  <2>1. Sent(x) = <<>> \/ Sent(x) = Messages(r, Len(tried[r]))
    BY <1>9 DEF m
  <2>2. Inv([pc EXCEPT ![r] = "read"], tried, got, Slots, Idle, conns')
    BY <1>1, <1>2, <1>9, <1>10, <2>1, AuthKeeps
  <2> QED
    BY <1>2, <2>2
<1>12. Slots' = Slots /\ Idle' = Idle /\ Len(conns') = Len(conns)
  BY <1>2, <1>10 DEF Slots, Idle, Updated
<1>13. RestTypes'
  BY <1>1, <1>2, <1>12 DEF RestTypes
<1> QED
  BY <1>2, <1>11, <1>12, <1>13 DEF KeepsInv, NoneAdded

\* A pool that gets an idle connection got it before close() was called.
AddedOpen == \A s \in Shards : Idle'[s] # <<>> => Idle[s] # <<>> \/ (~closed /\ \E r \in Requests :
                                                         pc[r] = "read" /\ ShardOf[r] = s)

LEMMA ReadReplyInv ==
    ASSUME IInv, NEW r \in Requests, ReadReply(r)
    PROVE  KeepsInv /\ AddedOpen
<1> DEFINE c == Last(tried[r])
           s == ShardOf[r]
           x == Consumed(conns[c])
<1>1. /\ Inv(pc, tried, got, Slots, Idle, conns) /\ RestTypes /\ conns \in Seq(ConnType)
      /\ s \in Shards /\ pool[s] \in PoolRec(Len(conns)) /\ Len(conns) \in Nat
      /\ got \in GotType /\ got[r] \in Seq(Message)
  BY PoolAssumption, PoolViews DEF IInv, Inv, Types, GotType
<1>2. /\ pc[r] = "read" /\ pc[r] \in InUse /\ pc[r] \in Active /\ Replies(conns[c]) # <<>>
      /\ tried' = tried /\ fresh' = fresh
  BY DEF ReadReply, Mine, Replies, InUse, Active
<1>11. got' = [got EXCEPT ![r] = Append(@, Head(Replies(conns[c])))]
  BY DEF ReadReply, Mine, Replies
<1>3. c \in 1..Len(conns) /\ conns[c] \in ConnType /\ Len(tried[r]) \in Nat
  BY <1>1, <1>2, OwnConn
<1>4. Replies(conns[c]) \in Seq(Message) /\ Sent(conns[c]) \in Seq(Message)
  BY <1>3 DEF ConnType, Replies, Sent
<1>5. InOrder(r, Len(tried[r]), got[r], Replies(conns[c]), Sent(conns[c]))
  BY <1>1, <1>2 DEF Inv, ReplyInv
<1>6. /\ x \in ConnType /\ Shard(x) = Shard(conns[c]) /\ Open(x) = Open(conns[c])
      /\ Alive(x) = Alive(conns[c]) /\ Replies(x) = Tail(Replies(conns[c]))
      /\ Sent(x) = Sent(conns[c])
  BY <1>2, <1>3, TailConn
<1>7. /\ got'[r] = Append(got[r], Head(Replies(conns[c]))) /\ got' \in GotType
      /\ \A q \in Requests : q # r => got'[q] = got[q]
  <2>1. Append(got[r], Head(Replies(conns[c]))) \in Seq(Message)
    BY <1>1, <1>2, <1>4
  <2> QED
    BY <1>1, <1>11, <2>1 DEF GotType
<1>8. /\ Len(got[r]) + 1 = Batch[r] =>
            got'[r] = Messages(r, Len(tried[r])) /\ Replies(x) = <<>> /\ Sent(x) = <<>>
      /\ Len(got'[r]) = Len(got[r]) + 1
  <2> HIDE DEF x, c
  <2>1. got[r] \in Seq(Message) /\ Replies(conns[c]) # <<>>
    BY <1>1, <1>2
  <2>2. Len(got[r]) + 1 = Batch[r] =>
              /\ Append(got[r], Head(Replies(conns[c]))) = Messages(r, Len(tried[r]))
              /\ Tail(Replies(conns[c])) = <<>> /\ Sent(conns[c]) = <<>>
    <3>1. LastRead(r, Len(tried[r]), got[r], Replies(conns[c]), Sent(conns[c]))
      BY <1>3, <1>4, <1>5, <2>1, ReadOrder
    <3> QED
      BY <3>1 DEF LastRead
  <2>3. Len(Append(got[r], Head(Replies(conns[c])))) = Len(got[r]) + 1
    BY <2>1
  <2> QED
    BY <1>6, <1>7, <2>2, <2>3
<1>9. CASE /\ Len(got'[r]) < Batch[r] /\ conns' = [conns EXCEPT ![c] = x]
           /\ pc' = pc /\ pool' = pool
  <2> HIDE DEF x
  <2>1. Updated(conns, c, x, conns')
    BY <1>1, <1>3, <1>6, <1>9, UpdatedBy
  <2>2. Len(got[r]) + 1 < Batch[r]
    BY <1>8, <1>9
  <2>3. Inv(pc, tried, got', Slots, Idle, conns')
    <3>1. Inv(pc, tried, got, Slots, Idle, conns) /\ pc[r] = "read" /\ Replies(conns[c]) # <<>>
      BY <1>1, <1>2
    <3> HIDE DEF c
    <3>2. c = Last(tried[r])
      BY DEF c
    <3> QED
      BY ONLY r \in Requests, <1>6, <1>7, <2>1, <2>2, <3>1, <3>2, ReadKeeps
  <2>4. Slots' = Slots /\ Idle' = Idle /\ Len(conns') = Len(conns)
    BY <1>9, <2>1 DEF Slots, Idle, Updated
  <2>5. RestTypes'
    BY <1>1, <1>2, <1>9, <2>4 DEF RestTypes
  <2> QED
    BY <1>2, <1>9, <2>3, <2>4, <2>5 DEF KeepsInv, AddedOpen
<1>10. CASE Len(got'[r]) = Batch[r] /\ pc' = [pc EXCEPT ![r] = "done"] /\ Answered(r, x)
  <2> HIDE DEF x
  <2>1. got'[r] = Messages(r, Len(tried[r])) /\ Replies(x) = <<>> /\ Sent(x) = <<>>
    BY <1>8, <1>10
  <2>4. /\ Inv(pc, tried, got, Slots, Idle, conns)
        /\ GotSame(got, r, got') /\ PcSet(pc, r, "done", pc')
    BY <1>1, <1>7, <1>10 DEF GotSame, PcSet
  <2>2. CASE /\ ~closed /\ conns' = [conns EXCEPT ![c] = x]
             /\ pool' = [pool EXCEPT ![s] = Returned(@, c)]
    <3> DEFINE p == Returned(pool[s], c)
    <3>1. pool' = [pool EXCEPT ![s] = p]
      BY <2>2
    <3>2. IsPool(p, Len(conns), pool[s].slots + 1, Append(pool[s].idle, c))
      BY <1>1, <1>3, PoolEdit
    <3> HIDE DEF p
    <3>3. /\ Slots' = [Slots EXCEPT ![s] = p.slots] /\ Idle' = [Idle EXCEPT ![s] = p.idle]
          /\ pool' \in [Shards -> PoolRec(Len(conns))]
      BY <1>1, <3>1, <3>2, PoolSet DEF IsPool
    <3>4. /\ Slots' = [Slots EXCEPT ![s] = @ + 1] /\ Idle' = [Idle EXCEPT ![s] = Append(@, c)]
      BY <1>1, <3>2, <3>3, PoolViews DEF IsPool, Slots, Idle
    <3>5. Updated(conns, c, x, conns')
      BY <1>1, <1>3, <1>6, <2>2, UpdatedBy
    <3> HIDE DEF c
    <3>6. Inv(pc', tried, got', Slots', Idle', conns')
      <4>1. c = Last(tried[r])
        BY DEF c
      <4>2. SlotMore(Slots, s, Slots') /\ Pushed(Idle, s, c, Idle') /\ pc[r] = "read"
        BY <1>2, <3>4 DEF SlotMore, Pushed
      <4> QED
        BY ONLY r \in Requests, <1>6, <2>1, <2>4, <3>5, <4>1, <4>2, ReturnKeeps
    <3>7. RestTypes'
      BY <1>1, <1>2, <3>3, <3>5 DEF RestTypes, Updated
    <3>8. AddedOpen
      BY <1>1, <1>2, <2>2, <3>3 DEF AddedOpen, Idle
    <3> QED
      BY <1>2, <3>6, <3>7, <3>8 DEF KeepsInv
  <2>3. CASE /\ closed /\ conns' = [conns EXCEPT ![c] = Shut(x)]
             /\ pool' = [pool EXCEPT ![s] = Freed(@)]
    <3> DEFINE p == Freed(pool[s])
    <3>1. pool' = [pool EXCEPT ![s] = p]
      BY <2>3
    <3>2. IsPool(p, Len(conns), pool[s].slots + 1, pool[s].idle)
      BY <1>1, PoolEdit
    <3> HIDE DEF p
    <3>3. /\ Slots' = [Slots EXCEPT ![s] = p.slots] /\ Idle' = [Idle EXCEPT ![s] = p.idle]
          /\ pool' \in [Shards -> PoolRec(Len(conns))]
      BY <1>1, <3>1, <3>2, PoolSet DEF IsPool
    <3>4. Slots' = [Slots EXCEPT ![s] = @ + 1] /\ Idle' = Idle
      <4>1. p.slots = Slots[s] + 1 /\ p.idle = Idle[s]
        BY <1>1, <3>2, PoolViews DEF IsPool
      <4>2. Slots' = [Slots EXCEPT ![s] = @ + 1]
        BY <3>3, <4>1
      <4>3. Idle' = Idle
        BY <1>1, <3>3, <4>1 DEF Idle
      <4> QED
        BY <4>2, <4>3
    <3> DEFINE z == Shut(x)
    <3>5. /\ z \in ConnType /\ Shard(z) = Shard(conns[c]) /\ ~Open(z)
          /\ Alive(z) = Alive(conns[c])
      BY <1>6, ShutConn
    <3> HIDE DEF z
    <3>6. Updated(conns, c, z, conns')
      BY <1>1, <1>3, <2>3, <3>5, UpdatedBy DEF z
    <3>7. ClosedBy(pc, tried, conns, r, conns')
      BY <1>2, <3>5, <3>6 DEF ClosedBy, Updated
    <3>10. SlotMore(Slots, s, Slots')
      BY <3>4 DEF SlotMore
    <3>8. Inv(pc', tried, got', Slots', Idle, conns')
      <4>1. "done" \in Ended \cup {"wait"}
        BY DEF Ended
      <4> QED
        BY ONLY r \in Requests, <1>2, <2>1, <2>4, <3>7, <3>10, <4>1, DropKeeps
    <3>9. RestTypes'
      BY <1>1, <1>2, <3>3, <3>7 DEF RestTypes, ClosedBy
    <3> QED
      BY <1>2, <3>4, <3>8, <3>9 DEF KeepsInv, AddedOpen
  <2> QED
    BY <1>10, <2>2, <2>3 DEF Answered, Mine
<1> QED
  BY <1>9, <1>10 DEF ReadReply, Mine

-----------------------------------------------------------------------------
(***************************************************************************)
(* What a shard does.                                                      *)
(***************************************************************************)
\* The shard executes and answers a command.
LEMMA ExecutedInv ==
    ASSUME IInv, NEW c \in 1..Len(conns), Execute(c),
           conns' = [conns EXCEPT ![c] = Executed(conns[c])]
    PROVE  KeepsInv /\ NoneAdded
<1> DEFINE x == Executed(conns[c])
<1>1. /\ Inv(pc, tried, got, Slots, Idle, conns) /\ RestTypes /\ conns \in Seq(ConnType)
      /\ conns[c] \in ConnType
  BY DEF IInv, Inv, Types
<1>2. /\ Sent(conns[c]) # <<>> /\ conns' = [conns EXCEPT ![c] = x]
      /\ pc' = pc /\ tried' = tried /\ fresh' = fresh /\ got' = got /\ pool' = pool
  BY DEF Execute, Sent, reqVars
<1>3. /\ x \in ConnType /\ Shard(x) = Shard(conns[c]) /\ Open(x) = Open(conns[c])
      /\ Alive(x) = Alive(conns[c]) /\ Sent(x) = Tail(Sent(conns[c]))
      /\ Replies(x) = Append(Replies(conns[c]), Head(Sent(conns[c])))
  <2>1. conns[c].sent \in Seq(Message) /\ conns[c].replies \in Seq(Message)
    BY <1>1 DEF ConnType
  <2>2. /\ Tail(conns[c].sent) \in Seq(Message)
        /\ Append(conns[c].replies, Head(conns[c].sent)) \in Seq(Message)
    BY <1>2, <2>1 DEF Sent
  <2> QED
    BY <1>1, <2>2 DEF Executed, ConnType, Shard, Open, Alive, Sent, Replies
<1> HIDE DEF x
<1>4. Updated(conns, c, x, conns')
  BY <1>1, <1>2, <1>3, UpdatedBy
<1>5. Inv(pc, tried, got, Slots, Idle, conns')
  BY <1>1, <1>2, <1>3, <1>4, ExecuteKeeps
<1>6. Slots' = Slots /\ Idle' = Idle /\ Len(conns') = Len(conns)
  BY <1>2, <1>4 DEF Slots, Idle, Updated
<1>7. RestTypes'
  BY <1>1, <1>2, <1>6 DEF RestTypes
<1> QED
  BY <1>2, <1>5, <1>6, <1>7 DEF KeepsInv, NoneAdded

\* The shard answers a command in a way that read_reply refuses.
LEMMA SpoiltInv ==
    ASSUME IInv, NEW c \in 1..Len(conns), Execute(c),
           conns' = [conns EXCEPT ![c] = Spoilt(conns[c])]
    PROVE  KeepsInv /\ NoneAdded
<1> DEFINE x == Spoilt(conns[c])
           n == Len(Replies(conns[c]))
<1>1. /\ Inv(pc, tried, got, Slots, Idle, conns) /\ RestTypes /\ conns \in Seq(ConnType)
      /\ conns[c] \in ConnType
  BY DEF IInv, Inv, Types
<1>2. /\ conns' = [conns EXCEPT ![c] = x]
      /\ pc' = pc /\ tried' = tried /\ fresh' = fresh /\ got' = got /\ pool' = pool
  BY DEF Execute, reqVars
<1>3. /\ x \in ConnType /\ Shard(x) = Shard(conns[c]) /\ Open(x) = Open(conns[c])
      /\ ~Alive(x) /\ Sent(x) = <<>> /\ Replies(x) = Replies(conns[c])
  <2>1. conns[c].replies \in Seq(Message) /\ <<>> \in Seq(Message)
    BY <1>1 DEF ConnType
  <2>2. x.status = "spoilt" /\ x.sent = <<>> /\ x.replies = conns[c].replies
    BY <1>1 DEF Spoilt, ConnType
  <2>3. x.shard = conns[c].shard /\ x.open = conns[c].open
    BY <1>1 DEF Spoilt, ConnType
  <2>4. x \in ConnType
    BY <1>1, <2>1 DEF Spoilt, ConnType
  <2> QED
    BY <2>2, <2>3, <2>4 DEF Shard, Open, Alive, Sent, Replies
<1>4. n \in 0..Len(Replies(conns[c])) /\ Replies(x) = SubSeq(Replies(conns[c]), 1, n)
  <2>1. Replies(conns[c]) \in Seq(Message)
    BY <1>1 DEF ConnType, Replies
  <2> QED
    BY <1>3, <2>1
<1> HIDE DEF x, n
<1>5. Updated(conns, c, x, conns')
  BY <1>1, <1>2, <1>3, UpdatedBy
<1>6. Inv(pc, tried, got, Slots, Idle, conns')
  BY <1>1, <1>3, <1>4, <1>5, BreakKeeps
<1>7. Slots' = Slots /\ Idle' = Idle /\ Len(conns') = Len(conns)
  BY <1>2, <1>5 DEF Slots, Idle, Updated
<1>8. RestTypes'
  BY <1>1, <1>2, <1>7 DEF RestTypes
<1> QED
  BY <1>2, <1>6, <1>7, <1>8 DEF KeepsInv, NoneAdded

LEMMA ExecuteInv ==
    ASSUME IInv, NEW c \in 1..Len(conns), Execute(c)
    PROVE  KeepsInv /\ NoneAdded
BY ExecutedInv, SpoiltInv DEF Execute

LEMMA BreakInv ==
    ASSUME IInv, NEW c \in 1..Len(conns), Break(c)
    PROVE  KeepsInv /\ NoneAdded
<1>1. /\ Inv(pc, tried, got, Slots, Idle, conns) /\ RestTypes /\ conns \in Seq(ConnType)
      /\ conns[c] \in ConnType
  BY DEF IInv, Inv, Types
<1>2. /\ pc' = pc /\ tried' = tried /\ fresh' = fresh /\ got' = got /\ pool' = pool
  BY DEF Break, reqVars
<1>3. PICK n \in 0..Len(conns[c].replies) : conns' = [conns EXCEPT ![c] = Cut(conns[c], n)]
  BY DEF Break
<1> DEFINE x == Cut(conns[c], n)
<1>4. /\ x \in ConnType /\ Shard(x) = Shard(conns[c]) /\ Open(x) = Open(conns[c])
      /\ ~Alive(x) /\ Sent(x) = <<>> /\ Replies(x) = SubSeq(Replies(conns[c]), 1, n)
  <2>1. conns[c].replies \in Seq(Message) /\ <<>> \in Seq(Message)
    BY <1>1 DEF ConnType
  <2>2. SubSeq(conns[c].replies, 1, n) \in Seq(Message)
    BY <2>1, Prefix
  <2> QED
    BY <1>1, <2>1, <2>2 DEF Cut, ConnType, Shard, Open, Alive, Sent, Replies
<1> HIDE DEF x
<1>5. Updated(conns, c, x, conns')
  BY <1>1, <1>3, <1>4, UpdatedBy DEF x
<1>6. n \in 0..Len(Replies(conns[c]))
  BY DEF Replies
<1>7. Inv(pc, tried, got, Slots, Idle, conns')
  BY <1>1, <1>4, <1>5, <1>6, BreakKeeps
<1>8. Slots' = Slots /\ Idle' = Idle /\ Len(conns') = Len(conns)
  BY <1>2, <1>5 DEF Slots, Idle, Updated
<1>9. RestTypes'
  BY <1>1, <1>2, <1>8 DEF RestTypes
<1> QED
  BY <1>2, <1>7, <1>8, <1>9 DEF KeepsInv, NoneAdded

-----------------------------------------------------------------------------
(***************************************************************************)
(* close().                                                                *)
(***************************************************************************)
LEMMA LeastNat ==
    ASSUME NEW T, T \subseteq Nat, T # {}
    PROVE  \E m \in T : \A k \in T : m <= k
<1>1. IsWellFoundedOn(OpToRel(<, Nat), Nat)
  BY NatLessThanWellFounded
<1>2. \E m \in T : \A k \in T : ~(<<k, m>> \in OpToRel(<, Nat))
  BY <1>1, WFMin
<1>3. \A k \in Nat, m \in Nat : k < m => <<k, m>> \in OpToRel(<, Nat)
  BY DEF OpToRel
<1>4. PICK m \in T : \A k \in T : ~(<<k, m>> \in OpToRel(<, Nat))
  BY <1>2
<1>5. \A k \in T : ~(k < m) /\ k \in Nat /\ m \in Nat
  BY <1>3, <1>4
<1>6. \A k \in T : m <= k
  BY <1>5
<1> QED
  BY <1>6

\* A step of close(): it takes a connection out of the first pool from i on
\* that has one, and closes it, or it is over.
ClosesOne(i, s) ==
    /\ s \in Shards /\ Idle[s] # <<>> /\ Popped(Idle, s, Idle')
    /\ \E j \in 1..Len(order) :
          /\ order[j] = s /\ closer'.state = "await" /\ closer'.at = j
          /\ \A k \in 1..Len(order) : i <= k /\ k < j => Idle[order[k]] = <<>>

LEMMA CloseFromInv ==
    ASSUME IInv, NEW i \in Nat, NEW n \in Nat, CloseFrom(i, n), UNCHANGED <<reqVars, order>>
    PROVE  /\ KeepsInv
           /\ closer' \in [state : {"no", "await", "returned", "raised"}, at : Nat, size : Nat]
           /\ \/ \E s \in Shards : ClosesOne(i, s)
              \/ /\ Idle' = Idle /\ closer'.state \in {"returned", "raised"}
                 /\ closer'.state = "returned" =>
                       \A k \in 1..Len(order) : i <= k => Idle[order[k]] = <<>>
<1> DEFINE full == {j \in 1..Len(order) : j >= i /\ pool[order[j]].idle # <<>>}
           j == CHOOSE m \in full : \A k \in full : m <= k
           s == order[j]
           c == Last(pool[s].idle)
           x == Shut(conns[c])
<1>1. /\ Inv(pc, tried, got, Slots, Idle, conns) /\ RestTypes /\ conns \in Seq(ConnType)
      /\ order \in Seq(Shards) /\ Len(order) \in Nat /\ Len(conns) \in Nat
      /\ \A k \in 1..Len(order) : order[k] \in Shards /\ Idle[order[k]] = pool[order[k]].idle
      /\ closer \in [state : {"no", "await", "returned", "raised"}, at : Nat, size : Nat]
  <2>1. /\ Inv(pc, tried, got, Slots, Idle, conns) /\ RestTypes /\ conns \in Seq(ConnType)
        /\ order \in Seq(Shards)
        /\ closer \in [state : {"no", "await", "returned", "raised"}, at : Nat, size : Nat]
    BY DEF IInv, Inv, Types, CloseInv
  <2>2. \A k \in 1..Len(order) : order[k] \in Shards
    BY <2>1
  <2>3. \A t \in Shards : Idle[t] = pool[t].idle
    BY <2>1, PoolViews
  <2> QED
    BY <2>1, <2>2, <2>3
<1>2. pc' = pc /\ tried' = tried /\ fresh' = fresh /\ got' = got /\ order' = order
  BY DEF reqVars
<1>3. CASE /\ full # {} /\ closer' = [state |-> "await", at |-> j, size |-> n]
           /\ pool' = [pool EXCEPT ![s].idle = Front(@)]
           /\ conns' = [conns EXCEPT ![c] = x]
  <2>1. j \in full /\ \A k \in full : j <= k
    <3>1. full \subseteq Nat
      BY <1>1
    <3> HIDE DEF full
    <3> QED
      BY <1>3, <3>1, LeastNat
  <2>2. j \in 1..Len(order) /\ i <= j /\ s \in Shards /\ pool[s].idle # <<>> /\ Idle[s] # <<>>
    BY <1>1, <2>1
  <2>3. \A k \in 1..Len(order) : i <= k /\ k < j => Idle[order[k]] = <<>>
    <3> TAKE k \in 1..Len(order)
    <3>1. CASE k \in full
      <4> HIDE DEF full, j
      <4>1. j <= k /\ j \in Nat /\ k \in Nat
        BY <1>1, <2>1, <2>2, <3>1
      <4> QED
        BY <4>1
    <3>2. CASE k \notin full
      BY <1>1, <3>2
    <3> QED
      BY <3>1, <3>2
  <2> HIDE DEF full, j
  <2> DEFINE p == [pool[s] EXCEPT !.idle = Front(@)]
  <2>4. pool' = [pool EXCEPT ![s] = p] /\ pool[s] \in PoolRec(Len(conns)) /\ Idle[s] = pool[s].idle
    BY <1>1, <1>3, <2>2, PoolViews
  <2>5. IsPool(p, Len(conns), pool[s].slots, Front(pool[s].idle))
    BY <1>1, <2>2, <2>4, PoolEdit
  <2> HIDE DEF p
  <2>6. /\ Slots' = [Slots EXCEPT ![s] = p.slots] /\ Idle' = [Idle EXCEPT ![s] = p.idle]
        /\ pool' \in [Shards -> PoolRec(Len(conns))]
    BY <1>1, <2>2, <2>4, <2>5, PoolSet DEF IsPool
  <2>7. Slots' = Slots /\ Popped(Idle, s, Idle')
    <3>1. p.slots = Slots[s] /\ p.idle = Front(Idle[s])
      BY <1>1, <2>2, <2>4, <2>5, PoolViews DEF IsPool
    <3>2. Slots' = Slots
      BY <2>6, <3>1 DEF Slots
    <3>3. Idle' = [Idle EXCEPT ![s] = Front(@)]
      BY <2>6, <3>1
    <3> QED
      BY <3>2, <3>3 DEF Popped
  <2>8. c \in 1..Len(conns) /\ conns[c] \in ConnType /\ c = Last(Idle[s])
    <3>1. pool[s].idle \in Seq(1..Len(conns))
      BY <2>4 DEF PoolRec
    <3>2. c \in 1..Len(conns)
      BY <2>2, <3>1, FrontLast
    <3> QED
      BY <1>1, <2>4, <3>2
  <2>9. x \in ConnType /\ Shard(x) = Shard(conns[c]) /\ ~Open(x) /\ Alive(x) = Alive(conns[c])
    BY <2>8, ShutConn
  <2> HIDE DEF x, c, s
  <2>10. Updated(conns, c, x, conns')
    BY <1>1, <1>3, <2>8, <2>9, UpdatedBy
  <2>11. Inv(pc, tried, got, Slots, Idle', conns')
    BY <1>1, <2>2, <2>7, <2>8, <2>9, <2>10, CloseKeeps
  <2>12. RestTypes'
    BY <1>1, <1>2, <2>6, <2>10 DEF RestTypes, Updated
  <2>13. ClosesOne(i, s)
    <3>1. order[j] = s
      BY DEF s
    <3>2. closer'.state = "await" /\ closer'.at = j
      BY <1>3
    <3> QED
      BY <2>2, <2>3, <2>7, <3>1, <3>2 DEF ClosesOne
  <2>14. closer' \in [state : {"no", "await", "returned", "raised"}, at : Nat, size : Nat]
    BY <1>1, <1>3, <2>2
  <2> QED
    BY <1>2, <2>2, <2>7, <2>11, <2>12, <2>13, <2>14 DEF KeepsInv
<1>4. CASE /\ i \notin full /\ (Len(order) # n \/ full = {})
           /\ closer' = [closer EXCEPT !.state = IF Len(order) = n THEN "returned" ELSE "raised"]
           /\ pool' = pool /\ conns' = conns
  <2>1. Slots' = Slots /\ Idle' = Idle /\ RestTypes'
    BY <1>1, <1>2, <1>4 DEF Slots, Idle, RestTypes
  <2>2. /\ closer' \in [state : {"no", "await", "returned", "raised"}, at : Nat, size : Nat]
        /\ closer'.state \in {"returned", "raised"} /\ (closer'.state = "returned" => full = {})
    BY <1>1, <1>4
  <2>3. full = {} => \A k \in 1..Len(order) : i <= k => Idle[order[k]] = <<>>
    BY <1>1
  <2> QED
    BY <1>1, <1>2, <1>4, <2>1, <2>2, <2>3 DEF KeepsInv
<1> QED
  <2>1. i \in full => full # {}
    OBVIOUS
  <2> QED
    BY <1>3, <1>4, <2>1 DEF CloseFrom

\* _pools keeps its keys, and a new one has no idle connection yet.
OrderGrows ==
    /\ order' \in Seq(Shards)
    /\ \A j \in 1..Len(order) : j \in 1..Len(order') /\ order'[j] = order[j]
    /\ \A j \in 1..Len(order') : j \in 1..Len(order) \/ Idle[order'[j]] = <<>>

LEMMA CloseStays ==
    ASSUME CloseInv, closed' = closed, closer' = closer, OrderGrows, AddedOpen,
           \A r \in Requests : pc'[r] # "idle" =>
               pc[r] # "idle" \/ \E j \in 1..Len(order') : order'[j] = ShardOf[r]
    PROVE  CloseInv'
<1>1. \A s \in Shards : (\E j \in 1..Len(order) : order[j] = s)
                           => \E j \in 1..Len(order') : order'[j] = s
  BY DEF OrderGrows
<1>2. ASSUME NEW r \in Requests, pc'[r] # "idle"
      PROVE  \E j \in 1..Len(order') : order'[j] = ShardOf[r]
  <2>1. ShardOf[r] \in Shards
    BY PoolAssumption
  <2> QED
    BY <1>1, <1>2, <2>1 DEF CloseInv
<1>3. ASSUME NEW s \in Shards, Idle'[s] # <<>>
      PROVE  \E j \in 1..Len(order') : order'[j] = s
  <2>1. CASE Idle[s] # <<>>
    BY <1>1, <2>1 DEF CloseInv
  <2>2. CASE \E r \in Requests : pc[r] = "read" /\ ShardOf[r] = s
    BY <1>1, <2>2 DEF CloseInv
  <2> QED
    BY <1>3, <2>1, <2>2 DEF AddedOpen
<1>4. ASSUME closer.state = "await", NEW j \in 1..Len(order'), j < closer.at
      PROVE  Idle'[order'[j]] = <<>>
  <2>1. Idle[order'[j]] = <<>>
    BY <1>4 DEF CloseInv, OrderGrows
  <2>2. closed /\ order'[j] \in Shards
    BY <1>4 DEF CloseInv, OrderGrows
  <2> QED
    BY <2>1, <2>2 DEF AddedOpen
<1>5. ASSUME closer.state = "returned", NEW s \in Shards
      PROVE  Idle'[s] = <<>>
  BY <1>5 DEF CloseInv, AddedOpen
<1>6. /\ order' \in Seq(Shards) /\ closed' \in BOOLEAN
      /\ closer' \in [state : {"no", "await", "returned", "raised"}, at : Nat, size : Nat]
      /\ closed' <=> closer'.state # "no"
  BY DEF CloseInv, OrderGrows
<1> QED
  BY <1>2, <1>3, <1>4, <1>5, <1>6 DEF CloseInv

\* close() at position i, with the pools before it empty.
LEMMA CloseMoves ==
    ASSUME IInv, NEW i \in Nat, NEW n \in Nat, CloseFrom(i, n), UNCHANGED <<reqVars, order>>,
           closed' = TRUE, \A k \in 1..Len(order) : k < i => Idle[order[k]] = <<>>
    PROVE  KeepsInv /\ CloseInv'
<1>1. /\ KeepsInv
      /\ closer' \in [state : {"no", "await", "returned", "raised"}, at : Nat, size : Nat]
      /\ \/ \E s \in Shards : ClosesOne(i, s)
         \/ /\ Idle' = Idle /\ closer'.state \in {"returned", "raised"}
            /\ closer'.state = "returned" =>
                  \A k \in 1..Len(order) : i <= k => Idle[order[k]] = <<>>
  BY CloseFromInv
<1>2. pc' = pc /\ order' = order /\ CloseInv /\ order \in Seq(Shards) /\ Len(order) \in Nat
  BY DEF reqVars, IInv, CloseInv
<1>3. CASE \E s \in Shards : ClosesOne(i, s)
  <2>1. PICK s \in Shards : ClosesOne(i, s)
    BY <1>3
  <2>2. PICK j \in 1..Len(order) :
          /\ order[j] = s /\ closer'.state = "await" /\ closer'.at = j
          /\ \A k \in 1..Len(order) : i <= k /\ k < j => Idle[order[k]] = <<>>
    BY <2>1 DEF ClosesOne
  <2>3. \A t \in Shards : Idle'[t] # <<>> => Idle[t] # <<>>
    BY <2>1 DEF ClosesOne, Popped, Idle
  <2>4. \A k \in 1..Len(order) : k < j => Idle[order[k]] = <<>>
    BY <1>2, <2>2
  <2>5. \A k \in 1..Len(order) : k < j => Idle'[order[k]] = <<>>
    BY <1>2, <2>3, <2>4
  <2> QED
    BY <1>1, <1>2, <2>2, <2>3, <2>5 DEF CloseInv
<1>4. CASE /\ Idle' = Idle /\ closer'.state \in {"returned", "raised"}
           /\ closer'.state = "returned" =>
                 \A k \in 1..Len(order) : i <= k => Idle[order[k]] = <<>>
  <2>1. ASSUME closer'.state = "returned", NEW s \in Shards, Idle[s] # <<>>
        PROVE  FALSE
    <3>1. \A k \in 1..Len(order) : Idle[order[k]] = <<>>
      BY <1>2, <1>4, <2>1
    <3> QED
      BY <1>2, <2>1, <3>1 DEF CloseInv
  <2> QED
    BY <1>1, <1>2, <1>4, <2>1 DEF CloseInv
<1> QED
  BY <1>1, <1>3, <1>4

LEMMA CloseSteps ==
    ASSUME IInv, Close \/ CloseResumes
    PROVE  IInv'
<1>1. CASE Close
  <2>1. /\ closed' = TRUE /\ CloseFrom(0, Len(order)) /\ UNCHANGED <<reqVars, order>>
        /\ Len(order) \in Nat
    BY <1>1 DEF Close, IInv, CloseInv
  <2>2. \A k \in 1..Len(order) : k < 0 => Idle[order[k]] = <<>>
    BY <2>1
  <2>3. KeepsInv /\ CloseInv'
    BY <2>1, <2>2, CloseMoves
  <2> QED
    BY <2>3 DEF KeepsInv, IInv
<1>2. CASE CloseResumes
  <2>1. /\ closed' = TRUE /\ CloseFrom(closer.at, closer.size) /\ UNCHANGED <<reqVars, order>>
        /\ closer.at \in Nat /\ closer.size \in Nat
        /\ \A k \in 1..Len(order) : k < closer.at => Idle[order[k]] = <<>>
    BY <1>2 DEF CloseResumes, IInv, CloseInv
  <2>2. KeepsInv /\ CloseInv'
    BY <2>1, CloseMoves
  <2> QED
    BY <2>2 DEF KeepsInv, IInv
<1> QED
  BY <1>1, <1>2

-----------------------------------------------------------------------------
(***************************************************************************)
(* The invariant.                                                          *)
(***************************************************************************)
LEMMA InitInv == Init => IInv
<1> SUFFICES ASSUME Init PROVE IInv
  OBVIOUS
<1> USE DEF Init
<1>1. /\ pc \in PcType /\ tried \in [Requests -> Seq(1..Len(conns))] /\ got \in GotType
      /\ conns \in Seq(ConnType) /\ Len(conns) = 0
  BY DEF PcType, GotType
<1>2. \A s \in Shards : Slots[s] = PoolSize /\ Idle[s] = <<>> /\ Len(Idle[s]) = 0
  BY DEF Slots, Idle
<1>3. PoolSize \in Nat
  BY PoolAssumption
<1>4. Types(pc, tried, got, Slots, Idle, conns)
  <2>1. Slots \in [Shards -> Nat] /\ Idle \in [Shards -> Seq(1..Len(conns))]
    BY <1>3 DEF Slots, Idle
  <2> QED
    BY <1>1, <2>1 DEF Types
<1>5. SlotInv(pc, Slots, Idle)
  <2>1. \A s \in Shards : Holders(pc, s) = {}
    BY DEF Holders, Active
  <2>2. IsFiniteSet({}) /\ Cardinality({}) = 0
    BY FS_EmptySet
  <2>3. ASSUME NEW s \in Shards
        PROVE  /\ IsFiniteSet(Holders(pc, s))
               /\ Slots[s] + Cardinality(Holders(pc, s)) = PoolSize
               /\ Len(Idle[s]) <= Slots[s]
    <3>1. IsFiniteSet(Holders(pc, s)) /\ Cardinality(Holders(pc, s)) = 0
      BY <2>1, <2>2
    <3>2. Slots[s] = PoolSize /\ Len(Idle[s]) = 0
      BY <1>2
    <3> QED
      BY ONLY <1>3, <3>1, <3>2
  <2> QED
    BY <2>3 DEF SlotInv
<1>6. \A r \in Requests : pc[r] = "idle" /\ tried[r] = <<>>
  OBVIOUS
<1>7. IdleInv(Idle, conns) /\ UseInv(pc, tried, Idle, conns) /\ ReplyInv(pc, tried, got, conns)
  BY <1>2, <1>6 DEF IdleInv, UseInv, ReplyInv, InUse
<1>8. DeadInv(pc, tried, conns) /\ OpenInv(pc, tried, Idle, conns)
  BY <1>1, <1>6 DEF DeadInv, OpenInv
<1>9. RestTypes
  BY <1>1, <1>3 DEF RestTypes, PoolRec
<1>10. CloseInv
  <2>1. order \in Seq(Shards)
    OBVIOUS
  <2>2. closed = FALSE /\ closer = [state |-> "no", at |-> 0, size |-> 0]
    BY Zenon
  <2>3. /\ closer \in [state : {"no", "await", "returned", "raised"}, at : Nat, size : Nat]
        /\ closer.state = "no"
    BY ONLY <2>2
  <2> QED
    BY <1>2, <1>6, <2>1, <2>2, <2>3 DEF CloseInv
<1> QED
  BY <1>4, <1>5, <1>7, <1>8, <1>9, <1>10 DEF Inv, IInv

\* A request that has been called leaves close() alone.
Leaves(r) == /\ pc[r] # "idle" /\ \A q \in Requests : q # r => pc'[q] = pc[q]
             /\ closed' = closed /\ closer' = closer /\ order' = order

LEMMA Begins ==
    ASSUME pc \in PcType, NEW r \in Requests, NEW p, NEW cs, Acquire(r, p, cs) \/ Begin(r, p, cs)
    PROVE  \A q \in Requests : q # r => pc'[q] = pc[q]
BY DEF Acquire, Begin, Reuse, Connect, PcType

LEMMA RequestLeaves ==
    ASSUME IInv, NEW r \in Requests, Progress(r) \/ Cancel(r)
    PROVE  Leaves(r)
<1>1. pc \in PcType
  BY DEF IInv, Inv, Types
<1> USE DEF Leaves, closeVars
<1>2. ASSUME pc[r] \in Active, NEW how, GiveUp(r, how)
      PROVE  Leaves(r)
  BY <1>1, <1>2 DEF GiveUp, Active, PcType
<1>3. CASE Granted(r)
  <2>1. \A q \in Requests : q # r => pc'[q] = pc[q]
    BY <1>1, <1>3, Begins DEF Granted
  <2> QED
    BY <1>3, <2>1 DEF Granted
<1>4. CASE Connected(r)
  BY <1>1, <1>4 DEF Connected, PcType
<1>5. CASE ConnectFailed(r)
  BY <1>2, <1>5 DEF ConnectFailed, Active
<1>6. CASE Authenticated(r)
  BY <1>1, <1>6 DEF Authenticated, PcType
<1>7. CASE ReadReply(r)
  BY <1>1, <1>7 DEF ReadReply, PcType
<1>8. CASE TimedOut(r)
  BY <1>2, <1>8 DEF TimedOut, Active
<1>9. CASE Broken(r)
  <2>1. CASE GiveUp(r, "failed")
    BY <1>2, <1>9, <2>1 DEF Broken, Active
  <2>2. CASE Retry(r)
    <3>1. \A q \in Requests : q # r => pc'[q] = pc[q]
      BY <1>1, <2>2, Begins DEF Retry
    <3> QED
      BY <1>9, <2>2, <3>1 DEF Broken, Retry
  <2> QED
    BY <1>9, <2>1, <2>2 DEF Broken
<1>10. CASE Cancel(r)
  <2>1. CASE pc[r] \in Active /\ GiveUp(r, "cancelled")
    BY <1>2, <2>1
  <2>2. CASE pc[r] = "wait"
    BY <1>1, <1>10, <2>2 DEF Cancel, Active, PcType
  <2> QED
    BY <1>10, <2>1, <2>2 DEF Cancel
<1> QED
  BY <1>3, <1>4, <1>5, <1>6, <1>7, <1>8, <1>9, <1>10 DEF Progress

LEMMA RequestKeeps ==
    ASSUME IInv, NEW r \in Requests, Progress(r) \/ Cancel(r)
    PROVE  KeepsInv /\ AddedOpen
<1>1. NoneAdded => AddedOpen
  BY DEF NoneAdded, AddedOpen
<1>2. ASSUME pc[r] \in Active, GiveUp(r, "failed")
      PROVE  KeepsInv /\ AddedOpen
  BY <1>1, <1>2, GiveUpKeeps
<1>3. CASE ReadReply(r)
  BY <1>3, ReadReplyInv
<1>4. CASE Granted(r)
  BY <1>1, <1>4, GrantedKeeps
<1>5. CASE Connected(r)
  BY <1>1, <1>5, ConnectedInv
<1>6. CASE ConnectFailed(r)
  BY <1>2, <1>6 DEF ConnectFailed, Active
<1>7. CASE Authenticated(r)
  BY <1>1, <1>7, AuthenticatedInv
<1>8. CASE TimedOut(r)
  BY <1>2, <1>8 DEF TimedOut, Active
<1>9. CASE Broken(r)
  BY <1>1, <1>9, BrokenKeeps
<1>10. CASE Cancel(r)
  BY <1>1, <1>10, CancelKeeps
<1> QED
  BY <1>3, <1>4, <1>5, <1>6, <1>7, <1>8, <1>9, <1>10 DEF Progress

LEMMA SameOrder == ASSUME CloseInv, order' = order PROVE OrderGrows
BY DEF OrderGrows, CloseInv

LEMMA CallOrder ==
    ASSUME CloseInv, NEW r \in Requests, Call(r)
    PROVE  OrderGrows /\ \E j \in 1..Len(order') : order'[j] = ShardOf[r]
<1>1. order \in Seq(Shards) /\ ShardOf[r] \in Shards /\ Len(order) \in Nat
  BY PoolAssumption DEF CloseInv
<1>2. CASE ShardOf[r] \in ToSet(order)
  <2>1. order' = order
    BY <1>2 DEF Call
  <2>2. PICK j \in DOMAIN order : order[j] = ShardOf[r]
    BY <1>2 DEF ToSet
  <2> QED
    BY <1>1, <2>1, <2>2, SameOrder
<1>3. CASE ShardOf[r] \notin ToSet(order)
  <2>1. order' = Append(order, ShardOf[r])
    BY <1>3 DEF Call
  <2>2. /\ order' \in Seq(Shards) /\ Len(order') = Len(order) + 1
        /\ \A j \in 1..Len(order) : order'[j] = order[j]
        /\ order'[Len(order) + 1] = ShardOf[r]
    BY <1>1, <2>1, AppendProperties
  <2>3. Idle[ShardOf[r]] = <<>>
    <3>1. \A j \in 1..Len(order) : order[j] # ShardOf[r]
      BY <1>1, <1>3 DEF ToSet
    <3> QED
      BY <1>1, <3>1 DEF CloseInv
  <2>4. \A j \in 1..Len(order') : j \in 1..Len(order) \/ j = Len(order) + 1
    BY <1>1, <2>2
  <2>5. Len(order) + 1 \in 1..Len(order') /\ 1..Len(order) \subseteq 1..Len(order')
    BY <1>1, <2>2
  <2> QED
    BY <2>2, <2>3, <2>4, <2>5 DEF OrderGrows
<1> QED
  BY <1>2, <1>3

LEMMA NextInv == IInv /\ [Next]_vars => IInv'
<1> SUFFICES ASSUME IInv, [Next]_vars PROVE IInv'
  OBVIOUS
<1>1. CloseInv /\ pc \in PcType
  BY DEF IInv, Inv, Types
<1>2. ASSUME NEW r \in Requests, Call(r)
      PROVE  IInv'
  <2>1. KeepsInv /\ AddedOpen
    BY <1>2, CallKeeps DEF NoneAdded, AddedOpen
  <2>2. OrderGrows /\ \E j \in 1..Len(order') : order'[j] = ShardOf[r]
    BY <1>1, <1>2, CallOrder
  <2>3. \A q \in Requests : q # r => pc'[q] = pc[q]
    BY <1>1, <1>2, Begins DEF Call
  <2>4. closed' = closed /\ closer' = closer
    BY <1>2 DEF Call
  <2>5. CloseInv'
    BY <1>1, <2>1, <2>2, <2>3, <2>4, CloseStays
  <2> QED
    BY <2>1, <2>5 DEF KeepsInv, IInv
<1>3. ASSUME NEW r \in Requests, Progress(r) \/ Cancel(r)
      PROVE  IInv'
  <2>1. KeepsInv /\ AddedOpen
    BY <1>3, RequestKeeps
  <2>2. Leaves(r)
    BY <1>3, RequestLeaves
  <2>3. OrderGrows
    BY <1>1, <2>2, SameOrder DEF Leaves
  <2>4. closed' = closed /\ closer' = closer /\ \A q \in Requests : pc'[q] # "idle" => pc[q] # "idle"
    BY <2>2 DEF Leaves
  <2>5. CloseInv'
    BY <1>1, <2>1, <2>3, <2>4, CloseStays
  <2> QED
    BY <2>1, <2>5 DEF KeepsInv, IInv
<1>4. ASSUME NEW c \in 1..Len(conns), Execute(c) \/ Break(c)
      PROVE  IInv'
  <2>1. KeepsInv /\ NoneAdded
    BY <1>4, ExecuteInv, BreakInv
  <2>2. pc' = pc /\ order' = order /\ closed' = closed /\ closer' = closer
    BY <1>4 DEF Execute, Break, reqVars, closeVars
  <2>3. OrderGrows /\ AddedOpen
    BY <1>1, <2>1, <2>2, SameOrder DEF NoneAdded, AddedOpen
  <2>4. CloseInv'
    BY <1>1, <2>2, <2>3, CloseStays
  <2> QED
    BY <2>1, <2>4 DEF KeepsInv, IInv
<1>5. CASE UNCHANGED vars
  BY <1>5 DEF vars, reqVars, closeVars, IInv, Slots, Idle, RestTypes, CloseInv
<1> QED
  BY <1>2, <1>3, <1>4, <1>5, CloseSteps DEF Next

\* The invariant holds for any number of requests and shards (_run and close).
THEOREM Invariance == Spec => []IInv
BY InitInv, NextInv, PTL DEF Spec

\* Every variable has its type; no slot is given back twice (_run's finally).
THEOREM TypeCorrect == Spec => []TypeOK
<1>1. IInv => TypeOK
  <2> SUFFICES ASSUME IInv PROVE TypeOK
    OBVIOUS
  <2>1. /\ Inv(pc, tried, got, Slots, Idle, conns) /\ SlotInv(pc, Slots, Idle)
        /\ RestTypes /\ closed \in BOOLEAN /\ Slots \in [Shards -> Nat] /\ PoolSize \in Nat
    BY PoolAssumption DEF IInv, Inv, Types, CloseInv
  <2>2. ASSUME NEW s \in Shards
        PROVE  pool[s] \in PoolType
    <3>1. pool[s] \in PoolRec(Len(conns)) /\ Slots[s] = pool[s].slots /\ Slots[s] \in Nat
      BY <2>1, PoolViews
    <3>2. Cardinality(Holders(pc, s)) \in Nat /\ Slots[s] + Cardinality(Holders(pc, s)) = PoolSize
      BY <2>1, FS_CardinalityType DEF SlotInv
    <3>3. Slots[s] \in 0..PoolSize
      BY ONLY <2>1, <3>1, <3>2
    <3> QED
      BY <3>1, <3>3 DEF PoolRec, PoolType
  <2> QED
    BY <2>1, <2>2 DEF TypeOK, Inv, Types, PcType, RestTypes
<1> QED
  BY <1>1, Invariance, PTL

\* The result of a request is the replies to its own commands, all of them and
\* in their order, of the attempt that succeeded (_run, its finally clause).
THEOREM RepliesOwn == Spec => []ReplyIsOwn
<1>1. IInv => ReplyIsOwn
  BY DEF IInv, Inv, ReplyInv, ReplyIsOwn
<1> QED
  BY <1>1, Invariance, PTL

\* Commands are sent again only when the connection they were sent on is gone or
\* has brought a reply that cannot be read, never because the answer is late
\* (_run, the exceptions it catches on a reused connection).
THEOREM RetryNotBlind == Spec => []NoBlindRetry
<1>1. IInv => NoBlindRetry
  <2> SUFFICES ASSUME IInv, NEW r \in Requests, NEW i \in 1..Len(tried[r]) - 1
               PROVE  conns[tried[r][i]].status # "up"
    BY DEF NoBlindRetry
  <2>1. tried[r] \in Seq(1..Len(conns)) /\ DeadInv(pc, tried, conns)
    BY DEF IInv, Inv, Types
  <2>2. i \in 1..Len(tried[r]) /\ i < Len(tried[r])
    BY <2>1
  <2> QED
    BY <2>1, <2>2 DEF DeadInv, Alive
<1> QED
  BY <1>1, Invariance, PTL

\* Once close() has returned and the requests under way are over no connection
\* is left open (close against _run).
THEOREM ClosedAtEnd == Spec => []ClosedForGood
<1>1. IInv => ClosedForGood
  <2> SUFFICES ASSUME IInv, closer.state = "returned", Quiet, NEW c \in 1..Len(conns), conns[c].open
               PROVE  FALSE
    BY DEF ClosedForGood
  <2>1. conns[c] \in ConnType /\ OpenInv(pc, tried, Idle, conns)
    BY DEF IInv, Inv, Types
  <2>2. Shard(conns[c]) \in Shards /\ Open(conns[c])
    BY <2>1 DEF ConnType, Shard, Open
  <2>3. Idle[Shard(conns[c])] = <<>>
    BY <2>2 DEF IInv, CloseInv
  <2>4. \A r \in Requests : pc[r] \notin InUse
    BY DEF Quiet, Ended, InUse
  <2> QED
    BY <2>1, <2>2, <2>3, <2>4 DEF OpenInv
<1> QED
  BY <1>1, Invariance, PTL

\* An image is no larger than what it is the image of.
LEMMA ImageBound ==
    ASSUME NEW S, IsFiniteSet(S), NEW f, f = [x \in S |-> f[x]]
    PROVE  /\ IsFiniteSet({f[x] : x \in S}) /\ Cardinality({f[x] : x \in S}) \in Nat
           /\ Cardinality({f[x] : x \in S}) <= Cardinality(S)
<1>1. f \in Surjection(S, {f[x] : x \in S})
  BY DEF Surjection
<1> QED
  BY <1>1, FS_Surjection, FS_CardinalityType

\* A pool has pool_size connections at most, the idle ones and those in use
\* together, for any pool_size and any requests.
THEOREM BoundedPools == Spec => []PoolBounded
<1>1. IInv => PoolBounded
  <2> SUFFICES ASSUME IInv, NEW s \in Shards
               PROVE  Cardinality({c \in 1..Len(conns) : conns[c].open /\ conns[c].shard = s})
                         <= PoolSize
    BY DEF PoolBounded
  <2> DEFINE O == {c \in 1..Len(conns) : conns[c].open /\ conns[c].shard = s}
             H == Holders(pc, s)
             f == [r \in H |-> Last(tried[r])]
             I == 1..Len(Idle[s])
             g == [i \in I |-> Idle[s][i]]
             A == {f[r] : r \in H}
             B == {g[i] : i \in I}
  <2>1. /\ IsFiniteSet(H) /\ Slots[s] + Cardinality(H) = PoolSize /\ Len(Idle[s]) <= Slots[s]
        /\ OpenInv(pc, tried, Idle, conns) /\ UseInv(pc, tried, Idle, conns)
        /\ Slots[s] \in Nat /\ Len(Idle[s]) \in Nat
    BY DEF IInv, Inv, SlotInv, Types
  <2>2. IsFiniteSet(A) /\ Cardinality(A) \in Nat /\ Cardinality(A) <= Cardinality(H)
    BY <2>1, ImageBound
  <2>3. IsFiniteSet(I) /\ Cardinality(I) = Len(Idle[s])
    <3>1. \A n \in Nat : IsFiniteSet(1..n) /\ Cardinality(1..n) = n
      <4> TAKE n \in Nat
      <4>1. /\ IsFiniteSet(1..n)
            /\ Cardinality(1..n) = IF 1 > n THEN 0 ELSE n - 1 + 1
        BY FS_Interval
      <4> QED
        BY <4>1
    <3> QED
      BY <2>1, <3>1
  <2>4. IsFiniteSet(B) /\ Cardinality(B) \in Nat /\ Cardinality(B) <= Cardinality(I)
    BY <2>3, ImageBound
  <2>5. O \subseteq A \cup B
    <3> SUFFICES ASSUME NEW c \in 1..Len(conns), conns[c].open, conns[c].shard = s
                 PROVE  c \in A \cup B
      OBVIOUS
    <3>1. Open(conns[c]) /\ Shard(conns[c]) = s
      BY DEF Open, Shard
    <3>2. CASE \E r \in Requests : pc[r] \in InUse /\ Last(tried[r]) = c
      <4>1. PICK r \in Requests : pc[r] \in InUse /\ Last(tried[r]) = c
        BY <3>2
      <4>2. r \in H
        BY <2>1, <3>1, <4>1 DEF UseInv, Holders, InUse, Active
      <4> QED
        BY <4>1, <4>2
    <3>3. CASE \E i \in I : Idle[s][i] = c
      BY <3>3
    <3> QED
      BY <2>1, <3>1, <3>2, <3>3 DEF OpenInv
  <2> HIDE DEF O, H, A, B, I
  <2>6. /\ IsFiniteSet(A \cup B) /\ IsFiniteSet(A \cap B)
        /\ Cardinality(A \cup B) = Cardinality(A) + Cardinality(B) - Cardinality(A \cap B)
    BY <2>2, <2>4, FS_Union, FS_Intersection
  <2>7. Cardinality(A \cap B) \in Nat /\ Cardinality(H) \in Nat
    BY <2>1, <2>6, FS_CardinalityType
  <2>8. Cardinality(O) <= Cardinality(A \cup B) /\ Cardinality(O) \in Nat
    BY <2>5, <2>6, FS_Subset, FS_CardinalityType
  <2>9. Cardinality(O) <= PoolSize
    BY ONLY <2>1, <2>2, <2>3, <2>4, <2>6, <2>7, <2>8
  <2> QED
    BY <2>9 DEF O
<1> QED
  BY <1>1, Invariance, PTL

=============================================================================
