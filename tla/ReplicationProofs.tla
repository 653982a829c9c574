------------------------- MODULE ReplicationProofs -------------------------
(***************************************************************************)
(* Proofs about Replication, for any keys, commands, options and backlog   *)
(* limit, any number of writes, breakdowns and ticks: types, the backlog's *)
(* limit, that nothing is lost on the way (NothingLost) and that a replica *)
(* keeps keys no shorter than its primary (ReplicaOutlives).               *)
(***************************************************************************)
EXTENDS Replication, StoreEffects

(***************************************************************************)
(* The inductive invariant.  The replica applies what the connection and   *)
(* the queue hold, so these must hold commands; that a replica never       *)
(* evicts needs its store to be what commands make of an empty one.        *)
(***************************************************************************)
StoresInv ==
    /\ Good(primary) /\ primary.evicted = <<>>
    /\ Good(replica) /\ replica.evicted = <<>> /\ replica.cap = 0

\* The three fields of a link, together.
LinkType == [link : BOOLEAN, queue : Seq(CommandType), pending : Nat]

LinkOK(l) ==
    /\ l \in LinkType
    /\ l.pending = Len(l.queue) \/ l.pending = Len(l.queue) + 1
    /\ ~l.link => l.queue = <<>> /\ l.pending = 0

Link == [link |-> link, queue |-> queue, pending |-> pending]

LinkInv == LinkOK(Link) /\ wire \in Seq(CommandType) /\ connected \in BOOLEAN /\ (link => connected)

IInv == StoresInv /\ LinkInv /\ now \in Nat

-----------------------------------------------------------------------------
(***************************************************************************)
(* Sending.                                                                *)
(***************************************************************************)
\* What sending may do to a link: it grows within the limit, or is closed.
Sent(l, m) == LinkOK(m) /\ (m.link => l.link) /\ (m.pending <= l.pending \/ m.pending <= Limit)

LEMMA SendKeeps ==
    ASSUME NEW l, LinkOK(l), NEW c \in CommandType
    PROVE  Sent(l, Send(l, c))
<1>0. l \in LinkType /\ l.pending \in Nat /\ l.queue \in Seq(CommandType) /\ l.link \in BOOLEAN
  BY DEF LinkOK, LinkType
<1>1. CASE ~l.link
  BY <1>0, <1>1 DEF Send, Sent
<1>2. CASE l.link /\ l.pending + 1 > Limit
  <2>1. Send(l, c) = [link |-> FALSE, queue |-> <<>>, pending |-> 0]
    BY <1>2 DEF Send, Closed
  <2>2. <<>> \in Seq(CommandType) /\ Len(<<>>) = 0
    OBVIOUS
  <2>3. LinkOK(Send(l, c))
    BY <2>1, <2>2 DEF LinkOK, LinkType
  <2> QED
    BY <1>0, <2>1, <2>3 DEF Sent
<1>3. CASE l.link /\ ~(l.pending + 1 > Limit)
  <2> DEFINE q == Append(l.queue, c)
             n == l.pending + 1
             m == [l EXCEPT !.queue = q, !.pending = n]
  <2>1. Send(l, c) = m
    BY <1>3 DEF Send
  <2>2. q \in Seq(CommandType) /\ Len(q) = Len(l.queue) + 1 /\ n \in Nat /\ Len(l.queue) \in Nat /\ n <= Limit
    BY <1>0, <1>3, ReplicationAssumption
  <2>3. n = Len(q) \/ n = Len(q) + 1
    BY <1>0, <2>2 DEF LinkOK
  <2> HIDE DEF q, n
  <2>4. m \in LinkType /\ m.link = TRUE /\ m.queue = q /\ m.pending = n
    BY <1>0, <1>3, <2>2 DEF LinkType
  <2> HIDE DEF m
  <2> QED
    BY <1>3, <2>1, <2>2, <2>3, <2>4 DEF Sent, LinkOK
<1> QED
  BY <1>1, <1>2, <1>3

\* f is the link after each of the commands.
SendsOneByOne(f, commands) ==
    /\ f[0] = Link
    /\ \A n \in Nat : n + 1 <= Len(commands) => f[n + 1] = Send(f[n], commands[n + 1])
    /\ LET last == f[Len(commands)]
       IN  link' = last.link /\ queue' = last.queue /\ pending' = last.pending

LEMMA PropagateSteps ==
    ASSUME NEW commands \in Seq(CommandType), Propagate(commands)
    PROVE  \E f : SendsOneByOne(f, commands)
<1> DEFINE L == Len(commands)
           s == [link |-> link, queue |-> queue, pending |-> pending]
           Step(x, i) == Send(x, commands[i])
           Is(n, f) == f = [i \in 0..n |-> IF i = 0 THEN s ELSE Step(f[i - 1], i)]
           Fits(n) == \E f : Is(n, f)
           N == {n \in Nat : Fits(n)}
           g == CHOOSE f : Is(L, f)
<1>0. L \in Nat /\ link' = g[L].link /\ queue' = g[L].queue /\ pending' = g[L].pending
  BY DEF Propagate
<1>9. s = Link
  BY DEF Link
<1> HIDE DEF L, Step, s
<1>1. 0 \in N
  <2> DEFINE f == [i \in 0..0 |-> s]
  <2>1. Is(0, f)
    OBVIOUS
  <2> QED
    BY <2>1
<1>2. \A n \in Nat : n \in N => n + 1 \in N
  <2> SUFFICES ASSUME NEW n \in Nat, Fits(n)
               PROVE  Fits(n + 1)
    <3> HIDE DEF Fits
    <3> QED
      OBVIOUS
  <2>1. PICK f : f = [i \in 0..n |-> IF i = 0 THEN s ELSE Step(f[i - 1], i)]
    OBVIOUS
  <2> DEFINE h == [i \in 0..(n + 1) |-> IF i <= n THEN f[i] ELSE Step(f[n], n + 1)]
  <2>2. \A i \in 0..(n + 1) : h[i] = IF i = 0 THEN s ELSE Step(h[i - 1], i)
    <3> TAKE i \in 0..(n + 1)
    <3>1. CASE i <= n
      <4>1. i \in 0..n /\ (i # 0 => i - 1 \in 0..n /\ i - 1 \in 0..(n + 1) /\ i - 1 <= n)
        BY <3>1
      <4> QED
        BY <2>1, <3>1, <4>1
    <3>2. CASE i = n + 1
      <4>1. i # 0 /\ i - 1 = n /\ n \in 0..(n + 1) /\ ~(i <= n)
        BY <3>2
      <4> QED
        BY <3>2, <4>1
    <3> QED
      BY <3>1, <3>2
  <2>3. h = [i \in 0..(n + 1) |-> IF i = 0 THEN s ELSE Step(h[i - 1], i)]
    BY <2>2
  <2> HIDE DEF h
  <2> QED
    BY <2>3
<1>3. Fits(L)
  <2> HIDE DEF Fits
  <2>1. L \in N
    <3> HIDE DEF N
    <3> QED
      BY <1>0, <1>1, <1>2, Induction
  <2> QED
    BY <2>1
<1>4. Is(L, g)
  <2> HIDE DEF Is
  <2> QED
    BY <1>3
<1> HIDE DEF g
<1>5. \A i \in 0..L : g[i] = IF i = 0 THEN s ELSE Step(g[i - 1], i)
  BY <1>4
<1>6. g[0] = s
  BY <1>0, <1>5
<1>7. ASSUME NEW n \in Nat, n + 1 <= L
      PROVE  g[n + 1] = Step(g[n], n + 1)
  <2>1. n + 1 \in 0..L /\ n + 1 # 0 /\ (n + 1) - 1 = n
    BY <1>0, <1>7
  <2> QED
    BY <1>5, <2>1
<1>8. SendsOneByOne(g, commands)
  BY <1>0, <1>6, <1>7, <1>9 DEF L, Step, SendsOneByOne
<1> QED
  BY <1>8

LEMMA PropagateKeeps ==
    ASSUME LinkOK(Link), NEW commands \in Seq(CommandType), Propagate(commands)
    PROVE  Sent(Link, Link')
<1>0. PICK f : SendsOneByOne(f, commands)
  BY PropagateSteps
<1>1. /\ f[0] = Link
      /\ \A n \in Nat : n + 1 <= Len(commands) => f[n + 1] = Send(f[n], commands[n + 1])
      /\ link' = f[Len(commands)].link /\ queue' = f[Len(commands)].queue
      /\ pending' = f[Len(commands)].pending
  BY <1>0 DEF SendsOneByOne
<1> DEFINE l == Link
           N == {n \in Nat : n <= Len(commands) => Sent(l, f[n])}
<1>2. LinkOK(l) /\ f[0] = l /\ l.pending \in Nat
  BY <1>1 DEF LinkOK, LinkType
<1> HIDE DEF l
<1>3. 0 \in N
  BY <1>2 DEF Sent
<1>4. \A n \in Nat : n \in N => n + 1 \in N
  <2> SUFFICES ASSUME NEW n \in Nat, Sent(l, f[n]), n + 1 <= Len(commands)
               PROVE  Sent(l, f[n + 1])
    OBVIOUS
  <2>1. commands[n + 1] \in CommandType
    OBVIOUS
  <2> DEFINE x == f[n]
             y == Send(x, commands[n + 1])
  <2>2. f[n + 1] = y
    BY <1>1
  <2>3. LinkOK(x) /\ Sent(l, x)
    BY DEF Sent
  <2> HIDE DEF x
  <2>4. Sent(x, y)
    BY <2>1, <2>3, SendKeeps
  <2> HIDE DEF y
  <2>5. l.pending \in Nat /\ x.pending \in Nat /\ y.pending \in Nat /\ Limit \in Nat
    BY <1>2, <2>3, <2>4, ReplicationAssumption DEF Sent, LinkOK, LinkType
  <2>6. Sent(l, y)
    BY <2>3, <2>4, <2>5 DEF Sent
  <2> QED
    BY <2>2, <2>6
<1> HIDE DEF N
<1>5. Len(commands) \in Nat /\ Len(commands) \in N
  BY <1>3, <1>4, Induction
<1> DEFINE m == f[Len(commands)]
<1>6. Sent(l, m)
  BY <1>5 DEF N
<1>7. Link' = m
  <2>1. m \in LinkType
    BY <1>6 DEF Sent, LinkOK
  <2>2. m = [link |-> m.link, queue |-> m.queue, pending |-> m.pending]
    BY <2>1 DEF LinkType
  <2>3. link' = m.link /\ queue' = m.queue /\ pending' = m.pending
    BY <1>1
  <2> HIDE DEF m
  <2> QED
    BY <2>2, <2>3 DEF Link
<1> HIDE DEF m
<1> QED
  BY <1>6, <1>7 DEF l

-----------------------------------------------------------------------------
(***************************************************************************)
(* The actions.                                                            *)
(***************************************************************************)
LEMMA StreamType ==
    ASSUME NEW c \in CommandType, NEW r, r.store.evicted \in Seq(Keys)
    PROVE  Stream(c, r) \in Seq(CommandType)
<1> DEFINE own == IF c.op # "SET" \/ r.wrote THEN <<ToReplication(c)>> ELSE <<>>
           del == [i \in 1..Len(r.store.evicted) |-> CmdDel(r.store.evicted[i])]
<1>1. ToReplication(c) \in CommandType
  BY ToReplicationType
<1>2. own \in Seq(CommandType)
  <2>1. <<ToReplication(c)>> \in Seq(CommandType) /\ <<>> \in Seq(CommandType)
    BY <1>1
  <2> QED
    BY <2>1
<1>3. \A i \in 1..Len(r.store.evicted) : CmdDel(r.store.evicted[i]) \in CommandType
  BY CommandTypes
<1>4. del \in Seq(CommandType)
  BY <1>3
<1> HIDE DEF own, del
<1>5. own \o del \in Seq(CommandType)
  BY <1>2, <1>4
<1> QED
  BY <1>5 DEF Stream, own, del

\* What the primary's link may do in a step of the command loop.
LinkStep == LinkInv' /\ (link /\ pending' > pending => pending' <= Limit)

LEMMA PropagateLink ==
    ASSUME LinkInv, NEW commands \in Seq(CommandType), Propagate(commands), UNCHANGED <<wire, connected>>
    PROVE  LinkStep
<1>1. Sent(Link, Link')
  BY PropagateKeeps DEF LinkInv
<1>2. Link.link = link /\ Link.pending = pending /\ Link'.link = link' /\ Link'.pending = pending'
  BY DEF Link
<1>3. pending \in Nat /\ pending' \in Nat /\ Limit \in Nat
  BY <1>1, <1>2, ReplicationAssumption DEF LinkInv, LinkOK, LinkType, Sent
<1>4. pending' > pending => pending' <= Limit
  BY <1>1, <1>2, <1>3 DEF Sent
<1>5. LinkInv'
  <2>1. LinkOK(Link) /\ wire \in Seq(CommandType) /\ connected \in BOOLEAN /\ (link => connected)
    BY DEF LinkInv
  <2>2. LinkOK(Link)' /\ (link' => link)
    BY <1>1, <1>2 DEF Sent, LinkOK, LinkType, Link
  <2> QED
    BY <2>1, <2>2 DEF LinkInv
<1> QED
  BY <1>4, <1>5 DEF LinkStep

LEMMA WriteKeeps ==
    ASSUME IInv, NEW c \in Commands, Write(c)
    PROVE  IInv' /\ LinkStep
<1> DEFINE r == Dispatch(primary, c, now)
<1>0. c \in CommandType /\ now \in Int /\ Good(primary)
  BY ReplicationAssumption DEF IInv, StoresInv
<1>1. /\ Reached(r.store, primary) /\ r.ok \in BOOLEAN
      /\ c.op \notin WriteCommands \/ ~r.ok => Harmless(r.store, primary, now)
      /\ (c.op = "SET" /\ r.wrote) \/ (c.op = "INCR" /\ r.ok) => Live(r.store, c.key, now)
  BY <1>0, DispatchGood
<1>2. /\ primary' = DrainEvictions(r.store)
      /\ Propagate(Stream(c, r))
      /\ UNCHANGED <<replica, now, wire, connected>>
  BY DEF Write
<1> HIDE DEF r
<1>3. Good(r.store) /\ r.store.evicted \in Seq(Keys)
  BY <1>1 DEF Reached, Good, Sound, StoreType
<1>4. Good(primary') /\ primary'.evicted = <<>>
  BY <1>2, <1>3, DrainGood
<1>5. Stream(c, r) \in Seq(CommandType)
  BY <1>0, <1>3, StreamType
<1>6. LinkStep
  BY <1>2, <1>5, PropagateLink DEF IInv
<1> QED
  BY <1>2, <1>4, <1>6 DEF IInv, StoresInv, LinkStep

LEMMA ReadKeeps ==
    ASSUME IInv, NEW c \in Commands, Read(c)
    PROVE  StoresInv' /\ UNCHANGED <<now, linkVars, wire, connected>>
<1> DEFINE r == Dispatch(primary, c, now)
<1>0. c \in CommandType /\ now \in Int /\ Good(primary)
  BY ReplicationAssumption DEF IInv, StoresInv
<1>1. /\ Reached(r.store, primary) /\ r.ok \in BOOLEAN
      /\ c.op \notin WriteCommands \/ ~r.ok => Harmless(r.store, primary, now)
      /\ (c.op = "SET" /\ r.wrote) \/ (c.op = "INCR" /\ r.ok) => Live(r.store, c.key, now)
  BY <1>0, DispatchGood
<1>2. /\ c.op \notin WriteCommands \/ ~r.ok
      /\ primary' = r.store
      /\ UNCHANGED <<replica, now, linkVars, wire, connected>>
  BY DEF Read
<1> HIDE DEF r
<1> QED
  BY <1>1, <1>2 DEF IInv, StoresInv, Reached, Harmless

LEMMA SweepKeeps ==
    ASSUME IInv, SweepPrimary \/ SweepReplica
    PROVE  StoresInv' /\ UNCHANGED <<now, linkVars, wire, connected>>
<1>0. now \in Int
  BY DEF IInv
<1>1. CASE SweepPrimary
  <2>1. primary' = Sweep(primary, now) /\ Good(primary)
    BY <1>1 DEF SweepPrimary, IInv, StoresInv
  <2>2. Good(primary') /\ SameOptions(primary', primary) /\ Shows(primary', primary, now)
        /\ primary'.evicted = primary.evicted
    BY <1>0, <2>1, SweepGood
  <2> QED
    BY <1>1, <2>2 DEF SweepPrimary, IInv, StoresInv
<1>2. CASE SweepReplica
  <2>1. replica' = Sweep(replica, now) /\ Good(replica)
    BY <1>2 DEF SweepReplica, IInv, StoresInv
  <2>2. Good(replica') /\ SameOptions(replica', replica) /\ Shows(replica', replica, now)
        /\ replica'.evicted = replica.evicted
    BY <1>0, <2>1, SweepGood
  <2> QED
    BY <1>2, <2>2 DEF SweepReplica, IInv, StoresInv, SameOptions
<1> QED
  BY <1>1, <1>2

LEMMA PumpKeeps ==
    ASSUME IInv, PumpWrite \/ PumpDrained
    PROVE  LinkStep /\ UNCHANGED <<primary, replica, now>>
<1>0. /\ link \in BOOLEAN /\ queue \in Seq(CommandType) /\ pending \in Nat
      /\ pending = Len(queue) \/ pending = Len(queue) + 1
      /\ ~link => queue = <<>> /\ pending = 0
      /\ wire \in Seq(CommandType) /\ connected \in BOOLEAN /\ (link => connected)
  BY DEF IInv, LinkInv, LinkOK, LinkType, Link
<1>1. CASE PumpWrite
  <2>1. link /\ pending <= Len(queue) /\ queue # <<>> /\ wire' = Append(wire, Head(queue))
        /\ queue' = Tail(queue) /\ UNCHANGED <<primary, replica, now, link, pending, connected>>
    BY <1>0, <1>1 DEF PumpWrite, Draining
  <2>2. Head(queue) \in CommandType /\ queue' \in Seq(CommandType) /\ Len(queue') = Len(queue) - 1
    BY <1>0, <2>1
  <2>3. wire' \in Seq(CommandType)
    <3> DEFINE c == Head(queue)
    <3>1. c \in CommandType /\ wire' = Append(wire, c) /\ wire \in Seq(CommandType)
      BY <1>0, <2>1, <2>2
    <3> HIDE DEF c
    <3> QED
      BY ONLY <3>1
  <2>4. pending' = Len(queue') + 1 /\ pending' \in Nat
    <3> DEFINE n == Len(queue)
               m == Len(queue')
    <3>1. n \in Nat /\ m = n - 1 /\ pending' = pending /\ pending \in Nat
          /\ (pending = n \/ pending = n + 1) /\ pending <= n
      BY <1>0, <2>1, <2>2, LenProperties
    <3> HIDE DEF n, m
    <3>2. pending' = m + 1 /\ pending' \in Nat
      BY ONLY <3>1
    <3> QED
      BY <3>2 DEF m
  <2>5. LinkOK(Link)'
    BY <1>0, <2>1, <2>2, <2>4 DEF LinkOK, LinkType, Link
  <2>6. ~(pending' > pending)
    BY <1>0, <2>1
  <2> QED
    BY <1>0, <2>1, <2>3, <2>5, <2>6 DEF LinkStep, LinkInv
<1>2. CASE PumpDrained
  <2>1. link /\ pending > Len(queue) /\ pending' = pending - 1
        /\ UNCHANGED <<primary, replica, now, link, queue, wire, connected>>
    BY <1>2 DEF PumpDrained, Draining
  <2>2. pending' = Len(queue') /\ pending' \in Nat
    BY <1>0, <2>1
  <2>3. LinkOK(Link)'
    BY <1>0, <2>1, <2>2 DEF LinkOK, LinkType, Link
  <2>4. ~(pending' > pending)
    BY <1>0, <2>1
  <2> QED
    BY <1>0, <2>1, <2>3, <2>4 DEF LinkStep, LinkInv
<1> QED
  BY <1>1, <1>2

LEMMA HeartbeatKeeps ==
    ASSUME IInv, Heartbeat
    PROVE  LinkStep /\ UNCHANGED <<primary, replica, now>>
<1>1. <<CmdPing>> \in Seq(CommandType)
  BY CommandTypes
<1>2. Propagate(<<CmdPing>>) /\ UNCHANGED <<primary, replica, now, wire, connected>>
  BY DEF Heartbeat
<1>3. LinkStep
  BY <1>1, <1>2, PropagateLink DEF IInv
<1> QED
  BY <1>2, <1>3

LEMMA ConnectKeeps ==
    ASSUME IInv, Connect
    PROVE  IInv' /\ LinkStep
<1>0. now \in Int /\ Good(primary) /\ ~connected /\ ~link
  BY DEF IInv, StoresInv, LinkInv, Connect
<1>1. primary' = Sweep(primary, now)
  BY DEF Connect
<1>2. Good(primary') /\ SameOptions(primary', primary) /\ Shows(primary', primary, now)
      /\ primary'.evicted = primary.evicted
  BY <1>0, <1>1, SweepGood
<1>3. SnapshotCommands(primary', now) \in Seq(CommandType)
  BY <1>0, <1>2, SnapshotCommandsType
<1>4. queue' \in Seq(CommandType)
  <2>1. <<CmdFlushdb>> \in Seq(CommandType)
    BY CommandTypes
  <2> DEFINE a == <<CmdFlushdb>>
             b == SnapshotCommands(primary', now)
  <2>2. a \in Seq(CommandType) /\ b \in Seq(CommandType) /\ queue' = a \o b
    BY <1>3, <2>1 DEF Connect
  <2> HIDE DEF a, b
  <2> QED
    BY <2>2
<1>5. link' = TRUE /\ pending' = Len(queue') /\ wire' = <<>> /\ connected' = TRUE
      /\ UNCHANGED <<replica, now>>
  BY DEF Connect
<1>6. Len(queue') \in Nat /\ <<>> \in Seq(CommandType)
  BY <1>4
<1>7. LinkOK(Link)'
  BY <1>4, <1>5, <1>6 DEF LinkOK, LinkType, Link
<1>8. LinkInv'
  BY <1>5, <1>6, <1>7 DEF LinkInv
<1>9. StoresInv'
  BY <1>2, <1>5 DEF IInv, StoresInv
<1> QED
  BY <1>0, <1>5, <1>8, <1>9 DEF IInv, LinkStep

LEMMA ApplyKeeps ==
    ASSUME IInv, Apply
    PROVE  IInv' /\ UNCHANGED linkVars
<1> DEFINE c == Head(wire)
           r == Dispatch(replica, c, now)
<1>0. now \in Int /\ Good(replica) /\ wire \in Seq(CommandType) /\ wire # <<>>
  BY DEF IInv, StoresInv, LinkInv, Apply
<1>1. c \in CommandType /\ Tail(wire) \in Seq(CommandType)
  BY <1>0
<1>2. replica' = r.store /\ wire' = Tail(wire) /\ UNCHANGED <<primary, now, linkVars, connected>>
  BY DEF Apply
<1> HIDE DEF c
<1>3. /\ Reached(r.store, replica) /\ r.ok \in BOOLEAN
      /\ c.op \notin WriteCommands \/ ~r.ok => Harmless(r.store, replica, now)
      /\ (c.op = "SET" /\ r.wrote) \/ (c.op = "INCR" /\ r.ok) => Live(r.store, c.key, now)
  BY <1>0, <1>1, DispatchGood
<1> HIDE DEF r
<1>4. StoresInv'
  BY <1>2, <1>3 DEF IInv, StoresInv, Reached, SameOptions, Quiet
<1>5. LinkInv'
  BY <1>1, <1>2 DEF IInv, LinkInv, linkVars, Link
<1> QED
  BY <1>2, <1>4, <1>5 DEF IInv

\* The link is closed, or the replica finds it closed.
LEMMA EndKeeps ==
    ASSUME IInv, StreamEnds \/ LinkLost \/ LinkDropped
    PROVE  LinkStep /\ UNCHANGED <<primary, replica, now>>
<1>0. /\ pending \in Nat /\ LinkOK(Link)
      /\ wire \in Seq(CommandType) /\ connected \in BOOLEAN /\ (link => connected)
  BY DEF IInv, LinkInv, LinkOK, LinkType, Link
<1>1. CASE StreamEnds
  BY <1>0, <1>1 DEF StreamEnds, linkVars, LinkStep, LinkInv, Link
<1>2. CASE LinkLost \/ LinkDropped
  <2>1. link' = FALSE /\ queue' = <<>> /\ pending' = 0 /\ wire' \in {wire, <<>>} /\ connected' \in BOOLEAN
        /\ UNCHANGED <<primary, replica, now>>
    BY <1>0, <1>2 DEF LinkLost, LinkDropped, CloseLink
  <2>2. <<>> \in Seq(CommandType) /\ Len(<<>>) = 0
    OBVIOUS
  <2>3. LinkOK(Link)'
    BY <2>1, <2>2 DEF LinkOK, LinkType, Link
  <2>4. ~(pending' > pending)
    BY <1>0, <2>1
  <2> QED
    BY <1>0, <2>1, <2>2, <2>3, <2>4 DEF LinkStep, LinkInv
<1> QED
  BY <1>1, <1>2

LEMMA RestartKeeps ==
    ASSUME IInv, PrimaryRestarts
    PROVE  IInv' /\ LinkStep
<1>0. /\ pending \in Nat /\ PrimaryOptions \in Options
      /\ wire \in Seq(CommandType) /\ connected \in BOOLEAN
  BY ReplicationAssumption DEF IInv, LinkInv, LinkOK, LinkType, Link
<1>1. /\ primary' = Empty(PrimaryOptions)
      /\ link' = FALSE /\ queue' = <<>> /\ pending' = 0
      /\ UNCHANGED <<replica, now, wire, connected>>
  BY DEF PrimaryRestarts, CloseLink
<1>2. Good(primary') /\ primary'.evicted = <<>>
  BY <1>0, <1>1, NewStoreGood
<1>3. <<>> \in Seq(CommandType) /\ Len(<<>>) = 0
  OBVIOUS
<1>4. LinkOK(Link)'
  BY <1>1, <1>3 DEF LinkOK, LinkType, Link
<1>5. ~(pending' > pending)
  BY <1>0, <1>1
<1>6. LinkInv'
  BY <1>0, <1>1, <1>4 DEF LinkInv
<1> QED
  BY <1>1, <1>2, <1>5, <1>6 DEF IInv, StoresInv, LinkStep

LEMMA InitIInv == Init => IInv
<1> SUFFICES ASSUME Init
             PROVE  IInv
  OBVIOUS
<1> DEFINE o == [PrimaryOptions EXCEPT !.cap = 0]
<1>1. PrimaryOptions \in Options /\ o \in Options /\ o.cap = 0
  BY ReplicationAssumption DEF Options
<1>2. primary = Empty(PrimaryOptions) /\ replica = Empty(o)
  BY DEF Init
<1> HIDE DEF o
<1>3. Good(primary) /\ primary.evicted = <<>>
  BY <1>1, <1>2, NewStoreGood
<1>4. Good(replica) /\ replica.evicted = <<>> /\ replica.cap = o.cap
  BY <1>1, <1>2, NewStoreGood
<1>5. StoresInv
  BY <1>1, <1>3, <1>4 DEF StoresInv
<1>6. <<>> \in Seq(CommandType) /\ Len(<<>>) = 0
  OBVIOUS
<1>7. LinkInv
  BY <1>6 DEF Init, LinkInv, LinkOK, LinkType, Link
<1> QED
  BY <1>5, <1>7 DEF Init, IInv

\* What every step does, to the invariant and to the backlog.
LEMMA NextKeeps == IInv /\ [Next]_vars => IInv' /\ LinkStep
<1> SUFFICES ASSUME IInv, [Next]_vars
             PROVE  IInv' /\ LinkStep
  OBVIOUS
<1>0. pending \in Nat
  BY DEF IInv, LinkInv, LinkOK, LinkType, Link
<1>a. ASSUME UNCHANGED <<linkVars, wire, connected>>
      PROVE  LinkStep
  BY <1>0, <1>a DEF IInv, LinkInv, LinkStep, linkVars, Link
<1>1. CASE UNCHANGED vars
  BY <1>1, <1>a DEF vars, IInv, StoresInv, LinkStep
<1>2. ASSUME NEW c \in Commands, Write(c)
      PROVE  IInv' /\ LinkStep
  BY <1>2, WriteKeeps
<1>3. ASSUME NEW c \in Commands, Read(c)
      PROVE  IInv' /\ LinkStep
  BY <1>3, <1>a, ReadKeeps DEF IInv, LinkStep
<1>4. CASE PumpWrite \/ PumpDrained
  BY <1>4, PumpKeeps DEF IInv, StoresInv, LinkStep
<1>5. CASE Heartbeat
  BY <1>5, HeartbeatKeeps DEF IInv, StoresInv, LinkStep
<1>6. CASE Connect
  BY <1>6, ConnectKeeps
<1>7. CASE Apply
  <2>1. IInv' /\ pending' = pending
    BY <1>7, ApplyKeeps DEF linkVars
  <2> QED
    BY <1>0, <2>1 DEF IInv, LinkStep
<1>8. CASE StreamEnds \/ LinkLost \/ LinkDropped
  BY <1>8, EndKeeps DEF IInv, StoresInv, LinkStep
<1>9. CASE PrimaryRestarts
  BY <1>9, RestartKeeps
<1>10. CASE SweepPrimary \/ SweepReplica
  BY <1>10, <1>a, SweepKeeps DEF IInv, LinkStep
<1>11. CASE Tick
  BY <1>11, <1>a DEF Tick, IInv, StoresInv, LinkStep
<1> QED
  BY <1>1, <1>2, <1>3, <1>4, <1>5, <1>6, <1>7, <1>8, <1>9, <1>10, <1>11 DEF Next

\* The inductive invariant holds in every reachable state.
THEOREM Invariance == Spec => []IInv
BY InitIInv, NextKeeps, PTL DEF Spec

-----------------------------------------------------------------------------
(***************************************************************************)
(* _pending counts the queue and at most one payload being written, a      *)
(* closed link has neither, the replica has no cap and evicts nothing.     *)
(***************************************************************************)
THEOREM TypeCorrect == Spec => []TypeOK
<1>1. IInv => TypeOK
  <2> SUFFICES ASSUME IInv
               PROVE  TypeOK
    OBVIOUS
  <2>1. /\ link \in BOOLEAN /\ queue \in Seq(CommandType) /\ pending \in Nat
        /\ pending = Len(queue) \/ pending = Len(queue) + 1
        /\ ~link => queue = <<>> /\ pending = 0
        /\ connected \in BOOLEAN /\ (link => connected)
    BY DEF IInv, LinkInv, LinkOK, LinkType, Link
  <2>2. pending \in Len(queue)..Len(queue) + 1
    BY <2>1
  <2> QED
    BY <2>1, <2>2 DEF TypeOK, IInv, StoresInv
<1> QED
  BY <1>1, Invariance, PTL

(***************************************************************************)
(* A link that is open never grows past REPLICA_BACKLOG_LIMIT by writes,   *)
(* evictions or heartbeats: only the snapshot of a new link may (send).    *)
(***************************************************************************)
THEOREM BacklogLimited == Spec => BacklogBounded
<1> DEFINE A == link /\ pending' > pending => pending' <= Limit
<1>1. IInv /\ [Next]_vars => [A]_vars
  BY NextKeeps DEF LinkStep
<1>2. Spec => [][A]_vars
  BY <1>1, Invariance, PTL DEF Spec
<1> QED
  BY <1>2 DEF BacklogBounded

-----------------------------------------------------------------------------
(***************************************************************************)
(* Two stores without deadlines that hold the same stay the same, whenever *)
(* the same commands reach them.                                           *)
(***************************************************************************)
\* The commands that give no key a deadline.
Lasting ==
    {c \in CommandType : c.op \notin {"EXPIRE", "PEXPIREAT"} /\ (c.op = "SET" => c.ttl = None)}

NoDeadline(e) == e = None \/ e.expireAt = None

Timeless(s) == \A k \in Keys : NoDeadline(s.data[k])

Same(s, t) == \A k \in Keys : s.data[k] = t.data[k]

LEMMA JoinThree ==
    ASSUME NEW S, NEW a \in Seq(S), NEW b \in Seq(S), NEW c \in Seq(S)
    PROVE  a \o b \in Seq(S) /\ a \o (b \o c) = (a \o b) \o c
OBVIOUS

LEMMA LastingCommands == \A q \in Seq(Lasting) : q \in Seq(CommandType)
<1>1. Lasting \subseteq CommandType
  BY DEF Lasting
<1> QED
  BY <1>1

LEMMA LastingEntry ==
    ASSUME NEW c \in Lasting, NEW e, NoDeadline(e), e = None \/ e \in Entry, NEW n, NEW m, NEW k,
           NEW d, Becomes(d, e, c, k, n)
    PROVE  NoDeadline(d) /\ Becomes(d, e, c, k, m)
<1>0. Fresh(e, n) = e /\ Fresh(e, m) = e /\ c \in CommandType /\ Absolute(c)
  BY DEF Fresh, IsExpired, NoDeadline, Lasting, Absolute
<1>1. \A v : NoDeadline(NewEntry(v, None))
  BY DEF NoDeadline, NewEntry
<1>2. CASE c.op \in Keyed
  <2>1. After(e, c, n) = After(e, c, m)
    BY <1>0, <1>2, SameAfter
  <2>2. d = IF k = c.key THEN After(e, c, n) ELSE e
    BY <1>2 DEF Becomes
  <2>3. Becomes(d, e, c, k, m)
    BY <1>2, <2>1, <2>2 DEF Becomes, Keyed
  <2>4. NoDeadline(After(e, c, n))
    <3>1. CASE c.op = "SET"
      BY <1>0, <1>1, <3>1 DEF After, Lasting
    <3>2. CASE c.op = "INCR"
      <4>1. NoDeadline(Counted(e, c.delta))
        BY <1>1 DEF Counted, NoDeadline
      <4> QED
        BY <1>0, <3>2, <4>1 DEF After
    <3>3. CASE c.op = "DEL"
      BY <3>3 DEF After, NoDeadline
    <3>4. CASE c.op = "PERSIST"
      <4>1. NoDeadline(Redated(e, None))
        BY DEF Redated, NoDeadline, Entry
      <4> QED
        BY <1>0, <3>4, <4>1 DEF After
    <3>5. CASE c.op \in {"GET", "TTL"}
      BY <1>0, <3>5 DEF After
    <3> QED
      BY <1>2, <3>1, <3>2, <3>3, <3>4, <3>5 DEF Keyed, Lasting
  <2> QED
    BY <2>2, <2>3, <2>4
<1>3. CASE c.op = "MSET"
  BY <1>1, <1>3 DEF Becomes, Keyed, Assigned
<1>4. CASE c.op = "FLUSHDB"
  BY <1>4 DEF Becomes, Keyed, NoDeadline
<1>5. CASE c.op = "KEYS"
  BY <1>0, <1>5 DEF Becomes, Keyed
<1>6. CASE c.op = "PING"
  BY <1>6 DEF Becomes, Keyed
<1> QED
  BY <1>2, <1>3, <1>4, <1>5, <1>6 DEF Lasting, CommandType, Keyed

LEMMA StillEntry ==
    ASSUME NEW s, Still(s) \/ Good(s), NEW k \in Keys
    PROVE  s.data[k] = None \/ s.data[k] \in Entry
BY DEF Still, Good, Sound, StoreType, DataType

LEMMA SameDispatch ==
    ASSUME NEW s, NEW t, Still(s), Still(t), Timeless(s), Same(s, t), NEW c \in Lasting,
           NEW n \in Int, NEW m \in Int,
           NEW u, u = Dispatch(s, c, n).store, NEW v, v = Dispatch(t, c, m).store
    PROVE  Still(u) /\ Still(v) /\ Timeless(u) /\ Same(u, v)
<1>0. c \in CommandType
  BY DEF Lasting
<1>1. Still(u) /\ \A k \in Keys : Becomes(u.data[k], s.data[k], c, k, n)
  BY <1>0, DispatchEffect
<1>2. Still(v) /\ \A k \in Keys : Becomes(v.data[k], t.data[k], c, k, m)
  BY <1>0, DispatchEffect
<1>3. ASSUME NEW k \in Keys
      PROVE  NoDeadline(u.data[k]) /\ u.data[k] = v.data[k]
  <2> DEFINE e == s.data[k]
             d == u.data[k]
             x == v.data[k]
  <2>1. NoDeadline(e) /\ (e = None \/ e \in Entry) /\ Becomes(d, e, c, k, n) /\ Becomes(x, e, c, k, m)
    BY <1>1, <1>2, StillEntry DEF Timeless, Same
  <2> HIDE DEF e, d, x
  <2>2. NoDeadline(d) /\ Becomes(d, e, c, k, m)
    BY <2>1, LastingEntry
  <2>3. d = x
    BY <1>0, <2>1, <2>2, BecomesOnce
  <2> QED
    BY <2>2, <2>3 DEF d, x
<1> QED
  BY <1>1, <1>2, <1>3 DEF Timeless, Same

LEMMA SameDispatchAll ==
    ASSUME NEW s, NEW t, Still(s), Still(t), Timeless(s), Same(s, t), NEW q \in Seq(Lasting),
           NEW n \in Int, NEW m \in Int,
           NEW u, u = DispatchAll(s, q, n), NEW v, v = DispatchAll(t, q, m)
    PROVE  Still(u) /\ Still(v) /\ Timeless(u) /\ Same(u, v)
<1> DEFINE L == Len(q)
<1>0. q \in Seq(CommandType) /\ L \in Nat /\ \A i \in 1..L : q[i] \in Lasting
  BY LastingCommands
<1>1. PICK f : OneByOne(f, s, q, n)
  BY <1>0, DispatchSteps
<1>2. PICK g : OneByOne(g, t, q, m)
  BY <1>0, DispatchSteps
<1>3. /\ f[0] = s /\ u = f[L] /\ g[0] = t /\ v = g[L]
      /\ \A i \in Nat : i + 1 <= L => f[i + 1] = Dispatch(f[i], q[i + 1], n).store
      /\ \A i \in Nat : i + 1 <= L => g[i + 1] = Dispatch(g[i], q[i + 1], m).store
  BY <1>1, <1>2 DEF OneByOne
<1> HIDE DEF L
<1> DEFINE Holds(i) == Still(f[i]) /\ Still(g[i]) /\ Timeless(f[i]) /\ Same(f[i], g[i])
           N == {i \in Nat : i <= L => Holds(i)}
<1>4. 0 \in N
  BY <1>3
<1>5. \A i \in Nat : i \in N => i + 1 \in N
  <2> SUFFICES ASSUME NEW i \in Nat, Holds(i), i + 1 <= L
               PROVE  Holds(i + 1)
    <3> HIDE DEF Holds
    <3> QED
      BY <1>0
  <2> DEFINE x == f[i]
             y == g[i]
             c == q[i + 1]
             w == f[i + 1]
             z == g[i + 1]
  <2>1. c \in Lasting /\ w = Dispatch(x, c, n).store /\ z = Dispatch(y, c, m).store
    BY <1>0, <1>3
  <2>2. Still(x) /\ Still(y) /\ Timeless(x) /\ Same(x, y)
    OBVIOUS
  <2> HIDE DEF x, y, c, w, z
  <2>3. Still(w) /\ Still(z) /\ Timeless(w) /\ Same(w, z)
    BY <2>1, <2>2, SameDispatch
  <2> QED
    BY <2>3 DEF w, z
<1> HIDE DEF N
<1>6. L \in N
  BY <1>0, <1>4, <1>5, Induction
<1>7. Holds(L)
  <2> HIDE DEF Holds
  <2> QED
    BY <1>0, <1>6 DEF N
<1> QED
  BY <1>3, <1>7

\* The DELs that follow a command take away exactly what it evicted.
LEMMA DelsRemove ==
    ASSUME NEW s, Still(s), NEW q \in Seq(Keys), NEW n \in Int,
           NEW del, del = [i \in 1..Len(q) |-> CmdDel(q[i])], NEW u, u = DispatchAll(s, del, n)
    PROVE  \A k \in Keys : u.data[k] = IF In(q, k) THEN None ELSE s.data[k]
<1> DEFINE L == Len(q)
<1>0. /\ L \in Nat /\ Len(del) = L /\ del \in Seq(CommandType)
      /\ \A i \in 1..L : q[i] \in Keys /\ del[i] = CmdDel(q[i]) /\ del[i] \in CommandType
  <2>1. L \in Nat /\ \A i \in 1..L : q[i] \in Keys /\ CmdDel(q[i]) \in CommandType
    BY CommandTypes
  <2>2. del \in Seq(CommandType) /\ Len(del) = L /\ \A i \in 1..L : del[i] = CmdDel(q[i])
    BY <2>1
  <2> QED
    BY <2>1, <2>2
<1>1. PICK f : OneByOne(f, s, del, n)
  BY <1>0, DispatchSteps
<1>2. /\ f[0] = s /\ u = f[L]
      /\ \A i \in Nat : i + 1 <= L => f[i + 1] = Dispatch(f[i], del[i + 1], n).store
  BY <1>0, <1>1 DEF OneByOne
<1> HIDE DEF L
<1> DEFINE Done(k, i) == f[i].data[k] = IF \E j \in 1..i : q[j] = k THEN None ELSE s.data[k]
           Holds(i) == Still(f[i]) /\ \A k \in Keys : Done(k, i)
           N == {i \in Nat : i <= L => Holds(i)}
<1>3. 0 \in N
  BY <1>2
<1>4. \A i \in Nat : i \in N => i + 1 \in N
  <2> SUFFICES ASSUME NEW i \in Nat, Holds(i), i + 1 <= L
               PROVE  Holds(i + 1)
    <3> HIDE DEF Holds
    <3> QED
      BY <1>0
  <2> DEFINE x == f[i]
             y == f[i + 1]
             c == del[i + 1]
  <2>0. i + 1 \in 1..L
    BY <1>0
  <2>1. c \in CommandType /\ y = Dispatch(x, c, n).store /\ c = CmdDel(q[i + 1]) /\ Still(x)
    BY <1>0, <1>2, <2>0
  <2>2. c.op = "DEL" /\ c.key = q[i + 1]
    BY <2>1 DEF CmdDel
  <2> HIDE DEF x, y, c
  <2>3. Still(y) /\ \A k \in Keys : Becomes(y.data[k], x.data[k], c, k, n)
    BY <2>1, DispatchEffect
  <2>4. \A k \in Keys : y.data[k] = IF k = q[i + 1] THEN None ELSE x.data[k]
    BY <2>2, <2>3 DEF Becomes, Keyed, After
  <2>5. ASSUME NEW k \in Keys
        PROVE  Done(k, i + 1)
    <3>1. Done(k, i)
      OBVIOUS
    <3>2. /\ \A j \in 1..(i + 1) : j \in 1..i \/ j = i + 1
          /\ \A j \in 1..i : j \in 1..(i + 1)
          /\ i + 1 \in 1..(i + 1)
      OBVIOUS
    <3> QED
      BY <2>4, <3>1, <3>2 DEF x, y
  <2> QED
    BY <2>3, <2>5 DEF y
<1> HIDE DEF N
<1>5. L \in N
  BY <1>0, <1>3, <1>4, Induction
<1>6. Holds(L)
  <2> HIDE DEF Holds
  <2> QED
    BY <1>0, <1>5 DEF N
<1> QED
  BY <1>2, <1>6 DEF In, L

-----------------------------------------------------------------------------
(***************************************************************************)
(* What the primary streams for a write does to a replica what the write   *)
(* did to the primary, evictions included.                                 *)
(***************************************************************************)
\* MSET evicts between its pairs, and its DELs come after all of them: only a
\* primary that does not evict may execute it.
Streamable(c) == c \in Lasting /\ (c.op = "MSET" => NoEviction(PrimaryOptions))

LEMMA FreshLasts ==
    ASSUME NEW e, NoDeadline(e), NEW n
    PROVE  Fresh(e, n) = e
BY DEF Fresh, NoDeadline, IsExpired

LEMMA ReadLeaves ==
    ASSUME NEW p, Good(p), p.evicted = <<>>, Timeless(p), NEW c \in Lasting, NEW n \in Int,
           NEW r, r = Dispatch(p, c, n), c.op \notin WriteCommands \/ ~r.ok
    PROVE  Same(r.store, p)
<1>0. c \in CommandType /\ \A k \in Keys : Fresh(p.data[k], n) = p.data[k]
  BY FreshLasts DEF Timeless, Lasting
<1>1. CASE c.op \in Keyed
  <2>1. /\ c.op \notin {"SET", "INCR"} => Exactly(r.store, p, c, n) /\ r.ok = TRUE
        /\ c.op = "SET" => r.ok = TRUE
        /\ c.op = "INCR" => /\ r.ok = CanCount(Fresh(p.data[c.key], n), c.delta)
                            /\ ~r.ok => Exactly(r.store, p, c, n)
        /\ c.key \in Keys
    BY <1>0, <1>1, KeyedEffect
  <2>2. c.op \in {"GET", "TTL", "INCR"}
    BY <1>1, <2>1 DEF Keyed, WriteCommands
  <2>3. Exactly(r.store, p, c, n)
    BY <2>1, <2>2 DEF WriteCommands
  <2>4. After(p.data[c.key], c, n) = p.data[c.key]
    <3>1. CASE c.op \in {"GET", "TTL"}
      BY <1>0, <2>1, <3>1 DEF After
    <3>2. CASE c.op = "INCR"
      BY <1>0, <2>1, <3>2 DEF After, WriteCommands
    <3> QED
      BY <2>2, <3>1, <3>2
  <2> QED
    BY <2>3, <2>4 DEF Exactly, Updated, Same
<1>2. CASE c.op = "KEYS"
  <2> DEFINE t == Sweep(p, n)
  <2>1. r.store = t /\ Sound(p)
    BY <1>2 DEF Dispatch, Result, Good
  <2>2. \A k \in Keys : Kept(t.data[k], p.data[k], n)
    BY <2>1, SweepEntries
  <2> HIDE DEF t
  <2> QED
    BY <1>0, <2>1, <2>2 DEF Kept, Same
<1>3. CASE c.op = "PING"
  BY <1>3 DEF Dispatch, Result, Same
<1>4. CASE c.op \in {"MSET", "FLUSHDB"}
  BY <1>4 DEF Dispatch, Result, WriteCommands
<1> QED
  BY <1>0, <1>1, <1>2, <1>3, <1>4 DEF CommandType, Keyed

LEMMA ToReplicationLasting ==
    ASSUME NEW c \in Lasting
    PROVE  ToReplication(c) \in Lasting
<1>1. c \in CommandType /\ ToReplication(c) \in CommandType
  BY ToReplicationType DEF Lasting
<1> QED
  BY <1>1 DEF Lasting, ToReplication, CmdSet

LEMMA DelLasting == \A k \in Keys : CmdDel(k) \in Lasting
BY CommandTypes DEF Lasting, CmdDel

LEMMA StreamLasting ==
    ASSUME NEW c \in Lasting, NEW r, r.store.evicted \in Seq(Keys)
    PROVE  Stream(c, r) \in Seq(Lasting)
<1> DEFINE own == IF c.op # "SET" \/ r.wrote THEN <<ToReplication(c)>> ELSE <<>>
           del == [i \in 1..Len(r.store.evicted) |-> CmdDel(r.store.evicted[i])]
<1>1. ToReplication(c) \in Lasting
  BY ToReplicationLasting
<1>2. own \in Seq(Lasting)
  <2>1. <<ToReplication(c)>> \in Seq(Lasting) /\ <<>> \in Seq(Lasting)
    BY <1>1
  <2> QED
    BY <2>1
<1>3. \A i \in 1..Len(r.store.evicted) : CmdDel(r.store.evicted[i]) \in Lasting
  BY DelLasting
<1>4. del \in Seq(Lasting)
  BY <1>3
<1> HIDE DEF own, del
<1>5. own \o del \in Seq(Lasting)
  BY <1>2, <1>4
<1> QED
  BY <1>5 DEF Stream, own, del

\* The command itself: the DELs that follow it are left to bring the two stores
\* together.
Nearly(y, t) == \A k \in Keys : ~In(t.evicted, k) => y.data[k] = t.data[k]

LEMMA OwnMirrors ==
    ASSUME NEW c, Streamable(c), c.op \in WriteCommands,
           NEW p, Good(p), p.evicted = <<>>, Timeless(p), SameOptions(p, PrimaryOptions),
           NEW x, Still(x), Same(x, p), NEW n \in Int,
           NEW r, r = Dispatch(p, c, n), c.op # "SET" \/ r.wrote, r.ok,
           NEW y, y = Dispatch(x, ToReplication(c), n).store
    PROVE  /\ Still(y) /\ Nearly(y, r.store)
           /\ \A k \in Keys : /\ NoDeadline(r.store.data[k])
                              /\ In(r.store.evicted, k) => r.store.data[k] = None
<1> DEFINE d == ToReplication(c)
           t == r.store
<1>0. c \in CommandType /\ c \in Lasting /\ d \in CommandType /\ d \in Lasting
  BY ToReplicationLasting DEF Streamable, Lasting
<1>1. Still(y) /\ \A k \in Keys : Becomes(y.data[k], x.data[k], d, k, n)
  BY <1>0, DispatchEffect
<1>2. \A k \in Keys : /\ Becomes(y.data[k], p.data[k], d, k, n) /\ NoDeadline(p.data[k])
                      /\ (p.data[k] = None \/ p.data[k] \in Entry)
  BY <1>1, StillEntry DEF Same, Timeless
<1>3. \A k \in Keys : NoDeadline(y.data[k])
  <2> TAKE k \in Keys
  <2> DEFINE a == y.data[k]
             e == p.data[k]
  <2>1. Becomes(a, e, d, k, n) /\ NoDeadline(e) /\ (e = None \/ e \in Entry)
    BY <1>2
  <2> HIDE DEF a, e, d
  <2>2. NoDeadline(a)
    BY <1>0, <2>1, LastingEntry
  <2> QED
    BY <2>2 DEF a
<1>4. CASE c.op \in Keyed
  <2>1. /\ c.key \in Keys /\ Roughly(t, p, c, n)
        /\ c.op = "SET" => r.wrote = ~SetRefused(Fresh(p.data[c.key], n), c)
    BY <1>0, <1>4, KeyedEffect
  <2>2. d.op = c.op /\ d.key = c.key
    BY <1>4 DEF ToReplication, CmdSet
  <2>3. After(p.data[c.key], d, n) = After(p.data[c.key], c, n)
    <3>1. CASE c.op = "SET"
      <4>1. ~SetRefused(Fresh(p.data[c.key], n), c)
        BY <2>1, <3>1
      <4>2. d.op = "SET" /\ d.value = c.value /\ d.ttl = c.ttl /\ d.mode = "always"
        BY <3>1 DEF ToReplication, CmdSet
      <4>3. ~SetRefused(Fresh(p.data[c.key], n), d)
        BY <4>2 DEF SetRefused
      <4> HIDE DEF d
      <4> QED
        BY <3>1, <4>1, <4>2, <4>3 DEF After
    <3>2. CASE c.op # "SET"
      BY <3>2 DEF ToReplication
    <3> QED
      BY <3>1, <3>2
  <2> HIDE DEF d, t
  <2>4. \A k \in Keys : y.data[k] = Updated(p, c, n, k)
    BY <1>2, <1>4, <2>2, <2>3 DEF Becomes, Updated
  <2>5. \A k \in Keys : IF In(t.evicted, k) THEN t.data[k] = None ELSE Kept(t.data[k], y.data[k], n)
    BY <2>1, <2>4 DEF Roughly
  <2>6. \A k \in Keys : IF In(t.evicted, k) THEN t.data[k] = None ELSE t.data[k] = y.data[k]
    BY <1>3, <2>5, FreshLasts DEF Kept
  <2> QED
    BY <1>1, <1>3, <2>6 DEF Nearly, NoDeadline, t
<1>5. CASE c.op \in {"MSET", "FLUSHDB"}
  <2>0. d = c
    BY <1>5 DEF ToReplication
  <2>1. t.evicted = <<>> /\ \A k \in Keys : t.data[k] = y.data[k]
    <3>1. CASE c.op = "MSET"
      <4>1. Still(p)
        BY <3>1 DEF Still, NoEviction, SameOptions, Streamable
      <4>2. Still(t) /\ \A k \in Keys : Becomes(t.data[k], p.data[k], c, k, n)
        BY <1>0, <4>1, DispatchEffect
      <4>3. ASSUME NEW k \in Keys
            PROVE  t.data[k] = y.data[k]
        <5> DEFINE a == y.data[k]
                   b == t.data[k]
                   e == p.data[k]
        <5>1. Becomes(a, e, c, k, n) /\ Becomes(b, e, c, k, n)
          BY <1>2, <2>0, <4>2
        <5> HIDE DEF a, b, e
        <5>2. a = b
          BY <1>0, <5>1, BecomesOnce
        <5> QED
          BY <5>2 DEF a, b
      <4> QED
        BY <4>2, <4>3 DEF Still
    <3>2. CASE c.op = "FLUSHDB"
      <4>1. t = Flush(p)
        BY <3>2 DEF Dispatch, Result
      <4>2. p \in StoreType
        BY DEF Good, Sound
      <4>3. t.evicted = <<>> /\ \A k \in Keys : t.data[k] = None
        <5> HIDE DEF t
        <5> QED
          BY <4>1, <4>2 DEF Flush, StoreType
      <4>4. \A k \in Keys : y.data[k] = None
        BY <1>2, <2>0, <3>2 DEF Becomes, Keyed
      <4> QED
        BY <4>3, <4>4
    <3> QED
      BY <1>5, <3>1, <3>2
  <2>2. \A k : ~In(<<>>, k)
    BY DEF In
  <2> HIDE DEF t
  <2> QED
    BY <1>1, <1>3, <2>1, <2>2 DEF Nearly, t
<1> QED
  BY <1>0, <1>4, <1>5 DEF CommandType, Keyed, WriteCommands

LEMMA StreamMirrors ==
    ASSUME NEW c, Streamable(c), c.op \in WriteCommands,
           NEW p, Good(p), p.evicted = <<>>, Timeless(p), SameOptions(p, PrimaryOptions),
           NEW x, Still(x), Same(x, p), NEW n \in Int,
           NEW r, r = Dispatch(p, c, n), r.ok,
           NEW y, y = DispatchAll(x, Stream(c, r), n)
    PROVE  Timeless(r.store) /\ Same(y, r.store)
<1> DEFINE t == r.store
           own == IF c.op # "SET" \/ r.wrote THEN <<ToReplication(c)>> ELSE <<>>
           del == [i \in 1..Len(t.evicted) |-> CmdDel(t.evicted[i])]
<1>0. c \in CommandType /\ c \in Lasting /\ ToReplication(c) \in CommandType
  BY ToReplicationType DEF Streamable, Lasting
<1>1. t.evicted \in Seq(Keys)
  BY <1>0, DispatchGood DEF Reached, Good, Sound, StoreType
<1>2. Stream(c, r) = own \o del
  BY DEF Stream
<1>3. del \in Seq(CommandType)
  <2>1. \A i \in 1..Len(t.evicted) : CmdDel(t.evicted[i]) \in CommandType
    BY <1>1, CommandTypes
  <2> QED
    BY <1>1, <2>1
<1>4. CASE c.op # "SET" \/ r.wrote
  <2> DEFINE b == <<ToReplication(c)>>
             z == Dispatch(x, ToReplication(c), n).store
  <2>1. b \in Seq(CommandType) /\ Stream(c, r) = b \o del
    <3>1. b \in Seq(CommandType)
      BY <1>0
    <3>2. own = b
      BY <1>4
    <3> HIDE DEF own, b, del
    <3> QED
      BY <1>2, <3>1, <3>2
  <2>2. DispatchAll(x, b, n) = z
    BY <1>0, DispatchOne
  <2>3. /\ Still(z) /\ Nearly(z, t)
        /\ \A k \in Keys : NoDeadline(t.data[k]) /\ (In(t.evicted, k) => t.data[k] = None)
    BY <1>4, OwnMirrors
  <2> HIDE DEF b, z, t
  <2>4. y = DispatchAll(z, del, n)
    <3> HIDE DEF del
    <3> QED
      BY <1>3, <2>1, <2>2, DispatchConcat
  <2>5. \A k \in Keys : y.data[k] = IF In(t.evicted, k) THEN None ELSE z.data[k]
    BY <1>1, <2>3, <2>4, DelsRemove
  <2> QED
    BY <2>3, <2>5 DEF Nearly, Timeless, Same, t
<1>5. CASE c.op = "SET" /\ ~r.wrote
  <2>1. /\ c.key \in Keys /\ r.wrote = ~SetRefused(Fresh(p.data[c.key], n), c)
        /\ Exactly(t, p, c, n)
    BY <1>0, <1>5, KeyedEffect DEF Keyed
  <2>2. After(p.data[c.key], c, n) = p.data[c.key]
    BY <1>5, <2>1, FreshLasts DEF After, Timeless
  <2>3. t.evicted = <<>> /\ \A k \in Keys : t.data[k] = p.data[k]
    BY <2>1, <2>2 DEF Exactly, Updated
  <2>4. Stream(c, r) = <<>>
    <3>1. own = <<>> /\ del = <<>>
      <4> HIDE DEF t
      <4> QED
        BY <1>5, <2>3
    <3> QED
      BY <1>2, <3>1
  <2>5. y = x
    BY <2>4, DispatchNothing
  <2> QED
    BY <2>3, <2>5 DEF Timeless, Same, t
<1> QED
  BY <1>4, <1>5

-----------------------------------------------------------------------------
(***************************************************************************)
(* A link that stays open has queued all it was sent, in order.            *)
(***************************************************************************)
Grown(m, q, commands, n) ==
    /\ Len(m) = Len(q) + n
    /\ \A i \in 1..Len(q) : m[i] = q[i]
    /\ \A i \in 1..n : m[Len(q) + i] = commands[i]

LEMMA GrownAll ==
    ASSUME NEW C, NEW q \in Seq(C), NEW commands \in Seq(C), NEW m \in Seq(C),
           Grown(m, q, commands, Len(commands))
    PROVE  m = q \o commands
<1> DEFINE a == Len(q)
           b == Len(commands)
           w == q \o commands
<1>1. a \in Nat /\ b \in Nat /\ Len(m) = a + b /\ Len(w) = a + b /\ w \in Seq(C)
  BY DEF Grown
<1>2. ASSUME NEW i \in 1..(a + b)
      PROVE  m[i] = w[i]
  <2>1. CASE i <= a
    <3>1. i \in 1..a
      BY <1>1, <2>1
    <3> QED
      BY <3>1 DEF Grown
  <2>2. CASE i > a
    <3> DEFINE j == i - a
    <3>1. j \in 1..b /\ i = a + j
      BY <1>1, <2>2
    <3>2. w[i] = commands[j]
      BY <1>1, <2>2
    <3>3. m[a + j] = commands[j]
      BY <3>1 DEF Grown
    <3> QED
      BY <3>1, <3>2, <3>3
  <2> QED
    BY <1>1, <2>1, <2>2
<1> HIDE DEF a, b, w
<1>3. m = w
  BY <1>1, <1>2
<1> QED
  BY <1>3 DEF w

LEMMA SendGrows ==
    ASSUME NEW C, C \subseteq CommandType, NEW q \in Seq(C), NEW commands \in Seq(C),
           NEW n \in Nat, n + 1 <= Len(commands),
           NEW l, LinkOK(l), l.queue \in Seq(C), l.link => Grown(l.queue, q, commands, n),
           NEW m, m = Send(l, commands[n + 1])
    PROVE  m.queue \in Seq(C) /\ (m.link => l.link /\ Grown(m.queue, q, commands, n + 1))
<1>0. l \in LinkType /\ l.link \in BOOLEAN /\ commands[n + 1] \in C
  BY DEF LinkOK, LinkType
<1>1. CASE ~l.link
  BY <1>1 DEF Send
<1>2. CASE l.link /\ l.pending + 1 > Limit
  <2>1. m.link = FALSE /\ m.queue = <<>>
    BY <1>2 DEF Send, Closed
  <2>2. <<>> \in Seq(C)
    OBVIOUS
  <2> QED
    BY <2>1, <2>2
<1>3. CASE l.link /\ ~(l.pending + 1 > Limit)
  <2> DEFINE c == commands[n + 1]
             u == l.queue
             v == Append(u, c)
  <2>1. m.queue = v
    BY <1>0, <1>3 DEF Send, LinkType
  <2>2. Grown(u, q, commands, n) /\ u \in Seq(C) /\ c \in C
    BY <1>0, <1>3
  <2> HIDE DEF c, u
  <2>3. v \in Seq(C) /\ Len(v) = Len(u) + 1 /\ v[Len(u) + 1] = c /\ \A i \in 1..Len(u) : v[i] = u[i]
    BY <2>2
  <2> HIDE DEF v
  <2>4. Grown(v, q, commands, n + 1)
    <3> DEFINE a == Len(q)
    <3>1. a \in Nat /\ Len(u) = a + n /\ (\A i \in 1..a : u[i] = q[i])
          /\ (\A i \in 1..n : u[a + i] = commands[i])
      BY <2>2 DEF Grown
    <3> HIDE DEF a
    <3>2. Len(v) = a + (n + 1)
      BY <2>3, <3>1
    <3>3. \A i \in 1..a : v[i] = q[i]
      BY <2>3, <3>1
    <3>4. \A i \in 1..n : v[a + i] = commands[i]
      BY <2>3, <3>1
    <3>5. v[a + (n + 1)] = commands[n + 1]
      <4>1. a + (n + 1) = Len(u) + 1
        BY <3>1
      <4> QED
        BY <2>3, <4>1 DEF c
    <3>6. \A i \in 1..(n + 1) : v[a + i] = commands[i]
      <4> TAKE i \in 1..(n + 1)
      <4>1. i \in 1..n \/ i = n + 1
        OBVIOUS
      <4> QED
        BY <3>4, <3>5, <4>1
    <3> QED
      BY <3>2, <3>3, <3>6 DEF Grown, a
  <2> QED
    BY <1>3, <2>1, <2>3, <2>4
<1> QED
  BY <1>0, <1>1, <1>2, <1>3

LEMMA PropagateAppends ==
    ASSUME LinkOK(Link), NEW C, C \subseteq CommandType, queue \in Seq(C), NEW commands \in Seq(C),
           Propagate(commands)
    PROVE  queue' \in Seq(C) /\ (link' => link /\ queue' = queue \o commands)
<1> DEFINE L == Len(commands)
<1>0. /\ commands \in Seq(CommandType) /\ L \in Nat
      /\ \A i \in 1..L : commands[i] \in CommandType
  <2>1. L \in Nat /\ \A i \in 1..L : commands[i] \in C
    OBVIOUS
  <2>2. commands \in [1..L -> C]
    OBVIOUS
  <2>3. \A i \in 1..L : commands[i] \in CommandType
    BY <2>1
  <2> QED
    BY <2>1, <2>3
<1>1. PICK f : SendsOneByOne(f, commands)
  BY <1>0, PropagateSteps
<1>2. /\ f[0] = Link
      /\ \A n \in Nat : n + 1 <= L => f[n + 1] = Send(f[n], commands[n + 1])
      /\ link' = f[L].link /\ queue' = f[L].queue
  BY <1>1 DEF SendsOneByOne
<1>3. Link.link = link /\ Link.queue = queue
  BY DEF Link
<1> DEFINE Holds(n) == /\ LinkOK(f[n]) /\ f[n].queue \in Seq(C)
                       /\ f[n].link => link /\ Grown(f[n].queue, queue, commands, n)
           N == {n \in Nat : n <= L => Holds(n)}
<1> HIDE DEF L
<1>4. 0 \in N
  <2>1. Len(queue) \in Nat
    OBVIOUS
  <2>2. Grown(queue, queue, commands, 0)
    BY <2>1 DEF Grown
  <2> QED
    BY <1>2, <1>3, <2>2
<1>5. \A n \in Nat : n \in N => n + 1 \in N
  <2> SUFFICES ASSUME NEW n \in Nat, Holds(n), n + 1 <= L
               PROVE  Holds(n + 1)
    <3> HIDE DEF Holds
    <3> QED
      BY <1>0
  <2> DEFINE l == f[n]
             m == f[n + 1]
  <2>1. m = Send(l, commands[n + 1]) /\ n + 1 \in 1..L /\ commands[n + 1] \in CommandType
    BY <1>0, <1>2
  <2>2. LinkOK(l) /\ l.queue \in Seq(C) /\ (l.link => link /\ Grown(l.queue, queue, commands, n))
    OBVIOUS
  <2> HIDE DEF l, m
  <2>3. LinkOK(m)
    BY <2>1, <2>2, SendKeeps DEF Sent
  <2>4. m.queue \in Seq(C) /\ (m.link => l.link /\ Grown(m.queue, queue, commands, n + 1))
    BY <2>1, <2>2, SendGrows DEF L
  <2> QED
    BY <2>2, <2>3, <2>4 DEF m
<1> HIDE DEF N
<1>6. L \in N
  BY <1>0, <1>4, <1>5, Induction
<1>7. Holds(L)
  <2> HIDE DEF Holds
  <2> QED
    BY <1>0, <1>6 DEF N
<1>8. queue' \in Seq(C) /\ (link' => link /\ Grown(queue', queue, commands, Len(commands)))
  BY <1>2, <1>7 DEF L
<1>9. ASSUME link'
      PROVE  queue' = queue \o commands
  <2> DEFINE m == queue'
             q == queue
  <2>1. m \in Seq(C) /\ q \in Seq(C) /\ Grown(m, q, commands, Len(commands))
    BY <1>8, <1>9
  <2> HIDE DEF m, q
  <2>2. m = q \o commands
    BY <2>1, GrownAll
  <2> QED
    BY <2>2 DEF m, q
<1> QED
  BY <1>8, <1>9

-----------------------------------------------------------------------------
(***************************************************************************)
(* The invariant: what is under way completes the replica.                 *)
(***************************************************************************)
\* The replica's store once it has applied all that is under way.
Arriving == DispatchAll(replica, wire \o queue, now)

FlowInv ==
    /\ SameOptions(primary, PrimaryOptions)
    /\ Timeless(primary) /\ Timeless(replica)
    /\ wire \in Seq(Lasting) /\ queue \in Seq(Lasting)
    /\ link => Same(Arriving, primary)

AllStreamable == \A c \in Commands : Streamable(c)

LEMMA FlowFacts ==
    ASSUME IInv, FlowInv
    PROVE  /\ Good(primary) /\ primary.evicted = <<>> /\ Still(replica) /\ now \in Int
           /\ LinkOK(Link)
           /\ wire \o queue \in Seq(Lasting)
           /\ Still(Arriving) /\ Timeless(Arriving)
<1>1. /\ Good(primary) /\ primary.evicted = <<>> /\ Still(replica) /\ now \in Int
      /\ LinkOK(Link)
  BY DEF IInv, StoresInv, LinkInv, Still, NoEviction
<1> DEFINE q == wire \o queue
           u == DispatchAll(replica, q, now)
<1>2. q \in Seq(Lasting)
  BY DEF FlowInv
<1>3. Timeless(replica) /\ Same(replica, replica)
  BY DEF FlowInv, Same
<1>4. u = Arriving
  BY DEF Arriving
<1> HIDE DEF q
<1>5. Still(u) /\ Timeless(u)
  BY <1>1, <1>2, <1>3, SameDispatchAll
<1> HIDE DEF u
<1> QED
  BY <1>1, <1>2, <1>4, <1>5 DEF q

\* Two replicas that hold the same are completed by the same commands.
LEMMA SameArriving ==
    ASSUME IInv, FlowInv, link, NEW s, Still(s), Same(replica, s), NEW m \in Int
    PROVE  Same(DispatchAll(s, wire \o queue, m), primary)
<1> DEFINE q == wire \o queue
           u == DispatchAll(replica, q, now)
           v == DispatchAll(s, q, m)
<1>1. Still(replica) /\ now \in Int /\ q \in Seq(Lasting)
  BY FlowFacts
<1>2. Timeless(replica) /\ Same(u, primary)
  BY DEF FlowInv, Arriving
<1> HIDE DEF q
<1>3. Same(u, v)
  BY <1>1, <1>2, SameDispatchAll
<1> HIDE DEF u, v
<1>4. Same(v, primary)
  BY <1>2, <1>3 DEF Same
<1> QED
  BY <1>4 DEF v, q

\* Commands are sent for what has become of the primary.
LEMMA SendFlow ==
    ASSUME IInv, FlowInv, NEW commands \in Seq(Lasting), Propagate(commands),
           UNCHANGED <<replica, now, wire>>,
           SameOptions(primary', PrimaryOptions), Timeless(primary'),
           link => Same(DispatchAll(Arriving, commands, now), primary')
    PROVE  FlowInv'
<1>0. LinkOK(Link) /\ Lasting \subseteq CommandType /\ queue \in Seq(Lasting) /\ wire \in Seq(Lasting)
  BY FlowFacts DEF Lasting, FlowInv
<1>1. queue' \in Seq(Lasting) /\ (link' => link /\ queue' = queue \o commands)
  BY <1>0, PropagateAppends
<1>2. ASSUME link'
      PROVE  Same(Arriving', primary')
  <2> DEFINE q == wire \o queue
             u == queue \o commands
  <2>1. /\ link /\ queue' = u
        /\ q \in Seq(CommandType) /\ commands \in Seq(CommandType) /\ wire' \o u = q \o commands
    <3>1. wire \in Seq(CommandType) /\ queue \in Seq(CommandType) /\ commands \in Seq(CommandType)
      BY <1>0, LastingCommands
    <3>2. q \in Seq(CommandType) /\ wire \o u = q \o commands
      BY <3>1, JoinThree, SMTT(30)
    <3>3. wire' = wire /\ link /\ queue' = u
      BY <1>1, <1>2
    <3> HIDE DEF q, u
    <3> QED
      BY <3>1, <3>2, <3>3
  <2> HIDE DEF u
  <2>2. Arriving = DispatchAll(replica, q, now)
        /\ Arriving' = DispatchAll(replica, q \o commands, now)
    BY <2>1 DEF Arriving
  <2> HIDE DEF q
  <2>3. Arriving' = DispatchAll(Arriving, commands, now)
    BY <2>1, <2>2, DispatchConcat
  <2> QED
    BY <2>1, <2>3
<1>3. Timeless(replica') /\ wire' \in Seq(Lasting)
  BY <1>0 DEF FlowInv, Timeless
<1>4. SameOptions(primary, PrimaryOptions)' /\ Timeless(primary)'
  BY DEF SameOptions, Timeless
<1> QED
  BY <1>1, <1>2, <1>3, <1>4 DEF FlowInv

\* The same contents, without a cap.
LEMMA UncappedStill ==
    ASSUME NEW p, Good(p), p.evicted = <<>>, NEW z, z = [p EXCEPT !.cap = 0]
    PROVE  Same(z, p) /\ Still(z)
<1>0. p \in StoreType /\ p.data \in DataType
  BY DEF Good, Sound, StoreType
<1>1. /\ z \in StoreType /\ z.data = p.data /\ z.order = p.order /\ z.heap = p.heap /\ z.used = p.used
      /\ z.evicted = <<>> /\ z.cap = 0
  BY <1>0 DEF StoreType
<1>2. SizeOf(z, Keys) = SizeOf(p, Keys)
  BY <1>0, <1>1, SumEqual
<1>3. Sound(z)
  BY <1>1, <1>2 DEF Good, Sound, Costed, Listed, Accounted, Has
<1>4. Covered(z, Keys) /\ Bounded(z)
  BY <1>1 DEF Good, Covered, Has, Bounded, OverLimit
<1> QED
  BY <1>1, <1>3, <1>4 DEF Same, Still, NoEviction, Good

LEMMA WriteFlow ==
    ASSUME IInv, FlowInv, AllStreamable, NEW c \in Commands, Write(c)
    PROVE  FlowInv'
<1> DEFINE r == Dispatch(primary, c, now)
           q == Stream(c, r)
           y == DispatchAll(Arriving, q, now)
           t == r.store
<1>0. Streamable(c) /\ c \in Lasting /\ c \in CommandType
  BY DEF AllStreamable, Streamable, Lasting
<1>1. /\ Good(primary) /\ primary.evicted = <<>> /\ now \in Int /\ Timeless(primary)
      /\ SameOptions(primary, PrimaryOptions)
      /\ Still(Arriving) /\ (link => Same(Arriving, primary))
  BY FlowFacts DEF FlowInv
<1>2. /\ c.op \in WriteCommands /\ r.ok /\ primary' = DrainEvictions(t) /\ Propagate(q)
      /\ UNCHANGED <<replica, now, wire>>
  BY DEF Write
<1>3. Reached(t, primary)
  BY <1>0, <1>1, DispatchGood
<1>4. Good(t) /\ SameOptions(t, primary) /\ t.evicted \in Seq(Keys)
  BY <1>3 DEF Reached, Good, Sound, StoreType
<1>5. q \in Seq(Lasting)
  BY <1>0, <1>4, StreamLasting
<1>6. SameOptions(primary', t) /\ primary'.data = t.data
  BY <1>2, <1>4, DrainGood
<1> DEFINE a == Arriving
<1>7. Timeless(t) /\ (link => Same(y, t))
  <2>1. Timeless(t)
    <3> DEFINE z == [primary EXCEPT !.cap = 0]
    <3>1. Same(z, primary) /\ Still(z)
      BY <1>1, UncappedStill
    <3> HIDE DEF z, r, q
    <3> DEFINE w == DispatchAll(z, q, now)
    <3>2. Timeless(t) /\ Same(w, t)
      BY <1>0, <1>1, <1>2, <3>1, StreamMirrors DEF r, q
    <3> QED
      BY <3>2
  <2>2. ASSUME link
        PROVE  Same(y, t)
    <3>1. Still(a) /\ Same(a, primary) /\ y = DispatchAll(a, q, now)
      BY <1>1, <2>2
    <3> HIDE DEF a, y
    <3> QED
      BY <1>0, <1>1, <1>2, <3>1, StreamMirrors
  <2> QED
    BY <2>1, <2>2
<1> HIDE DEF q, r
<1>8. /\ SameOptions(primary', PrimaryOptions) /\ Timeless(primary')
      /\ link => Same(y, primary')
  <2> HIDE DEF y, t
  <2> QED
    BY <1>1, <1>4, <1>6, <1>7 DEF SameOptions, Timeless, Same
<1> QED
  BY <1>2, <1>5, <1>8, SendFlow

LEMMA ReadFlow ==
    ASSUME IInv, FlowInv, AllStreamable, NEW c \in Commands, Read(c)
    PROVE  FlowInv'
<1> DEFINE r == Dispatch(primary, c, now)
           t == r.store
<1>0. c \in Lasting /\ c \in CommandType
  BY DEF AllStreamable, Streamable, Lasting
<1>1. Good(primary) /\ primary.evicted = <<>> /\ now \in Int /\ Timeless(primary)
  BY FlowFacts DEF FlowInv
<1>2. /\ c.op \notin WriteCommands \/ ~r.ok
      /\ primary' = t /\ UNCHANGED <<replica, now, link, queue, wire>>
  BY DEF Read, linkVars
<1>3. Reached(t, primary)
  BY <1>0, <1>1, DispatchGood
<1>4. Same(t, primary)
  BY <1>0, <1>1, <1>2, ReadLeaves
<1> HIDE DEF r, t
<1> QED
  BY <1>2, <1>3, <1>4 DEF FlowInv, Arriving, Reached, SameOptions, Same, Timeless

LEMMA SweepSame ==
    ASSUME NEW s, Good(s), Timeless(s), NEW n \in Int, NEW t, t = Sweep(s, n)
    PROVE  Good(t) /\ SameOptions(t, s) /\ t.evicted = s.evicted /\ Timeless(t) /\ Same(s, t)
<1>1. Sound(s) /\ Good(t) /\ SameOptions(t, s) /\ t.evicted = s.evicted
  BY SweepGood DEF Good
<1>2. \A k \in Keys : Kept(t.data[k], s.data[k], n)
  BY <1>1, SweepEntries
<1>3. \A k \in Keys : s.data[k] = t.data[k]
  BY <1>2, FreshLasts DEF Timeless, Kept
<1> QED
  BY <1>1, <1>3 DEF Timeless, Same

LEMMA SweepFlow ==
    ASSUME IInv, FlowInv, SweepPrimary \/ SweepReplica
    PROVE  FlowInv'
<1>0. now \in Int /\ Good(primary) /\ Timeless(primary) /\ Still(replica) /\ Good(replica) /\ Timeless(replica)
  BY FlowFacts DEF FlowInv, Still
<1>1. CASE SweepPrimary
  <2>1. primary' = Sweep(primary, now) /\ UNCHANGED <<replica, now, link, queue, wire>>
    BY <1>1 DEF SweepPrimary, linkVars
  <2>2. SameOptions(primary', primary) /\ Timeless(primary') /\ Same(primary, primary')
    BY <1>0, <2>1, SweepSame
  <2> QED
    BY <2>1, <2>2 DEF FlowInv, Arriving, SameOptions, Same, Timeless
<1>2. CASE SweepReplica
  <2>1. replica' = Sweep(replica, now) /\ UNCHANGED <<primary, now, link, queue, wire>>
    BY <1>2 DEF SweepReplica, linkVars
  <2>2. /\ Good(replica') /\ SameOptions(replica', replica) /\ replica'.evicted = replica.evicted
        /\ Timeless(replica') /\ Same(replica, replica')
    BY <1>0, <2>1, SweepSame
  <2>3. Still(replica')
    BY <1>0, <2>2 DEF Still, NoEviction, SameOptions
  <2>4. link => Same(DispatchAll(replica', wire \o queue, now), primary)
    BY <1>0, <2>2, <2>3, SameArriving
  <2> QED
    BY <2>1, <2>2, <2>4 DEF FlowInv, Arriving, Timeless, Same, SameOptions
<1> QED
  BY <1>1, <1>2

LEMMA TickFlow ==
    ASSUME IInv, FlowInv, Tick
    PROVE  FlowInv'
<1>1. now' \in Int /\ UNCHANGED <<primary, replica, link, queue, wire>> /\ Still(replica)
  BY FlowFacts DEF Tick, linkVars
<1>2. link => Same(DispatchAll(replica, wire \o queue, now'), primary)
  BY <1>1, SameArriving DEF Same
<1> QED
  BY <1>1, <1>2 DEF FlowInv, Arriving, Timeless, Same, SameOptions

LEMMA PumpFlow ==
    ASSUME IInv, FlowInv, PumpWrite \/ PumpDrained
    PROVE  FlowInv'
<1>1. CASE PumpWrite
  <2>1. /\ queue # <<>> /\ wire' = Append(wire, Head(queue)) /\ queue' = Tail(queue)
        /\ UNCHANGED <<primary, replica, now, link>>
    BY <1>1 DEF PumpWrite
  <2>2. wire \in Seq(Lasting) /\ queue \in Seq(Lasting)
    BY DEF FlowInv
  <2> DEFINE c == Head(queue)
             u == Tail(queue)
             v == Append(wire, c)
  <2>3. c \in Lasting /\ u \in Seq(Lasting) /\ queue = <<c>> \o u
    BY <2>1, <2>2
  <2> HIDE DEF c, u
  <2>4. v \in Seq(Lasting) /\ v \o u = wire \o queue
    <3>1. v \in Seq(Lasting)
      BY <2>2, <2>3
    <3>2. wire \o (<<c>> \o u) = Append(wire, c) \o u
      BY <2>2, <2>3
    <3> QED
      BY <2>3, <3>1, <3>2
  <2>5. wire' = v /\ queue' = u
    BY <2>1 DEF c, u
  <2> HIDE DEF v
  <2>6. Arriving' = Arriving
    BY <2>1, <2>4, <2>5 DEF Arriving
  <2> QED
    BY <2>1, <2>3, <2>4, <2>5, <2>6 DEF FlowInv, Timeless, Same, SameOptions
<1>2. CASE PumpDrained
  BY <1>2 DEF PumpDrained, FlowInv, Arriving, Timeless, Same, SameOptions
<1> QED
  BY <1>1, <1>2

LEMMA HeartbeatFlow ==
    ASSUME IInv, FlowInv, Heartbeat
    PROVE  FlowInv'
<1> DEFINE q == <<CmdPing>>
           a == Arriving
<1>1. CmdPing \in Lasting /\ CmdPing \in CommandType
  BY CommandTypes DEF Lasting, CmdPing
<1>2. q \in Seq(Lasting)
  BY <1>1
<1>3. Propagate(q) /\ UNCHANGED <<primary, replica, now, wire>>
  BY DEF Heartbeat
<1>4. DispatchAll(a, q, now) = a
  <2>1. DispatchAll(a, q, now) = Dispatch(a, CmdPing, now).store
    BY <1>1, DispatchOne
  <2>2. Dispatch(a, CmdPing, now).store = a
    BY DEF Dispatch, Result, CmdPing
  <2> QED
    BY <2>1, <2>2
<1> HIDE DEF q
<1>5. /\ SameOptions(primary', PrimaryOptions) /\ Timeless(primary')
      /\ link => Same(DispatchAll(Arriving, q, now), primary')
  BY <1>3, <1>4 DEF FlowInv, a
<1> QED
  BY <1>2, <1>3, <1>5, SendFlow

LEMMA ApplyFlow ==
    ASSUME IInv, FlowInv, Apply
    PROVE  FlowInv'
<1> DEFINE c == Head(wire)
           u == Tail(wire)
           w == u \o queue
           b == <<c>>
           y == Dispatch(replica, c, now).store
<1>0. wire # <<>> /\ wire \in Seq(Lasting) /\ queue \in Seq(Lasting)
  BY DEF Apply, FlowInv
<1>1. c \in Lasting /\ u \in Seq(Lasting) /\ wire = b \o u /\ replica' = y /\ wire' = u
      /\ UNCHANGED <<primary, now, link, queue>>
  BY <1>0 DEF Apply, linkVars
<1> HIDE DEF c, u
<1>2. c \in CommandType /\ b \in Seq(CommandType) /\ w \in Seq(Lasting) /\ wire \o queue = b \o w
  <2>1. c \in CommandType /\ w \in Seq(Lasting)
    BY <1>0, <1>1 DEF Lasting
  <2>2. b \in Seq(CommandType)
    BY <2>1
  <2>3. wire \o queue = b \o w
    <3>1. b \in Seq(Lasting)
      BY <1>1
    <3> HIDE DEF b
    <3>2. b \o (u \o queue) = (b \o u) \o queue
      BY <1>0, <1>1, <3>1, JoinThree, SMTT(30)
    <3> QED
      BY <1>1, <3>2
  <2> QED
    BY <2>1, <2>2, <2>3
<1>3. DispatchAll(replica, b, now) = y
  BY <1>2, DispatchOne
<1>4. Still(replica) /\ Timeless(replica) /\ Same(replica, replica) /\ now \in Int
  BY FlowFacts DEF FlowInv, Same
<1>5. Timeless(y)
  BY <1>1, <1>4, SameDispatch
<1> HIDE DEF b, w, y
<1>6. DispatchAll(replica, wire \o queue, now) = DispatchAll(y, w, now)
  BY <1>2, <1>3, LastingCommands, DispatchConcat
<1>7. Arriving' = Arriving
  BY <1>1, <1>6 DEF Arriving, w
<1> QED
  BY <1>0, <1>1, <1>5, <1>7 DEF FlowInv, Timeless, Same, SameOptions

LEMMA SnapshotLasting ==
    ASSUME NEW s, Good(s), Timeless(s), NEW n \in Int
    PROVE  SnapshotCommands(s, n) \in Seq(Lasting)
<1> DEFINE es == Snapshot(s, n)
           restore(e) == IF e.expireAt = None
                         THEN <<PlainSet(e.key, e.value)>>
                         ELSE <<PlainSet(e.key, e.value), CmdExpire(e.key, e.expireAt - n + 1)>>
           q == [i \in 1..Len(es) |-> restore(es[i])]
<1>1. SnapshotCommands(s, n) = FlattenSeq(q)
  BY DEF SnapshotCommands
<1>2. es \in Seq(SnapshotEntry) /\ \A i \in 1..Len(es) : es[i].expireAt = None
  <2>1. es \in Seq(SnapshotEntry) /\ Len(es) = Len(SnapshotKeys(s, n))
    BY SnapshotLists
  <2>2. ASSUME NEW i \in 1..Len(es)
        PROVE  es[i].expireAt = None
    <3> DEFINE k == SnapshotKeys(s, n)[i]
    <3>1. /\ k \in Keys /\ Live(s, k, n)
          /\ es[i] = [key |-> k, value |-> s.data[k].value, expireAt |-> s.data[k].expireAt]
      BY <2>1, SnapshotLists
    <3> QED
      BY <3>1 DEF Live, Has, Timeless, NoDeadline
  <2> QED
    BY <2>1, <2>2
<1> HIDE DEF es
<1>3. ASSUME NEW e \in SnapshotEntry, e.expireAt = None
      PROVE  restore(e) \in Seq(Lasting)
  <2>1. PlainSet(e.key, e.value) \in Lasting
    BY CommandTypes DEF SnapshotEntry, Lasting, PlainSet, CmdSet
  <2> QED
    BY <1>3, <2>1
<1> HIDE DEF restore
<1>4. q \in Seq(Seq(Lasting))
  BY <1>2, <1>3
<1> HIDE DEF q
<1> QED
  BY <1>1, <1>4, FlattenType

LEMMA ConnectFlow ==
    ASSUME IInv, FlowInv, Connect
    PROVE  FlowInv'
<1> DEFINE p == primary'
           b == <<CmdFlushdb>>
           s == SnapshotCommands(p, now)
           x == Dispatch(replica, CmdFlushdb, now).store
           y == DispatchAll(x, s, now)
<1>0. /\ now \in Int /\ Good(primary) /\ Timeless(primary) /\ SameOptions(primary, PrimaryOptions)
      /\ Still(replica) /\ Timeless(replica)
  BY FlowFacts DEF FlowInv
<1>1. /\ p = Sweep(primary, now) /\ queue' = b \o s /\ wire' = <<>>
      /\ UNCHANGED <<replica, now>>
  BY DEF Connect
<1>2. Good(p) /\ SameOptions(p, primary) /\ Timeless(p)
  <2> HIDE DEF p
  <2> QED
    BY <1>0, <1>1, SweepSame
<1>3. s \in Seq(Lasting)
  <2> HIDE DEF p
  <2> QED
    BY <1>0, <1>2, SnapshotLasting
<1>4. CmdFlushdb \in CommandType /\ CmdFlushdb \in Lasting /\ CmdFlushdb.op = "FLUSHDB"
  BY CommandTypes DEF Lasting, CmdFlushdb
<1>5. b \in Seq(Lasting) /\ <<>> \in Seq(Lasting)
  BY <1>4
<1>6. DispatchAll(replica, b, now) = x
  BY <1>4, DispatchOne
<1>7. Still(x) /\ \A k \in Keys : x.data[k] = None
  <2>1. Still(x) /\ \A k \in Keys : Becomes(x.data[k], replica.data[k], CmdFlushdb, k, now)
    BY <1>0, <1>4, DispatchEffect
  <2> QED
    BY <1>4, <2>1 DEF Becomes
<1> HIDE DEF b, x
<1>8. \A k \in Keys : y.data[k] = IF Live(p, k, now) THEN LaterEntry(p.data[k]) ELSE None
  <2> HIDE DEF p
  <2> QED
    BY <1>0, <1>2, <1>7, ReplicaSnapshotReplay
<1> HIDE DEF s
<1>9. Same(y, p)
  <2> HIDE DEF p, y
  <2> QED
    BY <1>2, <1>8, FreshLasts DEF Same, Live, Has, LaterEntry, Timeless, NoDeadline, IsExpired
<1>10. b \o s \in Seq(Lasting) /\ wire' \o queue' = b \o s
  BY <1>1, <1>3, <1>5
<1>11. DispatchAll(replica, b \o s, now) = y
  BY <1>3, <1>5, <1>6, LastingCommands, DispatchConcat
<1>12. Arriving' = y
  BY <1>1, <1>10, <1>11 DEF Arriving
<1> HIDE DEF y
<1>13. wire' \in Seq(Lasting) /\ queue' \in Seq(Lasting) /\ replica' = replica
  BY <1>1, <1>5, <1>10
<1> QED
  BY <1>0, <1>2, <1>9, <1>12, <1>13 DEF FlowInv, Timeless, Same, SameOptions

LEMMA EndFlow ==
    ASSUME IInv, FlowInv, StreamEnds \/ LinkLost \/ LinkDropped \/ PrimaryRestarts
    PROVE  FlowInv'
<1>0. <<>> \in Seq(Lasting)
  OBVIOUS
<1>1. CASE StreamEnds
  BY <1>1 DEF StreamEnds, linkVars, FlowInv, Arriving, Timeless, Same, SameOptions
<1>2. CASE LinkLost \/ LinkDropped
  <2>1. link' = FALSE /\ queue' = <<>> /\ wire' \in {wire, <<>>} /\ UNCHANGED <<primary, replica>>
    BY <1>2 DEF LinkLost, LinkDropped, CloseLink
  <2> QED
    BY <1>0, <2>1 DEF FlowInv, Timeless, SameOptions
<1>3. CASE PrimaryRestarts
  <2>1. link' = FALSE /\ queue' = <<>> /\ UNCHANGED <<wire, replica>> /\ primary' = Empty(PrimaryOptions)
    BY <1>3 DEF PrimaryRestarts, CloseLink
  <2>2. SameOptions(primary', PrimaryOptions) /\ Timeless(primary')
    BY <2>1 DEF Empty, SameOptions, Timeless, NoDeadline
  <2> QED
    BY <1>0, <2>1, <2>2 DEF FlowInv, Timeless, SameOptions
<1> QED
  BY <1>1, <1>2, <1>3

LEMMA InitFlow == Init => FlowInv
<1> SUFFICES ASSUME Init
             PROVE  FlowInv
  OBVIOUS
<1>1. <<>> \in Seq(Lasting)
  OBVIOUS
<1>2. primary = Empty(PrimaryOptions) /\ replica = Empty([PrimaryOptions EXCEPT !.cap = 0])
      /\ link = FALSE /\ queue = <<>> /\ wire = <<>>
  BY DEF Init
<1>3. SameOptions(primary, PrimaryOptions) /\ Timeless(primary) /\ Timeless(replica)
  BY <1>2 DEF Empty, SameOptions, Timeless, NoDeadline
<1> QED
  BY <1>1, <1>2, <1>3 DEF FlowInv

LEMMA NextFlow ==
    ASSUME AllStreamable
    PROVE  IInv /\ FlowInv /\ [Next]_vars => FlowInv'
<1> SUFFICES ASSUME IInv, FlowInv, [Next]_vars
             PROVE  FlowInv'
  OBVIOUS
<1>1. CASE UNCHANGED vars
  BY <1>1 DEF vars, linkVars, FlowInv, Arriving, Timeless, Same, SameOptions
<1>2. ASSUME NEW c \in Commands, Write(c) \/ Read(c)
      PROVE  FlowInv'
  BY <1>2, WriteFlow, ReadFlow
<1>3. CASE PumpWrite \/ PumpDrained
  BY <1>3, PumpFlow
<1>4. CASE Heartbeat
  BY <1>4, HeartbeatFlow
<1>5. CASE Connect
  BY <1>5, ConnectFlow
<1>6. CASE Apply
  BY <1>6, ApplyFlow
<1>7. CASE StreamEnds \/ LinkLost \/ LinkDropped \/ PrimaryRestarts
  BY <1>7, EndFlow
<1>8. CASE SweepPrimary \/ SweepReplica
  BY <1>8, SweepFlow
<1>9. CASE Tick
  BY <1>9, TickFlow
<1> QED
  BY <1>1, <1>2, <1>3, <1>4, <1>5, <1>6, <1>7, <1>8, <1>9 DEF Next

(***************************************************************************)
(* Nothing is lost on the way: while a link is up, the replica, completed  *)
(* by the connection and the queue, has the primary's contents, whatever   *)
(* snapshots, evictions, overflows, losses and restarts came before.  The  *)
(* commands give no deadlines, and MSET is left to a primary that never    *)
(* evicts (its evictions are streamed after all of its pairs).             *)
(***************************************************************************)
THEOREM NothingLost ==
    ASSUME AllStreamable
    PROVE  Spec => []InFlightFidelity
<1>1. IInv /\ FlowInv => InFlightFidelity
  <2> SUFFICES ASSUME IInv, FlowInv, link, connected
               PROVE  Values(Arriving) = Values(primary)
    BY DEF InFlightFidelity, Arriving
  <2>1. \A k \in Keys : Arriving.data[k] = primary.data[k]
    BY DEF FlowInv, Same
  <2> DEFINE a == Arriving
  <2> HIDE DEF a
  <2>2. \A k \in Keys : a.data[k] = primary.data[k]
    BY <2>1 DEF a
  <2>3. LiveKeys(a) = LiveKeys(primary) /\ LiveKeys(a) \subseteq Keys
    BY <2>2 DEF LiveKeys, Live, Has
  <2>4. Values(a) = Values(primary)
    BY <2>2, <2>3 DEF Values
  <2> QED
    BY <2>4 DEF a
<1>2. IInv /\ FlowInv /\ [Next]_vars => FlowInv'
  BY NextFlow
<1>3. Spec => []FlowInv
  BY <1>2, InitFlow, Invariance, PTL DEF Spec
<1> QED
  BY <1>1, <1>3, Invariance, PTL

-----------------------------------------------------------------------------
(***************************************************************************)
(* Deadlines.  A primary's key that is live is vouched for by the replica  *)
(* or by a command under way: the entry is there, or will be, and all that *)
(* follows leaves it in place with a deadline no earlier than the          *)
(* primary's.  Lifetimes are counted from the moment they are applied, so  *)
(* what holds for a command applied now holds for one applied later.       *)
(***************************************************************************)
DeadlineOf(c, n) == IF c.op = "EXPIRE" THEN n + c.ttl ELSE c.at

Redates(c, k) == c.op \in {"EXPIRE", "PEXPIREAT"} /\ c.key = k

\* c leaves the key k in place, with the deadline of e or a later one.
Spares(c, k, e, n) ==
    /\ c.op # "FLUSHDB"
    /\ c.op \in {"SET", "INCR", "DEL", "PERSIST"} => c.key # k
    /\ c.op = "MSET" => \A i \in 1..Len(c.pairs) : c.pairs[i][1] # k
    /\ Redates(c, k) => e.expireAt # None /\ DeadlineOf(c, n) >= e.expireAt

\* c stores the value of e under k, with no deadline or one no earlier.
Gives(c, k, e, n) ==
    \/ /\ c.op = "SET" /\ c.mode = "always" /\ c.key = k /\ c.value = e.value
       /\ c.ttl # None => e.expireAt # None /\ n + c.ttl >= e.expireAt
    \/ c.op = "MSET" /\ \E i \in 1..Len(c.pairs) : LastPair(c.pairs, k, i) /\ c.pairs[i][2] = e.value

GivesDeadline(c) == c.op = "SET" /\ c.ttl # None

\* A command of q gives the entry, and those after it spare it; if e has a
\* deadline, one of them sets one.
GivenAt(q, p, k, e, n) ==
    /\ Gives(q[p], k, e, n)
    /\ \A i \in 1..Len(q) : i > p => Spares(q[i], k, e, n)
    /\ e.expireAt # None => GivesDeadline(q[p]) \/ \E i \in 1..Len(q) : i > p /\ Redates(q[i], k)

Given(q, k, e, n) == \E p \in 1..Len(q) : GivenAt(q, p, k, e, n)

\* The entry d of the replica is that of the primary, with a later deadline.
Outlives(d, e) ==
    /\ d # None /\ d.value = e.value
    /\ d.expireAt # None => e.expireAt # None /\ d.expireAt >= e.expireAt

Stays(d, q, k, e, n) ==
    /\ Outlives(d, e)
    /\ \A i \in 1..Len(q) : Spares(q[i], k, e, n)
    /\ e.expireAt # None => d.expireAt # None \/ \E i \in 1..Len(q) : Redates(q[i], k)

Vouched(d, q, k, e, n) == Stays(d, q, k, e, n) \/ Given(q, k, e, n)

LEMMA CommandFields ==
    ASSUME NEW c \in CommandType
    PROVE  /\ c.op = "SET" => c.key \in Keys /\ c.value \in Value /\ c.ttl \in Lifetime
           /\ c.op = "EXPIRE" => c.key \in Keys /\ c.ttl \in Int
           /\ c.op = "PEXPIREAT" => c.key \in Keys /\ c.at \in Int
           /\ c.op = "MSET" => c.pairs \in Seq(Keys \X Value)
           /\ c.op \in {"DEL", "PERSIST", "GET", "TTL", "INCR"} => c.key \in Keys
           /\ c.op \in Keyed \cup {"MSET", "FLUSHDB", "KEYS", "PING"}
BY DEF CommandType, Lifetime, Keyed

LEMMA SparesAll ==
    ASSUME NEW C, NEW d, NEW q \in Seq(C), NEW r \in Seq(C), NEW k, NEW e, NEW n,
           Vouched(d, q, k, e, n), \A i \in 1..Len(r) : Spares(r[i], k, e, n)
    PROVE  Vouched(d, q \o r, k, e, n)
<1> DEFINE a == Len(q)
           b == Len(r)
           w == q \o r
<1>1. a \in Nat /\ b \in Nat /\ Len(w) = a + b /\ (\A i \in 1..a : w[i] = q[i] /\ i \in 1..(a + b))
  OBVIOUS
<1>2. \A i \in 1..(a + b) : i > a => w[i] = r[i - a] /\ i - a \in 1..b
  OBVIOUS
<1> HIDE DEF w
<1>3. \A i \in 1..(a + b) : i > a => Spares(w[i], k, e, n)
  BY <1>2
<1>4. CASE Stays(d, q, k, e, n)
  <2>1. \A i \in 1..a : Spares(w[i], k, e, n)
    BY <1>1, <1>4 DEF Stays
  <2>2. \A i \in 1..(a + b) : Spares(w[i], k, e, n)
    <3> HIDE DEF a, b
    <3>1. \A i \in 1..(a + b) : i > a \/ i \in 1..a
      BY <1>1
    <3> QED
      BY <1>3, <2>1, <3>1
  <2>3. e.expireAt # None => d.expireAt # None \/ \E i \in 1..(a + b) : Redates(w[i], k)
    BY <1>1, <1>4 DEF Stays
  <2> HIDE DEF a, b
  <2>4. Stays(d, w, k, e, n)
    BY <1>1, <1>4, <2>2, <2>3 DEF Stays
  <2> QED
    BY <2>4 DEF Vouched, w
<1>5. CASE Given(q, k, e, n)
  <2>1. PICK p \in 1..a : GivenAt(q, p, k, e, n)
    BY <1>5 DEF Given
  <2>2. w[p] = q[p] /\ p \in 1..(a + b)
    BY <1>1
  <2>3. \A i \in 1..(a + b) : i > p => Spares(w[i], k, e, n)
    <3>1. \A i \in 1..a : i > p => Spares(w[i], k, e, n)
      BY <1>1, <2>1 DEF GivenAt
    <3> HIDE DEF a, b
    <3>2. \A i \in 1..(a + b) : i > a \/ i \in 1..a
      BY <1>1
    <3> QED
      BY <1>3, <3>1, <3>2
  <2>4. e.expireAt # None => GivesDeadline(w[p]) \/ \E i \in 1..(a + b) : i > p /\ Redates(w[i], k)
    BY <1>1, <2>1, <2>2 DEF GivenAt
  <2> HIDE DEF a, b
  <2>5. GivenAt(w, p, k, e, n)
    BY <1>1, <2>1, <2>2, <2>3, <2>4 DEF GivenAt
  <2>6. Given(w, k, e, n)
    BY <1>1, <2>2, <2>5 DEF Given
  <2> QED
    BY <2>6 DEF Vouched, w
<1> QED
  BY <1>4, <1>5 DEF Vouched

LEMMA GivenAfter ==
    ASSUME NEW C, NEW q \in Seq(C), NEW r \in Seq(C), NEW k, NEW e, NEW n, Given(r, k, e, n)
    PROVE  Given(q \o r, k, e, n)
<1> DEFINE a == Len(q)
           b == Len(r)
           w == q \o r
<1>1. a \in Nat /\ b \in Nat /\ Len(w) = a + b /\ (\A i \in 1..b : w[a + i] = r[i] /\ a + i \in 1..(a + b))
  OBVIOUS
<1>2. PICK p \in 1..b : GivenAt(r, p, k, e, n)
  BY DEF Given
<1>3. w[a + p] = r[p] /\ a + p \in 1..(a + b)
  BY <1>1
<1> HIDE DEF w
<1>4. ASSUME NEW i \in 1..(a + b), i > a + p
      PROVE  Spares(w[i], k, e, n)
  <2> DEFINE j == i - a
  <2>1. j \in 1..b /\ j > p /\ i = a + j
    <3> HIDE DEF a, b
    <3> QED
      BY <1>1, <1>4
  <2> HIDE DEF j
  <2>2. w[i] = r[j]
    BY <1>1, <2>1
  <2> QED
    BY <1>2, <2>1, <2>2 DEF GivenAt
<1>5. e.expireAt # None => GivesDeadline(w[a + p]) \/ \E i \in 1..(a + b) : i > a + p /\ Redates(w[i], k)
  <2>1. ASSUME NEW i \in 1..b, i > p, Redates(r[i], k)
        PROVE  \E j \in 1..(a + b) : j > a + p /\ Redates(w[j], k)
    <3>1. w[a + i] = r[i] /\ a + i \in 1..(a + b)
      BY <1>1
    <3>2. a + i > a + p
      BY <1>1, <2>1
    <3> QED
      BY <2>1, <3>1, <3>2
  <2> QED
    BY <1>2, <1>3, <2>1 DEF GivenAt
<1> HIDE DEF a, b
<1>6. GivenAt(w, a + p, k, e, n)
  BY <1>1, <1>2, <1>3, <1>4, <1>5 DEF GivenAt
<1> QED
  BY <1>1, <1>3, <1>6 DEF Given, w

\* Time passes.
LEMMA VouchedLater ==
    ASSUME NEW d, NEW q \in Seq(CommandType), NEW k, NEW e \in Entry, NEW n \in Int, NEW m \in Int,
           n <= m, Vouched(d, q, k, e, n)
    PROVE  Vouched(d, q, k, e, m)
<1>0. e.expireAt = None \/ e.expireAt \in Int
  BY DEF Entry
<1>1. ASSUME NEW c \in CommandType, Spares(c, k, e, n)
      PROVE  Spares(c, k, e, m)
  <2>1. ASSUME c.op = "EXPIRE", n + c.ttl >= e.expireAt, e.expireAt \in Int
        PROVE  m + c.ttl >= e.expireAt
    <3>1. c.ttl \in Int
      BY <2>1, CommandFields
    <3> QED
      BY <2>1, <3>1
  <2> QED
    BY <1>0, <1>1, <2>1 DEF Spares, Redates, DeadlineOf
<1>2. ASSUME NEW c \in CommandType, Gives(c, k, e, n)
      PROVE  Gives(c, k, e, m)
  <2>1. ASSUME c.op = "SET", c.ttl # None, n + c.ttl >= e.expireAt, e.expireAt \in Int
        PROVE  m + c.ttl >= e.expireAt
    <3>1. c.ttl \in Int
      BY <2>1, CommandFields DEF Lifetime
    <3> QED
      BY <2>1, <3>1
  <2> QED
    BY <1>0, <1>2, <2>1 DEF Gives
<1>3. \A i \in 1..Len(q) : q[i] \in CommandType
  OBVIOUS
<1>4. CASE Stays(d, q, k, e, n)
  BY <1>1, <1>3, <1>4 DEF Stays, Vouched
<1>5. CASE Given(q, k, e, n)
  <2>1. PICK p \in 1..Len(q) : GivenAt(q, p, k, e, n)
    BY <1>5 DEF Given
  <2>2. GivenAt(q, p, k, e, m)
    BY <1>1, <1>2, <1>3, <2>1 DEF GivenAt
  <2> QED
    BY <2>2 DEF Given, Vouched
<1> QED
  BY <1>4, <1>5 DEF Vouched

\* The deadline of the primary's entry is brought nearer.
LEMMA VouchedNearer ==
    ASSUME NEW d, d = None \/ d \in Entry, NEW q \in Seq(CommandType), NEW c \in CommandType, NEW k,
           NEW e \in Entry, NEW x \in Entry,
           NEW n \in Int, Vouched(d, q, k, e, n), x.value = e.value, x.expireAt \in Int,
           e.expireAt = None \/ x.expireAt <= e.expireAt, Redates(c, k), DeadlineOf(c, n) = x.expireAt
    PROVE  Vouched(d, Append(q, c), k, x, n)
<1>0. e.expireAt = None \/ e.expireAt \in Int
  BY DEF Entry
<1>n. x.expireAt # None
  BY NoneAssumption
<1> DEFINE a == Len(q)
           w == Append(q, c)
<1>1. a \in Nat /\ Len(w) = a + 1 /\ w[a + 1] = c /\ (\A i \in 1..a : w[i] = q[i] /\ i \in 1..(a + 1))
      /\ a + 1 \in 1..(a + 1) /\ \A i \in 1..a : q[i] \in CommandType
  OBVIOUS
<1>2. ASSUME NEW b \in CommandType, Spares(b, k, e, n)
      PROVE  Spares(b, k, x, n)
  <2>1. ASSUME Redates(b, k)
        PROVE  DeadlineOf(b, n) >= x.expireAt
    <3>1. DeadlineOf(b, n) \in Int
      BY <2>1, CommandFields DEF Redates, DeadlineOf
    <3>2. e.expireAt \in Int /\ DeadlineOf(b, n) >= e.expireAt /\ x.expireAt <= e.expireAt
      BY <1>0, <1>2, <2>1 DEF Spares
    <3> QED
      BY <3>1, <3>2
  <2> QED
    BY <1>2, <1>n, <2>1 DEF Spares
<1>3. ASSUME NEW b \in CommandType, Gives(b, k, e, n)
      PROVE  Gives(b, k, x, n)
  <2>1. ASSUME b.op = "SET", b.ttl # None, n + b.ttl >= e.expireAt, e.expireAt # None
        PROVE  n + b.ttl >= x.expireAt
    <3>1. b.ttl \in Int /\ e.expireAt \in Int /\ x.expireAt <= e.expireAt
      BY <1>0, <2>1, CommandFields DEF Lifetime
    <3> QED
      BY <2>1, <3>1
  <2> QED
    BY <1>3, <1>n, <2>1 DEF Gives
<1>4. Spares(c, k, x, n)
  BY <1>n DEF Spares, Redates
<1> HIDE DEF w
<1>5. CASE Stays(d, q, k, e, n)
  <2>1. Outlives(d, x)
    <3>1. ASSUME d.expireAt # None
          PROVE  d.expireAt >= x.expireAt
      <4>1. d.expireAt \in Int /\ e.expireAt \in Int /\ d.expireAt >= e.expireAt /\ x.expireAt <= e.expireAt
        BY <1>0, <1>5, <3>1 DEF Stays, Outlives, Entry
      <4> QED
        BY <4>1
    <3> QED
      BY <1>5, <1>n, <3>1 DEF Stays, Outlives
  <2>2. \A i \in 1..a : Spares(w[i], k, x, n)
    BY <1>1, <1>2, <1>5 DEF Stays
  <2> HIDE DEF a
  <2>3. \A i \in 1..(a + 1) : i \in 1..a \/ i = a + 1
    BY <1>1
  <2>4. \A i \in 1..(a + 1) : Spares(w[i], k, x, n)
    BY <1>1, <1>4, <2>2, <2>3
  <2>5. Stays(d, w, k, x, n)
    BY <1>1, <2>1, <2>4 DEF Stays
  <2> QED
    BY <2>5 DEF Vouched, w
<1>6. CASE Given(q, k, e, n)
  <2>1. PICK p \in 1..a : GivenAt(q, p, k, e, n)
    BY <1>6 DEF Given
  <2>2. Gives(w[p], k, x, n) /\ \A i \in 1..a : i > p => Spares(w[i], k, x, n)
    BY <1>1, <1>2, <1>3, <2>1 DEF GivenAt
  <2> HIDE DEF a
  <2>3. (\A i \in 1..(a + 1) : i \in 1..a \/ i = a + 1) /\ a + 1 > p /\ p \in 1..(a + 1)
    BY <1>1
  <2>4. \A i \in 1..(a + 1) : i > p => Spares(w[i], k, x, n)
    BY <1>1, <1>4, <2>2, <2>3
  <2>5. GivenAt(w, p, k, x, n)
    BY <1>1, <2>2, <2>3, <2>4 DEF GivenAt
  <2> QED
    BY <1>1, <2>3, <2>5 DEF Given, Vouched, w
<1> QED
  BY <1>5, <1>6 DEF Vouched

-----------------------------------------------------------------------------
(***************************************************************************)
(* The replica applies the first of the commands.                          *)
(***************************************************************************)
LEMMA EntryOfNew ==
    ASSUME NEW v \in Value, NEW at \in Deadline
    PROVE  NewEntry(v, at) # None /\ NewEntry(v, at).value = v /\ NewEntry(v, at).expireAt = at
<1>1. NewEntry(v, at) \in Entry
  BY StoreAssumption DEF NewEntry, Entry, Value, Deadline
<1> QED
  BY <1>1, NoneAssumption DEF NewEntry

LEMMA RedatedEntry ==
    ASSUME NEW d \in Entry, NEW at \in Int
    PROVE  Redated(d, at) # None /\ Redated(d, at).value = d.value /\ Redated(d, at).expireAt = at
<1>1. d # None /\ Redated(d, at) = [d EXCEPT !.expireAt = at]
  BY NoneAssumption DEF Redated
<1>2. [d EXCEPT !.expireAt = at] \in Entry
  BY DEF Entry
<1> QED
  BY <1>1, <1>2, NoneAssumption DEF Entry

LEMMA SparedEntry ==
    ASSUME NEW a, NEW d \in Entry, NEW e \in Entry, NEW c \in CommandType, NEW k \in Keys, NEW n \in Int,
           ~IsExpired(e, n), Outlives(d, e), Spares(c, k, e, n), Becomes(a, d, c, k, n)
    PROVE  /\ Outlives(a, e)
           /\ d.expireAt # None \/ Redates(c, k) => a.expireAt # None
<1>0. (e.expireAt = None \/ e.expireAt \in Int) /\ (d.expireAt = None \/ d.expireAt \in Int)
  BY DEF Entry
<1>1. Fresh(d, n) = d
  BY <1>0 DEF Fresh, IsExpired, Outlives
<1>2. CASE Redates(c, k)
  <2> DEFINE at == DeadlineOf(c, n)
  <2>1. at \in Int /\ e.expireAt # None /\ at >= e.expireAt
    BY <1>2, CommandFields DEF Redates, DeadlineOf, Spares
  <2>2. a = Redated(d, at)
    BY <1>1, <1>2 DEF Becomes, Keyed, After, Redates, DeadlineOf
  <2> HIDE DEF at
  <2>3. a # None /\ a.value = d.value /\ a.expireAt = at /\ at # None
    BY <2>1, <2>2, RedatedEntry, NoneAssumption
  <2> QED
    BY <2>1, <2>3 DEF Outlives
<1>3. CASE ~Redates(c, k)
  <2>1. a = d
    <3>1. CASE c.op \in Keyed
      <4>1. CASE c.key = k
        <5>1. c.op \in {"GET", "TTL"}
          BY <1>3, <3>1, <4>1 DEF Spares, Redates, Keyed
        <5> QED
          BY <1>1, <3>1, <4>1, <5>1 DEF Becomes, After
      <4>2. CASE c.key # k
        BY <3>1, <4>2 DEF Becomes
      <4> QED
        BY <4>1, <4>2
    <3>2. CASE c.op = "MSET"
      <4>1. Assigned(a, d, c.pairs, k) /\ \A i \in 1..Len(c.pairs) : c.pairs[i][1] # k
        BY <3>2 DEF Becomes, Spares
      <4> QED
        BY <4>1 DEF Assigned
    <3>3. CASE c.op = "KEYS"
      BY <1>1, <3>3 DEF Becomes
    <3>4. CASE c.op = "PING"
      BY <3>4 DEF Becomes
    <3> QED
      BY <3>1, <3>2, <3>3, <3>4, CommandFields DEF Spares
  <2> QED
    BY <1>3, <2>1
<1> QED
  BY <1>2, <1>3

LEMMA GivenEntry ==
    ASSUME NEW a, NEW d, NEW e \in Entry, NEW c \in CommandType, NEW k \in Keys, NEW n \in Int,
           Gives(c, k, e, n), Becomes(a, d, c, k, n)
    PROVE  Outlives(a, e) /\ (GivesDeadline(c) => a.expireAt # None)
<1>1. CASE c.op = "SET"
  <2> DEFINE at == IF c.ttl = None THEN None ELSE n + c.ttl
  <2>1. c.key = k /\ c.value = e.value /\ c.value \in Value /\ c.mode = "always"
        /\ (c.ttl # None => e.expireAt # None /\ n + c.ttl >= e.expireAt)
    BY <1>1, CommandFields DEF Gives
  <2>2. at \in Deadline /\ (c.ttl # None => at = n + c.ttl /\ at \in Int)
    BY <1>1, CommandFields DEF Deadline, Lifetime
  <2>3. a = NewEntry(c.value, at)
    BY <1>1, <2>1 DEF Becomes, Keyed, After, SetRefused
  <2>4. a # None /\ a.value = c.value /\ a.expireAt = at
    <3> HIDE DEF at
    <3> QED
      BY <2>1, <2>2, <2>3, EntryOfNew
  <2> QED
    BY <2>1, <2>2, <2>4, NoneAssumption DEF Outlives, GivesDeadline
<1>2. CASE c.op = "MSET"
  <2> DEFINE q == c.pairs
  <2>1. q \in Seq(Keys \X Value)
    BY <1>2, CommandFields
  <2>2. PICK i \in 1..Len(q) : LastPair(q, k, i) /\ q[i][2] = e.value
    BY <1>2 DEF Gives
  <2>3. Assigned(a, d, q, k)
    BY <1>2 DEF Becomes
  <2> HIDE DEF q
  <2>4. PICK j \in 1..Len(q) : LastPair(q, k, j) /\ a = NewEntry(q[j][2], None)
    BY <2>2, <2>3 DEF Assigned, LastPair
  <2>5. i = j
    <3>1. ~(i > j) /\ ~(j > i) /\ Len(q) \in Nat
      BY <2>1, <2>2, <2>4 DEF LastPair
    <3> QED
      BY <3>1
  <2>6. q[i][2] \in Value
    BY <2>1
  <2>7. a # None /\ a.value = q[i][2] /\ a.expireAt = None
    BY <2>4, <2>5, <2>6, EntryOfNew DEF Deadline
  <2> QED
    BY <1>2, <2>2, <2>7 DEF Outlives, GivesDeadline
<1> QED
  BY <1>1, <1>2 DEF Gives

LEMMA VouchedApplied ==
    ASSUME NEW d, d = None \/ d \in Entry, NEW a, NEW e \in Entry, NEW c \in CommandType, NEW k \in Keys,
           NEW n \in Int, ~IsExpired(e, n), Becomes(a, d, c, k, n),
           NEW q \in Seq(CommandType), q # <<>>, c = Head(q), Vouched(d, q, k, e, n)
    PROVE  Vouched(a, Tail(q), k, e, n)
<1> DEFINE u == Tail(q)
           b == Len(u)
<1>1. /\ b \in Nat /\ Len(q) = b + 1 /\ q[1] = c /\ 1 \in 1..(b + 1)
      /\ \A i \in 1..b : u[i] = q[i + 1] /\ i + 1 \in 1..(b + 1) /\ i + 1 > 1
  OBVIOUS
<1> HIDE DEF u, b
<1>2. \A i \in 1..(b + 1) : i = 1 \/ (i - 1 \in 1..b /\ q[i] = u[i - 1])
  <2>1. \A i \in 1..(b + 1) : i = 1 \/ (i - 1 \in 1..b /\ (i - 1) + 1 = i)
    BY <1>1
  <2> QED
    BY <1>1, <2>1
<1>3. CASE Stays(d, q, k, e, n)
  <2>1. d \in Entry /\ Outlives(d, e) /\ Spares(c, k, e, n)
    BY <1>1, <1>3 DEF Stays, Outlives
  <2>2. Outlives(a, e) /\ (d.expireAt # None \/ Redates(c, k) => a.expireAt # None)
    BY <2>1, SparedEntry
  <2>3. \A i \in 1..b : Spares(u[i], k, e, n)
    BY <1>1, <1>3 DEF Stays
  <2>4. e.expireAt # None => a.expireAt # None \/ \E i \in 1..b : Redates(u[i], k)
    BY <1>1, <1>2, <1>3, <2>2 DEF Stays
  <2>5. Stays(a, u, k, e, n)
    BY <2>2, <2>3, <2>4 DEF Stays, b
  <2> QED
    BY <2>5 DEF Vouched, u
<1>4. CASE Given(q, k, e, n)
  <2>1. PICK p \in 1..(b + 1) : GivenAt(q, p, k, e, n)
    BY <1>1, <1>4 DEF Given
  <2>2. CASE p = 1
    <3>1. Gives(c, k, e, n)
      BY <1>1, <2>1, <2>2 DEF GivenAt
    <3>2. Outlives(a, e) /\ (GivesDeadline(c) => a.expireAt # None)
      BY <3>1, GivenEntry
    <3>3. \A i \in 1..b : Spares(u[i], k, e, n)
      BY <1>1, <2>1, <2>2 DEF GivenAt
    <3>4. e.expireAt # None => a.expireAt # None \/ \E i \in 1..b : Redates(u[i], k)
      <4>1. \A i \in 1..(b + 1) : i > 1 => i # 1
        OBVIOUS
      <4>2. e.expireAt # None => GivesDeadline(c) \/ \E i \in 1..(b + 1) : i > 1 /\ Redates(q[i], k)
        BY <1>1, <2>1, <2>2 DEF GivenAt
      <4> QED
        BY <1>2, <3>2, <4>1, <4>2
    <3>5. Stays(a, u, k, e, n)
      BY <3>2, <3>3, <3>4 DEF Stays, b
    <3> QED
      BY <3>5 DEF Vouched, u
  <2>3. CASE p # 1
    <3> DEFINE j == p - 1
    <3>1. j \in 1..b /\ u[j] = q[p] /\ j + 1 = p
      BY <1>1, <1>2, <2>3
    <3> HIDE DEF j
    <3>2. \A i \in 1..b : i > j => i + 1 > p
      BY <1>1, <3>1
    <3>3. \A i \in 1..b : i > j => Spares(u[i], k, e, n)
      BY <1>1, <2>1, <3>2 DEF GivenAt
    <3>4. \A i \in 1..(b + 1) : i > p => i # 1 /\ i - 1 > j
      BY <1>1, <3>1
    <3>5. e.expireAt # None => GivesDeadline(q[p]) \/ \E i \in 1..(b + 1) : i > p /\ Redates(q[i], k)
      BY <1>1, <2>1 DEF GivenAt
    <3>6. e.expireAt # None => GivesDeadline(u[j]) \/ \E i \in 1..b : i > j /\ Redates(u[i], k)
      BY <1>2, <3>1, <3>4, <3>5
    <3>7. GivenAt(u, j, k, e, n)
      BY <2>1, <3>1, <3>3, <3>6 DEF GivenAt, b
    <3> QED
      BY <3>1, <3>7 DEF Given, Vouched, u, b
  <2> QED
    BY <2>2, <2>3
<1> QED
  BY <1>3, <1>4 DEF Vouched

-----------------------------------------------------------------------------
(***************************************************************************)
(* A snapshot gives every live key.                                        *)
(***************************************************************************)
\* One of the sequences gives it, and those after it give it or spare it.
LEMMA FlattenGives ==
    ASSUME NEW q \in Seq(Seq(CommandType)), NEW k, NEW e, NEW n, NEW j \in 1..Len(q), Given(q[j], k, e, n),
           \A i \in 1..Len(q) : Given(q[i], k, e, n) \/ \A m \in 1..Len(q[i]) : Spares(q[i][m], k, e, n)
    PROVE  Given(FlattenSeq(q), k, e, n)
<1>1. PICK f : Joins(f, q, CommandType)
  BY FlattenSteps
<1> DEFINE L == Len(q)
<1>2. /\ L \in Nat /\ FlattenSeq(q) = f[L]
      /\ \A i \in Nat : i <= L => f[i] \in Seq(CommandType)
      /\ \A i \in Nat : i + 1 <= L => f[i + 1] = f[i] \o q[i + 1]
  <2>1. L \in Nat
    OBVIOUS
  <2>2. /\ FlattenSeq(q) = f[L]
        /\ \A i \in Nat : i <= L => f[i] \in Seq(CommandType)
        /\ \A i \in Nat : i + 1 <= L => f[i + 1] = f[i] \o q[i + 1]
    BY <1>1 DEF Joins
  <2> QED
    BY <2>1, <2>2
<1>3. \A i \in 1..L : q[i] \in Seq(CommandType)
  OBVIOUS
<1> DEFINE LeavesIt(i) == \A m \in 1..Len(q[i]) : Spares(q[i][m], k, e, n)
           Holds(i) == j <= i => Given(f[i], k, e, n)
           N == {i \in Nat : i <= L => Holds(i)}
<1>4. \A i \in 1..L : Given(q[i], k, e, n) \/ LeavesIt(i)
  OBVIOUS
<1>0. j \in 1..L
  OBVIOUS
<1> HIDE DEF L, LeavesIt
<1>5. 0 \in N
  BY <1>0, <1>2
<1>6. \A i \in Nat : i \in N => i + 1 \in N
  <2> SUFFICES ASSUME NEW i \in Nat, Holds(i), i + 1 <= L
               PROVE  Holds(i + 1)
    <3> HIDE DEF Holds
    <3> QED
      BY <1>2
  <2> HAVE j <= i + 1
  <2> DEFINE a == f[i]
             b == q[i + 1]
  <2>0. i <= L /\ i + 1 \in 1..L
    BY <1>2
  <2>1. a \in Seq(CommandType) /\ b \in Seq(CommandType) /\ f[i + 1] = a \o b
    BY <1>2, <1>3, <2>0
  <2>2. CASE Given(b, k, e, n)
    <3> HIDE DEF a, b
    <3> QED
      BY <2>1, <2>2, GivenAfter
  <2>3. CASE ~Given(b, k, e, n)
    <3>1. LeavesIt(i + 1)
      BY <1>4, <2>0, <2>3
    <3>2. \A m \in 1..Len(b) : Spares(b[m], k, e, n)
      BY <3>1 DEF LeavesIt
    <3>3. j # i + 1
      BY <2>3
    <3>4. j <= i
      BY <1>0, <1>2, <3>3
    <3>5. Vouched(None, a, k, e, n)
      BY <3>4 DEF Vouched
    <3> HIDE DEF a, b
    <3>6. Vouched(None, a \o b, k, e, n)
      BY <2>1, <3>2, <3>5, SparesAll
    <3> QED
      BY <2>1, <3>6 DEF Vouched, Stays, Outlives
  <2> QED
    BY <2>2, <2>3
<1> HIDE DEF N
<1>7. L \in N
  BY <1>2, <1>5, <1>6, Induction
<1>8. Given(f[L], k, e, n)
  BY <1>0, <1>2, <1>7 DEF N
<1> QED
  BY <1>2, <1>8

SparesOthers(q, k, n) == \A h, x : h # k => \A i \in 1..Len(q) : Spares(q[i], h, x, n)

\* What restores the entry of one key gives it, and spares all others.
LEMMA RestoreGives ==
    ASSUME NEW k \in Keys, NEW v \in Value, NEW at \in Deadline, NEW n \in Int,
           NEW q, q = IF at = None THEN <<PlainSet(k, v)>>
                      ELSE <<PlainSet(k, v), CmdExpire(k, at - n + 1)>>,
           NEW e, e.value = v, e.expireAt = at
    PROVE  Given(q, k, e, n) /\ SparesOthers(q, k, n)
<1> DEFINE c == PlainSet(k, v)
           d == CmdExpire(k, at - n + 1)
<1>1. c.op = "SET" /\ c.key = k /\ c.value = v /\ c.ttl = None /\ c.mode = "always"
  BY DEF PlainSet, CmdSet
<1>2. d.op = "EXPIRE" /\ d.key = k /\ d.ttl = at - n + 1
  BY DEF CmdExpire
<1> HIDE DEF c, d
<1>3. Gives(c, k, e, n)
  BY <1>1 DEF Gives
<1>4. \A h, x : h # k => Spares(c, h, x, n) /\ Spares(d, h, x, n)
  BY <1>1, <1>2 DEF Spares, Redates
<1>5. CASE at = None
  <2>1. q = <<c>>
    BY <1>5 DEF c
  <2>2. Len(q) = 1 /\ q[1] = c /\ \A i \in 1..Len(q) : i = 1
    BY <2>1
  <2>3. GivenAt(q, 1, k, e, n)
    BY <1>3, <1>5, <2>2 DEF GivenAt
  <2> QED
    BY <1>4, <2>2, <2>3 DEF Given, SparesOthers
<1>6. CASE at # None
  <2>1. q = <<c, d>> /\ at \in Int
    BY <1>6 DEF c, d, Deadline
  <2>2. Len(q) = 2 /\ q[1] = c /\ q[2] = d /\ \A i \in 1..Len(q) : i = 1 \/ i = 2
    BY <2>1
  <2>3. n + (at - n + 1) >= at
    BY <2>1
  <2>4. Spares(d, k, e, n) /\ Redates(d, k)
    BY <1>2, <1>6, <2>3 DEF Spares, Redates, DeadlineOf
  <2>5. GivenAt(q, 1, k, e, n)
    <3>1. \A i \in 1..Len(q) : i > 1 => q[i] = d
      BY <2>2
    <3>2. 2 \in 1..Len(q) /\ 2 > 1
      BY <2>2
    <3> QED
      BY <1>3, <2>2, <2>4, <3>1, <3>2 DEF GivenAt
  <2>6. 1 \in 1..Len(q)
    BY <2>2
  <2> QED
    BY <1>4, <2>2, <2>5, <2>6 DEF Given, SparesOthers
<1> QED
  BY <1>5, <1>6

LEMMA SnapshotGives ==
    ASSUME NEW s, Good(s), NEW n \in Int, NEW k \in Keys, Live(s, k, n)
    PROVE  Given(SnapshotCommands(s, n), k, s.data[k], n)
<1> DEFINE es == Snapshot(s, n)
           ks == SnapshotKeys(s, n)
           restore(e) == IF e.expireAt = None
                         THEN <<PlainSet(e.key, e.value)>>
                         ELSE <<PlainSet(e.key, e.value), CmdExpire(e.key, e.expireAt - n + 1)>>
           q == [i \in 1..Len(es) |-> restore(es[i])]
<1>1. SnapshotCommands(s, n) = FlattenSeq(q)
  BY DEF SnapshotCommands
<1>2. /\ ks \in Seq(Keys) /\ es \in Seq(SnapshotEntry) /\ Len(es) = Len(ks)
      /\ In(ks, k)
      /\ \A i \in 1..Len(ks) :
            /\ ks[i] \in Keys /\ s.data[ks[i]] \in Entry
            /\ es[i] = [key |-> ks[i], value |-> s.data[ks[i]].value,
                        expireAt |-> s.data[ks[i]].expireAt]
  BY SnapshotLists
<1> HIDE DEF es, ks
<1>3. ASSUME NEW e \in SnapshotEntry
      PROVE  restore(e) \in Seq(CommandType)
  <2>1. e.key \in Keys /\ e.value \in Value /\ (e.expireAt # None => e.expireAt \in Int)
    BY DEF SnapshotEntry, Deadline
  <2>2. e.expireAt # None => e.expireAt - n + 1 \in Int
    BY <2>1
  <2> QED
    BY <2>1, <2>2, CommandTypes
<1>4. ASSUME NEW i \in 1..Len(ks)
      PROVE  /\ ks[i] = k => Given(q[i], k, s.data[k], n)
             /\ ks[i] # k => \A m \in 1..Len(q[i]) : Spares(q[i][m], k, s.data[k], n)
  <2> DEFINE j == ks[i]
             x == s.data[j]
             v == x.value
             at == x.expireAt
             b == q[i]
  <2>1. /\ j \in Keys /\ x \in Entry
        /\ es[i].key = j /\ es[i].value = v /\ es[i].expireAt = at
    <3>1. j \in Keys /\ x \in Entry /\ es[i] = [key |-> j, value |-> v, expireAt |-> at]
      BY <1>2
    <3> HIDE DEF v, at, j, x
    <3> QED
      BY <3>1
  <2>2. v \in Value /\ at \in Deadline
    <3> HIDE DEF x
    <3> QED
      BY <2>1 DEF Entry, Deadline
  <2>3. b = IF at = None THEN <<PlainSet(j, v)>> ELSE <<PlainSet(j, v), CmdExpire(j, at - n + 1)>>
    BY <1>2, <2>1
  <2>4. x.value = v /\ x.expireAt = at
    OBVIOUS
  <2> HIDE DEF v, at, x, b, j
  <2>5. Given(b, j, x, n) /\ SparesOthers(b, j, n)
    BY <2>1, <2>2, <2>3, <2>4, RestoreGives
  <2> QED
    BY <2>5 DEF b, j, x, SparesOthers
<1> HIDE DEF restore
<1>5. q \in Seq(Seq(CommandType)) /\ Len(q) = Len(ks)
  BY <1>2, <1>3
<1> HIDE DEF q
<1>6. PICK j \in 1..Len(q) : ks[j] = k
  BY <1>2, <1>5 DEF In
<1> DEFINE e == s.data[k]
<1>7. Given(q[j], k, e, n)
  BY <1>4, <1>5, <1>6
<1>8. \A i \in 1..Len(q) : Given(q[i], k, e, n) \/ \A m \in 1..Len(q[i]) : Spares(q[i][m], k, e, n)
  BY <1>4, <1>5
<1> HIDE DEF e
<1>9. Given(FlattenSeq(q), k, e, n)
  BY <1>5, <1>6, <1>7, <1>8, FlattenGives
<1> QED
  BY <1>1, <1>9 DEF e

-----------------------------------------------------------------------------
(***************************************************************************)
(* What the primary streams for a write vouches for what it has stored.    *)
(***************************************************************************)
OwnPart(c, r) == IF c.op # "SET" \/ r.wrote THEN <<ToReplication(c)>> ELSE <<>>

DelPart(x) == [i \in 1..Len(x) |-> CmdDel(x[i])]

LEMMA StreamParts ==
    ASSUME NEW c \in CommandType, NEW r, r.store.evicted \in Seq(Keys)
    PROVE  /\ Stream(c, r) = OwnPart(c, r) \o DelPart(r.store.evicted)
           /\ OwnPart(c, r) \in Seq(CommandType) /\ DelPart(r.store.evicted) \in Seq(CommandType)
           /\ \A k, e, n : ~In(r.store.evicted, k) =>
                 \A i \in 1..Len(DelPart(r.store.evicted)) :
                     Spares(DelPart(r.store.evicted)[i], k, e, n)
<1> DEFINE x == r.store.evicted
<1>1. Stream(c, r) = OwnPart(c, r) \o DelPart(x)
  BY DEF Stream, OwnPart, DelPart
<1>2. OwnPart(c, r) \in Seq(CommandType)
  <2>1. ToReplication(c) \in CommandType /\ <<>> \in Seq(CommandType)
    BY ToReplicationType
  <2>2. <<ToReplication(c)>> \in Seq(CommandType)
    BY <2>1
  <2> QED
    BY <2>1, <2>2 DEF OwnPart
<1>3. \A i \in 1..Len(x) : x[i] \in Keys /\ CmdDel(x[i]) \in CommandType
  BY CommandTypes
<1>4. /\ DelPart(x) \in Seq(CommandType) /\ Len(DelPart(x)) = Len(x)
      /\ \A i \in 1..Len(x) : DelPart(x)[i] = CmdDel(x[i])
  <2> HIDE DEF x
  <2>1. Len(x) \in Nat
    BY DEF x
  <2> QED
    BY <1>3, <2>1 DEF DelPart
<1>5. ASSUME NEW k, NEW e, NEW n, ~In(x, k), NEW i \in 1..Len(x)
      PROVE  Spares(CmdDel(x[i]), k, e, n)
  <2>1. CmdDel(x[i]).op = "DEL" /\ CmdDel(x[i]).key = x[i]
    BY DEF CmdDel
  <2>2. x[i] # k
    BY <1>5 DEF In
  <2> QED
    BY <2>1, <2>2 DEF Spares, Redates
<1> HIDE DEF x
<1>6. \A k, e, n : ~In(x, k) => \A i \in 1..Len(DelPart(x)) : Spares(DelPart(x)[i], k, e, n)
  BY <1>4, <1>5
<1> QED
  BY <1>1, <1>2, <1>4, <1>6 DEF x

\* The write has left the entry alone.
LEMMA StreamSpares ==
    ASSUME NEW c \in CommandType, NEW r, r.store.evicted \in Seq(Keys), NEW k, ~In(r.store.evicted, k),
           NEW e, NEW n, NEW d, NEW q \in Seq(CommandType), Vouched(d, q, k, e, n),
           (c.op = "SET" /\ ~r.wrote) \/ Spares(ToReplication(c), k, e, n)
    PROVE  Vouched(d, q \o Stream(c, r), k, e, n)
<1> DEFINE a == OwnPart(c, r)
           b == DelPart(r.store.evicted)
<1>1. a \in Seq(CommandType) /\ b \in Seq(CommandType) /\ Stream(c, r) = a \o b
      /\ \A i \in 1..Len(b) : Spares(b[i], k, e, n)
  BY StreamParts
<1>2. \A i \in 1..Len(a) : Spares(a[i], k, e, n)
  <2>1. CASE c.op = "SET" /\ ~r.wrote
    BY <2>1 DEF OwnPart
  <2>2. CASE ~(c.op = "SET" /\ ~r.wrote)
    <3>1. a = <<ToReplication(c)>> /\ Spares(ToReplication(c), k, e, n)
      BY <2>2 DEF OwnPart
    <3>2. \A i \in 1..Len(a) : a[i] = ToReplication(c)
      BY <3>1
    <3> QED
      BY <3>1, <3>2
  <2> QED
    BY <2>1, <2>2
<1> HIDE DEF a, b
<1>3. Vouched(d, q \o a, k, e, n)
  BY <1>1, <1>2, SparesAll
<1> DEFINE w == q \o a
<1>4. w \in Seq(CommandType) /\ q \o (a \o b) = w \o b
  BY <1>1, JoinThree, SMTT(30)
<1>5. Vouched(d, w, k, e, n)
  BY <1>3
<1> HIDE DEF w
<1>6. Vouched(d, w \o b, k, e, n)
  BY <1>1, <1>4, <1>5, SparesAll
<1> QED
  BY <1>1, <1>4, <1>6

\* The write has stored the entry.
LEMMA StreamGives ==
    ASSUME NEW c \in CommandType, NEW r, r.store.evicted \in Seq(Keys), NEW k, ~In(r.store.evicted, k),
           NEW e, NEW n, NEW d, NEW q \in Seq(CommandType),
           c.op # "SET" \/ r.wrote, Gives(ToReplication(c), k, e, n),
           e.expireAt # None => GivesDeadline(ToReplication(c))
    PROVE  Vouched(d, q \o Stream(c, r), k, e, n)
<1> DEFINE a == OwnPart(c, r)
           b == DelPart(r.store.evicted)
           g == ToReplication(c)
<1>1. a \in Seq(CommandType) /\ b \in Seq(CommandType) /\ Stream(c, r) = a \o b
      /\ \A i \in 1..Len(b) : Spares(b[i], k, e, n)
  BY StreamParts
<1>2. a = <<g>> /\ Gives(g, k, e, n) /\ (e.expireAt # None => GivesDeadline(g))
  BY DEF OwnPart
<1> HIDE DEF a, b, g
<1>3. Len(a) = 1 /\ a[1] = g /\ \A i \in 1..Len(a) : ~(i > 1)
  BY <1>2
<1>4. GivenAt(a, 1, k, e, n) /\ 1 \in 1..Len(a)
  BY <1>2, <1>3 DEF GivenAt
<1>5. Vouched(None, a, k, e, n)
  BY <1>4 DEF Given, Vouched
<1>6. Vouched(None, a \o b, k, e, n)
  BY <1>1, <1>5, SparesAll
<1> DEFINE w == a \o b
<1>7. Given(w, k, e, n) /\ w \in Seq(CommandType)
  BY <1>1, <1>6 DEF Vouched, Stays, Outlives
<1> HIDE DEF w
<1>8. Given(q \o w, k, e, n)
  BY <1>7, GivenAfter
<1> QED
  BY <1>1, <1>8 DEF Vouched, w

\* c gives a live key a later deadline.
PutsOff(s, c, n) ==
    /\ c.op \in {"EXPIRE", "PEXPIREAT"} /\ Live(s, c.key, n)
    /\ s.data[c.key].expireAt # None /\ DeadlineOf(c, n) > s.data[c.key].expireAt

\* Commands whose effect does not depend on a deadline that the replica may see
\* pass later than the primary; MSET as in Streamable.
Relayable(c) ==
    c \in CommandType /\ c.op \notin {"INCR", "PERSIST"} /\ (c.op = "MSET" => NoEviction(PrimaryOptions))

LEMMA LiveKept ==
    ASSUME NEW t, NEW k, NEW n, Live(t, k, n), NEW e, Kept(t.data[k], e, n)
    PROVE  t.data[k] = e
BY DEF Live, Has, Kept, Fresh

LEMMA WriteVouches ==
    ASSUME NEW c, Relayable(c), c.op \in WriteCommands,
           NEW p, Good(p), p.evicted = <<>>, SameOptions(p, PrimaryOptions), NEW n \in Int, ~PutsOff(p, c, n),
           NEW r, r = Dispatch(p, c, n), NEW k \in Keys, Live(r.store, k, n),
           NEW d, d = None \/ d \in Entry, NEW q \in Seq(CommandType),
           Live(p, k, n) => Vouched(d, q, k, p.data[k], n)
    PROVE  Vouched(d, q \o Stream(c, r), k, r.store.data[k], n)
<1> DEFINE t == r.store
           e == t.data[k]
           f == p.data[k]
           g == ToReplication(c)
<1>0. c \in CommandType /\ c.op \notin {"INCR", "PERSIST"}
  BY DEF Relayable
<1>1. Good(t) /\ t.evicted \in Seq(Keys) /\ e \in Entry /\ e # None /\ ~IsExpired(e, n)
      /\ (f = None \/ f \in Entry)
  <2>1. Good(t)
    BY <1>0, DispatchGood DEF Reached
  <2>2. t.evicted \in Seq(Keys)
    BY <2>1 DEF Good, Sound, StoreType
  <2>3. e # None /\ ~IsExpired(e, n)
    BY DEF Live, Has
  <2>4. (e = None \/ e \in Entry) /\ (f = None \/ f \in Entry)
    BY <2>1, StillEntry
  <2> QED
    BY <2>1, <2>2, <2>3, <2>4
<1>a. ASSUME e = f
      PROVE  Vouched(d, q, k, e, n)
  BY <1>1, <1>a DEF Live, Has
<1>b. \A x : ~In(<<>>, x)
  BY DEF In
<1>2. CASE c.op = "SET"
  <2>1. /\ c.key \in Keys /\ Roughly(t, p, c, n)
        /\ r.wrote = ~SetRefused(Fresh(p.data[c.key], n), c)
        /\ ~r.wrote => Exactly(t, p, c, n)
    BY <1>0, <1>2, KeyedEffect DEF Keyed
  <2>2. ~In(t.evicted, k) /\ Kept(e, Updated(p, c, n, k), n)
    BY <1>1, <2>1 DEF Roughly
  <2>3. e = Updated(p, c, n, k)
    BY <2>2, LiveKept
  <2>4. /\ g.op = "SET" /\ g.key = c.key /\ g.value = c.value /\ g.ttl = c.ttl /\ g.mode = "always"
    BY <1>2 DEF ToReplication, CmdSet
  <2>5. CASE k # c.key
    <3>1. e = f
      BY <2>3, <2>5 DEF Updated
    <3>2. Spares(g, k, e, n)
      <4> HIDE DEF g, e
      <4> QED
        BY <2>4, <2>5 DEF Spares, Redates
    <3>3. Vouched(d, q, k, e, n)
      BY <1>a, <3>1
    <3> HIDE DEF e
    <3> QED
      BY <1>0, <1>1, <2>2, <3>2, <3>3, StreamSpares DEF e
  <2>6. CASE k = c.key /\ ~r.wrote
    <3>1. e = Fresh(f, n)
      BY <1>2, <2>1, <2>3, <2>6 DEF Updated, After
    <3>2. e = f
      BY <1>1, <3>1 DEF Fresh
    <3>3. Vouched(d, q, k, e, n)
      BY <1>a, <3>2
    <3> HIDE DEF e
    <3> QED
      BY <1>0, <1>1, <1>2, <2>2, <2>6, <3>3, StreamSpares DEF e
  <2>7. CASE k = c.key /\ r.wrote
    <3> DEFINE at == IF c.ttl = None THEN None ELSE n + c.ttl
    <3>1. e = NewEntry(c.value, at)
      BY <1>2, <2>1, <2>3, <2>7 DEF Updated, After
    <3>2. c.value \in Value /\ at \in Deadline /\ (c.ttl # None => at \in Int /\ at = n + c.ttl /\ at # None)
      BY <1>0, <1>2, CommandFields, NoneAssumption DEF Deadline, Lifetime
    <3>3. e.value = c.value /\ e.expireAt = at
      <4> HIDE DEF at, e
      <4> QED
        BY <3>1, <3>2, EntryOfNew
    <3>4. c.ttl # None => n + c.ttl >= e.expireAt /\ e.expireAt # None
      <4> HIDE DEF e
      <4> QED
        BY <3>2, <3>3
    <3>5. e.expireAt # None => c.ttl # None
      <4> HIDE DEF e
      <4> QED
        BY <3>3
    <3> HIDE DEF at, e
    <3>6. Gives(g, k, e, n) /\ (e.expireAt # None => GivesDeadline(g))
      <4> HIDE DEF g
      <4> QED
        BY <2>4, <2>7, <3>3, <3>4, <3>5 DEF Gives, GivesDeadline
    <3> QED
      BY <1>0, <1>1, <2>2, <2>7, <3>6, StreamGives DEF e
  <2> QED
    BY <2>1, <2>5, <2>6, <2>7
<1>3. CASE c.op \in {"DEL", "EXPIRE", "PEXPIREAT"}
  <2>1. c.key \in Keys /\ Exactly(t, p, c, n) /\ g = c
    BY <1>0, <1>3, KeyedEffect DEF Keyed, ToReplication
  <2>2. t.evicted = <<>> /\ e = Updated(p, c, n, k)
    BY <2>1 DEF Exactly
  <2>3. ~In(t.evicted, k)
    BY <1>b, <2>2
  <2>4. CASE k # c.key
    <3>1. e = f
      BY <2>2, <2>4 DEF Updated
    <3>2. Spares(g, k, e, n)
      BY <1>3, <2>1, <2>4 DEF Spares, Redates
    <3>3. Vouched(d, q, k, e, n)
      BY <1>a, <3>1
    <3> HIDE DEF e
    <3> QED
      BY <1>0, <1>1, <2>3, <3>2, <3>3, StreamSpares DEF e
  <2>5. CASE k = c.key
    <3> DEFINE at == DeadlineOf(c, n)
    <3>1. e = After(f, c, n)
      BY <2>2, <2>5 DEF Updated
    <3>2. Redates(c, k) /\ e = Redated(Fresh(f, n), at)
      BY <1>1, <1>3, <2>5, <3>1 DEF After, Redates, DeadlineOf
    <3>3. at \in Int
      BY <1>0, <3>2, CommandFields DEF Redates, DeadlineOf
    <3>4. f # None /\ Fresh(f, n) = f /\ f \in Entry /\ Live(p, k, n)
      BY <1>1, <3>2 DEF Redated, Fresh, Live, Has
    <3>5. Vouched(d, q, k, f, n)
      BY <3>4
    <3>6. f.expireAt = None \/ at <= f.expireAt
      <4>1. f.expireAt # None => f.expireAt \in Int
        BY <3>4 DEF Entry
      <4>2. ~(f.expireAt # None /\ at > f.expireAt)
        BY <2>5, <3>2, <3>4 DEF PutsOff, Redates
      <4> HIDE DEF at, f
      <4> QED
        BY <3>3, <4>1, <4>2
    <3> HIDE DEF at
    <3>7. e.value = f.value /\ e.expireAt = at
      <4> HIDE DEF e, f
      <4> QED
        BY <3>2, <3>3, <3>4, RedatedEntry
    <3>8. Stream(c, r) = <<c>>
      <4>1. OwnPart(c, r) = <<c>>
        BY <1>3, <2>1 DEF OwnPart
      <4>2. DelPart(t.evicted) = <<>>
        BY <2>2 DEF DelPart
      <4>3. Stream(c, r) = OwnPart(c, r) \o DelPart(t.evicted)
        BY <1>0, <1>1, StreamParts
      <4> QED
        BY <4>1, <4>2, <4>3
    <3> HIDE DEF e, f
    <3>9. Vouched(d, Append(q, c), k, e, n)
      BY <1>0, <1>1, <3>2, <3>3, <3>4, <3>5, <3>6, <3>7, VouchedNearer DEF at
    <3>10. q \o Stream(c, r) = Append(q, c)
      BY <3>8
    <3> QED
      BY <3>9, <3>10 DEF e
  <2> QED
    BY <2>4, <2>5
<1>4. CASE c.op = "MSET"
  <2>1. Still(p)
    BY <1>4 DEF Still, NoEviction, SameOptions, Relayable
  <2>2. Still(t) /\ Becomes(e, f, c, k, n)
    BY <1>0, <2>1, DispatchEffect
  <2>3. t.evicted = <<>> /\ Assigned(e, f, c.pairs, k) /\ c.pairs \in Seq(Keys \X Value) /\ g = c
    BY <1>0, <1>4, <2>2, CommandFields DEF Still, Becomes, ToReplication
  <2>4. ~In(t.evicted, k)
    BY <1>b, <2>3
  <2>5. CASE \E i \in 1..Len(c.pairs) : c.pairs[i][1] = k
    <3>1. PICK i \in 1..Len(c.pairs) : LastPair(c.pairs, k, i) /\ e = NewEntry(c.pairs[i][2], None)
      BY <2>3, <2>5 DEF Assigned
    <3>2. c.pairs[i][2] \in Value
      BY <2>3
    <3>3. e.value = c.pairs[i][2] /\ e.expireAt = None
      <4> DEFINE v == c.pairs[i][2]
      <4>1. v \in Value /\ None \in Deadline /\ e = NewEntry(v, None)
        BY <3>1, <3>2 DEF Deadline
      <4> HIDE DEF e, v
      <4>2. e.value = v /\ e.expireAt = None
        BY <4>1, EntryOfNew
      <4> QED
        BY <4>2 DEF v
    <3>4. Gives(g, k, e, n) /\ e.expireAt = None
      <4> HIDE DEF e, g
      <4> QED
        BY <1>4, <2>3, <3>1, <3>3 DEF Gives
    <3> HIDE DEF e
    <3> QED
      BY <1>0, <1>1, <1>4, <2>4, <3>4, StreamGives DEF e
  <2>6. CASE ~\E i \in 1..Len(c.pairs) : c.pairs[i][1] = k
    <3>1. e = f
      BY <2>3, <2>6 DEF Assigned
    <3>2. Spares(g, k, e, n)
      BY <1>4, <2>3, <2>6 DEF Spares, Redates
    <3>3. Vouched(d, q, k, e, n)
      BY <1>a, <3>1
    <3> HIDE DEF e
    <3> QED
      BY <1>0, <1>1, <2>4, <3>2, <3>3, StreamSpares DEF e
  <2> QED
    BY <2>5, <2>6
<1>5. CASE c.op = "FLUSHDB"
  <2>1. t = Flush(p) /\ p \in StoreType
    BY <1>5 DEF Dispatch, Result, Good, Sound
  <2>2. t.data[k] = None
    <3> HIDE DEF t
    <3> QED
      BY <2>1 DEF Flush, StoreType
  <2> QED
    BY <1>1, <2>2
<1> QED
  BY <1>0, <1>2, <1>3, <1>4, <1>5 DEF WriteCommands

-----------------------------------------------------------------------------
(***************************************************************************)
(* The invariant: while a link is up, every live key is vouched for.       *)
(***************************************************************************)
RelayInv ==
    /\ SameOptions(primary, PrimaryOptions)
    /\ link => \A k \in Keys :
           Live(primary, k, now) =>
               Vouched(replica.data[k], wire \o queue, k, primary.data[k], now)

AllRelayable == \A c \in Commands : Relayable(c)

\* No client command gives a live key a later deadline.
NeverPutOff == \A c \in Commands : Write(c) => ~PutsOff(primary, c, now)

LEMMA RelayFacts ==
    ASSUME IInv
    PROVE  /\ Good(primary) /\ primary.evicted = <<>> /\ Still(replica) /\ now \in Int /\ LinkOK(Link)
           /\ wire \in Seq(CommandType) /\ queue \in Seq(CommandType) /\ wire \o queue \in Seq(CommandType)
           /\ \A k \in Keys : /\ replica.data[k] = None \/ replica.data[k] \in Entry
                              /\ Live(primary, k, now) => /\ primary.data[k] \in Entry
                                                          /\ ~IsExpired(primary.data[k], now)
<1>1. /\ Good(primary) /\ primary.evicted = <<>> /\ Still(replica) /\ now \in Int /\ LinkOK(Link)
      /\ wire \in Seq(CommandType) /\ queue \in Seq(CommandType)
  BY DEF IInv, StoresInv, LinkInv, Still, NoEviction, LinkOK, LinkType, Link
<1>2. wire \o queue \in Seq(CommandType)
  BY <1>1
<1>3. \A k \in Keys : /\ replica.data[k] = None \/ replica.data[k] \in Entry
                      /\ primary.data[k] = None \/ primary.data[k] \in Entry
  BY <1>1, StillEntry
<1> QED
  BY <1>1, <1>2, <1>3 DEF Live, Has

\* Steps that leave the link and the replica alone.
LEMMA PrimaryRelay ==
    ASSUME IInv, RelayInv, SameOptions(primary', primary), UNCHANGED <<replica, now, link, queue, wire>>,
           \A k \in Keys : Live(primary', k, now) => primary'.data[k] = primary.data[k]
    PROVE  RelayInv'
<1>1. SameOptions(primary, PrimaryOptions)'
  BY DEF RelayInv, SameOptions
<1>2. ASSUME link, NEW k \in Keys, Live(primary', k, now)
      PROVE  Vouched(replica.data[k], wire \o queue, k, primary'.data[k], now)
  BY <1>2 DEF RelayInv, Live, Has
<1> QED
  BY <1>1, <1>2 DEF RelayInv, Live, Has

LEMMA ReadRelay ==
    ASSUME IInv, RelayInv, AllRelayable, NEW c \in Commands, Read(c)
    PROVE  RelayInv'
<1> DEFINE r == Dispatch(primary, c, now)
           t == r.store
<1>0. c \in CommandType /\ c.op \notin {"INCR", "PERSIST"}
  BY DEF AllRelayable, Relayable
<1>1. Good(primary) /\ primary.evicted = <<>> /\ now \in Int
  BY RelayFacts
<1>2. /\ c.op \notin WriteCommands \/ ~r.ok
      /\ primary' = t /\ UNCHANGED <<replica, now, link, queue, wire>>
  BY DEF Read, linkVars
<1>3. Reached(t, primary)
  BY <1>0, <1>1, DispatchGood
<1>4. \A k \in Keys : Kept(t.data[k], primary.data[k], now)
  <2>1. CASE c.op \in {"GET", "TTL"}
    <3>1. Exactly(t, primary, c, now)
      BY <1>0, <1>1, <2>1, KeyedEffect DEF Keyed
    <3>2. After(primary.data[c.key], c, now) = Fresh(primary.data[c.key], now)
      BY <2>1 DEF After
    <3> HIDE DEF t
    <3> QED
      BY <3>1, <3>2 DEF Exactly, Updated, Kept
  <2>2. CASE c.op = "KEYS"
    <3>1. t = Sweep(primary, now) /\ Sound(primary)
      BY <1>1, <2>2 DEF Dispatch, Result, Good
    <3> HIDE DEF t
    <3> QED
      BY <1>1, <3>1, SweepEntries
  <2>3. CASE c.op = "PING"
    BY <2>3 DEF Dispatch, Result, Kept
  <2>4. CASE c.op \in WriteCommands
    <3>1. ~r.ok
      BY <1>2, <2>4
    <3>2. CASE c.op \in Keyed
      BY <1>0, <1>1, <3>1, <3>2, KeyedEffect
    <3>3. CASE c.op \in {"MSET", "FLUSHDB"}
      BY <3>1, <3>3 DEF Dispatch, Result
    <3> QED
      BY <2>4, <3>2, <3>3 DEF WriteCommands, Keyed
  <2> QED
    BY <1>0, <2>1, <2>2, <2>3, <2>4, CommandFields DEF Keyed, WriteCommands
<1> HIDE DEF r, t
<1>5. \A k \in Keys : Live(t, k, now) => t.data[k] = primary.data[k]
  BY <1>4, LiveKept
<1> QED
  BY <1>2, <1>3, <1>5, PrimaryRelay DEF Reached

\* The replica drops a key that has expired.
LEMMA VouchedKept ==
    ASSUME NEW a, NEW d, d = None \/ d \in Entry, NEW q, NEW k, NEW e \in Entry, NEW n \in Int,
           ~IsExpired(e, n), Kept(a, d, n), Vouched(d, q, k, e, n)
    PROVE  Vouched(a, q, k, e, n)
<1>1. ASSUME Outlives(d, e)
      PROVE  a = d
  <2>1. d \in Entry /\ (d.expireAt # None => e.expireAt # None /\ d.expireAt >= e.expireAt)
    BY <1>1 DEF Outlives
  <2>2. ASSUME d.expireAt # None
        PROVE  ~(d.expireAt <= n)
    <3>1. d.expireAt \in Int /\ e.expireAt \in Int /\ d.expireAt >= e.expireAt /\ ~(e.expireAt <= n)
      BY <2>1, <2>2 DEF Entry, IsExpired
    <3> QED
      BY <3>1
  <2>3. Fresh(d, n) = d
    BY <2>2 DEF Fresh, IsExpired
  <2> QED
    BY <2>3 DEF Kept
<1> QED
  BY <1>1 DEF Vouched, Stays

LEMMA SweepRelay ==
    ASSUME IInv, RelayInv, SweepPrimary \/ SweepReplica
    PROVE  RelayInv'
<1>0. /\ now \in Int /\ Good(primary) /\ Good(replica)
      /\ \A k \in Keys : /\ replica.data[k] = None \/ replica.data[k] \in Entry
                         /\ Live(primary, k, now) => /\ primary.data[k] \in Entry
                                                     /\ ~IsExpired(primary.data[k], now)
  BY RelayFacts DEF Still
<1>1. CASE SweepPrimary
  <2>1. primary' = Sweep(primary, now) /\ UNCHANGED <<replica, now, link, queue, wire>>
    BY <1>1 DEF SweepPrimary, linkVars
  <2> DEFINE t == primary'
  <2>2. t = Sweep(primary, now) /\ Sound(primary)
    BY <1>0, <2>1 DEF Good
  <2> HIDE DEF t
  <2>3. SameOptions(t, primary)
    BY <1>0, <2>2, SweepGood
  <2>4. \A k \in Keys : Kept(t.data[k], primary.data[k], now)
    BY <1>0, <2>2, SweepEntries
  <2>5. \A k \in Keys : Live(t, k, now) => t.data[k] = primary.data[k]
    BY <2>4, LiveKept
  <2> QED
    BY <2>1, <2>3, <2>5, PrimaryRelay DEF t
<1>2. CASE SweepReplica
  <2>1. replica' = Sweep(replica, now) /\ UNCHANGED <<primary, now, link, queue, wire>>
    BY <1>2 DEF SweepReplica, linkVars
  <2> DEFINE t == replica'
             q == wire \o queue
  <2>2. t = Sweep(replica, now) /\ Sound(replica)
    BY <1>0, <2>1 DEF Good
  <2> HIDE DEF t
  <2>3. \A k \in Keys : Kept(t.data[k], replica.data[k], now)
    BY <1>0, <2>2, SweepEntries
  <2>4. ASSUME link, NEW k \in Keys, Live(primary, k, now)
        PROVE  Vouched(t.data[k], q, k, primary.data[k], now)
    <3> DEFINE a == t.data[k]
               d == replica.data[k]
               e == primary.data[k]
    <3>1. /\ Kept(a, d, now) /\ (d = None \/ d \in Entry) /\ e \in Entry /\ ~IsExpired(e, now)
          /\ Vouched(d, q, k, e, now)
      BY <1>0, <2>3, <2>4 DEF RelayInv
    <3> HIDE DEF a, d, e, q
    <3>2. Vouched(a, q, k, e, now)
      BY <1>0, <3>1, VouchedKept
    <3> QED
      BY <3>2 DEF a, e
  <2> QED
    BY <2>1, <2>4 DEF RelayInv, SameOptions, t
<1> QED
  BY <1>1, <1>2

LEMMA TickRelay ==
    ASSUME IInv, RelayInv, Tick
    PROVE  RelayInv'
<1> DEFINE q == wire \o queue
<1>0. now \in Int /\ now' \in Int /\ now <= now' /\ UNCHANGED <<primary, replica, link, queue, wire>>
      /\ q \in Seq(CommandType) /\ Good(primary)
  BY RelayFacts DEF Tick, linkVars
<1> HIDE DEF q
<1>1. ASSUME link, NEW k \in Keys, Live(primary, k, now')
      PROVE  Vouched(replica.data[k], q, k, primary.data[k], now')
  <2> DEFINE d == replica.data[k]
             e == primary.data[k]
  <2>1. e \in Entry
    BY <1>0, <1>1, StillEntry DEF Live, Has
  <2>2. ~IsExpired(e, now)
    <3>1. e.expireAt # None => e.expireAt \in Int /\ ~(e.expireAt <= now')
      BY <1>1, <2>1 DEF Entry, Live, IsExpired
    <3> HIDE DEF e
    <3> QED
      BY <1>0, <3>1 DEF IsExpired
  <2>3. Vouched(d, q, k, e, now)
    BY <1>1, <2>2 DEF RelayInv, Live, Has, q
  <2> HIDE DEF d, e
  <2> DEFINE m == now'
  <2>4. m \in Int /\ now <= m
    BY <1>0
  <2> HIDE DEF m
  <2>5. Vouched(d, q, k, e, m)
    BY <1>0, <2>1, <2>3, <2>4, VouchedLater
  <2> QED
    BY <2>5 DEF d, e, m
<1> QED
  BY <1>0, <1>1 DEF RelayInv, SameOptions, q, Live, Has

\* What is sent follows what is under way.
LEMMA SentAfter ==
    ASSUME IInv, NEW commands \in Seq(CommandType), Propagate(commands), UNCHANGED wire, link'
    PROVE  link /\ (wire \o queue)' = (wire \o queue) \o commands
<1>0. LinkOK(Link) /\ wire \in Seq(CommandType) /\ queue \in Seq(CommandType)
  BY RelayFacts
<1>1. link /\ queue' = queue \o commands
  BY <1>0, PropagateAppends
<1>2. wire \o (queue \o commands) = (wire \o queue) \o commands
  BY <1>0
<1> QED
  BY <1>1, <1>2

LEMMA WriteRelay ==
    ASSUME IInv, RelayInv, AllRelayable, NeverPutOff, NEW c \in Commands, Write(c)
    PROVE  RelayInv'
<1> DEFINE r == Dispatch(primary, c, now)
           t == r.store
           s == Stream(c, r)
           q == wire \o queue
<1>0. Relayable(c) /\ c \in CommandType /\ ~PutsOff(primary, c, now)
  BY DEF AllRelayable, Relayable, NeverPutOff
<1>1. /\ Good(primary) /\ primary.evicted = <<>> /\ now \in Int /\ SameOptions(primary, PrimaryOptions)
      /\ q \in Seq(CommandType)
  BY RelayFacts DEF RelayInv
<1>2. /\ c.op \in WriteCommands /\ primary' = DrainEvictions(t) /\ Propagate(s)
      /\ UNCHANGED <<replica, now, wire>>
  BY DEF Write
<1>3. Good(t) /\ SameOptions(t, primary) /\ t.evicted \in Seq(Keys)
  BY <1>0, <1>1, DispatchGood DEF Reached, Good, Sound, StoreType
<1>4. s \in Seq(CommandType)
  BY <1>0, <1>3, StreamType
<1>5. SameOptions(primary', t) /\ primary'.data = t.data
  BY <1>2, <1>3, DrainGood
<1>6. link' => link /\ (wire \o queue)' = q \o s
  <2> HIDE DEF s
  <2> QED
    BY <1>2, <1>4, SentAfter
<1>7. ASSUME link, NEW k \in Keys, Live(t, k, now)
      PROVE  Vouched(replica.data[k], q \o s, k, t.data[k], now)
  <2> DEFINE d == replica.data[k]
  <2>1. d = None \/ d \in Entry
    BY RelayFacts
  <2>2. Live(primary, k, now) => Vouched(d, q, k, primary.data[k], now)
    BY <1>7 DEF RelayInv
  <2> HIDE DEF d, q
  <2>3. Vouched(d, q \o Stream(c, r), k, r.store.data[k], now)
    BY <1>0, <1>1, <1>2, <1>7, <2>1, <2>2, WriteVouches
  <2> QED
    BY <2>3 DEF d
<1> HIDE DEF t, s, r, q
<1>8. ASSUME link', NEW k \in Keys, Live(primary', k, now)
      PROVE  Vouched(replica.data[k], (wire \o queue)', k, primary'.data[k], now)
  <2>1. Live(t, k, now)
    BY <1>5, <1>8 DEF Live, Has
  <2> QED
    BY <1>5, <1>6, <1>7, <1>8, <2>1
<1>9. SameOptions(primary, PrimaryOptions)'
  BY <1>1, <1>3, <1>5 DEF SameOptions
<1> QED
  BY <1>2, <1>8, <1>9 DEF RelayInv, Live, Has

LEMMA HeartbeatRelay ==
    ASSUME IInv, RelayInv, Heartbeat
    PROVE  RelayInv'
<1> DEFINE s == <<CmdPing>>
           q == wire \o queue
<1>1. Propagate(s) /\ UNCHANGED <<primary, replica, now, wire>>
  BY DEF Heartbeat
<1>2. s \in Seq(CommandType)
  BY CommandTypes
<1>3. q \in Seq(CommandType)
  BY RelayFacts
<1>4. \A k, e, n : \A i \in 1..Len(s) : Spares(s[i], k, e, n)
  <2>1. \A i \in 1..Len(s) : s[i] = CmdPing
    OBVIOUS
  <2>2. \A k, e, n : Spares(CmdPing, k, e, n)
    BY DEF Spares, Redates, CmdPing
  <2> QED
    BY <2>1, <2>2
<1> HIDE DEF s
<1>5. link' => link /\ (wire \o queue)' = q \o s
  BY <1>1, <1>2, SentAfter
<1> HIDE DEF q
<1>6. ASSUME link, NEW k \in Keys, Live(primary, k, now)
      PROVE  Vouched(replica.data[k], q \o s, k, primary.data[k], now)
  <2> DEFINE d == replica.data[k]
             e == primary.data[k]
  <2>1. Vouched(d, q, k, e, now)
    BY <1>6 DEF RelayInv, q
  <2> HIDE DEF d, e
  <2>2. \A i \in 1..Len(s) : Spares(s[i], k, e, now)
    BY <1>4
  <2>3. Vouched(d, q \o s, k, e, now)
    BY <1>2, <1>3, <2>1, <2>2, SparesAll
  <2> QED
    BY <2>3 DEF d, e
<1> QED
  BY <1>1, <1>5, <1>6 DEF RelayInv, SameOptions, Live, Has

LEMMA PumpRelay ==
    ASSUME IInv, RelayInv, PumpWrite \/ PumpDrained
    PROVE  RelayInv'
<1>1. CASE PumpWrite
  <2>1. /\ queue # <<>> /\ wire' = Append(wire, Head(queue)) /\ queue' = Tail(queue)
        /\ UNCHANGED <<primary, replica, now, link>>
    BY <1>1 DEF PumpWrite
  <2>2. wire \in Seq(CommandType) /\ queue \in Seq(CommandType)
    BY RelayFacts
  <2> DEFINE c == Head(queue)
             u == Tail(queue)
  <2>3. c \in CommandType /\ u \in Seq(CommandType) /\ queue = <<c>> \o u
    BY <2>1, <2>2
  <2> HIDE DEF c, u
  <2>4. wire \o (<<c>> \o u) = Append(wire, c) \o u
    BY <2>2, <2>3
  <2>5. (wire \o queue)' = wire \o queue
    BY <2>1, <2>3, <2>4 DEF c, u
  <2> QED
    BY <2>1, <2>5 DEF RelayInv, SameOptions, Live, Has
<1>2. CASE PumpDrained
  BY <1>2 DEF PumpDrained, RelayInv, SameOptions, Live, Has
<1> QED
  BY <1>1, <1>2

LEMMA ApplyRelay ==
    ASSUME IInv, RelayInv, Apply
    PROVE  RelayInv'
<1> DEFINE c == Head(wire)
           q == wire \o queue
           y == Dispatch(replica, c, now).store
<1>0. /\ wire # <<>> /\ replica' = y /\ wire' = Tail(wire)
      /\ UNCHANGED <<primary, now, link, queue>>
  BY DEF Apply, linkVars
<1>1. wire \in Seq(CommandType) /\ queue \in Seq(CommandType) /\ q \in Seq(CommandType)
      /\ now \in Int /\ Still(replica)
  BY RelayFacts
<1>2. c \in CommandType /\ q # <<>> /\ c = Head(q) /\ Tail(q) = Tail(wire) \o queue
  BY <1>0, <1>1
<1> HIDE DEF q, c
<1>3. \A k \in Keys : Becomes(y.data[k], replica.data[k], c, k, now)
  BY <1>1, <1>2, DispatchEffect
<1> HIDE DEF y
<1>4. ASSUME link, NEW k \in Keys, Live(primary, k, now)
      PROVE  Vouched(y.data[k], Tail(q), k, primary.data[k], now)
  <2> DEFINE d == replica.data[k]
             a == y.data[k]
             e == primary.data[k]
  <2>1. /\ (d = None \/ d \in Entry) /\ e \in Entry /\ ~IsExpired(e, now)
        /\ Becomes(a, d, c, k, now) /\ Vouched(d, q, k, e, now)
    BY <1>3, <1>4, RelayFacts DEF RelayInv, q
  <2> HIDE DEF d, a, e
  <2>2. Vouched(a, Tail(q), k, e, now)
    BY <1>1, <1>2, <2>1, VouchedApplied
  <2> QED
    BY <2>2 DEF a, e
<1>5. (wire \o queue)' = Tail(q)
  BY <1>0, <1>2
<1> QED
  BY <1>0, <1>4, <1>5 DEF RelayInv, SameOptions, Live, Has

LEMMA ConnectRelay ==
    ASSUME IInv, RelayInv, Connect
    PROVE  RelayInv'
<1> DEFINE p == primary'
           b == <<CmdFlushdb>>
           s == SnapshotCommands(p, now)
<1>0. now \in Int /\ Good(primary) /\ SameOptions(primary, PrimaryOptions)
  BY RelayFacts DEF RelayInv
<1>1. /\ p = Sweep(primary, now) /\ queue' = b \o s /\ wire' = <<>>
      /\ UNCHANGED <<replica, now>>
  BY DEF Connect
<1>2. Good(p) /\ SameOptions(p, primary)
  <2> HIDE DEF p
  <2> QED
    BY <1>0, <1>1, SweepGood
<1>3. s \in Seq(CommandType) /\ b \in Seq(CommandType)
  <2>1. b \in Seq(CommandType)
    BY CommandTypes
  <2> HIDE DEF p, b
  <2> QED
    BY <1>0, <1>2, <2>1, SnapshotCommandsType
<1>4. ASSUME NEW k \in Keys, Live(p, k, now)
      PROVE  Vouched(replica.data[k], b \o s, k, p.data[k], now)
  <2> DEFINE e == p.data[k]
  <2>1. Given(s, k, e, now)
    <3> HIDE DEF p
    <3> QED
      BY <1>0, <1>2, <1>4, SnapshotGives
  <2> HIDE DEF e, s, b
  <2>2. Given(b \o s, k, e, now)
    BY <1>3, <2>1, GivenAfter
  <2> QED
    BY <2>2 DEF Vouched, e
<1> HIDE DEF s, b
<1>5. (wire \o queue)' = b \o s
  BY <1>1, <1>3
<1>6. SameOptions(p, PrimaryOptions)
  BY <1>0, <1>2 DEF SameOptions
<1> QED
  BY <1>1, <1>4, <1>5, <1>6 DEF RelayInv, SameOptions, Live, Has

LEMMA EndRelay ==
    ASSUME IInv, RelayInv, StreamEnds \/ LinkLost \/ LinkDropped \/ PrimaryRestarts
    PROVE  RelayInv'
<1>1. CASE StreamEnds
  BY <1>1 DEF StreamEnds, linkVars, RelayInv, SameOptions, Live, Has
<1>2. CASE LinkLost \/ LinkDropped
  BY <1>2 DEF LinkLost, LinkDropped, CloseLink, RelayInv, SameOptions
<1>3. CASE PrimaryRestarts
  BY <1>3 DEF PrimaryRestarts, CloseLink, RelayInv, SameOptions, Empty
<1> QED
  BY <1>1, <1>2, <1>3

LEMMA NextRelay ==
    ASSUME AllRelayable
    PROVE  IInv /\ RelayInv /\ [Next]_vars /\ [NeverPutOff]_vars => RelayInv'
<1> SUFFICES ASSUME IInv, RelayInv, [Next]_vars, [NeverPutOff]_vars
             PROVE  RelayInv'
  OBVIOUS
<1>1. CASE UNCHANGED vars
  BY <1>1 DEF vars, linkVars, RelayInv, SameOptions, Live, Has
<1>2. ASSUME NeverPutOff, NEW c \in Commands, Write(c) \/ Read(c)
      PROVE  RelayInv'
  BY <1>2, WriteRelay, ReadRelay
<1>3. CASE PumpWrite \/ PumpDrained
  BY <1>3, PumpRelay
<1>4. CASE Heartbeat
  BY <1>4, HeartbeatRelay
<1>5. CASE Connect
  BY <1>5, ConnectRelay
<1>6. CASE Apply
  BY <1>6, ApplyRelay
<1>7. CASE StreamEnds \/ LinkLost \/ LinkDropped \/ PrimaryRestarts
  BY <1>7, EndRelay
<1>8. CASE SweepPrimary \/ SweepReplica
  BY <1>8, SweepRelay
<1>9. CASE Tick
  BY <1>9, TickRelay
<1> QED
  BY <1>1, <1>2, <1>3, <1>4, <1>5, <1>6, <1>7, <1>8, <1>9 DEF Next

LEMMA CaughtUpShows == IInv /\ RelayInv => LiveKeysReplicated
<1> SUFFICES ASSUME IInv, RelayInv, CaughtUp, NEW k \in Keys, Live(primary, k, now)
             PROVE  /\ Live(replica, k, now)
                    /\ replica.data[k].value = primary.data[k].value
                    /\ \/ replica.data[k].expireAt = None /\ primary.data[k].expireAt = None
                       \/ /\ replica.data[k].expireAt # None /\ primary.data[k].expireAt # None
                          /\ replica.data[k].expireAt >= primary.data[k].expireAt
  BY DEF LiveKeysReplicated, LiveKeys
<1> DEFINE d == replica.data[k]
           e == primary.data[k]
           q == wire \o queue
<1>1. /\ now \in Int /\ (d = None \/ d \in Entry) /\ e \in Entry /\ ~IsExpired(e, now)
      /\ Vouched(d, q, k, e, now)
  BY RelayFacts DEF RelayInv, CaughtUp
<1>2. q = <<>> /\ Len(q) = 0
  BY DEF CaughtUp
<1> HIDE DEF q
<1>3. Stays(d, q, k, e, now)
  BY <1>1, <1>2 DEF Vouched, Given
<1>4. Outlives(d, e) /\ (e.expireAt # None => d.expireAt # None)
  BY <1>2, <1>3 DEF Stays
<1>5. d # None /\ d \in Entry /\ d.value = e.value
      /\ (d.expireAt # None => e.expireAt # None /\ d.expireAt >= e.expireAt)
  BY <1>1, <1>4 DEF Outlives
<1>6. ~IsExpired(d, now)
  <2>1. ASSUME d.expireAt # None
        PROVE  ~(d.expireAt <= now)
    <3>1. d.expireAt \in Int /\ e.expireAt \in Int /\ d.expireAt >= e.expireAt /\ ~(e.expireAt <= now)
      BY <1>1, <1>5, <2>1 DEF Entry, IsExpired
    <3> HIDE DEF d, e
    <3> QED
      BY <1>1, <3>1
  <2> QED
    BY <2>1 DEF IsExpired
<1> QED
  BY <1>4, <1>5, <1>6 DEF Live, Has

(***************************************************************************)
(* Lifetimes that are counted again by the replica drift in one direction  *)
(* only: in every behaviour in which no EXPIRE puts a deadline off, a      *)
(* replica that has caught up shows all live keys of the primary, with     *)
(* their values and with deadlines no earlier than the primary's.  INCR    *)
(* and PERSIST are left out: they do something else to a key the primary   *)
(* has let expire and the replica has not.  MSET needs a primary that does *)
(* not evict.                                                              *)
(***************************************************************************)
THEOREM ReplicaOutlives ==
    ASSUME AllRelayable
    PROVE  Spec /\ [][NeverPutOff]_vars => []LiveKeysReplicated
<1>1. Init => RelayInv
  BY DEF Init, RelayInv, SameOptions, Empty
<1>2. IInv /\ RelayInv /\ [Next]_vars /\ [NeverPutOff]_vars => RelayInv'
  BY NextRelay
<1>3. Spec /\ [][NeverPutOff]_vars => []RelayInv
  BY <1>1, <1>2, Invariance, PTL DEF Spec
<1> QED
  BY <1>3, CaughtUpShows, Invariance, PTL

=============================================================================
