---------------------------- MODULE AofLogProofs ----------------------------
(***************************************************************************)
(* TLAPS proofs about AofLog, for any number of clients, writes, faults    *)
(* and crashes: its invariants, its action properties, and that it         *)
(* implements DurableStore.                                                *)
(***************************************************************************)
EXTENDS AofRefinement, TLAPS

(***************************************************************************)
(* The inductive invariant, in named parts.                                *)
(***************************************************************************)
Holding == {"fsync", "test", "clear", "call", "done"}

\* Mutual exclusion: only the holder of _commit_lock runs or awaits a thread,
\* and the fsync that runs is one of the file that is open.
LockInv ==
    /\ up => \A t \in Clients \cup {Syncer} :
                 /\ pc[t] \in Holding => lock = t
                 /\ pc[t] = "fsync" => inflight \subseteq file.written
    /\ file.synced \subseteq file.written

\* A queued task waits for the lock and is queued once.
QueueInv ==
    /\ \A i \in 1..Len(queue) : pc[queue[i]] = "wait"
    /\ \A i, j \in 1..Len(queue) : queue[i] = queue[j] => i = j

\* Identifiers are handed out in order.
CountInv ==
    /\ \A i \in acked : i <= count
    /\ up => \A n \in 1..seq : logged[n] <= count

\* The file holds what memory shows and what this process has appended.
LogInv ==
    up => /\ file.written \cup unflushed \subseteq store
          /\ store \cap acked \subseteq file.written
          /\ \A n \in 1..seq : logged[n] \in file.written

\* The client inside append() is not in commit(), and its record is written.
LoopInv ==
    (up /\ loop # None) => pc[loop] = "idle" /\ count \in file.written

\* While a rewrite runs, snapshot and buffer together could replace the file.
RewriteInv ==
    /\ up => (pc[Rewriter] \in {"write", "wait"} => rewriting)
    /\ (up /\ rewriting) =>
          /\ snap \cup buffer \subseteq store
          /\ store \cap acked \subseteq snap \cup buffer
          /\ \A n \in 1..seq : logged[n] \in snap \cup buffer

\* A commit waits for a record that has been appended, and the fsync it
\* awaits covers that record.
CommitInv ==
    up => \A c \in Clients :
            /\ pc[c] \in {"wait", "fsync"} => target[c] \in 1..seq
            /\ pc[c] = "fsync" => /\ upto \in target[c]..seq
                                  /\ \A n \in 1..upto : logged[n] \in inflight

\* _durable_seq never overstates what is on disk.
DurableInv ==
    (Fsync = "always" /\ RenameDurable) =>
        /\ shadow = None
        /\ acked \subseteq file.synced
        /\ up => /\ durable <= seq
                 /\ \A n \in 1..durable : logged[n] \in file.synced

\* CleanMeansSynced, also while the fsync runs.
CleanInv ==
    (Fsync = "everysec" /\ up /\ ~dirty /\ pc[Syncer] \notin {"call", "ended"}) =>
        \A n \in 1..seq : \/ logged[n] \in file.synced
                          \/ pc[Syncer] = "fsync" /\ logged[n] \in inflight

IInv ==
    /\ TypeOK
    /\ LockInv
    /\ QueueInv
    /\ CountInv
    /\ LogInv
    /\ LoopInv
    /\ RewriteInv
    /\ CommitInv
    /\ DurableInv
    /\ CleanInv

-----------------------------------------------------------------------------
(***************************************************************************)
(* Facts about the lock's queue and about the sequence of records.         *)
(***************************************************************************)
\* A task that is not waiting yet may join the queue.
LEMMA EnqueueKeeps ==
    ASSUME NEW t \in Tasks, TaskTypes, QueueInv, pc[t] # "wait", Enqueue(t)
    PROVE  /\ queue' \in Seq(Tasks)
           /\ pc' \in [Tasks -> Places]
           /\ QueueInv'
<1> USE DEF TaskTypes, QueueInv, Enqueue, Places
<1>1. queue' \in Seq(Tasks)
  OBVIOUS
<1>2. Len(queue') = Len(queue) + 1
  OBVIOUS
<1>3. \A i \in 1..Len(queue) : queue'[i] = queue[i] /\ queue[i] \in Tasks
                               /\ queue[i] # t
  OBVIOUS
<1>4. queue'[Len(queue) + 1] = t
  OBVIOUS
<1>5. \A u \in Tasks : u # t => pc'[u] = pc[u]
  OBVIOUS
<1>6. pc'[t] = "wait"
  OBVIOUS
<1>7. Len(queue) \in Nat
  OBVIOUS
<1>8. QueueInv'
  BY <1>2, <1>3, <1>4, <1>5, <1>6, <1>7
<1> QED
  BY <1>1, <1>8

\* The head of the queue leaves it when the lock is granted.
LEMMA GrantedKeeps ==
    ASSUME NEW t, NEW s, TaskTypes, QueueInv, Granted(t), s # "wait",
           pc' = [pc EXCEPT ![t] = s]
    PROVE  /\ t \in Tasks /\ pc[t] = "wait"
           /\ queue' \in Seq(Tasks)
           /\ QueueInv'
<1> USE DEF TaskTypes, QueueInv, Granted, Places
<1>1. t \in Tasks /\ pc[t] = "wait" /\ t = queue[1]
  OBVIOUS
<1>2. /\ queue' \in Seq(Tasks)
      /\ Len(queue') = Len(queue) - 1 /\ Len(queue) \in Nat \ {0}
  OBVIOUS
<1>3. \A i \in 1..Len(queue') : queue'[i] = queue[i + 1] /\ queue[i + 1] \in Tasks
                                /\ queue[i + 1] # t
  OBVIOUS
<1>4. \A u \in Tasks : u # t => pc'[u] = pc[u]
  OBVIOUS
<1>5. QueueInv'
  BY <1>1, <1>2, <1>3, <1>4
<1> QED
  BY <1>1, <1>2, <1>5

\* append() gives a record the next sequence number and moves no other.
LEMMA LoggedGrows ==
    ASSUME logged \in Seq(Nat), NEW w \in Nat, logged' = Append(logged, w)
    PROVE  /\ logged' \in Seq(Nat) /\ seq \in Nat /\ seq' = seq + 1
           /\ logged'[seq + 1] = w
           /\ \A n \in 1..seq : logged'[n] = logged[n]
           /\ \A n \in 1..(seq + 1) : \/ n \in 1..seq /\ logged'[n] = logged[n]
                                      \/ n = seq + 1 /\ logged'[n] = w
<1>1. logged' \in Seq(Nat) /\ seq \in Nat /\ seq' = seq + 1
  BY DEF seq
<1>2. logged'[seq + 1] = w /\ \A n \in 1..seq : logged'[n] = logged[n]
  BY DEF seq
<1>3. \A n \in 1..(seq + 1) : n \in 1..seq \/ n = seq + 1
  BY <1>1
<1>4. \A n \in 1..(seq + 1) : \/ n \in 1..seq /\ logged'[n] = logged[n]
                              \/ n = seq + 1 /\ logged'[n] = w
  BY ONLY <1>1, <1>2, <1>3
<1> QED
  BY ONLY <1>1, <1>2, <1>4

\* os.replace puts snapshot and buffer in the place of the log.
LEMMA SwapKeeps ==
    ASSUME IInv, LoopIdle, lock = None, rewriting, Swap, QueueInv',
           queue' \in Seq(Tasks),
           UNCHANGED <<up, lock, logged, acked, commitVars, loopVars, boundVars>>
    PROVE  IInv'
<1> USE TaskAssumption, PolicyAssumption
        DEF IInv, TypeOK, TaskTypes, MemoryTypes, DiskTypes, Inode, Places,
            Tasks, seq, sharedVars, diskVars, rewriteVars, commitVars,
            loopVars, boundVars
<1> DEFINE whole == snap \cup buffer
<1>1. /\ up /\ loop = None /\ file' = [written |-> whole, synced |-> whole]
      /\ unflushed' = {} /\ durable' = seq /\ dirty' = FALSE
      /\ rewriting' = FALSE /\ buffer' = {}
      /\ snap' = {} /\ pc' = [pc EXCEPT ![Rewriter] = "idle"]
      /\ shadow' = IF RenameDurable THEN None ELSE file
  BY DEF Swap, File, LoopIdle
<1>2. /\ whole \in SUBSET Nat /\ whole \subseteq store
      /\ store \cap acked \subseteq whole
      /\ \A n \in 1..seq : logged[n] \in whole
  BY <1>1 DEF RewriteInv
<1> HIDE DEF whole
<1> USE <1>1, <1>2
<1>3. TaskTypes' /\ MemoryTypes'
  <2>1. dirty' \in BOOLEAN /\ rewriting' \in BOOLEAN
    BY Zenon
  <2>2. logged' \in Seq(Nat) /\ durable' \in Nat
    OBVIOUS
  <2> QED
    BY <2>1, <2>2
<1>4. DiskTypes'
  <2>1. file' \in Inode /\ (shadow' = None \/ shadow' \in Inode)
    OBVIOUS
  <2> QED
    BY <2>1
<1>5. LockInv'
  BY DEF LockInv, Holding
<1>6. (CountInv /\ LogInv /\ LoopInv /\ RewriteInv)'
  BY DEF CountInv, LogInv, LoopInv, RewriteInv
<1>7. CommitInv'
  BY DEF CommitInv, LockInv, Holding
<1>8. DurableInv'
  <2>1. CASE Fsync = "always" /\ RenameDurable
    <3>1. acked \subseteq store
      BY <2>1 DEF DurableInv, LockInv, LogInv
    <3> QED
      BY <2>1, <3>1 DEF DurableInv
  <2>2. CASE ~(Fsync = "always" /\ RenameDurable)
    BY ONLY <2>2 DEF DurableInv
  <2> QED
    BY <2>1, <2>2
<1>9. CleanInv'
  BY DEF CleanInv
<1> QED
  BY <1>3, <1>4, <1>5, <1>6, <1>7, <1>8, <1>9

\* A new identifier is above every acknowledged one, so the new write
\* disturbs nothing that was promised.
LEMMA BeginAppendStep ==
    ASSUME IInv, NEW c \in Clients, BeginAppend(c)
    PROVE  IInv'
<1> USE TaskAssumption, PolicyAssumption
        DEF IInv, TypeOK, TaskTypes, MemoryTypes, DiskTypes, Inode, Places,
            BeginAppend, LoopIdle, Tasks, seq, sharedVars, diskVars,
            rewriteVars, commitVars, loopVars, boundVars
<1>1. TaskTypes'
  OBVIOUS
<1>2. MemoryTypes'
  <2>1. count' \in Nat /\ store' \in SUBSET Nat /\ unflushed' \in SUBSET Nat
    OBVIOUS
  <2>2. /\ MemoryTypes
        /\ UNCHANGED <<logged, durable, dirty, rewriting, buffer, snap>>
    OBVIOUS
  <2> HIDE DEF IInv, TypeOK, TaskTypes, DiskTypes, BeginAppend
  <2> QED
    BY <2>1, <2>2
<1>3. DiskTypes'
  <2>1. file.written \cup unflushed \cup {count'} \in SUBSET Nat
    OBVIOUS
  <2>2. file' \in Inode
    BY <2>1
  <2> QED
    BY <2>2
<1>4. LockInv'
  BY DEF LockInv, Holding
<1>5. CountInv'
  <2>1. /\ CountInv /\ count \in Nat /\ count' = count + 1 /\ acked \in SUBSET Nat
        /\ logged \in Seq(Nat) /\ UNCHANGED <<up, acked, logged>>
    OBVIOUS
  <2> HIDE DEF IInv, TypeOK, TaskTypes, MemoryTypes, DiskTypes, BeginAppend
  <2> QED
    BY <2>1 DEF CountInv
<1>6. LogInv'
  BY DEF LogInv
<1>7. LoopInv'
  BY DEF LoopInv
<1>8. RewriteInv'
  BY DEF RewriteInv, CountInv
<1>9. DurableInv'
  BY DEF DurableInv
<1>10. CleanInv'
  BY DEF CleanInv
<1>11. (QueueInv /\ CommitInv)'
  BY DEF QueueInv, CommitInv
<1> QED
  BY <1>1, <1>2, <1>3, <1>4, <1>5, <1>6, <1>7, <1>8, <1>9, <1>10, <1>11

\* A write whose flush fails is in the store but was not acknowledged.
LEMMA AppendFailedStep ==
    ASSUME IInv, NEW c \in Clients, AppendFailed(c)
    PROVE  IInv'
<1> USE TaskAssumption, PolicyAssumption
        DEF IInv, TypeOK, TaskTypes, MemoryTypes, DiskTypes, Inode, Places,
            AppendFailed, Fault, LoopIdle, Tasks, seq, sharedVars,
            diskVars, rewriteVars, commitVars, loopVars, boundVars
<1>1. MemoryTypes'
  <2>1. count' \in Nat /\ store' \in SUBSET Nat /\ unflushed' \in SUBSET Nat
    OBVIOUS
  <2> QED
    BY <2>1
<1>2. DiskTypes'
  OBVIOUS
<1>3. CountInv'
  BY DEF CountInv
<1>4. LogInv'
  BY DEF LogInv, CountInv
<1>5. LoopInv'
  BY DEF LoopInv
<1>6. RewriteInv'
  BY DEF RewriteInv, CountInv
<1>7. (TaskTypes /\ LockInv /\ QueueInv /\ CommitInv /\ DurableInv /\ CleanInv)'
  BY DEF LockInv, QueueInv, CommitInv, DurableInv, CleanInv
<1> QED
  BY <1>1, <1>2, <1>3, <1>4, <1>5, <1>6, <1>7

\* The record is in the file, hence in the fsync commit() starts, and in the
\* buffer of a running rewrite.
LEMMA EndAppendStep ==
    ASSUME IInv, NEW c \in Clients, EndAppend(c)
    PROVE  IInv'
<1> USE TaskAssumption, PolicyAssumption
        DEF IInv, TypeOK, TaskTypes, MemoryTypes, DiskTypes, Inode, Places,
            Tasks, seq, sharedVars, diskVars, rewriteVars, commitVars,
            loopVars, boundVars
<1>1. /\ up /\ up' /\ loop = c /\ loop' = None /\ pc[c] = "idle"
      /\ count \in file.written /\ count \in store /\ dirty'
      /\ buffer' = IF rewriting THEN buffer \cup {count} ELSE buffer
  BY DEF EndAppend, LoopInv, LogInv
<1>2. UNCHANGED <<up, durable, file, shadow, unflushed, rewriting, snap, count,
                store, faults, crashes, losses>>
  BY DEF EndAppend
<1>3. /\ logged' \in Seq(Nat) /\ seq \in Nat /\ seq' = seq + 1
      /\ logged'[seq + 1] = count
      /\ \A n \in 1..seq : logged'[n] = logged[n]
  BY LoggedGrows DEF EndAppend
<1>4. \A n \in 1..(seq + 1) : \/ n \in 1..seq /\ logged'[n] = logged[n]
                              \/ n = seq + 1 /\ logged'[n] = count
  BY LoggedGrows DEF EndAppend
<1>5. (MemoryTypes /\ LoopInv /\ CleanInv)'
  BY <1>1, <1>2, <1>3 DEF LoopInv, CleanInv
<1>6. CASE Fsync # "always"
  <2>1. /\ acked' = acked \cup {count}
        /\ UNCHANGED <<pc, lock, queue, target, upto, inflight>>
    BY <1>6 DEF EndAppend
  <2> USE <1>1, <1>2, <1>3, <1>4, <1>6, <2>1
  <2>2. (TaskTypes /\ DiskTypes /\ LockInv /\ QueueInv /\ DurableInv)'
    <3>1. TaskTypes' /\ DiskTypes'
      OBVIOUS
    <3>2. LockInv' /\ QueueInv'
      BY DEF LockInv, QueueInv
    <3>3. DurableInv'
      BY ONLY <1>6 DEF DurableInv
    <3> QED
      BY <3>1, <3>2, <3>3
  <2>3. CountInv'
    <3>1. CountInv /\ count \in Nat /\ acked \in SUBSET Nat
      BY DEF CountInv
    <3> QED
      BY ONLY <1>2, <1>3, <1>4, <2>1, <3>1 DEF CountInv, seq
  <2>4. LogInv'
    BY DEF LogInv
  <2>5. RewriteInv'
    BY DEF RewriteInv
  <2>6. CommitInv'
    <3>1. \A b \in Clients : pc'[b] = pc[b] /\ target'[b] = target[b] /\ target[b] \in Nat
      OBVIOUS
    <3>2. upto' = upto /\ inflight' = inflight /\ upto \in Nat
      OBVIOUS
    <3>3. CommitInv /\ up
      OBVIOUS
    <3>4. ASSUME NEW b \in Clients, pc[b] \in {"wait", "fsync"}
          PROVE  target[b] \in (1..seq)'
      BY ONLY <1>3, <3>1, <3>3, <3>4 DEF CommitInv
    <3>5. ASSUME NEW b \in Clients, pc[b] = "fsync"
          PROVE  /\ upto \in (target[b]..seq)'
                 /\ \A n \in 1..upto : logged'[n] \in inflight
      <4>1. upto \in target[b]..seq /\ \A n \in 1..upto : logged[n] \in inflight
        BY ONLY <3>3, <3>5 DEF CommitInv
      <4>2. /\ target[b] \in Nat /\ target'[b] = target[b] /\ upto \in Nat
           /\ seq \in Nat /\ seq' = seq + 1
        BY ONLY <1>3, <3>1, <3>2, <3>5
      <4>3. \A n \in 1..upto : n \in 1..seq
        BY ONLY <4>1, <4>2
      <4>4. \A n \in 1..upto : logged'[n] \in inflight
        BY ONLY <1>3, <4>1, <4>3
      <4> QED
        BY ONLY <4>1, <4>2, <4>4
    <3> QED
      BY ONLY <3>1, <3>2, <3>4, <3>5 DEF CommitInv
  <2> QED
    BY <1>5, <2>2, <2>3, <2>4, <2>5, <2>6
<1>7. CASE Fsync = "always"
  <2>1. acked' = acked /\ target' = [target EXCEPT ![c] = seq + 1]
    BY <1>7 DEF EndAppend
  <2> USE <1>1, <1>2, <1>3, <1>4, <1>7, <2>1
  <2>2. DiskTypes'
    OBVIOUS
  <2>3. CountInv'
    <3>1. CountInv /\ up /\ count \in Nat /\ count' = count /\ seq' = seq + 1
      OBVIOUS
    <3>2. \A n \in 1..(seq + 1) : logged'[n] <= count
      BY ONLY <1>4, <3>1 DEF CountInv
    <3> QED
      BY ONLY <2>1, <3>1, <3>2 DEF CountInv
  <2>4. LogInv'
    BY DEF LogInv
  <2>5. DurableInv'
    <3>1. DurableInv /\ up /\ durable \in Nat /\ seq \in Nat
      OBVIOUS
    <3>2. UNCHANGED <<shadow, file, durable>>
      OBVIOUS
    <3> QED
      BY ONLY <1>3, <2>1, <3>1, <3>2 DEF DurableInv
  <2>6. CASE LockFree /\ StartFsync(c, seq + 1) /\ UNCHANGED queue
    <3> USE <2>6 DEF LockFree, StartFsync
    <3>1. TaskTypes'
      OBVIOUS
    <3>2. LockInv'
      BY DEF LockInv, Holding
    <3>3. QueueInv'
      BY DEF QueueInv
    <3>4. RewriteInv'
      BY DEF RewriteInv
    <3>5. \A n \in 1..(seq + 1) : logged'[n] \in file.written
      BY DEF LogInv
    <3>6. CommitInv'
      BY <3>5 DEF CommitInv, LockInv, Holding
    <3> QED
      BY <1>5, <2>2, <2>3, <2>4, <2>5, <3>1, <3>2, <3>3, <3>4, <3>6
  <2>7. CASE Enqueue(c) /\ UNCHANGED <<upto, inflight>>
    <3>1. pc[c] # "wait" /\ c \in Tasks
      OBVIOUS
    <3>2. TaskTypes' /\ QueueInv'
      <4>1. Enqueue(c)
        BY <2>7
      <4>2. QueueInv' /\ queue' \in Seq(Tasks) /\ pc' \in [Tasks -> Places]
        BY ONLY <4>1, <3>1, EnqueueKeeps, IInv DEF IInv, TypeOK
      <4> QED
        BY <2>7, <4>2 DEF Enqueue
    <3> USE <2>7 DEF Enqueue
    <3>3. LockInv'
      BY DEF LockInv, Holding
    <3>4. RewriteInv'
      BY DEF RewriteInv
    <3>5. CommitInv'
      <4>1. CommitInv /\ up /\ pc'[c] = "wait" /\ target'[c] = seq + 1
        OBVIOUS
      <4>2. \A b \in Clients \ {c} :
               pc'[b] = pc[b] /\ target'[b] = target[b] /\ target[b] \in Nat
        OBVIOUS
      <4>3. upto' = upto /\ inflight' = inflight /\ upto \in Nat
        OBVIOUS
      <4>4. target'[c] \in (1..seq)'
        BY ONLY <1>3, <4>1
      <4>5. ASSUME NEW b \in Clients \ {c}, pc[b] \in {"wait", "fsync"}
            PROVE  target[b] \in (1..seq)'
        BY ONLY <1>3, <4>1, <4>2, <4>5 DEF CommitInv
      <4>6. ASSUME NEW b \in Clients \ {c}, pc[b] = "fsync"
            PROVE  /\ upto \in (target[b]..seq)'
                   /\ \A n \in 1..upto : logged'[n] \in inflight
        <5>1. upto \in target[b]..seq /\ \A n \in 1..upto : logged[n] \in inflight
          BY ONLY <4>1, <4>6 DEF CommitInv
        <5>2. /\ target[b] \in Nat /\ target'[b] = target[b] /\ upto \in Nat
             /\ seq \in Nat /\ seq' = seq + 1
          BY ONLY <1>3, <4>2, <4>3, <4>6
        <5>3. \A n \in 1..upto : n \in 1..seq
          BY ONLY <5>1, <5>2
        <5>4. \A n \in 1..upto : logged'[n] \in inflight
          BY ONLY <1>3, <5>1, <5>3
        <5> QED
          BY ONLY <5>1, <5>2, <5>4
      <4> QED
        BY ONLY <4>1, <4>2, <4>3, <4>4, <4>5, <4>6 DEF CommitInv
    <3> QED
      BY <1>5, <2>2, <2>3, <2>4, <2>5, <3>2, <3>3, <3>4, <3>5
  <2> QED
    BY <1>7, <2>6, <2>7 DEF EndAppend
<1> QED
  BY <1>6, <1>7

\* Either _durable_seq covers the write or an fsync of the whole file starts.
LEMMA CommitGrantedStep ==
    ASSUME IInv, NEW c \in Clients, CommitGranted(c)
    PROVE  IInv'
<1> USE TaskAssumption, PolicyAssumption
        DEF IInv, TypeOK, TaskTypes, MemoryTypes, DiskTypes, Inode, Places,
            Tasks, seq, sharedVars, diskVars, rewriteVars, commitVars,
            loopVars, boundVars
<1>1. /\ up /\ loop = None /\ lock = None
      /\ UNCHANGED <<up, target, logged, durable, dirty, file, shadow, unflushed,
                     rewriting, buffer, snap, loop, count, store, faults, crashes, losses>>
  BY DEF CommitGranted, Granted, LoopIdle
<1>2. pc[c] = "wait" /\ queue' \in Seq(Tasks) /\ QueueInv'
  BY GrantedKeeps DEF CommitGranted, StartFsync
<1>3. /\ target[c] \in 1..seq
      /\ logged[target[c]] \in Nat
      /\ logged[target[c]] \in file.written
      /\ logged[target[c]] <= count
      /\ rewriting => logged[target[c]] \in snap \cup buffer
  BY <1>1, <1>2 DEF CommitInv, LogInv, CountInv, RewriteInv
<1> USE <1>1, <1>2, <1>3
<1>4. (MemoryTypes /\ LoopInv)'
  BY DEF LoopInv
<1>5. CASE /\ durable >= target[c]
           /\ acked' = acked \cup {logged[target[c]]}
           /\ pc' = [pc EXCEPT ![c] = "idle"]
           /\ UNCHANGED <<lock, upto, inflight>>
  <2>1. TaskTypes' /\ DiskTypes'
    BY <1>5
  <2>2. LockInv'
    BY <1>5 DEF LockInv, Holding
  <2>3. CountInv' /\ LogInv'
    BY <1>5 DEF CountInv, LogInv
  <2>4. RewriteInv'
    BY <1>5 DEF RewriteInv
  <2>5. CommitInv'
    BY <1>5 DEF CommitInv
  <2>6. DurableInv'
    <3>1. target[c] \in 1..durable
      BY <1>5
    <3> QED
      BY <1>5, <3>1 DEF DurableInv
  <2>7. CleanInv'
    BY <1>5 DEF CleanInv
  <2> QED
    BY <1>4, <2>1, <2>2, <2>3, <2>4, <2>5, <2>6, <2>7
<1>6. CASE durable < target[c] /\ StartFsync(c, seq) /\ UNCHANGED acked
  <2> USE <1>6 DEF StartFsync
  <2>1. TaskTypes' /\ DiskTypes'
    <3>1. /\ pc' \in [Tasks -> Places] /\ lock' \in Clients \cup {Syncer, None}
          /\ upto' \in Nat /\ inflight' \in SUBSET Nat
      OBVIOUS
    <3> QED
      BY <3>1
  <2>2. LockInv'
    BY DEF LockInv, Holding
  <2>3. CountInv' /\ LogInv' /\ RewriteInv' /\ DurableInv'
    BY DEF CountInv, LogInv, RewriteInv, DurableInv
  <2>4. CommitInv'
    BY DEF CommitInv, LockInv, Holding, LogInv
  <2>5. CleanInv'
    BY DEF CleanInv, LockInv, Holding
  <2> QED
    BY <1>4, <2>1, <2>2, <2>3, <2>4, <2>5
<1> QED
  BY <1>5, <1>6 DEF CommitGranted

\* The finished fsync covers upto, hence the target of the commit.
LEMMA CommitFsyncedStep ==
    ASSUME IInv, NEW c \in Clients, CommitFsynced(c)
    PROVE  IInv'
<1> USE TaskAssumption, PolicyAssumption
        DEF IInv, TypeOK, TaskTypes, MemoryTypes, DiskTypes, Inode, Places,
            CommitFsynced, LoopIdle, Tasks, seq, sharedVars, diskVars,
            rewriteVars, commitVars, loopVars, boundVars
<1>0. /\ up /\ target[c] \in 1..seq /\ upto \in target[c]..seq
      /\ \A n \in 1..upto : logged[n] \in inflight
      /\ inflight \subseteq file.written
  BY DEF CommitInv, LockInv
<1>1. TaskTypes'
  BY <1>0
<1>2. MemoryTypes'
  BY <1>0
<1>3. DiskTypes'
  <2>1. file' \in Inode
    OBVIOUS
  <2>2. acked' \in SUBSET Nat
    <3>1. acked' = acked \cup {logged[target[c]]} /\ acked \in SUBSET Nat
      OBVIOUS
    <3>2. logged \in Seq(Nat) /\ target[c] \in 1..Len(logged)
      BY <1>0
    <3>3. logged[target[c]] \in Nat
      BY ONLY <3>2
    <3> QED
      BY ONLY <3>1, <3>3
  <2> QED
    BY <2>1, <2>2
<1>4. LockInv'
  BY DEF LockInv, Holding
<1>5. QueueInv'
  BY DEF QueueInv
<1>6. CountInv'
  BY <1>0 DEF CountInv
<1>7. LogInv'
  <2>0. LogInv
    OBVIOUS
  <2>1. /\ file'.written = file.written
        /\ acked' = acked \cup {logged[target[c]]}
        /\ UNCHANGED <<up, unflushed, store, logged>>
    OBVIOUS
  <2>2. logged[target[c]] \in file.written
    BY <1>0, <2>0 DEF LogInv
  <2> HIDE DEF IInv, TypeOK, TaskTypes, MemoryTypes, DiskTypes, CommitFsynced
  <2> QED
    BY <2>0, <2>1, <2>2 DEF LogInv
<1>8. LoopInv'
  BY DEF LoopInv
<1>9. RewriteInv'
  <2>1. rewriting => logged[target[c]] \in snap \cup buffer
    BY <1>0 DEF RewriteInv
  <2> QED
    BY <2>1 DEF RewriteInv
<1>10. CommitInv'
  BY DEF CommitInv, LockInv, Holding
<1>11. DurableInv'
  <2>0. DurableInv /\ logged \in Seq(Nat) /\ upto \in Nat /\ target[c] \in Nat
    BY <1>0
  <2>1. /\ file'.synced = file.synced \cup inflight
        /\ durable' = upto
        /\ acked' = acked \cup {logged[target[c]]}
        /\ UNCHANGED <<up, shadow, logged>>
    OBVIOUS
  <2> HIDE DEF IInv, TypeOK, TaskTypes, MemoryTypes, DiskTypes, CommitFsynced
  <2>2. target[c] \in 1..upto /\ upto <= seq
    BY <1>0, <2>0
  <2>3. logged[target[c]] \in inflight
    BY <1>0, <2>2
  <2> QED
    BY <1>0, <2>0, <2>1, <2>2, <2>3 DEF DurableInv
<1>12. CleanInv'
  BY DEF CleanInv, LockInv, Holding
<1> QED
  BY <1>1, <1>2, <1>3, <1>4, <1>5, <1>6, <1>7, <1>8, <1>9, <1>10, <1>11, <1>12

\* A failed fsync acknowledges nothing.
LEMMA CommitFailedStep ==
    ASSUME IInv, NEW c \in Clients, CommitFailed(c)
    PROVE  IInv'
<1> USE TaskAssumption, PolicyAssumption
        DEF IInv, TypeOK, TaskTypes, MemoryTypes, DiskTypes, Inode, Places,
            CommitFailed, Fault, LoopIdle, Tasks, seq, sharedVars,
            diskVars, rewriteVars, commitVars, loopVars, boundVars
<1>1. TaskTypes'
  OBVIOUS
<1>2. DiskTypes'
  OBVIOUS
<1>3. LockInv'
  BY DEF LockInv, Holding
<1>4. QueueInv'
  BY DEF QueueInv
<1>5. LoopInv'
  BY DEF LoopInv
<1>6. RewriteInv'
  BY DEF RewriteInv
<1>7. CommitInv'
  BY DEF CommitInv
<1>8. CleanInv'
  BY DEF CleanInv
<1>9. (MemoryTypes /\ CountInv /\ LogInv /\ DurableInv)'
  BY DEF CountInv, LogInv, DurableInv
<1> QED
  BY <1>1, <1>2, <1>3, <1>4, <1>5, <1>6, <1>7, <1>8, <1>9

\* The sync loop takes or asks for the lock.
LEMMA SyncAskStep ==
    ASSUME IInv, SyncAsk
    PROVE  IInv'
<1> USE TaskAssumption, PolicyAssumption
        DEF IInv, TypeOK, TaskTypes, MemoryTypes, DiskTypes, Inode, Places,
            Tasks, seq, LoopIdle, sharedVars, diskVars, rewriteVars, commitVars,
            loopVars, boundVars
<1>1. CASE /\ LockFree /\ lock' = Syncer /\ UNCHANGED queue
           /\ pc' = [pc EXCEPT ![Syncer] = "test"]
  <2>1. TaskTypes' /\ LockInv' /\ QueueInv'
    BY <1>1 DEF SyncAsk, LockFree, LockInv, QueueInv, Holding
  <2> QED
    BY <1>1, <2>1
       DEF SyncAsk, CountInv, LogInv, LoopInv, RewriteInv, CommitInv, DurableInv, CleanInv
<1>2. CASE Enqueue(Syncer)
  <2>1. TaskTypes' /\ QueueInv'
    BY <1>2, EnqueueKeeps DEF SyncAsk, Enqueue
  <2>2. LockInv'
    BY <1>2 DEF SyncAsk, Enqueue, LockInv, Holding
  <2> QED
    BY <1>2, <2>1, <2>2
       DEF SyncAsk, Enqueue, CountInv, LogInv, LoopInv, RewriteInv, CommitInv,
           DurableInv, CleanInv
<1> QED
  BY <1>1, <1>2 DEF SyncAsk

\* The sync loop gets the lock: it had been waiting, not syncing.
LEMMA SyncGrantedStep ==
    ASSUME IInv, SyncGranted
    PROVE  IInv'
<1> USE TaskAssumption, PolicyAssumption
        DEF IInv, TypeOK, TaskTypes, MemoryTypes, DiskTypes, Inode, Places,
            SyncGranted, Granted, LoopIdle, Tasks, seq, sharedVars,
            diskVars, rewriteVars, commitVars, loopVars, boundVars
<1>0. pc[Syncer] = "wait" /\ queue' \in Seq(Tasks) /\ QueueInv'
  BY GrantedKeeps
<1>1. TaskTypes'
  BY <1>0
<1>2. LockInv'
  BY DEF LockInv, Holding
<1>3. QueueInv'
  BY <1>0
<1>4. LoopInv'
  BY DEF LoopInv
<1>5. RewriteInv'
  BY DEF RewriteInv
<1>6. CommitInv'
  BY DEF CommitInv
<1>7. CleanInv'
  BY <1>0 DEF CleanInv
<1>8. (MemoryTypes /\ DiskTypes /\ CountInv /\ LogInv /\ DurableInv)'
  BY DEF CountInv, LogInv, DurableInv
<1> QED
  BY <1>1, <1>2, <1>3, <1>4, <1>5, <1>6, <1>7, <1>8

\* With _dirty clear there is nothing to sync.
LEMMA SyncTestStep ==
    ASSUME IInv, SyncTest
    PROVE  IInv'
<1> USE TaskAssumption, PolicyAssumption
        DEF IInv, TypeOK, TaskTypes, MemoryTypes, DiskTypes, Inode, Places,
            SyncTest, Tasks, seq, sharedVars, diskVars, rewriteVars,
            commitVars, loopVars, boundVars
<1>1. TaskTypes'
  OBVIOUS
<1>2. LockInv'
  BY DEF LockInv, Holding
<1>3. QueueInv'
  BY DEF QueueInv
<1>4. LoopInv'
  BY DEF LoopInv
<1>5. RewriteInv'
  BY DEF RewriteInv
<1>6. CommitInv'
  BY DEF CommitInv
<1>7. CleanInv'
  BY DEF CleanInv
<1>8. (MemoryTypes /\ DiskTypes /\ CountInv /\ LogInv /\ DurableInv)'
  BY DEF CountInv, LogInv, DurableInv
<1> QED
  BY <1>1, <1>2, <1>3, <1>4, <1>5, <1>6, <1>7, <1>8

\* _dirty is cleared before fsync reads the file, never after.
LEMMA SyncClearStep ==
    ASSUME IInv, SyncClear
    PROVE  IInv'
<1> USE TaskAssumption, PolicyAssumption
        DEF IInv, TypeOK, TaskTypes, MemoryTypes, DiskTypes, Inode, Places,
            SyncClear, Tasks, seq, sharedVars, diskVars, rewriteVars,
            commitVars, loopVars, boundVars
<1>1. TaskTypes'
  OBVIOUS
<1>2. MemoryTypes'
  OBVIOUS
<1>3. LockInv'
  BY DEF LockInv, Holding
<1>4. QueueInv'
  BY DEF QueueInv
<1>5. LoopInv'
  BY DEF LoopInv
<1>6. RewriteInv'
  BY DEF RewriteInv
<1>7. CommitInv'
  BY DEF CommitInv
<1>8. CleanInv'
  BY DEF CleanInv
<1>9. (DiskTypes /\ CountInv /\ LogInv /\ DurableInv)'
  BY DEF CountInv, LogInv, DurableInv
<1> QED
  BY <1>1, <1>2, <1>3, <1>4, <1>5, <1>6, <1>7, <1>8, <1>9

\* The fsync covers every record appended before it is called.
LEMMA SyncCallStep ==
    ASSUME IInv, SyncCall
    PROVE  IInv'
<1> USE TaskAssumption, PolicyAssumption
        DEF IInv, TypeOK, TaskTypes, MemoryTypes, DiskTypes, Inode, Places,
            SyncCall, Tasks, seq, sharedVars, diskVars, rewriteVars,
            commitVars, loopVars, boundVars
<1>1. TaskTypes'
  OBVIOUS
<1>2. LockInv'
  <2>1. /\ up /\ up' /\ inflight' = file.written /\ pc' = [pc EXCEPT ![Syncer] = "fsync"]
        /\ UNCHANGED <<lock, file>> /\ pc[Syncer] = "call"
    OBVIOUS
  <2>2. \A c \in Clients : pc'[c] = pc[c] /\ pc[c] \notin Holding
    BY <2>1 DEF LockInv, Holding
  <2> QED
    BY <2>1, <2>2 DEF LockInv, Holding
<1>3. QueueInv'
  <2>1. /\ QueueInv /\ UNCHANGED queue /\ pc[Syncer] = "call"
        /\ pc' = [pc EXCEPT ![Syncer] = "fsync"]
        /\ queue \in Seq(Tasks) /\ pc \in [Tasks -> Places]
    OBVIOUS
  <2> HIDE DEF IInv, TypeOK, TaskTypes, MemoryTypes, DiskTypes, SyncCall
  <2> QED
    BY <2>1 DEF QueueInv
<1>4. LoopInv'
  BY DEF LoopInv
<1>5. RewriteInv'
  BY DEF RewriteInv
<1>6. CommitInv'
  BY DEF CommitInv, LockInv, Holding
<1>7. CleanInv'
  BY DEF CleanInv, LogInv
<1>8. (MemoryTypes /\ DiskTypes /\ CountInv /\ LogInv /\ DurableInv)'
  BY DEF CountInv, LogInv, DurableInv
<1> QED
  BY <1>1, <1>2, <1>3, <1>4, <1>5, <1>6, <1>7, <1>8

\* What was in flight is on disk.
LEMMA SyncFsyncedStep ==
    ASSUME IInv, SyncFsynced
    PROVE  IInv'
<1> USE TaskAssumption, PolicyAssumption
        DEF IInv, TypeOK, TaskTypes, MemoryTypes, DiskTypes, Inode, Places,
            SyncFsynced, Tasks, seq, sharedVars, diskVars, rewriteVars,
            commitVars, loopVars, boundVars
<1>1. TaskTypes'
  OBVIOUS
<1>2. DiskTypes'
  OBVIOUS
<1>3. LockInv'
  BY DEF LockInv, Holding
<1>4. QueueInv'
  BY DEF QueueInv
<1>5. LogInv'
  BY DEF LogInv
<1>6. LoopInv'
  BY DEF LoopInv
<1>7. RewriteInv'
  BY DEF RewriteInv
<1>8. CommitInv'
  BY DEF CommitInv
<1>9. DurableInv'
  BY DEF DurableInv
<1>10. CleanInv'
  BY DEF CleanInv
<1>11. (MemoryTypes /\ CountInv)'
  BY DEF CountInv
<1> QED
  BY <1>1, <1>2, <1>3, <1>4, <1>5, <1>6, <1>7, <1>8, <1>9, <1>10, <1>11

\* The sync loop lets the lock go.
LEMMA SyncDoneStep ==
    ASSUME IInv, SyncDone
    PROVE  IInv'
<1> USE TaskAssumption, PolicyAssumption
        DEF IInv, TypeOK, TaskTypes, MemoryTypes, DiskTypes, Inode, Places,
            SyncDone, LoopIdle, Tasks, seq, sharedVars, diskVars,
            rewriteVars, commitVars, loopVars, boundVars
<1>1. TaskTypes'
  OBVIOUS
<1>2. LockInv'
  BY DEF LockInv, Holding
<1>3. QueueInv'
  BY DEF QueueInv
<1>4. LoopInv'
  BY DEF LoopInv
<1>5. RewriteInv'
  BY DEF RewriteInv
<1>6. CommitInv'
  BY DEF CommitInv
<1>7. CleanInv'
  BY DEF CleanInv
<1>8. (MemoryTypes /\ DiskTypes /\ CountInv /\ LogInv /\ DurableInv)'
  BY DEF CountInv, LogInv, DurableInv
<1> QED
  BY <1>1, <1>2, <1>3, <1>4, <1>5, <1>6, <1>7, <1>8

\* The sync loop ends without a promise about the file.
LEMMA SyncFailedStep ==
    ASSUME IInv, SyncFailed
    PROVE  IInv'
<1> USE TaskAssumption, PolicyAssumption
        DEF IInv, TypeOK, TaskTypes, MemoryTypes, DiskTypes, Inode, Places,
            SyncFailed, Fault, LoopIdle, Tasks, seq, sharedVars,
            diskVars, rewriteVars, commitVars, loopVars, boundVars
<1>1. TaskTypes'
  OBVIOUS
<1>2. DiskTypes'
  OBVIOUS
<1>3. LockInv'
  BY DEF LockInv, Holding
<1>4. QueueInv'
  BY DEF QueueInv
<1>5. LoopInv'
  BY DEF LoopInv
<1>6. RewriteInv'
  BY DEF RewriteInv
<1>7. CommitInv'
  BY DEF CommitInv
<1>8. CleanInv'
  BY DEF CleanInv
<1>9. (MemoryTypes /\ CountInv /\ LogInv /\ DurableInv)'
  BY DEF CountInv, LogInv, DurableInv
<1> QED
  BY <1>1, <1>2, <1>3, <1>4, <1>5, <1>6, <1>7, <1>8, <1>9

\* The snapshot stands for every write the store reflects.
LEMMA RewriteBeginStep ==
    ASSUME IInv, RewriteBegin
    PROVE  IInv'
<1> USE TaskAssumption, PolicyAssumption
        DEF IInv, TypeOK, TaskTypes, MemoryTypes, DiskTypes, Inode, Places,
            RewriteBegin, LoopIdle, Tasks, seq, sharedVars, diskVars,
            rewriteVars, commitVars, loopVars, boundVars
<1>1. TaskTypes'
  OBVIOUS
<1>2. MemoryTypes'
  OBVIOUS
<1>3. LockInv'
  BY DEF LockInv, Holding
<1>4. QueueInv'
  BY DEF QueueInv
<1>5. LoopInv'
  BY DEF LoopInv
<1>6. RewriteInv'
  BY DEF RewriteInv, LogInv
<1>7. CommitInv'
  BY DEF CommitInv
<1>8. CleanInv'
  BY DEF CleanInv
<1>9. (DiskTypes /\ CountInv /\ LogInv /\ DurableInv)'
  BY DEF CountInv, LogInv, DurableInv
<1> QED
  BY <1>1, <1>2, <1>3, <1>4, <1>5, <1>6, <1>7, <1>8, <1>9

\* The thread is done: swap at once, or queue for the lock.
LEMMA RewriteWrittenStep ==
    ASSUME IInv, RewriteWritten
    PROVE  IInv'
<1> USE TaskAssumption, PolicyAssumption
        DEF IInv, TypeOK, TaskTypes, MemoryTypes, DiskTypes, Inode, Places,
            Tasks, seq, sharedVars, diskVars, rewriteVars, commitVars,
            loopVars, boundVars
<1>1. up /\ pc[Rewriter] = "write" /\ rewriting
  BY DEF RewriteWritten, LoopIdle, RewriteInv
<1>2. CASE LockFree /\ Swap /\ UNCHANGED <<lock, queue>>
  <2>1. queue' \in Seq(Tasks) /\ QueueInv'
    BY <1>2 DEF QueueInv, Swap, LockFree
  <2> QED
    BY <1>1, <1>2, <2>1, SwapKeeps DEF RewriteWritten, LockFree
<1>3. CASE Enqueue(Rewriter) /\ UNCHANGED <<diskVars, durable, dirty, rewriteVars>>
  <2>1. TaskTypes' /\ QueueInv'
    BY <1>1, <1>3, EnqueueKeeps DEF RewriteWritten, Enqueue
  <2>2. LockInv'
    BY <1>3 DEF RewriteWritten, Enqueue, LockInv, Holding
  <2> QED
    BY <1>1, <1>3, <2>1, <2>2
       DEF RewriteWritten, Enqueue, CountInv, LogInv, LoopInv, RewriteInv,
           CommitInv, DurableInv, CleanInv
<1> QED
  BY <1>2, <1>3 DEF RewriteWritten

\* The lock is granted: no fsync of the old file is running.
LEMMA RewriteGrantedStep ==
    ASSUME IInv, RewriteGranted
    PROVE  IInv'
<1> USE DEF IInv, TypeOK
<1>1. pc[Rewriter] = "wait" /\ queue' \in Seq(Tasks) /\ QueueInv'
  BY GrantedKeeps DEF RewriteGranted, Swap
<1>2. LoopIdle /\ lock = None /\ rewriting
  BY <1>1 DEF RewriteGranted, Granted, LoopIdle, RewriteInv
<1> QED
  BY <1>1, <1>2, SwapKeeps DEF RewriteGranted

\* A failed rewrite leaves the log with all it had.
LEMMA RewriteFailedStep ==
    ASSUME IInv, RewriteFailed
    PROVE  IInv'
<1> USE TaskAssumption, PolicyAssumption
        DEF IInv, TypeOK, TaskTypes, MemoryTypes, DiskTypes, Inode, Places,
            Tasks, seq, sharedVars, diskVars, rewriteVars, commitVars,
            loopVars, boundVars
<1>1. /\ up /\ loop = None /\ rewriting' = FALSE /\ buffer' = {} /\ snap' = {}
      /\ faults' = faults + 1
      /\ pc' = [pc EXCEPT ![Rewriter] = "idle"]
      /\ UNCHANGED <<up, lock, acked, logged, durable, dirty, target, upto,
                     inflight, loop, count, store, shadow, crashes, losses>>
  BY DEF RewriteFailed, LoopIdle, Fault
<1>2. queue' \in Seq(Tasks) /\ QueueInv'
  <2>1. CASE pc[Rewriter] = "write" /\ UNCHANGED queue
    <3>1. queue \in Seq(Tasks) /\ pc \in [Tasks -> Places] /\ QueueInv
      OBVIOUS
    <3>2. \A i \in 1..Len(queue) : pc'[queue[i]] = "wait"
      BY <1>1, <2>1, <3>1 DEF QueueInv
    <3> QED
      BY <2>1, <3>1, <3>2 DEF QueueInv
  <2>2. CASE Granted(Rewriter)
    BY <1>1, <2>2, GrantedKeeps
  <2> QED
    BY <2>1, <2>2 DEF RewriteFailed
<1>3. /\ file' \in Inode /\ unflushed' \in SUBSET Nat
      /\ file'.written \cup unflushed' = file.written \cup unflushed
      /\ file.written \subseteq file'.written
      /\ file'.synced = file.synced
  <2>1. CASE UNCHANGED diskVars
    BY <2>1
  <2>2. CASE file' = [file EXCEPT !.written = @ \cup unflushed] /\ unflushed' = {}
    BY <2>2
  <2> QED
    BY <2>1, <2>2 DEF RewriteFailed
<1> USE <1>1, <1>2, <1>3
<1>4. TaskTypes' /\ MemoryTypes'
  OBVIOUS
<1>5. DiskTypes'
  OBVIOUS
<1>6. LockInv'
  BY DEF LockInv, Holding
<1>7. (CountInv /\ LogInv /\ LoopInv /\ RewriteInv)'
  BY DEF CountInv, LogInv, LoopInv, RewriteInv
<1>8. CommitInv'
  BY DEF CommitInv
<1>9. DurableInv' /\ CleanInv'
  BY DEF DurableInv, CleanInv
<1> QED
  BY <1>4, <1>5, <1>6, <1>7, <1>8, <1>9

\* A kill loses only memory.
LEMMA KillStep ==
    ASSUME IInv, Kill
    PROVE  IInv'
<1> USE TaskAssumption, PolicyAssumption
        DEF IInv, TypeOK, TaskTypes, MemoryTypes, DiskTypes, Inode, Places,
            Kill, Tasks, seq, sharedVars, diskVars, rewriteVars,
            commitVars, loopVars, boundVars
<1>1. TaskTypes'
  OBVIOUS
<1>2. DiskTypes'
  OBVIOUS
<1>3. LockInv'
  BY DEF LockInv, Holding
<1>4. CountInv'
  BY DEF CountInv
<1>5. LogInv'
  BY DEF LogInv
<1>6. LoopInv'
  BY DEF LoopInv
<1>7. RewriteInv'
  BY DEF RewriteInv
<1>8. CommitInv'
  BY DEF CommitInv
<1>9. DurableInv'
  BY DEF DurableInv
<1>10. CleanInv'
  BY DEF CleanInv
<1>11. (MemoryTypes /\ QueueInv)'
  BY DEF QueueInv
<1> QED
  BY <1>1, <1>2, <1>3, <1>4, <1>5, <1>6, <1>7, <1>8, <1>9, <1>10, <1>11

\* A power loss keeps what was fsynced.
LEMMA PowerLossStep ==
    ASSUME IInv, PowerLoss
    PROVE  IInv'
<1> USE TaskAssumption, PolicyAssumption
        DEF IInv, TypeOK, TaskTypes, MemoryTypes, DiskTypes, Inode, Places,
            PowerLoss, Survivors, Inodes, File, Tasks, seq, sharedVars,
            diskVars, rewriteVars, commitVars, loopVars, boundVars
<1>1. TaskTypes'
  OBVIOUS
<1>2. DiskTypes'
  OBVIOUS
<1>3. LockInv'
  BY DEF LockInv, Holding
<1>4. CountInv'
  BY DEF CountInv
<1>5. LogInv'
  BY DEF LogInv
<1>6. LoopInv'
  BY DEF LoopInv
<1>7. RewriteInv'
  BY DEF RewriteInv
<1>8. CommitInv'
  BY DEF CommitInv
<1>9. DurableInv'
  BY DEF DurableInv
<1>10. CleanInv'
  BY DEF CleanInv
<1>11. (MemoryTypes /\ QueueInv)'
  BY DEF QueueInv
<1> QED
  BY <1>1, <1>2, <1>3, <1>4, <1>5, <1>6, <1>7, <1>8, <1>9, <1>10, <1>11

\* A start rebuilds memory from the file.
LEMMA StartStep ==
    ASSUME IInv, Start
    PROVE  IInv'
<1> USE TaskAssumption, PolicyAssumption
        DEF IInv, TypeOK, TaskTypes, MemoryTypes, DiskTypes, Inode, Places,
            Start, Tasks, seq, sharedVars, diskVars, rewriteVars,
            commitVars, loopVars, boundVars
<1>1. TaskTypes'
  OBVIOUS
<1>2. MemoryTypes'
  <2>1. dirty' \in BOOLEAN /\ rewriting' \in BOOLEAN
    BY Zenon
  <2> QED
    BY <2>1
<1>3. LockInv'
  BY DEF LockInv, Holding
<1>4. QueueInv'
  BY DEF QueueInv
<1>5. CountInv'
  BY DEF CountInv
<1>6. LogInv'
  BY DEF LogInv
<1>7. LoopInv'
  BY DEF LoopInv
<1>8. RewriteInv'
  BY DEF RewriteInv
<1>9. CommitInv'
  BY DEF CommitInv
<1>10. DurableInv'
  BY DEF DurableInv
<1>11. CleanInv'
  BY DEF CleanInv
<1>12. (DiskTypes)'
  OBVIOUS
<1> QED
  BY <1>1, <1>2, <1>3, <1>4, <1>5, <1>6, <1>7, <1>8, <1>9, <1>10, <1>11, <1>12

-----------------------------------------------------------------------------
\* The initial state satisfies the invariant.
LEMMA InitIInv == Init => IInv
<1> USE TaskAssumption, PolicyAssumption
        DEF Init, File, Inode, Places, Tasks, seq
<1>1. Init => TypeOK
  <2>1. Init => up \in BOOLEAN /\ dirty \in BOOLEAN /\ rewriting \in BOOLEAN
    BY Zenon
  <2> QED
    BY <2>1 DEF TypeOK, TaskTypes, MemoryTypes, DiskTypes
<1>2. Init => LockInv /\ QueueInv /\ CountInv /\ LogInv /\ LoopInv
  BY DEF LockInv, Holding, QueueInv, CountInv, LogInv, LoopInv
<1>3. Init => RewriteInv /\ CommitInv /\ DurableInv /\ CleanInv
  BY DEF RewriteInv, CommitInv, DurableInv, CleanInv
<1> QED
  BY <1>1, <1>2, <1>3 DEF IInv

\* Every step preserves the invariant.
LEMMA NextIInv == IInv /\ [Next]_vars => IInv'
<1> SUFFICES ASSUME IInv, [Next]_vars
             PROVE  IInv'
  OBVIOUS
<1>1. ASSUME NEW c \in Clients, Client(c)
      PROVE  IInv'
  BY <1>1, BeginAppendStep, AppendFailedStep, EndAppendStep, CommitGrantedStep,
     CommitFsyncedStep, CommitFailedStep DEF Client
<1>2. CASE Sync
  BY <1>2, SyncAskStep, SyncGrantedStep, SyncTestStep, SyncClearStep,
     SyncCallStep, SyncFsyncedStep, SyncDoneStep, SyncFailedStep DEF Sync
<1>3. CASE Rewrite
  BY <1>3, RewriteBeginStep, RewriteWrittenStep, RewriteGrantedStep,
     RewriteFailedStep DEF Rewrite
<1>4. CASE Kill \/ PowerLoss \/ Start
  BY <1>4, KillStep, PowerLossStep, StartStep
<1>5. CASE UNCHANGED vars
  <2> USE <1>5 DEF vars, sharedVars, diskVars, rewriteVars, commitVars,
                  loopVars, boundVars, seq
  <2>1. TypeOK'
    BY DEF IInv, TypeOK, TaskTypes, MemoryTypes, DiskTypes
  <2>2. LockInv' /\ QueueInv' /\ CountInv'
    BY DEF IInv, LockInv, QueueInv, CountInv
  <2>3. LogInv' /\ LoopInv' /\ RewriteInv'
    BY DEF IInv, LogInv, LoopInv, RewriteInv
  <2>4. CommitInv' /\ DurableInv' /\ CleanInv'
    BY DEF IInv, CommitInv, DurableInv, CleanInv
  <2> QED
    BY <2>1, <2>2, <2>3, <2>4 DEF IInv
<1> QED
  BY <1>1, <1>2, <1>3, <1>4, <1>5 DEF Next

(***************************************************************************)
(* IInv is an invariant, whatever the number of clients, writes, failing   *)
(* file operations and crashes, and whatever the fsync policy of aof.py.   *)
(***************************************************************************)
THEOREM Invariance == Spec => []IInv
<1>1. Init => IInv
  BY InitIInv
<1>2. IInv /\ [Next]_vars => IInv'
  BY NextIInv
<1> QED
  BY <1>1, <1>2, PTL DEF Spec

(***************************************************************************)
(* Every variable of the AOF model keeps its type; in particular a commit  *)
(* never reads _seq numbers that no append() has handed out.               *)
(***************************************************************************)
THEOREM TypeCorrect == Spec => []TypeOK
<1>1. IInv => TypeOK
  BY DEF IInv
<1> QED
  BY <1>1, Invariance, PTL

(***************************************************************************)
(* --aof-fsync always: an acknowledged write is on disk (AOFLog.commit,    *)
(* rewrite), given that the rename of a finished rewrite is itself durable *)
(* (aof.py does not fsync the directory).                                  *)
(***************************************************************************)
THEOREM AckedDurable ==
    ASSUME RenameDurable
    PROVE  Spec => []AckedIsDurable
<1>1. IInv => AckedIsDurable
  BY DEF IInv, DurableInv, AckedIsDurable, Inodes
<1> QED
  BY <1>1, Invariance, PTL

(***************************************************************************)
(* The log restores what the running server shows (AOFLog.append and the   *)
(* buffer and swap of rewrite).                                            *)
(***************************************************************************)
THEOREM LogRestoresStore == Spec => []LogMatchesStore
<1>1. IInv => LogMatchesStore
  BY DEF IInv, TypeOK, MemoryTypes, LogInv, LogMatchesStore
<1> QED
  BY <1>1, Invariance, PTL

(***************************************************************************)
(* A clear _dirty flag hides no unsynced record from the sync loop         *)
(* (AOFLog.sync in its thread against append() on the loop).               *)
(***************************************************************************)
THEOREM CleanIsSynced == Spec => []CleanMeansSynced
<1>1. IInv => CleanMeansSynced
  BY DEF IInv, CleanInv, CleanMeansSynced
<1> QED
  BY <1>1, Invariance, PTL

-----------------------------------------------------------------------------
(***************************************************************************)
(* The refinement, from the invariant above.                               *)
(***************************************************************************)

\* There is no second inode when the rename of a rewrite is durable.
NoShadow == shadow = None

\* Only a rewrite makes a shadow, and none with a durable rename.
LEMMA NoShadowInv ==
    ASSUME RenameDurable
    PROVE  Spec => []NoShadow
<1>1. Init => NoShadow
  BY DEF Init, NoShadow
<1>2. NoShadow /\ [Next]_vars => NoShadow'
  <2> SUFFICES ASSUME NoShadow, [Next]_vars
               PROVE  NoShadow'
    OBVIOUS
  <2> USE RenameDurable DEF NoShadow, diskVars
  <2>1. ASSUME NEW c \in Clients, Client(c)
        PROVE  NoShadow'
    BY <2>1 DEF Client, BeginAppend, AppendFailed, EndAppend, CommitGranted, CommitFsynced,
                CommitFailed
  <2>2. CASE Sync
    BY <2>2 DEF Sync, SyncAsk, SyncGranted, SyncTest, SyncClear, SyncCall, SyncFsynced,
                SyncDone, SyncFailed
  <2>3. CASE Rewrite
    BY <2>3 DEF Rewrite, RewriteBegin, RewriteWritten, RewriteGranted, RewriteFailed, Swap
  <2>4. CASE Kill \/ PowerLoss \/ Start
    BY <2>4 DEF Kill, PowerLoss, Start
  <2>5. CASE UNCHANGED vars
    BY <2>5 DEF vars
  <2> QED
    BY <2>1, <2>2, <2>3, <2>4, <2>5 DEF Next
<1> QED
  BY <1>1, <1>2, PTL DEF Spec

\* The initial states map to an initial state.
LEMMA InitRefines == Init => Durable!Init
BY DEF Init, Durable!Init

\* A step that leaves what clients see alone is a stutter.
LEMMA Stutters ==
    ASSUME UNCHANGED <<up, count, store, acked, losses>>, up
    PROVE  UNCHANGED Durable!vars
BY DEF Durable!vars

\* A client's step: its write is executed, or acknowledged, or neither.
LEMMA ClientRefines ==
    ASSUME IInv, NEW c \in Clients, Client(c)
    PROVE  [Durable!Next]_(Durable!vars)
<1>1. CASE BeginAppend(c) \/ AppendFailed(c)
  <2>1. Durable!Execute
    BY <1>1 DEF BeginAppend, AppendFailed, LoopIdle, boundVars, Durable!Execute
  <2> QED
    BY <2>1 DEF Durable!Next
<1>2. CASE EndAppend(c)
  <2>1. up /\ up' /\ UNCHANGED <<count, store, losses>> /\ loop = c
    BY <1>2 DEF EndAppend, boundVars
  <2>2. count \in store
    BY <2>1, TaskAssumption DEF IInv, LoopInv, LogInv, Tasks
  <2>3. acked' = acked \cup {count} \/ UNCHANGED acked
    BY <1>2 DEF EndAppend, boundVars
  <2>4. CASE acked' = acked \cup {count}
    BY <2>1, <2>2, <2>4 DEF Durable!Next, Durable!Acknowledge
  <2>5. CASE UNCHANGED acked
    BY <2>1, <2>5 DEF Durable!vars
  <2> QED
    BY <2>3, <2>4, <2>5
<1>3. CASE CommitGranted(c) \/ CommitFsynced(c)
  <2>1. up /\ up' /\ UNCHANGED <<count, store, losses>>
    BY <1>3 DEF CommitGranted, CommitFsynced, Granted, LoopIdle, loopVars, boundVars
  <2>2. pc[c] \in {"wait", "fsync"}
    <3>1. CASE CommitGranted(c)
      BY <3>1 DEF CommitGranted, Granted, IInv, QueueInv, TypeOK, TaskTypes
    <3>2. CASE CommitFsynced(c)
      BY <3>2 DEF CommitFsynced
    <3> QED
      BY <1>3, <3>1, <3>2
  <2>3. logged[target[c]] \in store
    BY <2>1, <2>2 DEF IInv, CommitInv, LogInv
  <2>4. acked' = acked \cup {logged[target[c]]} \/ UNCHANGED acked
    BY <1>3 DEF CommitGranted, CommitFsynced
  <2>5. CASE acked' = acked \cup {logged[target[c]]}
    BY <2>1, <2>3, <2>5 DEF Durable!Next, Durable!Acknowledge
  <2>6. CASE UNCHANGED acked
    BY <2>1, <2>6 DEF Durable!vars
  <2> QED
    BY <2>4, <2>5, <2>6
<1>4. CASE CommitFailed(c)
  BY <1>4 DEF CommitFailed, LoopIdle, loopVars, boundVars, Durable!vars
<1> QED
  BY <1>1, <1>2, <1>3, <1>4 DEF Client

\* A kill leaves the file, and the file has what was acknowledged.
LEMMA KillRefines ==
    ASSUME IInv, Kill
    PROVE  Durable!Next
<1>1. up /\ ~up' /\ UNCHANGED <<count, store, acked, file, losses>>
  BY DEF Kill, loopVars, boundVars, diskVars
<1>2. /\ file.written \subseteq store
      /\ store \cap acked \subseteq file.written
  BY <1>1 DEF IInv, LogInv
<1>3. Durable!Kill
  BY <1>1, <1>2 DEF Durable!Kill, Durable!Crash, IInv, TypeOK, TaskTypes, Kill
<1> QED
  BY <1>3 DEF Durable!Next

\* A power loss leaves all that was fsynced and nothing that was not written.
LEMMA PowerLossRefines ==
    ASSUME IInv, NoShadow, RenameDurable, PowerLoss
    PROVE  Durable!Next
<1>1. up /\ ~up' /\ UNCHANGED <<count, store, acked>> /\ losses' = losses + 1
  BY DEF PowerLoss, loopVars, boundVars
<1>2. PICK n \in 0..count : file' = File(Survivors(file, n), Survivors(file, n))
  BY DEF PowerLoss, Inodes, NoShadow
<1>3. file'.written = file.synced \cup {i \in file.written : i <= n}
  BY <1>2 DEF File, Survivors
<1>4. file'.written \subseteq store
  BY <1>1, <1>3 DEF IInv, LogInv, LockInv
<1>5. Fsync = "always" => acked \subseteq file'.written
  BY <1>3 DEF IInv, DurableInv
<1>6. Durable!PowerLoss
  BY <1>1, <1>4, <1>5 DEF Durable!PowerLoss, Durable!Crash, PowerLoss
<1> QED
  BY <1>6 DEF Durable!Next

\* Every step maps to a step or a stutter.
LEMMA NextRefines ==
    ASSUME IInv, NoShadow, RenameDurable, [Next]_vars
    PROVE  [Durable!Next]_(Durable!vars)
<1>1. ASSUME NEW c \in Clients, Client(c)
      PROVE  [Durable!Next]_(Durable!vars)
  BY <1>1, ClientRefines
<1>2. CASE Sync
  BY <1>2, Stutters DEF Sync, SyncAsk, SyncGranted, SyncTest, SyncClear, SyncCall, SyncFsynced,
               SyncDone, SyncFailed, Granted, LoopIdle, loopVars, boundVars
<1>3. CASE Rewrite
  BY <1>3, Stutters DEF Rewrite, RewriteBegin, RewriteWritten, RewriteGranted, RewriteFailed,
               Granted, LoopIdle, loopVars, boundVars
<1>4. CASE Kill
  BY <1>4, KillRefines
<1>5. CASE PowerLoss
  BY <1>5, PowerLossRefines
<1>6. CASE Start
  BY <1>6 DEF Start, boundVars, Durable!Next, Durable!Recover
<1>7. CASE UNCHANGED vars
  BY <1>7 DEF vars, loopVars, boundVars, diskVars, Durable!vars
<1> QED
  BY <1>1, <1>2, <1>3, <1>4, <1>5, <1>6, <1>7 DEF Next

(***************************************************************************)
(* The append-only file implements DurableStore for any number of clients, *)
(* writes, failing operations and crashes and for each fsync policy, given *)
(* a durable rename (AOFLog of aof.py and the tasks that use it).          *)
(***************************************************************************)
THEOREM AofImplementsDurableStore ==
    ASSUME RenameDurable
    PROVE  Spec => ImplementsDurableStore
<1>1. Init => Durable!Init
  BY InitRefines
<1>2. IInv /\ NoShadow /\ [Next]_vars => [Durable!Next]_(Durable!vars)
  BY NextRefines
<1>3. Spec => []NoShadow
  BY NoShadowInv
<1> QED
  BY <1>1, <1>2, <1>3, Invariance, PTL DEF Spec, ImplementsDurableStore, Durable!Spec
=============================================================================
