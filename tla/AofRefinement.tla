---------------------------- MODULE AofRefinement ----------------------------
(***************************************************************************)
(* The append-only file implements DurableStore: readers see the store,    *)
(* and a server that is down will come back with what its file holds.      *)
(***************************************************************************)
EXTENDS AofLog

Durable == INSTANCE DurableStore
    WITH Strict   <- Fsync = "always",
         executed <- count,
         view     <- store,
         saved    <- IF up THEN {} ELSE file.written

(***************************************************************************)
(* Whatever tasks, threads, rewrites and failures do in AofLog, a client   *)
(* cannot tell it from DurableStore: no acknowledged write is              *)
(* lost by a kill, none by a power loss with --aof-fsync always, and no    *)
(* write that was lost returns (AOFLog.append, commit, rewrite, replay).   *)
(***************************************************************************)
ImplementsDurableStore == Durable!Spec
=============================================================================
