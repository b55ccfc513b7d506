---------------------------- MODULE MCLockOrder -----------------------------
(* The lock of a pool's thread list and the lock of its message queue.     *)
EXTENDS LockOrder, TLC

CONSTANTS t1, t2, t3, Pool, MsgQueue

MCRank == Pool :> 1 @@ MsgQueue :> 2

Symmetry == Permutations(Threads)
=============================================================================
