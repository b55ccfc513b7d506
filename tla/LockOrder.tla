----------------------------- MODULE LockOrder ------------------------------
(***************************************************************************)
(* The locking discipline of the code that uses CRWLock, and why it cannot *)
(* deadlock.  The pool says it in ThreadPool.h: "always lock pool first,   *)
(* then msg if you need both locked".  Every CRWLockAcquire of the library *)
(* is a scoped local that takes its lock in the constructor, and is either *)
(*   - on a lock the thread already holds, in a mode the scan of Lock()    *)
(*     grants (StartNewThread and GetNumThreads under the write lock of    *)
(*     Pool, TriggerEvent under the write lock of the queue, ...), or      *)
(*   - on a lock that comes after every lock the thread holds.             *)
(***************************************************************************)
EXTENDS RWLock

CONSTANTS Rank,         \* Rank[l]: the place of lock l in the order
          MaxRank       \* a bound of Rank

ASSUME RankAssumption ==
    /\ MaxRank \in Nat
    /\ Rank \in [Locks -> 0 .. MaxRank]

(* Seeded fault: the queue's lock may be taken before the pool's.          *)
PermittedAnyOrder(t, l, write) ==
    \/ \E i \in 1 .. Depth(t) : HoldsAt(t, l, i) /\ (write => frames[t][i].write)
    \/ \A i \in 1 .. Depth(t) : frames[t][i].locked => frames[t][i].lock # l

(* The locks of the library in the order its comments and code give: the   *)
(* threads of a pool, then the pool's message queue.                       *)
Permitted(t, l, write) ==
    \/ \E i \in 1 .. Depth(t) : HoldsAt(t, l, i) /\ (write => frames[t][i].write)
    \/ \A i \in 1 .. Depth(t) : frames[t][i].locked => Rank[frames[t][i].lock] < Rank[l]

(* A scoped acquisition that follows the discipline.                       *)
Enter(t, l, write) == Permitted(t, l, write) /\ Construct(t, l, write, TRUE)

OrderedNext ==
    \E t \in Threads :
        \/ \E l \in Locks, w \in BOOLEAN : Enter(t, l, w)
        \/ LockCode(t)
        \/ Destruct(t)

OrderedSpec == Init /\ [][OrderedNext]_vars

-----------------------------------------------------------------------------
(* Thread t is inside AcquireSRWLock...() and cannot return before thread  *)
(* u moves: u holds the lock in a conflicting mode or, because an SRWLOCK  *)
(* may keep new readers out while a writer waits, t wants to read and u    *)
(* waits to write.                                                         *)
WaitsFor(t, u) ==
    /\ pc[t] = "acquire"
    /\ \/ u \in excl[Top(t).lock]
       \/ Top(t).write /\ u \in shar[Top(t).lock]
       \/ /\ ~Top(t).write
          /\ pc[u] = "acquire"
          /\ Top(u).lock = Top(t).lock
          /\ Top(u).write

(* Deadlock freedom of the locking discipline (ThreadPool.h, "always lock  *)
(* pool first, then msg"): in no set of threads does every thread wait for *)
(* a thread of the set, whichever way the SRWLOCK treats readers that come *)
(* while a writer waits.  Only waits for locks are counted: what is waited *)
(* for under a lock (the clear of a pool, in the module ThreadPool) is not.*)
NoDeadlock ==
    \A S \in SUBSET Threads :
        S # {} => \E t \in S : \A u \in S : ~WaitsFor(t, u)

(* What the proof of NoDeadlock rests on: a thread inside Lock() asks for  *)
(* a lock that comes after all the locks it has, unless the scan will      *)
(* grant it.                                                               *)
AsksUpward ==
    \A t \in Threads :
        /\ pc[t] = "scan" =>
             \/ Reentrant(t)
             \/ \A i \in 1 .. Depth(t) - 1 :
                    frames[t][i].locked => Rank[frames[t][i].lock] < Rank[Top(t).lock]
        /\ pc[t] = "acquire" =>
             \A i \in 1 .. Depth(t) - 1 :
                frames[t][i].locked => Rank[frames[t][i].lock] < Rank[Top(t).lock]
=============================================================================
