------------------------------- MODULE RWLock -------------------------------
(***************************************************************************)
(* The re-entrant read/write lock of ECSUtil/CRWLock.cpp.                  *)
(*                                                                         *)
(* A CRWLock is a native SRWLOCK plus the list (Instances) of the          *)
(* CRWLockAcquire objects that exist on it.  A CRWLockAcquire is a local   *)
(* variable of the thread that takes the lock, so the objects of a thread  *)
(* form a stack; frames[t] is that stack, the newest object last.  Before  *)
(* it goes to the SRWLOCK, Lock() looks for another locked object of its   *)
(* own thread on the same lock: a thread that already holds the lock is    *)
(* granted it again without touching the SRWLOCK, except when it holds a   *)
(* read lock and asks for a write lock.                                    *)
(*                                                                         *)
(* The scans of Instances skip every entry of another thread (dwThreadId   *)
(* is tested before bLocked), and a thread's entries are written by that   *)
(* thread only.  So a scan is a step of its own thread alone, and          *)
(* rwlListLock, which makes the vector safe to walk, is not represented.   *)
(***************************************************************************)
EXTENDS Integers, Sequences

CONSTANTS Threads,      \* the threads of the process
          Locks,        \* the CRWLock objects
          MaxDepth      \* bound on the CRWLockAcquire objects of one thread

ASSUME DepthAssumption == MaxDepth \in Nat

VARIABLES frames,       \* frames[t]: the CRWLockAcquire objects of thread t
          pc,           \* what thread t does with its newest object
          excl,         \* excl[l]: threads inside AcquireSRWLockExclusive(l)
          shar          \* shar[l]: threads inside AcquireSRWLockShared(l)

vars == <<frames, pc, excl, shar>>

(* One CRWLockAcquire: pLock, bWrite, bLocked.  bWaiting is the pc.        *)
Frame == [lock : Locks, write : BOOLEAN, locked : BOOLEAN]

TypeOK ==
    /\ frames \in [Threads -> Seq(Frame)]
    /\ pc \in [Threads -> {"run", "scan", "acquire"}]
    /\ excl \in [Locks -> SUBSET Threads]
    /\ shar \in [Locks -> SUBSET Threads]

Init ==
    /\ frames = [t \in Threads |-> << >>]
    /\ pc = [t \in Threads |-> "run"]
    /\ excl = [l \in Locks |-> {}]
    /\ shar = [l \in Locks |-> {}]

-----------------------------------------------------------------------------
Depth(t) == Len(frames[t])
Top(t)   == frames[t][Depth(t)]

(* Thread t owns object i and that object has the lock l (bLocked).        *)
HoldsAt(t, l, i) ==
    /\ i \in 1 .. Depth(t)
    /\ frames[t][i].lock = l
    /\ frames[t][i].locked

WritesAt(t, l, i) == HoldsAt(t, l, i) /\ frames[t][i].write

(* The entries of Instances that the scans in Lock() and Unlock() select:  *)
(* same thread, locked, not the object itself (which is the newest one).   *)
OtherLocked(t) == {i \in 1 .. Depth(t) - 1 : HoldsAt(t, Top(t).lock, i)}

(* Thread t replaces its newest object.                                    *)
SetTop(t, f) == frames' = [frames EXCEPT ![t][Depth(t)] = f]

-----------------------------------------------------------------------------
(* The native SRWLOCK, as CRWLockAcquire uses it.                          *)

CanAcquireSRW(l, write) == excl[l] = {} /\ (write => shar[l] = {})

AcquireSRW(t, l, write) ==
    /\ CanAcquireSRW(l, write)
    /\ excl' = IF write THEN [excl EXCEPT ![l] = @ \cup {t}] ELSE excl
    /\ shar' = IF write THEN shar ELSE [shar EXCEPT ![l] = @ \cup {t}]

ReleaseSRW(t, l, write) ==
    /\ excl' = IF write THEN [excl EXCEPT ![l] = @ \ {t}] ELSE excl
    /\ shar' = IF write THEN shar ELSE [shar EXCEPT ![l] = @ \ {t}]

-----------------------------------------------------------------------------
(* Unlock(): nothing to do unless this object is locked; the SRWLOCK is    *)
(* released, in the mode of this object, only if it is the last locked     *)
(* object of the thread on the lock.                                       *)
LastLocked(t) == Top(t).locked /\ OtherLocked(t) = {}

(* Seeded fault: iNumLocks is not counted, every Unlock() releases.        *)
UnlockTopUncounted(t) ==
    IF Top(t).locked
    THEN ReleaseSRW(t, Top(t).lock, Top(t).write)
    ELSE UNCHANGED <<excl, shar>>

UnlockTop(t) ==
    IF LastLocked(t)
    THEN ReleaseSRW(t, Top(t).lock, Top(t).write)
    ELSE UNCHANGED <<excl, shar>>

(* The constructor: hook the object into Instances and, with bGetLock, go  *)
(* on to Lock(bWrite).                                                     *)
Construct(t, l, write, getLock) ==
    /\ pc[t] = "run"
    /\ Depth(t) < MaxDepth
    /\ frames' = [frames EXCEPT
                    ![t] = Append(@, [lock |-> l, write |-> write, locked |-> FALSE])]
    /\ pc' = [pc EXCEPT ![t] = IF getLock THEN "scan" ELSE "run"]
    /\ UNCHANGED <<excl, shar>>

(* The member Lock(bWriteParam) called on the newest object: it unlocks,   *)
(* takes the new mode and goes on to the scan.                             *)
Lock(t, write) ==
    /\ pc[t] = "run"
    /\ Depth(t) > 0
    /\ UnlockTop(t)
    /\ SetTop(t, [Top(t) EXCEPT !.write = write, !.locked = FALSE])
    /\ pc' = [pc EXCEPT ![t] = "scan"]

(* The scan found a compatible lock of this thread.                        *)
Reentrant(t) ==
    /\ OtherLocked(t) # {}
    /\ Top(t).write => \E i \in OtherLocked(t) : frames[t][i].write

LockReentrant(t) ==
    /\ pc[t] = "scan"
    /\ Reentrant(t)
    /\ SetTop(t, [Top(t) EXCEPT !.locked = TRUE])
    /\ pc' = [pc EXCEPT ![t] = "run"]
    /\ UNCHANGED <<excl, shar>>

(* No lock of this thread, or a read lock and a write lock is asked for:   *)
(* the thread calls AcquireSRWLock{Exclusive,Shared} ...                   *)
LockNative(t) ==
    /\ pc[t] = "scan"
    /\ ~Reentrant(t)
    /\ pc' = [pc EXCEPT ![t] = "acquire"]
    /\ UNCHANGED <<frames, excl, shar>>

(* ... and stays inside the call until the SRWLOCK is granted.             *)
Acquired(t) ==
    /\ pc[t] = "acquire"
    /\ AcquireSRW(t, Top(t).lock, Top(t).write)
    /\ SetTop(t, [Top(t) EXCEPT !.locked = TRUE])
    /\ pc' = [pc EXCEPT ![t] = "run"]

(* The member Unlock() called on the newest object.                        *)
Unlock(t) ==
    /\ pc[t] = "run"
    /\ Depth(t) > 0
    /\ Top(t).locked
    /\ UnlockTop(t)
    /\ SetTop(t, [Top(t) EXCEPT !.locked = FALSE])
    /\ UNCHANGED pc

(* The destructor, at the end of the scope: Unlock(), leave Instances.     *)
Destruct(t) ==
    /\ pc[t] = "run"
    /\ Depth(t) > 0
    /\ UnlockTop(t)
    /\ frames' = [frames EXCEPT ![t] = SubSeq(@, 1, Depth(t) - 1)]
    /\ UNCHANGED pc

LockCode(t) == LockReentrant(t) \/ LockNative(t) \/ Acquired(t)

Next ==
    \E t \in Threads :
        \/ \E l \in Locks, w, g \in BOOLEAN : Construct(t, l, w, g)
        \/ \E w \in BOOLEAN : Lock(t, w)
        \/ LockCode(t)
        \/ Unlock(t)
        \/ Destruct(t)

Spec == Init /\ [][Next]_vars

-----------------------------------------------------------------------------
(* Client view of the lock (CRWLock.h: "lock used by the caller"): while   *)
(* an object of one thread has the lock for writing, no object of another  *)
(* thread has it, whatever the nesting of objects on either side.          *)
MutualExclusion ==
    \A l \in Locks, t, u \in Threads :
        \A i \in 1 .. Depth(t), j \in 1 .. Depth(u) :
            WritesAt(t, l, i) /\ HoldsAt(u, l, j) => t = u

(* The owner of an SRWLOCK holds it in the mode the nested objects need:   *)
(* exclusively if one of the thread's locked objects writes, shared if it  *)
(* has locked objects and all read, not at all otherwise.  Unlock() relies *)
(* on it when the last locked object releases in its own mode.             *)
NativeModeMatches ==
    \A t \in Threads, l \in Locks :
        /\ t \in excl[l] <=> \E i \in 1 .. Depth(t) : WritesAt(t, l, i)
        /\ t \in shar[l] <=> /\ \E i \in 1 .. Depth(t) : HoldsAt(t, l, i)
                             /\ \A i \in 1 .. Depth(t) : ~WritesAt(t, l, i)

(* The only way a thread can wait for an SRWLOCK that it holds itself is   *)
(* the one the code asserts against: it has a read lock and asks for a     *)
(* write lock.  Every other nesting is granted by the scan.                *)
OnlyUpgradeSelfBlocks ==
    \A t \in Threads :
        /\ pc[t] = "acquire"
        /\ t \in excl[Top(t).lock] \cup shar[Top(t).lock]
        => t \in shar[Top(t).lock] /\ Top(t).write

-----------------------------------------------------------------------------
(* The inductive invariant of the proofs.                                  *)

(* The SRWLOCK is held by one writer or by readers.                        *)
NativeExclusion ==
    \A l \in Locks, t, u \in Threads :
        t \in excl[l] /\ u \in excl[l] \cup shar[l] => t = u

(* A locked object that writes is the thread's outermost one on the lock,  *)
(* or has another one that writes below it.                                *)
WritesOutermost ==
    \A t \in Threads, l \in Locks :
        \A j \in 1 .. Depth(t) :
            WritesAt(t, l, j)
            => \/ \A i \in 1 .. j - 1 : ~HoldsAt(t, l, i)
               \/ \E i \in 1 .. j - 1 : WritesAt(t, l, i)

(* A thread inside Lock() works on an object that does not have the lock.  *)
InLockCode ==
    \A t \in Threads :
        /\ pc[t] # "run" => Depth(t) > 0 /\ ~Top(t).locked
        /\ pc[t] = "acquire" => ~Reentrant(t)

IndInv ==
    /\ TypeOK
    /\ NativeExclusion
    /\ NativeModeMatches
    /\ WritesOutermost
    /\ InLockCode
=============================================================================
