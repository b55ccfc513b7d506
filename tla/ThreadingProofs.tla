-------------------------- MODULE ThreadingProofs ---------------------------
(* Proofs about RWLock, for any set of threads and locks and any depth;    *)
(* that the locking discipline of LockOrder cannot deadlock, for any order *)
(* of the locks; and about WorkerThread, for any number of callers.        *)
EXTENDS LockOrder, WorkerThread, SequenceTheorems, WellFoundedInduction, TLAPS

-----------------------------------------------------------------------------
LEMMA FrontOfSeq ==
    ASSUME NEW S, NEW s \in Seq(S), Len(s) > 0
    PROVE  /\ SubSeq(s, 1, Len(s) - 1) \in Seq(S)
           /\ Len(SubSeq(s, 1, Len(s) - 1)) = Len(s) - 1
           /\ \A i \in 1 .. Len(s) - 1 : SubSeq(s, 1, Len(s) - 1)[i] = s[i]
  <1> DEFINE n == Len(s) - 1
  <1>1. n \in Nat /\ \A i \in 1 .. n : s[i] \in S
    OBVIOUS
  <1> HIDE DEF n
  <1>2. /\ SubSeq(s, 1, n) \in Seq(S)
        /\ Len(SubSeq(s, 1, n)) = IF 1 <= n THEN n - 1 + 1 ELSE 0
        /\ \A i \in 1 .. n - 1 + 1 : SubSeq(s, 1, n)[i] = s[1 + i - 1]
    BY <1>1, SubSeqProperties
  <1>3. /\ Len(SubSeq(s, 1, n)) = n
        /\ \A i \in 1 .. n : SubSeq(s, 1, n)[i] = s[i]
    BY <1>1, <1>2
  <1> QED
    BY <1>2, <1>3 DEF n

(* What the three ways of changing a stack do to it.                       *)

LEMMA SetTopFrames ==
    ASSUME TypeOK, NEW t \in Threads, NEW f \in Frame, Depth(t) > 0, SetTop(t, f)
    PROVE  /\ frames' \in [Threads -> Seq(Frame)]
           /\ \A u \in Threads : Depth(u)' = Depth(u)
           /\ \A u \in Threads \ {t} : frames'[u] = frames[u]
           /\ Top(t)' = f
           /\ \A i \in 1 .. Depth(t) - 1 : frames'[t][i] = frames[t][i]
  <1> USE DEF TypeOK, SetTop, Depth, Top
  <1>1. frames[t] \in Seq(Frame) /\ Len(frames[t]) \in Nat
    OBVIOUS
  <1>2. frames'[t] = [frames[t] EXCEPT ![Len(frames[t])] = f]
    OBVIOUS
  <1>3. /\ frames'[t] \in Seq(Frame)
        /\ Len(frames'[t]) = Len(frames[t])
        /\ frames'[t][Len(frames[t])] = f
        /\ \A i \in 1 .. Len(frames[t]) - 1 : frames'[t][i] = frames[t][i]
    BY <1>1, <1>2
  <1>4. \A u \in Threads \ {t} : frames'[u] = frames[u]
    OBVIOUS
  <1>5. frames' \in [Threads -> Seq(Frame)]
    BY <1>3, <1>4
  <1> QED
    BY <1>3, <1>4, <1>5

LEMMA PushFrames ==
    ASSUME TypeOK, NEW t \in Threads, NEW f \in Frame,
           frames' = [frames EXCEPT ![t] = Append(@, f)]
    PROVE  /\ frames' \in [Threads -> Seq(Frame)]
           /\ \A u \in Threads \ {t} : frames'[u] = frames[u]
           /\ Depth(t)' = Depth(t) + 1
           /\ Top(t)' = f
           /\ \A i \in 1 .. Depth(t) : frames'[t][i] = frames[t][i]
  <1> USE DEF TypeOK, Depth, Top
  <1>1. frames[t] \in Seq(Frame) /\ Len(frames[t]) \in Nat
    OBVIOUS
  <1>2. frames'[t] = Append(frames[t], f)
    OBVIOUS
  <1>3. /\ frames'[t] \in Seq(Frame)
        /\ Len(frames'[t]) = Len(frames[t]) + 1
        /\ frames'[t][Len(frames[t]) + 1] = f
        /\ \A i \in 1 .. Len(frames[t]) : frames'[t][i] = frames[t][i]
    BY <1>1, <1>2
  <1>4. \A u \in Threads \ {t} : frames'[u] = frames[u]
    OBVIOUS
  <1>5. frames' \in [Threads -> Seq(Frame)]
    BY <1>3, <1>4
  <1> QED
    BY <1>3, <1>4, <1>5

LEMMA PopFrames ==
    ASSUME TypeOK, NEW t \in Threads, Depth(t) > 0,
           frames' = [frames EXCEPT ![t] = SubSeq(@, 1, Depth(t) - 1)]
    PROVE  /\ frames' \in [Threads -> Seq(Frame)]
           /\ \A u \in Threads \ {t} : frames'[u] = frames[u]
           /\ Depth(t)' = Depth(t) - 1
           /\ \A i \in 1 .. Depth(t) - 1 : frames'[t][i] = frames[t][i]
  <1> USE DEF TypeOK, Depth
  <1>1. frames[t] \in Seq(Frame) /\ Len(frames[t]) \in Nat
    OBVIOUS
  <1>2. frames'[t] = SubSeq(frames[t], 1, Len(frames[t]) - 1)
    OBVIOUS
  <1>5. /\ frames'[t] \in Seq(Frame)
        /\ Len(frames'[t]) = Len(frames[t]) - 1
        /\ \A i \in 1 .. Len(frames[t]) - 1 : frames'[t][i] = frames[t][i]
    BY <1>1, <1>2, FrontOfSeq
  <1>6. \A u \in Threads \ {t} : frames'[u] = frames[u]
    OBVIOUS
  <1>7. frames' \in [Threads -> Seq(Frame)]
    BY <1>5, <1>6
  <1> QED
    BY <1>5, <1>6, <1>7

-----------------------------------------------------------------------------
(* A step that takes the newest object of t out of the locked ones, as     *)
(* Unlock() does, keeps the lock in order.                                 *)
LEMMA ReleaseKeeps ==
    ASSUME IndInv, NEW t \in Threads, Depth(t) > 0, UnlockTop(t),
           \A u \in Threads : Depth(u)' \in Nat,
           \A u \in Threads \ {t}, l \in Locks, i \in Nat :
              /\ HoldsAt(u, l, i)' <=> HoldsAt(u, l, i)
              /\ WritesAt(u, l, i)' <=> WritesAt(u, l, i),
           \A l \in Locks, i \in Nat :
              /\ HoldsAt(t, l, i)' <=> HoldsAt(t, l, i) /\ i # Depth(t)
              /\ WritesAt(t, l, i)' <=> WritesAt(t, l, i) /\ i # Depth(t)
    PROVE  /\ excl' \in [Locks -> SUBSET Threads]
           /\ shar' \in [Locks -> SUBSET Threads]
           /\ NativeExclusion'
           /\ NativeModeMatches'
           /\ WritesOutermost'
  <1>1. /\ Depth(t) \in Nat
        /\ \A u \in Threads : Depth(u) \in Nat
        /\ Top(t) \in Frame
    BY DEF IndInv, TypeOK, Depth, Top
  <1>2. /\ excl' \in [Locks -> SUBSET Threads]
        /\ shar' \in [Locks -> SUBSET Threads]
        /\ \A l \in Locks : excl'[l] = IF l = Top(t).lock /\ LastLocked(t) /\ Top(t).write
                                     THEN excl[l] \ {t} ELSE excl[l]
        /\ \A l \in Locks : shar'[l] = IF l = Top(t).lock /\ LastLocked(t) /\ ~Top(t).write
                                     THEN shar[l] \ {t} ELSE shar[l]
    <2>0. Top(t).lock \in Locks /\ Top(t).write \in BOOLEAN
      BY <1>1 DEF Frame
    <2>1. CASE LastLocked(t) /\ Top(t).write
      <3>1. excl' = [excl EXCEPT ![Top(t).lock] = @ \ {t}] /\ shar' = shar
        BY <2>1 DEF UnlockTop, ReleaseSRW
      <3> QED
        BY <2>0, <2>1, <3>1 DEF IndInv, TypeOK
    <2>2. CASE LastLocked(t) /\ ~Top(t).write
      <3>1. shar' = [shar EXCEPT ![Top(t).lock] = @ \ {t}] /\ excl' = excl
        BY <2>2 DEF UnlockTop, ReleaseSRW
      <3> QED
        BY <2>0, <2>2, <3>1 DEF IndInv, TypeOK
    <2>3. CASE ~LastLocked(t)
      <3>1. excl' = excl /\ shar' = shar
        BY <2>3 DEF UnlockTop
      <3> QED
        BY <2>3, <3>1 DEF IndInv, TypeOK
    <2> QED
      BY <2>1, <2>2, <2>3
  <1>3. NativeExclusion'
    BY <1>2 DEF IndInv, NativeExclusion
  <1>4. WritesOutermost'
    BY <1>1 DEF IndInv, WritesOutermost, HoldsAt, WritesAt
  <1>5. NativeModeMatches'
    <2>1. \A u \in Threads, l \in Locks :
            /\ u \in excl[l] <=> \E i \in Nat : WritesAt(u, l, i)
            /\ u \in shar[l] <=> /\ \E i \in Nat : HoldsAt(u, l, i)
                                 /\ \A i \in Nat : ~WritesAt(u, l, i)
      BY <1>1 DEF IndInv, NativeModeMatches, WritesAt, HoldsAt
    <2>2. SUFFICES
            ASSUME NEW u \in Threads, NEW l \in Locks
            PROVE  /\ u \in excl'[l] <=> \E i \in Nat : WritesAt(u, l, i)'
                   /\ u \in shar'[l] <=> /\ \E i \in Nat : HoldsAt(u, l, i)'
                                         /\ \A i \in Nat : ~WritesAt(u, l, i)'
      BY <1>1 DEF NativeModeMatches, WritesAt, HoldsAt
    <2>3. CASE u # t
      BY <1>2, <2>1, <2>3
    <2>4. CASE u = t /\ (l # Top(t).lock \/ ~Top(t).locked)
      <3>1. ~HoldsAt(t, l, Depth(t)) /\ ~WritesAt(t, l, Depth(t))
        BY <2>4 DEF HoldsAt, WritesAt, Top
      <3>2. excl'[l] = excl[l] /\ shar'[l] = shar[l]
        BY <1>2, <2>4 DEF LastLocked
      <3> QED
        BY <1>1, <2>1, <2>4, <3>1, <3>2
    <2>5. CASE u = t /\ l = Top(t).lock /\ LastLocked(t)
      <3>1. /\ HoldsAt(t, l, Depth(t))
            /\ WritesAt(t, l, Depth(t)) <=> Top(t).write
        BY <1>1, <2>5 DEF LastLocked, HoldsAt, WritesAt, Top
      <3>2. \A i \in Nat : HoldsAt(t, l, i) => i = Depth(t)
        BY <1>1, <2>5 DEF LastLocked, OtherLocked, HoldsAt
      <3>3. \A i \in Nat : WritesAt(t, l, i) => i = Depth(t)
        BY <3>2 DEF WritesAt
      <3>4. \A i \in Nat : ~HoldsAt(t, l, i)' /\ ~WritesAt(t, l, i)'
        BY <3>2, <3>3
      <3>5. CASE Top(t).write
        BY <1>1, <1>2, <2>1, <2>5, <3>1, <3>4, <3>5
      <3>6. CASE ~Top(t).write
        BY <1>1, <1>2, <2>1, <2>5, <3>1, <3>3, <3>4, <3>6
      <3> QED
        BY <3>5, <3>6
    <2>6. CASE u = t /\ l = Top(t).lock /\ Top(t).locked /\ ~LastLocked(t)
      <3>1. PICK k \in OtherLocked(t) : TRUE
        BY <2>6 DEF LastLocked
      <3>2. k \in Nat /\ k # Depth(t) /\ HoldsAt(t, l, k) /\ HoldsAt(t, l, k)'
        BY <1>1, <2>6, <3>1 DEF OtherLocked
      <3>3. WritesAt(t, l, Depth(t)) =>
              \E i \in Nat : i # Depth(t) /\ WritesAt(t, l, i)
        BY <1>1, <2>6, <3>1, <3>2 DEF IndInv, WritesOutermost, OtherLocked, HoldsAt
      <3>4. excl'[l] = excl[l] /\ shar'[l] = shar[l]
        BY <1>2, <2>6
      <3> QED
        BY <1>1, <2>1, <2>6, <3>2, <3>3, <3>4
    <2> QED
      BY <2>3, <2>4, <2>5, <2>6 DEF LastLocked
  <1> QED
    BY <1>2, <1>3, <1>4, <1>5
-----------------------------------------------------------------------------
(* A step that changes no lock and no locked object keeps the lock in      *)
(* order.                                                                  *)
LEMMA NoGrantKeeps ==
    ASSUME IndInv, UNCHANGED <<excl, shar>>,
           \A u \in Threads : Depth(u)' \in Nat,
           \A u \in Threads, l \in Locks, i \in Nat :
              /\ HoldsAt(u, l, i)' <=> HoldsAt(u, l, i)
              /\ WritesAt(u, l, i)' <=> WritesAt(u, l, i)
    PROVE  /\ NativeExclusion'
           /\ NativeModeMatches'
           /\ WritesOutermost'
  <1>1. \A u \in Threads : Depth(u) \in Nat
    BY DEF IndInv, TypeOK, Depth
  <1>2. NativeExclusion'
    BY DEF IndInv, NativeExclusion
  <1>3. WritesOutermost'
    BY <1>1 DEF IndInv, WritesOutermost, HoldsAt, WritesAt
  <1>4. NativeModeMatches'
    BY <1>1 DEF IndInv, NativeModeMatches, HoldsAt, WritesAt
  <1> QED
    BY <1>2, <1>3, <1>4

(* The state of the other threads inside Lock() is not disturbed.          *)
LEMMA OthersInLockCode ==
    ASSUME IndInv, NEW t \in Threads, NEW u \in Threads \ {t},
           frames'[u] = frames[u], pc'[u] = pc[u]
    PROVE  /\ pc'[u] # "run" => Depth(u)' > 0 /\ ~Top(u)'.locked
           /\ pc'[u] = "acquire" => ~Reentrant(u)'
  BY DEF IndInv, InLockCode, Depth, Top, Reentrant, OtherLocked, HoldsAt

-----------------------------------------------------------------------------
(* One lemma per action: it keeps the inductive invariant.                 *)

LEMMA ConstructKeeps ==
    ASSUME IndInv, NEW t \in Threads, NEW l \in Locks,
           NEW w \in BOOLEAN, NEW g \in BOOLEAN, Construct(t, l, w, g)
    PROVE  IndInv'
  <1> DEFINE f == [lock |-> l, write |-> w, locked |-> FALSE]
  <1>a. f \in Frame
    BY DEF Frame
  <1>0. TypeOK /\ f \in Frame /\ Depth(t) \in Nat
    BY <1>a DEF IndInv, TypeOK, Depth
  <1>1. /\ frames' \in [Threads -> Seq(Frame)]
        /\ \A u \in Threads \ {t} : frames'[u] = frames[u]
        /\ Depth(t)' = Depth(t) + 1
        /\ Top(t)' = f
        /\ \A i \in 1 .. Depth(t) : frames'[t][i] = frames[t][i]
    BY <1>0, PushFrames DEF Construct
  <1>2. TypeOK'
    BY <1>1 DEF IndInv, TypeOK, Construct
  <1>3. \A u \in Threads, k \in Locks, i \in Nat :
           /\ HoldsAt(u, k, i)' <=> HoldsAt(u, k, i)
           /\ WritesAt(u, k, i)' <=> WritesAt(u, k, i)
    <2> SUFFICES ASSUME NEW u \in Threads, NEW k \in Locks, NEW i \in Nat
                 PROVE  /\ HoldsAt(u, k, i)' <=> HoldsAt(u, k, i)
                        /\ WritesAt(u, k, i)' <=> WritesAt(u, k, i)
      OBVIOUS
    <2>1. CASE u # t
      BY <1>1, <2>1 DEF HoldsAt, WritesAt, Depth
    <2>2. CASE u = t /\ i = Depth(t) + 1
      BY <1>0, <1>1, <2>2 DEF HoldsAt, WritesAt, Top
    <2>3. CASE u = t /\ i # Depth(t) + 1
      BY <1>0, <1>1, <2>3 DEF HoldsAt, WritesAt
    <2> QED
      BY <2>1, <2>2, <2>3
  <1>4. \A u \in Threads : Depth(u)' \in Nat
    BY <1>2 DEF TypeOK, Depth
  <1>5. NativeExclusion' /\ NativeModeMatches' /\ WritesOutermost'
    BY <1>3, <1>4, NoGrantKeeps DEF Construct
  <1>6. InLockCode'
    <2>1. \A u \in Threads \ {t} : pc'[u] = pc[u]
      BY DEF Construct, IndInv, TypeOK
    <2>2. pc'[t] # "acquire" /\ Depth(t)' > 0 /\ ~Top(t)'.locked
      BY <1>0, <1>1 DEF Construct, IndInv, TypeOK
    <2> QED
      BY <1>1, <2>1, <2>2, OthersInLockCode DEF InLockCode
  <1> QED
    BY <1>2, <1>5, <1>6 DEF IndInv

LEMMA LockNativeKeeps ==
    ASSUME IndInv, NEW t \in Threads, LockNative(t)
    PROVE  IndInv'
  <1>1. UNCHANGED <<frames, excl, shar>>
    BY DEF LockNative
  <1>2. TypeOK'
    BY <1>1 DEF IndInv, TypeOK, LockNative
  <1>3. NativeExclusion' /\ NativeModeMatches' /\ WritesOutermost'
    BY <1>1 DEF IndInv, NativeExclusion, NativeModeMatches, WritesOutermost,
                HoldsAt, WritesAt, Depth
  <1>4. InLockCode'
    <2>1. \A u \in Threads \ {t} : pc'[u] = pc[u]
      BY DEF LockNative, IndInv, TypeOK
    <2>2. pc[t] = "scan" /\ ~Reentrant(t)
      BY DEF LockNative
    <2>3. Depth(t)' > 0 /\ ~Top(t)'.locked /\ ~Reentrant(t)'
      BY <1>1, <2>2 DEF IndInv, InLockCode, Depth, Top, Reentrant, OtherLocked, HoldsAt
    <2> QED
      BY <1>1, <2>1, <2>3, OthersInLockCode DEF InLockCode
  <1> QED
    BY <1>2, <1>3, <1>4 DEF IndInv
(* The locked objects after SetTop has cleared bLocked of the newest one.  *)
LEMMA ClearTop ==
    ASSUME TypeOK, NEW t \in Threads, NEW f \in Frame, Depth(t) > 0,
           SetTop(t, f), ~f.locked
    PROVE  /\ \A u \in Threads \ {t}, l \in Locks, i \in Nat :
                /\ HoldsAt(u, l, i)' <=> HoldsAt(u, l, i)
                /\ WritesAt(u, l, i)' <=> WritesAt(u, l, i)
           /\ \A l \in Locks, i \in Nat :
                /\ HoldsAt(t, l, i)' <=> HoldsAt(t, l, i) /\ i # Depth(t)
                /\ WritesAt(t, l, i)' <=> WritesAt(t, l, i) /\ i # Depth(t)
  <1>0. Depth(t) \in Nat
    BY DEF TypeOK, Depth
  <1>1. /\ \A u \in Threads : Depth(u)' = Depth(u)
        /\ \A u \in Threads \ {t} : frames'[u] = frames[u]
        /\ Top(t)' = f
        /\ \A i \in 1 .. Depth(t) - 1 : frames'[t][i] = frames[t][i]
    BY SetTopFrames
  <1>2. \A u \in Threads \ {t}, l \in Locks, i \in Nat :
           /\ HoldsAt(u, l, i)' <=> HoldsAt(u, l, i)
           /\ WritesAt(u, l, i)' <=> WritesAt(u, l, i)
    BY <1>1 DEF HoldsAt, WritesAt
  <1>3. ASSUME NEW l \in Locks, NEW i \in Nat
        PROVE  /\ HoldsAt(t, l, i)' <=> HoldsAt(t, l, i) /\ i # Depth(t)
               /\ WritesAt(t, l, i)' <=> WritesAt(t, l, i) /\ i # Depth(t)
    <2>1. CASE i = Depth(t)
      <3>1. frames'[t][i] = f
        BY <1>1, <2>1 DEF Top
      <3> QED
        BY <2>1, <3>1 DEF HoldsAt, WritesAt
    <2>2. CASE i # Depth(t)
      BY <1>0, <1>1, <2>2 DEF HoldsAt, WritesAt
    <2> QED
      BY <2>1, <2>2
  <1> QED
    BY <1>2, <1>3

LEMMA LockKeeps ==
    ASSUME IndInv, NEW t \in Threads, NEW w \in BOOLEAN, Lock(t, w)
    PROVE  IndInv'
  <1> DEFINE f == [Top(t) EXCEPT !.write = w, !.locked = FALSE]
  <1>0. TypeOK /\ Depth(t) \in Nat /\ Depth(t) > 0 /\ Top(t) \in Frame
    BY DEF IndInv, TypeOK, Depth, Top, Lock
  <1>1. f \in Frame /\ ~f.locked
    BY <1>0 DEF Frame
  <1>2. SetTop(t, f) /\ UnlockTop(t)
    BY DEF Lock
  <1> HIDE DEF f
  <1>3. /\ frames' \in [Threads -> Seq(Frame)]
        /\ \A u \in Threads : Depth(u)' = Depth(u)
        /\ \A u \in Threads \ {t} : frames'[u] = frames[u]
        /\ Top(t)' = f
    BY <1>0, <1>1, <1>2, SetTopFrames
  <1>4. \A u \in Threads : Depth(u)' \in Nat
    BY <1>0, <1>3 DEF TypeOK, Depth
  <1>5. /\ excl' \in [Locks -> SUBSET Threads]
        /\ shar' \in [Locks -> SUBSET Threads]
        /\ NativeExclusion' /\ NativeModeMatches' /\ WritesOutermost'
    BY <1>0, <1>1, <1>2, <1>4, ClearTop, ReleaseKeeps
  <1>6. TypeOK'
    BY <1>3, <1>5 DEF IndInv, TypeOK, Lock
  <1>7. InLockCode'
    <2>1. \A u \in Threads \ {t} : pc'[u] = pc[u]
      BY DEF Lock, IndInv, TypeOK
    <2>2. pc'[t] # "acquire"
      BY DEF Lock, IndInv, TypeOK
    <2> QED
      BY <1>0, <1>1, <1>3, <2>1, <2>2, OthersInLockCode DEF InLockCode
  <1> QED
    BY <1>5, <1>6, <1>7 DEF IndInv

LEMMA UnlockKeeps ==
    ASSUME IndInv, NEW t \in Threads, Unlock(t)
    PROVE  IndInv'
  <1> DEFINE f == [Top(t) EXCEPT !.locked = FALSE]
  <1>0. TypeOK /\ Depth(t) \in Nat /\ Depth(t) > 0 /\ Top(t) \in Frame
    BY DEF IndInv, TypeOK, Depth, Top, Unlock
  <1>1. f \in Frame /\ ~f.locked
    BY <1>0 DEF Frame
  <1>2. SetTop(t, f) /\ UnlockTop(t)
    BY DEF Unlock
  <1> HIDE DEF f
  <1>3. /\ frames' \in [Threads -> Seq(Frame)]
        /\ \A u \in Threads : Depth(u)' = Depth(u)
        /\ \A u \in Threads \ {t} : frames'[u] = frames[u]
        /\ Top(t)' = f
    BY <1>0, <1>1, <1>2, SetTopFrames
  <1>4. \A u \in Threads : Depth(u)' \in Nat
    BY <1>0, <1>3 DEF TypeOK, Depth
  <1>5. /\ excl' \in [Locks -> SUBSET Threads]
        /\ shar' \in [Locks -> SUBSET Threads]
        /\ NativeExclusion' /\ NativeModeMatches' /\ WritesOutermost'
    BY <1>0, <1>1, <1>2, <1>4, ClearTop, ReleaseKeeps
  <1>6. TypeOK'
    BY <1>3, <1>5 DEF IndInv, TypeOK, Unlock
  <1>7. InLockCode'
    <2>1. pc' = pc /\ pc'[t] = "run"
      BY DEF Unlock
    <2> QED
      BY <1>3, <2>1, OthersInLockCode DEF InLockCode
  <1> QED
    BY <1>5, <1>6, <1>7 DEF IndInv

LEMMA DestructKeeps ==
    ASSUME IndInv, NEW t \in Threads, Destruct(t)
    PROVE  IndInv'
  <1>0. TypeOK /\ Depth(t) \in Nat /\ Depth(t) > 0
    BY DEF IndInv, TypeOK, Depth, Destruct
  <1>1. /\ frames' \in [Threads -> Seq(Frame)]
        /\ \A u \in Threads \ {t} : frames'[u] = frames[u]
        /\ Depth(t)' = Depth(t) - 1
        /\ \A i \in 1 .. Depth(t) - 1 : frames'[t][i] = frames[t][i]
    BY <1>0, PopFrames DEF Destruct
  <1>2. \A u \in Threads : Depth(u)' \in Nat
    BY <1>1 DEF Depth
  <1>3. \A u \in Threads \ {t}, l \in Locks, i \in Nat :
           /\ HoldsAt(u, l, i)' <=> HoldsAt(u, l, i)
           /\ WritesAt(u, l, i)' <=> WritesAt(u, l, i)
    BY <1>1 DEF HoldsAt, WritesAt, Depth
  <1>4. \A l \in Locks, i \in Nat :
           /\ HoldsAt(t, l, i)' <=> HoldsAt(t, l, i) /\ i # Depth(t)
           /\ WritesAt(t, l, i)' <=> WritesAt(t, l, i) /\ i # Depth(t)
    BY <1>0, <1>1 DEF HoldsAt, WritesAt
  <1>5. UnlockTop(t)
    BY DEF Destruct
  <1>6. /\ excl' \in [Locks -> SUBSET Threads]
        /\ shar' \in [Locks -> SUBSET Threads]
        /\ NativeExclusion' /\ NativeModeMatches' /\ WritesOutermost'
    BY <1>0, <1>2, <1>3, <1>4, <1>5, ReleaseKeeps
  <1>7. TypeOK'
    BY <1>1, <1>6 DEF IndInv, TypeOK, Destruct
  <1>8. InLockCode'
    <2>1. pc' = pc /\ pc'[t] = "run"
      BY DEF Destruct
    <2> QED
      BY <1>1, <2>1, OthersInLockCode DEF InLockCode
  <1> QED
    BY <1>6, <1>7, <1>8 DEF IndInv
(* The locked objects after SetTop has set bLocked of the newest one.      *)
LEMMA GrantTop ==
    ASSUME TypeOK, NEW t \in Threads, Depth(t) > 0,
           SetTop(t, [Top(t) EXCEPT !.locked = TRUE])
    PROVE  /\ frames' \in [Threads -> Seq(Frame)]
           /\ \A u \in Threads : Depth(u)' = Depth(u)
           /\ \A u \in Threads \ {t} : frames'[u] = frames[u]
           /\ \A u \in Threads \ {t}, l \in Locks, i \in Nat :
                /\ HoldsAt(u, l, i)' <=> HoldsAt(u, l, i)
                /\ WritesAt(u, l, i)' <=> WritesAt(u, l, i)
           /\ \A l \in Locks, i \in Nat :
                /\ HoldsAt(t, l, i) => HoldsAt(t, l, i)'
                /\ WritesAt(t, l, i) => WritesAt(t, l, i)'
                /\ i = Depth(t) /\ l = Top(t).lock => HoldsAt(t, l, i)'
                /\ i = Depth(t) /\ l = Top(t).lock /\ Top(t).write => WritesAt(t, l, i)'
                /\ HoldsAt(t, l, i)' => HoldsAt(t, l, i) \/ (i = Depth(t) /\ l = Top(t).lock)
                /\ WritesAt(t, l, i)' => \/ WritesAt(t, l, i)
                                         \/ i = Depth(t) /\ l = Top(t).lock /\ Top(t).write
  <1> DEFINE f == [Top(t) EXCEPT !.locked = TRUE]
  <1>0. Depth(t) \in Nat /\ Top(t) \in Frame
    BY DEF TypeOK, Depth, Top
  <1>1. f \in Frame /\ f.locked /\ f.lock = Top(t).lock /\ f.write = Top(t).write
    BY <1>0 DEF Frame
  <1>2. SetTop(t, f)
    OBVIOUS
  <1> HIDE DEF f
  <1>3. /\ frames' \in [Threads -> Seq(Frame)]
        /\ \A u \in Threads : Depth(u)' = Depth(u)
        /\ \A u \in Threads \ {t} : frames'[u] = frames[u]
        /\ Top(t)' = f
        /\ \A i \in 1 .. Depth(t) - 1 : frames'[t][i] = frames[t][i]
    BY <1>1, <1>2, SetTopFrames
  <1>4. \A u \in Threads \ {t}, l \in Locks, i \in Nat :
           /\ HoldsAt(u, l, i)' <=> HoldsAt(u, l, i)
           /\ WritesAt(u, l, i)' <=> WritesAt(u, l, i)
    BY <1>3 DEF HoldsAt, WritesAt
  <1>5. ASSUME NEW l \in Locks, NEW i \in Nat
        PROVE  /\ HoldsAt(t, l, i) => HoldsAt(t, l, i)'
               /\ WritesAt(t, l, i) => WritesAt(t, l, i)'
               /\ i = Depth(t) /\ l = Top(t).lock => HoldsAt(t, l, i)'
               /\ i = Depth(t) /\ l = Top(t).lock /\ Top(t).write => WritesAt(t, l, i)'
               /\ HoldsAt(t, l, i)' => HoldsAt(t, l, i) \/ (i = Depth(t) /\ l = Top(t).lock)
               /\ WritesAt(t, l, i)' => \/ WritesAt(t, l, i)
                                        \/ i = Depth(t) /\ l = Top(t).lock /\ Top(t).write
    <2>1. CASE i = Depth(t)
      <3>1. frames'[t][i] = f /\ frames[t][i] = Top(t)
        BY <1>3, <2>1 DEF Top
      <3> QED
        BY <1>0, <1>1, <1>3, <2>1, <3>1 DEF HoldsAt, WritesAt
    <2>2. CASE i # Depth(t)
      <3>1. /\ HoldsAt(t, l, i)' <=> HoldsAt(t, l, i)
            /\ WritesAt(t, l, i)' <=> WritesAt(t, l, i)
        BY <1>0, <1>3, <2>2 DEF HoldsAt, WritesAt
      <3> QED
        BY <2>2, <3>1
    <2> QED
      BY <2>1, <2>2
  <1> QED
    BY <1>3, <1>4, <1>5

(* Re-entrant grant: the SRWLOCK is already held in a mode that suffices.  *)
LEMMA LockReentrantKeeps ==
    ASSUME IndInv, NEW t \in Threads, LockReentrant(t)
    PROVE  IndInv'
  <1>0. /\ TypeOK /\ Depth(t) \in Nat /\ Depth(t) > 0 /\ ~Top(t).locked
        /\ \A u \in Threads : Depth(u) \in Nat
        /\ Top(t) \in Frame
    BY DEF IndInv, TypeOK, Depth, Top, LockReentrant, InLockCode
  <1>1. /\ frames' \in [Threads -> Seq(Frame)]
        /\ \A u \in Threads : Depth(u)' = Depth(u)
        /\ \A u \in Threads \ {t} : frames'[u] = frames[u]
        /\ \A u \in Threads \ {t}, l \in Locks, i \in Nat :
              /\ HoldsAt(u, l, i)' <=> HoldsAt(u, l, i)
              /\ WritesAt(u, l, i)' <=> WritesAt(u, l, i)
        /\ \A l \in Locks, i \in Nat :
              /\ HoldsAt(t, l, i) => HoldsAt(t, l, i)'
              /\ WritesAt(t, l, i) => WritesAt(t, l, i)'
              /\ i = Depth(t) /\ l = Top(t).lock => HoldsAt(t, l, i)'
              /\ i = Depth(t) /\ l = Top(t).lock /\ Top(t).write => WritesAt(t, l, i)'
              /\ HoldsAt(t, l, i)' => HoldsAt(t, l, i) \/ (i = Depth(t) /\ l = Top(t).lock)
              /\ WritesAt(t, l, i)' => \/ WritesAt(t, l, i)
                                       \/ i = Depth(t) /\ l = Top(t).lock /\ Top(t).write
    BY <1>0, GrantTop DEF LockReentrant
  <1>2. TypeOK'
    BY <1>1 DEF IndInv, TypeOK, LockReentrant
  <1>3. UNCHANGED <<excl, shar>>
    BY DEF LockReentrant
  <1>4. NativeExclusion'
    BY <1>3 DEF IndInv, NativeExclusion
  <1>5. /\ \E k \in 1 .. Depth(t) - 1 : HoldsAt(t, Top(t).lock, k)
        /\ Top(t).write => \E k \in 1 .. Depth(t) - 1 : WritesAt(t, Top(t).lock, k)
    BY DEF LockReentrant, Reentrant, OtherLocked, WritesAt
  <1>6. NativeModeMatches'
    <2>1. \A u \in Threads, l \in Locks :
            /\ u \in excl[l] <=> \E i \in Nat : WritesAt(u, l, i)
            /\ u \in shar[l] <=> /\ \E i \in Nat : HoldsAt(u, l, i)
                                 /\ \A i \in Nat : ~WritesAt(u, l, i)
      BY <1>0 DEF IndInv, NativeModeMatches, WritesAt, HoldsAt
    <2>2. SUFFICES
            ASSUME NEW u \in Threads, NEW l \in Locks
            PROVE  /\ u \in excl'[l] <=> \E i \in Nat : WritesAt(u, l, i)'
                   /\ u \in shar'[l] <=> /\ \E i \in Nat : HoldsAt(u, l, i)'
                                         /\ \A i \in Nat : ~WritesAt(u, l, i)'
      BY <1>0 DEF NativeModeMatches, WritesAt, HoldsAt
    <2>3. excl'[l] = excl[l] /\ shar'[l] = shar[l]
      BY <1>3
    <2>4. CASE u # t
      BY <1>1, <2>1, <2>3, <2>4
    <2>5. CASE u = t /\ l # Top(t).lock
      BY <1>1, <2>1, <2>3, <2>5
    <2>6. CASE u = t /\ l = Top(t).lock
      <3>1. (\E i \in Nat : HoldsAt(t, l, i)) /\ (\E i \in Nat : HoldsAt(t, l, i)')
        BY <1>0, <1>1, <1>5, <2>6
      <3>2. \A i \in Nat : WritesAt(t, l, i) => WritesAt(t, l, i)'
        BY <1>1, <2>6
      <3>3. \A i \in Nat : WritesAt(t, l, i)' => WritesAt(t, l, i) \/ Top(t).write
        BY <1>1, <2>6
      <3>4. Top(t).write => \E i \in Nat : WritesAt(t, l, i)
        BY <1>0, <1>5, <2>6
      <3> QED
        BY <2>1, <2>3, <2>6, <3>1, <3>2, <3>3, <3>4
    <2> QED
      BY <2>4, <2>5, <2>6
  <1>7. WritesOutermost'
    <2> SUFFICES ASSUME NEW u \in Threads, NEW l \in Locks,
                        NEW j \in 1 .. Depth(u), WritesAt(u, l, j)'
                 PROVE  \/ \A i \in 1 .. j - 1 : ~HoldsAt(u, l, i)'
                        \/ \E i \in 1 .. j - 1 : WritesAt(u, l, i)'
      BY <1>1 DEF WritesOutermost
    <2>1. CASE u # t
      BY <1>0, <1>1, <2>1 DEF IndInv, WritesOutermost
    <2>2. CASE u = t /\ j = Depth(t) /\ l = Top(t).lock
      <3>1. Top(t).write
        BY <1>0, <1>1, <2>2 DEF WritesAt, HoldsAt, Top
      <3> QED
        BY <1>0, <1>1, <1>5, <2>2, <3>1
    <2>3. CASE u = t /\ ~(j = Depth(t) /\ l = Top(t).lock)
      <3>1. WritesAt(t, l, j)
        BY <1>0, <1>1, <2>3
      <3> QED
        BY <1>0, <1>1, <2>3, <3>1 DEF IndInv, WritesOutermost
    <2> QED
      BY <2>1, <2>2, <2>3
  <1>8. InLockCode'
    <2>1. \A u \in Threads \ {t} : pc'[u] = pc[u]
      BY DEF LockReentrant, IndInv, TypeOK
    <2>2. pc'[t] = "run"
      BY DEF LockReentrant, IndInv, TypeOK
    <2> QED
      BY <1>1, <2>1, <2>2, OthersInLockCode DEF InLockCode
  <1> QED
    BY <1>2, <1>4, <1>6, <1>7, <1>8 DEF IndInv
(* Native grant.  The thread has no other locked object on the lock: the   *)
(* scan did not grant it, and an upgrade from a read lock finds the lock   *)
(* shared by the thread itself, so it is never granted.                    *)
LEMMA AcquiredKeeps ==
    ASSUME IndInv, NEW t \in Threads, Acquired(t)
    PROVE  IndInv'
  <1>a. /\ Depth(t) > 0 /\ ~Top(t).locked
        /\ ~Reentrant(t)
    BY DEF IndInv, Acquired, InLockCode
  <1>b. Top(t) \in Frame
    BY <1>a DEF IndInv, TypeOK, Depth, Top
  <1>c. PICK m \in Locks : m = Top(t).lock
    BY <1>b DEF Frame
  <1>0. /\ TypeOK /\ Depth(t) \in Nat /\ Depth(t) > 0 /\ ~Top(t).locked
        /\ \A u \in Threads : Depth(u) \in Nat
        /\ Top(t) \in Frame /\ m \in Locks /\ m = Top(t).lock
        /\ ~Reentrant(t)
    BY <1>a, <1>b, <1>c DEF IndInv, TypeOK, Depth
  <1>1. /\ frames' \in [Threads -> Seq(Frame)]
        /\ \A u \in Threads : Depth(u)' = Depth(u)
        /\ \A u \in Threads \ {t} : frames'[u] = frames[u]
        /\ \A u \in Threads \ {t}, l \in Locks, i \in Nat :
              /\ HoldsAt(u, l, i)' <=> HoldsAt(u, l, i)
              /\ WritesAt(u, l, i)' <=> WritesAt(u, l, i)
        /\ \A l \in Locks, i \in Nat :
              /\ HoldsAt(t, l, i) => HoldsAt(t, l, i)'
              /\ WritesAt(t, l, i) => WritesAt(t, l, i)'
              /\ i = Depth(t) /\ l = m => HoldsAt(t, l, i)'
              /\ i = Depth(t) /\ l = m /\ Top(t).write => WritesAt(t, l, i)'
              /\ HoldsAt(t, l, i)' => HoldsAt(t, l, i) \/ (i = Depth(t) /\ l = m)
              /\ WritesAt(t, l, i)' => \/ WritesAt(t, l, i)
                                       \/ i = Depth(t) /\ l = m /\ Top(t).write
    BY <1>0, GrantTop DEF Acquired
  <1>2. /\ excl[m] = {} /\ (Top(t).write => shar[m] = {})
        /\ excl' = IF Top(t).write THEN [excl EXCEPT ![m] = @ \cup {t}] ELSE excl
        /\ shar' = IF Top(t).write THEN shar ELSE [shar EXCEPT ![m] = @ \cup {t}]
    BY <1>c DEF Acquired, AcquireSRW, CanAcquireSRW
  <1>3. /\ excl' \in [Locks -> SUBSET Threads]
        /\ shar' \in [Locks -> SUBSET Threads]
        /\ \A l \in Locks \ {m} : excl'[l] = excl[l] /\ shar'[l] = shar[l]
        /\ Top(t).write => excl'[m] = {t} /\ shar'[m] = {}
        /\ ~Top(t).write => excl'[m] = {} /\ shar'[m] = shar[m] \cup {t}
    <2>1. CASE Top(t).write
      BY <1>0, <1>2, <2>1 DEF TypeOK
    <2>2. CASE ~Top(t).write
      BY <1>0, <1>2, <2>2 DEF TypeOK
    <2> QED
      BY <2>1, <2>2
  <1>4. TypeOK'
    BY <1>1, <1>3 DEF IndInv, TypeOK, Acquired
  <1>5. NativeExclusion'
    BY <1>0, <1>3 DEF IndInv, NativeExclusion
  <1>6. \A u \in Threads, l \in Locks :
          /\ u \in excl[l] <=> \E i \in Nat : WritesAt(u, l, i)
          /\ u \in shar[l] <=> /\ \E i \in Nat : HoldsAt(u, l, i)
                               /\ \A i \in Nat : ~WritesAt(u, l, i)
    BY <1>0 DEF IndInv, NativeModeMatches, WritesAt, HoldsAt
  <1>7. \A i \in Nat : ~WritesAt(t, m, i)
    BY <1>0, <1>2, <1>6
  <1>8. \A i \in Nat : ~HoldsAt(t, m, i)
    <2> SUFFICES ASSUME NEW i \in Nat, HoldsAt(t, m, i)
                 PROVE  FALSE
      OBVIOUS
    <2>1. i \in 1 .. Depth(t) - 1
      BY <1>0 DEF HoldsAt, Top
    <2>2. i \in OtherLocked(t)
      BY <1>c, <2>1 DEF OtherLocked
    <2>3. Top(t).write
      BY <1>0, <2>2 DEF Reentrant
    <2> QED
      BY <1>2, <1>6, <1>7, <1>0, <2>3
  <1>9. NativeModeMatches'
    <2>1. SUFFICES
            ASSUME NEW u \in Threads, NEW l \in Locks
            PROVE  /\ u \in excl'[l] <=> \E i \in Nat : WritesAt(u, l, i)'
                   /\ u \in shar'[l] <=> /\ \E i \in Nat : HoldsAt(u, l, i)'
                                         /\ \A i \in Nat : ~WritesAt(u, l, i)'
      BY <1>0 DEF NativeModeMatches, WritesAt, HoldsAt
    <2>2. CASE u # t
      <3>1. (u \in excl'[l] <=> u \in excl[l]) /\ (u \in shar'[l] <=> u \in shar[l])
        BY <1>0, <1>2, <1>3, <2>2
      <3> QED
        BY <1>1, <1>6, <2>2, <3>1
    <2>3. CASE u = t /\ l # m
      BY <1>1, <1>3, <1>6, <2>3
    <2>4. CASE u = t /\ l = m
      <3>1. \E i \in Nat : HoldsAt(t, m, i)'
        BY <1>0, <1>1
      <3>2. Top(t).write => \E i \in Nat : WritesAt(t, m, i)'
        BY <1>0, <1>1
      <3>3. ~Top(t).write => \A i \in Nat : ~WritesAt(t, m, i)'
        BY <1>0, <1>1, <1>7
      <3> QED
        BY <1>3, <2>4, <3>1, <3>2, <3>3
    <2> QED
      BY <2>2, <2>3, <2>4
  <1>10. WritesOutermost'
    <2> SUFFICES ASSUME NEW u \in Threads, NEW l \in Locks,
                        NEW j \in 1 .. Depth(u), WritesAt(u, l, j)'
                 PROVE  \/ \A i \in 1 .. j - 1 : ~HoldsAt(u, l, i)'
                        \/ \E i \in 1 .. j - 1 : WritesAt(u, l, i)'
      BY <1>1 DEF WritesOutermost
    <2>1. CASE u # t
      BY <1>0, <1>1, <2>1 DEF IndInv, WritesOutermost
    <2>2. CASE u = t /\ l = m
      BY <1>0, <1>1, <1>8, <2>2
    <2>3. CASE u = t /\ l # m
      BY <1>0, <1>1, <2>3 DEF IndInv, WritesOutermost
    <2> QED
      BY <2>1, <2>2, <2>3
  <1>11. InLockCode'
    <2>1. \A u \in Threads \ {t} : pc'[u] = pc[u]
      BY DEF Acquired, IndInv, TypeOK
    <2>2. pc'[t] = "run"
      BY DEF Acquired, IndInv, TypeOK
    <2> QED
      BY <1>1, <2>1, <2>2, OthersInLockCode DEF InLockCode
  <1> QED
    BY <1>4, <1>5, <1>9, <1>10, <1>11 DEF IndInv

-----------------------------------------------------------------------------
LEMMA InitIndInv == Init => IndInv
  BY DEF Init, IndInv, TypeOK, NativeExclusion, NativeModeMatches,
         WritesOutermost, InLockCode, HoldsAt, WritesAt, Depth

LEMMA StutterKeeps == IndInv /\ UNCHANGED vars => IndInv'
  BY DEF IndInv, TypeOK, NativeExclusion, NativeModeMatches, WritesOutermost,
         InLockCode, Reentrant, OtherLocked, HoldsAt, WritesAt, Top, Depth, vars

LEMMA NextKeeps == IndInv /\ Next => IndInv'
  <1> SUFFICES ASSUME IndInv, Next
               PROVE  IndInv'
    OBVIOUS
  <1>1. PICK t \in Threads :
           \/ \E l \in Locks, w, g \in BOOLEAN : Construct(t, l, w, g)
           \/ \E w \in BOOLEAN : Lock(t, w)
           \/ LockCode(t)
           \/ Unlock(t)
           \/ Destruct(t)
    BY DEF Next
  <1>2. CASE \E l \in Locks, w, g \in BOOLEAN : Construct(t, l, w, g)
    BY <1>2, ConstructKeeps
  <1>3. CASE \E w \in BOOLEAN : Lock(t, w)
    BY <1>3, LockKeeps
  <1>4. CASE LockCode(t)
    BY <1>4, LockReentrantKeeps, LockNativeKeeps, AcquiredKeeps DEF LockCode
  <1>5. CASE Unlock(t)
    BY <1>5, UnlockKeeps
  <1>6. CASE Destruct(t)
    BY <1>6, DestructKeeps
  <1> QED
    BY <1>1, <1>2, <1>3, <1>4, <1>5, <1>6

(* The inductive invariant holds for every client of the class that uses   *)
(* its objects as scoped locals, with any number of threads and locks.     *)
THEOREM Inductive == Spec => []IndInv
  BY InitIndInv, NextKeeps, StutterKeeps, PTL DEF Spec

(* CRWLockAcquire gives its callers mutual exclusion: a locked write       *)
(* object of one thread excludes the locked objects of all others.         *)
THEOREM MutualExclusionHolds == Spec => []MutualExclusion
  <1>1. IndInv => MutualExclusion
    <2> SUFFICES ASSUME IndInv, NEW l \in Locks, NEW t \in Threads, NEW u \in Threads,
                        NEW i \in 1 .. Depth(t), NEW j \in 1 .. Depth(u),
                        WritesAt(t, l, i), HoldsAt(u, l, j)
                 PROVE  t = u
      BY DEF MutualExclusion
    <2>1. t \in excl[l]
      BY DEF IndInv, NativeModeMatches
    <2>2. u \in excl[l] \cup shar[l]
      BY DEF IndInv, NativeModeMatches
    <2> QED
      BY <2>1, <2>2 DEF IndInv, NativeExclusion
  <1> QED
    BY <1>1, Inductive, PTL

(* Unlock() releases the SRWLOCK in the mode it was taken in: the native   *)
(* mode always is the one the thread's locked objects need.                *)
THEOREM NativeModeHolds == Spec => []NativeModeMatches
  <1>1. IndInv => NativeModeMatches
    BY DEF IndInv
  <1> QED
    BY <1>1, Inductive, PTL

(* The scan in Lock() leaves one way to block on one's own lock, the read  *)
(* to write upgrade that the code asserts against.                         *)
THEOREM SelfBlockHolds == Spec => []OnlyUpgradeSelfBlocks
  <1>1. IndInv => OnlyUpgradeSelfBlocks
    <2> SUFFICES ASSUME IndInv, NEW t \in Threads, pc[t] = "acquire",
                        t \in excl[Top(t).lock] \cup shar[Top(t).lock]
                 PROVE  t \in shar[Top(t).lock] /\ Top(t).write
      BY DEF OnlyUpgradeSelfBlocks
    <2> DEFINE m == Top(t).lock
    <2>a. Depth(t) > 0 /\ ~Top(t).locked /\ ~Reentrant(t)
      BY DEF IndInv, InLockCode
    <2>b. Top(t) \in Frame /\ Depth(t) \in Nat
      BY <2>a DEF IndInv, TypeOK, Depth, Top
    <2>1. /\ Depth(t) \in Nat /\ Depth(t) > 0 /\ ~Top(t).locked /\ ~Reentrant(t)
          /\ m \in Locks
      BY <2>a, <2>b DEF Frame
    <2> HIDE DEF m
    <2>2. PICK i \in 1 .. Depth(t) : HoldsAt(t, m, i)
      BY <2>1 DEF IndInv, NativeModeMatches, WritesAt, m
    <2>3. i \in OtherLocked(t)
      BY <2>1, <2>2 DEF OtherLocked, HoldsAt, Top, m
    <2>4. Top(t).write /\ \A k \in OtherLocked(t) : ~frames[t][k].write
      BY <2>1, <2>3 DEF Reentrant
    <2>5. \A k \in 1 .. Depth(t) : ~WritesAt(t, m, k)
      BY <2>1, <2>4 DEF OtherLocked, WritesAt, HoldsAt, Top, m
    <2> QED
      BY <2>1, <2>4, <2>5 DEF IndInv, NativeModeMatches, m
  <1> QED
    BY <1>1, Inductive, PTL

-----------------------------------------------------------------------------
(* The discipline of the lock's users.                                     *)

OrderInv == IndInv /\ AsksUpward

-----------------------------------------------------------------------------
LEMMA SmallestNat ==
    ASSUME NEW T, T \subseteq Nat, T # {}
    PROVE  \E x \in T : \A y \in T : ~(y < x)
  <1>1. \E x \in T : \A y \in T : ~(<<y, x>> \in OpToRel(<, Nat))
    BY NatLessThanWellFounded, WFMin
  <1>2. \A x, y \in Nat : y < x => <<y, x>> \in OpToRel(<, Nat)
    BY DEF OpToRel
  <1> QED
    BY <1>1, <1>2

(* A thread that is not the one that moves asks for what it asked before.  *)
LEMMA OthersAskUpward ==
    ASSUME AsksUpward, NEW t \in Threads, NEW u \in Threads \ {t},
           frames'[u] = frames[u], pc'[u] = pc[u]
    PROVE  /\ pc'[u] = "scan" =>
                \/ Reentrant(u)'
                \/ \A i \in 1 .. Depth(u)' - 1 :
                     frames'[u][i].locked => Rank[frames'[u][i].lock] < Rank[Top(u)'.lock]
           /\ pc'[u] = "acquire" =>
                \A i \in 1 .. Depth(u)' - 1 :
                  frames'[u][i].locked => Rank[frames'[u][i].lock] < Rank[Top(u)'.lock]
  BY DEF AsksUpward, Depth, Top, Reentrant, OtherLocked, HoldsAt

LEMMA OrderedNextKeeps == OrderInv /\ OrderedNext => OrderInv'
  <1> SUFFICES ASSUME OrderInv, OrderedNext
               PROVE  OrderInv'
    OBVIOUS
  <1>1. OrderedNext => Next
    BY DEF OrderedNext, Next, Enter
  <1>2. IndInv'
    BY <1>1, NextKeeps DEF OrderInv
  <1>3. PICK t \in Threads :
           \/ \E l \in Locks, w \in BOOLEAN : Enter(t, l, w)
           \/ LockCode(t)
           \/ Destruct(t)
    BY DEF OrderedNext
  <1>0. TypeOK /\ Depth(t) \in Nat
    BY DEF OrderInv, IndInv, TypeOK, Depth
  <1>4. CASE \E l \in Locks, w \in BOOLEAN : Enter(t, l, w)
    <2> PICK l \in Locks, w \in BOOLEAN : Enter(t, l, w)
      BY <1>4
    <2> DEFINE f == [lock |-> l, write |-> w, locked |-> FALSE]
    <2>1. f \in Frame
      BY DEF Frame
    <2>2. /\ \A u \in Threads \ {t} : frames'[u] = frames[u]
          /\ Depth(t)' = Depth(t) + 1
          /\ Top(t)' = f
          /\ \A i \in 1 .. Depth(t) : frames'[t][i] = frames[t][i]
      BY <1>0, <2>1, PushFrames DEF Enter, Construct
    <2>3. /\ pc'[t] = "scan"
          /\ \A u \in Threads \ {t} : pc'[u] = pc[u]
      BY <1>0 DEF Enter, Construct, TypeOK
    <2>4. \/ Reentrant(t)'
          \/ \A i \in 1 .. Depth(t) : frames'[t][i].locked => Rank[frames'[t][i].lock] < Rank[l]
      <3>1. CASE \E i \in 1 .. Depth(t) : HoldsAt(t, l, i) /\ (w => frames[t][i].write)
        <4>1. PICK i \in 1 .. Depth(t) : HoldsAt(t, l, i) /\ (w => frames[t][i].write)
          BY <3>1
        <4>2. i \in OtherLocked(t)'
          BY <1>0, <2>2, <4>1 DEF OtherLocked, HoldsAt
        <4>3. Top(t)'.write => frames'[t][i].write
          BY <2>2, <4>1
        <4> QED
          BY <4>2, <4>3 DEF Reentrant
      <3>2. CASE \A i \in 1 .. Depth(t) : frames[t][i].locked => Rank[frames[t][i].lock] < Rank[l]
        BY <2>2, <3>2
      <3> QED
        BY <3>1, <3>2 DEF Enter, Permitted
    <2>5. AsksUpward'
      BY <1>0, <2>2, <2>3, <2>4, OthersAskUpward DEF AsksUpward, OrderInv
    <2> QED
      BY <1>2, <2>5 DEF OrderInv
  <1>5. CASE LockReentrant(t)
    <2>1. /\ pc'[t] = "run"
          /\ \A u \in Threads \ {t} : pc'[u] = pc[u] /\ frames'[u] = frames[u]
      BY <1>0, <1>5 DEF LockReentrant, SetTop, TypeOK
    <2>2. AsksUpward'
      BY <2>1, OthersAskUpward DEF AsksUpward, OrderInv
    <2> QED
      BY <1>2, <2>2 DEF OrderInv
  <1>6. CASE LockNative(t)
    <2>1. /\ pc[t] = "scan" /\ ~Reentrant(t) /\ pc'[t] = "acquire"
          /\ frames' = frames
          /\ \A u \in Threads \ {t} : pc'[u] = pc[u]
      BY <1>0, <1>6 DEF LockNative, TypeOK
    <2>2. \A i \in 1 .. Depth(t) - 1 :
             frames[t][i].locked => Rank[frames[t][i].lock] < Rank[Top(t).lock]
      BY <2>1 DEF AsksUpward, OrderInv
    <2>3. \A i \in 1 .. Depth(t)' - 1 :
             frames'[t][i].locked => Rank[frames'[t][i].lock] < Rank[Top(t)'.lock]
      BY <2>1, <2>2 DEF Depth, Top
    <2>4. AsksUpward'
      BY <2>1, <2>3, OthersAskUpward DEF AsksUpward, OrderInv
    <2> QED
      BY <1>2, <2>4 DEF OrderInv
  <1>7. CASE Acquired(t)
    <2>1. /\ pc'[t] = "run"
          /\ \A u \in Threads \ {t} : pc'[u] = pc[u] /\ frames'[u] = frames[u]
      BY <1>0, <1>7 DEF Acquired, SetTop, TypeOK
    <2>2. AsksUpward'
      BY <2>1, OthersAskUpward DEF AsksUpward, OrderInv
    <2> QED
      BY <1>2, <2>2 DEF OrderInv
  <1>8. CASE Destruct(t)
    <2>1. /\ pc'[t] = "run"
          /\ \A u \in Threads \ {t} : pc'[u] = pc[u] /\ frames'[u] = frames[u]
      BY <1>0, <1>8 DEF Destruct, TypeOK
    <2>2. AsksUpward'
      BY <2>1, OthersAskUpward DEF AsksUpward, OrderInv
    <2> QED
      BY <1>2, <2>2 DEF OrderInv
  <1> QED
    BY <1>3, <1>4, <1>5, <1>6, <1>7, <1>8 DEF LockCode

LEMMA OrderedStutterKeeps == OrderInv /\ UNCHANGED vars => OrderInv'
  <1> SUFFICES ASSUME OrderInv, UNCHANGED vars
               PROVE  OrderInv'
    OBVIOUS
  <1>1. IndInv'
    BY StutterKeeps DEF OrderInv
  <1>2. AsksUpward'
    BY DEF OrderInv, AsksUpward, Reentrant, OtherLocked, HoldsAt, Top, Depth, vars
  <1> QED
    BY <1>1, <1>2 DEF OrderInv

(* Along a wait, the pair (rank of the lock, reader before writer) grows,  *)
(* so Urgency, which counts down from the last lock, shrinks.              *)
Urgency(t) == 2 * (MaxRank - Rank[Top(t).lock]) + (IF Top(t).write THEN 0 ELSE 1)

LEMMA WaitsUpward ==
    ASSUME OrderInv, NEW t \in Threads, NEW u \in Threads,
           WaitsFor(t, u), pc[u] = "acquire"
    PROVE  /\ Urgency(t) \in Nat
           /\ Urgency(u) \in Nat
           /\ Urgency(u) < Urgency(t)
  <1>1. \A v \in Threads : pc[v] = "acquire" =>
           /\ Depth(v) \in Nat /\ Depth(v) > 0 /\ ~Top(v).locked
           /\ Top(v) \in Frame
    BY DEF OrderInv, IndInv, TypeOK, InLockCode, Depth, Top
  <1>2. pc[t] = "acquire"
    BY DEF WaitsFor
  <1>3. /\ Top(t).lock \in Locks /\ Top(u).lock \in Locks
        /\ Top(t).write \in BOOLEAN /\ Top(u).write \in BOOLEAN
    BY <1>1, <1>2 DEF Frame
  <1>4. /\ MaxRank \in Nat
        /\ Rank[Top(t).lock] \in 0 .. MaxRank
        /\ Rank[Top(u).lock] \in 0 .. MaxRank
    BY <1>3, RankAssumption
  <1>5. Urgency(t) \in Nat /\ Urgency(u) \in Nat
    BY <1>4 DEF Urgency
  <1>6. CASE u \in excl[Top(t).lock] \cup shar[Top(t).lock]
    <2>1. PICK i \in 1 .. Depth(u) : HoldsAt(u, Top(t).lock, i)
      BY <1>3, <1>6 DEF OrderInv, IndInv, NativeModeMatches, WritesAt
    <2>2. i \in 1 .. Depth(u) - 1
      BY <1>1, <2>1 DEF HoldsAt, Top
    <2>3. Rank[Top(t).lock] < Rank[Top(u).lock]
      BY <2>1, <2>2 DEF OrderInv, AsksUpward, HoldsAt
    <2> QED
      BY <1>4, <1>5, <2>3 DEF Urgency
  <1>7. CASE ~Top(t).write /\ Top(u).lock = Top(t).lock /\ Top(u).write
    BY <1>4, <1>5, <1>7 DEF Urgency
  <1> QED
    BY <1>5, <1>6, <1>7 DEF WaitsFor

LEMMA OrderInvNoDeadlock == OrderInv => NoDeadlock
  <1> SUFFICES ASSUME OrderInv, NEW S \in SUBSET Threads, S # {},
                      \A t \in S : \E u \in S : WaitsFor(t, u)
               PROVE  FALSE
    BY DEF NoDeadlock
  <1>1. \A t \in S : pc[t] = "acquire"
    BY DEF WaitsFor
  <1> DEFINE T == {Urgency(t) : t \in S}
  <1>2. T \subseteq Nat
    BY <1>1, WaitsUpward
  <1>3. PICK x \in T : \A y \in T : ~(y < x)
    BY <1>2, SmallestNat
  <1>4. PICK t \in S : x = Urgency(t)
    OBVIOUS
  <1>5. PICK u \in S : WaitsFor(t, u)
    OBVIOUS
  <1>6. Urgency(u) < Urgency(t)
    BY <1>1, <1>5, WaitsUpward
  <1> QED
    BY <1>3, <1>4, <1>6

(* Code that takes its locks in order and never upgrades a read lock, as   *)
(* the pool does ("always lock pool first, then msg"), does not deadlock.  *)
THEOREM NoDeadlockHolds == OrderedSpec => []NoDeadlock
  <1>1. Init => OrderInv
    BY InitIndInv DEF Init, OrderInv, AsksUpward
  <1> QED
    BY <1>1, OrderedNextKeeps, OrderedStutterKeeps, OrderInvNoDeadlock, PTL DEF OrderedSpec

(* The discipline keeps the lock's mutual exclusion.                       *)
THEOREM OrderedMutualExclusion == OrderedSpec => []MutualExclusion
  <1>1. [OrderedNext]_vars => [Next]_vars
    BY DEF OrderedNext, Next, Enter
  <1>2. OrderedSpec => Spec
    BY <1>1, PTL DEF OrderedSpec, Spec
  <1> QED
    BY <1>2, MutualExclusionHolds, PTL

-----------------------------------------------------------------------------
(* The end of CSimpleWorkerThread.                                         *)
(*                                                                         *)
(* KillThreadWait decides by members that it reads without csWorkEvent.    *)
(* What makes it right is UnlockedReads: the thread clears each of them    *)
(* only in its last critical section, and every other step that clears one *)
(* (KillThreadWait's own deletion, the destructor) follows such a decision.*)

USE DEF None, Worker

(* A freshly constructed object satisfies the invariant.                   *)
LEMMA InitInv == ThreadInit => WorkerInv
<1> SUFFICES ASSUME ThreadInit PROVE WorkerInv
  OBVIOUS
<1> USE DEF ThreadInit
<1>1. ThreadTypeOK
  BY CallerAssumption DEF ThreadTypeOK
<1>2. /\ UnlockedReads /\ InsideLast /\ TermWhileActive /\ AfterWaitNoWork
      /\ DestroyedAfterEnd
  BY DEF UnlockedReads, InsideLast, TermWhileActive, AfterWaitNoWork, Ended,
         DestroyedAfterEnd, NotUsedWhenFreed
<1> QED
  BY <1>1, <1>2 DEF WorkerInv

(* CreateThread, StartWork, KillThread and the termination events.         *)
LEMMA UseInv ==
  ASSUME WorkerInv,
         \/ \E result \in {"created", "no handle", "no thread"} : CreateThread(result)
         \/ StartWork
         \/ KillThread
         \/ \E c \in Callers : AddTermEvent(c) \/ RemoveTermEvent({c})
         \/ RemoveTermEvent(Callers)
  PROVE  WorkerInv'
<1> USE DEF WorkerInv, Locked
<1>1. ASSUME NEW result \in {"created", "no handle", "no thread"}, CreateThread(result)
      PROVE  WorkerInv'
  <2> USE <1>1 DEF CreateThread
  <2>1. ThreadTypeOK'
    BY DEF ThreadTypeOK
  <2>2. UnlockedReads' /\ InsideLast' /\ TermWhileActive' /\ DestroyedAfterEnd'
    BY DEF ThreadTypeOK, UnlockedReads, InsideLast, TermWhileActive, Ended,
           DestroyedAfterEnd, NotUsedWhenFreed
  <2>3. AfterWaitNoWork'
    BY DEF ThreadTypeOK, AfterWaitNoWork
  <2> QED
    BY <2>1, <2>2, <2>3
<1>2. ASSUME StartWork
      PROVE  WorkerInv'
  <2>1. ThreadTypeOK'
    <3>1. started \in Nat /\ started' = started + 1
      BY <1>2, Zenon DEF StartWork, ThreadTypeOK
    <3>2. started' \in Nat
      BY ONLY <3>1
    <3>3. work' \in {"null", "clear", "set"}
      BY <1>2 DEF StartWork, SetWorkEvent, ThreadTypeOK
    <3> QED
      BY <1>2, <3>2, <3>3, Zenon DEF StartWork, ThreadTypeOK
  <2>2. UnlockedReads' /\ InsideLast' /\ TermWhileActive' /\ DestroyedAfterEnd'
    BY <1>2 DEF StartWork, SetWorkEvent, ThreadTypeOK, UnlockedReads, InsideLast,
                TermWhileActive, Ended, DestroyedAfterEnd, NotUsedWhenFreed
  <2>3. AfterWaitNoWork'
    BY <1>2 DEF StartWork, ThreadTypeOK, AfterWaitNoWork
  <2> QED
    BY <2>1, <2>2, <2>3
<1>3. ASSUME KillThread
      PROVE  WorkerInv'
  <2> USE <1>3 DEF KillThread, KillThreadEffect, SetWorkEvent
  <2>1. ThreadTypeOK'
    BY DEF ThreadTypeOK
  <2>2. UnlockedReads' /\ InsideLast' /\ TermWhileActive' /\ DestroyedAfterEnd'
    BY DEF ThreadTypeOK, UnlockedReads, InsideLast, TermWhileActive, Ended,
           DestroyedAfterEnd, NotUsedWhenFreed
  <2>3. AfterWaitNoWork'
    BY DEF ThreadTypeOK, AfterWaitNoWork
  <2> QED
    BY <2>1, <2>2, <2>3
<1>4. ASSUME NEW c \in Callers, AddTermEvent(c)
      PROVE  WorkerInv'
  <2> USE <1>4 DEF AddTermEvent
  <2>1. ThreadTypeOK'
    BY DEF ThreadTypeOK, IfActive
  <2>2. UnlockedReads' /\ InsideLast' /\ TermWhileActive' /\ DestroyedAfterEnd'
    BY DEF ThreadTypeOK, UnlockedReads, InsideLast, TermWhileActive, Ended,
           DestroyedAfterEnd, NotUsedWhenFreed, IfActive
  <2>3. AfterWaitNoWork'
    BY DEF ThreadTypeOK, AfterWaitNoWork, IfActive
  <2> QED
    BY <2>1, <2>2, <2>3
<1>5. ASSUME NEW S \in SUBSET Callers, RemoveTermEvent(S)
      PROVE  WorkerInv'
  <2> USE <1>5 DEF RemoveTermEvent
  <2>1. ThreadTypeOK'
    BY DEF ThreadTypeOK
  <2>2. UnlockedReads' /\ InsideLast' /\ TermWhileActive' /\ DestroyedAfterEnd'
    BY DEF ThreadTypeOK, UnlockedReads, InsideLast, TermWhileActive, Ended,
           DestroyedAfterEnd, NotUsedWhenFreed
  <2>3. AfterWaitNoWork'
    BY DEF ThreadTypeOK, AfterWaitNoWork
  <2> QED
    BY <2>1, <2>2, <2>3
<1> QED
  BY <1>1, <1>2, <1>3, <1>4, <1>5

(* The steps of KillThreadWait, and the destructor after it.               *)
LEMMA KillInv ==
  ASSUME WorkerInv,
         \/ \E c \in Callers, b \in BOOLEAN : KillWaitEnter(c, b)
         \/ \E c \in Callers : KillWaitStep(c)
         \/ Destroy
         \/ DestroyEvents
  PROVE  WorkerInv'
<1> USE DEF WorkerInv, UnchangedByWait
<1>1. ASSUME NEW c \in Callers, NEW b \in BOOLEAN, KillWaitEnter(c, b)
      PROVE  WorkerInv'
  <2> USE <1>1 DEF KillWaitEnter, Idle
  <2>1. ThreadTypeOK'
    BY DEF ThreadTypeOK
  <2>2. UnlockedReads' /\ InsideLast'
    BY DEF ThreadTypeOK, UnlockedReads, InsideLast, Ended
  <2>3. TermWhileActive' /\ DestroyedAfterEnd'
    BY DEF ThreadTypeOK, TermWhileActive, Ended, DestroyedAfterEnd, NotUsedWhenFreed
  <2>4. AfterWaitNoWork'
    BY DEF ThreadTypeOK, UnlockedReads, AfterWaitNoWork, Ended
  <2> QED
    BY <2>1, <2>2, <2>3, <2>4
<1>2. ASSUME NEW c \in Callers, KillWaitKill(c)
      PROVE  WorkerInv'
  <2> USE <1>2 DEF KillWaitKill, KillThreadEffect, SetWorkEvent, Locked
  <2>1. ThreadTypeOK'
    BY DEF ThreadTypeOK
  <2>2. UnlockedReads' /\ InsideLast'
    BY DEF ThreadTypeOK, UnlockedReads, InsideLast, Ended
  <2>3. TermWhileActive' /\ DestroyedAfterEnd'
    BY DEF ThreadTypeOK, TermWhileActive, Ended, DestroyedAfterEnd, NotUsedWhenFreed
  <2>4. AfterWaitNoWork'
    BY DEF ThreadTypeOK, UnlockedReads, AfterWaitNoWork, Ended
  <2> QED
    BY <2>1, <2>2, <2>3, <2>4
<1>3. ASSUME NEW c \in Callers, KillWaitLock(c)
      PROVE  WorkerInv'
  <2> USE <1>3 DEF KillWaitLock
  <2>1. ThreadTypeOK'
    BY DEF ThreadTypeOK
  <2>2. UnlockedReads' /\ InsideLast'
    BY DEF ThreadTypeOK, UnlockedReads, InsideLast, Ended
  <2>3. TermWhileActive' /\ DestroyedAfterEnd'
    BY DEF ThreadTypeOK, TermWhileActive, Ended, DestroyedAfterEnd, NotUsedWhenFreed
  <2>4. AfterWaitNoWork'
    BY DEF ThreadTypeOK, UnlockedReads, AfterWaitNoWork, Ended
  <2> QED
    BY <2>1, <2>2, <2>3, <2>4
<1>4. ASSUME NEW c \in Callers, KillWaitEnds(c)
      PROVE  WorkerInv'
  <2> USE <1>4 DEF KillWaitEnds, IfActive
  <2>1. ThreadTypeOK'
    <3>1. hThread' \in BOOLEAN
      BY Zenon DEF ThreadTypeOK
    <3>2. call' \in [Callers -> {"idle", "kill", "lock", "wait", "delete", "returned"}]
      BY DEF ThreadTypeOK
    <3> QED
      BY <3>1, <3>2, ZenonT(30) DEF ThreadTypeOK
  <2>2. UnlockedReads' /\ InsideLast'
    BY DEF ThreadTypeOK, UnlockedReads, InsideLast, Ended
  <2>3. TermWhileActive' /\ DestroyedAfterEnd'
    BY DEF ThreadTypeOK, TermWhileActive, Ended, DestroyedAfterEnd, NotUsedWhenFreed
  <2>4. AfterWaitNoWork'
    BY DEF ThreadTypeOK, UnlockedReads, AfterWaitNoWork, Ended
  <2> QED
    BY <2>1, <2>2, <2>3, <2>4
<1>5. ASSUME NEW c \in Callers, KillWaitDelete(c)
      PROVE  WorkerInv'
  <2> USE <1>5 DEF KillWaitDelete, Locked
  <2>1. ThreadTypeOK'
    BY DEF ThreadTypeOK
  <2>2. UnlockedReads' /\ InsideLast'
    BY DEF ThreadTypeOK, UnlockedReads, InsideLast, AfterWaitNoWork, Ended
  <2>3. TermWhileActive' /\ DestroyedAfterEnd'
    BY DEF ThreadTypeOK, TermWhileActive, Ended, DestroyedAfterEnd, NotUsedWhenFreed
  <2>4. AfterWaitNoWork'
    BY DEF ThreadTypeOK, UnlockedReads, AfterWaitNoWork, Ended
  <2> QED
    BY <2>1, <2>2, <2>3, <2>4
<1>6. CASE Destroy
  BY <1>6, CallerAssumption
     DEF Destroy, Idle, ThreadTypeOK, UnlockedReads, InsideLast, TermWhileActive,
         AfterWaitNoWork, Ended, DestroyedAfterEnd, NotUsedWhenFreed
<1>7. CASE DestroyEvents
  BY <1>7
     DEF DestroyEvents, ThreadTypeOK, UnlockedReads, InsideLast, TermWhileActive,
         AfterWaitNoWork, Ended, DestroyedAfterEnd, NotUsedWhenFreed
<1> QED
  BY <1>1, <1>2, <1>3, <1>4, <1>5, <1>6, <1>7, Zenon DEF KillWaitStep

(* The steps of ThreadProc.                                                *)
LEMMA ThreadInv ==
  ASSUME WorkerInv, ThreadStep
  PROVE  WorkerInv'
<1> USE DEF WorkerInv, ThreadTypeOK, UnlockedReads, InsideLast, TermWhileActive,
            AfterWaitNoWork, Ended, DestroyedAfterEnd, NotUsedWhenFreed,
            UnchangedByThread
<1>1. CASE \E ok \in BOOLEAN : InitInstance(ok)
  BY <1>1 DEF InitInstance
<1>2. CASE LoopTest
  BY <1>2 DEF LoopTest
<1>3. CASE WaitReturns
  BY <1>3 DEF WaitReturns
<1>4. CASE DoWork
  BY <1>4 DEF DoWork
<1>5. CASE ExitInstance
  BY <1>5 DEF ExitInstance
<1>6. CASE FinalEvent
  BY <1>6 DEF FinalEvent
<1>7. CASE FinalThread
  BY <1>7 DEF FinalThread
<1>8. CASE FinalRunning
  BY <1>8 DEF FinalRunning
<1>9. CASE FinalSignal
  BY <1>9 DEF FinalSignal
<1> QED
  BY <1>1, <1>2, <1>3, <1>4, <1>5, <1>6, <1>7, <1>8, <1>9 DEF ThreadStep

(* The invariant of the object and its thread holds of every behaviour.    *)
THEOREM WorkerInductive == ThreadSpec => []WorkerInv
<1>1. WorkerInv /\ [ThreadNext]_threadVars => WorkerInv'
  <2> SUFFICES ASSUME WorkerInv, [ThreadNext]_threadVars PROVE WorkerInv'
    OBVIOUS
  <2>1. CASE ThreadNext
    BY <2>1, UseInv, KillInv, ThreadInv DEF ThreadNext
  <2>2. CASE UNCHANGED threadVars
    BY <2>2 DEF threadVars, WorkerInv, ThreadTypeOK, UnlockedReads, InsideLast,
                TermWhileActive, AfterWaitNoWork, Ended, DestroyedAfterEnd,
                NotUsedWhenFreed
  <2> QED
    BY <2>1, <2>2
<1> QED
  BY <1>1, InitInv, PTL DEF ThreadSpec

(* After KillThreadWait the thread no longer runs the derived class's code *)
(* (DoWork, ExitInstance), for any number of concurrent callers.           *)
THEOREM AfterWaitNoWorkHolds == ThreadSpec => []AfterWaitNoWork
  BY WorkerInductive, PTL DEF WorkerInv

(* ThreadProc never meets a deleted m_pWorkEvent.                          *)
THEOREM EventWhileWaitingHolds == ThreadSpec => []EventWhileWaiting
<1>1. WorkerInv => EventWhileWaiting
  BY DEF WorkerInv, ThreadTypeOK, UnlockedReads, Ended, EventWhileWaiting
<1> QED
  BY <1>1, WorkerInductive, PTL

(* Every event that AddTermEvent accepted has been signalled at the end.   *)
THEOREM NoLostTerminationHolds == ThreadSpec => []NoLostTermination
<1>1. WorkerInv => NoLostTermination
  BY DEF WorkerInv, TermWhileActive, NoLostTermination
<1> QED
  BY <1>1, WorkerInductive, PTL

(* The thread does not use the object's memory after it is freed.          *)
THEOREM NotUsedWhenFreedHolds == ThreadSpec => []NotUsedWhenFreed
  BY WorkerInductive, PTL DEF WorkerInv, DestroyedAfterEnd
=============================================================================
