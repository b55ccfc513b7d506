----------------------------- MODULE SharedQueue ----------------------------
(***************************************************************************)
(* CSharedQueue (CSharedQueue.h, CSharedQueue.cpp): the thread-safe list   *)
(* that feeds the data streams and the thread pools, its size limit, and   *)
(* the events that it signals.                                             *)
(*                                                                         *)
(* Every member takes rwlQueue, so a member is one step (RWLock and its    *)
(* proofs are about that lock).  A push with a size limit is several: the  *)
(* limit is tested, and waited for, before the lock is taken to push.      *)
(***************************************************************************)
EXTENDS Integers, Sequences, FiniteSets

CONSTANTS Producers,      \* threads that push with a size limit
          Readers,        \* events linked for PUSH with SetAllEvents()
          MaxQueueSize,   \* dwMaxQueueSize of the pushes
          Items,          \* what is queued
          MaxAborts       \* bound on the pushes that an abort lets through

ASSUME QueueAssumption ==
    /\ IsFiniteSet(Producers)
    /\ MaxQueueSize \in Nat \ {0}
    /\ MaxAborts \in Nat
    /\ Producers \cap Readers = {}

VARIABLES queue,          \* the std::list
          prod,           \* where each producer is in its push
          linked,         \* producers whose QueueEvent is in EventList
          signalled,      \* events (of producers and readers) that are set
          aborts          \* pushes that TestAbort has let through so far

queueVars == <<queue, prod, linked, signalled, aborts>>

QueueTypeOK ==
    /\ queue \in Seq(Items)
    /\ prod \in [Producers -> {"idle", "full", "test", "sleep", "push"}]
    /\ linked \in SUBSET Producers
    /\ signalled \in SUBSET (Producers \cup Readers)
    /\ aborts \in Nat

QueueInit ==
    /\ queue = << >>
    /\ prod = [p \in Producers |-> "idle"]
    /\ linked = {}
    /\ signalled = {}
    /\ aborts = 0

-----------------------------------------------------------------------------
(* size() > dwMaxQueueSize, under the read lock.                           *)
OverLimit == Len(queue) > MaxQueueSize

(* Seeded fault: a waiting producer is told only below its count.          *)
TriggeredBelow(count, op) ==
    {p \in linked : count < MaxQueueSize} \cup (IF op = "PUSH" THEN Readers ELSE {})

(* The events TriggerEvent(dwCurCount, op) sets.  A waiting producer's     *)
(* event has every trigger flag and SetCount(dwMaxQueueSize); a reader's   *)
(* has the PUSH flag and SetAllEvents().                                   *)
Triggered(count, op) ==
    {p \in linked : count <= MaxQueueSize} \cup (IF op = "PUSH" THEN Readers ELSE {})

TriggerEvent(count, op) == signalled' = signalled \cup Triggered(count, op)

(* Seeded fault: the size is not tested.                                   *)
BeginPushUnlimited(p) ==
    /\ prod[p] = "idle"
    /\ prod' = [prod EXCEPT ![p] = "push"]
    /\ UNCHANGED <<queue, linked, signalled, aborts>>

(* push_back, push_front, ...: the test of the limit before WaitForQueue.  *)
BeginPush(p) ==
    /\ prod[p] = "idle"
    /\ prod' = [prod EXCEPT ![p] = IF OverLimit THEN "full" ELSE "push"]
    /\ UNCHANGED <<queue, linked, signalled, aborts>>

(* WaitForQueue: tested again, then the event is linked and armed.         *)
LinkEvent(p) ==
    /\ prod[p] = "full"
    /\ prod' = [prod EXCEPT ![p] = IF OverLimit THEN "test" ELSE "push"]
    /\ linked' = IF OverLimit THEN linked \cup {p} ELSE linked
    /\ UNCHANGED <<queue, signalled, aborts>>

(* The loop of WaitForQueue: leave when the queue has shrunk ...           *)
WaitDone(p) ==
    /\ prod[p] = "test"
    /\ ~OverLimit
    /\ prod' = [prod EXCEPT ![p] = "push"]
    /\ linked' = linked \ {p}
    /\ signalled' = signalled \ {p}
    /\ UNCHANGED <<queue, aborts>>

(* ... or when pTestAbort says so (the record is pushed all the same) ...  *)
WaitAborted(p) ==
    /\ prod[p] = "test"
    /\ OverLimit
    /\ aborts < MaxAborts
    /\ aborts' = aborts + 1
    /\ prod' = [prod EXCEPT ![p] = "push"]
    /\ linked' = linked \ {p}
    /\ signalled' = signalled \ {p}
    /\ UNCHANGED queue

(* ... else wait for the event.                                            *)
WaitSleep(p) ==
    /\ prod[p] = "test"
    /\ OverLimit
    /\ prod' = [prod EXCEPT ![p] = "sleep"]
    /\ UNCHANGED <<queue, linked, signalled, aborts>>

(* The wait ends with the (auto-reset) event or after one second.          *)
WaitWakes(p) ==
    /\ prod[p] = "sleep"
    /\ prod' = [prod EXCEPT ![p] = "test"]
    /\ signalled' = signalled \ {p}
    /\ UNCHANGED <<queue, linked, aborts>>

(* Under the write lock: trigger with the size before the push, then push. *)
Push(p, item, front) ==
    /\ prod[p] = "push"
    /\ TriggerEvent(Len(queue), "PUSH")
    /\ queue' = IF front THEN <<item>> \o queue ELSE Append(queue, item)
    /\ prod' = [prod EXCEPT ![p] = "idle"]
    /\ UNCHANGED <<linked, aborts>>

(* pop_front and pop_back: trigger with the size before the pop, then pop. *)
Pop(front) ==
    /\ queue # << >>
    /\ TriggerEvent(Len(queue), "POP")
    /\ queue' = IF front THEN Tail(queue) ELSE SubSeq(queue, 1, Len(queue) - 1)
    /\ UNCHANGED <<prod, linked, aborts>>

(* clear(): clear, then trigger with the size after it.                    *)
Clear ==
    /\ queue' = << >>
    /\ TriggerEvent(0, "EMPTY")
    /\ UNCHANGED <<prod, linked, aborts>>

QueueNext ==
    \/ \E p \in Producers :
         \/ BeginPush(p)
         \/ LinkEvent(p)
         \/ WaitDone(p)
         \/ WaitAborted(p)
         \/ WaitSleep(p)
         \/ WaitWakes(p)
         \/ \E item \in Items, front \in BOOLEAN : Push(p, item, front)
    \/ \E front \in BOOLEAN : Pop(front)
    \/ Clear

QueueSpec == QueueInit /\ [][QueueNext]_queueVars

-----------------------------------------------------------------------------
(* How big the queue can grow.  The limit is tested before the write lock  *)
(* is taken and passes at the limit, so every producer may add one record  *)
(* over it; a push that an abort lets out of WaitForQueue adds another.    *)
QueueBound == Len(queue) <= MaxQueueSize + Cardinality(Producers) + aborts

(* No lost wake-up: a producer that sleeps in WaitForQueue while the queue *)
(* is below the limit has its event set, whatever pops, pushes and clears  *)
(* happened between its test of the size and its wait.  (At the limit it   *)
(* may sleep unsignalled, because pop triggers with the size before the    *)
(* pop: the timed wait covers that.)                                       *)
NoLostWakeup ==
    \A p \in Producers :
        prod[p] = "sleep" /\ Len(queue) < MaxQueueSize => p \in signalled

-----------------------------------------------------------------------------
(* The inductive invariants of the proofs.                                 *)

Pushing == {p \in Producers : prod[p] = "push"}

(* Records in the queue plus the pushes that have passed the test.         *)
CommittedBound ==
    Len(queue) + Cardinality(Pushing) <= MaxQueueSize + Cardinality(Producers) + aborts

(* An event is linked exactly while its producer is in the loop.           *)
LinkedWhileWaiting ==
    \A p \in Producers : p \in linked <=> prod[p] \in {"test", "sleep"}

QueueInv ==
    /\ QueueTypeOK
    /\ CommittedBound
    /\ LinkedWhileWaiting
    /\ NoLostWakeup
=============================================================================
