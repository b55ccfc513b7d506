---------------------------- MODULE WorkerThread ----------------------------
(***************************************************************************)
(* CSimpleWorkerThread (SimpleWorkerThread.cpp): the life of a worker      *)
(* thread, from CreateThread to the destruction of its object, and the     *)
(* calls that start its work, kill it and wait for it.                     *)
(*                                                                         *)
(* A member that holds csWorkEvent throughout is one step.  The members    *)
(* that KillThreadWait and IfActive read without that lock change one step *)
(* at a time in the thread's last critical section.  The thread has an     *)
(* infinite cycle time and no events but the built-in one (as the threads  *)
(* of S3Read and S3Write have), and waits on valid handles do not fail.    *)
(***************************************************************************)
EXTENDS Naturals, FiniteSets

CONSTANTS Callers,        \* threads that use the object
          Owner,          \* the one that creates and destroys it
          MaxStarts       \* bound on the calls of StartWork

ASSUME CallerAssumption == Owner \in Callers /\ MaxStarts \in Nat

None == "none"
Worker == "worker"

VARIABLES work,           \* m_pWorkEvent: null, or the (auto-reset) event's state
          bTerminate, bRunning,
          hThread,        \* hThread # nullptr
          pThread,        \* pThread # nullptr (then dwThreadID # 0 too)
          cs,             \* who is inside csWorkEvent between two steps
          killLock,       \* who holds csKillThread
          proc,           \* where ThreadProc is
          call,           \* where each caller is in KillThreadWait
          term,           \* callers whose event is in TermEventList
          destroyed,      \* how far the object's destruction is
          started, ran    \* calls of StartWork, runs of DoWork

threadVars == <<work, bTerminate, bRunning, hThread, pThread, cs, killLock, proc,
                call, term, destroyed, started, ran>>

ThreadTypeOK ==
    /\ work \in {"null", "clear", "set"}
    /\ bTerminate \in BOOLEAN /\ bRunning \in BOOLEAN
    /\ hThread \in BOOLEAN /\ pThread \in BOOLEAN
    /\ destroyed \in {"no", "members", "freed"}
    /\ cs \in {None, Worker}
    /\ killLock \in Callers \cup {None}
    /\ proc \in {"none", "init", "loop", "wait", "work", "exit", "final",
                 "event", "thread", "signal", "gone"}
    /\ call \in [Callers -> {"idle", "kill", "lock", "wait", "delete", "returned"}]
    /\ term \in SUBSET Callers
    /\ started \in Nat /\ ran \in Nat

ThreadInit ==
    /\ work = "null"
    /\ bTerminate = FALSE /\ bRunning = FALSE
    /\ hThread = FALSE /\ pThread = FALSE
    /\ cs = None /\ killLock = None
    /\ proc = "none"
    /\ call = [c \in Callers |-> "idle"]
    /\ term = {}
    /\ destroyed = "no"
    /\ started = 0 /\ ran = 0

-----------------------------------------------------------------------------
(* The object exists and no one is inside csWorkEvent.                     *)
Locked == destroyed = "no" /\ cs = None

SetWorkEvent == work' = IF work = "null" THEN "null" ELSE "set"

(* IfActive() of a caller that holds csWorkEvent.                          *)
IfActive == bRunning /\ hThread /\ proc # "gone"

Idle(c) == call[c] \in {"idle", "returned"}

(* CreateThread: the thread is created suspended and resumed when all is   *)
(* set.  It may not be created at all; or no handle can be opened, and     *)
(* ThreadProc returns at once.                                             *)
CreateThread(result) ==
    /\ Locked
    /\ \A c \in Callers : Idle(c)
    /\ proc \in {"none", "gone"}
    /\ work' = "clear"
    /\ bTerminate' = FALSE
    /\ pThread' = (result # "no thread")
    /\ bRunning' = IF result = "no thread" THEN bRunning ELSE TRUE
    /\ hThread' = (result = "created")
    /\ proc' = IF result = "created" THEN "init" ELSE "gone"
    /\ call' = [c \in Callers |-> "idle"]
    /\ started' = 0
    /\ ran' = 0
    /\ UNCHANGED <<cs, killLock, term, destroyed>>

StartWork ==
    /\ Locked
    /\ started < MaxStarts
    /\ SetWorkEvent
    /\ started' = started + 1
    /\ UNCHANGED <<bTerminate, bRunning, hThread, pThread, cs, killLock, proc,
                   call, term, destroyed, ran>>

(* Seeded fault: the flag is set, the thread is not woken.                 *)
KillThreadSilent == bTerminate' = TRUE /\ UNCHANGED work

KillThreadEffect == bTerminate' = TRUE /\ SetWorkEvent

(* KillThread called by AllTerminate.                                      *)
KillThread ==
    /\ Locked
    /\ IfActive
    /\ KillThreadEffect
    /\ UNCHANGED <<bRunning, hThread, pThread, cs, killLock, proc, call, term,
                   destroyed, started, ran>>

(* Seeded fault: added whether the thread is active or not.                *)
AddTermEventAlways(c) ==
    /\ Locked
    /\ term' = term \cup {c}
    /\ UNCHANGED <<work, bTerminate, bRunning, hThread, pThread, cs, killLock,
                   proc, call, destroyed, started, ran>>

(* AddTermEvent is refused when the thread is not active.                  *)
AddTermEvent(c) ==
    /\ Locked
    /\ IfActive
    /\ term' = term \cup {c}
    /\ UNCHANGED <<work, bTerminate, bRunning, hThread, pThread, cs, killLock,
                   proc, call, destroyed, started, ran>>

RemoveTermEvent(gone) ==
    /\ Locked
    /\ term' = term \ gone
    /\ UNCHANGED <<work, bTerminate, bRunning, hThread, pThread, cs, killLock,
                   proc, call, destroyed, started, ran>>

-----------------------------------------------------------------------------
(* KillThreadWait.                                                         *)

UnchangedByWait == UNCHANGED <<bRunning, pThread, cs, proc, term, destroyed, started, ran>>

(* Nothing to do without a thread: tested without a lock.                  *)
KillWaitEnter(c, bDontKillWaitOnly) ==
    /\ destroyed = "no"
    /\ Idle(c)
    /\ call' = [call EXCEPT ![c] = IF ~pThread THEN "returned"
                                   ELSE IF bDontKillWaitOnly THEN "lock" ELSE "kill"]
    /\ UNCHANGED <<work, bTerminate, hThread, killLock>>
    /\ UnchangedByWait

KillWaitKill(c) ==
    /\ call[c] = "kill"
    /\ Locked
    /\ KillThreadEffect
    /\ call' = [call EXCEPT ![c] = "lock"]
    /\ UNCHANGED <<hThread, killLock>>
    /\ UnchangedByWait

(* csKillThread, and m_pWorkEvent tested without csWorkEvent.              *)
KillWaitLock(c) ==
    /\ call[c] = "lock"
    /\ killLock = None
    /\ IF work = "null"
         THEN /\ call' = [call EXCEPT ![c] = "returned"]
              /\ UNCHANGED killLock
         ELSE /\ call' = [call EXCEPT ![c] = "wait"]
              /\ killLock' = c
    /\ UNCHANGED <<work, bTerminate, hThread>>
    /\ UnchangedByWait

(* Seeded fault: a wait that times out leaves the loop.                    *)
KillWaitTimesOut(c) ==
    /\ call[c] = "wait"
    /\ call' = [call EXCEPT ![c] = "delete"]
    /\ UNCHANGED <<work, bTerminate, hThread, killLock>>
    /\ UnchangedByWait

(* The loop ends when IfActive() is false: by bRunning, read without the   *)
(* lock, or by the handle, which it then closes.                           *)
KillWaitEnds(c) ==
    /\ call[c] = "wait"
    /\ \/ ~bRunning /\ UNCHANGED hThread
       \/ bRunning /\ cs = None /\ ~IfActive /\ hThread' = FALSE
    /\ call' = [call EXCEPT ![c] = "delete"]
    /\ UNCHANGED <<work, bTerminate, killLock>>
    /\ UnchangedByWait

(* Seeded fault: csKillThread is not released.                             *)
KillWaitKeepsLock(c) ==
    /\ call[c] = "delete"
    /\ Locked
    /\ work' = "null"
    /\ call' = [call EXCEPT ![c] = "returned"]
    /\ UNCHANGED <<bTerminate, hThread, killLock>>
    /\ UnchangedByWait

KillWaitDelete(c) ==
    /\ call[c] = "delete"
    /\ Locked
    /\ work' = "null"
    /\ killLock' = None
    /\ call' = [call EXCEPT ![c] = "returned"]
    /\ UNCHANGED <<bTerminate, hThread>>
    /\ UnchangedByWait

(* ~CSimpleWorkerThread after its KillThreadWait, and the members that are *)
(* destroyed before Events: TermEventList is one of them.                  *)
Destroy ==
    /\ destroyed = "no"
    /\ call[Owner] = "returned"
    /\ \A c \in Callers : Idle(c)
    /\ destroyed' = "members"
    /\ hThread' = FALSE
    /\ pThread' = FALSE
    /\ UNCHANGED <<work, bTerminate, bRunning, cs, killLock, proc, call, term,
                   started, ran>>

(* Seeded fault: ~CSimpleWorkerThreadEvents does not take the lock.        *)
DestroyEventsUnlocked ==
    /\ destroyed = "members"
    /\ destroyed' = "freed"
    /\ work' = "null"
    /\ UNCHANGED <<bTerminate, bRunning, hThread, pThread, cs, killLock, proc,
                   call, term, started, ran>>

(* ~CSimpleWorkerThreadEvents, under csWorkEvent; then the memory is freed.*)
DestroyEvents ==
    /\ destroyed = "members"
    /\ cs = None
    /\ destroyed' = "freed"
    /\ work' = "null"
    /\ UNCHANGED <<bTerminate, bRunning, hThread, pThread, cs, killLock, proc,
                   call, term, started, ran>>

-----------------------------------------------------------------------------
(* ThreadProc.                                                             *)

UnchangedByThread == UNCHANGED <<killLock, call, destroyed, started>>

InitInstance(ok) ==
    /\ proc = "init"
    /\ bTerminate' = (bTerminate \/ ~ok)
    /\ proc' = "loop"
    /\ UNCHANGED <<work, bRunning, hThread, pThread, cs, term, ran>>
    /\ UnchangedByThread

(* The test of bTerminate, then the wait for the work event.               *)
LoopTest ==
    /\ proc = "loop"
    /\ proc' = IF bTerminate THEN "exit" ELSE "wait"
    /\ UNCHANGED <<work, bTerminate, bRunning, hThread, pThread, cs, term, ran>>
    /\ UnchangedByThread

WaitReturns ==
    /\ proc = "wait"
    /\ work = "set"
    /\ work' = "clear"
    /\ proc' = "work"
    /\ UNCHANGED <<bTerminate, bRunning, hThread, pThread, cs, term, ran>>
    /\ UnchangedByThread

(* DoWork; bTerminate is tested again only after it.                       *)
DoWork ==
    /\ proc = "work"
    /\ proc' = "loop"
    /\ ran' = IF ran <= MaxStarts THEN ran + 1 ELSE ran
    /\ UNCHANGED <<work, bTerminate, bRunning, hThread, pThread, cs, term>>
    /\ UnchangedByThread

ExitInstance ==
    /\ proc = "exit"
    /\ proc' = "final"
    /\ UNCHANGED <<work, bTerminate, bRunning, hThread, pThread, cs, term, ran>>
    /\ UnchangedByThread

(* The last critical section: m_pWorkEvent, pThread, hThread and bRunning, *)
(* SignalTermination, and the release of csWorkEvent.                      *)
FinalEvent ==
    /\ proc = "final"
    /\ cs = None
    /\ cs' = Worker
    /\ work' = "null"
    /\ proc' = "event"
    /\ UNCHANGED <<bTerminate, bRunning, hThread, pThread, term, ran>>
    /\ UnchangedByThread

FinalThread ==
    /\ proc = "event"
    /\ pThread' = FALSE
    /\ hThread' = FALSE
    /\ proc' = "thread"
    /\ UNCHANGED <<work, bTerminate, bRunning, cs, term, ran>>
    /\ UnchangedByThread

FinalRunning ==
    /\ proc = "thread"
    /\ bRunning' = FALSE
    /\ proc' = "signal"
    /\ UNCHANGED <<work, bTerminate, hThread, pThread, cs, term, ran>>
    /\ UnchangedByThread

FinalSignal ==
    /\ proc = "signal"
    /\ term' = {}
    /\ cs' = None
    /\ proc' = "gone"
    /\ UNCHANGED <<work, bTerminate, bRunning, hThread, pThread, ran>>
    /\ UnchangedByThread

-----------------------------------------------------------------------------
KillWaitStep(c) ==
    KillWaitKill(c) \/ KillWaitLock(c) \/ KillWaitEnds(c) \/ KillWaitDelete(c)

ThreadStep ==
    \/ \E ok \in BOOLEAN : InitInstance(ok)
    \/ LoopTest
    \/ WaitReturns
    \/ DoWork
    \/ ExitInstance
    \/ FinalEvent
    \/ FinalThread
    \/ FinalRunning
    \/ FinalSignal

ThreadNext ==
    \/ \E result \in {"created", "no handle", "no thread"} : CreateThread(result)
    \/ StartWork
    \/ KillThread
    \/ \E c \in Callers : AddTermEvent(c) \/ RemoveTermEvent({c})
    \/ RemoveTermEvent(Callers)
    \/ \E c \in Callers, bDontKillWaitOnly \in BOOLEAN : KillWaitEnter(c, bDontKillWaitOnly)
    \/ \E c \in Callers : KillWaitStep(c)
    \/ Destroy
    \/ DestroyEvents
    \/ ThreadStep

ThreadSpec == ThreadInit /\ [][ThreadNext]_threadVars

(* The scheduler runs the thread, DoWork returns, and a caller inside      *)
(* KillThreadWait goes on (strongly fair for the locks it competes for).   *)
FairThreadSpec ==
    /\ ThreadSpec
    /\ WF_threadVars(ThreadStep)
    /\ \A c \in Callers : SF_threadVars(KillWaitStep(c))

-----------------------------------------------------------------------------
(* There is no thread, or it has deleted m_pWorkEvent.                     *)
Ended == {"none", "event", "thread", "signal", "gone"}

(* When KillThreadWait has returned to a caller, the thread no longer runs *)
(* the derived class's code: at most the end of its last critical section  *)
(* is left, however the unlocked tests of KillThreadWait race with it.     *)
AfterWaitNoWork ==
    \A c \in Callers : call[c] \in {"delete", "returned"} => proc \in Ended

(* ThreadProc uses m_pWorkEvent without a test and without a lock: no      *)
(* KillThreadWait deletes it while the thread may still wait on it.        *)
EventWhileWaiting == proc \in {"init", "loop", "wait", "work"} => work # "null"

(* Every event that AddTermEvent has accepted is signalled by the thread's *)
(* end: none can be added between SignalTermination and the end.           *)
NoLostTermination == proc = "gone" /\ cs = None => term = {}

(* A thread that was told to terminate ends: no kill falls between its     *)
(* test of bTerminate and its wait without waking it.                      *)
KilledThreadEnds == bTerminate /\ proc # "gone" ~> proc = "gone"

(* Every KillThreadWait that kills returns, whatever the other callers and *)
(* AllTerminate do meanwhile.                                              *)
KillWaitReturns == \A c \in Callers : call[c] = "kill" ~> call[c] = "returned"

(* The object's memory outlives the thread: KillThreadWait may return from *)
(* its unlocked tests while the thread is in its last critical section,    *)
(* but ~CSimpleWorkerThreadEvents then waits for it.  (TermEventList, a    *)
(* member of the object, is destroyed before that wait.)                   *)
NotUsedWhenFreed == destroyed = "freed" => proc \in {"none", "gone"}

-----------------------------------------------------------------------------
(* The inductive invariant of the proofs: each member that KillThreadWait  *)
(* and IfActive read without the lock tells that the thread has ended.     *)

UnlockedReads == ~pThread \/ ~hThread \/ ~bRunning \/ work = "null" => proc \in Ended

InsideLast == cs = Worker <=> proc \in {"event", "thread", "signal"}

TermWhileActive ==
    /\ proc \in {"none", "gone"} => term = {}
    /\ proc = "none" => ~bRunning

DestroyedAfterEnd ==
    /\ destroyed # "no" => proc \in Ended
    /\ NotUsedWhenFreed

WorkerInv ==
    /\ ThreadTypeOK
    /\ UnlockedReads
    /\ InsideLast
    /\ TermWhileActive
    /\ AfterWaitNoWork
    /\ DestroyedAfterEnd
=============================================================================
