----------------------------- MODULE ThreadPool -----------------------------
(***************************************************************************)
(* CThreadPool and CThreadWork (ThreadPool.h): messages with a priority, a *)
(* group and possibly a due time, the threads that process them, how many  *)
(* threads there are, the future queue, Terminate and DiscardPool.         *)
(*                                                                         *)
(* A section under the Pool and MsgQueue locks is one step (LockOrder is   *)
(* about those locks), and so is every unlocked read.  One section can     *)
(* wait under the Pool lock, the clear at the end of KillThreadQueueSRW:   *)
(* PoolUnlocked is the guard of every other that takes it.  The senders    *)
(* are Clients; Owner is the thread that configures and terminates it.     *)
(* What a thread keeps in its local variables is loc[a].  CSimpleWorker-   *)
(* Thread is reduced to IfActive (life) and GetExitFlag (exit).            *)
(***************************************************************************)
EXTENDS Integers, Sequences, FiniteSets

CONSTANTS Threads,         \* bound on the CThreadWork entries of Pool, 1 .. n
          Clients,         \* threads that send messages
          Owner,           \* the thread that owns the pool
          Messages, NoMsg, \* what is sent, once each; none
          Priority, Grouping, Delay,   \* of each message
          MinThreads,      \* dwMinNumThreads
          MaxThreads,      \* dwMaxNumThreads at first (with the plan "single" it is 1)
          RangeMax,        \* dwMaxNumThreadsRange
          QueueRangeMin, QueueRangeMax,
          MaxQueueSize,    \* dwMaxQueueSize of the senders, 0 for none
          Scenarios        \* what is sent, and what else happens meanwhile

Plans == {"none", "single", "refuse", "lower", "kill", "terminate", "discard"}
AloneBase == 1000          \* THREAD_POOL_MSG_GROUPING_ALONE_BASE
DontCare == 0              \* THREAD_POOL_MSG_GROUPING_DONT_CARE

ASSUME PoolAssumption ==
    /\ IsFiniteSet(Messages) /\ NoMsg \notin Messages
    /\ IsFiniteSet(Threads) /\ Threads \subseteq Nat
    /\ Priority \in [Messages -> Nat] /\ Grouping \in [Messages -> Nat]
    /\ Delay \in [Messages -> {"now", "delayed", "future"}]
    /\ {MinThreads, MaxThreads, RangeMax, QueueRangeMin, QueueRangeMax,
        MaxQueueSize} \subseteq Nat
    /\ Scenarios \subseteq [send : SUBSET Messages, plan : Plans]
    /\ Threads \cap Clients = {} /\ Owner \notin Threads \cup Clients

VARIABLES msgQueue,        \* MsgQueue: entries [adr, msg, bProcessing, due]
          future,          \* FutureMsgQueue: entries [msg, due]
          pool,            \* Pool: a record for each CThreadWork
          loc,             \* the local variables of every thread
          bDisable, dwMaxNumThreads,
          plan,            \* what the owner, or DoProcess, does besides
          unsent,          \* messages still to be sent
          sent,            \* messages that have been given to the pool
          removed,         \* messages killed, discarded or refused
          processed        \* how often DoProcess returned true for a message

poolVars == <<msgQueue, future, pool, loc, bDisable, dwMaxNumThreads,
              plan, unsent, sent, removed, processed>>
history == <<plan, unsent, sent, removed, processed>>

Actors == Threads \cup Clients \cup {Owner}

NoWork == [life |-> "absent", exit |-> FALSE, bInUse |-> FALSE,
           group |-> DontCare, signal |-> FALSE]
NoLoc(pc) == [pc |-> pc, timeout |-> FALSE, adr |-> 0, msg |-> NoMsg,
              real |-> 0, due |-> {}, ret |-> "none", bProcessed |-> FALSE]

(* Where a thread is, and what it keeps there.                             *)
Places == {"off", "wait", "pick", "add", "start", "process", "finish", "idle", "limit",
           "over", "house", "cull", "future", "end", "scan", "transfer", "erase",
           "ready", "send", "full", "sent", "kill", "killwait", "clear", "clearing",
           "discard", "terminated"}
Locals == [pc : Places, timeout : BOOLEAN, adr : Nat, msg : Messages \cup {NoMsg},
           real : Int, due : SUBSET Messages, bProcessed : BOOLEAN,
           ret : {"none", "process", "erase", "sent"}]

PoolTypeOK ==
    /\ msgQueue \in Seq([adr : Nat, msg : Messages, bProcessing : BOOLEAN, due : BOOLEAN])
    /\ future \in Seq([msg : Messages, due : BOOLEAN])
    /\ pool \in [Threads -> [life : {"absent", "inactive", "active"}, exit : BOOLEAN,
                             bInUse : BOOLEAN, group : Nat, signal : BOOLEAN]]
    /\ loc \in [Actors -> Locals]
    /\ bDisable \in BOOLEAN
    /\ dwMaxNumThreads \in Nat
    /\ plan \in Plans
    /\ {unsent, sent, removed} \subseteq SUBSET Messages
    /\ processed \in [Messages -> Nat]

PoolInit ==
    /\ msgQueue = << >> /\ future = << >>
    /\ pool = [t \in Threads |-> NoWork]
    /\ loc = [a \in Actors |-> NoLoc(IF a \in Threads THEN "off" ELSE "ready")]
    /\ bDisable = FALSE
    /\ \E s \in Scenarios : plan = s.plan /\ unsent = s.send
    /\ dwMaxNumThreads = IF plan = "single" THEN 1 ELSE MaxThreads
    /\ sent = {} /\ removed = {}
    /\ processed = [m \in Messages |-> 0]

-----------------------------------------------------------------------------
Goto(a, pc) == loc' = [loc EXCEPT ![a].pc = pc]
At(a, pc) == loc[a].pc = pc

(* Nobody waits under the Pool lock (ClearPool).                           *)
PoolUnlocked == ~At(Owner, "clearing")

(* IfActive() && !GetExitFlag(): a thread told to end is not counted.      *)
Running == {t \in Threads : pool[t].life = "active" /\ ~pool[t].exit}
GetNumThreads == Cardinality(Running)

GetMinNumThreadsInternal ==
    IF MinThreads > 0 \/ (msgQueue = << >> /\ future = << >>) THEN MinThreads ELSE 1

(* Seeded fault: only the group of the new message is looked at.           *)
IfInGroupOneWay(group) ==
    \A t \in Threads :
        pool[t].bInUse /\ group # DontCare =>
            group < AloneBase /\ pool[t].group = group

(* A message of this group can run beside what the threads are doing.      *)
IfInGroup(group) ==
    \A t \in Threads :
        pool[t].bInUse /\ {group, pool[t].group} # {DontCare} =>
            /\ group < AloneBase /\ pool[t].group < AloneBase
            /\ pool[t].group = group

(* dwRealMaxThreads: more threads for a longer queue, in proportion.       *)
RealMaxThreads ==
    LET size == Len(msgQueue) IN
    IF QueueRangeMin = 0 \/ size < QueueRangeMin THEN dwMaxNumThreads
    ELSE IF size > QueueRangeMax THEN RangeMax
    ELSE IF QueueRangeMax > QueueRangeMin
      THEN dwMaxNumThreads + ((size - QueueRangeMin) * (RangeMax - dwMaxNumThreads))
                                \div (QueueRangeMax - QueueRangeMin)
      ELSE dwMaxNumThreads

(* Threads AddThreads starts, with the limit it has computed before: up to *)
(* the minimum, and one more if there are more messages than threads.  The *)
(* difference of the limit and the threads is unsigned: any but zero is    *)
(* positive.                                                               *)
ThreadsToStart(real) ==
    LET toMin == IF GetMinNumThreadsInternal > GetNumThreads
                   THEN GetMinNumThreadsInternal - GetNumThreads ELSE 0
        active == GetNumThreads + toMin
        more == /\ real # active
                /\ Len(msgQueue) > active
                /\ IfInGroup(Grouping[Head(msgQueue).msg])
    IN  IF GetNumThreads >= real THEN 0 ELSE IF more THEN toMin + 1 ELSE toMin

Startable == {t \in Threads : pool[t].life # "active"}

(* StartNewThread: an inactive entry of Pool is used again, or a new one   *)
(* appended; InitInstance calls StartWork.  Beyond the bound Threads none  *)
(* is started, as when CreateThread fails.                                 *)
StartNewThreads(n) ==
    LET new == {t \in Startable : Cardinality({u \in Startable : u < t}) < n} IN
    pool' = [t \in Threads |->
               IF t \in new THEN [NoWork EXCEPT !.life = "active", !.signal = TRUE]
               ELSE pool[t]]

(* AddThreads(): first the limit ...                                       *)
AddThreadsLimit(a) ==
    /\ At(a, "add")
    /\ loc' = [loc EXCEPT ![a].pc = "start", ![a].real = RealMaxThreads]
    /\ UNCHANGED <<msgQueue, future, pool, bDisable, dwMaxNumThreads, history>>

(* Seeded fault: the thread that is being told to end is still counted.    *)
AddThreadsStartDying(a) ==
    /\ At(a, "start") /\ PoolUnlocked
    /\ LET n == IF \E t \in Threads : pool[t].life = "active" THEN 0
                ELSE ThreadsToStart(loc[a].real)
           new == {t \in Startable : Cardinality({u \in Startable : u < t}) < n}
       IN  /\ StartNewThreads(n)
           /\ loc' = [b \in Actors |-> IF b \in new THEN NoLoc("wait")
                        ELSE IF b = a THEN [loc[a] EXCEPT !.pc = loc[a].ret]
                        ELSE loc[b]]
    /\ UNCHANGED <<msgQueue, future, bDisable, dwMaxNumThreads, history>>

(* ... then the threads, under the Pool write lock.                        *)
AddThreadsStart(a) ==
    /\ At(a, "start") /\ PoolUnlocked
    /\ LET n == ThreadsToStart(loc[a].real)
           new == {t \in Startable : Cardinality({u \in Startable : u < t}) < n}
       IN  /\ StartNewThreads(n)
           /\ loc' = [b \in Actors |-> IF b \in new THEN NoLoc("wait")
                        ELSE IF b = a THEN [loc[a] EXCEPT !.pc = loc[a].ret]
                        ELSE loc[b]]
    /\ UNCHANGED <<msgQueue, future, bDisable, dwMaxNumThreads, history>>

-----------------------------------------------------------------------------
(* Sending.                                                                *)

(* The std::list node of a new entry: any address not in use.              *)
FreeAddress ==
    LET used == {msgQueue[i].adr : i \in DOMAIN msgQueue}
    IN  CHOOSE x \in 1 .. Len(msgQueue) + 1 : x \notin used

(* The entries a new one goes behind: those of its priority or a higher.   *)
InsertPlace(msg) ==
    {i \in DOMAIN msgQueue : Priority[msgQueue[i].msg] >= Priority[msg]}

(* UpdatePerf: behind the last entry of no lower priority, else in front.  *)
(* Only push_front sets the MsgEvent of every thread: insert, of the       *)
(* std::list, triggers nothing, and the threads find the entry when they   *)
(* come round.                                                             *)
Insert(msg, due) ==
    LET place == InsertPlace(msg)
        at == IF place = {} THEN 0 ELSE CHOOSE i \in place : \A j \in place : j <= i
        entry == [adr |-> FreeAddress, msg |-> msg, bProcessing |-> FALSE, due |-> due]
    IN  /\ msgQueue' = SubSeq(msgQueue, 1, at) \o <<entry>>
                         \o SubSeq(msgQueue, at + 1, Len(msgQueue))
        /\ pool' = [t \in Threads |->
                      [pool[t] EXCEPT !.signal = @ \/ (place = {} /\ pool[t].life = "active")]]

(* SendMessageToPool by a client: too long a queue is waited for (the wait *)
(* is timed), or refused with pbNoBlock.                                   *)
SendMessageToPool(c, m) ==
    /\ At(c, "ready") /\ PoolUnlocked
    /\ m \in unsent /\ Delay[m] # "future"
    /\ unsent' = unsent \ {m} /\ sent' = sent \cup {m}
    /\ IF MaxQueueSize = 0 \/ Len(msgQueue) <= MaxQueueSize
         THEN /\ loc' = [loc EXCEPT ![c].pc = "send", ![c].msg = m]
              /\ UNCHANGED removed
         ELSE \/ /\ loc' = [loc EXCEPT ![c].pc = "full", ![c].msg = m]
                 /\ UNCHANGED removed
              \/ removed' = removed \cup {m} /\ UNCHANGED loc
    /\ UNCHANGED <<msgQueue, future, pool, bDisable, dwMaxNumThreads, plan, processed>>

SendUnblocked(c) ==
    /\ At(c, "full")
    /\ Len(msgQueue) <= MaxQueueSize
    /\ Goto(c, "send")
    /\ UNCHANGED <<msgQueue, future, pool, bDisable, dwMaxNumThreads, history>>

(* The client's own thread is told to end: it sends all the same.          *)
SendShutDown(c) ==
    /\ At(c, "full")
    /\ Goto(c, "send")
    /\ UNCHANGED <<msgQueue, future, pool, bDisable, dwMaxNumThreads, history>>

SendInsert(c) ==
    /\ At(c, "send") /\ PoolUnlocked
    /\ Insert(loc[c].msg, Delay[loc[c].msg] = "now")
    /\ loc' = [loc EXCEPT ![c] = [NoLoc("add") EXCEPT !.ret = "sent"]]
    /\ UNCHANGED <<future, bDisable, dwMaxNumThreads, history>>

(* SendMessageToPoolDelayed: on the future queue.                          *)
SendMessageToPoolDelayed(c, m) ==
    /\ At(c, "ready")
    /\ m \in unsent /\ Delay[m] = "future"
    /\ unsent' = unsent \ {m} /\ sent' = sent \cup {m}
    /\ future' = Append(future, [msg |-> m, due |-> FALSE])
    /\ loc' = [loc EXCEPT ![c] = [NoLoc("add") EXCEPT !.ret = "sent"]]
    /\ UNCHANGED <<msgQueue, pool, bDisable, dwMaxNumThreads, plan, removed, processed>>

SendReturns(c) ==
    /\ At(c, "sent")
    /\ loc' = [loc EXCEPT ![c] = NoLoc("ready")]
    /\ UNCHANGED <<msgQueue, future, pool, bDisable, dwMaxNumThreads, history>>

(* The due time of an entry is reached.                                    *)
TimePasses ==
    /\ \/ \E i \in DOMAIN msgQueue :
            ~msgQueue[i].due /\ msgQueue' = [msgQueue EXCEPT ![i].due = TRUE]
            /\ UNCHANGED future
       \/ \E i \in DOMAIN future :
            ~future[i].due /\ future' = [future EXCEPT ![i].due = TRUE]
            /\ UNCHANGED msgQueue
    /\ UNCHANGED <<pool, loc, bDisable, dwMaxNumThreads, history>>
-----------------------------------------------------------------------------
(* A pool thread.                                                          *)

LeaveLoop(t) == IF loc[t].timeout THEN "house" ELSE "end"

(* Seeded fault: DoWork does not look at bDisable.                         *)
WakesDisabled(t) ==
    /\ At(t, "wait")
    /\ pool' = [pool EXCEPT ![t].signal = FALSE]
    /\ loc' = [loc EXCEPT ![t].timeout = ~pool[t].signal,
                          ![t].pc = IF ~pool[t].exit THEN "pick"
                                    ELSE IF pool[t].signal THEN "end" ELSE "house"]
    /\ UNCHANGED <<msgQueue, future, bDisable, dwMaxNumThreads, history>>

(* ThreadProc waits for the thread's events, or for its cycle time, and    *)
(* calls DoWork, whose loop tests GetExitFlag() and bDisable.              *)
Wakes(t) ==
    /\ At(t, "wait")
    /\ pool' = [pool EXCEPT ![t].signal = FALSE]
    /\ loc' = [loc EXCEPT ![t].timeout = ~pool[t].signal,
                          ![t].pc = IF ~pool[t].exit /\ ~bDisable THEN "pick"
                                    ELSE IF pool[t].signal THEN "end" ELSE "house"]
    /\ UNCHANGED <<msgQueue, future, bDisable, dwMaxNumThreads, history>>

Waiting == {i \in DOMAIN msgQueue : ~msgQueue[i].bProcessing}
First(S) == CHOOSE i \in S : \A j \in S : i <= j

(* The first entry nobody works on, if its group and its due time allow.   *)
(* (Msg and uGrouping of the thread count only while it is in use.)        *)
Pick(t) ==
    /\ At(t, "pick") /\ PoolUnlocked
    /\ IF Waiting = {}
         THEN Goto(t, LeaveLoop(t)) /\ UNCHANGED <<msgQueue, pool>>
         ELSE LET i == First(Waiting)
                  group == Grouping[msgQueue[i].msg]
                  go == IfInGroup(group) /\ msgQueue[i].due
              IN  IF go
                    THEN /\ msgQueue' = [msgQueue EXCEPT ![i].bProcessing = TRUE]
                         /\ pool' = [pool EXCEPT ![t].group = group, ![t].bInUse = TRUE]
                         /\ loc' = [loc EXCEPT ![t].msg = msgQueue[i].msg,
                                               ![t].adr = msgQueue[i].adr,
                                               ![t].pc = "add", ![t].ret = "process"]
                    ELSE Goto(t, LeaveLoop(t)) /\ UNCHANGED <<msgQueue, pool>>
    /\ UNCHANGED <<future, bDisable, dwMaxNumThreads, history>>

(* DoProcess, a virtual function of the user's class, returns; false is to *)
(* be called again (once, with the plan "refuse").                         *)
DoProcess(t, ok) ==
    /\ At(t, "process")
    /\ ok \/ plan = "refuse"
    /\ plan' = IF ok THEN plan ELSE "none"
    /\ processed' = [processed EXCEPT ![loc[t].msg] = IF ok THEN @ + 1 ELSE @]
    /\ loc' = [loc EXCEPT ![t].pc = "finish", ![t].bProcessed = ok]
    /\ UNCHANGED <<msgQueue, future, pool, bDisable, dwMaxNumThreads, unsent, sent, removed>>

Entry(adr) == {i \in DOMAIN msgQueue : msgQueue[i].adr = adr}
Without(seq, i) == SubSeq(seq, 1, i - 1) \o SubSeq(seq, i + 1, Len(seq))

(* Seeded fault: a message that DoProcess refused is erased too.           *)
FinishErases(t) ==
    /\ At(t, "finish") /\ PoolUnlocked
    /\ LET found == Entry(loc[t].adr) IN
       msgQueue' = IF found = {} THEN msgQueue ELSE Without(msgQueue, First(found))
    /\ loc' = [loc EXCEPT ![t].pc = "idle", ![t].adr = 0, ![t].msg = NoMsg, ![t].ret = "none"]
    /\ UNCHANGED <<future, pool, bDisable, dwMaxNumThreads, history>>

(* The entry is looked up by its address and erased, or given back.        *)
Finish(t) ==
    /\ At(t, "finish") /\ PoolUnlocked
    /\ LET found == Entry(loc[t].adr) IN
       msgQueue' = IF found = {} THEN msgQueue
                   ELSE IF loc[t].bProcessed THEN Without(msgQueue, First(found))
                   ELSE [msgQueue EXCEPT ![First(found)].bProcessing = FALSE]
    /\ loc' = [loc EXCEPT ![t].pc = "idle", ![t].adr = 0, ![t].msg = NoMsg, ![t].ret = "none"]
    /\ UNCHANGED <<future, pool, bDisable, dwMaxNumThreads, history>>

(* UpdatePerf: SetIdle, after the entry has gone.                          *)
SetIdle(t) ==
    /\ At(t, "idle") /\ PoolUnlocked
    /\ pool' = [pool EXCEPT ![t].bInUse = FALSE, ![t].group = DontCare]
    /\ Goto(t, "limit")
    /\ UNCHANGED <<msgQueue, future, bDisable, dwMaxNumThreads, history>>

(* More threads than the limit computed before DoProcess: this one is to   *)
(* be killed, in a step of its own (the count is not under a lock).        *)
LimitTest(t) ==
    /\ At(t, "limit") /\ PoolUnlocked
    /\ loc' = [loc EXCEPT ![t].pc =
                  IF GetNumThreads > loc[t].real THEN "over"
                  ELSE IF ~loc[t].bProcessed \/ pool[t].exit \/ bDisable THEN LeaveLoop(t)
                  ELSE "pick",
                  ![t].real = 0, ![t].bProcessed = FALSE]
    /\ UNCHANGED <<msgQueue, future, pool, bDisable, dwMaxNumThreads, history>>

KillOver(t) ==
    /\ At(t, "over")
    /\ pool' = [pool EXCEPT ![t].exit = TRUE, ![t].signal = TRUE]
    /\ Goto(t, LeaveLoop(t))
    /\ UNCHANGED <<msgQueue, future, bDisable, dwMaxNumThreads, history>>

(* Housekeeping after a timeout: is the future queue empty?                *)
House(t) ==
    /\ At(t, "house")
    /\ Goto(t, IF future = << >> THEN "cull" ELSE "future")
    /\ UNCHANGED <<msgQueue, future, pool, bDisable, dwMaxNumThreads, history>>

(* Seeded fault: the configured minimum, which may be zero.                *)
CullConfiguredMin(t) ==
    /\ At(t, "cull") /\ PoolUnlocked
    /\ \/ UNCHANGED pool
       \/ /\ GetNumThreads > MinThreads /\ ~pool[t].bInUse
          /\ pool' = [pool EXCEPT ![t].exit = TRUE, ![t].signal = TRUE]
    /\ Goto(t, "future")
    /\ UNCHANGED <<msgQueue, future, bDisable, dwMaxNumThreads, history>>

(* A thread idle for ten seconds ends if there are more than the minimum.  *)
Cull(t) ==
    /\ At(t, "cull") /\ PoolUnlocked
    /\ \/ UNCHANGED pool
       \/ /\ GetNumThreads > GetMinNumThreadsInternal /\ ~pool[t].bInUse
          /\ pool' = [pool EXCEPT ![t].exit = TRUE, ![t].signal = TRUE]
    /\ Goto(t, "future")
    /\ UNCHANGED <<msgQueue, future, bDisable, dwMaxNumThreads, history>>

(* TransferFutureQueue(false) for what is due now.                         *)
FutureTest(t) ==
    /\ At(t, "future")
    /\ LET due == {future[i].msg : i \in {j \in DOMAIN future : future[j].due}} IN
       loc' = [loc EXCEPT ![t].pc = IF future = << >> THEN "end" ELSE "scan",
                          ![t].due = IF future = << >> THEN {} ELSE due]
    /\ UNCHANGED <<msgQueue, future, pool, bDisable, dwMaxNumThreads, history>>

(* The end of DoWork: the thread waits again, or leaves with ExitInstance, *)
(* which counts the other threads under the Pool lock.                     *)
EndOfWork(t) ==
    /\ At(t, "end")
    /\ pool[t].exit => PoolUnlocked
    /\ IF pool[t].exit
         THEN /\ pool' = [pool EXCEPT ![t] = [NoWork EXCEPT !.life = "inactive"]]
              /\ loc' = [loc EXCEPT ![t] = NoLoc("off")]
         ELSE /\ UNCHANGED pool
              /\ loc' = [loc EXCEPT ![t] = NoLoc("wait")]
    /\ UNCHANGED <<msgQueue, future, bDisable, dwMaxNumThreads, history>>

-----------------------------------------------------------------------------
(* TransferFutureQueue, by a pool thread or, to flush, by the owner: the   *)
(* last entry that is due is copied under the read lock, sent, and then    *)
(* erased under the write lock.                                            *)
TransferScan(a) ==
    /\ At(a, "scan")
    /\ LET found == {i \in DOMAIN future : a = Owner \/ future[i].msg \in loc[a].due} IN
       IF found = {}
         THEN Goto(a, IF a = Owner THEN "terminated" ELSE "end")
         ELSE loc' = [loc EXCEPT ![a].pc = "transfer",
                          ![a].msg = future[CHOOSE i \in found : \A j \in found : j <= i].msg]
    /\ UNCHANGED <<msgQueue, future, pool, bDisable, dwMaxNumThreads, history>>

TransferSend(a) ==
    /\ At(a, "transfer") /\ PoolUnlocked
    /\ Insert(loc[a].msg, TRUE)
    /\ loc' = [loc EXCEPT ![a].pc = "add", ![a].ret = "erase"]
    /\ UNCHANGED <<future, bDisable, dwMaxNumThreads, history>>

TransferErase(a) ==
    /\ At(a, "erase")
    /\ LET found == {i \in DOMAIN future : future[i].msg = loc[a].msg} IN
       future' = IF found = {} THEN future ELSE Without(future, First(found))
    /\ loc' = [loc EXCEPT ![a].pc = "scan", ![a].msg = NoMsg, ![a].ret = "none", ![a].real = 0]
    /\ UNCHANGED <<msgQueue, pool, bDisable, dwMaxNumThreads, history>>

-----------------------------------------------------------------------------
(* The owner.                                                              *)

SetMaxThreads ==
    /\ plan = "lower" /\ At(Owner, "ready") /\ dwMaxNumThreads > 1
    /\ dwMaxNumThreads' = 1
    /\ UNCHANGED <<msgQueue, future, pool, loc, bDisable, history>>

(* SearchMessageKill, and SearchMessageBackModify with bDelete: every      *)
(* entry that matches and is not being processed is erased; the others     *)
(* keep their order.                                                       *)
SearchMessageKill(m) ==
    /\ plan = "kill" /\ At(Owner, "ready")
    /\ \E i \in Waiting : msgQueue[i].msg = m
    /\ LET kept == {i \in DOMAIN msgQueue : msgQueue[i].bProcessing \/ msgQueue[i].msg # m}
           size == 1 .. Cardinality(kept)
       IN  \E f \in [size -> kept] :
             /\ \A j, k \in size : j < k => f[j] < f[k]
             /\ \A i \in kept : \E k \in size : f[k] = i
             /\ msgQueue' = [k \in size |-> msgQueue[f[k]]]
    /\ removed' = removed \cup {m}
    /\ UNCHANGED <<future, pool, loc, bDisable, dwMaxNumThreads, plan, unsent, sent, processed>>

(* DeleteOldThreadEntries (GlobalGarbageCollect).                          *)
DeleteOldThreadEntries ==
    /\ plan = "kill" /\ At(Owner, "ready")
    /\ \E t \in Threads : pool[t].life = "inactive"
    /\ pool' = [t \in Threads |-> IF pool[t].life = "inactive" THEN NoWork ELSE pool[t]]
    /\ UNCHANGED <<msgQueue, future, loc, bDisable, dwMaxNumThreads, history>>

(* Terminate and DiscardPool: first no more work items ...                 *)
TerminateBegins ==
    /\ At(Owner, "ready")
    /\ plan \in {"terminate", "discard"}
    /\ bDisable' = TRUE
    /\ Goto(Owner, "kill")
    /\ UNCHANGED <<msgQueue, future, pool, dwMaxNumThreads, history>>

(* ... then KillThreadQueueSRW: every thread is told to end, and waited    *)
(* for; a thread that AddThreads starts meanwhile is told in the next      *)
(* round, after WaitLoopMax waits of a second ...                          *)
KillAll ==
    /\ At(Owner, "kill")
    /\ pool' = [t \in Threads |->
                  IF pool[t].life = "active"
                    THEN [pool[t] EXCEPT !.exit = TRUE, !.signal = TRUE]
                    ELSE pool[t]]
    /\ Goto(Owner, "killwait")
    /\ UNCHANGED <<msgQueue, future, bDisable, dwMaxNumThreads, history>>

Active == {t \in Threads : pool[t].life = "active"}

(* Seeded fault: the threads are told to end only once.                    *)
KillAgainNever == FALSE /\ UNCHANGED poolVars

KillAgain ==
    /\ At(Owner, "killwait")
    /\ Active # {} /\ Active \cap Running # {}
    /\ Goto(Owner, "kill")
    /\ UNCHANGED <<msgQueue, future, pool, bDisable, dwMaxNumThreads, history>>

(* ... until none is active: the lock is dropped ...                       *)
AllStopped ==
    /\ At(Owner, "killwait")
    /\ Active = {}
    /\ Goto(Owner, "clear")
    /\ UNCHANGED <<msgQueue, future, pool, bDisable, dwMaxNumThreads, history>>

(* ... and taken again to clear the list.  The destructor of an entry that *)
(* AddThreads has started in between waits for its thread, under the Pool  *)
(* lock, which the thread needs to end: neither ever goes on.              *)
ClearPool ==
    /\ At(Owner, "clear")
    /\ \/ /\ Active = {}
          /\ pool' = [t \in Threads |-> NoWork]
          /\ Goto(Owner, IF plan = "discard" THEN "discard" ELSE "scan")
       \/ \E t \in Active :
            /\ pool' = [pool EXCEPT ![t].exit = TRUE, ![t].signal = TRUE]
            /\ Goto(Owner, "clearing")
    /\ UNCHANGED <<msgQueue, future, bDisable, dwMaxNumThreads, history>>

DiscardPool ==
    /\ At(Owner, "discard")
    /\ removed' = removed \cup {msgQueue[i].msg : i \in DOMAIN msgQueue}
                           \cup {future[i].msg : i \in DOMAIN future}
    /\ msgQueue' = << >> /\ future' = << >>
    /\ Goto(Owner, "terminated")
    /\ UNCHANGED <<pool, bDisable, dwMaxNumThreads, plan, unsent, sent, processed>>

-----------------------------------------------------------------------------
AddThreads(a) == AddThreadsLimit(a) \/ AddThreadsStart(a)
TransferFutureQueue(a) == TransferScan(a) \/ TransferSend(a) \/ TransferErase(a)

ThreadStep(t) ==
    \/ Wakes(t)
    \/ Pick(t)
    \/ \E ok \in BOOLEAN : DoProcess(t, ok)
    \/ Finish(t)
    \/ SetIdle(t)
    \/ LimitTest(t)
    \/ KillOver(t)
    \/ House(t)
    \/ Cull(t)
    \/ FutureTest(t)
    \/ EndOfWork(t)
    \/ AddThreads(t)
    \/ TransferFutureQueue(t)

ClientStep(c) ==
    \/ \E m \in Messages : SendMessageToPool(c, m) \/ SendMessageToPoolDelayed(c, m)
    \/ SendUnblocked(c)
    \/ SendShutDown(c)
    \/ SendInsert(c)
    \/ SendReturns(c)
    \/ AddThreads(c)

TerminateStep ==
    \/ KillAll
    \/ KillAgain
    \/ AllStopped
    \/ ClearPool
    \/ DiscardPool
    \/ TransferFutureQueue(Owner)
    \/ AddThreads(Owner)

OwnerStep ==
    \/ SetMaxThreads
    \/ \E m \in Messages : SearchMessageKill(m)
    \/ DeleteOldThreadEntries
    \/ TerminateBegins
    \/ TerminateStep

PoolNext ==
    \/ \E t \in Threads : ThreadStep(t)
    \/ \E c \in Clients : ClientStep(c)
    \/ OwnerStep
    \/ TimePasses

PoolSpec == PoolInit /\ [][PoolNext]_poolVars

(* Every thread is scheduled, every wait of a pool thread is timed by its  *)
(* cycle time, and time passes.                                            *)
FairPoolSpec ==
    /\ PoolSpec
    /\ \A t \in Threads : WF_poolVars(ThreadStep(t))
    /\ \A c \in Clients : WF_poolVars(SendUnblocked(c) \/ SendInsert(c) \/ AddThreads(c))
    /\ WF_poolVars(TerminateStep)
    /\ WF_poolVars(TimePasses)

-----------------------------------------------------------------------------
Working(t) ==
    \/ loc[t].pc \in {"process", "finish"}
    \/ loc[t].pc \in {"add", "start"} /\ loc[t].ret = "process"

Together(g, h) == g = h /\ g < AloneBase

(* "only like groups will execute together" (uGrouping): two messages      *)
(* that DoProcess works on at the same time have one group, and it is not  *)
(* one that runs alone, whatever was picked, finished and sent meanwhile.  *)
(* And pMsg, kept over DoProcess without a lock, still points to the       *)
(* thread's own entry and to no other thread's.                            *)
GroupExclusion ==
    /\ \A t, u \in Threads :
         t # u /\ At(t, "process") /\ At(u, "process") =>
            Together(Grouping[loc[t].msg], Grouping[loc[u].msg])
    /\ \A t \in Threads : Working(t) =>
         \E i \in Entry(loc[t].adr) : msgQueue[i].bProcessing /\ msgQueue[i].msg = loc[t].msg
    /\ \A t, u \in Threads : t # u /\ Working(t) /\ Working(u) => loc[t].adr # loc[u].adr

InHands(m) == \E a \in Actors : loc[a].pc \in {"send", "full"} /\ loc[a].msg = m

(* No message is lost between the two queues, the senders and the threads, *)
(* through transfers, refusals of DoProcess and Terminate: one that was    *)
(* sent is queued, about to be, processed, or was taken out on purpose.    *)
NothingLost ==
    \A m \in sent :
        \/ InHands(m)
        \/ \E i \in DOMAIN msgQueue : msgQueue[i].msg = m
        \/ \E i \in DOMAIN future : future[i].msg = m
        \/ processed[m] > 0
        \/ m \in removed

Lowered == plan = "lower" /\ dwMaxNumThreads < MaxThreads
Adding == \E a \in Actors : loc[a].pc \in {"add", "start", "send", "transfer"}

(* "return at least 1 so a thread stays alive to service the Future        *)
(* entries" (GetMinNumThreadsInternal): with work in either queue, and     *)
(* nobody about to start one, there is a thread that is not ending, unless *)
(* the pool is disabled or its maximum was lowered.  The thread that ends  *)
(* for idleness and the client that counts threads may not miss each other.*)
ServiceThread ==
    (msgQueue # << >> \/ future # << >>) /\ ~Adding /\ ~bDisable /\ ~Lowered
        => Running # {}

(* Every message is processed or taken out in the end, the delayed and the *)
(* future ones too, as long as the pool is not disabled and its maximum    *)
(* not lowered.                                                            *)
MessageServiced ==
    <>[](\A m \in sent : \/ processed[m] > 0 \/ m \in removed
                         \/ bDisable \/ Lowered)

(* Terminate and DiscardPool come back, although AddThreads may start      *)
(* threads while they wait for the threads to end, unless one is started   *)
(* in the one place they do not expect it, before the list is cleared.     *)
TerminateReturns == bDisable ~> (At(Owner, "terminated") \/ At(Owner, "clearing"))

(* "this will stop all of the threads BEFORE running the destructor for    *)
(* your derived class": once Terminate has returned, no thread is in, or   *)
(* will enter, a virtual function of that class, although flushing the     *)
(* future queue starts threads again.                                      *)
NoWorkAfterTerminate ==
    At(Owner, "terminated") => \A t \in Threads : ~Working(t) /\ ~At(t, "pick")
=============================================================================
