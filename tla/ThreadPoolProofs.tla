-------------------------- MODULE ThreadPoolProofs --------------------------
(***************************************************************************)
(* Proofs about ThreadPool, for every set of threads, clients, messages    *)
(* and scenarios: messages that do not belong together are not processed   *)
(* together and a thread's entry stays its own (GroupExclusion), no        *)
(* message is lost (NothingLost), and Terminate leaves no thread at work   *)
(* (NoWorkAfterTerminate).                                                 *)
(*                                                                         *)
(* PoolInv is the inductive invariant.  GroupExclusion is about threads in *)
(* DoProcess only; what makes it inductive is that a thread is marked in   *)
(* use, with the group of its message, from the moment it takes the entry  *)
(* to the moment it gives it up, and that an address is used once.         *)
(***************************************************************************)
EXTENDS ThreadPool, FiniteSetTheorems, SequenceTheorems, WellFoundedInduction, TLAPS

Entries == [adr : Nat, msg : Messages, bProcessing : BOOLEAN, due : BOOLEAN]
Later == [msg : Messages, due : BOOLEAN]
Work == [life : {"absent", "inactive", "active"}, exit : BOOLEAN,
         bInUse : BOOLEAN, group : Nat, signal : BOOLEAN]

-----------------------------------------------------------------------------
(* What the invariant says of the local variables r of one thread.         *)

(* The thread has an entry: Working.                                       *)
HasEntry(r) ==
    \/ r.pc \in {"process", "finish"}
    \/ r.pc \in {"add", "start"} /\ r.ret = "process"

(* It has sent a message of the future queue and will erase it there.      *)
WillErase(r) ==
    \/ r.pc = "erase"
    \/ r.pc \in {"add", "start"} /\ r.ret = "erase"

(* It has no entry and, once the pool is disabled, will not take one.      *)
Quiet(r) ==
    \/ r.pc \in {"off", "wait", "end", "house", "cull", "future", "scan", "transfer", "erase"}
    \/ r.pc \in {"add", "start"} /\ r.ret = "erase"

(* msg is the parameter or the local variable of a function.               *)
NeedsMsg(r) ==
    r.pc \in {"send", "full", "transfer"} \/ HasEntry(r) \/ WillErase(r)

(* AddThreads has a caller to return to.                                   *)
Returns(r) == r.pc \in {"add", "start"} => r.ret # "none"

(* The queue has the entry of the thread, marked.                          *)
Marked(q, r) ==
    \E i \in DOMAIN q : q[i].adr = r.adr /\ q[i].bProcessing /\ q[i].msg = r.msg

(* The message is on a queue.                                              *)
On(q, m) == \E i \in DOMAIN q : q[i].msg = m

-----------------------------------------------------------------------------
(* No two nodes of the list have one address.                              *)
DistinctAdr ==
    \A i, j \in DOMAIN msgQueue : msgQueue[i].adr = msgQueue[j].adr => i = j

(* A thread with an entry is in use, in the group of its message, and its  *)
(* entry is on the queue.                                                  *)
EntriesKept ==
    \A t \in Threads : HasEntry(loc[t]) =>
        /\ pool[t].bInUse /\ pool[t].group = Grouping[loc[t].msg]
        /\ Marked(msgQueue, loc[t])

(* No two threads have one entry.                                          *)
EntriesApart ==
    \A t, u \in Threads :
        t # u /\ HasEntry(loc[t]) /\ HasEntry(loc[u]) => loc[t].adr # loc[u].adr

(* The threads in use are in groups that run together.                     *)
GroupsTogether ==
    \A t, u \in Threads :
        t # u /\ pool[t].bInUse /\ pool[u].bInUse => Together(pool[t].group, pool[u].group)

(* A CThreadWork that is not active has no thread.                         *)
Lives == \A t \in Threads : pool[t].life # "active" => loc[t].pc = "off"

(* The local variables of every thread fit the place it is at.             *)
LocalsFit ==
    \A a \in Actors : Returns(loc[a]) /\ (NeedsMsg(loc[a]) => loc[a].msg \in Messages)

(* The message was on MsgQueue, and if it is not any more that is because  *)
(* it was processed or taken out on purpose.                               *)
SafeIn(q, done, out, m) == On(q, m) \/ done[m] > 0 \/ m \in out
Safe(m) == SafeIn(msgQueue, processed, removed, m)

(* What is about to be erased from the future queue is on MsgQueue, and    *)
(* what is about to be erased from MsgQueue was processed.                 *)
ErasedIsSafe ==
    \A a \in Actors :
        /\ WillErase(loc[a]) => Safe(loc[a].msg)
        /\ loc[a].pc = "finish" /\ loc[a].bProcessed => processed[loc[a].msg] > 0

(* While Terminate kills the threads the pool is disabled, and afterwards  *)
(* every thread is quiet, those that flushing the queue starts included.   *)
Stopped ==
    /\ loc[Owner].pc # "ready" => bDisable
    /\ loc[Owner].pc \notin {"ready", "kill", "killwait", "clear", "clearing"} => \A t \in Threads : Quiet(loc[t])

(* The inductive invariant.                                                *)
PoolInv ==
    /\ PoolTypeOK /\ DistinctAdr /\ EntriesKept /\ EntriesApart /\ GroupsTogether
    /\ Lives /\ LocalsFit /\ ErasedIsSafe /\ Stopped /\ NothingLost
(* The entries of the two queues.                                          *)
LEMMA QueueFacts ==
    ASSUME PoolTypeOK
    PROVE  /\ msgQueue \in Seq(Entries) /\ future \in Seq(Later)
           /\ Len(msgQueue) \in Nat /\ DOMAIN msgQueue = 1 .. Len(msgQueue)
           /\ \A i \in DOMAIN msgQueue : msgQueue[i] \in Entries
           /\ Len(future) \in Nat /\ DOMAIN future = 1 .. Len(future)
           /\ \A i \in DOMAIN future : future[i] \in Later
  <1>1. msgQueue \in Seq(Entries) /\ future \in Seq(Later)
    BY DEF PoolTypeOK, Entries, Later
  <1> QED
    BY <1>1
-----------------------------------------------------------------------------
(* What a step must respect, part by part.                                 *)

(* A thread that has an entry afterwards has had it before.                *)
WorkFrame(t) ==
    /\ HasEntry(loc'[t]) =>
         /\ HasEntry(loc[t]) /\ loc'[t].adr = loc[t].adr /\ loc'[t].msg = loc[t].msg
         /\ pool'[t].bInUse /\ Marked(msgQueue', loc'[t])
    /\ pool'[t].bInUse => pool[t].bInUse /\ pool'[t].group = pool[t].group

(* The new local variables of a thread fit its new place.                  *)
ActorFrame(a) ==
    \/ loc'[a] = loc[a]
    \/ /\ Returns(loc'[a]) /\ (NeedsMsg(loc'[a]) => loc'[a].msg \in Messages)
       /\ WillErase(loc'[a]) => SafeIn(msgQueue', processed', removed', loc'[a].msg)
       /\ loc'[a].pc = "finish" /\ loc'[a].bProcessed => processed'[loc'[a].msg] > 0

(* What is safe stays so.                                                  *)
SafeFrame ==
    \A m \in Messages : /\ Safe(m) => SafeIn(msgQueue', processed', removed', m)
                        /\ processed[m] > 0 => processed'[m] > 0

(* The local variables of every actor fit.                                 *)
LEMMA ActorsFit ==
    ASSUME PoolInv, SafeFrame, \A a \in Actors : ActorFrame(a)
    PROVE  LocalsFit' /\ ErasedIsSafe'
  <1>1. LocalsFit'
    <2> SUFFICES ASSUME NEW a \in Actors
                 PROVE  Returns(loc'[a]) /\ (NeedsMsg(loc'[a]) => loc'[a].msg \in Messages)
      BY DEF LocalsFit, Actors
    <2>1. Returns(loc[a]) /\ (NeedsMsg(loc[a]) => loc[a].msg \in Messages)
      BY DEF PoolInv, LocalsFit
    <2>2. ActorFrame(a)
      OBVIOUS
    <2> QED
      BY <2>1, <2>2, Zenon DEF ActorFrame
  <1>2. ErasedIsSafe'
    <2> SUFFICES ASSUME NEW a \in Actors
                 PROVE  /\ WillErase(loc'[a]) =>
                             SafeIn(msgQueue', processed', removed', loc'[a].msg)
                        /\ loc'[a].pc = "finish" /\ loc'[a].bProcessed =>
                             processed'[loc'[a].msg] > 0
      BY DEF ErasedIsSafe, Safe, Actors
    <2>1. ActorFrame(a)
      OBVIOUS
    <2>2. CASE loc'[a] = loc[a]
      <3>1. /\ WillErase(loc[a]) => Safe(loc[a].msg)
            /\ loc[a].pc = "finish" /\ loc[a].bProcessed => processed[loc[a].msg] > 0
        BY DEF PoolInv, ErasedIsSafe
      <3>2. WillErase(loc[a]) \/ loc[a].pc = "finish" => loc[a].msg \in Messages
        BY DEF PoolInv, LocalsFit, NeedsMsg, HasEntry
      <3> QED
        BY <2>2, <3>1, <3>2, Zenon DEF SafeFrame
    <2>3. CASE loc'[a] # loc[a]
      BY <2>1, <2>3, Zenon DEF ActorFrame
    <2> QED
      BY <2>2, <2>3
  <1> QED
    BY <1>1, <1>2

(* A step that respects the parts keeps the invariant.                     *)
LEMMA Frame ==
    ASSUME PoolInv, PoolTypeOK', DistinctAdr', Lives', Stopped', NothingLost', SafeFrame,
           \A t \in Threads : WorkFrame(t), \A a \in Actors : ActorFrame(a)
    PROVE  PoolInv'
  <1>1. EntriesKept'
    <2> SUFFICES ASSUME NEW t \in Threads, HasEntry(loc'[t])
                 PROVE  /\ pool'[t].bInUse /\ pool'[t].group = Grouping[loc'[t].msg]
                        /\ Marked(msgQueue', loc'[t])
      BY DEF EntriesKept
    <2>1. /\ HasEntry(loc[t]) /\ loc'[t].msg = loc[t].msg
          /\ pool'[t].bInUse /\ pool'[t].group = pool[t].group /\ Marked(msgQueue', loc'[t])
      BY DEF WorkFrame
    <2>2. pool[t].group = Grouping[loc[t].msg]
      BY <2>1 DEF PoolInv, EntriesKept
    <2> QED
      BY <2>1, <2>2
  <1>2. EntriesApart'
    <2> SUFFICES ASSUME NEW t \in Threads, NEW u \in Threads, t # u,
                        HasEntry(loc'[t]), HasEntry(loc'[u])
                 PROVE  loc'[t].adr # loc'[u].adr
      BY DEF EntriesApart
    <2>1. /\ HasEntry(loc[t]) /\ loc'[t].adr = loc[t].adr
          /\ HasEntry(loc[u]) /\ loc'[u].adr = loc[u].adr
      BY DEF WorkFrame
    <2> QED
      BY <2>1 DEF PoolInv, EntriesApart
  <1>3. GroupsTogether'
    <2> SUFFICES ASSUME NEW t \in Threads, NEW u \in Threads, t # u,
                        pool'[t].bInUse, pool'[u].bInUse
                 PROVE  Together(pool'[t].group, pool'[u].group)
      BY DEF GroupsTogether
    <2>1. /\ pool[t].bInUse /\ pool'[t].group = pool[t].group
          /\ pool[u].bInUse /\ pool'[u].group = pool[u].group
      BY DEF WorkFrame
    <2>2. Together(pool[t].group, pool[u].group)
      BY <2>1, Zenon DEF PoolInv, GroupsTogether
    <2> QED
      BY <2>1, <2>2
  <1>4. LocalsFit' /\ ErasedIsSafe'
    BY ActorsFit, Zenon
  <1> QED
    BY <1>1, <1>2, <1>3, <1>4, Zenon DEF PoolInv

(* Messages stay where NothingLost looks for them.                         *)
LEMMA LostFrame ==
    ASSUME PoolInv, SafeFrame, sent' \subseteq Messages,
           \A a \in Actors : loc[a].pc \in {"send", "full"} =>
               \/ loc'[a].pc \in {"send", "full"} /\ loc'[a].msg = loc[a].msg
               \/ SafeIn(msgQueue', processed', removed', loc[a].msg),
           \A m \in Messages : On(future, m) =>
               On(future', m) \/ SafeIn(msgQueue', processed', removed', m),
           \A m \in sent' : m \notin sent =>
               \/ On(future', m) \/ SafeIn(msgQueue', processed', removed', m)
               \/ \E a \in Actors : loc'[a].pc \in {"send", "full"} /\ loc'[a].msg = m
    PROVE  NothingLost'
  <1> SUFFICES ASSUME NEW m \in sent'
               PROVE  \/ \E a \in Actors : loc'[a].pc \in {"send", "full"} /\ loc'[a].msg = m
                      \/ On(future', m) \/ SafeIn(msgQueue', processed', removed', m)
    BY DEF NothingLost, InHands, On, SafeIn, Actors
  <1>1. CASE m \notin sent
    BY <1>1
  <1>2. CASE m \in sent
    <2>1. \/ \E a \in Actors : loc[a].pc \in {"send", "full"} /\ loc[a].msg = m
          \/ On(future, m) \/ Safe(m)
      BY <1>2 DEF PoolInv, NothingLost, InHands, On, SafeIn, Safe
    <2>2. CASE \E a \in Actors : loc[a].pc \in {"send", "full"} /\ loc[a].msg = m
      BY <2>2
    <2>3. CASE On(future, m) \/ Safe(m)
      BY <2>3 DEF SafeFrame
    <2> QED
      BY <2>1, <2>2, <2>3
  <1> QED
    BY <1>1, <1>2

(* Quiet threads stay quiet, and the owner goes on only from the end of    *)
(* the killing.                                                            *)
LEMMA StoppedFrame ==
    ASSUME PoolInv, bDisable => bDisable',
           loc'[Owner].pc # "ready" => loc[Owner].pc # "ready" \/ bDisable',
           loc'[Owner].pc \notin {"ready", "kill", "killwait", "clear", "clearing"} =>
               loc[Owner].pc \notin {"ready", "kill", "killwait", "clear", "clearing"},
           \A t \in Threads : bDisable /\ Quiet(loc[t]) => Quiet(loc'[t])
    PROVE  Stopped'
  <1>1. loc'[Owner].pc # "ready" => bDisable'
    BY DEF PoolInv, Stopped
  <1>2. ASSUME loc'[Owner].pc \notin {"ready", "kill", "killwait", "clear", "clearing"}, NEW t \in Threads
        PROVE  Quiet(loc'[t])
    <2>1. bDisable /\ Quiet(loc[t])
      BY <1>2 DEF PoolInv, Stopped
    <2> QED
      BY <2>1
  <1> QED
    BY <1>1, <1>2 DEF Stopped

(* A step of one actor on its local variables.                             *)
Move(a) ==
    /\ \A b \in Actors : b # a => loc'[b] = loc[b]
    /\ a \in Threads => loc[a].pc # "off"
    /\ HasEntry(loc'[a]) =>
         HasEntry(loc[a]) /\ loc'[a].adr = loc[a].adr /\ loc'[a].msg = loc[a].msg
    /\ Returns(loc'[a]) /\ (NeedsMsg(loc'[a]) => loc'[a].msg \in Messages)
    /\ WillErase(loc'[a]) => WillErase(loc[a]) /\ loc'[a].msg = loc[a].msg
    /\ loc'[a].pc = "finish" /\ loc'[a].bProcessed => processed'[loc'[a].msg] > 0
    /\ loc[a].pc \in {"send", "full"} =>
         loc'[a].pc \in {"send", "full"} /\ loc'[a].msg = loc[a].msg
    /\ a \in Threads /\ bDisable /\ Quiet(loc[a]) => Quiet(loc'[a])
    /\ a = Owner =>
         /\ loc'[a].pc # "ready" => loc[a].pc # "ready" \/ bDisable'
         /\ loc'[a].pc \notin {"ready", "kill", "killwait", "clear", "clearing"} =>
              loc[a].pc \notin {"ready", "kill", "killwait", "clear", "clearing"}

(* The CThreadWork entries keep their threads and groups, but for the one  *)
(* of a thread that gives up its entry.                                    *)
WorkMove(a) ==
    \A t \in Threads :
        \/ /\ pool'[t].life = pool[t].life
           /\ pool'[t].bInUse = pool[t].bInUse /\ pool'[t].group = pool[t].group
        \/ /\ t = a /\ ~HasEntry(loc'[t]) /\ ~pool'[t].bInUse
           /\ pool'[t].life # "active" => loc'[t].pc = "off"

LEMMA LocalMove ==
    ASSUME PoolInv, NEW a \in Actors, PoolTypeOK', Move(a), WorkMove(a),
           msgQueue' = msgQueue, future' = future, bDisable => bDisable',
           removed \subseteq removed',
           \A m \in Messages : processed[m] > 0 => processed'[m] > 0,
           \A m \in sent' : m \notin sent =>
               m \in removed' \/ (loc'[a].pc \in {"send", "full"} /\ loc'[a].msg = m)
    PROVE  PoolInv'
  <1>1. DistinctAdr'
    BY DEF PoolInv, DistinctAdr
  <1>2. SafeFrame
    BY DEF SafeFrame, Safe, SafeIn
  <1>3. \A b \in Actors : b # a => loc'[b] = loc[b]
    BY DEF Move
  <1>4. Lives'
    <2> SUFFICES ASSUME NEW t \in Threads, pool'[t].life # "active"
                 PROVE  loc'[t].pc = "off"
      BY DEF Lives
    <2>1. t \in Actors
      BY DEF Actors
    <2>2. pool[t].life # "active" => loc[t].pc = "off"
      BY DEF PoolInv, Lives
    <2> QED
      BY <1>3, <2>1, <2>2 DEF WorkMove, Move
  <1>5. Stopped'
    <2>1. ASSUME NEW t \in Threads, bDisable, Quiet(loc[t])
          PROVE  Quiet(loc'[t])
      BY <1>3, <2>1, Zenon DEF Move, Actors
    <2>2. Owner \in Actors
      BY DEF Actors
    <2>3. /\ loc'[Owner].pc # "ready" => loc[Owner].pc # "ready" \/ bDisable'
          /\ loc'[Owner].pc \notin {"ready", "kill", "killwait", "clear", "clearing"} =>
               loc[Owner].pc \notin {"ready", "kill", "killwait", "clear", "clearing"}
      BY <1>3, <2>2, Zenon DEF Move
    <2> QED
      BY <2>1, <2>3, StoppedFrame, Zenon
  <1>6. NothingLost'
    <2>1. sent' \subseteq Messages
      BY DEF PoolTypeOK
    <2>2. ASSUME NEW b \in Actors, loc[b].pc \in {"send", "full"}
          PROVE  loc'[b].pc \in {"send", "full"} /\ loc'[b].msg = loc[b].msg
      BY <1>3, <2>2, Zenon DEF Move
    <2>3. ASSUME NEW m \in sent', m \notin sent
          PROVE  \/ SafeIn(msgQueue', processed', removed', m)
                 \/ \E b \in Actors : loc'[b].pc \in {"send", "full"} /\ loc'[b].msg = m
      BY <2>3, Zenon DEF SafeIn
    <2> QED
      BY <1>2, <2>1, <2>2, <2>3, LostFrame, Zenon
  <1>7. ASSUME NEW t \in Threads
        PROVE  WorkFrame(t)
    <2>1. t \in Actors
      BY DEF Actors
    <2>2. ASSUME HasEntry(loc'[t])
          PROVE  /\ HasEntry(loc[t]) /\ loc'[t].adr = loc[t].adr /\ loc'[t].msg = loc[t].msg
                 /\ pool[t].bInUse /\ Marked(msgQueue, loc[t])
      <3>1. HasEntry(loc[t]) /\ loc'[t].adr = loc[t].adr /\ loc'[t].msg = loc[t].msg
        BY <1>3, <2>1, <2>2, Zenon DEF Move
      <3> QED
        BY <3>1, Zenon DEF PoolInv, EntriesKept
    <2>3. ASSUME HasEntry(loc'[t])
          PROVE  Marked(msgQueue', loc'[t])
      BY <2>2, <2>3 DEF Marked
    <2> QED
      BY <2>2, <2>3, Zenon DEF WorkFrame, WorkMove
  <1>8. ASSUME NEW b \in Actors
        PROVE  ActorFrame(b)
    <2>1. CASE b # a
      BY <1>3, <2>1 DEF ActorFrame
    <2>2. CASE b = a
      <3>1. WillErase(loc'[a]) => SafeIn(msgQueue', processed', removed', loc'[a].msg)
        <4> SUFFICES ASSUME WillErase(loc'[a])
                     PROVE  SafeIn(msgQueue', processed', removed', loc'[a].msg)
          OBVIOUS
        <4>1. WillErase(loc[a]) /\ loc'[a].msg = loc[a].msg
          BY Zenon DEF Move
        <4>2. Safe(loc[a].msg) /\ loc[a].msg \in Messages
          BY <4>1, Zenon DEF PoolInv, ErasedIsSafe, LocalsFit, NeedsMsg
        <4> QED
          BY <1>2, <4>1, <4>2, Zenon DEF SafeFrame
      <3> QED
        BY <2>2, <3>1, Zenon DEF ActorFrame, Move
    <2> QED
      BY <2>1, <2>2
  <1> QED
    BY <1>1, <1>2, <1>4, <1>5, <1>6, <1>7, <1>8, Frame, Zenon
-----------------------------------------------------------------------------
(* The steps that are moves of one actor.                                  *)

(* Only the place changes.                                                 *)
LEMMA PlaceMoves ==
    ASSUME PoolTypeOK, NEW a \in Actors, NEW p \in Places, loc' = [loc EXCEPT ![a].pc = p]
    PROVE  /\ loc' \in [Actors -> Locals]
           /\ \A b \in Actors : b # a => loc'[b] = loc[b]
           /\ loc'[a].pc = p /\ loc'[a].msg = loc[a].msg /\ loc'[a].adr = loc[a].adr
           /\ loc'[a].ret = loc[a].ret
  BY ZenonT(40) DEF PoolTypeOK, Locals

(* The local variables of one actor change.                                *)
LEMMA LocChanges ==
    ASSUME PoolTypeOK, NEW a \in Actors, NEW r \in Locals, loc' = [loc EXCEPT ![a] = r]
    PROVE  /\ loc' \in [Actors -> Locals]
           /\ \A b \in Actors : b # a => loc'[b] = loc[b]
           /\ loc'[a] = r
  BY DEF PoolTypeOK

LEMMA TimeoutMoves ==
    ASSUME PoolTypeOK, NEW a \in Actors, NEW p \in Places, NEW x \in BOOLEAN,
           loc' = [loc EXCEPT ![a].timeout = x, ![a].pc = p]
    PROVE  /\ loc' \in [Actors -> Locals]
           /\ \A b \in Actors : b # a => loc'[b] = loc[b]
           /\ loc'[a].pc = p
  <1> DEFINE r == [loc[a] EXCEPT !.timeout = x, !.pc = p]
  <1>1. loc' = [loc EXCEPT ![a] = r]
    OBVIOUS
  <1>2. loc[a] \in Locals
    BY DEF PoolTypeOK
  <1>3. r \in Locals /\ r.pc = p
    BY <1>2 DEF Locals
  <1> HIDE DEF r
  <1> QED
    BY <1>1, <1>3, LocChanges

(* Nothing but the threads, their local variables and bDisable changes.    *)
LEMMA TypeKept ==
    ASSUME PoolTypeOK, loc' \in [Actors -> Locals], pool' \in [Threads -> Work],
           UNCHANGED <<msgQueue, future, dwMaxNumThreads, history>>, bDisable' \in BOOLEAN
    PROVE  PoolTypeOK'
  BY DEF PoolTypeOK, history, Work

(* A move by which the actor neither has an entry nor is about to erase or *)
(* to send, and stays quiet if it was.                                     *)
IdlePlaces == {"off", "wait", "pick", "idle", "limit", "over", "house", "cull", "future", "end",
               "scan", "ready", "sent", "kill", "killwait", "clear", "clearing", "terminated"}

LEMMA IdleMove ==
    ASSUME PoolInv, NEW a \in Actors, PoolTypeOK',
           \A b \in Actors : b # a => loc'[b] = loc[b],
           a \in Threads => loc[a].pc # "off",
           loc'[a].pc \in IdlePlaces, loc[a].pc \notin {"send", "full"},
           a \in Threads /\ bDisable /\ Quiet(loc[a]) => Quiet(loc'[a]),
           a = Owner =>
             /\ loc'[a].pc # "ready" => loc[a].pc # "ready" \/ bDisable'
             /\ loc'[a].pc \notin {"ready", "kill", "killwait", "clear", "clearing"} =>
                  loc[a].pc \notin {"ready", "kill", "killwait", "clear", "clearing"},
           WorkMove(a), bDisable => bDisable',
           UNCHANGED <<msgQueue, future, sent, removed, processed>>
    PROVE  PoolInv'
  <1>1. /\ ~HasEntry(loc'[a]) /\ ~WillErase(loc'[a]) /\ ~NeedsMsg(loc'[a])
        /\ Returns(loc'[a]) /\ loc'[a].pc # "finish"
    BY DEF HasEntry, WillErase, NeedsMsg, Returns, IdlePlaces
  <1>2. Move(a)
    BY <1>1, Zenon DEF Move
  <1> QED
    BY <1>2, LocalMove, Zenon

(* A thread that acts is not off, and neither a client nor the owner.      *)
LEMMA OtherKinds ==
    ASSUME NEW t \in Threads
    PROVE  t \in Actors /\ t # Owner
  BY PoolAssumption DEF Actors

LEMMA WakesKeeps ==
    ASSUME PoolInv, NEW t \in Threads, Wakes(t)
    PROVE  PoolInv'
  <1> DEFINE p == IF ~pool[t].exit /\ ~bDisable THEN "pick"
                  ELSE IF pool[t].signal THEN "end" ELSE "house"
  <1>1. /\ PoolTypeOK /\ t \in Actors /\ t # Owner /\ p \in IdlePlaces
        /\ loc[t].pc = "wait"
    BY OtherKinds DEF PoolInv, Wakes, At, IdlePlaces
  <1>2. /\ loc' \in [Actors -> Locals] /\ \A b \in Actors : b # t => loc'[b] = loc[b]
        /\ loc'[t].pc = p
    <2>1. p \in Places /\ (~pool[t].signal) \in BOOLEAN
      BY DEF Places
    <2>2. loc' = [loc EXCEPT ![t].timeout = ~pool[t].signal, ![t].pc = p]
      BY DEF Wakes
    <2> HIDE DEF p
    <2> QED
      BY <1>1, <2>1, <2>2, TimeoutMoves
  <1>3. /\ pool' \in [Threads -> Work]
        /\ \A u \in Threads : /\ pool'[u].life = pool[u].life
                              /\ pool'[u].bInUse = pool[u].bInUse
                              /\ pool'[u].group = pool[u].group
    BY <1>1 DEF Wakes, PoolTypeOK, Work
  <1>4. PoolTypeOK' /\ bDisable' = bDisable /\ UNCHANGED <<msgQueue, future, sent, removed, processed>>
    BY <1>1, <1>2, <1>3, TypeKept DEF Wakes, PoolTypeOK, history
  <1>5. bDisable => Quiet(loc'[t])
    BY <1>2 DEF Quiet
  <1>6. WorkMove(t)
    BY <1>3, Zenon DEF WorkMove
  <1> HIDE DEF p
  <1>7. /\ loc[t].pc # "off" /\ loc'[t].pc \in IdlePlaces /\ loc[t].pc \notin {"send", "full"}
    BY <1>1, <1>2
  <1> QED
    BY <1>1, <1>2, <1>4, <1>5, <1>6, <1>7, IdleMove, Zenon

(* Of the variables a step of this section leaves alone.                   *)
Rest == <<msgQueue, future, sent, removed, processed>>

LEMMA SetIdleKeeps ==
    ASSUME PoolInv, NEW t \in Threads, SetIdle(t)
    PROVE  PoolInv'
  <1>1. PoolTypeOK /\ t \in Actors /\ t # Owner /\ loc[t].pc = "idle"
    BY OtherKinds DEF PoolInv, SetIdle, At
  <1>2. /\ loc' \in [Actors -> Locals] /\ \A b \in Actors : b # t => loc'[b] = loc[b]
        /\ loc'[t].pc = "limit"
    BY <1>1, PlaceMoves DEF SetIdle, Goto, Places
  <1>3. /\ pool' \in [Threads -> Work]
        /\ \A u \in Threads : u # t => pool'[u] = pool[u]
        /\ pool'[t].life = pool[t].life /\ ~pool'[t].bInUse
    <2> DEFINE r == [pool[t] EXCEPT !.bInUse = FALSE, !.group = DontCare]
    <2>1. pool[t] \in Work /\ pool \in [Threads -> Work]
      BY <1>1 DEF PoolTypeOK, Work
    <2>2. pool' = [pool EXCEPT ![t] = r]
      BY DEF SetIdle
    <2>3. r \in Work /\ r.life = pool[t].life /\ ~r.bInUse
      BY <2>1 DEF Work, DontCare
    <2> HIDE DEF r
    <2> QED
      BY <2>1, <2>2, <2>3
  <1>4. PoolTypeOK' /\ bDisable' = bDisable /\ UNCHANGED Rest
    BY <1>1, <1>2, <1>3, TypeKept DEF SetIdle, PoolTypeOK, history, Rest
  <1>5. ~Quiet(loc[t]) /\ ~HasEntry(loc'[t])
    BY <1>1, <1>2 DEF Quiet, HasEntry
  <1>6. pool[t].life = "active"
    BY <1>1 DEF PoolInv, Lives
  <1>7. WorkMove(t)
    BY <1>3, <1>5, <1>6, Zenon DEF WorkMove
  <1>8. /\ loc[t].pc # "off" /\ loc'[t].pc \in IdlePlaces /\ loc[t].pc \notin {"send", "full"}
    BY <1>1, <1>2 DEF IdlePlaces
  <1> QED
    BY <1>1, <1>2, <1>4, <1>5, <1>7, <1>8, IdleMove, Zenon DEF Rest

(* A thread goes on without touching anything but its place.               *)
LEMMA ThreadGoes ==
    ASSUME PoolInv, NEW t \in Threads, NEW p \in IdlePlaces,
           loc' \in [Actors -> Locals], \A b \in Actors : b # t => loc'[b] = loc[b],
           loc'[t].pc = p, loc[t].pc \notin {"off", "send", "full"},
           bDisable /\ Quiet(loc[t]) => Quiet(loc'[t]),
           UNCHANGED <<msgQueue, future, pool, bDisable, dwMaxNumThreads, history>>
    PROVE  PoolInv'
  <1>1. PoolTypeOK /\ t \in Actors /\ t # Owner
    BY OtherKinds DEF PoolInv
  <1>2. pool' \in [Threads -> Work] /\ WorkMove(t)
    BY <1>1 DEF PoolTypeOK, Work, WorkMove
  <1>3. PoolTypeOK' /\ bDisable' = bDisable /\ UNCHANGED Rest
    BY <1>1, <1>2, TypeKept DEF PoolTypeOK, history, Rest
  <1>4. /\ loc[t].pc # "off" /\ loc'[t].pc \in IdlePlaces /\ loc[t].pc \notin {"send", "full"}
    OBVIOUS
  <1>5. /\ t \in Threads /\ bDisable /\ Quiet(loc[t]) => Quiet(loc'[t])
        /\ bDisable => bDisable'
    OBVIOUS
  <1> QED
    BY <1>1, <1>2, <1>3, <1>4, <1>5, IdleMove, Zenon DEF Rest

LEMMA LimitMoves ==
    ASSUME PoolTypeOK, NEW a \in Actors, NEW p \in Places, NEW n \in Int, NEW x \in BOOLEAN,
           loc' = [loc EXCEPT ![a].pc = p, ![a].real = n, ![a].bProcessed = x]
    PROVE  /\ loc' \in [Actors -> Locals]
           /\ \A b \in Actors : b # a => loc'[b] = loc[b]
           /\ loc'[a].pc = p
  <1> DEFINE r == [loc[a] EXCEPT !.pc = p, !.real = n, !.bProcessed = x]
  <1>1. loc' = [loc EXCEPT ![a] = r]
    OBVIOUS
  <1>2. loc[a] \in Locals
    BY DEF PoolTypeOK
  <1>3. r \in Locals /\ r.pc = p
    BY <1>2 DEF Locals
  <1> HIDE DEF r
  <1> QED
    BY <1>1, <1>3, LocChanges

LEMMA LimitTestKeeps ==
    ASSUME PoolInv, NEW t \in Threads, LimitTest(t)
    PROVE  PoolInv'
  <1> DEFINE p == IF GetNumThreads > loc[t].real THEN "over"
                  ELSE IF ~loc[t].bProcessed \/ pool[t].exit \/ bDisable THEN LeaveLoop(t)
                  ELSE "pick"
  <1>1. PoolTypeOK /\ t \in Actors /\ loc[t].pc = "limit"
    BY OtherKinds DEF PoolInv, LimitTest, At
  <1>2. p \in IdlePlaces /\ p \in Places /\ 0 \in Int /\ FALSE \in BOOLEAN
    BY DEF IdlePlaces, Places, LeaveLoop
  <1>3. loc' = [loc EXCEPT ![t].pc = p, ![t].real = 0, ![t].bProcessed = FALSE]
    BY DEF LimitTest
  <1> HIDE DEF p
  <1>4. /\ loc' \in [Actors -> Locals] /\ \A b \in Actors : b # t => loc'[b] = loc[b]
        /\ loc'[t].pc = p
    BY <1>1, <1>2, <1>3, LimitMoves, Zenon
  <1>5. ~Quiet(loc[t]) /\ loc[t].pc \notin {"off", "send", "full"}
    BY <1>1 DEF Quiet
  <1>6. UNCHANGED <<msgQueue, future, pool, bDisable, dwMaxNumThreads, history>>
    BY DEF LimitTest
  <1> QED
    BY <1>2, <1>4, <1>5, <1>6, ThreadGoes, Zenon

LEMMA HouseKeeps ==
    ASSUME PoolInv, NEW t \in Threads, House(t)
    PROVE  PoolInv'
  <1> DEFINE p == IF future = << >> THEN "cull" ELSE "future"
  <1>1. PoolTypeOK /\ t \in Actors /\ loc[t].pc = "house"
    BY OtherKinds DEF PoolInv, House, At
  <1>2. p \in IdlePlaces /\ p \in Places /\ p \in {"cull", "future"}
    BY DEF IdlePlaces, Places
  <1>3. loc' = [loc EXCEPT ![t].pc = p]
    BY DEF House, Goto
  <1> HIDE DEF p
  <1>4. /\ loc' \in [Actors -> Locals] /\ \A b \in Actors : b # t => loc'[b] = loc[b]
        /\ loc'[t].pc = p
    BY <1>1, <1>2, <1>3, PlaceMoves
  <1>5. Quiet(loc'[t]) /\ loc[t].pc \notin {"off", "send", "full"}
    BY <1>1, <1>2, <1>4 DEF Quiet
  <1>6. UNCHANGED <<msgQueue, future, pool, bDisable, dwMaxNumThreads, history>>
    BY DEF House
  <1> QED
    BY <1>2, <1>4, <1>5, <1>6, ThreadGoes, Zenon

LEMMA FutureTestKeeps ==
    ASSUME PoolInv, NEW t \in Threads, FutureTest(t)
    PROVE  PoolInv'
  <1> DEFINE p == IF future = << >> THEN "end" ELSE "scan"
             d == IF future = << >> THEN {}
                  ELSE {future[i].msg : i \in {j \in DOMAIN future : future[j].due}}
             r == [loc[t] EXCEPT !.pc = p, !.due = d]
  <1>1. PoolTypeOK /\ t \in Actors /\ loc[t].pc = "future" /\ loc[t] \in Locals
    BY OtherKinds DEF PoolInv, FutureTest, At, PoolTypeOK
  <1>2. p \in IdlePlaces /\ p \in Places /\ p \in {"end", "scan"}
    BY DEF IdlePlaces, Places
  <1>3. d \in SUBSET Messages
    <2>1. \A i \in DOMAIN future : future[i].msg \in Messages
      BY QueueFacts DEF PoolInv, Later
    <2> QED
      BY <2>1, Zenon
  <1>4. loc' = [loc EXCEPT ![t] = r]
    BY <1>1 DEF FutureTest
  <1> HIDE DEF p, d
  <1>5. r \in Locals /\ r.pc = p
    BY <1>1, <1>2, <1>3 DEF Locals
  <1> HIDE DEF r
  <1>6. /\ loc' \in [Actors -> Locals] /\ \A b \in Actors : b # t => loc'[b] = loc[b]
        /\ loc'[t].pc = p
    BY <1>1, <1>4, <1>5, LocChanges
  <1>7. Quiet(loc'[t]) /\ loc[t].pc \notin {"off", "send", "full"}
    BY <1>1, <1>2, <1>6 DEF Quiet
  <1>8. UNCHANGED <<msgQueue, future, pool, bDisable, dwMaxNumThreads, history>>
    BY DEF FutureTest
  <1> QED
    BY <1>2, <1>6, <1>7, <1>8, ThreadGoes, Zenon

(* A thread goes on and may be told to end, or give up its CThreadWork.    *)
LEMMA ThreadMoves ==
    ASSUME PoolInv, NEW t \in Threads,
           loc' \in [Actors -> Locals], \A b \in Actors : b # t => loc'[b] = loc[b],
           loc'[t].pc \in IdlePlaces, loc[t].pc \notin {"off", "send", "full"},
           Quiet(loc[t]) => Quiet(loc'[t]),
           pool' \in [Threads -> Work], WorkMove(t),
           UNCHANGED <<msgQueue, future, bDisable, dwMaxNumThreads, history>>
    PROVE  PoolInv'
  <1>1. PoolTypeOK /\ t \in Actors /\ t # Owner
    BY OtherKinds DEF PoolInv
  <1>2. PoolTypeOK' /\ bDisable' = bDisable /\ UNCHANGED Rest
    BY <1>1, TypeKept DEF PoolTypeOK, history, Rest
  <1>3. /\ loc[t].pc # "off" /\ loc[t].pc \notin {"send", "full"}
    OBVIOUS
  <1>4. /\ t \in Threads /\ bDisable /\ Quiet(loc[t]) => Quiet(loc'[t])
        /\ bDisable => bDisable'
    OBVIOUS
  <1> QED
    BY <1>1, <1>2, <1>3, <1>4, IdleMove, Zenon DEF Rest

(* KillThread: a thread is told to end.                                    *)
LEMMA ToldToEnd ==
    ASSUME PoolTypeOK, NEW t \in Threads, NEW x \in BOOLEAN,
           pool' = [pool EXCEPT ![t].exit = x, ![t].signal = x]
    PROVE  pool' \in [Threads -> Work] /\ WorkMove(t)
  <1> DEFINE r == [pool[t] EXCEPT !.exit = x, !.signal = x]
  <1>1. pool[t] \in Work /\ pool \in [Threads -> Work]
    BY DEF PoolTypeOK, Work
  <1>2. pool' = [pool EXCEPT ![t] = r]
    BY <1>1
  <1>3. /\ r \in Work /\ r.life = pool[t].life /\ r.bInUse = pool[t].bInUse
        /\ r.group = pool[t].group
    BY <1>1 DEF Work
  <1> HIDE DEF r
  <1>4. pool' \in [Threads -> Work] /\ pool'[t] = r /\ \A u \in Threads : u # t => pool'[u] = pool[u]
    BY <1>1, <1>2, <1>3
  <1> QED
    BY <1>3, <1>4 DEF WorkMove

LEMMA SamePool ==
    ASSUME PoolTypeOK, NEW a \in Actors, UNCHANGED pool
    PROVE  pool' \in [Threads -> Work] /\ WorkMove(a)
  BY DEF PoolTypeOK, Work, WorkMove

LEMMA KillOverKeeps ==
    ASSUME PoolInv, NEW t \in Threads, KillOver(t)
    PROVE  PoolInv'
  <1>1. PoolTypeOK /\ t \in Actors /\ loc[t].pc = "over" /\ TRUE \in BOOLEAN
    BY OtherKinds DEF PoolInv, KillOver, At
  <1>2. LeaveLoop(t) \in Places /\ LeaveLoop(t) \in IdlePlaces
    BY DEF LeaveLoop, Places, IdlePlaces
  <1>3. /\ loc' = [loc EXCEPT ![t].pc = LeaveLoop(t)]
        /\ pool' = [pool EXCEPT ![t].exit = TRUE, ![t].signal = TRUE]
        /\ UNCHANGED <<msgQueue, future, bDisable, dwMaxNumThreads, history>>
    BY DEF KillOver, Goto
  <1>4. /\ loc' \in [Actors -> Locals] /\ \A b \in Actors : b # t => loc'[b] = loc[b]
        /\ loc'[t].pc = LeaveLoop(t)
    BY <1>1, <1>2, <1>3, PlaceMoves
  <1>5. pool' \in [Threads -> Work] /\ WorkMove(t)
    BY <1>1, <1>3, ToldToEnd, Zenon
  <1>6. ~Quiet(loc[t]) /\ loc[t].pc \notin {"off", "send", "full"} /\ loc'[t].pc \in IdlePlaces
    BY <1>1, <1>2, <1>4 DEF Quiet
  <1> QED
    BY <1>3, <1>4, <1>5, <1>6, ThreadMoves, Zenon

LEMMA CullKeeps ==
    ASSUME PoolInv, NEW t \in Threads, Cull(t)
    PROVE  PoolInv'
  <1>1. PoolTypeOK /\ t \in Actors /\ loc[t].pc = "cull" /\ TRUE \in BOOLEAN /\ "future" \in Places
    BY OtherKinds DEF PoolInv, Cull, At, Places
  <1>2. /\ loc' = [loc EXCEPT ![t].pc = "future"]
        /\ UNCHANGED pool \/ pool' = [pool EXCEPT ![t].exit = TRUE, ![t].signal = TRUE]
        /\ UNCHANGED <<msgQueue, future, bDisable, dwMaxNumThreads, history>>
    BY DEF Cull, Goto
  <1>3. /\ loc' \in [Actors -> Locals] /\ \A b \in Actors : b # t => loc'[b] = loc[b]
        /\ loc'[t].pc = "future"
    BY <1>1, <1>2, PlaceMoves
  <1>4. pool' \in [Threads -> Work] /\ WorkMove(t)
    BY <1>1, <1>2, SamePool, ToldToEnd, Zenon
  <1>5. Quiet(loc'[t]) /\ loc[t].pc \notin {"off", "send", "full"} /\ loc'[t].pc \in IdlePlaces
    BY <1>1, <1>3 DEF Quiet, IdlePlaces
  <1> QED
    BY <1>2, <1>3, <1>4, <1>5, ThreadMoves, Zenon

LEMMA NoLocTyped ==
    ASSUME NEW p \in Places
    PROVE  NoLoc(p) \in Locals /\ NoLoc(p).pc = p
  BY DEF NoLoc, Locals

LEMMA NoWorkTyped ==
    ASSUME NEW l \in {"absent", "inactive", "active"}, NEW x \in BOOLEAN, NEW r,
           r = [NoWork EXCEPT !.life = l, !.signal = x]
    PROVE  r \in Work /\ r.life = l /\ ~r.bInUse
  BY DEF NoWork, Work, DontCare

LEMMA EndOfWorkKeeps ==
    ASSUME PoolInv, NEW t \in Threads, EndOfWork(t)
    PROVE  PoolInv'
  <1>1. /\ PoolTypeOK /\ t \in Actors /\ loc[t].pc = "end" /\ "off" \in Places /\ "wait" \in Places
        /\ pool \in [Threads -> Work]
    BY OtherKinds DEF PoolInv, EndOfWork, At, Places, PoolTypeOK, Work
  <1>2. UNCHANGED <<msgQueue, future, bDisable, dwMaxNumThreads, history>>
    BY DEF EndOfWork
  <1>3. CASE pool[t].exit
    <2> DEFINE r == [NoWork EXCEPT !.life = "inactive"]
    <2>1. pool' = [pool EXCEPT ![t] = r] /\ loc' = [loc EXCEPT ![t] = NoLoc("off")]
      BY <1>3 DEF EndOfWork
    <2>2. r \in Work /\ ~r.bInUse
      BY DEF NoWork, Work, DontCare
    <2> HIDE DEF r
    <2>3. NoLoc("off") \in Locals /\ NoLoc("off").pc = "off"
      BY <1>1, NoLocTyped
    <2>4. /\ loc' \in [Actors -> Locals] /\ \A b \in Actors : b # t => loc'[b] = loc[b]
          /\ loc'[t].pc = "off"
      BY <1>1, <2>1, <2>3, LocChanges
    <2>5. /\ pool' \in [Threads -> Work] /\ \A u \in Threads : u # t => pool'[u] = pool[u]
          /\ ~pool'[t].bInUse
      BY <1>1, <2>1, <2>2
    <2>6. /\ Quiet(loc'[t]) /\ loc[t].pc \notin {"off", "send", "full"} /\ loc'[t].pc \in IdlePlaces
          /\ ~HasEntry(loc'[t])
      BY <1>1, <2>4 DEF Quiet, IdlePlaces, HasEntry
    <2>7. WorkMove(t)
      BY <2>4, <2>5, <2>6, Zenon DEF WorkMove
    <2> QED
      BY <1>2, <2>4, <2>5, <2>6, <2>7, ThreadMoves, Zenon
  <1>4. CASE ~pool[t].exit
    <2>1. UNCHANGED pool /\ loc' = [loc EXCEPT ![t] = NoLoc("wait")]
      BY <1>4 DEF EndOfWork
    <2>2. NoLoc("wait") \in Locals /\ NoLoc("wait").pc = "wait"
      BY <1>1, NoLocTyped
    <2>3. /\ loc' \in [Actors -> Locals] /\ \A b \in Actors : b # t => loc'[b] = loc[b]
          /\ loc'[t].pc = "wait"
      BY <1>1, <2>1, <2>2, LocChanges
    <2>4. Quiet(loc'[t]) /\ loc[t].pc \notin {"off", "send", "full"} /\ loc'[t].pc \in IdlePlaces
      BY <1>1, <2>3 DEF Quiet, IdlePlaces
    <2>5. pool' \in [Threads -> Work] /\ WorkMove(t)
      BY <1>1, <2>1, SamePool, Zenon
    <2> QED
      BY <1>2, <2>3, <2>4, <2>5, ThreadMoves, Zenon
  <1> QED
    BY <1>3, <1>4

(* The limit AddThreads computes is a number, if not a positive one.       *)
LEMMA RealType ==
    ASSUME PoolTypeOK
    PROVE  RealMaxThreads \in Int
  <1> DEFINE size == Len(msgQueue)
             x == size - QueueRangeMin
             y == RangeMax - dwMaxNumThreads
             z == QueueRangeMax - QueueRangeMin
  <1>1. /\ QueueRangeMin \in Nat /\ QueueRangeMax \in Nat /\ RangeMax \in Nat
        /\ dwMaxNumThreads \in Nat /\ size \in Nat
    BY PoolAssumption, QueueFacts DEF PoolTypeOK
  <1>2. x \in Int /\ y \in Int /\ z \in Int
    BY <1>1
  <1>3. RealMaxThreads = IF QueueRangeMin = 0 \/ size < QueueRangeMin THEN dwMaxNumThreads
                         ELSE IF size > QueueRangeMax THEN RangeMax
                         ELSE IF QueueRangeMax > QueueRangeMin
                           THEN dwMaxNumThreads + (x * y) \div z
                           ELSE dwMaxNumThreads
    BY DEF RealMaxThreads
  <1>4. QueueRangeMax > QueueRangeMin => z > 0
    BY <1>1
  <1> HIDE DEF x, y, z, size
  <1>5. x * y \in Int
    BY <1>2
  <1>6. z > 0 => (x * y) \div z \in Int
    BY <1>2, <1>5
  <1> QED
    BY <1>1, <1>3, <1>4, <1>6

LEMMA RealMoves ==
    ASSUME PoolTypeOK, NEW a \in Actors, NEW p \in Places, NEW n \in Int,
           loc' = [loc EXCEPT ![a].pc = p, ![a].real = n]
    PROVE  /\ loc' \in [Actors -> Locals]
           /\ \A b \in Actors : b # a => loc'[b] = loc[b]
           /\ loc'[a].pc = p /\ loc'[a].msg = loc[a].msg /\ loc'[a].adr = loc[a].adr
           /\ loc'[a].ret = loc[a].ret
  <1> DEFINE r == [loc[a] EXCEPT !.pc = p, !.real = n]
  <1>1. loc' = [loc EXCEPT ![a] = r]
    OBVIOUS
  <1>2. loc[a] \in Locals
    BY DEF PoolTypeOK
  <1>3. /\ r \in Locals /\ r.pc = p /\ r.msg = loc[a].msg /\ r.adr = loc[a].adr
        /\ r.ret = loc[a].ret
    BY <1>2 DEF Locals
  <1> HIDE DEF r
  <1> QED
    BY <1>1, <1>3, LocChanges

LEMMA AddThreadsLimitKeeps ==
    ASSUME PoolInv, NEW a \in Actors, AddThreadsLimit(a)
    PROVE  PoolInv'
  <1>1. /\ PoolTypeOK /\ loc[a].pc = "add" /\ "start" \in Places /\ RealMaxThreads \in Int
        /\ loc' = [loc EXCEPT ![a].pc = "start", ![a].real = RealMaxThreads]
        /\ UNCHANGED <<msgQueue, future, pool, bDisable, dwMaxNumThreads, history>>
    BY RealType DEF PoolInv, AddThreadsLimit, At, Places
  <1>2. /\ loc' \in [Actors -> Locals]
        /\ \A b \in Actors : b # a => loc'[b] = loc[b]
        /\ loc'[a].pc = "start" /\ loc'[a].msg = loc[a].msg /\ loc'[a].adr = loc[a].adr
        /\ loc'[a].ret = loc[a].ret
    BY <1>1, RealMoves, Zenon
  <1>3. pool' \in [Threads -> Work] /\ WorkMove(a)
    BY <1>1, SamePool, Zenon
  <1>4. /\ PoolTypeOK' /\ UNCHANGED Rest /\ bDisable' = bDisable
        /\ \A m \in Messages : processed[m] > 0 => processed'[m] > 0
        /\ removed \subseteq removed'
    BY <1>1, <1>2, <1>3, TypeKept DEF PoolTypeOK, history, Rest
  <1>5. /\ HasEntry(loc'[a]) = HasEntry(loc[a]) /\ WillErase(loc'[a]) = WillErase(loc[a])
        /\ NeedsMsg(loc'[a]) = NeedsMsg(loc[a]) /\ Quiet(loc'[a]) = Quiet(loc[a])
        /\ Returns(loc'[a]) = Returns(loc[a])
        /\ loc'[a].pc # "finish" /\ loc[a].pc \notin {"off", "send", "full"}
        /\ loc[a].pc \notin {"ready", "kill", "killwait", "clear", "clearing"}
    BY <1>1, <1>2 DEF HasEntry, WillErase, NeedsMsg, Quiet, Returns
  <1>6. Returns(loc[a]) /\ (NeedsMsg(loc[a]) => loc[a].msg \in Messages)
    BY DEF PoolInv, LocalsFit
  <1>7. Move(a)
    BY <1>2, <1>5, <1>6 DEF Move
  <1> QED
    BY <1>3, <1>4, <1>7, LocalMove, Zenon DEF Rest

LEMMA ClientKind ==
    ASSUME NEW c \in Clients
    PROVE  c \in Actors /\ c \notin Threads /\ c # Owner
  BY PoolAssumption DEF Actors

LEMMA MsgMoves ==
    ASSUME PoolTypeOK, NEW a \in Actors, NEW p \in Places, NEW m \in Messages,
           loc' = [loc EXCEPT ![a].pc = p, ![a].msg = m]
    PROVE  /\ loc' \in [Actors -> Locals]
           /\ \A b \in Actors : b # a => loc'[b] = loc[b]
           /\ loc'[a].pc = p /\ loc'[a].msg = m
  <1> DEFINE r == [loc[a] EXCEPT !.pc = p, !.msg = m]
  <1>1. loc' = [loc EXCEPT ![a] = r]
    OBVIOUS
  <1>2. loc[a] \in Locals
    BY DEF PoolTypeOK
  <1>3. r \in Locals /\ r.pc = p /\ r.msg = m
    BY <1>2 DEF Locals
  <1> HIDE DEF r
  <1> QED
    BY <1>1, <1>3, LocChanges

LEMMA SendMessageToPoolKeeps ==
    ASSUME PoolInv, NEW c \in Clients, NEW m \in Messages, SendMessageToPool(c, m)
    PROVE  PoolInv'
  <1>1. /\ PoolTypeOK /\ c \in Actors /\ c \notin Threads /\ c # Owner /\ loc[c].pc = "ready"
        /\ "send" \in Places /\ "full" \in Places
    BY ClientKind DEF PoolInv, SendMessageToPool, At, Places
  <1>2. /\ unsent' = unsent \ {m} /\ sent' = sent \cup {m}
        /\ UNCHANGED <<msgQueue, future, pool, bDisable, dwMaxNumThreads, plan, processed>>
    BY DEF SendMessageToPool
  <1>3. pool' \in [Threads -> Work] /\ WorkMove(c)
    BY <1>1, <1>2, SamePool
  <1>4. CASE /\ loc' = [loc EXCEPT ![c].pc = "send", ![c].msg = m]
                  \/ loc' = [loc EXCEPT ![c].pc = "full", ![c].msg = m]
             /\ UNCHANGED removed
    <2>1. /\ loc' \in [Actors -> Locals] /\ \A b \in Actors : b # c => loc'[b] = loc[b]
          /\ loc'[c].pc \in {"send", "full"} /\ loc'[c].msg = m
      BY <1>1, <1>4, MsgMoves
    <2>2. PoolTypeOK'
      BY <1>1, <1>2, <1>4, <2>1 DEF PoolTypeOK
    <2>3. /\ ~HasEntry(loc'[c]) /\ ~WillErase(loc'[c]) /\ Returns(loc'[c])
          /\ loc'[c].pc # "finish" /\ loc[c].pc \notin {"send", "full"}
      BY <1>1, <2>1 DEF HasEntry, WillErase, Returns
    <2>4. Move(c)
      BY <1>1, <2>1, <2>3, Zenon DEF Move
    <2>5. /\ \A k \in sent' : k \notin sent =>
                k \in removed' \/ (loc'[c].pc \in {"send", "full"} /\ loc'[c].msg = k)
          /\ removed \subseteq removed' /\ (bDisable => bDisable')
          /\ \A k \in Messages : processed[k] > 0 => processed'[k] > 0
      BY <1>2, <1>4, <2>1
    <2> QED
      BY <1>1, <1>2, <1>3, <2>2, <2>4, <2>5, LocalMove, Zenon
  <1>5. CASE removed' = removed \cup {m} /\ UNCHANGED loc
    <2>1. PoolTypeOK'
      BY <1>1, <1>2, <1>5 DEF PoolTypeOK
    <2>2. /\ ~HasEntry(loc'[c]) /\ ~WillErase(loc'[c]) /\ Returns(loc'[c]) /\ ~NeedsMsg(loc'[c])
          /\ loc'[c].pc # "finish" /\ loc[c].pc \notin {"send", "full"}
      BY <1>1, <1>5 DEF HasEntry, WillErase, Returns, NeedsMsg
    <2>3. \A b \in Actors : b # c => loc'[b] = loc[b]
      BY <1>5
    <2>4. Move(c)
      BY <1>1, <2>2, <2>3, Zenon DEF Move
    <2>5. /\ \A k \in sent' : k \notin sent =>
                k \in removed' \/ (loc'[c].pc \in {"send", "full"} /\ loc'[c].msg = k)
          /\ removed \subseteq removed' /\ (bDisable => bDisable')
          /\ \A k \in Messages : processed[k] > 0 => processed'[k] > 0
      BY <1>2, <1>5
    <2> QED
      BY <1>1, <1>2, <1>3, <2>1, <2>4, <2>5, LocalMove, Zenon
  <1> QED
    BY <1>4, <1>5 DEF SendMessageToPool

LEMMA SendUnblockedKeeps ==
    ASSUME PoolInv, NEW c \in Clients, SendUnblocked(c) \/ SendShutDown(c)
    PROVE  PoolInv'
  <1>1. /\ PoolTypeOK /\ c \in Actors /\ c \notin Threads /\ c # Owner /\ loc[c].pc = "full"
        /\ "send" \in Places /\ loc' = [loc EXCEPT ![c].pc = "send"]
        /\ UNCHANGED <<msgQueue, future, pool, bDisable, dwMaxNumThreads, history>>
    BY ClientKind DEF PoolInv, SendUnblocked, SendShutDown, At, Goto, Places
  <1>2. /\ loc' \in [Actors -> Locals] /\ \A b \in Actors : b # c => loc'[b] = loc[b]
        /\ loc'[c].pc = "send" /\ loc'[c].msg = loc[c].msg
    BY <1>1, PlaceMoves, Zenon
  <1>3. pool' \in [Threads -> Work] /\ WorkMove(c)
    BY <1>1, SamePool, Zenon
  <1>4. /\ PoolTypeOK' /\ UNCHANGED Rest /\ bDisable' = bDisable
        /\ \A m \in Messages : processed[m] > 0 => processed'[m] > 0
        /\ removed \subseteq removed'
    BY <1>1, <1>2, <1>3, TypeKept DEF PoolTypeOK, history, Rest
  <1>5. /\ ~HasEntry(loc'[c]) /\ ~WillErase(loc'[c]) /\ Returns(loc'[c])
        /\ loc'[c].pc \in {"send", "full"} /\ loc'[c].pc # "finish" /\ NeedsMsg(loc[c])
    BY <1>1, <1>2 DEF HasEntry, WillErase, Returns, NeedsMsg
  <1>6. loc[c].msg \in Messages
    BY <1>1, <1>5, Zenon DEF PoolInv, LocalsFit
  <1>7. Move(c)
    BY <1>1, <1>2, <1>5, <1>6, Zenon DEF Move
  <1>8. c \in Actors
    BY <1>1
  <1> QED
    BY <1>3, <1>4, <1>7, <1>8, LocalMove, Zenon DEF Rest

LEMMA SendReturnsKeeps ==
    ASSUME PoolInv, NEW c \in Clients, SendReturns(c)
    PROVE  PoolInv'
  <1>1. /\ PoolTypeOK /\ c \in Actors /\ c \notin Threads /\ c # Owner /\ loc[c].pc = "sent"
        /\ "ready" \in Places /\ loc' = [loc EXCEPT ![c] = NoLoc("ready")]
        /\ UNCHANGED <<msgQueue, future, pool, bDisable, dwMaxNumThreads, history>>
    BY ClientKind DEF PoolInv, SendReturns, At, Places
  <1>2. NoLoc("ready") \in Locals /\ NoLoc("ready").pc = "ready"
    BY <1>1, NoLocTyped
  <1>3. /\ loc' \in [Actors -> Locals] /\ \A b \in Actors : b # c => loc'[b] = loc[b]
        /\ loc'[c].pc = "ready"
    BY <1>1, <1>2, LocChanges
  <1>4. pool' \in [Threads -> Work] /\ WorkMove(c)
    BY <1>1, SamePool, Zenon
  <1>5. PoolTypeOK' /\ UNCHANGED Rest /\ bDisable' = bDisable
    BY <1>1, <1>3, <1>4, TypeKept DEF PoolTypeOK, history, Rest
  <1>6. /\ loc'[c].pc \in IdlePlaces /\ loc[c].pc \notin {"send", "full"}
        /\ c \in Actors /\ c \notin Threads /\ c # Owner
    BY <1>1, <1>3 DEF IdlePlaces
  <1> QED
    BY <1>3, <1>4, <1>5, <1>6, IdleMove, Zenon DEF Rest

LEMMA ProcessMoves ==
    ASSUME PoolTypeOK, NEW a \in Actors, NEW p \in Places, NEW x \in BOOLEAN,
           loc' = [loc EXCEPT ![a].pc = p, ![a].bProcessed = x]
    PROVE  /\ loc' \in [Actors -> Locals]
           /\ \A b \in Actors : b # a => loc'[b] = loc[b]
           /\ loc'[a].pc = p /\ loc'[a].msg = loc[a].msg /\ loc'[a].adr = loc[a].adr
           /\ (loc'[a].bProcessed <=> x)
  <1> DEFINE r == [loc[a] EXCEPT !.pc = p, !.bProcessed = x]
  <1>1. loc' = [loc EXCEPT ![a] = r]
    OBVIOUS
  <1>2. loc[a] \in Locals
    BY DEF PoolTypeOK
  <1>3. /\ r \in Locals /\ r.pc = p /\ r.msg = loc[a].msg /\ r.adr = loc[a].adr
        /\ (r.bProcessed <=> x)
    BY <1>2 DEF Locals
  <1> HIDE DEF r
  <1> QED
    BY <1>1, <1>3, LocChanges

LEMMA DoProcessKeeps ==
    ASSUME PoolInv, NEW t \in Threads, NEW ok \in BOOLEAN, DoProcess(t, ok)
    PROVE  PoolInv'
  <1>1. /\ PoolTypeOK /\ t \in Actors /\ t # Owner /\ loc[t].pc = "process"
        /\ "finish" \in Places
    BY OtherKinds DEF PoolInv, DoProcess, At, Places
  <1>2. /\ loc' = [loc EXCEPT ![t].pc = "finish", ![t].bProcessed = ok]
        /\ processed' = [processed EXCEPT ![loc[t].msg] = IF ok THEN @ + 1 ELSE @]
        /\ plan' = IF ok THEN plan ELSE "none"
        /\ UNCHANGED <<msgQueue, future, pool, bDisable, dwMaxNumThreads, unsent, sent, removed>>
    BY DEF DoProcess
  <1>3. HasEntry(loc[t]) /\ loc[t].msg \in Messages /\ ~Quiet(loc[t])
    <2>1. HasEntry(loc[t]) /\ NeedsMsg(loc[t]) /\ ~Quiet(loc[t])
      BY <1>1 DEF HasEntry, NeedsMsg, Quiet
    <2> QED
      BY <1>1, <2>1, Zenon DEF PoolInv, LocalsFit
  <1>4. /\ loc' \in [Actors -> Locals] /\ \A b \in Actors : b # t => loc'[b] = loc[b]
        /\ loc'[t].pc = "finish" /\ loc'[t].msg = loc[t].msg /\ loc'[t].adr = loc[t].adr
        /\ (loc'[t].bProcessed <=> ok)
    BY <1>1, <1>2, ProcessMoves, Zenon
  <1>5. /\ processed' \in [Messages -> Nat]
        /\ \A m \in Messages : processed[m] > 0 => processed'[m] > 0
        /\ ok => processed'[loc[t].msg] > 0
    <2>1. processed \in [Messages -> Nat]
      BY <1>1 DEF PoolTypeOK
    <2> QED
      BY <1>2, <1>3, <2>1
  <1>6. plan' \in Plans
    BY <1>1, <1>2 DEF PoolTypeOK, Plans
  <1>7. PoolTypeOK'
    BY <1>1, <1>2, <1>4, <1>5, <1>6 DEF PoolTypeOK
  <1>8. WorkMove(t)
    BY <1>1, <1>2, SamePool
  <1>9. /\ ~WillErase(loc'[t]) /\ Returns(loc'[t]) /\ loc[t].pc \notin {"send", "full", "off"}
    BY <1>1, <1>4 DEF WillErase, Returns
  <1>10. Move(t)
    BY <1>1, <1>3, <1>4, <1>5, <1>9, Zenon DEF Move
  <1>11. removed \subseteq removed' /\ (bDisable => bDisable')
    BY <1>2
  <1> QED
    BY <1>1, <1>2, <1>5, <1>7, <1>8, <1>10, <1>11, LocalMove, Zenon

(* A set of numbers that is not empty has a least one.                     *)
LEMMA LeastOf ==
    ASSUME NEW S \in SUBSET Nat, S # {}
    PROVE  \E k \in S : \A j \in S : k <= j
  <1> DEFINE less == {ss \in Nat \X Nat : ss[1] < ss[2]}
  <1>1. IsWellFoundedOn(less, Nat)
    BY NatLessThanWellFounded, Zenon DEF OpToRel
  <1>2. PICK k \in S : \A j \in S : ~(<<j, k>> \in less)
    <2> HIDE DEF less
    <2> QED
      BY <1>1, WFMin
  <1>3. ASSUME NEW j \in S
        PROVE  k <= j
    <2>1. j \in Nat /\ k \in Nat /\ <<j, k>> \notin less
      BY <1>2
    <2> QED
      BY <2>1
  <1> QED
    BY <1>3

(* The entry TransferFutureQueue finds is one of the queue.                *)
LEMMA LastOf ==
    ASSUME NEW n \in Nat, NEW S \in SUBSET (1 .. n), S # {}, NEW i,
           i = CHOOSE k \in S : \A j \in S : j <= k
    PROVE  i \in S /\ \A j \in S : j <= i
  <1> DEFINE D == {n - k : k \in S}
  <1>1. D \in SUBSET Nat /\ D # {}
    <2>1. \A k \in S : n - k \in Nat
      OBVIOUS
    <2> QED
      BY <2>1, Zenon
  <1>2. PICK d \in D : \A e \in D : d <= e
    BY <1>1, LeastOf
  <1>3. PICK k \in S : d = n - k
    BY <1>2
  <1>4. \A j \in S : j <= k
    <2> SUFFICES ASSUME NEW j \in S
                 PROVE  j <= k
      OBVIOUS
    <2>1. n - j \in D
      OBVIOUS
    <2>2. n - k <= n - j
      BY <1>2, <1>3, <2>1
    <2> QED
      BY <2>2
  <1> QED
    BY <1>4, Zenon

(* First finds the least.                                                  *)
LEMMA FirstOf ==
    ASSUME NEW n \in Nat, NEW S \in SUBSET (1 .. n), S # {}
    PROVE  First(S) \in S /\ \A j \in S : First(S) <= j
  <1>1. S \in SUBSET Nat
    OBVIOUS
  <1>2. PICK k \in S : \A j \in S : k <= j
    BY <1>1, LeastOf
  <1> QED
    BY <1>2, Zenon DEF First

LEMMA TransferScanKeeps ==
    ASSUME PoolInv, NEW a \in Threads \cup {Owner}, TransferScan(a)
    PROVE  PoolInv'
  <1> DEFINE found == {i \in DOMAIN future : a = Owner \/ future[i].msg \in loc[a].due}
             last == CHOOSE i \in found : \A j \in found : j <= i
             p == IF a = Owner THEN "terminated" ELSE "end"
  <1>1. /\ PoolTypeOK /\ a \in Actors /\ loc[a].pc = "scan"
        /\ "transfer" \in Places /\ p \in Places /\ p \in IdlePlaces /\ p \in {"terminated", "end"}
    BY DEF PoolInv, TransferScan, At, Actors, Places, IdlePlaces
  <1>2. UNCHANGED <<msgQueue, future, pool, bDisable, dwMaxNumThreads, history>>
    BY DEF TransferScan
  <1>3. pool' \in [Threads -> Work] /\ WorkMove(a)
    BY <1>1, <1>2, SamePool
  <1>4. CASE found = {}
    <2>1. loc' = [loc EXCEPT ![a].pc = p]
      BY <1>4 DEF TransferScan, Goto
    <2>2. /\ loc' \in [Actors -> Locals] /\ \A b \in Actors : b # a => loc'[b] = loc[b]
          /\ loc'[a].pc = p
      BY <1>1, <2>1, PlaceMoves
    <2>3. /\ PoolTypeOK' /\ UNCHANGED Rest /\ bDisable' = bDisable
      BY <1>1, <1>2, <1>3, <2>2, TypeKept DEF PoolTypeOK, history, Rest
    <2>4. /\ a \in Threads => Quiet(loc'[a])
          /\ a = Owner => loc[a].pc \notin {"ready", "kill", "killwait", "clear", "clearing"} /\ loc[a].pc # "ready"
          /\ loc'[a].pc \in IdlePlaces /\ loc[a].pc \notin {"send", "full"} /\ loc[a].pc # "off"
      BY <1>1, <2>2, PoolAssumption DEF Quiet
    <2>5. a \in Actors
      BY <1>1
    <2> HIDE DEF p, found, last
    <2> QED
      BY <1>3, <2>2, <2>3, <2>4, <2>5, IdleMove, Zenon DEF Rest
  <1>5. CASE found # {}
    <2> SUFFICES ASSUME NEW m, m = future[last].msg
                 PROVE  PoolInv'
      OBVIOUS
    <2>1. loc' = [loc EXCEPT ![a].pc = "transfer", ![a].msg = m]
      BY <1>5 DEF TransferScan
    <2>2. m \in Messages
      <3>1. Len(future) \in Nat /\ found \in SUBSET (1 .. Len(future))
        BY <1>1, QueueFacts
      <3> HIDE DEF found
      <3>2. last \in found
        BY <1>5, <3>1, LastOf
      <3>3. last \in DOMAIN future
        BY <3>2 DEF found
      <3> HIDE DEF last
      <3> QED
        BY <1>1, <3>3, QueueFacts DEF Later
    <2> HIDE DEF found, last
    <2>3. /\ loc' \in [Actors -> Locals] /\ \A b \in Actors : b # a => loc'[b] = loc[b]
          /\ loc'[a].pc = "transfer" /\ loc'[a].msg = m
      BY <1>1, <2>1, <2>2, MsgMoves, ZenonT(40)
    <2>4. /\ PoolTypeOK' /\ UNCHANGED Rest /\ bDisable' = bDisable /\ removed \subseteq removed'
          /\ \A k \in Messages : processed[k] > 0 => processed'[k] > 0
      BY <1>1, <1>2, <1>3, <2>3, TypeKept DEF PoolTypeOK, history, Rest
    <2>5. /\ Quiet(loc'[a]) /\ ~HasEntry(loc'[a]) /\ ~WillErase(loc'[a]) /\ Returns(loc'[a])
          /\ loc[a].pc \notin {"send", "full"} /\ loc[a].pc # "off" /\ loc'[a].pc # "finish"
          /\ loc[a].pc \notin {"ready", "kill", "killwait", "clear", "clearing"} /\ loc[a].pc # "ready"
      BY <1>1, <2>3 DEF Quiet, HasEntry, WillErase, Returns
    <2>6. Move(a)
      BY <2>2, <2>3, <2>5, Zenon DEF Move
    <2>7. a \in Actors
      BY <1>1
    <2> QED
      BY <1>3, <2>4, <2>6, <2>7, LocalMove, Zenon DEF Rest
  <1> QED
    BY <1>4, <1>5

(* The owner goes on, and may tell the threads to end.                     *)
LEMMA OwnerMoves ==
    ASSUME PoolInv, NEW p \in {"kill", "killwait", "clear", "clearing"}, loc' = [loc EXCEPT ![Owner].pc = p],
           loc[Owner].pc \in {"ready", "kill", "killwait", "clear", "clearing"}, bDisable' \in BOOLEAN, bDisable',
           pool' \in [Threads -> Work], WorkMove(Owner),
           UNCHANGED <<msgQueue, future, dwMaxNumThreads, history>>
    PROVE  PoolInv'
  <1>1. /\ PoolTypeOK /\ Owner \in Actors /\ Owner \notin Threads
        /\ p \in Places /\ p \in IdlePlaces
    BY PoolAssumption DEF PoolInv, Actors, Places, IdlePlaces
  <1>2. /\ loc' \in [Actors -> Locals] /\ \A b \in Actors : b # Owner => loc'[b] = loc[b]
        /\ loc'[Owner].pc = p
    BY <1>1, PlaceMoves
  <1>3. PoolTypeOK' /\ UNCHANGED Rest
    BY <1>1, <1>2, TypeKept DEF PoolTypeOK, history, Rest
  <1>4. /\ loc'[Owner].pc \in IdlePlaces /\ loc[Owner].pc \notin {"send", "full"}
        /\ loc'[Owner].pc \in {"ready", "kill", "killwait", "clear", "clearing"}
    BY <1>1, <1>2
  <1> QED
    BY <1>1, <1>2, <1>3, <1>4, IdleMove, Zenon DEF Rest

LEMMA TerminateBeginsKeeps ==
    ASSUME PoolInv, TerminateBegins
    PROVE  PoolInv'
  <1>1. /\ loc[Owner].pc = "ready" /\ bDisable' = TRUE /\ loc' = [loc EXCEPT ![Owner].pc = "kill"]
        /\ UNCHANGED <<msgQueue, future, dwMaxNumThreads, history>> /\ UNCHANGED pool
    BY DEF TerminateBegins, At, Goto
  <1>2. PoolTypeOK /\ Owner \in Actors
    BY DEF PoolInv, Actors
  <1>3. pool' \in [Threads -> Work] /\ WorkMove(Owner)
    BY <1>1, <1>2, SamePool
  <1> QED
    BY <1>1, <1>3, OwnerMoves

LEMMA KillAgainKeeps ==
    ASSUME PoolInv, KillAgain
    PROVE  PoolInv'
  <1>1. /\ loc[Owner].pc = "killwait" /\ loc' = [loc EXCEPT ![Owner].pc = "kill"]
        /\ UNCHANGED <<msgQueue, future, dwMaxNumThreads, history>> /\ UNCHANGED <<pool, bDisable>>
    BY DEF KillAgain, At, Goto
  <1>2. PoolTypeOK /\ Owner \in Actors /\ bDisable /\ bDisable \in BOOLEAN
    BY <1>1 DEF PoolInv, Actors, Stopped, PoolTypeOK
  <1>3. pool' \in [Threads -> Work] /\ WorkMove(Owner)
    BY <1>1, <1>2, SamePool
  <1> QED
    BY <1>1, <1>2, <1>3, OwnerMoves

LEMMA AllStoppedKeeps ==
    ASSUME PoolInv, AllStopped
    PROVE  PoolInv'
  <1>1. /\ loc[Owner].pc = "killwait" /\ loc' = [loc EXCEPT ![Owner].pc = "clear"]
        /\ UNCHANGED <<msgQueue, future, dwMaxNumThreads, history>> /\ UNCHANGED <<pool, bDisable>>
    BY DEF AllStopped, At, Goto
  <1>2. PoolTypeOK /\ Owner \in Actors /\ bDisable /\ bDisable \in BOOLEAN
    BY <1>1 DEF PoolInv, Actors, Stopped, PoolTypeOK
  <1>3. pool' \in [Threads -> Work] /\ WorkMove(Owner)
    BY <1>1, <1>2, SamePool
  <1> QED
    BY <1>1, <1>2, <1>3, OwnerMoves

(* The list is cleared while a thread is active: it is told to end.        *)
LEMMA ClearingKeeps ==
    ASSUME PoolInv, ClearPool, Active # {}
    PROVE  PoolInv'
  <1>1. /\ loc[Owner].pc = "clear" /\ loc' = [loc EXCEPT ![Owner].pc = "clearing"]
        /\ UNCHANGED <<msgQueue, future, dwMaxNumThreads, history>> /\ UNCHANGED <<bDisable>>
    BY DEF ClearPool, At, Goto
  <1>2. PICK u \in Threads : pool' = [pool EXCEPT ![u].exit = TRUE, ![u].signal = TRUE]
    BY DEF ClearPool, Active
  <1>3. PoolTypeOK /\ Owner \in Actors /\ bDisable /\ bDisable \in BOOLEAN
    BY <1>1 DEF PoolInv, Actors, Stopped, PoolTypeOK
  <1>4. pool \in [Threads -> Work]
    BY <1>3 DEF PoolTypeOK, Work
  <1>5. ASSUME NEW t \in Threads
        PROVE  /\ pool'[t] \in Work /\ pool'[t].life = pool[t].life
               /\ pool'[t].bInUse = pool[t].bInUse /\ pool'[t].group = pool[t].group
    <2>1. pool[t] \in Work
      BY <1>4
    <2>2. pool'[t] = IF t = u THEN [pool[t] EXCEPT !.exit = TRUE, !.signal = TRUE] ELSE pool[t]
      BY <1>2, <1>4
    <2> QED
      BY <2>1, <2>2 DEF Work
  <1>6. pool' \in [Threads -> Work]
    BY <1>2, <1>4, <1>5
  <1>7. WorkMove(Owner)
    BY <1>5, Zenon DEF WorkMove
  <1> QED
    BY <1>1, <1>3, <1>6, <1>7, OwnerMoves

LEMMA KillAllKeeps ==
    ASSUME PoolInv, KillAll
    PROVE  PoolInv'
  <1>1. /\ loc[Owner].pc = "kill" /\ loc' = [loc EXCEPT ![Owner].pc = "killwait"]
        /\ UNCHANGED <<msgQueue, future, dwMaxNumThreads, history>> /\ UNCHANGED <<bDisable>>
        /\ pool' = [t \in Threads |->
                      IF pool[t].life = "active"
                        THEN [pool[t] EXCEPT !.exit = TRUE, !.signal = TRUE] ELSE pool[t]]
    BY DEF KillAll, At, Goto
  <1>2. PoolTypeOK /\ Owner \in Actors /\ bDisable /\ bDisable \in BOOLEAN
    BY <1>1 DEF PoolInv, Actors, Stopped, PoolTypeOK
  <1>3. ASSUME NEW t \in Threads
        PROVE  /\ pool'[t] \in Work /\ pool'[t].life = pool[t].life
               /\ pool'[t].bInUse = pool[t].bInUse /\ pool'[t].group = pool[t].group
    <2>1. pool[t] \in Work
      BY <1>2 DEF PoolTypeOK, Work
    <2> QED
      BY <1>1, <2>1 DEF Work
  <1>4. pool' \in [Threads -> Work]
    BY <1>1, <1>3
  <1>5. WorkMove(Owner)
    BY <1>3, Zenon DEF WorkMove
  <1> QED
    BY <1>1, <1>2, <1>4, <1>5, OwnerMoves
-----------------------------------------------------------------------------
(* The steps that change nothing in the actors' local variables.           *)

(* Local variables stay: what remains of the frame.                        *)
LEMMA LocStays ==
    ASSUME PoolInv, PoolTypeOK', UNCHANGED loc, bDisable => bDisable'
    PROVE  Stopped' /\ \A a \in Actors : ActorFrame(a)
  <1>1. Stopped'
    <2>1. \A t \in Threads : Quiet(loc[t]) => Quiet(loc'[t])
      OBVIOUS
    <2>2. loc'[Owner] = loc[Owner]
      OBVIOUS
    <2> QED
      BY <2>1, <2>2, StoppedFrame, Zenon
  <1> QED
    BY <1>1 DEF ActorFrame

(* The entries of the threads stay when theirs are still on the queue and  *)
(* the threads in use stay so.                                             *)
LEMMA WorkStays ==
    ASSUME PoolInv, NEW t \in Threads, loc'[t] = loc[t],
           Marked(msgQueue, loc[t]) => Marked(msgQueue', loc[t]),
           \/ pool'[t].bInUse = pool[t].bInUse /\ pool'[t].group = pool[t].group
           \/ ~HasEntry(loc[t]) /\ ~pool'[t].bInUse
    PROVE  WorkFrame(t)
  <1>1. HasEntry(loc[t]) => pool[t].bInUse /\ Marked(msgQueue, loc[t])
    BY Zenon DEF PoolInv, EntriesKept
  <1>2. HasEntry(loc'[t]) => Marked(msgQueue', loc'[t])
    BY <1>1
  <1> QED
    BY <1>1, <1>2, Zenon DEF WorkFrame

LEMMA SetMaxThreadsKeeps ==
    ASSUME PoolInv, SetMaxThreads
    PROVE  PoolInv'
  <1>1. /\ dwMaxNumThreads' = 1
        /\ UNCHANGED <<msgQueue, future, pool, loc, bDisable, plan, unsent, sent, removed, processed>>
    BY DEF SetMaxThreads, history
  <1>2. PoolTypeOK'
    BY <1>1 DEF PoolInv, PoolTypeOK
  <1> QED
    BY <1>1, <1>2 DEF PoolInv, DistinctAdr, EntriesKept, EntriesApart, GroupsTogether, Lives,
       LocalsFit, ErasedIsSafe, Stopped, NothingLost, InHands, Safe

LEMMA StutterKeeps ==
    ASSUME PoolInv, UNCHANGED poolVars
    PROVE  PoolInv'
  <1>1. UNCHANGED <<msgQueue, future, pool, loc, bDisable, dwMaxNumThreads, plan, unsent,
                    sent, removed, processed>>
    BY DEF poolVars
  <1> QED
    BY <1>1 DEF PoolInv, PoolTypeOK, DistinctAdr, EntriesKept, EntriesApart, GroupsTogether, Lives,
       LocalsFit, ErasedIsSafe, Stopped, NothingLost, InHands, Safe

(* Entries of CThreadWork are replaced that have no thread.                *)
LEMMA EmptiedKeeps ==
    ASSUME PoolInv, PoolTypeOK', UNCHANGED <<msgQueue, future, sent, removed, processed>>,
           UNCHANGED loc, bDisable' = bDisable,
           \A t \in Threads : pool'[t] = pool[t]
                              \/ (pool[t].life # "active" /\ ~pool'[t].bInUse)
    PROVE  PoolInv'
  <1>1. DistinctAdr' /\ NothingLost'
    BY DEF PoolInv, DistinctAdr, NothingLost, InHands
  <1>2. SafeFrame
    BY DEF SafeFrame, Safe
  <1>3. Stopped' /\ \A a \in Actors : ActorFrame(a)
    BY LocStays
  <1>4. ASSUME NEW t \in Threads
        PROVE  WorkFrame(t) /\ (pool'[t].life # "active" => loc'[t].pc = "off")
    <2>1. pool[t].life # "active" => loc[t].pc = "off"
      BY DEF PoolInv, Lives
    <2>2. loc[t].pc = "off" => ~HasEntry(loc[t])
      BY DEF HasEntry
    <2>3. loc'[t] = loc[t] /\ (Marked(msgQueue, loc[t]) => Marked(msgQueue', loc[t]))
      OBVIOUS
    <2>4. WorkFrame(t)
      BY <2>1, <2>2, <2>3, WorkStays, Zenon
    <2> QED
      BY <2>1, <2>3, <2>4
  <1>5. Lives'
    BY <1>4, Zenon DEF Lives
  <1> QED
    BY <1>1, <1>2, <1>3, <1>4, <1>5, Frame, Zenon

LEMMA DeleteOldKeeps ==
    ASSUME PoolInv, DeleteOldThreadEntries
    PROVE  PoolInv'
  <1>1. /\ pool' = [t \in Threads |-> IF pool[t].life = "inactive" THEN NoWork ELSE pool[t]]
        /\ UNCHANGED <<msgQueue, future, loc, bDisable, dwMaxNumThreads, plan, unsent, sent,
                       removed, processed>>
    BY DEF DeleteOldThreadEntries, history
  <1>2. NoWork \in Work /\ ~NoWork.bInUse
    BY DEF NoWork, Work, DontCare
  <1>3. PoolTypeOK /\ pool \in [Threads -> Work]
    BY DEF PoolInv, PoolTypeOK, Work
  <1>4. pool' \in [Threads -> Work]
    BY <1>1, <1>2, <1>3
  <1>5. PoolTypeOK'
    BY <1>1, <1>3, <1>4 DEF PoolTypeOK, Work
  <1>6. \A t \in Threads : pool'[t] = pool[t] \/ (pool[t].life # "active" /\ ~pool'[t].bInUse)
    BY <1>1, <1>2
  <1> QED
    BY <1>1, <1>5, <1>6, EmptiedKeeps

LEMMA ClearedKeeps ==
    ASSUME PoolInv, ClearPool, Active = {}
    PROVE  PoolInv'
  <1> DEFINE p == IF plan = "discard" THEN "discard" ELSE "scan"
  <1>1. /\ loc[Owner].pc = "clear" /\ Active = {} /\ pool' = [t \in Threads |-> NoWork]
        /\ loc' = [loc EXCEPT ![Owner].pc = p]
        /\ UNCHANGED <<msgQueue, future, bDisable, dwMaxNumThreads, plan, unsent, sent, removed,
                       processed>>
    BY DEF ClearPool, At, Goto, history
  <1>2. /\ PoolTypeOK /\ Owner \in Actors /\ Owner \notin Threads
        /\ p \in Places /\ p \in {"discard", "scan"}
    BY PoolAssumption DEF PoolInv, Actors, Places
  <1> HIDE DEF p
  <1>3. /\ loc' \in [Actors -> Locals] /\ \A b \in Actors : b # Owner => loc'[b] = loc[b]
        /\ loc'[Owner].pc = p
    BY <1>1, <1>2, PlaceMoves, Zenon
  <1>4. NoWork \in Work /\ ~NoWork.bInUse
    BY DEF NoWork, Work, DontCare
  <1>5. pool' \in [Threads -> Work] /\ \A t \in Threads : ~pool'[t].bInUse
    BY <1>1, <1>4
  <1>6. PoolTypeOK'
    BY <1>1, <1>2, <1>3, <1>5 DEF PoolTypeOK, Work
  <1>7. ASSUME NEW t \in Threads
        PROVE  loc'[t].pc = "off" /\ ~HasEntry(loc'[t]) /\ Quiet(loc'[t])
    <2>1. pool[t].life # "active"
      BY <1>1 DEF Active
    <2>2. loc[t].pc = "off"
      BY <2>1 DEF PoolInv, Lives
    <2>3. t \in Actors /\ t # Owner
      BY OtherKinds
    <2>4. loc'[t].pc = "off"
      BY <1>3, <2>2, <2>3
    <2> QED
      BY <2>4 DEF HasEntry, Quiet
  <1>8. DistinctAdr' /\ SafeFrame
    BY <1>1 DEF PoolInv, DistinctAdr, SafeFrame, Safe
  <1>9. Lives'
    BY <1>7, Zenon DEF Lives
  <1>10. Stopped'
    <2>1. bDisable'
      BY <1>1 DEF PoolInv, Stopped
    <2> QED
      BY <1>7, <2>1, Zenon DEF Stopped
  <1>11. NothingLost'
    <2>1. sent' \subseteq Messages
      BY <1>6 DEF PoolTypeOK
    <2>2. loc[Owner].pc \notin {"send", "full"}
      BY <1>1
    <2>3. ASSUME NEW b \in Actors, loc[b].pc \in {"send", "full"}
          PROVE  loc'[b].pc \in {"send", "full"} /\ loc'[b].msg = loc[b].msg
      BY <1>3, <2>2, <2>3, Zenon
    <2>4. /\ \A m \in Messages : On(future, m) => On(future', m)
          /\ sent' = sent
      BY <1>1
    <2> QED
      BY <1>8, <2>1, <2>3, <2>4, LostFrame, Zenon
  <1>12. ASSUME NEW t \in Threads
         PROVE  WorkFrame(t)
    BY <1>5, <1>7, Zenon DEF WorkFrame
  <1>13. ASSUME NEW a \in Actors
         PROVE  ActorFrame(a)
    <2>1. CASE a # Owner
      BY <1>3, <2>1, Zenon DEF ActorFrame
    <2>2. CASE a = Owner
      <3>1. /\ ~NeedsMsg(loc'[a]) /\ ~WillErase(loc'[a]) /\ Returns(loc'[a])
            /\ loc'[a].pc # "finish"
        BY <1>2, <1>3, <2>2 DEF NeedsMsg, WillErase, HasEntry, Returns
      <3> QED
        BY <3>1, Zenon DEF ActorFrame
    <2> QED
      BY <2>1, <2>2
  <1> QED
    BY <1>6, <1>8, <1>9, <1>10, <1>11, <1>12, <1>13, Frame, Zenon

(* AddThreads starts threads where there are none.                         *)
LEMMA AddThreadsStartKeeps ==
    ASSUME PoolInv, NEW a \in Actors, AddThreadsStart(a)
    PROVE  PoolInv'
  <1> SUFFICES ASSUME NEW new,
                      new = {t \in Startable : Cardinality({u \in Startable : u < t})
                                                 < ThreadsToStart(loc[a].real)}
               PROVE  PoolInv'
    OBVIOUS
  <1>1. /\ loc[a].pc = "start"
        /\ pool' = [t \in Threads |->
                      IF t \in new THEN [NoWork EXCEPT !.life = "active", !.signal = TRUE]
                      ELSE pool[t]]
        /\ loc' = [b \in Actors |-> IF b \in new THEN NoLoc("wait")
                     ELSE IF b = a THEN [loc[a] EXCEPT !.pc = loc[a].ret] ELSE loc[b]]
        /\ UNCHANGED <<msgQueue, future, bDisable, dwMaxNumThreads, plan, unsent, sent, removed,
                       processed>>
    BY DEF AddThreadsStart, StartNewThreads, At, history
  <1>2. ASSUME NEW t \in new
        PROVE  t \in Threads /\ loc[t].pc = "off"
    BY DEF Startable, PoolInv, Lives
  <1>3. /\ PoolTypeOK /\ loc[a] \in Locals /\ Returns(loc[a]) /\ a \notin new
        /\ (NeedsMsg(loc[a]) => loc[a].msg \in Messages)
    BY <1>1, <1>2 DEF PoolInv, PoolTypeOK, LocalsFit
  <1> SUFFICES ASSUME NEW r, r = [loc[a] EXCEPT !.pc = loc[a].ret],
                      NEW n, n = [NoWork EXCEPT !.life = "active", !.signal = TRUE]
               PROVE  PoolInv'
    OBVIOUS
  <1>4. /\ r \in Locals /\ r.pc = loc[a].ret /\ r.msg = loc[a].msg /\ r.adr = loc[a].adr
        /\ r.pc \in {"process", "erase", "sent"}
    <2>1. loc[a].ret \in {"process", "erase", "sent"}
      BY <1>1, <1>3 DEF Returns, Locals
    <2>2. loc[a].ret \in Places
      BY <2>1 DEF Places
    <2> QED
      BY <1>3, <2>1, <2>2 DEF Locals
  <1>5. n \in Work /\ n.life = "active" /\ ~n.bInUse
    BY NoWorkTyped DEF NoWork, Work, DontCare
  <1>6. NoLoc("wait") \in Locals /\ NoLoc("wait").pc = "wait"
    BY NoLocTyped DEF Places
  <1>7. /\ pool' = [t \in Threads |-> IF t \in new THEN n ELSE pool[t]]
        /\ loc' = [b \in Actors |-> IF b \in new THEN NoLoc("wait")
                                    ELSE IF b = a THEN r ELSE loc[b]]
    BY <1>1
  <1>8. loc' \in [Actors -> Locals] /\ pool' \in [Threads -> Work]
    BY <1>3, <1>4, <1>5, <1>6, <1>7 DEF PoolTypeOK, Work
  <1>9. PoolTypeOK'
    BY <1>1, <1>3, <1>8 DEF PoolTypeOK, Work
  <1>10. /\ loc'[a] = r
         /\ \A b \in Actors : b # a /\ b \notin new => loc'[b] = loc[b]
         /\ \A b \in new : loc'[b].pc = "wait"
         /\ \A t \in Threads : t \notin new => pool'[t] = pool[t]
         /\ \A t \in new : pool'[t].life = "active" /\ ~pool'[t].bInUse
         /\ new \subseteq Threads
    BY <1>2, <1>3, <1>5, <1>6, <1>7 DEF Actors
  <1>11. /\ HasEntry(r) = HasEntry(loc[a]) /\ WillErase(r) = WillErase(loc[a])
         /\ Returns(r) /\ (NeedsMsg(r) => r.msg \in Messages) /\ r.pc # "finish"
         /\ (Quiet(loc[a]) => Quiet(r)) /\ loc[a].pc \notin {"send", "full", "off"}
         /\ loc[a].pc \notin {"ready", "kill", "killwait", "clear", "clearing"}
    BY <1>1, <1>3, <1>4 DEF HasEntry, WillErase, Returns, NeedsMsg, Quiet
  <1>12. ASSUME NEW b \in new
         PROVE  /\ ~HasEntry(loc'[b]) /\ ~WillErase(loc'[b]) /\ Returns(loc'[b])
                /\ ~NeedsMsg(loc'[b]) /\ loc'[b].pc # "finish" /\ Quiet(loc'[b])
    BY <1>10 DEF HasEntry, WillErase, Returns, NeedsMsg, Quiet
  <1>13. DistinctAdr' /\ SafeFrame
    BY <1>1 DEF PoolInv, DistinctAdr, SafeFrame, Safe
  <1>14. Lives'
    <2> SUFFICES ASSUME NEW t \in Threads, pool'[t].life # "active"
                 PROVE  loc'[t].pc = "off"
      BY DEF Lives
    <2>1. t \notin new /\ pool[t].life # "active" /\ t \in Actors
      BY <1>10 DEF Actors
    <2>2. loc[t].pc = "off" /\ t # a
      BY <1>11, <2>1 DEF PoolInv, Lives
    <2> QED
      BY <1>10, <2>1, <2>2
  <1>15. Stopped'
    <2>1. Owner \in Actors /\ Owner \notin new
      BY <1>10, PoolAssumption DEF Actors
    <2>2. ASSUME NEW t \in Threads, Quiet(loc[t])
          PROVE  Quiet(loc'[t])
      BY <1>10, <1>11, <1>12, <2>2, Zenon DEF Actors
    <2>3. /\ loc'[Owner].pc # "ready" => loc[Owner].pc # "ready"
          /\ loc'[Owner].pc \notin {"ready", "kill", "killwait", "clear", "clearing"} =>
               loc[Owner].pc \notin {"ready", "kill", "killwait", "clear", "clearing"}
      BY <1>10, <1>11, <2>1
    <2>4. bDisable => bDisable'
      BY <1>1
    <2> QED
      BY <2>2, <2>3, <2>4, StoppedFrame, Zenon
  <1>16. NothingLost'
    <2>1. sent' \subseteq Messages
      BY <1>9 DEF PoolTypeOK
    <2>2. ASSUME NEW b \in Actors, loc[b].pc \in {"send", "full"}
          PROVE  loc'[b].pc \in {"send", "full"} /\ loc'[b].msg = loc[b].msg
      BY <1>2, <1>10, <1>11, <2>2
    <2>3. /\ \A m \in Messages : On(future, m) => On(future', m)
          /\ sent' = sent
      BY <1>1
    <2> QED
      BY <1>13, <2>1, <2>2, <2>3, LostFrame, Zenon
  <1>17. ASSUME NEW t \in Threads
         PROVE  WorkFrame(t)
    <2>1. CASE t \in new
      BY <1>10, <1>12, <2>1, Zenon DEF WorkFrame
    <2>2. CASE t \notin new
      <3>1. /\ HasEntry(loc'[t]) => HasEntry(loc[t])
            /\ loc'[t].adr = loc[t].adr /\ loc'[t].msg = loc[t].msg /\ pool'[t] = pool[t]
        BY <1>4, <1>10, <1>11, <2>2, Zenon DEF Actors
      <3>2. HasEntry(loc'[t]) => Marked(msgQueue', loc'[t]) /\ pool[t].bInUse
        BY <1>1, <3>1 DEF PoolInv, EntriesKept, Marked
      <3> QED
        BY <3>1, <3>2 DEF WorkFrame
    <2> QED
      BY <2>1, <2>2
  <1>18. ASSUME NEW b \in Actors
         PROVE  ActorFrame(b)
    <2>1. CASE b \in new
      BY <1>12, <2>1, Zenon DEF ActorFrame
    <2>2. CASE b \notin new /\ b # a
      BY <1>10, <2>2, Zenon DEF ActorFrame
    <2>3. CASE b = a
      <3>1. WillErase(loc'[a]) => Safe(loc[a].msg)
        BY <1>10, <1>11 DEF PoolInv, ErasedIsSafe
      <3>2. WillErase(loc'[a]) => SafeIn(msgQueue', processed', removed', loc'[a].msg)
        BY <1>1, <1>4, <1>10, <3>1 DEF Safe
      <3> QED
        BY <1>10, <1>11, <2>3, <3>2, Zenon DEF ActorFrame
    <2> QED
      BY <2>1, <2>2, <2>3
  <1> QED
    BY <1>9, <1>13, <1>14, <1>15, <1>16, <1>17, <1>18, Frame, Zenon
-----------------------------------------------------------------------------
(* The steps that change the queues.                                       *)

(* There is an address that is not in use, and FreeAddress is one.         *)
LEMMA FreshAddress ==
    ASSUME PoolTypeOK
    PROVE  FreeAddress \in Nat /\ \A i \in DOMAIN msgQueue : msgQueue[i].adr # FreeAddress
  <1> DEFINE n == Len(msgQueue)
             used == {msgQueue[i].adr : i \in DOMAIN msgQueue}
             f == [i \in 1 .. n |-> msgQueue[i].adr]
  <1>1. n \in Nat /\ DOMAIN msgQueue = 1 .. n
    BY QueueFacts
  <1>2. f \in Surjection(1 .. n, used)
    BY <1>1, Zenon DEF Surjection
  <1> HIDE DEF n, f, used
  <1>3. IsFiniteSet(1 .. n) /\ Cardinality(1 .. n) = n
    <2>1. 1 \in Int /\ n \in Int /\ (IF 1 > n THEN 0 ELSE n - 1 + 1) = n
      BY <1>1
    <2>2. IsFiniteSet(1 .. n) /\ Cardinality(1 .. n) = IF 1 > n THEN 0 ELSE n - 1 + 1
      BY <2>1, FS_Interval
    <2> QED
      BY <2>1, <2>2
  <1>4. IsFiniteSet(1 .. n + 1) /\ Cardinality(1 .. n + 1) = n + 1
    <2>1. /\ 1 \in Int /\ n + 1 \in Int
          /\ (IF 1 > n + 1 THEN 0 ELSE (n + 1) - 1 + 1) = n + 1
      BY <1>1
    <2>2. /\ IsFiniteSet(1 .. n + 1)
          /\ Cardinality(1 .. n + 1) = IF 1 > n + 1 THEN 0 ELSE (n + 1) - 1 + 1
      BY <2>1, FS_Interval
    <2> QED
      BY <2>1, <2>2
  <1>5. IsFiniteSet(used) /\ Cardinality(used) <= n
    BY <1>2, <1>3, FS_Surjection
  <1>6. \E x \in 1 .. n + 1 : x \notin used
    <2> SUFFICES ASSUME 1 .. n + 1 \in SUBSET used
                 PROVE  FALSE
      BY Zenon
    <2>1. Cardinality(1 .. n + 1) <= Cardinality(used)
      BY <1>5, FS_Subset
    <2>2. Cardinality(used) \in Nat
      BY <1>5, FS_CardinalityType
    <2> QED
      BY <1>1, <1>4, <1>5, <2>1, <2>2
  <1>7. FreeAddress \in 1 .. n + 1 /\ FreeAddress \notin used
    BY <1>6, Zenon DEF FreeAddress, used, n
  <1> QED
    BY <1>1, <1>7 DEF used

(* A sequence with an entry put in behind the first k.                     *)
PutIn(s, k, e) == SubSeq(s, 1, k) \o <<e>> \o SubSeq(s, k + 1, Len(s))

IsPutIn(q, s, k, e) ==
    /\ Len(q) = Len(s) + 1 /\ q[k + 1] = e
    /\ \A i \in 1 .. k : q[i] = s[i]
    /\ \A i \in k + 1 .. Len(s) : q[i + 1] = s[i]

LEMMA PutInProperties ==
    ASSUME NEW S, NEW s \in Seq(S), NEW e \in S, NEW k \in 0 .. Len(s)
    PROVE  PutIn(s, k, e) \in Seq(S) /\ IsPutIn(PutIn(s, k, e), s, k, e)
  <1> DEFINE a == SubSeq(s, 1, k)
             b == SubSeq(s, k + 1, Len(s))
             c == a \o <<e>>
  <1>1. Len(s) \in Nat /\ k \in Nat /\ k <= Len(s)
    OBVIOUS
  <1>2. a \in Seq(S) /\ Len(a) = k /\ \A i \in 1 .. k : a[i] = s[i]
    BY <1>1
  <1>3. b \in Seq(S) /\ Len(b) = Len(s) - k /\ \A i \in 1 .. Len(s) - k : b[i] = s[k + i]
    BY <1>1
  <1>4. <<e>> \in Seq(S) /\ Len(<<e>>) = 1 /\ <<e>>[1] = e
    OBVIOUS
  <1> HIDE DEF a, b
  <1>5. /\ c \in Seq(S) /\ Len(c) = k + 1 /\ c[k + 1] = e
        /\ \A i \in 1 .. k : c[i] = s[i]
    <2>1. /\ c \in Seq(S) /\ Len(c) = Len(a) + Len(<<e>>)
          /\ \A i \in 1 .. Len(a) + Len(<<e>>) :
               c[i] = IF i <= Len(a) THEN a[i] ELSE <<e>>[i - Len(a)]
      BY <1>2, <1>4, ConcatProperties, Zenon
    <2> HIDE DEF c
    <2>2. k + 1 \in 1 .. Len(a) + Len(<<e>>) /\ ~(k + 1 <= Len(a)) /\ k + 1 - Len(a) = 1
      BY <1>1, <1>2, <1>4
    <2>3. c[k + 1] = e
      BY <1>4, <2>1, <2>2
    <2>4. \A i \in 1 .. k : c[i] = s[i]
      BY <1>1, <1>2, <1>4, <2>1
    <2>5. Len(c) = k + 1
      BY <1>2, <1>4, <2>1
    <2> QED
      BY <2>1, <2>3, <2>4, <2>5
  <1>6. PutIn(s, k, e) = c \o b
    BY DEF PutIn, a, b
  <1> HIDE DEF c
  <1>7. /\ c \o b \in Seq(S) /\ Len(c \o b) = Len(c) + Len(b)
        /\ \A i \in 1 .. Len(c) + Len(b) :
             (c \o b)[i] = IF i <= Len(c) THEN c[i] ELSE b[i - Len(c)]
    BY <1>3, <1>5, ConcatProperties, Zenon
  <1>8. Len(c \o b) = Len(s) + 1
    BY <1>1, <1>3, <1>5, <1>7
  <1>9. (c \o b)[k + 1] = e /\ \A i \in 1 .. k : (c \o b)[i] = s[i]
    BY <1>1, <1>3, <1>5, <1>7
  <1>10. ASSUME NEW i \in k + 1 .. Len(s)
         PROVE  (c \o b)[i + 1] = s[i]
    <2>1. /\ i + 1 \in 1 .. Len(c) + Len(b) /\ ~(i + 1 <= Len(c))
          /\ i + 1 - Len(c) = i - k /\ i - k \in 1 .. Len(s) - k /\ k + (i - k) = i
      <3>1. Len(c) = k + 1 /\ Len(b) = Len(s) - k
        BY <1>3, <1>5, Zenon
      <3>2. i \in Int /\ k + 1 <= i /\ i <= Len(s)
        BY <1>1
      <3> QED
        BY <1>1, <3>1, <3>2
    <2>2. ASSUME NEW j \in 1 .. Len(c) + Len(b), j = i + 1
          PROVE  (c \o b)[j] = b[i - k]
      <3>1. (c \o b)[j] = IF j <= Len(c) THEN c[j] ELSE b[j - Len(c)]
        BY <1>7, Zenon
      <3>2. ~(j <= Len(c)) /\ j - Len(c) = i - k
        BY <2>1, <2>2
      <3> QED
        BY <3>1, <3>2, Zenon
    <2>3. (c \o b)[i + 1] = b[i - k]
      BY <2>1, <2>2, Zenon
    <2> QED
      BY <1>3, <2>1, <2>3
  <1> QED
    BY <1>6, <1>7, <1>8, <1>9, <1>10 DEF IsPutIn

(* Nothing is lost of a queue, and no address doubled.                     *)
KeepsAll(q, r) == \A i \in DOMAIN q : \E j \in DOMAIN r : r[j] = q[i]
Distinct(q) == \A i, j \in DOMAIN q : q[i].adr = q[j].adr => i = j

LEMMA PutInDistinct ==
    ASSUME NEW s \in Seq(Entries), NEW e \in Entries, NEW k \in 0 .. Len(s), Distinct(s),
           \A i \in DOMAIN s : s[i].adr # e.adr,
           NEW q, q = PutIn(s, k, e)
    PROVE  Distinct(q) /\ KeepsAll(s, q) /\ On(q, e.msg) /\ q \in Seq(Entries)
  <1>1. /\ q \in Seq(Entries) /\ Len(q) = Len(s) + 1 /\ q[k + 1] = e
        /\ \A i \in 1 .. k : q[i] = s[i]
        /\ \A i \in k + 1 .. Len(s) : q[i + 1] = s[i]
    <2>1. q \in Seq(Entries) /\ IsPutIn(q, s, k, e)
      BY PutInProperties, Zenon
    <2> QED
      BY <2>1 DEF IsPutIn
  <1>2. /\ Len(s) \in Nat /\ k \in Nat /\ k <= Len(s) /\ DOMAIN s = 1 .. Len(s)
        /\ DOMAIN q = 1 .. Len(s) + 1
    BY <1>1
  <1>3. KeepsAll(s, q)
    <2> SUFFICES ASSUME NEW i \in 1 .. Len(s)
                 PROVE  \E j \in 1 .. Len(s) + 1 : q[j] = s[i]
      BY <1>2, Zenon DEF KeepsAll
    <2>1. CASE i <= k
      <3>1. i \in 1 .. k /\ i \in 1 .. Len(s) + 1
        BY <1>2, <2>1
      <3> QED
        BY <1>1, <3>1, Zenon
    <2>2. CASE ~(i <= k)
      <3>1. i \in k + 1 .. Len(s) /\ i + 1 \in 1 .. Len(s) + 1
        BY <1>2, <2>2
      <3> QED
        BY <1>1, <3>1, Zenon
    <2> QED
      BY <2>1, <2>2
  <1>4. On(q, e.msg)
    <2>1. k + 1 \in 1 .. Len(s) + 1
      BY <1>2
    <2> QED
      BY <1>1, <1>2, <2>1, Zenon DEF On
  <1>5. Distinct(q)
    <2> DEFINE from(j) == IF j <= k THEN j ELSE j - 1
    <2>1. ASSUME NEW j \in 1 .. Len(s) + 1, j # k + 1
          PROVE  from(j) \in 1 .. Len(s) /\ q[j] = s[from(j)]
      <3>1. CASE j <= k
        <4>1. j \in 1 .. k /\ j \in 1 .. Len(s)
          BY <1>2, <3>1
        <4> QED
          BY <1>1, <3>1, <4>1
      <3>2. CASE ~(j <= k)
        <4>1. j - 1 \in k + 1 .. Len(s) /\ j - 1 \in 1 .. Len(s) /\ (j - 1) + 1 = j
          BY <1>2, <2>1, <3>2
        <4>2. q[(j - 1) + 1] = s[j - 1]
          BY <1>1, <4>1, Zenon
        <4> QED
          BY <3>2, <4>1, <4>2
      <3> QED
        BY <3>1, <3>2
    <2>2. ASSUME NEW i \in 1 .. Len(s) + 1, NEW j \in 1 .. Len(s) + 1, i # k + 1, j # k + 1,
                 from(i) = from(j)
          PROVE  i = j
      BY <1>2, <2>2
    <2> HIDE DEF from
    <2>3. ASSUME NEW i \in 1 .. Len(s) + 1, NEW j \in 1 .. Len(s) + 1, i # k + 1, j # k + 1,
                 q[i].adr = q[j].adr
          PROVE  i = j
      <3>1. /\ from(i) \in 1 .. Len(s) /\ q[i] = s[from(i)]
            /\ from(j) \in 1 .. Len(s) /\ q[j] = s[from(j)]
        BY <2>1, <2>3
      <3>2. from(i) = from(j)
        BY <1>2, <2>3, <3>1, Zenon DEF Distinct
      <3> QED
        BY <2>2, <2>3, <3>2
    <2>4. ASSUME NEW i \in 1 .. Len(s) + 1, i # k + 1
          PROVE  q[i].adr # q[k + 1].adr
      <3>1. from(i) \in 1 .. Len(s) /\ q[i] = s[from(i)]
        BY <2>1, <2>4
      <3> QED
        BY <1>1, <1>2, <3>1, Zenon
    <2> QED
      BY <1>2, <2>3, <2>4, Zenon DEF Distinct
  <1> QED
    BY <1>1, <1>3, <1>4, <1>5

(* What Insert does to the queue and the threads.                          *)
Behind(m) ==
    IF InsertPlace(m) = {} THEN 0
    ELSE CHOOSE i \in InsertPlace(m) : \A j \in InsertPlace(m) : j <= i

Inserted(m) ==
    /\ msgQueue' \in Seq(Entries) /\ Distinct(msgQueue')
    /\ KeepsAll(msgQueue, msgQueue') /\ On(msgQueue', m)
    /\ pool' \in [Threads -> Work]
    /\ \A t \in Threads : /\ pool'[t].life = pool[t].life
                          /\ pool'[t].bInUse = pool[t].bInUse
                          /\ pool'[t].group = pool[t].group

LEMMA InsertFacts ==
    ASSUME PoolInv, NEW m \in Messages, NEW d \in BOOLEAN, Insert(m, d)
    PROVE  Inserted(m)
  <1>1. PoolTypeOK /\ Distinct(msgQueue)
    BY DEF PoolInv, DistinctAdr, Distinct
  <1> SUFFICES ASSUME NEW k, k = Behind(m), NEW e,
                      e = [adr |-> FreeAddress, msg |-> m, bProcessing |-> FALSE, due |-> d]
               PROVE  Inserted(m)
    OBVIOUS
  <1>2. msgQueue' = PutIn(msgQueue, k, e)
    BY DEF Insert, PutIn, Behind
  <1> DEFINE woken(t) == InsertPlace(m) = {} /\ pool[t].life = "active"
  <1>3. pool' = [t \in Threads |-> [pool[t] EXCEPT !.signal = @ \/ woken(t)]]
    BY DEF Insert
  <1>10. \A t \in Threads : woken(t) \in BOOLEAN
    OBVIOUS
  <1> HIDE DEF woken
  <1>4. k \in 0 .. Len(msgQueue)
    <2>1. Len(msgQueue) \in Nat /\ InsertPlace(m) \in SUBSET (1 .. Len(msgQueue))
      BY <1>1, QueueFacts DEF InsertPlace
    <2>2. CASE InsertPlace(m) = {}
      BY <2>1, <2>2 DEF Behind
    <2>3. CASE InsertPlace(m) # {}
      <3>1. k = CHOOSE i \in InsertPlace(m) : \A j \in InsertPlace(m) : j <= i
        BY <2>3, Zenon DEF Behind
      <3>2. k \in InsertPlace(m)
        BY <2>1, <2>3, <3>1, LastOf, Zenon
      <3>3. k \in 1 .. Len(msgQueue)
        BY <2>1, <3>2, Zenon
      <3> QED
        BY <2>1, <3>3
    <2> QED
      BY <2>2, <2>3
  <1>5. /\ e \in Entries /\ e.msg = m /\ \A i \in DOMAIN msgQueue : msgQueue[i].adr # e.adr
    <2>1. FreeAddress \in Nat /\ \A i \in DOMAIN msgQueue : msgQueue[i].adr # FreeAddress
      BY <1>1, FreshAddress
    <2>2. e \in Entries
      BY <2>1 DEF Entries
    <2>3. e.adr = FreeAddress /\ e.msg = m
      OBVIOUS
    <2> QED
      BY <2>1, <2>2, <2>3
  <1>6. msgQueue \in Seq(Entries)
    BY <1>1, QueueFacts
  <1>7. /\ msgQueue' \in Seq(Entries) /\ Distinct(msgQueue')
        /\ KeepsAll(msgQueue, msgQueue') /\ On(msgQueue', m)
    BY <1>1, <1>2, <1>4, <1>5, <1>6, PutInDistinct, Zenon
  <1>8. ASSUME NEW t \in Threads
        PROVE  /\ pool'[t] \in Work /\ pool'[t].life = pool[t].life
               /\ pool'[t].bInUse = pool[t].bInUse /\ pool'[t].group = pool[t].group
    <2>1. pool[t] \in Work
      BY <1>1 DEF PoolTypeOK, Work
    <2> QED
      BY <1>3, <1>10, <2>1 DEF Work
  <1>9. pool' \in [Threads -> Work]
    BY <1>3, <1>8
  <1> QED
    BY <1>7, <1>8, <1>9 DEF Inserted

(* A queue that has lost nothing.                                          *)
LEMMA KeptQueue ==
    ASSUME NEW q, NEW r, KeepsAll(q, r)
    PROVE  /\ \A m : On(q, m) => On(r, m)
           /\ \A v : Marked(q, v) => Marked(r, v)
  <1>1. ASSUME NEW m, On(q, m)
        PROVE  On(r, m)
    <2>1. PICK i \in DOMAIN q : q[i].msg = m
      BY <1>1, Zenon DEF On
    <2>2. PICK j \in DOMAIN r : r[j] = q[i]
      BY Zenon DEF KeepsAll
    <2> QED
      BY <2>1, <2>2, Zenon DEF On
  <1>2. ASSUME NEW v, Marked(q, v)
        PROVE  Marked(r, v)
    <2>1. PICK i \in DOMAIN q : q[i].adr = v.adr /\ q[i].bProcessing /\ q[i].msg = v.msg
      BY <1>2, Zenon DEF Marked
    <2>2. PICK j \in DOMAIN r : r[j] = q[i]
      BY Zenon DEF KeepsAll
    <2> QED
      BY <2>1, <2>2, Zenon DEF Marked
  <1> QED
    BY <1>1, <1>2, Zenon

(* SendMessageToPool puts a message on the queue and goes on to AddThreads.*)
LEMMA InsertKeeps ==
    ASSUME PoolInv, NEW a \in Actors, NEW m \in Messages, NEW d \in BOOLEAN, Insert(m, d),
           loc' \in [Actors -> Locals], \A b \in Actors : b # a => loc'[b] = loc[b],
           loc[a].pc \in {"send", "transfer"}, loc[a].msg = m,
           loc'[a].pc = "add", loc'[a].ret \in {"sent", "erase"},
           loc'[a].ret = "erase" => loc'[a].msg = m,
           a \in Threads => loc'[a].ret = "erase",
           UNCHANGED <<future, bDisable, dwMaxNumThreads, history>>
    PROVE  PoolInv'
  <1>1. /\ msgQueue' \in Seq(Entries) /\ Distinct(msgQueue')
        /\ KeepsAll(msgQueue, msgQueue') /\ On(msgQueue', m)
        /\ pool' \in [Threads -> Work]
        /\ \A t \in Threads : /\ pool'[t].life = pool[t].life
                              /\ pool'[t].bInUse = pool[t].bInUse
                              /\ pool'[t].group = pool[t].group
    BY InsertFacts, Zenon DEF Inserted
  <1>2. /\ \A k : On(msgQueue, k) => On(msgQueue', k)
        /\ \A v : Marked(msgQueue, v) => Marked(msgQueue', v)
    BY <1>1, KeptQueue, Zenon
  <1>3. /\ UNCHANGED <<future, bDisable, dwMaxNumThreads, plan, unsent, sent, removed, processed>>
    BY DEF history
  <1>4. PoolTypeOK'
    BY <1>1, <1>3 DEF PoolInv, PoolTypeOK, Work, Entries
  <1>5. DistinctAdr'
    BY <1>1, Zenon DEF DistinctAdr, Distinct
  <1>6. SafeFrame /\ SafeIn(msgQueue', processed', removed', m)
    BY <1>1, <1>2, <1>3, Zenon DEF SafeFrame, Safe, SafeIn
  <1>7. /\ ~HasEntry(loc'[a]) /\ ~HasEntry(loc[a]) /\ Returns(loc'[a])
        /\ (loc'[a].ret = "erase" => Quiet(loc'[a]))
        /\ (NeedsMsg(loc'[a]) => loc'[a].ret = "erase")
        /\ (WillErase(loc'[a]) => loc'[a].ret = "erase")
        /\ loc'[a].pc # "finish" /\ loc[a].pc # "off"
        /\ loc[a].pc \notin {"ready", "kill", "killwait", "clear", "clearing"}
    BY DEF HasEntry, Returns, Quiet, NeedsMsg, WillErase
  <1>8. Lives'
    <2> SUFFICES ASSUME NEW t \in Threads, pool'[t].life # "active"
                 PROVE  loc'[t].pc = "off"
      BY DEF Lives
    <2>1. loc[t].pc = "off" /\ t \in Actors
      BY <1>1 DEF PoolInv, Lives, Actors
    <2> QED
      BY <1>7, <2>1
  <1>9. Stopped'
    <2>1. ASSUME NEW t \in Threads, Quiet(loc[t])
          PROVE  Quiet(loc'[t])
      BY <1>7, <2>1, Zenon DEF Actors
    <2>2. Owner \in Actors
      BY DEF Actors
    <2>3. /\ loc'[Owner].pc # "ready" => loc[Owner].pc # "ready"
          /\ loc'[Owner].pc \notin {"ready", "kill", "killwait", "clear", "clearing"} =>
               loc[Owner].pc \notin {"ready", "kill", "killwait", "clear", "clearing"}
      BY <1>7, <2>2
    <2>4. bDisable => bDisable'
      BY <1>3
    <2> QED
      BY <2>1, <2>3, <2>4, StoppedFrame, Zenon
  <1>10. NothingLost'
    <2>1. sent' \subseteq Messages
      BY <1>4 DEF PoolTypeOK
    <2>2. ASSUME NEW b \in Actors, loc[b].pc \in {"send", "full"}
          PROVE  \/ loc'[b].pc \in {"send", "full"} /\ loc'[b].msg = loc[b].msg
                 \/ SafeIn(msgQueue', processed', removed', loc[b].msg)
      BY <1>6, <2>2, Zenon
    <2>3. /\ \A k \in Messages : On(future, k) => On(future', k)
          /\ sent' = sent
      BY <1>3
    <2> QED
      BY <1>6, <2>1, <2>2, <2>3, LostFrame, Zenon
  <1>11. ASSUME NEW t \in Threads
         PROVE  WorkFrame(t)
    <2>1. CASE t = a
      BY <1>1, <1>7, <2>1, Zenon DEF WorkFrame
    <2>2. CASE t # a
      <3>1. loc'[t] = loc[t]
        BY <2>2 DEF Actors
      <3> QED
        BY <1>1, <1>2, <3>1, WorkStays, Zenon
    <2> QED
      BY <2>1, <2>2
  <1>12. ASSUME NEW b \in Actors
         PROVE  ActorFrame(b)
    BY <1>6, <1>7, Zenon DEF ActorFrame
  <1> QED
    BY <1>4, <1>5, <1>6, <1>8, <1>9, <1>10, <1>11, <1>12, Frame, Zenon

LEMMA SentRecord ==
    ASSUME NEW r, r = [NoLoc("add") EXCEPT !.ret = "sent"]
    PROVE  r \in Locals /\ r.pc = "add" /\ r.ret = "sent"
  <1>1. ASSUME NEW v \in Locals, NEW x \in {"process", "erase", "sent"},
               NEW y, y = [v EXCEPT !.ret = x]
        PROVE  y \in Locals /\ y.pc = v.pc /\ y.ret = x
    BY <1>1 DEF Locals
  <1>2. NoLoc("add") \in Locals /\ NoLoc("add").pc = "add"
    BY NoLocTyped DEF Places
  <1> QED
    BY <1>1, <1>2

LEMMA SendInsertKeeps ==
    ASSUME PoolInv, NEW c \in Clients, SendInsert(c)
    PROVE  PoolInv'
  <1> SUFFICES ASSUME NEW m, m = loc[c].msg, NEW d, d = (Delay[loc[c].msg] = "now"),
                      NEW r, r = [NoLoc("add") EXCEPT !.ret = "sent"]
               PROVE  PoolInv'
    OBVIOUS
  <1>1. /\ PoolTypeOK /\ c \in Actors /\ c \notin Threads /\ loc[c].pc = "send"
    BY ClientKind DEF PoolInv, SendInsert, At
  <1>2. Insert(m, d) /\ loc' = [loc EXCEPT ![c] = r]
    BY DEF SendInsert
  <1>3. UNCHANGED <<future, bDisable, dwMaxNumThreads, history>>
    BY DEF SendInsert
  <1>4. d \in BOOLEAN
    OBVIOUS
  <1>5. m \in Messages
    BY <1>1 DEF PoolInv, LocalsFit, NeedsMsg
  <1>6. r \in Locals /\ r.pc = "add" /\ r.ret = "sent"
    BY SentRecord
  <1>7. /\ loc' \in [Actors -> Locals] /\ \A b \in Actors : b # c => loc'[b] = loc[b]
        /\ loc'[c] = r
    BY <1>1, <1>2, <1>6, LocChanges
  <1>8. /\ loc[c].pc \in {"send", "transfer"} /\ loc[c].msg = m /\ loc'[c].pc = "add"
        /\ loc'[c].ret \in {"sent", "erase"} /\ loc'[c].ret # "erase"
    BY <1>1, <1>6, <1>7
  <1>9. c \in Actors /\ c \notin Threads
    BY <1>1
  <1>10. Insert(m, d)
    BY <1>2
  <1> QED
    BY <1>3, <1>4, <1>5, <1>7, <1>8, <1>9, <1>10, InsertKeeps, Zenon

LEMMA ReturnMoves ==
    ASSUME PoolTypeOK, NEW a \in Actors, NEW p \in Places, NEW x \in {"process", "erase", "sent"},
           loc' = [loc EXCEPT ![a].pc = p, ![a].ret = x]
    PROVE  /\ loc' \in [Actors -> Locals]
           /\ \A b \in Actors : b # a => loc'[b] = loc[b]
           /\ loc'[a].pc = p /\ loc'[a].msg = loc[a].msg /\ loc'[a].ret = x
  <1> DEFINE r == [loc[a] EXCEPT !.pc = p, !.ret = x]
  <1>1. loc' = [loc EXCEPT ![a] = r]
    OBVIOUS
  <1>2. loc[a] \in Locals
    BY DEF PoolTypeOK
  <1>3. r \in Locals /\ r.pc = p /\ r.msg = loc[a].msg /\ r.ret = x
    BY <1>2 DEF Locals
  <1> HIDE DEF r
  <1> QED
    BY <1>1, <1>3, LocChanges

LEMMA TransferSendKeeps ==
    ASSUME PoolInv, NEW a \in Threads \cup {Owner}, TransferSend(a)
    PROVE  PoolInv'
  <1> SUFFICES ASSUME NEW m, m = loc[a].msg
               PROVE  PoolInv'
    OBVIOUS
  <1>1. /\ PoolTypeOK /\ a \in Actors /\ loc[a].pc = "transfer" /\ "add" \in Places
    BY DEF PoolInv, TransferSend, At, Actors, Places
  <1>2. Insert(m, TRUE) /\ loc' = [loc EXCEPT ![a].pc = "add", ![a].ret = "erase"]
    BY DEF TransferSend
  <1>3. UNCHANGED <<future, bDisable, dwMaxNumThreads, history>>
    BY DEF TransferSend
  <1>4. m \in Messages
    BY <1>1 DEF PoolInv, LocalsFit, NeedsMsg
  <1>5. /\ loc' \in [Actors -> Locals] /\ \A b \in Actors : b # a => loc'[b] = loc[b]
        /\ loc'[a].pc = "add" /\ loc'[a].msg = loc[a].msg /\ loc'[a].ret = "erase"
    BY <1>1, <1>2, ReturnMoves
  <1>6. /\ loc[a].pc \in {"send", "transfer"} /\ loc'[a].ret \in {"sent", "erase"}
        /\ loc'[a].msg = m /\ loc[a].msg = m
    BY <1>1, <1>5
  <1>7. a \in Actors /\ Insert(m, TRUE) /\ TRUE \in BOOLEAN
    BY <1>1, <1>2
  <1> QED
    BY <1>3, <1>4, <1>5, <1>6, <1>7, InsertKeeps, Zenon

(* The future queue grows: SendMessageToPoolDelayed.                       *)
LEMMA SendDelayedKeeps ==
    ASSUME PoolInv, NEW c \in Clients, NEW m \in Messages, SendMessageToPoolDelayed(c, m)
    PROVE  PoolInv'
  <1> SUFFICES ASSUME NEW r, r = [NoLoc("add") EXCEPT !.ret = "sent"],
                      NEW e, e = [msg |-> m, due |-> FALSE]
               PROVE  PoolInv'
    OBVIOUS
  <1>1. /\ PoolTypeOK /\ c \in Actors /\ c \notin Threads /\ c # Owner /\ loc[c].pc = "ready"
    BY ClientKind DEF PoolInv, SendMessageToPoolDelayed, At
  <1>2. /\ unsent' = unsent \ {m} /\ sent' = sent \cup {m} /\ future' = Append(future, e)
        /\ loc' = [loc EXCEPT ![c] = r]
        /\ UNCHANGED <<msgQueue, pool, bDisable, dwMaxNumThreads, plan, removed, processed>>
    BY DEF SendMessageToPoolDelayed
  <1>3. r \in Locals /\ r.pc = "add" /\ r.ret = "sent"
    BY SentRecord
  <1>4. /\ loc' \in [Actors -> Locals] /\ \A b \in Actors : b # c => loc'[b] = loc[b]
        /\ loc'[c] = r
    BY <1>1, <1>2, <1>3, LocChanges
  <1>5. /\ future' \in Seq(Later) /\ On(future', m)
        /\ \A k : On(future, k) => On(future', k)
    <2>1. e \in Later /\ e.msg = m
      BY DEF Later
    <2>2. future \in Seq(Later) /\ Len(future) \in Nat /\ DOMAIN future = 1 .. Len(future)
      BY <1>1, QueueFacts
    <2>3. /\ future' \in Seq(Later) /\ DOMAIN future' = 1 .. Len(future) + 1
          /\ future'[Len(future) + 1] = e
          /\ \A i \in 1 .. Len(future) : future'[i] = future[i]
      BY <1>2, <2>1, <2>2
    <2>4. On(future', m)
      BY <2>1, <2>2, <2>3 DEF On
    <2>5. ASSUME NEW k, On(future, k)
          PROVE  On(future', k)
      BY <2>2, <2>3, <2>5 DEF On
    <2> QED
      BY <2>3, <2>4, <2>5
  <1>6. PoolTypeOK'
    BY <1>1, <1>2, <1>4, <1>5 DEF PoolTypeOK, Later
  <1>7. DistinctAdr' /\ SafeFrame
    BY <1>2 DEF PoolInv, DistinctAdr, SafeFrame, Safe
  <1>8. /\ ~HasEntry(r) /\ ~WillErase(r) /\ ~NeedsMsg(r) /\ Returns(r) /\ r.pc # "finish"
        /\ loc[c].pc \notin {"send", "full"}
    BY <1>1, <1>3 DEF HasEntry, WillErase, NeedsMsg, Returns
  <1>9. ASSUME NEW t \in Threads
        PROVE  t \in Actors /\ t # c /\ loc'[t] = loc[t]
    BY <1>1, <1>4 DEF Actors
  <1>10. Lives'
    BY <1>2, <1>9 DEF PoolInv, Lives
  <1>11. Stopped'
    <2>1. Owner \in Actors /\ loc'[Owner] = loc[Owner]
      BY <1>1, <1>4 DEF Actors
    <2>2. bDisable => bDisable'
      BY <1>2
    <2>3. \A t \in Threads : Quiet(loc[t]) => Quiet(loc'[t])
      BY <1>9, Zenon
    <2> QED
      BY <2>1, <2>2, <2>3, StoppedFrame, Zenon
  <1>12. NothingLost'
    <2>1. sent' \subseteq Messages
      BY <1>6 DEF PoolTypeOK
    <2>2. ASSUME NEW b \in Actors, loc[b].pc \in {"send", "full"}
          PROVE  loc'[b].pc \in {"send", "full"} /\ loc'[b].msg = loc[b].msg
      BY <1>4, <1>8, <2>2, Zenon
    <2>3. \A k \in sent' : k \notin sent => On(future', k)
      BY <1>2, <1>5
    <2> QED
      BY <1>5, <1>7, <2>1, <2>2, <2>3, LostFrame, Zenon
  <1>13. ASSUME NEW t \in Threads
         PROVE  WorkFrame(t)
    <2>1. /\ loc'[t] = loc[t] /\ (Marked(msgQueue, loc[t]) => Marked(msgQueue', loc[t]))
          /\ pool'[t].bInUse = pool[t].bInUse /\ pool'[t].group = pool[t].group
      BY <1>2, <1>9
    <2> QED
      BY <2>1, WorkStays, Zenon
  <1>14. ASSUME NEW b \in Actors
         PROVE  ActorFrame(b)
    BY <1>4, <1>8, Zenon DEF ActorFrame
  <1> QED
    BY <1>6, <1>7, <1>10, <1>11, <1>12, <1>13, <1>14, Frame, Zenon

(* A sequence without its entry k.                                         *)
IsWithout(q, s, k) ==
    /\ Len(q) = Len(s) - 1
    /\ \A j \in 1 .. Len(s) - 1 : q[j] = IF j < k THEN s[j] ELSE s[j + 1]

LEMMA WithoutIs ==
    ASSUME NEW S, NEW s \in Seq(S), NEW k \in 1 .. Len(s)
    PROVE  Without(s, k) \in Seq(S) /\ IsWithout(Without(s, k), s, k)
  <1> DEFINE a == SubSeq(s, 1, k - 1)
             b == SubSeq(s, k + 1, Len(s))
  <1>1. Len(s) \in Nat /\ k \in Nat /\ k >= 1 /\ k <= Len(s)
    OBVIOUS
  <1>2. a \in Seq(S) /\ Len(a) = k - 1 /\ \A j \in 1 .. k - 1 : a[j] = s[j]
    BY <1>1
  <1>3. b \in Seq(S) /\ Len(b) = Len(s) - k /\ \A j \in 1 .. Len(s) - k : b[j] = s[k + j]
    BY <1>1
  <1>4. Without(s, k) = a \o b
    BY DEF Without
  <1> HIDE DEF a, b
  <1>5. /\ a \o b \in Seq(S) /\ Len(a \o b) = Len(a) + Len(b)
        /\ \A j \in 1 .. Len(a) + Len(b) :
             (a \o b)[j] = IF j <= Len(a) THEN a[j] ELSE b[j - Len(a)]
    BY <1>2, <1>3, ConcatProperties, Zenon
  <1>6. ASSUME NEW j \in 1 .. Len(s) - 1
        PROVE  (a \o b)[j] = IF j < k THEN s[j] ELSE s[j + 1]
    <2>1. CASE j < k
      BY <1>1, <1>2, <1>3, <1>5, <2>1
    <2>2. CASE ~(j < k)
      <3>1. j - Len(a) \in 1 .. Len(s) - k /\ k + (j - Len(a)) = j + 1
        BY <1>1, <1>2, <2>2
      <3>2. b[j - Len(a)] = s[j + 1]
        BY <1>3, <3>1
      <3>3. j \in 1 .. Len(a) + Len(b) /\ ~(j <= Len(a))
        BY <1>1, <1>2, <1>3, <2>2
      <3> QED
        BY <1>5, <2>2, <3>2, <3>3
    <2> QED
      BY <2>1, <2>2
  <1>7. Len(a \o b) = Len(s) - 1
    BY <1>1, <1>2, <1>3, <1>5
  <1> QED
    BY <1>4, <1>5, <1>6, <1>7 DEF IsWithout

(* Entry by entry: all but the k-th are still there, and no other is.      *)
KeepsBut(q, r, k) == \A i \in DOMAIN q : i # k => \E j \in DOMAIN r : r[j] = q[i]

LEMMA WithoutKeeps ==
    ASSUME NEW S, NEW s \in Seq(S), NEW k \in DOMAIN s, NEW q, q = Without(s, k)
    PROVE  q \in Seq(S) /\ KeepsBut(s, q, k) /\ (Distinct(s) => Distinct(q))
  <1>1. Len(s) \in Nat /\ DOMAIN s = 1 .. Len(s) /\ k \in 1 .. Len(s)
    OBVIOUS
  <1>2. q \in Seq(S) /\ IsWithout(q, s, k)
    BY <1>1, WithoutIs, Zenon
  <1>3. /\ DOMAIN q = 1 .. Len(s) - 1
        /\ \A j \in 1 .. Len(s) - 1 : q[j] = IF j < k THEN s[j] ELSE s[j + 1]
    BY <1>1, <1>2 DEF IsWithout
  <1>4. KeepsBut(s, q, k)
    <2> SUFFICES ASSUME NEW i \in 1 .. Len(s), i # k
                 PROVE  \E j \in 1 .. Len(s) - 1 : q[j] = s[i]
      BY <1>1, <1>3, Zenon DEF KeepsBut
    <2>1. CASE i < k
      <3>1. i \in 1 .. Len(s) - 1
        BY <1>1, <2>1
      <3>2. q[i] = s[i]
        BY <1>3, <2>1, <3>1
      <3> QED
        BY <3>1, <3>2
    <2>2. CASE ~(i < k)
      <3>1. i - 1 \in 1 .. Len(s) - 1 /\ ~(i - 1 < k) /\ (i - 1) + 1 = i
        BY <1>1, <2>2
      <3>2. q[i - 1] = s[i]
        BY <1>3, <3>1
      <3> QED
        BY <3>1, <3>2
    <2> QED
      BY <2>1, <2>2
  <1>5. ASSUME Distinct(s)
        PROVE  Distinct(q)
    <2> DEFINE from(j) == IF j < k THEN j ELSE j + 1
    <2>1. ASSUME NEW j \in 1 .. Len(s) - 1
          PROVE  from(j) \in 1 .. Len(s) /\ q[j] = s[from(j)]
      BY <1>1, <1>3
    <2>2. ASSUME NEW i \in 1 .. Len(s) - 1, NEW j \in 1 .. Len(s) - 1, from(i) = from(j)
          PROVE  i = j
      BY <1>1, <2>2
    <2> HIDE DEF from
    <2> SUFFICES ASSUME NEW i \in 1 .. Len(s) - 1, NEW j \in 1 .. Len(s) - 1,
                        q[i].adr = q[j].adr
                 PROVE  i = j
      BY <1>3, Zenon DEF Distinct
    <2>3. /\ from(i) \in 1 .. Len(s) /\ q[i] = s[from(i)]
          /\ from(j) \in 1 .. Len(s) /\ q[j] = s[from(j)]
      BY <2>1
    <2>4. from(i) = from(j)
      BY <1>1, <1>5, <2>3, Zenon DEF Distinct
    <2> QED
      BY <2>2, <2>4
  <1> QED
    BY <1>2, <1>4, <1>5

(* An entry changes, but for its address and its message.                  *)
LEMMA EntryChanges ==
    ASSUME NEW q \in Seq(Entries), NEW k \in DOMAIN q, NEW e \in Entries,
           e.adr = q[k].adr, e.msg = q[k].msg, NEW r, r = [q EXCEPT ![k] = e]
    PROVE  /\ r \in Seq(Entries) /\ DOMAIN r = DOMAIN q /\ r[k] = e
           /\ Distinct(q) => Distinct(r)
           /\ \A m : On(q, m) => On(r, m)
           /\ \A v : Marked(q, v) /\ (v.adr # q[k].adr \/ (e.bProcessing <=> q[k].bProcessing)
                                      \/ e.bProcessing)
                       => Marked(r, v)
  <1>1. /\ r \in Seq(Entries) /\ DOMAIN r = DOMAIN q /\ r[k] = e
        /\ \A j \in DOMAIN q : j # k => r[j] = q[j]
    OBVIOUS
  <1>2. \A j \in DOMAIN q : r[j].adr = q[j].adr /\ r[j].msg = q[j].msg
    BY <1>1, Zenon
  <1>3. Distinct(q) => Distinct(r)
    <2> SUFFICES ASSUME Distinct(q), NEW i \in DOMAIN q, NEW j \in DOMAIN q,
                        r[i].adr = r[j].adr
                 PROVE  i = j
      BY <1>1 DEF Distinct
    <2>1. q[i].adr = q[j].adr
      BY <1>2
    <2> QED
      BY <2>1 DEF Distinct
  <1>4. \A m : On(q, m) => On(r, m)
    BY <1>1, <1>2, Zenon DEF On
  <1>5. ASSUME NEW v, Marked(q, v),
               \/ v.adr # q[k].adr
               \/ e.bProcessing <=> q[k].bProcessing
               \/ e.bProcessing
        PROVE  Marked(r, v)
    <2>1. PICK i \in DOMAIN q : q[i].adr = v.adr /\ q[i].bProcessing /\ q[i].msg = v.msg
      BY <1>5, Zenon DEF Marked
    <2>2. CASE i # k
      BY <1>1, <2>1, <2>2, Zenon DEF Marked
    <2>3. CASE i = k
      <3>1. r[i].bProcessing
        BY <1>1, <1>5, <2>1, <2>3, Zenon
      <3> QED
        BY <1>1, <1>2, <2>1, <3>1, Zenon DEF Marked
    <2> QED
      BY <2>2, <2>3
  <1> QED
    BY <1>1, <1>3, <1>4, <1>5, Zenon

LEMMA ErasedMoves ==
    ASSUME PoolTypeOK, NEW a \in Actors, NEW p \in Places, NEW m \in Messages \cup {NoMsg},
           NEW x \in {"none", "process", "erase", "sent"}, NEW n \in Int,
           loc' = [loc EXCEPT ![a].pc = p, ![a].msg = m, ![a].ret = x, ![a].real = n]
    PROVE  /\ loc' \in [Actors -> Locals]
           /\ \A b \in Actors : b # a => loc'[b] = loc[b]
           /\ loc'[a].pc = p
  <1> DEFINE r == [loc[a] EXCEPT !.pc = p, !.msg = m, !.ret = x, !.real = n]
  <1>1. loc' = [loc EXCEPT ![a] = r]
    OBVIOUS
  <1>2. loc[a] \in Locals
    BY DEF PoolTypeOK
  <1>3. r \in Locals /\ r.pc = p
    BY <1>2 DEF Locals
  <1> HIDE DEF r
  <1> QED
    BY <1>1, <1>3, LocChanges

(* What is erased from the future queue is safe.                           *)
LEMMA TransferEraseKeeps ==
    ASSUME PoolInv, NEW a \in Threads \cup {Owner}, TransferErase(a)
    PROVE  PoolInv'
  <1> SUFFICES ASSUME NEW m, m = loc[a].msg,
                      NEW found, found = {i \in DOMAIN future : future[i].msg = m}
               PROVE  PoolInv'
    OBVIOUS
  <1>1. /\ PoolTypeOK /\ a \in Actors /\ loc[a].pc = "erase" /\ "scan" \in Places
        /\ NoMsg \in Messages \cup {NoMsg} /\ "none" \in {"none", "process", "erase", "sent"}
        /\ 0 \in Int
    BY DEF PoolInv, TransferErase, At, Actors, Places
  <1>2. /\ loc' = [loc EXCEPT ![a].pc = "scan", ![a].msg = NoMsg, ![a].ret = "none", ![a].real = 0]
        /\ future' = IF found = {} THEN future ELSE Without(future, First(found))
    BY DEF TransferErase
  <1>3. UNCHANGED <<msgQueue, pool, bDisable, dwMaxNumThreads, plan, unsent, sent, removed,
                    processed>>
    BY DEF TransferErase, history
  <1>4. Safe(m) /\ m \in Messages
    <2>1. WillErase(loc[a]) /\ NeedsMsg(loc[a])
      BY <1>1 DEF WillErase, NeedsMsg
    <2> QED
      BY <1>1, <2>1, Zenon DEF PoolInv, ErasedIsSafe, LocalsFit
  <1>5. /\ loc' \in [Actors -> Locals] /\ \A b \in Actors : b # a => loc'[b] = loc[b]
        /\ loc'[a].pc = "scan"
    BY <1>1, <1>2, ErasedMoves, Zenon
  <1>6. /\ future' \in Seq(Later)
        /\ \A k : On(future, k) => On(future', k) \/ k = m
    <2>1. /\ future \in Seq(Later) /\ Len(future) \in Nat
          /\ DOMAIN future = 1 .. Len(future) /\ found \in SUBSET (1 .. Len(future))
      BY <1>1, QueueFacts
    <2>2. CASE found = {}
      BY <1>2, <2>1, <2>2
    <2>3. CASE found # {}
      <3>1. First(found) \in found
        BY <2>1, <2>3, FirstOf
      <3>2. future' = Without(future, First(found)) /\ First(found) \in DOMAIN future
        BY <1>2, <2>1, <2>3, <3>1
      <3>3. future' \in Seq(Later) /\ KeepsBut(future, future', First(found))
        BY <2>1, <3>2, WithoutKeeps, Zenon
      <3>4. future[First(found)].msg = m
        BY <3>1
      <3>5. ASSUME NEW k, On(future, k), k # m
            PROVE  On(future', k)
        <4>1. PICK i \in DOMAIN future : future[i].msg = k
          BY <3>5, Zenon DEF On
        <4>2. i # First(found)
          BY <3>4, <3>5, <4>1
        <4>3. PICK j \in DOMAIN future' : future'[j] = future[i]
          BY <3>3, <4>2, Zenon DEF KeepsBut
        <4> QED
          BY <4>1, <4>3, Zenon DEF On
      <3> QED
        BY <3>3, <3>5
    <2> QED
      BY <2>2, <2>3
  <1>7. PoolTypeOK'
    BY <1>1, <1>3, <1>5, <1>6 DEF PoolTypeOK, Later
  <1>8. DistinctAdr' /\ SafeFrame /\ SafeIn(msgQueue', processed', removed', m)
    BY <1>3, <1>4 DEF PoolInv, DistinctAdr, SafeFrame, Safe
  <1>9. /\ ~HasEntry(loc'[a]) /\ ~WillErase(loc'[a]) /\ ~NeedsMsg(loc'[a]) /\ Returns(loc'[a])
        /\ loc'[a].pc # "finish" /\ loc[a].pc \notin {"send", "full"} /\ loc[a].pc # "off"
        /\ Quiet(loc'[a]) /\ loc[a].pc \notin {"ready", "kill", "killwait", "clear", "clearing"}
    BY <1>1, <1>5 DEF HasEntry, WillErase, NeedsMsg, Returns, Quiet
  <1>10. Lives'
    <2> SUFFICES ASSUME NEW t \in Threads, pool'[t].life # "active"
                 PROVE  loc'[t].pc = "off"
      BY DEF Lives
    <2>1. loc[t].pc = "off" /\ t \in Actors
      BY <1>3 DEF PoolInv, Lives, Actors
    <2> QED
      BY <1>5, <1>9, <2>1
  <1>11. Stopped'
    <2>1. ASSUME NEW t \in Threads, Quiet(loc[t])
          PROVE  Quiet(loc'[t])
      BY <1>5, <1>9, <2>1, Zenon DEF Actors
    <2>2. Owner \in Actors
      BY DEF Actors
    <2>3. /\ loc'[Owner].pc # "ready" => loc[Owner].pc # "ready"
          /\ loc'[Owner].pc \notin {"ready", "kill", "killwait", "clear", "clearing"} =>
               loc[Owner].pc \notin {"ready", "kill", "killwait", "clear", "clearing"}
      BY <1>5, <1>9, <2>2
    <2>4. bDisable => bDisable'
      BY <1>3
    <2> QED
      BY <2>1, <2>3, <2>4, StoppedFrame, Zenon
  <1>12. NothingLost'
    <2>1. sent' \subseteq Messages /\ sent' = sent
      BY <1>3, <1>7 DEF PoolTypeOK
    <2>2. ASSUME NEW b \in Actors, loc[b].pc \in {"send", "full"}
          PROVE  loc'[b].pc \in {"send", "full"} /\ loc'[b].msg = loc[b].msg
      BY <1>5, <1>9, <2>2, Zenon
    <2>3. \A k \in Messages : On(future, k) =>
               On(future', k) \/ SafeIn(msgQueue', processed', removed', k)
      BY <1>6, <1>8, Zenon
    <2> QED
      BY <1>8, <2>1, <2>2, <2>3, LostFrame, Zenon
  <1>13. ASSUME NEW t \in Threads
         PROVE  WorkFrame(t)
    <2>1. /\ (Marked(msgQueue, loc[t]) => Marked(msgQueue', loc[t]))
          /\ pool'[t].bInUse = pool[t].bInUse /\ pool'[t].group = pool[t].group
      BY <1>3
    <2>2. CASE t = a
      BY <1>9, <2>1, <2>2, Zenon DEF WorkFrame
    <2>3. CASE t # a
      <3>1. loc'[t] = loc[t]
        BY <1>5, <2>3 DEF Actors
      <3> QED
        BY <2>1, <3>1, WorkStays, Zenon
    <2> QED
      BY <2>2, <2>3
  <1>14. ASSUME NEW b \in Actors
         PROVE  ActorFrame(b)
    BY <1>5, <1>9, Zenon DEF ActorFrame
  <1> QED
    BY <1>7, <1>8, <1>10, <1>11, <1>12, <1>13, <1>14, Frame, Zenon

-----------------------------------------------------------------------------
(* A step of the queues alone: the threads keep their entries, and what    *)
(* has left MsgQueue was taken out on purpose.                             *)
LEMMA QueueStep ==
    ASSUME PoolInv, PoolTypeOK', Distinct(msgQueue'),
           UNCHANGED <<pool, loc, bDisable, sent, processed>>, removed \subseteq removed',
           \A m : On(msgQueue, m) => On(msgQueue', m) \/ m \in removed',
           \A m : On(future, m) => On(future', m),
           \A v : Marked(msgQueue, v) => Marked(msgQueue', v)
    PROVE  PoolInv'
  <1>1. DistinctAdr'
    BY DEF DistinctAdr, Distinct
  <1>2. SafeFrame
    BY Zenon DEF SafeFrame, Safe, SafeIn
  <1>3. Lives'
    BY DEF PoolInv, Lives
  <1>4. Stopped' /\ \A a \in Actors : ActorFrame(a)
    BY LocStays
  <1>5. NothingLost'
    <2>1. sent' \subseteq Messages /\ sent' = sent
      BY DEF PoolTypeOK
    <2>2. \A b \in Actors : loc'[b] = loc[b]
      OBVIOUS
    <2> QED
      BY <1>2, <2>1, <2>2, LostFrame, Zenon
  <1>6. ASSUME NEW t \in Threads
        PROVE  WorkFrame(t)
    <2>1. /\ loc'[t] = loc[t] /\ (Marked(msgQueue, loc[t]) => Marked(msgQueue', loc[t]))
          /\ pool'[t].bInUse = pool[t].bInUse /\ pool'[t].group = pool[t].group
      OBVIOUS
    <2> QED
      BY <2>1, WorkStays, Zenon
  <1> QED
    BY <1>1, <1>2, <1>3, <1>4, <1>5, <1>6, Frame, Zenon

(* The messages and the marked entries are still there.                    *)
KeepsMarked(q, r) ==
    (\A m : On(q, m) => On(r, m)) /\ (\A v : Marked(q, v) => Marked(r, v))

(* An entry becomes due.                                                   *)
LEMMA DueChanges ==
    ASSUME NEW q \in Seq(Entries), NEW k \in DOMAIN q, Distinct(q),
           NEW r, r = [q EXCEPT ![k].due = TRUE]
    PROVE  /\ r \in Seq(Entries) /\ Distinct(r)
           /\ KeepsMarked(q, r)
  <1>1. q[k] \in Entries
    OBVIOUS
  <1>2. \A e \in Entries : /\ [e EXCEPT !.due = TRUE] \in Entries
                           /\ [e EXCEPT !.due = TRUE].adr = e.adr
                           /\ [e EXCEPT !.due = TRUE].msg = e.msg
                           /\ [e EXCEPT !.due = TRUE].bProcessing = e.bProcessing
    BY DEF Entries
  <1>3. PICK e \in Entries : /\ e.adr = q[k].adr /\ e.msg = q[k].msg
                             /\ (e.bProcessing <=> q[k].bProcessing)
                             /\ r = [q EXCEPT ![k] = e]
    BY <1>1, <1>2
  <1>4. /\ r \in Seq(Entries) /\ (Distinct(q) => Distinct(r))
        /\ \A m : On(q, m) => On(r, m)
        /\ \A v : Marked(q, v) /\ (v.adr # q[k].adr \/ (e.bProcessing <=> q[k].bProcessing)
                                      \/ e.bProcessing)
                       => Marked(r, v)
    BY <1>3, EntryChanges
  <1> QED
    BY <1>3, <1>4, Zenon DEF KeepsMarked

LEMMA TimePassesKeeps ==
    ASSUME PoolInv, TimePasses
    PROVE  PoolInv'
  <1>1. /\ PoolTypeOK /\ Distinct(msgQueue)
        /\ UNCHANGED <<pool, loc, bDisable, dwMaxNumThreads, plan, unsent, sent, removed, processed>>
    BY DEF PoolInv, DistinctAdr, Distinct, TimePasses, history
  <1>2. /\ msgQueue \in Seq(Entries) /\ future \in Seq(Later)
        /\ \A i \in DOMAIN msgQueue : msgQueue[i] \in Entries
        /\ \A i \in DOMAIN future : future[i] \in Later
    BY <1>1, QueueFacts
  <1>3. CASE \E i \in DOMAIN msgQueue :
                 msgQueue' = [msgQueue EXCEPT ![i].due = TRUE] /\ UNCHANGED future
    <2>1. PICK i \in DOMAIN msgQueue :
                 msgQueue' = [msgQueue EXCEPT ![i].due = TRUE] /\ UNCHANGED future
      BY <1>3
    <2>2. msgQueue \in Seq(Entries) /\ Distinct(msgQueue)
      BY <1>1, <1>2
    <2>3. msgQueue' = [msgQueue EXCEPT ![i].due = TRUE]
      BY <2>1
    <2>4. /\ msgQueue' \in Seq(Entries) /\ Distinct(msgQueue')
          /\ \A m : On(msgQueue, m) => On(msgQueue', m)
          /\ \A v : Marked(msgQueue, v) => Marked(msgQueue', v)
      <3>1. msgQueue' \in Seq(Entries) /\ Distinct(msgQueue') /\ KeepsMarked(msgQueue, msgQueue')
        BY <2>2, <2>3, DueChanges, Zenon
      <3> QED
        BY <3>1, Zenon DEF KeepsMarked
    <2>5. PoolTypeOK'
      BY <1>1, <2>1, <2>4 DEF PoolTypeOK, Entries
    <2>6. \A m : On(future, m) => On(future', m)
      BY <2>1
    <2>7. UNCHANGED <<pool, loc, bDisable, sent, processed>> /\ removed \subseteq removed'
      BY <1>1
    <2> QED
      BY <2>4, <2>5, <2>6, <2>7, QueueStep, Zenon
  <1>4. CASE \E i \in DOMAIN future :
                 future' = [future EXCEPT ![i].due = TRUE] /\ UNCHANGED msgQueue
    <2>1. PICK i \in DOMAIN future :
                 future' = [future EXCEPT ![i].due = TRUE] /\ UNCHANGED msgQueue
      BY <1>4
    <2> SUFFICES ASSUME NEW e, e = [future[i] EXCEPT !.due = TRUE]
                 PROVE  PoolInv'
      OBVIOUS
    <2>2. e \in Later /\ e.msg = future[i].msg
      BY <1>2 DEF Later
    <2>3. future' = [future EXCEPT ![i] = e]
      BY <2>1
    <2>4. /\ future' \in Seq(Later) /\ DOMAIN future' = DOMAIN future
          /\ \A j \in DOMAIN future : future'[j] = IF j = i THEN e ELSE future[j]
      BY <1>2, <2>2, <2>3
    <2>5. \A m : On(future, m) => On(future', m)
      BY <2>2, <2>4 DEF On
    <2>6. PoolTypeOK'
      BY <1>1, <2>1, <2>4 DEF PoolTypeOK, Later
    <2>7. UNCHANGED <<pool, loc, bDisable, sent, processed>> /\ removed \subseteq removed'
      BY <1>1
    <2>8. msgQueue' = msgQueue
      BY <2>1
    <2> QED
      BY <1>1, <2>5, <2>6, <2>7, <2>8, QueueStep, Zenon
  <1> QED
    BY <1>3, <1>4 DEF TimePasses

(* What SearchMessageKill leaves: the entries at f, in their order.        *)
Picked(q, r, n, f, kept) ==
    /\ n \in Nat /\ f \in [1 .. n -> kept]
    /\ \A j, k \in 1 .. n : j < k => f[j] < f[k]
    /\ \A i \in kept : \E k \in 1 .. n : f[k] = i
    /\ r = [k \in 1 .. n |-> q[f[k]]]

KeepsAt(q, r, kept) == \A i \in kept : \E k \in DOMAIN r : r[k] = q[i]

LEMMA PickedKeeps ==
    ASSUME NEW q \in Seq(Entries), NEW kept \in SUBSET DOMAIN q, NEW n, NEW f, NEW r,
           Picked(q, r, n, f, kept)
    PROVE  r \in Seq(Entries) /\ (Distinct(q) => Distinct(r)) /\ KeepsAt(q, r, kept)
  <1>1. /\ n \in Nat /\ r = [k \in 1 .. n |-> q[f[k]]]
        /\ \A k \in 1 .. n : f[k] \in kept /\ f[k] \in DOMAIN q /\ q[f[k]] \in Entries
    BY DEF Picked
  <1>2. DOMAIN r = 1 .. n /\ \A k \in 1 .. n : r[k] = q[f[k]]
    BY <1>1
  <1>3. r \in Seq(Entries)
    BY <1>1
  <1>4. ASSUME Distinct(q), NEW j \in 1 .. n, NEW k \in 1 .. n, r[j].adr = r[k].adr
        PROVE  j = k
    <2>1. f[j] = f[k]
      BY <1>1, <1>2, <1>4 DEF Distinct
    <2>2. f[j] \in Int /\ f[k] \in Int
      BY <1>1
    <2>3. (j < k => f[j] < f[k]) /\ (k < j => f[k] < f[j])
      BY DEF Picked
    <2> QED
      BY <1>1, <2>1, <2>2, <2>3
  <1>5. ASSUME NEW i \in kept
        PROVE  \E k \in DOMAIN r : r[k] = q[i]
    <2>1. PICK k \in 1 .. n : f[k] = i
      BY DEF Picked
    <2> QED
      BY <1>2, <2>1
  <1>6. Distinct(q) => Distinct(r)
    BY <1>2, <1>4 DEF Distinct
  <1> QED
    BY <1>3, <1>5, <1>6 DEF KeepsAt

LEMMA SearchMessageKillKeeps ==
    ASSUME PoolInv, NEW m \in Messages, SearchMessageKill(m)
    PROVE  PoolInv'
  <1> DEFINE kept == {i \in DOMAIN msgQueue : msgQueue[i].bProcessing \/ msgQueue[i].msg # m}
             n == Cardinality(kept)
  <1>1. /\ PoolTypeOK /\ Distinct(msgQueue) /\ removed' = removed \cup {m}
        /\ UNCHANGED <<future, pool, loc, bDisable, dwMaxNumThreads, plan, unsent, sent, processed>>
    BY DEF PoolInv, DistinctAdr, Distinct, SearchMessageKill
  <1>2. /\ msgQueue \in Seq(Entries) /\ Len(msgQueue) \in Nat
        /\ DOMAIN msgQueue = 1 .. Len(msgQueue) /\ kept \in SUBSET DOMAIN msgQueue
    BY <1>1, QueueFacts
  <1>3. n \in Nat
    <2>1. IsFiniteSet(1 .. Len(msgQueue))
      BY <1>2, FS_Interval
    <2> QED
      BY <1>2, <2>1, FS_Subset, FS_CardinalityType
  <1>4. \E f : Picked(msgQueue, msgQueue', n, f, kept)
    BY <1>3 DEF Picked, SearchMessageKill
  <1>5. \A i \in DOMAIN msgQueue : msgQueue[i].bProcessing \/ msgQueue[i].msg # m => i \in kept
    OBVIOUS
  <1> HIDE DEF kept, n
  <1>6. /\ msgQueue' \in Seq(Entries) /\ Distinct(msgQueue')
        /\ \A i \in kept : \E k \in DOMAIN msgQueue' : msgQueue'[k] = msgQueue[i]
    <2>1. Distinct(msgQueue) /\ msgQueue \in Seq(Entries) /\ kept \in SUBSET DOMAIN msgQueue
      BY <1>1, <1>2
    <2>2. PICK f : Picked(msgQueue, msgQueue', n, f, kept)
      BY <1>4
    <2> QED
      <3>1. msgQueue' \in Seq(Entries) /\ Distinct(msgQueue') /\ KeepsAt(msgQueue, msgQueue', kept)
        BY <2>1, <2>2, PickedKeeps, Zenon
      <3> QED
        BY <3>1, Zenon DEF KeepsAt
  <1>7. ASSUME NEW x, On(msgQueue, x)
        PROVE  On(msgQueue', x) \/ x \in removed'
    <2>1. PICK i \in DOMAIN msgQueue : msgQueue[i].msg = x
      BY <1>7 DEF On
    <2>2. CASE x = m
      BY <1>1, <2>2
    <2>3. CASE x # m
      <3>1. i \in kept
        BY <1>5, <2>1, <2>3
      <3> QED
        BY <1>6, <2>1, <3>1, Zenon DEF On
    <2> QED
      BY <2>2, <2>3
  <1>8. ASSUME NEW v, Marked(msgQueue, v)
        PROVE  Marked(msgQueue', v)
    <2>1. PICK i \in DOMAIN msgQueue : /\ msgQueue[i].adr = v.adr /\ msgQueue[i].bProcessing
                                       /\ msgQueue[i].msg = v.msg
      BY <1>8, Zenon DEF Marked
    <2>2. i \in kept
      BY <1>5, <2>1
    <2> QED
      BY <1>6, <2>1, <2>2, Zenon DEF Marked
  <1>9. PoolTypeOK'
    BY <1>1, <1>6 DEF PoolTypeOK, Entries
  <1>10. /\ UNCHANGED <<pool, loc, bDisable, sent, processed>> /\ removed \subseteq removed'
         /\ \A x : On(future, x) => On(future', x)
    BY <1>1
  <1> QED
    BY <1>6, <1>7, <1>8, <1>9, <1>10, QueueStep, Zenon

-----------------------------------------------------------------------------
(* A thread takes an entry and gives it up.                                *)

(* All but the entries at one address are as they were, or still marked.   *)
KeepsOthers(q, r, x) == \A v : v.adr # x /\ Marked(q, v) => Marked(r, v)
KeepsMessages(q, r) == \A m : On(q, m) => On(r, m)
MarkedFor(r, x, m) == \E j \in DOMAIN r : r[j].adr = x /\ r[j].bProcessing /\ r[j].msg = m

LEMMA EntryMarked ==
    ASSUME NEW q \in Seq(Entries), NEW k \in DOMAIN q, Distinct(q), NEW b \in BOOLEAN,
           NEW e \in Entries, e.adr = q[k].adr, e.msg = q[k].msg, e.bProcessing <=> b,
           NEW r, r = [q EXCEPT ![k] = e]
    PROVE  /\ r \in Seq(Entries) /\ Distinct(r) /\ KeepsMessages(q, r)
           /\ KeepsOthers(q, r, q[k].adr)
           /\ b => KeepsMarked(q, r) /\ MarkedFor(r, q[k].adr, q[k].msg)
  <1>1. /\ r \in Seq(Entries) /\ DOMAIN r = DOMAIN q /\ r[k] = e
        /\ Distinct(q) => Distinct(r)
        /\ \A m : On(q, m) => On(r, m)
        /\ \A v : Marked(q, v) /\ (v.adr # q[k].adr \/ (e.bProcessing <=> q[k].bProcessing)
                                      \/ e.bProcessing)
                       => Marked(r, v)
    BY EntryChanges, Zenon
  <1>2. b => MarkedFor(r, q[k].adr, q[k].msg)
    BY <1>1, Zenon DEF MarkedFor
  <1> QED
    BY <1>1, <1>2, Zenon DEF KeepsMarked, KeepsOthers, KeepsMessages

LEMMA MarkChanges ==
    ASSUME NEW q \in Seq(Entries), NEW k \in DOMAIN q, Distinct(q), NEW b \in BOOLEAN,
           NEW r, r = [q EXCEPT ![k].bProcessing = b]
    PROVE  /\ r \in Seq(Entries) /\ Distinct(r) /\ KeepsMessages(q, r)
           /\ KeepsOthers(q, r, q[k].adr)
           /\ b => KeepsMarked(q, r) /\ MarkedFor(r, q[k].adr, q[k].msg)
  <1>1. q[k] \in Entries
    OBVIOUS
  <1>2. \A e \in Entries : /\ [e EXCEPT !.bProcessing = b] \in Entries
                           /\ [e EXCEPT !.bProcessing = b].adr = e.adr
                           /\ [e EXCEPT !.bProcessing = b].msg = e.msg
                           /\ [e EXCEPT !.bProcessing = b].bProcessing = b
    BY DEF Entries
  <1>3. PICK e \in Entries : /\ e.adr = q[k].adr /\ e.msg = q[k].msg
                             /\ (e.bProcessing <=> b)
                             /\ r = [q EXCEPT ![k] = e]
    BY <1>1, <1>2
  <1> QED
    BY <1>3, EntryMarked, ZenonT(40)

LEMMA PickMoves ==
    ASSUME PoolTypeOK, NEW a \in Actors, NEW p \in Places, NEW m \in Messages, NEW x \in Nat,
           NEW v \in {"process", "erase", "sent"},
           loc' = [loc EXCEPT ![a].msg = m, ![a].adr = x, ![a].pc = p, ![a].ret = v]
    PROVE  /\ loc' \in [Actors -> Locals]
           /\ \A b \in Actors : b # a => loc'[b] = loc[b]
           /\ loc'[a].pc = p /\ loc'[a].msg = m /\ loc'[a].adr = x /\ loc'[a].ret = v
  <1> DEFINE r == [loc[a] EXCEPT !.msg = m, !.adr = x, !.pc = p, !.ret = v]
  <1>1. loc' = [loc EXCEPT ![a] = r]
    OBVIOUS
  <1>2. loc[a] \in Locals
    BY DEF PoolTypeOK
  <1>3. r \in Locals /\ r.pc = p /\ r.msg = m /\ r.adr = x /\ r.ret = v
    BY <1>2 DEF Locals
  <1> HIDE DEF r
  <1> QED
    BY <1>1, <1>3, LocChanges

LEMMA InUse ==
    ASSUME PoolTypeOK, NEW t \in Threads, NEW g \in Nat,
           pool' = [pool EXCEPT ![t].group = g, ![t].bInUse = TRUE]
    PROVE  /\ pool' \in [Threads -> Work]
           /\ \A u \in Threads : u # t => pool'[u] = pool[u]
           /\ pool'[t].life = pool[t].life /\ pool'[t].group = g /\ pool'[t].bInUse
  <1> DEFINE r == [pool[t] EXCEPT !.group = g, !.bInUse = TRUE]
  <1>1. pool[t] \in Work /\ pool \in [Threads -> Work]
    BY DEF PoolTypeOK, Work
  <1>2. pool' = [pool EXCEPT ![t] = r]
    BY <1>1
  <1>3. r \in Work /\ r.life = pool[t].life /\ r.group = g /\ r.bInUse
    BY <1>1 DEF Work
  <1> HIDE DEF r
  <1> QED
    BY <1>1, <1>2, <1>3

(* IfInGroup, with what it is to be in a group spelled out.                *)
LEMMA InGroup ==
    ASSUME PoolTypeOK, NEW g \in Nat, IfInGroup(g), NEW t \in Threads, pool[t].bInUse
    PROVE  Together(g, pool[t].group) /\ Together(pool[t].group, g)
  <1>1. pool[t].group \in Nat
    BY DEF PoolTypeOK
  <1>2. CASE {g, pool[t].group} # {DontCare}
    <2>1. g < AloneBase /\ pool[t].group < AloneBase /\ pool[t].group = g
      BY <1>2, Zenon DEF IfInGroup
    <2> QED
      BY <2>1 DEF Together
  <1>3. CASE {g, pool[t].group} = {DontCare}
    <2>1. g = DontCare /\ pool[t].group = DontCare
      BY <1>3
    <2> QED
      BY <2>1 DEF Together, DontCare, AloneBase
  <1> QED
    BY <1>2, <1>3

(* A thread finds nothing to do.                                           *)
LEMMA LeavesLoop ==
    ASSUME PoolInv, NEW t \in Threads, loc[t].pc = "pick", Goto(t, LeaveLoop(t)),
           UNCHANGED <<msgQueue, future, pool, bDisable, dwMaxNumThreads, history>>
    PROVE  PoolInv'
  <1>1. PoolTypeOK /\ t \in Actors
    BY OtherKinds DEF PoolInv
  <1>2. LeaveLoop(t) \in IdlePlaces /\ LeaveLoop(t) \in Places
    BY DEF IdlePlaces, Places, LeaveLoop
  <1>3. loc' = [loc EXCEPT ![t].pc = LeaveLoop(t)]
    BY DEF Goto
  <1>4. /\ loc' \in [Actors -> Locals] /\ \A b \in Actors : b # t => loc'[b] = loc[b]
        /\ loc'[t].pc = LeaveLoop(t)
    BY <1>1, <1>2, <1>3, PlaceMoves
  <1>5. ~Quiet(loc[t]) /\ loc[t].pc \notin {"off", "send", "full"}
    BY DEF Quiet
  <1> QED
    BY <1>2, <1>4, <1>5, ThreadGoes, Zenon

(* What a thread that takes an entry does, the entry being e.              *)
Taken(t, e) ==
    /\ msgQueue' \in Seq(Entries) /\ Distinct(msgQueue') /\ KeepsMarked(msgQueue, msgQueue')
    /\ MarkedFor(msgQueue', e.adr, e.msg)
    /\ pool' \in [Threads -> Work] /\ \A u \in Threads : u # t => pool'[u] = pool[u]
    /\ pool'[t].life = pool[t].life /\ pool'[t].group = Grouping[e.msg] /\ pool'[t].bInUse
    /\ loc' \in [Actors -> Locals] /\ \A b \in Actors : b # t => loc'[b] = loc[b]
    /\ loc'[t].pc = "add" /\ loc'[t].msg = e.msg /\ loc'[t].adr = e.adr
    /\ loc'[t].ret = "process"

LEMMA TakenFacts ==
    ASSUME PoolInv, NEW t \in Threads, NEW i \in DOMAIN msgQueue,
           msgQueue' = [msgQueue EXCEPT ![i].bProcessing = TRUE],
           pool' = [pool EXCEPT ![t].group = Grouping[msgQueue[i].msg], ![t].bInUse = TRUE],
           loc' = [loc EXCEPT ![t].msg = msgQueue[i].msg, ![t].adr = msgQueue[i].adr,
                              ![t].pc = "add", ![t].ret = "process"]
    PROVE  Taken(t, msgQueue[i])
  <1>1. PoolTypeOK /\ t \in Actors /\ Distinct(msgQueue)
    BY OtherKinds DEF PoolInv, DistinctAdr, Distinct
  <1>2. msgQueue \in Seq(Entries) /\ msgQueue[i] \in Entries
    BY <1>1, QueueFacts
  <1>3. /\ msgQueue[i].msg \in Messages /\ msgQueue[i].adr \in Nat
    BY <1>2 DEF Entries
  <1>4. Grouping[msgQueue[i].msg] \in Nat
    BY <1>3, PoolAssumption
  <1>5. TRUE \in BOOLEAN /\ "add" \in Places /\ "process" \in {"process", "erase", "sent"}
    BY DEF Places
  <1>6. /\ msgQueue' \in Seq(Entries) /\ Distinct(msgQueue') /\ KeepsMarked(msgQueue, msgQueue')
        /\ MarkedFor(msgQueue', msgQueue[i].adr, msgQueue[i].msg)
    BY <1>1, <1>2, <1>5, MarkChanges, Zenon
  <1>7. /\ pool' \in [Threads -> Work] /\ \A u \in Threads : u # t => pool'[u] = pool[u]
        /\ pool'[t].life = pool[t].life /\ pool'[t].group = Grouping[msgQueue[i].msg]
        /\ pool'[t].bInUse
    BY <1>1, <1>4, InUse, Zenon
  <1>8. /\ loc' \in [Actors -> Locals] /\ \A b \in Actors : b # t => loc'[b] = loc[b]
        /\ loc'[t].pc = "add" /\ loc'[t].msg = msgQueue[i].msg /\ loc'[t].adr = msgQueue[i].adr
        /\ loc'[t].ret = "process"
    BY <1>1, <1>3, <1>5, PickMoves, ZenonT(40)
  <1> QED
    BY <1>6, <1>7, <1>8, Zenon DEF Taken

LEMMA TakenKeeps ==
    ASSUME PoolInv, NEW t \in Threads, loc[t].pc = "pick", NEW i \in DOMAIN msgQueue,
           ~msgQueue[i].bProcessing, IfInGroup(Grouping[msgQueue[i].msg]),
           Taken(t, msgQueue[i]),
           UNCHANGED <<future, bDisable, dwMaxNumThreads, history>>
    PROVE  PoolInv'
  <1>1. PoolTypeOK /\ t \in Actors /\ t # Owner /\ Owner \in Actors /\ DistinctAdr
    BY OtherKinds DEF PoolInv, Actors
  <1>2. msgQueue[i] \in Entries
    BY <1>1, QueueFacts
  <1>3. msgQueue[i].msg \in Messages /\ Grouping[msgQueue[i].msg] \in Nat
    BY <1>2, PoolAssumption DEF Entries
  <1>4. UNCHANGED <<future, bDisable, dwMaxNumThreads, plan, unsent, sent, removed, processed>>
    BY DEF history
  <1>5. PoolTypeOK'
    BY <1>1, <1>4 DEF PoolTypeOK, Entries, Work, Taken
  <1>6. DistinctAdr'
    BY DEF DistinctAdr, Distinct, Taken
  <1>7. /\ ~HasEntry(loc[t]) /\ ~Quiet(loc[t]) /\ loc[t].pc \notin {"send", "full", "off"}
    BY DEF HasEntry, Quiet
  <1>8. /\ HasEntry(loc'[t]) /\ ~WillErase(loc'[t]) /\ Returns(loc'[t]) /\ loc'[t].pc # "finish"
        /\ Marked(msgQueue', loc'[t])
    BY DEF HasEntry, WillErase, Returns, Taken, Marked, MarkedFor
  <1>9. ASSUME NEW u \in Threads, u # t
        PROVE  u \in Actors /\ loc'[u] = loc[u] /\ pool'[u] = pool[u]
    BY <1>9 DEF Actors, Taken
  <1>10. EntriesKept'
    <2> SUFFICES ASSUME NEW u \in Threads, HasEntry(loc'[u])
                 PROVE  /\ pool'[u].bInUse /\ pool'[u].group = Grouping[loc'[u].msg]
                        /\ Marked(msgQueue', loc'[u])
      BY DEF EntriesKept
    <2>1. CASE u = t
      BY <1>8, <2>1, Zenon DEF Taken
    <2>2. CASE u # t
      <3>1. loc'[u] = loc[u] /\ pool'[u] = pool[u]
        BY <1>9, <2>2
      <3>2. /\ pool[u].bInUse /\ pool[u].group = Grouping[loc[u].msg]
            /\ Marked(msgQueue, loc[u])
        BY <3>1, Zenon DEF PoolInv, EntriesKept
      <3> QED
        BY <3>1, <3>2, Zenon DEF Taken, KeepsMarked
    <2> QED
      BY <2>1, <2>2
  <1>11. ASSUME NEW u \in Threads, HasEntry(loc[u])
         PROVE  loc[u].adr # msgQueue[i].adr
    <2>1. PICK j \in DOMAIN msgQueue : msgQueue[j].adr = loc[u].adr /\ msgQueue[j].bProcessing
      BY <1>11, Zenon DEF PoolInv, EntriesKept, Marked
    <2>2. j # i
      BY <2>1
    <2> QED
      BY <1>1, <2>1, <2>2, Zenon DEF DistinctAdr
  <1>12. EntriesApart'
    <2> SUFFICES ASSUME NEW u \in Threads, NEW v \in Threads, u # v,
                        HasEntry(loc'[u]), HasEntry(loc'[v])
                 PROVE  loc'[u].adr # loc'[v].adr
      BY DEF EntriesApart
    <2>1. CASE u = t
      <3>1. loc'[v] = loc[v]
        BY <1>9, <2>1
      <3> QED
        BY <1>11, <2>1, <3>1 DEF Taken
    <2>2. CASE v = t
      <3>1. loc'[u] = loc[u]
        BY <1>9, <2>2
      <3> QED
        BY <1>11, <2>2, <3>1 DEF Taken
    <2>3. CASE u # t /\ v # t
      <3>1. loc'[u] = loc[u] /\ loc'[v] = loc[v]
        BY <1>9, <2>3
      <3> QED
        BY <3>1, Zenon DEF PoolInv, EntriesApart
    <2> QED
      BY <2>1, <2>2, <2>3
  <1>13. GroupsTogether'
    <2> SUFFICES ASSUME NEW u \in Threads, NEW v \in Threads, u # v,
                        pool'[u].bInUse, pool'[v].bInUse
                 PROVE  Together(pool'[u].group, pool'[v].group)
      BY DEF GroupsTogether
    <2>1. CASE u = t
      <3>1. pool'[v] = pool[v] /\ pool'[u].group = Grouping[msgQueue[i].msg]
        BY <1>9, <2>1 DEF Taken
      <3> QED
        BY <1>1, <1>3, <3>1, InGroup, Zenon
    <2>2. CASE v = t
      <3>1. pool'[u] = pool[u] /\ pool'[v].group = Grouping[msgQueue[i].msg]
        BY <1>9, <2>2 DEF Taken
      <3> QED
        BY <1>1, <1>3, <3>1, InGroup, Zenon
    <2>3. CASE u # t /\ v # t
      <3>1. pool'[u] = pool[u] /\ pool'[v] = pool[v]
        BY <1>9, <2>3
      <3> QED
        BY <3>1, Zenon DEF PoolInv, GroupsTogether
    <2> QED
      BY <2>1, <2>2, <2>3
  <1>14. Lives'
    <2> SUFFICES ASSUME NEW u \in Threads, pool'[u].life # "active"
                 PROVE  loc'[u].pc = "off"
      BY DEF Lives
    <2>1. pool[u].life = pool'[u].life
      BY <1>9 DEF Taken
    <2>2. loc[u].pc = "off"
      BY <2>1 DEF PoolInv, Lives
    <2> QED
      BY <1>7, <1>9, <2>2
  <1>15. SafeFrame
    BY <1>4, Zenon DEF SafeFrame, Safe, SafeIn, Taken, KeepsMarked
  <1>16. Stopped'
    <2>1. ASSUME NEW u \in Threads, Quiet(loc[u])
          PROVE  Quiet(loc'[u])
      BY <1>7, <1>9, <2>1, Zenon
    <2>2. loc'[Owner] = loc[Owner]
      BY <1>1, Zenon DEF Taken
    <2>3. bDisable => bDisable'
      BY <1>4
    <2> QED
      BY <2>1, <2>2, <2>3, StoppedFrame, Zenon
  <1>17. NothingLost'
    <2>1. sent' \subseteq Messages /\ sent' = sent /\ future' = future
      BY <1>4, <1>5 DEF PoolTypeOK
    <2>2. ASSUME NEW b \in Actors, loc[b].pc \in {"send", "full"}
          PROVE  loc'[b].pc \in {"send", "full"} /\ loc'[b].msg = loc[b].msg
      BY <1>7, <2>2, Zenon DEF Taken
    <2> QED
      BY <1>15, <2>1, <2>2, LostFrame, Zenon
  <1>18. ASSUME NEW b \in Actors
         PROVE  ActorFrame(b)
    <2>1. CASE b # t
      BY <2>1, Zenon DEF ActorFrame, Taken
    <2>2. CASE b = t
      BY <1>3, <1>8, <2>2, Zenon DEF ActorFrame, Taken
    <2> QED
      BY <2>1, <2>2
  <1>19. LocalsFit' /\ ErasedIsSafe'
    BY <1>15, <1>18, ActorsFit, Zenon
  <1> QED
    BY <1>5, <1>6, <1>10, <1>12, <1>13, <1>14, <1>16, <1>17, <1>19, Zenon DEF PoolInv

LEMMA PickKeeps ==
    ASSUME PoolInv, NEW t \in Threads, Pick(t)
    PROVE  PoolInv'
  <1>1. /\ loc[t].pc = "pick" /\ UNCHANGED <<future, bDisable, dwMaxNumThreads, history>>
        /\ PoolTypeOK
    BY DEF Pick, At, PoolInv
  <1>2. CASE Goto(t, LeaveLoop(t)) /\ UNCHANGED <<msgQueue, pool>>
    <2>1. UNCHANGED <<msgQueue, future, pool, bDisable, dwMaxNumThreads, history>>
      BY <1>1, <1>2
    <2> QED
      BY <1>1, <1>2, <2>1, LeavesLoop, Zenon
  <1>3. CASE ~(Goto(t, LeaveLoop(t)) /\ UNCHANGED <<msgQueue, pool>>)
    <2> SUFFICES ASSUME NEW i, i = First(Waiting)
                 PROVE  PoolInv'
      OBVIOUS
    <2>1. /\ Waiting # {} /\ IfInGroup(Grouping[msgQueue[i].msg])
          /\ msgQueue' = [msgQueue EXCEPT ![i].bProcessing = TRUE]
          /\ pool' = [pool EXCEPT ![t].group = Grouping[msgQueue[i].msg], ![t].bInUse = TRUE]
          /\ loc' = [loc EXCEPT ![t].msg = msgQueue[i].msg, ![t].adr = msgQueue[i].adr,
                                ![t].pc = "add", ![t].ret = "process"]
      BY <1>3, Zenon DEF Pick
    <2>2. Len(msgQueue) \in Nat /\ Waiting \in SUBSET (1 .. Len(msgQueue))
      BY <1>1, QueueFacts DEF Waiting
    <2>3. i \in Waiting
      BY <2>1, <2>2, FirstOf, Zenon
    <2>4. i \in DOMAIN msgQueue /\ ~msgQueue[i].bProcessing
      BY <2>3 DEF Waiting
    <2>5. Taken(t, msgQueue[i])
      BY <2>1, <2>4, TakenFacts, Zenon
    <2> QED
      BY <1>1, <2>1, <2>4, <2>5, TakenKeeps, Zenon
  <1> QED
    BY <1>2, <1>3
LEMMA FinishMoves ==
    ASSUME PoolTypeOK, NEW a \in Actors, NEW p \in Places, NEW x \in Nat,
           NEW m \in Messages \cup {NoMsg}, NEW v \in {"none", "process", "erase", "sent"},
           loc' = [loc EXCEPT ![a].pc = p, ![a].adr = x, ![a].msg = m, ![a].ret = v]
    PROVE  /\ loc' \in [Actors -> Locals]
           /\ \A b \in Actors : b # a => loc'[b] = loc[b]
           /\ loc'[a].pc = p
  <1> DEFINE r == [loc[a] EXCEPT !.pc = p, !.adr = x, !.msg = m, !.ret = v]
  <1>1. loc' = [loc EXCEPT ![a] = r]
    OBVIOUS
  <1>2. loc[a] \in Locals
    BY DEF PoolTypeOK
  <1>3. r \in Locals /\ r.pc = p
    BY <1>2 DEF Locals
  <1> HIDE DEF r
  <1> QED
    BY <1>1, <1>3, LocChanges

(* Erasing an entry takes no other thread's, and no other message.         *)
KeepsBesides(q, r, m) == \A k : On(q, k) => On(r, k) \/ k = m

LEMMA ErasedEntry ==
    ASSUME NEW q \in Seq(Entries), NEW k \in DOMAIN q, Distinct(q),
           NEW r, r = Without(q, k)
    PROVE  /\ r \in Seq(Entries) /\ Distinct(r) /\ KeepsOthers(q, r, q[k].adr)
           /\ KeepsBesides(q, r, q[k].msg)
  <1>1. r \in Seq(Entries) /\ KeepsBut(q, r, k) /\ (Distinct(q) => Distinct(r))
    BY WithoutKeeps, Zenon
  <1>2. ASSUME NEW v, v.adr # q[k].adr, Marked(q, v)
        PROVE  Marked(r, v)
    <2>1. PICK i \in DOMAIN q : q[i].adr = v.adr /\ q[i].bProcessing /\ q[i].msg = v.msg
      BY <1>2, Zenon DEF Marked
    <2>2. i # k
      BY <1>2, <2>1
    <2>3. PICK j \in DOMAIN r : r[j] = q[i]
      BY <1>1, <2>2, Zenon DEF KeepsBut
    <2> QED
      BY <2>1, <2>3, Zenon DEF Marked
  <1>3. ASSUME NEW m, On(q, m), m # q[k].msg
        PROVE  On(r, m)
    <2>1. PICK i \in DOMAIN q : q[i].msg = m
      BY <1>3, Zenon DEF On
    <2>2. i # k
      BY <1>3, <2>1
    <2>3. PICK j \in DOMAIN r : r[j] = q[i]
      BY <1>1, <2>2, Zenon DEF KeepsBut
    <2> QED
      BY <2>1, <2>3, Zenon DEF On
  <1> QED
    BY <1>1, <1>2, <1>3, Zenon DEF KeepsOthers, KeepsBesides

(* What a thread does to the queue when it gives up its entry.             *)
GivenUp(t) ==
    /\ msgQueue' \in Seq(Entries) /\ Distinct(msgQueue')
    /\ KeepsOthers(msgQueue, msgQueue', loc[t].adr)
    /\ IF loc[t].bProcessed THEN KeepsBesides(msgQueue, msgQueue', loc[t].msg)
                            ELSE KeepsMessages(msgQueue, msgQueue')

LEMMA FinishQueue ==
    ASSUME PoolInv, NEW t \in Threads, Finish(t)
    PROVE  GivenUp(t)
  <1> SUFFICES ASSUME NEW found, found = Entry(loc[t].adr), NEW k, k = First(found)
               PROVE  GivenUp(t)
    OBVIOUS
  <1>1. PoolTypeOK /\ Distinct(msgQueue) /\ HasEntry(loc[t])
    BY DEF PoolInv, DistinctAdr, Distinct, Finish, At, HasEntry
  <1>2. /\ msgQueue \in Seq(Entries) /\ Len(msgQueue) \in Nat
        /\ DOMAIN msgQueue = 1 .. Len(msgQueue)
    BY <1>1, QueueFacts
  <1>3. PICK i \in DOMAIN msgQueue : msgQueue[i].adr = loc[t].adr /\ msgQueue[i].msg = loc[t].msg
    BY <1>1, Zenon DEF PoolInv, EntriesKept, Marked
  <1>4. found \in SUBSET (1 .. Len(msgQueue)) /\ found # {}
    BY <1>2, <1>3 DEF Entry
  <1>5. k \in found
    BY <1>2, <1>4, FirstOf, Zenon
  <1>6. k \in DOMAIN msgQueue /\ msgQueue[k].adr = loc[t].adr
    BY <1>5 DEF Entry
  <1>7. k = i
    BY <1>1, <1>3, <1>6, Zenon DEF Distinct
  <1>8. msgQueue[k].msg = loc[t].msg
    BY <1>3, <1>7
  <1>9. msgQueue' = IF loc[t].bProcessed THEN Without(msgQueue, k)
                    ELSE [msgQueue EXCEPT ![k].bProcessing = FALSE]
    BY <1>4 DEF Finish
  <1>10. Distinct(msgQueue) /\ msgQueue \in Seq(Entries) /\ FALSE \in BOOLEAN
    BY <1>1, <1>2
  <1>11. CASE loc[t].bProcessed
    <2>1. msgQueue' = Without(msgQueue, k)
      BY <1>9, <1>11
    <2>2. /\ msgQueue' \in Seq(Entries) /\ Distinct(msgQueue')
          /\ KeepsOthers(msgQueue, msgQueue', msgQueue[k].adr)
          /\ KeepsBesides(msgQueue, msgQueue', msgQueue[k].msg)
      BY <1>6, <1>10, <2>1, ErasedEntry, Zenon
    <2> QED
      BY <1>6, <1>8, <1>11, <2>2, Zenon DEF GivenUp
  <1>12. CASE ~loc[t].bProcessed
    <2>1. msgQueue' = [msgQueue EXCEPT ![k].bProcessing = FALSE]
      BY <1>9, <1>12
    <2>2. /\ msgQueue' \in Seq(Entries) /\ Distinct(msgQueue')
          /\ KeepsOthers(msgQueue, msgQueue', msgQueue[k].adr)
          /\ KeepsMessages(msgQueue, msgQueue')
      BY <1>6, <1>10, <2>1, MarkChanges, Zenon
    <2> QED
      BY <1>6, <1>12, <2>2, Zenon DEF GivenUp
  <1> QED
    BY <1>11, <1>12

LEMMA FinishKeeps ==
    ASSUME PoolInv, NEW t \in Threads, Finish(t)
    PROVE  PoolInv'
  <1>1. /\ PoolTypeOK /\ t \in Actors /\ t # Owner /\ Owner \in Actors /\ loc[t].pc = "finish"
        /\ "idle" \in Places /\ 0 \in Nat /\ NoMsg \in Messages \cup {NoMsg}
        /\ "none" \in {"none", "process", "erase", "sent"}
    BY OtherKinds DEF PoolInv, Finish, At, Actors, Places
  <1>2. GivenUp(t)
    BY FinishQueue
  <1>3. UNCHANGED <<future, pool, bDisable, dwMaxNumThreads, plan, unsent, sent, removed, processed>>
    BY DEF Finish, history
  <1>4. loc' = [loc EXCEPT ![t].pc = "idle", ![t].adr = 0, ![t].msg = NoMsg, ![t].ret = "none"]
    BY DEF Finish
  <1>5. /\ loc' \in [Actors -> Locals] /\ \A b \in Actors : b # t => loc'[b] = loc[b]
        /\ loc'[t].pc = "idle"
    BY <1>1, <1>4, FinishMoves, Zenon
  <1>6. /\ HasEntry(loc[t]) /\ NeedsMsg(loc[t]) /\ ~Quiet(loc[t])
        /\ loc[t].pc \notin {"send", "full", "off"}
    BY <1>1 DEF HasEntry, NeedsMsg, Quiet
  <1>7. /\ ~HasEntry(loc'[t]) /\ ~WillErase(loc'[t]) /\ ~NeedsMsg(loc'[t]) /\ Returns(loc'[t])
        /\ loc'[t].pc # "finish"
    BY <1>5 DEF HasEntry, WillErase, NeedsMsg, Returns
  <1>8. loc[t].msg \in Messages /\ (loc[t].bProcessed => processed[loc[t].msg] > 0)
    BY <1>1, <1>6, Zenon DEF PoolInv, LocalsFit, ErasedIsSafe
  <1>9. PoolTypeOK'
    BY <1>1, <1>2, <1>3, <1>5 DEF PoolTypeOK, Entries, GivenUp
  <1>10. DistinctAdr'
    BY <1>2 DEF DistinctAdr, Distinct, GivenUp
  <1>11. SafeFrame
    <2> SUFFICES ASSUME NEW m \in Messages, On(msgQueue, m)
                 PROVE  On(msgQueue', m) \/ processed[m] > 0
      BY <1>3, Zenon DEF SafeFrame, Safe, SafeIn
    <2>1. CASE loc[t].bProcessed
      BY <1>2, <1>8, <2>1, Zenon DEF GivenUp, KeepsBesides
    <2>2. CASE ~loc[t].bProcessed
      BY <1>2, <2>2, Zenon DEF GivenUp, KeepsMessages
    <2> QED
      BY <2>1, <2>2
  <1>12. ASSUME NEW u \in Threads, u # t
         PROVE  u \in Actors /\ loc'[u] = loc[u]
    BY <1>5, <1>12 DEF Actors
  <1>13. Lives'
    <2> SUFFICES ASSUME NEW u \in Threads, pool'[u].life # "active"
                 PROVE  loc'[u].pc = "off"
      BY DEF Lives
    <2>1. loc[u].pc = "off"
      BY <1>3 DEF PoolInv, Lives
    <2> QED
      BY <1>6, <1>12, <2>1
  <1>14. Stopped'
    <2>1. ASSUME NEW u \in Threads, Quiet(loc[u])
          PROVE  Quiet(loc'[u])
      BY <1>6, <1>12, <2>1, Zenon
    <2>2. loc'[Owner] = loc[Owner]
      BY <1>1, <1>5, Zenon
    <2>3. bDisable => bDisable'
      BY <1>3
    <2> QED
      BY <2>1, <2>2, <2>3, StoppedFrame, Zenon
  <1>15. NothingLost'
    <2>1. sent' \subseteq Messages /\ sent' = sent /\ future' = future
      BY <1>3, <1>9 DEF PoolTypeOK
    <2>2. ASSUME NEW b \in Actors, loc[b].pc \in {"send", "full"}
          PROVE  loc'[b].pc \in {"send", "full"} /\ loc'[b].msg = loc[b].msg
      BY <1>5, <1>6, <2>2, Zenon
    <2> QED
      BY <1>11, <2>1, <2>2, LostFrame, Zenon
  <1>16. ASSUME NEW u \in Threads
         PROVE  WorkFrame(u)
    <2>1. pool'[u].bInUse = pool[u].bInUse /\ pool'[u].group = pool[u].group
      BY <1>3
    <2>2. CASE u = t
      BY <1>7, <2>1, <2>2, Zenon DEF WorkFrame
    <2>3. CASE u # t
      <3>1. loc'[u] = loc[u]
        BY <1>12, <2>3
      <3>2. ASSUME HasEntry(loc[u])
            PROVE  pool[u].bInUse /\ Marked(msgQueue', loc[u])
        <4>1. loc[u].adr # loc[t].adr
          BY <1>6, <2>3, <3>2, Zenon DEF PoolInv, EntriesApart
        <4>2. pool[u].bInUse /\ Marked(msgQueue, loc[u])
          BY <3>2, Zenon DEF PoolInv, EntriesKept
        <4> QED
          BY <1>2, <4>1, <4>2, Zenon DEF GivenUp, KeepsOthers
      <3> QED
        BY <2>1, <3>1, <3>2, Zenon DEF WorkFrame
    <2> QED
      BY <2>2, <2>3
  <1>17. ASSUME NEW b \in Actors
         PROVE  ActorFrame(b)
    BY <1>5, <1>7, Zenon DEF ActorFrame
  <1> QED
    BY <1>9, <1>10, <1>11, <1>13, <1>14, <1>15, <1>16, <1>17, Frame, Zenon

(* DiscardPool comes after the threads: nobody has an entry.               *)
LEMMA DiscardPoolKeeps ==
    ASSUME PoolInv, DiscardPool
    PROVE  PoolInv'
  <1>1. /\ PoolTypeOK /\ Owner \in Actors /\ Owner \notin Threads /\ loc[Owner].pc = "discard"
        /\ "terminated" \in Places
    BY PoolAssumption DEF PoolInv, DiscardPool, At, Actors, Places
  <1>2. /\ removed' = removed \cup {msgQueue[i].msg : i \in DOMAIN msgQueue}
                              \cup {future[i].msg : i \in DOMAIN future}
        /\ msgQueue' = << >> /\ future' = << >>
        /\ loc' = [loc EXCEPT ![Owner].pc = "terminated"]
        /\ UNCHANGED <<pool, bDisable, dwMaxNumThreads, plan, unsent, sent, processed>>
    BY DEF DiscardPool, Goto
  <1>3. /\ loc' \in [Actors -> Locals] /\ \A b \in Actors : b # Owner => loc'[b] = loc[b]
        /\ loc'[Owner].pc = "terminated"
    BY <1>1, <1>2, PlaceMoves
  <1>4. /\ removed' \subseteq Messages /\ removed \subseteq removed'
        /\ \A m : On(msgQueue, m) \/ On(future, m) => m \in removed'
    <2>1. /\ \A i \in DOMAIN msgQueue : msgQueue[i].msg \in Messages
          /\ \A i \in DOMAIN future : future[i].msg \in Messages
      BY <1>1, QueueFacts DEF Entries, Later
    <2>2. removed \subseteq Messages
      BY <1>1 DEF PoolTypeOK
    <2>3. removed' \subseteq Messages
      BY <1>2, <2>1, <2>2
    <2>4. removed \subseteq removed'
      BY <1>2
    <2>5. ASSUME NEW m, On(msgQueue, m) \/ On(future, m)
          PROVE  m \in removed'
      BY <1>2, <2>5 DEF On
    <2> QED
      BY <2>3, <2>4, <2>5
  <1>5. PoolTypeOK'
    BY <1>1, <1>2, <1>3, <1>4 DEF PoolTypeOK
  <1>6. DistinctAdr'
    BY <1>2 DEF DistinctAdr
  <1>7. SafeFrame
    BY <1>2, <1>4 DEF SafeFrame, Safe, SafeIn
  <1>8. ASSUME NEW t \in Threads
        PROVE  t \in Actors /\ loc'[t] = loc[t] /\ Quiet(loc[t]) /\ ~HasEntry(loc[t])
    <2>1. Quiet(loc[t])
      BY <1>1 DEF PoolInv, Stopped
    <2>2. ~HasEntry(loc[t])
      BY <2>1 DEF Quiet, HasEntry
    <2> QED
      BY <1>1, <1>3, <2>1, <2>2 DEF Actors
  <1>9. Lives'
    BY <1>2, <1>8 DEF PoolInv, Lives
  <1>10. Stopped'
    <2>1. bDisable'
      BY <1>1, <1>2 DEF PoolInv, Stopped
    <2>2. \A t \in Threads : Quiet(loc'[t])
      BY <1>8, Zenon
    <2> QED
      BY <2>1, <2>2, Zenon DEF Stopped
  <1>11. NothingLost'
    <2>1. sent' \subseteq Messages /\ sent' = sent
      BY <1>2, <1>5 DEF PoolTypeOK
    <2>2. ASSUME NEW b \in Actors, loc[b].pc \in {"send", "full"}
          PROVE  loc'[b].pc \in {"send", "full"} /\ loc'[b].msg = loc[b].msg
      BY <1>1, <1>3, <2>2
    <2>3. \A m \in Messages : On(future, m) => SafeIn(msgQueue', processed', removed', m)
      BY <1>4, Zenon DEF SafeIn
    <2> QED
      BY <1>7, <2>1, <2>2, <2>3, LostFrame, Zenon
  <1>12. ASSUME NEW t \in Threads
         PROVE  WorkFrame(t)
    <2>1. pool'[t] = pool[t]
      BY <1>2
    <2> QED
      BY <1>8, <2>1, Zenon DEF WorkFrame
  <1>13. ASSUME NEW b \in Actors
         PROVE  ActorFrame(b)
    <2>1. /\ ~WillErase(loc'[Owner]) /\ ~NeedsMsg(loc'[Owner]) /\ Returns(loc'[Owner])
          /\ loc'[Owner].pc # "finish"
      BY <1>3 DEF WillErase, NeedsMsg, HasEntry, Returns
    <2> QED
      BY <1>3, <2>1, Zenon DEF ActorFrame
  <1> QED
    BY <1>5, <1>6, <1>7, <1>9, <1>10, <1>11, <1>12, <1>13, Frame, Zenon
-----------------------------------------------------------------------------
LEMMA PoolInitHolds ==
    ASSUME PoolInit
    PROVE  PoolInv
  <1>1. PICK s \in Scenarios : plan = s.plan /\ unsent = s.send
    BY DEF PoolInit
  <1>2. plan \in Plans /\ unsent \subseteq Messages
    BY <1>1, PoolAssumption
  <1>3. ASSUME NEW a \in Actors
        PROVE  /\ loc[a] \in Locals
               /\ loc[a].pc = IF a \in Threads THEN "off" ELSE "ready"
    <2>1. loc[a] = NoLoc(IF a \in Threads THEN "off" ELSE "ready")
      BY DEF PoolInit
    <2>2. "off" \in Places /\ "ready" \in Places
      BY DEF Places
    <2> QED
      BY <2>1, <2>2, NoLocTyped
  <1>4. loc \in [Actors -> Locals]
    <2>1. loc = [a \in Actors |-> NoLoc(IF a \in Threads THEN "off" ELSE "ready")]
      BY DEF PoolInit
    <2>2. DOMAIN loc = Actors /\ loc = [a \in Actors |-> loc[a]]
      BY <2>1
    <2> QED
      BY <1>3, <2>2, Zenon
  <1>5. pool \in [Threads -> Work] /\ \A t \in Threads : ~pool[t].bInUse
    <2>1. NoWork \in Work /\ ~NoWork.bInUse
      BY DEF NoWork, Work, DontCare
    <2> QED
      BY <2>1 DEF PoolInit
  <1>6. PoolTypeOK
    <2>1. dwMaxNumThreads \in Nat
      BY PoolAssumption DEF PoolInit
    <2>2. msgQueue = << >> /\ future = << >> /\ bDisable = FALSE /\ sent = {} /\ removed = {}
      BY DEF PoolInit
    <2>3. processed \in [Messages -> Nat]
      BY DEF PoolInit
    <2> QED
      <3>1. msgQueue \in Seq(Entries) /\ future \in Seq(Later)
        BY <2>2
      <3>2. {unsent, sent, removed} \subseteq SUBSET Messages /\ bDisable \in BOOLEAN
        BY <1>2, <2>2
      <3> QED
        BY <1>2, <1>4, <1>5, <2>1, <2>3, <3>1, <3>2 DEF PoolTypeOK, Work, Entries, Later
  <1>7. DistinctAdr /\ NothingLost
    BY DEF PoolInit, DistinctAdr, NothingLost
  <1>8. ASSUME NEW a \in Actors
        PROVE  /\ ~HasEntry(loc[a]) /\ ~WillErase(loc[a]) /\ ~NeedsMsg(loc[a]) /\ Returns(loc[a])
               /\ loc[a].pc # "finish"
    <2>1. loc[a].pc \in {"off", "ready"}
      BY <1>3
    <2> QED
      BY <2>1 DEF HasEntry, WillErase, NeedsMsg, Returns
  <1>9. LocalsFit /\ ErasedIsSafe
    BY <1>8, Zenon DEF LocalsFit, ErasedIsSafe
  <1>10. \A t \in Threads : t \in Actors
    BY DEF Actors
  <1>11. EntriesKept /\ EntriesApart /\ GroupsTogether
    BY <1>5, <1>8, <1>10, Zenon DEF EntriesKept, EntriesApart, GroupsTogether
  <1>12. Lives
    BY <1>3, <1>10 DEF Lives
  <1>13. Stopped
    <2>1. loc[Owner].pc = "ready"
      BY <1>3, PoolAssumption DEF Actors
    <2> QED
      BY <2>1 DEF Stopped
  <1> QED
    BY <1>6, <1>7, <1>9, <1>11, <1>12, <1>13, Zenon DEF PoolInv

LEMMA AddThreadsKeeps ==
    ASSUME PoolInv, NEW a \in Actors, AddThreads(a)
    PROVE  PoolInv'
  BY AddThreadsLimitKeeps, AddThreadsStartKeeps, Zenon DEF AddThreads

LEMMA TransferKeeps ==
    ASSUME PoolInv, NEW a \in Threads \cup {Owner}, TransferFutureQueue(a)
    PROVE  PoolInv'
  BY TransferScanKeeps, TransferSendKeeps, TransferEraseKeeps, Zenon DEF TransferFutureQueue

LEMMA ThreadStepKeeps ==
    ASSUME PoolInv, NEW t \in Threads, ThreadStep(t)
    PROVE  PoolInv'
  <1>1. t \in Actors /\ t \in Threads \cup {Owner}
    BY DEF Actors
  <1>2. CASE Wakes(t)
    BY <1>2, WakesKeeps
  <1>3. CASE Pick(t)
    BY <1>3, PickKeeps
  <1>4. CASE \E ok \in BOOLEAN : DoProcess(t, ok)
    BY <1>4, DoProcessKeeps
  <1>5. CASE Finish(t)
    BY <1>5, FinishKeeps
  <1>6. CASE SetIdle(t)
    BY <1>6, SetIdleKeeps
  <1>7. CASE LimitTest(t)
    BY <1>7, LimitTestKeeps
  <1>8. CASE KillOver(t)
    BY <1>8, KillOverKeeps
  <1>9. CASE House(t)
    BY <1>9, HouseKeeps
  <1>10. CASE Cull(t)
    BY <1>10, CullKeeps
  <1>11. CASE FutureTest(t)
    BY <1>11, FutureTestKeeps
  <1>12. CASE EndOfWork(t)
    BY <1>12, EndOfWorkKeeps
  <1>13. CASE AddThreads(t)
    BY <1>1, <1>13, AddThreadsKeeps
  <1>14. CASE TransferFutureQueue(t)
    BY <1>1, <1>14, TransferKeeps
  <1> QED
    BY <1>2, <1>3, <1>4, <1>5, <1>6, <1>7, <1>8, <1>9, <1>10, <1>11, <1>12, <1>13, <1>14
       DEF ThreadStep

LEMMA ClientStepKeeps ==
    ASSUME PoolInv, NEW c \in Clients, ClientStep(c)
    PROVE  PoolInv'
  <1>1. c \in Actors
    BY DEF Actors
  <1>2. CASE \E m \in Messages : SendMessageToPool(c, m)
    BY <1>2, SendMessageToPoolKeeps
  <1>3. CASE \E m \in Messages : SendMessageToPoolDelayed(c, m)
    BY <1>3, SendDelayedKeeps
  <1>4. CASE SendUnblocked(c) \/ SendShutDown(c)
    BY <1>4, SendUnblockedKeeps
  <1>5. CASE SendInsert(c)
    BY <1>5, SendInsertKeeps
  <1>6. CASE SendReturns(c)
    BY <1>6, SendReturnsKeeps
  <1>7. CASE AddThreads(c)
    BY <1>1, <1>7, AddThreadsKeeps
  <1> QED
    BY <1>2, <1>3, <1>4, <1>5, <1>6, <1>7 DEF ClientStep

LEMMA OwnerStepKeeps ==
    ASSUME PoolInv, OwnerStep
    PROVE  PoolInv'
  <1>1. Owner \in Actors /\ Owner \in Threads \cup {Owner}
    BY DEF Actors
  <1>2. CASE SetMaxThreads
    BY <1>2, SetMaxThreadsKeeps
  <1>3. CASE \E m \in Messages : SearchMessageKill(m)
    BY <1>3, SearchMessageKillKeeps
  <1>4. CASE DeleteOldThreadEntries
    BY <1>4, DeleteOldKeeps
  <1>5. CASE TerminateBegins
    BY <1>5, TerminateBeginsKeeps
  <1>6. CASE KillAll
    BY <1>6, KillAllKeeps
  <1>7. CASE KillAgain
    BY <1>7, KillAgainKeeps
  <1>8. CASE AllStopped
    BY <1>8, AllStoppedKeeps
  <1>9. CASE DiscardPool
    BY <1>9, DiscardPoolKeeps
  <1>10. CASE TransferFutureQueue(Owner)
    BY <1>1, <1>10, TransferKeeps
  <1>11. CASE AddThreads(Owner)
    BY <1>1, <1>11, AddThreadsKeeps
  <1>12. CASE ClearPool
    BY <1>12, ClearedKeeps, ClearingKeeps
  <1> QED
    BY <1>2, <1>3, <1>4, <1>5, <1>6, <1>7, <1>8, <1>9, <1>10, <1>11, <1>12
       DEF OwnerStep, TerminateStep

(* Every step of the threads, the clients, the owner and the clock keeps   *)
(* the invariant.                                                          *)
LEMMA PoolNextKeeps ==
    ASSUME PoolInv, [PoolNext]_poolVars
    PROVE  PoolInv'
  <1>1. CASE \E t \in Threads : ThreadStep(t)
    BY <1>1, ThreadStepKeeps
  <1>2. CASE \E c \in Clients : ClientStep(c)
    BY <1>2, ClientStepKeeps
  <1>3. CASE OwnerStep
    BY <1>3, OwnerStepKeeps
  <1>4. CASE TimePasses
    BY <1>4, TimePassesKeeps
  <1>5. CASE UNCHANGED poolVars
    BY <1>5, StutterKeeps
  <1> QED
    BY <1>1, <1>2, <1>3, <1>4, <1>5 DEF PoolNext

-----------------------------------------------------------------------------
(* PoolInv holds in every state of the pool.                               *)
THEOREM PoolInductive == PoolSpec => []PoolInv
  <1>1. PoolInit => PoolInv
    BY PoolInitHolds
  <1>2. PoolInv /\ [PoolNext]_poolVars => PoolInv'
    BY PoolNextKeeps
  <1> QED
    BY <1>1, <1>2, PTL DEF PoolSpec

(* The pool's variables keep their types: AddThreads' limit is an integer  *)
(* whatever the ranges are, and the entries on the queues are messages.    *)
THEOREM PoolTypeCorrect == PoolSpec => []PoolTypeOK
  <1>1. PoolInv => PoolTypeOK
    BY DEF PoolInv
  <1> QED
    BY <1>1, PoolInductive, PTL

(* uGrouping: for any number of threads and messages, two messages that    *)
(* DoProcess works on at the same time are of one group that need not run  *)
(* alone, and pMsg, used without the lock, is the thread's own entry.      *)
THEOREM GroupExclusionHolds == PoolSpec => []GroupExclusion
  <1>1. ASSUME PoolInv
        PROVE  GroupExclusion
    <2>1. ASSUME NEW t \in Threads, HasEntry(loc[t])
          PROVE  /\ pool[t].bInUse /\ pool[t].group = Grouping[loc[t].msg]
                 /\ Marked(msgQueue, loc[t])
      BY <1>1, <2>1, Zenon DEF PoolInv, EntriesKept
    <2>2. ASSUME NEW t \in Threads, NEW u \in Threads, t # u, At(t, "process"), At(u, "process")
          PROVE  Together(Grouping[loc[t].msg], Grouping[loc[u].msg])
      <3>1. HasEntry(loc[t]) /\ HasEntry(loc[u])
        BY <2>2 DEF At, HasEntry
      <3>2. /\ pool[t].bInUse /\ pool[t].group = Grouping[loc[t].msg]
            /\ pool[u].bInUse /\ pool[u].group = Grouping[loc[u].msg]
        BY <2>1, <3>1
      <3>3. Together(pool[t].group, pool[u].group)
        BY <1>1, <2>2, <3>2, Zenon DEF PoolInv, GroupsTogether
      <3> QED
        BY <3>2, <3>3
    <2>3. ASSUME NEW t \in Threads, Working(t)
          PROVE  HasEntry(loc[t])
      BY <2>3 DEF Working, HasEntry
    <2>4. ASSUME NEW t \in Threads, Working(t)
          PROVE  \E i \in Entry(loc[t].adr) :
                     msgQueue[i].bProcessing /\ msgQueue[i].msg = loc[t].msg
      <3>1. Marked(msgQueue, loc[t])
        BY <2>1, <2>3, <2>4
      <3> QED
        BY <3>1 DEF Marked, Entry
    <2>5. ASSUME NEW t \in Threads, NEW u \in Threads, t # u, Working(t), Working(u)
          PROVE  loc[t].adr # loc[u].adr
      BY <1>1, <2>3, <2>5, Zenon DEF PoolInv, EntriesApart
    <2> QED
      BY <2>2, <2>4, <2>5 DEF GroupExclusion
  <1> QED
    BY <1>1, PoolInductive, PTL

(* No message is lost, through transfers from the future queue, refusals   *)
(* of DoProcess, kills and Terminate, for any number of senders.           *)
THEOREM NothingLostHolds == PoolSpec => []NothingLost
  <1>1. PoolInv => NothingLost
    BY DEF PoolInv
  <1> QED
    BY <1>1, PoolInductive, PTL

(* Once Terminate has returned no thread is in DoProcess or on its way     *)
(* there, however many threads flushing the future queue starts again.     *)
THEOREM NoWorkAfterTerminateHolds == PoolSpec => []NoWorkAfterTerminate
  <1>1. ASSUME PoolInv
        PROVE  NoWorkAfterTerminate
    <2> SUFFICES ASSUME loc[Owner].pc = "terminated", NEW t \in Threads
                 PROVE  ~Working(t) /\ ~At(t, "pick")
      BY DEF NoWorkAfterTerminate, At
    <2>1. Quiet(loc[t])
      BY <1>1 DEF PoolInv, Stopped
    <2> QED
      BY <2>1 DEF Quiet, Working, At
  <1> QED
    BY <1>1, PoolInductive, PTL
=============================================================================
